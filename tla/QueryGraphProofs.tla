-------------------------- MODULE QueryGraphProofs --------------------------
(***************************************************************************)
(* Proofs about QueryGraph for any settings of any of the seven graphs:    *)
(* any budgets of retries, rewrites and hops, any ceiling, any routes and  *)
(* any outcomes of the nodes.  First what the proofs need of the nodes:    *)
(* what each may write and spend, that every action is a node that returns *)
(* such a partial state or the end of a superstep, what a superstep does   *)
(* to the channels, and which nodes follow a node.  Then Base, the         *)
(* inductive invariant of the types and of the nodes that may be due       *)
(* together; Told, Vetted, Judged, Bounded, Reserve and Paced add to it    *)
(* what each property needs.                                               *)
(***************************************************************************)
EXTENDS QueryGraph, TLAPS

StoreNodes == {"retrieve_vector", "retrieve_relational", "retrieve_graph", "retrieve_web"}
ModeNodes == {"graph_local", "graph_global", "graph_drift"}
Narrowing == {"rerank", "refine", "compress"}
Graders == {"verify_groundedness", "verify_utility"}

Channels == {"route", "retrieval", "legs", "web", "grade", "grounded", "useful",
             "report", "errors", "search_mode", "retrieve_iterations",
             "generate_iterations", "answer", "lost", "uncounted"}

\* What a channel may hold, and so what a node may write to it.
Kind(c) ==
    CASE c = "route" -> settings.routes \cup {{}, {"vector"}}
      [] c \in {"retrieval", "legs"} -> SUBSET Chunks
      [] c = "web" -> SUBSET {"web"}
      [] c = "grade" -> Grades
      [] c = "report" -> Reports
      [] c = "answer" -> {"none", "answer", "abstained"}
      [] c = "search_mode" -> {"", "bridge", "local", "global", "drift"}
      [] c \in {"retrieve_iterations", "generate_iterations"} -> Nat
      [] OTHER -> BOOLEAN

Typed(p) == DOMAIN p \subseteq Channels /\ \A c \in DOMAIN p : p[c] \in Kind(c)

\* The channels a node may write.
Writes(n) ==
    CASE n \in {"translate", "construct"} -> {"errors"}
      [] n = "route" -> {"route", "errors"}
      [] n = "retrieve" -> {"retrieval", "legs", "errors", "lost"}
      [] n \in StoreNodes -> {"legs", "errors", "lost"}
      [] n \in ModeNodes -> {"legs", "errors", "lost", "search_mode"}
      [] n \in {"fuse", "collect"} -> {"retrieval"}
      [] n \in Narrowing -> {"retrieval", "errors"}
      [] n = "grade" -> {"retrieval", "legs", "grade", "errors", "lost"}
      [] n \in {"rewrite", "retry"} -> {"retrieve_iterations", "errors"}
      [] n = "web_search" -> {"web", "errors"}
      [] n = "check_sufficiency" -> {"report", "errors"}
      [] n = "hop" -> {"legs", "retrieve_iterations", "errors", "lost"}
      [] n = "bridge" -> {"retrieval", "legs", "search_mode", "errors", "lost"}
      [] n = "classify" -> {"search_mode"}
      [] n = "generate" -> {"answer", "errors", "uncounted", "grounded",
                            "generate_iterations"}
      [] n = "verify_groundedness" -> {"grounded", "errors"}
      [] n = "verify_utility" -> {"useful", "errors"}
      [] n = "judge" -> {"answer"}
      [] n = "abstain" -> {"answer", "grounded"}
      [] OTHER -> {}

\* What a node's partial state says, beyond its channels and their types: of

\* the outages, of the documents graded, of the counters, of the verdict on an
\* answer, and of the mode of a graph search.
Telling(n, p) ==
    "lost" \in DOMAIN p /\ p["lost"] /\ n \notin {"grade", "hop"} =>
        "errors" \in DOMAIN p /\ p["errors"]

Vetting(n, p) ==
    /\ n = "grade" =>
         /\ "grade" \in DOMAIN p
         /\ "retrieval" \in DOMAIN p =>
              /\ "rejected" \notin p["retrieval"]
              /\ p["grade"] = "incorrect" => p["retrieval"] = {}
         /\ "retrieval" \notin DOMAIN p => p["grade"] # "incorrect"
    /\ "retrieval" \in DOMAIN p =>
         /\ n \in Narrowing => p["retrieval"] = ch.retrieval
         /\ n = "collect" => p["retrieval"] \subseteq Endorsed
         /\ n = "fuse" => p["retrieval"] \subseteq ch.legs
         /\ n \in {"retrieve", "bridge"} => p["retrieval"] \subseteq {"ungraded"}
    /\ "legs" \in DOMAIN p /\ n # "grade" => p["legs"] \subseteq {"ungraded", "hop"}

Counting(n, p) ==
    /\ n \in {"rewrite", "retry", "hop"} =>
         /\ "retrieve_iterations" \in DOMAIN p
         /\ p["retrieve_iterations"] = ch.retrieve_iterations + 1
    /\ n = "generate" =>
         IF "generate_iterations" \in DOMAIN p
         THEN p["generate_iterations"] = ch.generate_iterations + 1
         ELSE "uncounted" \in DOMAIN p /\ p["uncounted"]

Judging(n, p) ==
    /\ n = "verify_groundedness" /\ ch.answer = "answer" => "grounded" \in DOMAIN p
    /\ n = "verify_utility" /\ ch.answer = "answer" => "useful" \in DOMAIN p
    /\ n = "judge" => "answer" \in DOMAIN p /\ p["answer"] = ch.answer
    /\ n = "abstain" /\ settings.allow =>
         "answer" \in DOMAIN p /\ p["answer"] = "abstained"

Choosing(n, p) ==
    n \in {"classify"} \cup ModeNodes =>
        "search_mode" \in DOMAIN p /\ p["search_mode"] \in {"local", "global", "drift"}

Fits(n, p) ==
    /\ Typed(p) /\ DOMAIN p \subseteq Writes(n)
    /\ Telling(n, p) /\ Vetting(n, p) /\ Counting(n, p) /\ Judging(n, p) /\ Choosing(n, p)

\* The calls a node may make.
Spends(n) ==
    CASE n \in {"construct", "route", "rewrite", "retry", "check_sufficiency"}
               \cup Graders -> 0 .. 1
      [] n = "translate" -> 0 .. Strategies
      [] n = "generate" -> 0 .. 2
      [] n = "grade" -> UNION {made .. made + Allowance(made) : made \in 0 .. RouteCalls}
      [] n \in {"retrieve", "hop"} -> 0 .. RouteCalls
      [] n \in StoreNodes -> 0 .. 2
      [] n \in ModeNodes -> 0 .. MapCap
      [] OTHER -> {0}

Returns == \E n \in due : \E p : \E cost \in Spends(n) : Return(n, p, cost) /\ Fits(n, p)

ChannelsTyped == DOMAIN ch = Channels /\ Typed(ch)

\* The names of the store nodes and of the mode nodes.
LEMMA Names ==
    /\ {StoreNode[d] : d \in Stores} = StoreNodes
    /\ {ModeNode[m] : m \in DOMAIN ModeNode} = ModeNodes
    /\ DOMAIN ModeNode = {"local", "global", "drift"}
BY DEF StoreNodes, ModeNodes, StoreNode, ModeNode, Stores

\* A return that fits its node is a return.
LEMMA Returning ==
    ASSUME NEW n, NEW p, NEW cost \in Spends(n), Return(n, p, cost), Fits(n, p)
    PROVE  Returns
BY DEF Returns, Return

\* The kind of every channel.
LEMMA Kinds ==
    /\ Kind("route") = settings.routes \cup {{}, {"vector"}}
    /\ Kind("retrieval") = SUBSET Chunks /\ Kind("legs") = SUBSET Chunks
    /\ Kind("web") = SUBSET {"web"} /\ Kind("grade") = Grades /\ Kind("report") = Reports
    /\ Kind("answer") = {"none", "answer", "abstained"}
    /\ Kind("search_mode") = {"", "bridge", "local", "global", "drift"}
    /\ Kind("retrieve_iterations") = Nat /\ Kind("generate_iterations") = Nat
    /\ Kind("grounded") = BOOLEAN /\ Kind("useful") = BOOLEAN /\ Kind("errors") = BOOLEAN
    /\ Kind("lost") = BOOLEAN /\ Kind("uncounted") = BOOLEAN
BY DEF Kind

\* Values that the nodes write.
LEMMA Held ==
    /\ {{}, {"ungraded"}} \subseteq Kind("retrieval")
    /\ {{}, {"ungraded"}, {"hop"}} \subseteq Kind("legs")
    /\ {{}, {"web"}} \subseteq Kind("web")
    /\ BOOLEAN \subseteq Kind("errors") /\ BOOLEAN \subseteq Kind("lost")
    /\ BOOLEAN \subseteq Kind("uncounted") /\ BOOLEAN \subseteq Kind("grounded")
    /\ BOOLEAN \subseteq Kind("useful")
    /\ Grades \subseteq Kind("grade")
    /\ {"bridge", "local", "global", "drift"} \subseteq Kind("search_mode")
    /\ {"answer", "abstained"} \subseteq Kind("answer")
    /\ Reports \subseteq Kind("report")
<1>1. {{}, {"ungraded"}} \subseteq SUBSET Chunks /\ {{}, {"ungraded"}, {"hop"}} \subseteq SUBSET Chunks
  BY DEF Chunks
<1>2. QED
  BY <1>1, Kinds DEF Grades

\* What the channels hold, and the counters one further.
LEMMA ChannelKinds ==
    ASSUME ChannelsTyped
    PROVE  /\ \A c \in Channels : ch[c] \in Kind(c)
           /\ ch.retrieval \subseteq Chunks /\ ch.legs \subseteq Chunks
           /\ ch.retrieve_iterations + 1 \in Kind("retrieve_iterations")
           /\ ch.generate_iterations + 1 \in Kind("generate_iterations")
<1>1. \A c \in Channels : ch[c] \in Kind(c)
  BY DEF ChannelsTyped, Typed
<1>2. /\ ch["retrieval"] \in Kind("retrieval") /\ ch["legs"] \in Kind("legs")
      /\ ch["retrieve_iterations"] \in Kind("retrieve_iterations")
      /\ ch["generate_iterations"] \in Kind("generate_iterations")
  BY <1>1 DEF Channels
<1>3. ch["retrieval"] \in SUBSET Chunks /\ ch["legs"] \in SUBSET Chunks
  BY <1>2, Kinds
<1>4. ch["retrieve_iterations"] \in Nat /\ ch["generate_iterations"] \in Nat
  BY <1>2, Kinds
<1>5. ch["retrieve_iterations"] + 1 \in Nat /\ ch["generate_iterations"] + 1 \in Nat
  BY <1>4
<1>6. QED
  BY <1>1, <1>3, <1>5, Kinds

\* A node that fails returns, whether its call was spent or not.
LEMMA Failing ==
    ASSUME NEW n, NEW p, Fails(n, p), Fits(n, p), 0 \in Spends(n), 1 \in Spends(n)
    PROVE  Returns
BY Returning DEF Fails

----------------------------------------------------------------------------
(* One lemma for each partial state a node returns: it fits the node.  Here *)
(* and below, yes and no stand for TRUE and FALSE, which the provers do not *)
(* take as the fields of a record.                                          *)

\* The empty partial state fits every node that need not write.
LEMMA NothingFits ==
    ASSUME NEW n,
           n \notin {"grade", "rewrite", "retry", "hop", "generate", "judge", "classify"} \cup ModeNodes,
           n \in Graders => ch.answer # "answer", n = "abstain" => ~settings.allow
    PROVE  Fits(n, Nothing)
<1>1. DOMAIN Nothing = {}
  BY DEF Nothing
<1>2. QED
  BY <1>1 DEF Fits, Typed, Telling, Vetting, Counting, Judging, Choosing, Graders

LEMMA FailureFits ==
    ASSUME NEW n \in {"translate", "construct", "web_search"} \cup Narrowing, NEW yes \in BOOLEAN
    PROVE  yes => Fits(n, [errors |-> yes])
<1>1. yes \in Kind("errors")
  BY Held
<1>2. Typed([errors |-> yes])
  BY <1>1 DEF Typed, Channels
<1>3. QED
  BY <1>2 DEF Fits, Telling, Vetting, Counting, Judging, Choosing, Writes,
           StoreNodes, ModeNodes, Narrowing, Graders

LEMMA RouteFits ==
    ASSUME NEW r \in settings.routes
    PROVE  Fits("route", [route |-> r])
<1>1. r \in Kind("route")
  BY Kinds
<1>2. Typed([route |-> r])
  BY <1>1 DEF Typed, Channels
<1>3. QED
  BY <1>2 DEF Fits, Telling, Vetting, Counting, Judging, Choosing, Writes,
           StoreNodes, ModeNodes, Narrowing, Graders

LEMMA RouteFailureFits ==
    ASSUME NEW yes \in BOOLEAN
    PROVE  yes => Fits("route", [route |-> {"vector"}, errors |-> yes])
<1>1. {"vector"} \in Kind("route") /\ yes \in Kind("errors")
  BY Held, Kinds
<1>2. Typed([route |-> {"vector"}, errors |-> yes])
  BY <1>1 DEF Typed, Channels
<1>3. QED
  BY <1>2 DEF Fits, Telling, Vetting, Counting, Judging, Choosing, Writes,
           StoreNodes, ModeNodes, Narrowing, Graders

LEMMA RetrieveFits ==
    ASSUME NEW found \in {{}, {"ungraded"}}, NEW down \in BOOLEAN
    PROVE  Fits("retrieve", [retrieval |-> found, legs |-> found, errors |-> down, lost |-> down])
<1>1. /\ found \in Kind("retrieval") /\ found \in Kind("legs")
      /\ down \in Kind("errors") /\ down \in Kind("lost")
  BY Held
<1>2. Typed([retrieval |-> found, legs |-> found, errors |-> down, lost |-> down])
  BY <1>1 DEF Typed, Channels
<1>3. QED
  BY <1>2 DEF Fits, Telling, Vetting, Counting, Judging, Choosing, Writes,
           StoreNodes, ModeNodes, Narrowing, Graders

LEMMA RetrieveFailureFits ==
    ASSUME NEW yes \in BOOLEAN
    PROVE  yes => Fits("retrieve", [retrieval |-> {}, errors |-> yes, lost |-> yes])
<1>1. /\ {} \in Kind("retrieval")
      /\ yes \in Kind("errors") /\ yes \in Kind("lost")
  BY Held
<1>2. Typed([retrieval |-> {}, errors |-> yes, lost |-> yes])
  BY <1>1 DEF Typed, Channels
<1>3. QED
  BY <1>2 DEF Fits, Telling, Vetting, Counting, Judging, Choosing, Writes,
           StoreNodes, ModeNodes, Narrowing, Graders

LEMMA LegFits ==
    ASSUME NEW n \in StoreNodes, NEW found \in {{}, {"ungraded"}}, NEW down \in BOOLEAN
    PROVE  Fits(n, [legs |-> found, errors |-> down, lost |-> down])
<1>1. /\ found \in Kind("legs")
      /\ down \in Kind("errors") /\ down \in Kind("lost")
  BY Held
<1>2. Typed([legs |-> found, errors |-> down, lost |-> down])
  BY <1>1 DEF Typed, Channels
<1>3. QED
  BY <1>2 DEF Fits, Telling, Vetting, Counting, Judging, Choosing, Writes,
           StoreNodes, ModeNodes, Narrowing, Graders

LEMMA ModeFits ==
    ASSUME NEW n \in ModeNodes, NEW m \in {"local", "global", "drift"},
           NEW found \in {{}, {"ungraded"}}, NEW down \in BOOLEAN
    PROVE  Fits(n, [legs |-> found, errors |-> down, lost |-> down, search_mode |-> m])
<1>1. /\ found \in Kind("legs")
      /\ down \in Kind("errors") /\ down \in Kind("lost")
      /\ m \in Kind("search_mode")
  BY Held
<1>2. Typed([legs |-> found, errors |-> down, lost |-> down, search_mode |-> m])
  BY <1>1 DEF Typed, Channels
<1>3. QED
  BY <1>2 DEF Fits, Telling, Vetting, Counting, Judging, Choosing, Writes,
           StoreNodes, ModeNodes, Narrowing, Graders

LEMMA FuseFits ==
    ASSUME NEW kept \in {{}, ch.legs}, ChannelsTyped
    PROVE  Fits("fuse", [retrieval |-> kept])
<1>1. kept \in Kind("retrieval")
  BY ChannelKinds, Kinds
<1>2. Typed([retrieval |-> kept])
  BY <1>1 DEF Typed, Channels
<1>3. QED
  BY <1>2 DEF Fits, Telling, Vetting, Counting, Judging, Choosing, Writes,
           StoreNodes, ModeNodes, Narrowing, Graders

LEMMA CollectFits ==
    ASSUME NEW kept \in {{}, Endorsed}, ChannelsTyped
    PROVE  Fits("collect", [retrieval |-> kept])
<1>1. kept \in Kind("retrieval")
  BY ChannelKinds, Kinds DEF Endorsed
<1>2. Typed([retrieval |-> kept])
  BY <1>1 DEF Typed, Channels
<1>3. QED
  BY <1>2 DEF Fits, Telling, Vetting, Counting, Judging, Choosing, Writes,
           StoreNodes, ModeNodes, Narrowing, Graders

LEMMA NarrowFits ==
    ASSUME NEW n \in Narrowing, ChannelsTyped
    PROVE  Fits(n, [retrieval |-> ch.retrieval])
<1>1. ch["retrieval"] \in Kind("retrieval")
  BY ChannelKinds DEF Channels
<1>2. Typed([retrieval |-> ch.retrieval])
  BY <1>1 DEF Typed, Channels
<1>3. QED
  BY <1>2 DEF Fits, Telling, Vetting, Counting, Judging, Choosing, Writes,
           StoreNodes, ModeNodes, Narrowing, Graders

LEMMA UngradedFits ==
    ASSUME NEW down \in BOOLEAN
    PROVE  Fits("grade", [retrieval |-> {"ungraded"}, legs |-> {"ungraded"}, grade |-> "unset", lost |-> down])
<1>1. /\ {"ungraded"} \in Kind("retrieval") /\ {"ungraded"} \in Kind("legs")
      /\ "unset" \in Kind("grade") /\ down \in Kind("lost")
  BY Held DEF Grades
<1>2. Typed([retrieval |-> {"ungraded"}, legs |-> {"ungraded"}, grade |-> "unset", lost |-> down])
  BY <1>1 DEF Typed, Channels
<1>3. QED
  BY <1>2 DEF Fits, Telling, Vetting, Counting, Judging, Choosing, Writes,
           StoreNodes, ModeNodes, Narrowing, Graders

LEMMA NoDocumentsFits ==
    ASSUME NEW down \in BOOLEAN
    PROVE  Fits("grade", [retrieval |-> {}, legs |-> {}, grade |-> "incorrect", lost |-> down])
<1>1. /\ {} \in Kind("retrieval") /\ {} \in Kind("legs")
      /\ "incorrect" \in Kind("grade") /\ down \in Kind("lost")
  BY Held DEF Grades
<1>2. Typed([retrieval |-> {}, legs |-> {}, grade |-> "incorrect", lost |-> down])
  BY <1>1 DEF Typed, Channels
<1>3. QED
  BY <1>2 DEF Fits, Telling, Vetting, Counting, Judging, Choosing, Writes,
           StoreNodes, ModeNodes, Narrowing, Graders

LEMMA GradeFailureFits ==
    ASSUME NEW yes \in BOOLEAN
    PROVE  yes => Fits("grade", [grade |-> "unset", errors |-> yes, lost |-> yes])
<1>1. /\ "unset" \in Kind("grade")
      /\ yes \in Kind("errors") /\ yes \in Kind("lost")
  BY Held DEF Grades
<1>2. Typed([grade |-> "unset", errors |-> yes, lost |-> yes])
  BY <1>1 DEF Typed, Channels
<1>3. QED
  BY <1>2 DEF Fits, Telling, Vetting, Counting, Judging, Choosing, Writes,
           StoreNodes, ModeNodes, Narrowing, Graders

LEMMA GradedFits ==
    ASSUME NEW kept \in SUBSET Chunks, NEW legs \in SUBSET Chunks, NEW verdict \in Grades,
           NEW down \in BOOLEAN, "rejected" \notin kept, verdict = "incorrect" => kept = {}
    PROVE  Fits("grade", [retrieval |-> kept, legs |-> legs, grade |-> verdict, lost |-> down])
<1>1. /\ kept \in Kind("retrieval") /\ legs \in Kind("legs")
      /\ verdict \in Kind("grade") /\ down \in Kind("lost")
  BY Held, Kinds
<1>2. Typed([retrieval |-> kept, legs |-> legs, grade |-> verdict, lost |-> down])
  BY <1>1 DEF Typed, Channels
<1>3. QED
  BY <1>2 DEF Fits, Telling, Vetting, Counting, Judging, Choosing, Writes,
           StoreNodes, ModeNodes, Narrowing, Graders

LEMMA RewriteFits ==
    ASSUME NEW n \in {"rewrite", "retry"}, ChannelsTyped
    PROVE  Fits(n, [retrieve_iterations |-> ch.retrieve_iterations + 1])
<1>1. ch.retrieve_iterations + 1 \in Kind("retrieve_iterations")
  BY ChannelKinds
<1>2. Typed([retrieve_iterations |-> ch.retrieve_iterations + 1])
  BY <1>1 DEF Typed, Channels
<1>3. QED
  BY <1>2 DEF Fits, Telling, Vetting, Counting, Judging, Choosing, Writes,
           StoreNodes, ModeNodes, Narrowing, Graders

LEMMA RewriteFailureFits ==
    ASSUME NEW n \in {"rewrite", "retry"}, NEW yes \in BOOLEAN, ChannelsTyped
    PROVE  yes => Fits(n, [retrieve_iterations |-> ch.retrieve_iterations + 1, errors |-> yes])
<1>1. /\ ch.retrieve_iterations + 1 \in Kind("retrieve_iterations")
      /\ yes \in Kind("errors")
  BY ChannelKinds, Held
<1>2. Typed([retrieve_iterations |-> ch.retrieve_iterations + 1, errors |-> yes])
  BY <1>1 DEF Typed, Channels
<1>3. QED
  BY <1>2 DEF Fits, Telling, Vetting, Counting, Judging, Choosing, Writes,
           StoreNodes, ModeNodes, Narrowing, Graders

LEMMA WebFits ==
    ASSUME NEW found \in {{}, {"web"}}
    PROVE  Fits("web_search", [web |-> found])
<1>1. found \in Kind("web")
  BY Held
<1>2. Typed([web |-> found])
  BY <1>1 DEF Typed, Channels
<1>3. QED
  BY <1>2 DEF Fits, Telling, Vetting, Counting, Judging, Choosing, Writes,
           StoreNodes, ModeNodes, Narrowing, Graders

LEMMA CheckFits ==
    ASSUME NEW r \in Reports
    PROVE  Fits("check_sufficiency", [report |-> r])
<1>1. r \in Kind("report")
  BY Held
<1>2. Typed([report |-> r])
  BY <1>1 DEF Typed, Channels
<1>3. QED
  BY <1>2 DEF Fits, Telling, Vetting, Counting, Judging, Choosing, Writes,
           StoreNodes, ModeNodes, Narrowing, Graders

LEMMA CheckFailureFits ==
    ASSUME NEW yes \in BOOLEAN
    PROVE  yes => Fits("check_sufficiency", [report |-> "nothing_to_ask", errors |-> yes])
<1>1. "nothing_to_ask" \in Kind("report") /\ yes \in Kind("errors")
  BY Held DEF Reports
<1>2. Typed([report |-> "nothing_to_ask", errors |-> yes])
  BY <1>1 DEF Typed, Channels
<1>3. QED
  BY <1>2 DEF Fits, Telling, Vetting, Counting, Judging, Choosing, Writes,
           StoreNodes, ModeNodes, Narrowing, Graders

LEMMA HopFits ==
    ASSUME NEW found \in {{}, {"hop"}}, NEW down \in BOOLEAN, ChannelsTyped
    PROVE  Fits("hop", [legs |-> found, lost |-> down, retrieve_iterations |-> ch.retrieve_iterations + 1])
<1>1. /\ found \in Kind("legs") /\ down \in Kind("lost")
      /\ ch.retrieve_iterations + 1 \in Kind("retrieve_iterations")
  BY Held, ChannelKinds
<1>2. Typed([legs |-> found, lost |-> down, retrieve_iterations |-> ch.retrieve_iterations + 1])
  BY <1>1 DEF Typed, Channels
<1>3. QED
  BY <1>2 DEF Fits, Telling, Vetting, Counting, Judging, Choosing, Writes,
           StoreNodes, ModeNodes, Narrowing, Graders

LEMMA HopFailureFits ==
    ASSUME NEW yes \in BOOLEAN, ChannelsTyped
    PROVE  yes => Fits("hop", [retrieve_iterations |-> ch.retrieve_iterations + 1, errors |-> yes, lost |-> yes])
<1>1. /\ ch.retrieve_iterations + 1 \in Kind("retrieve_iterations")
      /\ yes \in Kind("errors") /\ yes \in Kind("lost")
  BY Held, ChannelKinds
<1>2. Typed([retrieve_iterations |-> ch.retrieve_iterations + 1, errors |-> yes, lost |-> yes])
  BY <1>1 DEF Typed, Channels
<1>3. QED
  BY <1>2 DEF Fits, Telling, Vetting, Counting, Judging, Choosing, Writes,
           StoreNodes, ModeNodes, Narrowing, Graders

LEMMA BridgeFits ==
    Fits("bridge", [retrieval |-> {"ungraded"}, legs |-> {"ungraded"}, search_mode |-> "bridge"])
<1>1. /\ {"ungraded"} \in Kind("retrieval") /\ {"ungraded"} \in Kind("legs")
      /\ "bridge" \in Kind("search_mode")
  BY Held
<1>2. Typed([retrieval |-> {"ungraded"}, legs |-> {"ungraded"}, search_mode |-> "bridge"])
  BY <1>1 DEF Typed, Channels
<1>3. QED
  BY <1>2 DEF Fits, Telling, Vetting, Counting, Judging, Choosing, Writes,
           StoreNodes, ModeNodes, Narrowing, Graders

LEMMA BridgeFailureFits ==
    ASSUME NEW yes \in BOOLEAN
    PROVE  yes => Fits("bridge", [errors |-> yes, lost |-> yes])
<1>1. yes \in Kind("errors") /\ yes \in Kind("lost")
  BY Held
<1>2. Typed([errors |-> yes, lost |-> yes])
  BY <1>1 DEF Typed, Channels
<1>3. QED
  BY <1>2 DEF Fits, Telling, Vetting, Counting, Judging, Choosing, Writes,
           StoreNodes, ModeNodes, Narrowing, Graders

LEMMA ClassifyFits ==
    ASSUME NEW m \in {"local", "global", "drift"}
    PROVE  Fits("classify", [search_mode |-> m])
<1>1. m \in Kind("search_mode")
  BY Held
<1>2. Typed([search_mode |-> m])
  BY <1>1 DEF Typed, Channels
<1>3. QED
  BY <1>2 DEF Fits, Telling, Vetting, Counting, Judging, Choosing, Writes,
           StoreNodes, ModeNodes, Narrowing, Graders

LEMMA GenerateFailureFits ==
    ASSUME NEW yes \in BOOLEAN
    PROVE  yes => Fits("generate", [answer |-> "abstained", errors |-> yes, uncounted |-> yes])
<1>1. /\ "abstained" \in Kind("answer")
      /\ yes \in Kind("errors") /\ yes \in Kind("uncounted")
  BY Held
<1>2. Typed([answer |-> "abstained", errors |-> yes, uncounted |-> yes])
  BY <1>1 DEF Typed, Channels
<1>3. QED
  BY <1>2 DEF Fits, Telling, Vetting, Counting, Judging, Choosing, Writes,
           StoreNodes, ModeNodes, Narrowing, Graders

LEMMA DirectFits ==
    ASSUME NEW yes \in BOOLEAN, NEW no \in BOOLEAN
    PROVE  yes => Fits("generate", [answer |-> "answer", grounded |-> no, uncounted |-> yes])
<1>1. /\ "answer" \in Kind("answer")
      /\ no \in Kind("grounded") /\ yes \in Kind("uncounted")
  BY Held
<1>2. Typed([answer |-> "answer", grounded |-> no, uncounted |-> yes])
  BY <1>1 DEF Typed, Channels
<1>3. QED
  BY <1>2 DEF Fits, Telling, Vetting, Counting, Judging, Choosing, Writes,
           StoreNodes, ModeNodes, Narrowing, Graders

LEMMA SynthesisFits ==
    ASSUME NEW kind \in {"answer", "abstained"}, NEW grounded \in BOOLEAN, ChannelsTyped
    PROVE  Fits("generate", [answer |-> kind, grounded |-> grounded, generate_iterations |-> ch.generate_iterations + 1])
<1>1. /\ kind \in Kind("answer") /\ grounded \in Kind("grounded")
      /\ ch.generate_iterations + 1 \in Kind("generate_iterations")
  BY Held, ChannelKinds
<1>2. Typed([answer |-> kind, grounded |-> grounded, generate_iterations |-> ch.generate_iterations + 1])
  BY <1>1 DEF Typed, Channels
<1>3. QED
  BY <1>2 DEF Fits, Telling, Vetting, Counting, Judging, Choosing, Writes,
           StoreNodes, ModeNodes, Narrowing, Graders

LEMMA GroundedFits ==
    ASSUME NEW g \in BOOLEAN
    PROVE  Fits("verify_groundedness", [grounded |-> g])
<1>1. g \in Kind("grounded")
  BY Held
<1>2. Typed([grounded |-> g])
  BY <1>1 DEF Typed, Channels
<1>3. QED
  BY <1>2 DEF Fits, Telling, Vetting, Counting, Judging, Choosing, Writes,
           StoreNodes, ModeNodes, Narrowing, Graders

LEMMA GroundedFailureFits ==
    ASSUME NEW g \in BOOLEAN, NEW yes \in BOOLEAN
    PROVE  yes => Fits("verify_groundedness", [grounded |-> g, errors |-> yes])
<1>1. g \in Kind("grounded") /\ yes \in Kind("errors")
  BY Held
<1>2. Typed([grounded |-> g, errors |-> yes])
  BY <1>1 DEF Typed, Channels
<1>3. QED
  BY <1>2 DEF Fits, Telling, Vetting, Counting, Judging, Choosing, Writes,
           StoreNodes, ModeNodes, Narrowing, Graders

LEMMA UsefulFits ==
    ASSUME NEW u \in BOOLEAN
    PROVE  Fits("verify_utility", [useful |-> u])
<1>1. u \in Kind("useful")
  BY Held
<1>2. Typed([useful |-> u])
  BY <1>1 DEF Typed, Channels
<1>3. QED
  BY <1>2 DEF Fits, Telling, Vetting, Counting, Judging, Choosing, Writes,
           StoreNodes, ModeNodes, Narrowing, Graders

LEMMA UsefulFailureFits ==
    ASSUME NEW yes \in BOOLEAN
    PROVE  yes => Fits("verify_utility", [useful |-> yes, errors |-> yes])
<1>1. yes \in Kind("useful") /\ yes \in Kind("errors")
  BY Held
<1>2. Typed([useful |-> yes, errors |-> yes])
  BY <1>1 DEF Typed, Channels
<1>3. QED
  BY <1>2 DEF Fits, Telling, Vetting, Counting, Judging, Choosing, Writes,
           StoreNodes, ModeNodes, Narrowing, Graders

LEMMA JudgeFits ==
    ASSUME ChannelsTyped
    PROVE  Fits("judge", [answer |-> ch.answer])
<1>1. ch["answer"] \in Kind("answer")
  BY ChannelKinds DEF Channels
<1>2. Typed([answer |-> ch.answer])
  BY <1>1 DEF Typed, Channels
<1>3. QED
  BY <1>2 DEF Fits, Telling, Vetting, Counting, Judging, Choosing, Writes,
           StoreNodes, ModeNodes, Narrowing, Graders

LEMMA AbstainFits ==
    ASSUME NEW no \in BOOLEAN
    PROVE  Fits("abstain", [answer |-> "abstained", grounded |-> no])
<1>1. "abstained" \in Kind("answer") /\ no \in Kind("grounded")
  BY Held
<1>2. Typed([answer |-> "abstained", grounded |-> no])
  BY <1>1 DEF Typed, Channels
<1>3. QED
  BY <1>2 DEF Fits, Telling, Vetting, Counting, Judging, Choosing, Writes,
           StoreNodes, ModeNodes, Narrowing, Graders

----------------------------------------------------------------------------
(* Every action is a node that returns, or the end of a superstep. *)

\* What the stores of a route may spend: nothing where no model writes a query.
LEMMA StoreCalls ==
    /\ RouteCalls \in Nat /\ (ch.route \cap Generated = {} => RouteCalls = 0)
    /\ \A d \in Stores : LegCalls[d] \in 0 .. 2
<1>1. LegCalls["relational"] = 2 /\ LegCalls["graph"] = 2
  BY DEF LegCalls, Stores, Generated
<1>2. \A d \in Stores : LegCalls[d] \in 0 .. 2
  BY DEF LegCalls, Stores, Generated
<1>3. QED
  BY <1>1, <1>2 DEF RouteCalls, Generated

\* The calls a node may make, node by node.
LEMMA Spent ==
    /\ \A n \in {"construct", "route", "rewrite", "retry", "check_sufficiency"} \cup Graders :
         Spends(n) = 0 .. 1 /\ {0, 1} \subseteq Spends(n)
    /\ Spends("generate") = 0 .. 2 /\ Spends("translate") = 0 .. Strategies
    /\ Spends("grade") = UNION {made .. made + Allowance(made) : made \in 0 .. RouteCalls}
    /\ Spends("retrieve") = 0 .. RouteCalls /\ Spends("hop") = 0 .. RouteCalls
    /\ \A n \in StoreNodes : Spends(n) = 0 .. 2
    /\ \A n \in ModeNodes : Spends(n) = 0 .. MapCap
    /\ \A n : n # "grade" => 0 \in Spends(n)
<1>1. RouteCalls \in Nat /\ MapCap \in Nat /\ Strategies \in Nat
  BY StoreCalls, QueryAssumption DEF Strategies
<1>2. QED
  BY <1>1 DEF Spends, Graders, StoreNodes, ModeNodes

\* The nodes that may return nothing.
LEMMA Silent ==
    ASSUME NEW n, Return(n, Nothing, 0),
           \/ n \in {"validate", "translate", "construct", "seed", "gate", "reduce", "bridge"}
           \/ n \in Graders /\ ch.answer # "answer"
           \/ n = "abstain" /\ ~settings.allow
    PROVE  Returns
<1>1. Fits(n, Nothing)
  BY NothingFits DEF ModeNodes, Graders
<1>2. 0 \in Spends(n)
  BY Spent DEF Graders
<1>3. QED
  BY <1>1, <1>2, Returning

\* The ledger of a query with settings it may have.
Accounts ==
    /\ settings \in Configurations
    /\ calls \in Nat /\ (Counted => calls <= settings.ceiling)

LEMMA AllowanceNatural ==
    ASSUME Accounts, NEW made \in Nat
    PROVE  Allowance(made) \in Nat
BY QueryAssumption DEF Accounts, Allowance, Remaining, Counted, Reserved

\* From here on, action by action: each is a node that returns what fits it.
LEMMA TranslateReturns == ASSUME Translate \/ Construct PROVE Returns
<1>1. \A n \in {"translate", "construct"} : Fits(n, [errors |-> TRUE]) /\ Fits(n, Nothing)
  BY FailureFits, NothingFits DEF ModeNodes, Graders
<1>2. CASE Translate
  BY <1>1, <1>2, Spent, Returning DEF Translate
<1>3. CASE Construct
  BY <1>1, <1>3, Spent, Failing, Returning DEF Construct, Failure
<1>4. QED
  BY <1>2, <1>3

LEMMA RouteReturns == ASSUME Route PROVE Returns
<1>1. Fits("route", [route |-> DefaultRoute, errors |-> TRUE])
  BY RouteFailureFits DEF DefaultRoute
<1>2. QED
  BY <1>1, RouteFits, Spent, Failing, Returning DEF Route

LEMMA RetrieveReturns == ASSUME Retrieve PROVE Returns
<1>1. Fits("retrieve", [retrieval |-> {}, errors |-> TRUE, lost |-> TRUE])
  BY RetrieveFailureFits
<1>2. QED
  BY <1>1, RetrieveFits, Spent, Returning DEF Retrieve, Found, Loses

LEMMA LegReturns == ASSUME StoreLeg \/ GraphSearch PROVE Returns
<1>1. CASE StoreLeg
  <2>1. PICK d \in Stores, found \in {{}, {"ungraded"}}, down \in BOOLEAN :
          \E cost \in 0 .. LegCalls[d] :
            Return(StoreNode[d], [legs |-> found, errors |-> down, lost |-> down], cost)
    BY <1>1 DEF StoreLeg, LegResult
  <2>2. StoreNode[d] \in StoreNodes
    BY <2>1, Names
  <2>3. 0 .. LegCalls[d] \subseteq Spends(StoreNode[d])
    BY <2>2, Spent, StoreCalls
  <2>4. Fits(StoreNode[d], [legs |-> found, errors |-> down, lost |-> down])
    BY <2>1, <2>2, LegFits
  <2>5. QED
    BY <2>1, <2>3, <2>4, Returning
<1>2. CASE GraphSearch
  <2>1. PICK m \in DOMAIN ModeNode, found \in {{}, {"ungraded"}}, down \in BOOLEAN :
          \E cost \in 0 .. MapCalls(m) :
            /\ down => found = {}
            /\ Return(ModeNode[m], [legs |-> found, errors |-> down, lost |-> down,
                                    search_mode |-> m], cost)
    BY <1>2 DEF GraphSearch
  <2>2. ModeNode[m] \in ModeNodes
    BY <2>1, Names
  <2>3. 0 .. MapCalls(m) \subseteq Spends(ModeNode[m])
    BY <2>2, Spent, QueryAssumption DEF MapCalls
  <2>4. Fits(ModeNode[m], [legs |-> found, errors |-> down, lost |-> down, search_mode |-> m])
    BY <2>1, <2>2, ModeFits, Names
  <2>5. QED
    BY <2>1, <2>3, <2>4, Returning
<1>3. QED
  BY <1>1, <1>2

LEMMA ListReturns == ASSUME ChannelsTyped, Fuse \/ Collect \/ Rerank \/ Compress PROVE Returns
<1>1. ASSUME NEW n \in Narrowing, Narrow(n)
      PROVE  Returns
  <2>1. Fits(n, [errors |-> TRUE])
    BY FailureFits
  <2>2. QED
    BY <1>1, <2>1, NarrowFits, Spent, Returning DEF Narrow, Failure, Narrowing
<1>2. CASE Fuse \/ Collect
  BY <1>2, FuseFits, CollectFits, Spent, Returning DEF Fuse, Collect
<1>3. QED
  BY <1>1, <1>2 DEF Rerank, Compress, Narrowing

LEMMA GradeReturns == ASSUME Accounts, Grade PROVE Returns
<1>1. Fits("grade", [grade |-> "unset", errors |-> TRUE, lost |-> TRUE])
  BY GradeFailureFits
<1>2. ASSUME NEW verdict \in Grades \ {"unset"}, NEW tail \in {{}, {"ungraded"}}, NEW down \in BOOLEAN
      PROVE  Fits("grade", Graded(verdict, tail, down))
  BY GradedFits DEF Graded, Chunks
<1>3. \A down \in BOOLEAN : Fits("grade", NoVerdict(down)) /\ Fits("grade", NoDocuments(down))
  BY UngradedFits, NoDocumentsFits DEF NoVerdict, NoDocuments
<1>4. ASSUME NEW p, Fits("grade", p), NEW made \in 0 .. RouteCalls,
             NEW more \in 0 .. Allowance(made), Return("grade", p, made + more)
      PROVE  Returns
  <2>1. RouteCalls \in Nat /\ Allowance(made) \in Nat
    BY <1>4, StoreCalls, AllowanceNatural
  <2>2. made + more \in made .. made + Allowance(made)
    BY <1>4, <2>1
  <2>3. made + more \in Spends("grade")
    BY <1>4, <2>2, Spent
  <2>4. QED
    BY <1>4, <2>3, Returning
<1>5. ASSUME NEW p, Fits("grade", p), NEW made \in 0 .. RouteCalls, Return("grade", p, made)
      PROVE  Returns
  <2>1. made + 0 = made /\ 0 \in 0 .. Allowance(made)
    BY <1>5, StoreCalls, AllowanceNatural
  <2>2. QED
    BY <1>4, <1>5, <2>1
<1>6. \A made \in 0 .. RouteCalls : 1 .. Allowance(made) \subseteq 0 .. Allowance(made)
  BY StoreCalls, AllowanceNatural
<1>7. Loses \subseteq BOOLEAN
  BY DEF Loses
<1>8. PICK made \in 0 .. RouteCalls :
        \/ \E down \in Loses :
             \/ Return("grade", NoDocuments(down), made)
             \/ \E more \in 0 .. Allowance(made) : Return("grade", NoVerdict(down), made + more)
             \/ \E verdict \in Grades \ {"unset"}, tail \in {{}, {"ungraded"}},
                   more \in 1 .. Allowance(made) :
                  Return("grade", Graded(verdict, tail, down), made + more)
        \/ Return("grade", [grade |-> "unset", errors |-> TRUE, lost |-> TRUE], made)
  BY DEF Grade
<1>9. QED
  BY <1>1, <1>2, <1>3, <1>4, <1>5, <1>6, <1>7, <1>8

LEMMA RewriteReturns == ASSUME ChannelsTyped, Rewrite PROVE Returns
<1>1. \A n \in {"rewrite", "retry"} : Fits(n, RewriteFailed)
  BY RewriteFailureFits DEF RewriteFailed
<1>2. QED
  BY <1>1, RewriteFits, Spent, Failing, Returning DEF Rewrite

LEMMA WebReturns == ASSUME WebSearch \/ CheckSufficiency PROVE Returns
<1>1. Fits("web_search", Failure)
  BY FailureFits DEF Failure
<1>2. Fits("check_sufficiency", [report |-> "nothing_to_ask", errors |-> TRUE])
  BY CheckFailureFits
<1>3. QED
  BY <1>1, <1>2, WebFits, CheckFits, Spent, Failing, Returning DEF WebSearch, CheckSufficiency

LEMMA HopReturns == ASSUME ChannelsTyped, Hop \/ Bridge \/ Classify PROVE Returns
<1>1. Fits("hop", [retrieve_iterations |-> ch.retrieve_iterations + 1, errors |-> TRUE, lost |-> TRUE])
  BY HopFailureFits
<1>2. Fits("bridge", [errors |-> TRUE, lost |-> TRUE])
  BY BridgeFailureFits
<1>3. CASE Hop
  BY <1>1, <1>3, HopFits, Spent, Returning DEF Hop, Found, Loses
<1>4. CASE Bridge
  <2>1. CASE Return("bridge", Nothing, 0)
    BY <2>1, Silent
  <2>2. ASSUME NEW p, Fits("bridge", p), Return("bridge", p, 0)
        PROVE  Returns
    BY <2>2, Spent, Returning
  <2>3. QED
    BY <1>2, <1>4, <2>1, <2>2, BridgeFits DEF Bridge
<1>5. CASE Classify
  BY <1>5, ClassifyFits, Names, Spent, Returning DEF Classify
<1>6. QED
  BY <1>3, <1>4, <1>5

LEMMA GenerateReturns == ASSUME ChannelsTyped, Generate PROVE Returns
<1>1. Fits("generate", [answer |-> "abstained", errors |-> TRUE, uncounted |-> TRUE])
  BY GenerateFailureFits
<1>2. Fits("generate", [answer |-> "answer", grounded |-> FALSE, uncounted |-> TRUE])
  BY DirectFits
<1>3. CASE AnswerDirectly \/ GenerateFails
  BY <1>1, <1>2, <1>3, Spent, Returning DEF AnswerDirectly, GenerateFails, Fails
<1>4. ASSUME NEW kind \in {"answer", "abstained"}, NEW grounded \in BOOLEAN, NEW cost \in 0 .. 2,
             Synthesise(kind, grounded, cost)
      PROVE  Returns
  BY <1>4, SynthesisFits, Spent, Returning DEF Synthesise
<1>5. CASE Evidence(ch) = {} /\ Synthesise("abstained", FALSE, 0)
  <2>1. Fits("generate", [answer |-> "abstained", grounded |-> FALSE,
                          generate_iterations |-> ch.generate_iterations + 1])
    BY SynthesisFits
  <2>2. QED
    BY <1>5, <2>1, Spent, Returning DEF Synthesise
<1>6. ASSUME NEW kind \in {"answer", "abstained"}, NEW grounded \in BOOLEAN, NEW cost \in {1, 2},
             Synthesise(kind, grounded, cost)
      PROVE  Returns
  BY <1>4, <1>6
<1>7. QED
  BY <1>3, <1>5, <1>6 DEF Generate

LEMMA VerifyReturns == ASSUME ChannelsTyped, VerifyGroundedness \/ VerifyUtility PROVE Returns
<1>1. ch.grounded \in BOOLEAN
  BY Kinds DEF ChannelsTyped, Typed, Channels
<1>2. /\ Fits("verify_groundedness", [grounded |-> FALSE])
      /\ \A g \in BOOLEAN : Fits("verify_groundedness", [grounded |-> g])
      /\ Fits("verify_groundedness", [grounded |-> ch.grounded, errors |-> TRUE])
  BY <1>1, GroundedFits, GroundedFailureFits
<1>3. /\ \A u \in BOOLEAN : Fits("verify_utility", [useful |-> u])
      /\ Fits("verify_utility", UtilityFailed)
  BY UsefulFits, UsefulFailureFits DEF UtilityFailed
<1>4. ASSUME NEW n \in Graders, ch.answer # "answer", Return(n, Nothing, 0)
      PROVE  Returns
  BY <1>4, Silent
<1>5. ASSUME NEW n \in Graders, NEW p, Fits(n, p), NEW cost \in {0, 1}, Return(n, p, cost)
      PROVE  Returns
  BY <1>5, Spent, Returning
<1>6. ASSUME NEW n \in Graders, NEW p, Fits(n, p), Fails(n, p)
      PROVE  Returns
  BY <1>5, <1>6 DEF Fails
<1>7. {"verify_groundedness", "verify_utility"} = Graders
  BY DEF Graders
<1>8. CASE VerifyGroundedness
  BY <1>2, <1>4, <1>5, <1>6, <1>7, <1>8 DEF VerifyGroundedness, Gradable
<1>9. CASE VerifyUtility
  BY <1>3, <1>4, <1>5, <1>6, <1>7, <1>9 DEF VerifyUtility, Gradable
<1>10. QED
  BY <1>8, <1>9

LEMMA EndingReturns == ASSUME ChannelsTyped, Judge \/ Abstain PROVE Returns
<1>1. Fits("abstain", [answer |-> "abstained", grounded |-> FALSE])
  BY AbstainFits
<1>2. QED
  BY <1>1, JudgeFits, Silent, Spent, Returning DEF Judge, Abstain

\* The caller's question is turned down.
Turned == /\ outcome = "running" /\ outcome' = "refused"
          /\ UNCHANGED <<settings, ch, due, partials, step, calls, cached, fresh>>

\* A step is a node that returns, a question that is turned down, or one of the

\* four ends of a superstep.
LEMMA Steps ==
    ASSUME ChannelsTyped, Accounts, [Next]_vars
    PROVE  Returns \/ Turned \/ Continue \/ Raise \/ Stream \/ Finish \/ UNCHANGED vars
<1>1. CASE Validate
  <2>1. ASSUME Return("validate", Nothing, 0)
        PROVE  Returns
    BY <2>1, Silent
  <2>2. QED
    BY <1>1, <2>1 DEF Validate, Turned
<1>2. CASE PassThrough
  <2>1. ASSUME NEW n \in {"seed", "gate", "reduce"}, Return(n, Nothing, 0)
        PROVE  Returns
    BY <2>1, Silent
  <2>2. QED
    BY <1>2, <2>1 DEF PassThrough
<1>3. QED
  BY <1>1, <1>2, TranslateReturns, RouteReturns, RetrieveReturns, LegReturns, ListReturns,
     GradeReturns, RewriteReturns, WebReturns, HopReturns, GenerateReturns, VerifyReturns,
     EndingReturns
  DEF Next

----------------------------------------------------------------------------
(* What a superstep does to the channels. *)

\* Every node that has returned wrote what its kind of node may write.
Returned == \A n \in DOMAIN partials : Fits(n, partials[n])

\* What a node has written is a channel of its kind.
LEMMA Written ==
    ASSUME Returned, NEW n \in DOMAIN partials, NEW c \in DOMAIN partials[n]
    PROVE  c \in Channels /\ c \in Writes(n) /\ partials[n][c] \in Kind(c) /\ n \in Writers(c)
BY DEF Returned, Fits, Typed, Writers

\* Channel by channel: no writer, a reducer, or the last value of some writer.
LEMMA Applying ==
    ASSUME ChannelsTyped, NEW c \in Channels
    PROVE  /\ Writers(c) = {} => Applied[c] = ch[c]
           /\ c \in Joined => Applied[c] = ch[c] \cup UNION {partials[n][c] : n \in Writers(c)}
           /\ c \in Flags => (Applied[c] <=> ch[c] \/ \E n \in Writers(c) : partials[n][c])
           /\ c \notin Joined \cup Flags /\ Writers(c) # {} =>
                \E n \in Writers(c) : Applied[c] = partials[n][c]
<1>1. c \in DOMAIN ch
  BY DEF ChannelsTyped
<1>2. CASE Writers(c) = {}
  <2>1. Applied[c] = ch[c]
    BY <1>1, <1>2 DEF Applied
  <2>2. UNION {partials[n][c] : n \in Writers(c)} = {}
    BY <1>2
  <2>3. QED
    BY <1>2, <2>1, <2>2
<1>3. CASE Writers(c) # {}
  <2>1. CASE c \in Joined
    BY <1>1, <1>3, <2>1 DEF Applied, Joined, Flags
  <2>2. CASE c \in Flags
    BY <1>1, <1>3, <2>2 DEF Applied, Joined, Flags
  <2>3. CASE c \notin Joined \cup Flags
    <3>1. Applied[c] = partials[CHOOSE n \in Writers(c) : TRUE][c]
      BY <1>1, <1>3, <2>3 DEF Applied
    <3>2. (CHOOSE n \in Writers(c) : TRUE) \in Writers(c)
      BY <1>3
    <3>3. QED
      BY <1>3, <2>3, <3>1, <3>2
  <2>4. QED
    BY <2>1, <2>2, <2>3
<1>4. QED
  BY <1>2, <1>3

\* A superstep keeps the kinds of the channels.
LEMMA AppliedTyped ==
    ASSUME ChannelsTyped, Returned
    PROVE  DOMAIN Applied = Channels /\ Typed(Applied)
<1>1. DOMAIN Applied = Channels
  BY DEF Applied, ChannelsTyped
<1>2. ASSUME NEW c \in Channels
      PROVE  Applied[c] \in Kind(c)
  <2>1. ch[c] \in Kind(c)
    BY ChannelKinds
  <2>2. \A n \in Writers(c) : partials[n][c] \in Kind(c)
    BY Written DEF Writers
  <2>3. CASE c \in Joined
    <3>1. Kind(c) = SUBSET (IF c = "web" THEN {"web"} ELSE Chunks)
      BY <2>3, Kinds DEF Joined
    <3>2. QED
      BY <2>1, <2>2, <2>3, <3>1, Applying
  <2>4. CASE c \in Flags
    <3>1. Kind(c) = BOOLEAN
      BY <2>4, Kinds DEF Flags
    <3>2. Applied[c] \in BOOLEAN
      <4>1. Applied[c] = ch[c] \/ Applied[c] = (ch[c] \/ \E n \in Writers(c) : partials[n][c])
        BY <2>4 DEF Applied, ChannelsTyped, Joined, Flags
      <4>2. QED
        BY <2>1, <3>1, <4>1
    <3>3. QED
      BY <3>1, <3>2
  <2>5. CASE c \notin Joined \cup Flags
    BY <2>1, <2>2, <2>5, Applying
  <2>6. QED
    BY <2>3, <2>4, <2>5
<1>3. QED
  BY <1>1, <1>2 DEF Typed

\* One node was due: its partial state is what is applied.
LEMMA Alone ==
    ASSUME ChannelsTyped, Returned, NEW n, DOMAIN partials = {n}
    PROVE  /\ Fits(n, partials[n])
           /\ \A c \in Channels : c \notin DOMAIN partials[n] => Applied[c] = ch[c]
           /\ \A c \in DOMAIN partials[n] :
                /\ c \in Channels
                /\ c \in Joined => Applied[c] = ch[c] \cup partials[n][c]
                /\ c \in Flags => (Applied[c] <=> ch[c] \/ partials[n][c])
                /\ c \notin Joined \cup Flags => Applied[c] = partials[n][c]
<1>1. Fits(n, partials[n])
  BY DEF Returned
<1>2. \A c : Writers(c) = IF c \in DOMAIN partials[n] THEN {n} ELSE {}
  BY DEF Writers
<1>3. ASSUME NEW c \in Channels, c \notin DOMAIN partials[n]
      PROVE  Applied[c] = ch[c]
  BY <1>2, <1>3, Applying
<1>4. ASSUME NEW c \in DOMAIN partials[n]
      PROVE  /\ c \in Channels
             /\ c \in Joined => Applied[c] = ch[c] \cup partials[n][c]
             /\ c \in Flags => (Applied[c] <=> ch[c] \/ partials[n][c])
             /\ c \notin Joined \cup Flags => Applied[c] = partials[n][c]
  <2>1. c \in Channels
    BY Written
  <2>2. Writers(c) = {n}
    BY <1>2
  <2>3. UNION {partials[m][c] : m \in {n}} = partials[n][c]
    OBVIOUS
  <2>4. QED
    BY <2>1, <2>2, <2>3, Applying
<1>5. QED
  BY <1>1, <1>3, <1>4

\* A channel that no node of the superstep may write is left as it was.
LEMMA Untouched ==
    ASSUME ChannelsTyped, Returned, DOMAIN partials \subseteq due,
           NEW c \in Channels, \A n \in due : c \notin Writes(n)
    PROVE  Writers(c) = {} /\ Applied[c] = ch[c]
<1>1. Writers(c) = {}
  BY Written DEF Writers
<1>2. QED
  BY <1>1, Applying

----------------------------------------------------------------------------
(* Which nodes follow a node, graph by graph. *)

\* The edges of a path of up to five nodes.
LEMMA PathEdges ==
    /\ \A a, b : Path(<<a, b>>) = {<<a, b>>}
    /\ \A a, b, c : Path(<<a, b, c>>) = {<<a, b>>, <<b, c>>}
    /\ \A a, b, c, d : Path(<<a, b, c, d>>) = {<<a, b>>, <<b, c>>, <<c, d>>}
    /\ \A a, b, c, d, e :
         Path(<<a, b, c, d, e>>) = {<<a, b>>, <<b, c>>, <<c, d>>, <<d, e>>}
BY DEF Path

\* AfterJudge without a ledger to heed, as self_rag has it.
JudgedOn(s, c) ==
    IF Accepted(c) THEN {}
    ELSE IF c.generate_iterations > s.retries THEN {"abstain"} ELSE {"retry"}

\* The edges of the verification of an answer.
LEMMA VerificationEdges ==
    Verification = {<<"generate", "verify_groundedness">>, <<"generate", "verify_utility">>,
                    <<"verify_groundedness", "judge">>, <<"verify_utility", "judge">>}
BY DEF Verification

\* The second nodes of the edges that begin with n.
LEMMA Follows ==
    ASSUME NEW E, \A e \in E : \E a, b : e = <<a, b>>, NEW n, NEW m
    PROVE  m \in {e[2] : e \in {x \in E : x[1] = n}} <=> <<n, m>> \in E
<1>1. ASSUME NEW e \in E, e[1] = n, e[2] = m
      PROVE  <<n, m>> \in E
  BY <1>1
<1>2. ASSUME <<n, m>> \in E
      PROVE  \E e \in {x \in E : x[1] = n} : m = e[2]
  <2>1. <<n, m>> \in {x \in E : x[1] = n}
    BY <1>2
  <2>2. <<n, m>>[2] = m
    OBVIOUS
  <2> QED BY <2>1, <2>2
<1>3. QED
  BY <1>1, <1>2

\* From here on, graph by graph: what follows each node.
LEMMA NaiveFlow ==
    ASSUME NEW s, s.graph = "naive", NEW c, NEW room, NEW n
    PROVE  Successors(s, n, c, room) =
           CASE n = "validate" -> {"retrieve"}
             [] n = "retrieve" -> {"generate"}
             [] OTHER -> {}
<1> DEFINE Pairs ==
  {<<"validate", "retrieve">>, <<"retrieve", "generate">>}
<1>2. Edges["naive"] = Pairs
  BY PathEdges DEF Edges
<1>3. \A m : m \in {e[2] : e \in {x \in Edges[s.graph] : x[1] = n}} <=> <<n, m>> \in Pairs
  <2>1. \A e \in Pairs : \E a, b : e = <<a, b>>
    OBVIOUS
  <2> HIDE DEF Pairs
  <2>2. QED
    BY <1>2, <2>1, Follows
<1>4. Branch(s, n, c, room) = {}
  BY DEF Branch
<1>5. \A m : m \in Successors(s, n, c, room) <=> <<n, m>> \in Pairs \/ m \in Branch(s, n, c, room)
  BY <1>3 DEF Successors
<1>6. ASSUME NEW m
      PROVE  m \in Successors(s, n, c, room) <=> m \in
        CASE n = "validate" -> {"retrieve"}
          [] n = "retrieve" -> {"generate"}
          [] OTHER -> {}
  BY <1>4, <1>5
<1>7. QED
  BY <1>6

LEMMA AdaptiveFlow ==
    ASSUME NEW s, s.graph = "adaptive", NEW c, NEW room, NEW n
    PROVE  Successors(s, n, c, room) =
           CASE n = "validate" -> {"translate"}
             [] n = "translate" -> {"route"}
             [] n \in {"retrieve_vector", "retrieve_relational", "retrieve_graph", "retrieve_web"} ->
                    {"fuse"}
             [] n = "fuse" -> {"rerank"}
             [] n = "rerank" -> {"generate"}
             [] n = "route" -> SelectStores(c)
             [] OTHER -> {}
<1> DEFINE Pairs ==
  {<<"validate", "translate">>, <<"translate", "route">>,
   <<"retrieve_vector", "fuse">>, <<"retrieve_relational", "fuse">>,
   <<"retrieve_graph", "fuse">>, <<"retrieve_web", "fuse">>,
   <<"fuse", "rerank">>, <<"rerank", "generate">>}
<1>1. IntoFuse({StoreNode[d] : d \in Stores}) =
        {<<"retrieve_vector", "fuse">>, <<"retrieve_relational", "fuse">>,
         <<"retrieve_graph", "fuse">>, <<"retrieve_web", "fuse">>}
  BY Names DEF IntoFuse, StoreNodes
<1>2. Edges["adaptive"] = Pairs
  <2>1. Edges["adaptive"] = Path(<<"validate", "translate", "route">>)
                              \cup IntoFuse({StoreNode[d] : d \in Stores})
                              \cup Path(<<"fuse", "rerank", "generate">>)
    BY DEF Edges
  <2>2. /\ Path(<<"validate", "translate", "route">>) =
             {<<"validate", "translate">>, <<"translate", "route">>}
        /\ Path(<<"fuse", "rerank", "generate">>) =
             {<<"fuse", "rerank">>, <<"rerank", "generate">>}
    BY PathEdges
  <2>3. \A e : e \in Edges["adaptive"] <=> e \in Pairs
    BY <1>1, <2>1, <2>2
  <2>4. QED
    BY <2>1, <2>3
<1>3. \A m : m \in {e[2] : e \in {x \in Edges[s.graph] : x[1] = n}} <=> <<n, m>> \in Pairs
  <2>1. \A e \in Pairs : \E a, b : e = <<a, b>>
    OBVIOUS
  <2> HIDE DEF Pairs
  <2>2. QED
    BY <1>2, <2>1, Follows
<1>4. Branch(s, n, c, room) =
        CASE n = "route" -> SelectStores(c)
          [] OTHER -> {}
  BY DEF Branch
<1>5. \A m : m \in Successors(s, n, c, room) <=> <<n, m>> \in Pairs \/ m \in Branch(s, n, c, room)
  BY <1>3 DEF Successors
<1>6. ASSUME NEW m
      PROVE  m \in Successors(s, n, c, room) <=> m \in
        CASE n = "validate" -> {"translate"}
          [] n = "translate" -> {"route"}
          [] n \in {"retrieve_vector", "retrieve_relational", "retrieve_graph", "retrieve_web"} ->
                 {"fuse"}
          [] n = "fuse" -> {"rerank"}
          [] n = "rerank" -> {"generate"}
          [] n = "route" -> SelectStores(c)
          [] OTHER -> {}
  BY <1>4, <1>5
<1>7. QED
  BY <1>6

LEMMA CragFlow ==
    ASSUME NEW s, s.graph = "crag", NEW c, NEW room, NEW n
    PROVE  Successors(s, n, c, room) =
           CASE n = "validate" -> {"translate"}
             [] n = "translate" -> {"route"}
             [] n = "route" -> {"grade"}
             [] n = "rewrite" -> {"web_search"}
             [] n = "refine" -> {"generate"}
             [] n = "grade" -> {CragAfterGrade(s, c)}
             [] n = "web_search" -> {AfterWeb(c, "generate")}
             [] OTHER -> {}
<1> DEFINE Pairs ==
  {<<"validate", "translate">>, <<"translate", "route">>,
   <<"route", "grade">>, <<"rewrite", "web_search">>, <<"refine", "generate">>}
<1>2. Edges["crag"] = Pairs
  BY PathEdges DEF Edges
<1>3. \A m : m \in {e[2] : e \in {x \in Edges[s.graph] : x[1] = n}} <=> <<n, m>> \in Pairs
  <2>1. \A e \in Pairs : \E a, b : e = <<a, b>>
    OBVIOUS
  <2> HIDE DEF Pairs
  <2>2. QED
    BY <1>2, <2>1, Follows
<1>4. Branch(s, n, c, room) =
        CASE n = "grade" -> {CragAfterGrade(s, c)}
          [] n = "web_search" -> {AfterWeb(c, "generate")}
          [] OTHER -> {}
  BY DEF Branch
<1>5. \A m : m \in Successors(s, n, c, room) <=> <<n, m>> \in Pairs \/ m \in Branch(s, n, c, room)
  BY <1>3 DEF Successors
<1>6. ASSUME NEW m
      PROVE  m \in Successors(s, n, c, room) <=> m \in
        CASE n = "validate" -> {"translate"}
          [] n = "translate" -> {"route"}
          [] n = "route" -> {"grade"}
          [] n = "rewrite" -> {"web_search"}
          [] n = "refine" -> {"generate"}
          [] n = "grade" -> {CragAfterGrade(s, c)}
          [] n = "web_search" -> {AfterWeb(c, "generate")}
          [] OTHER -> {}
  BY <1>4, <1>5
<1>7. QED
  BY <1>6

LEMMA SelfRagFlow ==
    ASSUME NEW s, s.graph = "self_rag", NEW c, NEW room, NEW n
    PROVE  Successors(s, n, c, room) =
           CASE n = "validate" -> {"translate"}
             [] n = "translate" -> {"route"}
             [] n \in {"route", "retry"} -> {"retrieve"}
             [] n = "retrieve" -> {"rerank"}
             [] n = "rerank" -> {"generate"}
             [] n = "generate" -> {"verify_groundedness", "verify_utility"}
             [] n \in {"verify_groundedness", "verify_utility"} -> {"judge"}
             [] n = "judge" -> JudgedOn(s, c)
             [] OTHER -> {}
<1> DEFINE Pairs ==
  {<<"validate", "translate">>, <<"translate", "route">>,
   <<"route", "retrieve">>, <<"retry", "retrieve">>,
   <<"retrieve", "rerank">>, <<"rerank", "generate">>,
   <<"generate", "verify_groundedness">>, <<"generate", "verify_utility">>,
   <<"verify_groundedness", "judge">>, <<"verify_utility", "judge">>}
<1>2. Edges["self_rag"] = Pairs
  BY PathEdges, VerificationEdges DEF Edges
<1>3. \A m : m \in {e[2] : e \in {x \in Edges[s.graph] : x[1] = n}} <=> <<n, m>> \in Pairs
  <2>1. \A e \in Pairs : \E a, b : e = <<a, b>>
    OBVIOUS
  <2> HIDE DEF Pairs
  <2>2. QED
    BY <1>2, <2>1, Follows
<1>4. Branch(s, n, c, room) =
        CASE n = "judge" -> JudgedOn(s, c)
          [] OTHER -> {}
  BY DEF Branch, AfterJudge, JudgedOn
<1>5. \A m : m \in Successors(s, n, c, room) <=> <<n, m>> \in Pairs \/ m \in Branch(s, n, c, room)
  BY <1>3 DEF Successors
<1>6. ASSUME NEW m
      PROVE  m \in Successors(s, n, c, room) <=> m \in
        CASE n = "validate" -> {"translate"}
          [] n = "translate" -> {"route"}
          [] n \in {"route", "retry"} -> {"retrieve"}
          [] n = "retrieve" -> {"rerank"}
          [] n = "rerank" -> {"generate"}
          [] n = "generate" -> {"verify_groundedness", "verify_utility"}
          [] n \in {"verify_groundedness", "verify_utility"} -> {"judge"}
          [] n = "judge" -> JudgedOn(s, c)
          [] OTHER -> {}
  BY <1>4, <1>5
<1>7. QED
  BY <1>6

LEMMA GraphRagFlow ==
    ASSUME NEW s, s.graph = "graphrag", NEW c, NEW room, NEW n
    PROVE  Successors(s, n, c, room) =
           CASE n = "validate" -> {"translate"}
             [] n = "translate" -> {"classify"}
             [] n \in {"graph_local", "graph_global", "graph_drift"} ->
                    {"fuse"}
             [] n \in {"rerank", "reduce"} -> {"generate"}
             [] n = "classify" -> {ModeNode[c.search_mode]}
             [] n = "fuse" ->
                    {IF c.search_mode = "global" THEN "reduce" ELSE "rerank"}
             [] OTHER -> {}
<1> DEFINE Pairs ==
  {<<"validate", "translate">>, <<"translate", "classify">>,
   <<"graph_local", "fuse">>, <<"graph_global", "fuse">>,
   <<"graph_drift", "fuse">>, <<"rerank", "generate">>,
   <<"reduce", "generate">>}
<1>1. IntoFuse({ModeNode[m] : m \in DOMAIN ModeNode}) =
        {<<"graph_local", "fuse">>, <<"graph_global", "fuse">>, <<"graph_drift", "fuse">>}
  BY Names DEF IntoFuse, ModeNodes
<1>2. Edges["graphrag"] = Pairs
  BY PathEdges, <1>1 DEF Edges
<1>3. \A m : m \in {e[2] : e \in {x \in Edges[s.graph] : x[1] = n}} <=> <<n, m>> \in Pairs
  <2>1. \A e \in Pairs : \E a, b : e = <<a, b>>
    OBVIOUS
  <2> HIDE DEF Pairs
  <2>2. QED
    BY <1>2, <2>1, Follows
<1>4. Branch(s, n, c, room) =
        CASE n = "classify" -> {ModeNode[c.search_mode]}
          [] n = "fuse" ->
                 {IF c.search_mode = "global" THEN "reduce" ELSE "rerank"}
          [] OTHER -> {}
  BY DEF Branch
<1>5. \A m : m \in Successors(s, n, c, room) <=> <<n, m>> \in Pairs \/ m \in Branch(s, n, c, room)
  BY <1>3 DEF Successors
<1>6. ASSUME NEW m
      PROVE  m \in Successors(s, n, c, room) <=> m \in
        CASE n = "validate" -> {"translate"}
          [] n = "translate" -> {"classify"}
          [] n \in {"graph_local", "graph_global", "graph_drift"} ->
                 {"fuse"}
          [] n \in {"rerank", "reduce"} -> {"generate"}
          [] n = "classify" -> {ModeNode[c.search_mode]}
          [] n = "fuse" ->
                 {IF c.search_mode = "global" THEN "reduce" ELSE "rerank"}
          [] OTHER -> {}
  BY <1>4, <1>5
<1>7. QED
  BY <1>6

LEMMA MultiHopFlow ==
    ASSUME NEW s, s.graph = "multihop", NEW c, NEW room, NEW n
    PROVE  Successors(s, n, c, room) =
           CASE n = "validate" -> {"translate"}
             [] n = "translate" -> {"seed"}
             [] n = "seed" -> {"bridge"}
             [] n = "fuse" -> {"rerank"}
             [] n = "rerank" -> {"generate"}
             [] n = "bridge" ->
                    {IF c.search_mode = "bridge" THEN "generate" ELSE "retrieve"}
             [] n \in {"retrieve", "hop"} -> {HopBudget(s, c)}
             [] n = "check_sufficiency" -> {AfterCheck(s, c, "fuse")}
             [] OTHER -> {}
<1> DEFINE Pairs ==
  {<<"validate", "translate">>, <<"translate", "seed">>,
   <<"seed", "bridge">>, <<"fuse", "rerank">>, <<"rerank", "generate">>}
<1>2. Edges["multihop"] = Pairs
  BY PathEdges DEF Edges
<1>3. \A m : m \in {e[2] : e \in {x \in Edges[s.graph] : x[1] = n}} <=> <<n, m>> \in Pairs
  <2>1. \A e \in Pairs : \E a, b : e = <<a, b>>
    OBVIOUS
  <2> HIDE DEF Pairs
  <2>2. QED
    BY <1>2, <2>1, Follows
<1>4. Branch(s, n, c, room) =
        CASE n = "bridge" ->
                 {IF c.search_mode = "bridge" THEN "generate" ELSE "retrieve"}
          [] n \in {"retrieve", "hop"} -> {HopBudget(s, c)}
          [] n = "check_sufficiency" -> {AfterCheck(s, c, "fuse")}
          [] OTHER -> {}
  BY DEF Branch
<1>5. \A m : m \in Successors(s, n, c, room) <=> <<n, m>> \in Pairs \/ m \in Branch(s, n, c, room)
  BY <1>3 DEF Successors
<1>6. ASSUME NEW m
      PROVE  m \in Successors(s, n, c, room) <=> m \in
        CASE n = "validate" -> {"translate"}
          [] n = "translate" -> {"seed"}
          [] n = "seed" -> {"bridge"}
          [] n = "fuse" -> {"rerank"}
          [] n = "rerank" -> {"generate"}
          [] n = "bridge" ->
                 {IF c.search_mode = "bridge" THEN "generate" ELSE "retrieve"}
          [] n \in {"retrieve", "hop"} -> {HopBudget(s, c)}
          [] n = "check_sufficiency" -> {AfterCheck(s, c, "fuse")}
          [] OTHER -> {}
  BY <1>4, <1>5
<1>7. QED
  BY <1>6

LEMMA AgenticFlow ==
    ASSUME NEW s, s.graph = "agentic", NEW c, NEW room, NEW n
    PROVE  Successors(s, n, c, room) =
           CASE n = "validate" -> {"translate"}
             [] n = "translate" -> {"construct"}
             [] n = "construct" -> {"route"}
             [] n \in {"route", "retry"} -> {"grade"}
             [] n = "rewrite" -> {"web_search"}
             [] n \in {"refine", "hop"} -> {"gate"}
             [] n = "collect" -> {"rerank"}
             [] n = "rerank" -> {"compress"}
             [] n = "compress" -> {"generate"}
             [] n = "generate" -> {"verify_groundedness", "verify_utility"}
             [] n \in {"verify_groundedness", "verify_utility"} -> {"judge"}
             [] n = "grade" -> {AgenticAfterGrade(s, c, room)}
             [] n = "web_search" -> {AfterWeb(c, "gate")}
             [] n = "gate" -> {Gate(s, c, room)}
             [] n = "check_sufficiency" -> {AfterCheck(s, c, "collect")}
             [] n = "judge" -> AfterJudge(s, c, room)
             [] OTHER -> {}
<1> DEFINE Pairs ==
  {<<"validate", "translate">>, <<"translate", "construct">>,
   <<"construct", "route">>, <<"route", "grade">>,
   <<"rewrite", "web_search">>, <<"refine", "gate">>, <<"hop", "gate">>,
   <<"collect", "rerank">>, <<"rerank", "compress">>,
   <<"compress", "generate">>, <<"retry", "grade">>,
   <<"generate", "verify_groundedness">>, <<"generate", "verify_utility">>,
   <<"verify_groundedness", "judge">>, <<"verify_utility", "judge">>}
<1>2. Edges["agentic"] = Pairs
  BY PathEdges, VerificationEdges DEF Edges
<1>3. \A m : m \in {e[2] : e \in {x \in Edges[s.graph] : x[1] = n}} <=> <<n, m>> \in Pairs
  <2>1. \A e \in Pairs : \E a, b : e = <<a, b>>
    OBVIOUS
  <2> HIDE DEF Pairs
  <2>2. QED
    BY <1>2, <2>1, Follows
<1>4. Branch(s, n, c, room) =
        CASE n = "grade" -> {AgenticAfterGrade(s, c, room)}
          [] n = "web_search" -> {AfterWeb(c, "gate")}
          [] n = "gate" -> {Gate(s, c, room)}
          [] n = "check_sufficiency" -> {AfterCheck(s, c, "collect")}
          [] n = "judge" -> AfterJudge(s, c, room)
          [] OTHER -> {}
  BY DEF Branch
<1>5. \A m : m \in Successors(s, n, c, room) <=> <<n, m>> \in Pairs \/ m \in Branch(s, n, c, room)
  BY <1>3 DEF Successors
<1>6. ASSUME NEW m
      PROVE  m \in Successors(s, n, c, room) <=> m \in
        CASE n = "validate" -> {"translate"}
          [] n = "translate" -> {"construct"}
          [] n = "construct" -> {"route"}
          [] n \in {"route", "retry"} -> {"grade"}
          [] n = "rewrite" -> {"web_search"}
          [] n \in {"refine", "hop"} -> {"gate"}
          [] n = "collect" -> {"rerank"}
          [] n = "rerank" -> {"compress"}
          [] n = "compress" -> {"generate"}
          [] n = "generate" -> {"verify_groundedness", "verify_utility"}
          [] n \in {"verify_groundedness", "verify_utility"} -> {"judge"}
          [] n = "grade" -> {AgenticAfterGrade(s, c, room)}
          [] n = "web_search" -> {AfterWeb(c, "gate")}
          [] n = "gate" -> {Gate(s, c, room)}
          [] n = "check_sufficiency" -> {AfterCheck(s, c, "collect")}
          [] n = "judge" -> AfterJudge(s, c, room)
          [] OTHER -> {}
  BY <1>4, <1>5
<1>7. QED
  BY <1>6

----------------------------------------------------------------------------
(* Which nodes can be due. *)

\* The nodes of graph g that are due alone.
Single(g) ==
    CASE g = "naive" -> {"validate", "retrieve", "generate"}
      [] g = "adaptive" ->
           {"validate", "translate", "route", "generate", "fuse", "rerank"}
      [] g = "crag" ->
           {"validate", "translate", "route", "grade", "rewrite", "web_search",
            "refine", "generate"}
      [] g = "self_rag" ->
           {"validate", "translate", "route", "retrieve", "rerank", "generate",
            "judge", "retry", "abstain"}
      [] g = "graphrag" ->
           {"validate", "translate", "classify", "fuse", "rerank", "reduce",
            "generate"} \cup ModeNodes
      [] g = "multihop" ->
           {"validate", "translate", "seed", "bridge", "retrieve",
            "check_sufficiency", "hop", "fuse", "rerank", "generate"}
      [] g = "agentic" ->
           {"validate", "translate", "construct", "route", "grade", "rewrite",
            "web_search", "refine", "gate", "check_sufficiency", "hop", "collect",
            "rerank", "compress", "generate", "judge", "retry", "abstain"}
      [] OTHER -> {}

\* One node is due, or the legs of a fan-out, or both graders.
Front(nodes) ==
    \/ \E n \in Single(settings.graph) : nodes = {n}
    \/ settings.graph = "adaptive" /\ nodes # {} /\ nodes \subseteq StoreNodes
    \/ settings.graph \in {"self_rag", "agentic"} /\ nodes = Graders

Base ==
    /\ Accounts /\ ChannelsTyped
    /\ Front(due) \/ (due = {} /\ outcome = "answered")
    /\ DOMAIN partials \subseteq due /\ Returned
    /\ outcome \in Outcomes /\ cached \in BOOLEAN
    /\ fresh \subseteq {"grounded", "useful"}
    /\ step \in 1 .. RecursionLimit(settings)

Graphs == {"naive", "adaptive", "crag", "self_rag", "graphrag", "multihop", "agentic"}

\* What the settings of a query are.
LEMMA SettingsTyped ==
    ASSUME Accounts
    PROVE  /\ settings.graph \in Graphs
           /\ settings.retries \in Nat /\ settings.rewrites \in Nat /\ settings.hops \in Nat
           /\ settings.stop \in BOOLEAN /\ settings.allow \in BOOLEAN
           /\ settings.stream \in BOOLEAN
           /\ settings.ceiling \in Nat \cup {Ample}
           /\ settings.routes \subseteq SUBSET (Stores \cup {"none"})
<1>1. DOMAIN Edges = Graphs
  BY DEF Edges, Graphs
<1>2. QED
  BY <1>1, QueryAssumption DEF Accounts

\* After one node alone, what follows it.
LEMMA FollowingOne ==
    ASSUME NEW n, due = {n}
    PROVE  Following = Successors(settings, n, Applied, Room(calls))
BY DEF Following

\* The legs of a fan-out meet at fuse.
LEMMA FollowingLegs ==
    ASSUME settings.graph = "adaptive", due # {}, due \subseteq StoreNodes
    PROVE  Following = {"fuse"}
<1>1. \A n \in due : Successors(settings, n, Applied, Room(calls)) = {"fuse"}
  BY AdaptiveFlow DEF StoreNodes
<1>2. QED
  BY <1>1 DEF Following

\* Both graders meet at the judge.
LEMMA FollowingGraders ==
    ASSUME settings.graph \in {"self_rag", "agentic"}, due = Graders
    PROVE  Following = {"judge"}
<1>1. ASSUME NEW n \in {"verify_groundedness", "verify_utility"}
      PROVE  Successors(settings, n, Applied, Room(calls)) = {"judge"}
  <2>1. CASE settings.graph = "self_rag"
    BY <2>1, SelfRagFlow
  <2>2. CASE settings.graph = "agentic"
    BY <2>2, AgenticFlow
  <2>3. QED
    BY <2>1, <2>2
<1>2. QED
  BY <1>1 DEF Following, Graders

\* After routing, the stores decided on, or straight to the answer.
LEMMA RouteLeads ==
    ASSUME Base, settings.graph = "adaptive", due = {"route"}
    PROVE  Following = {"generate"} \/ (Following # {} /\ Following \subseteq StoreNodes)
<1>1. Following = SelectStores(Applied)
  BY FollowingOne, AdaptiveFlow
<1>2. Applied["route"] \in Kind("route")
  BY AppliedTyped DEF Base, Typed, Channels
<1>3. Applied.route \subseteq Stores \cup {"none"}
  <2>1. settings.routes \subseteq SUBSET (Stores \cup {"none"})
    BY SettingsTyped DEF Base
  <2>2. Applied["route"] \in settings.routes \cup {{}, {"vector"}}
    BY <1>2, Kinds
  <2>3. QED
    BY <2>1, <2>2 DEF Stores
<1>4. \A d \in Stores : StoreNode[d] \in StoreNodes
  BY Names
<1>5. QED
  BY <1>1, <1>3, <1>4 DEF SelectStores, Stores

\* After classification, the search of the mode it chose.
LEMMA ModeLeads ==
    ASSUME Base, Complete, settings.graph = "graphrag", due = {"classify"}
    PROVE  \E m \in ModeNodes : Following = {m}
<1>1. Following = {ModeNode[Applied.search_mode]}
  BY FollowingOne, GraphRagFlow
<1>2. DOMAIN partials = {"classify"}
  BY DEF Complete
<1>3. /\ Fits("classify", partials["classify"])
      /\ Applied["search_mode"] = partials["classify"]["search_mode"]
  BY <1>2, Alone DEF Base, Fits, Choosing, Joined, Flags
<1>4. Applied.search_mode \in DOMAIN ModeNode
  BY <1>3, Names DEF Fits, Choosing
<1>5. ModeNode[Applied.search_mode] \in ModeNodes
  BY <1>4, Names
<1>6. QED
  BY <1>1, <1>5

\* The edges lead from a front to a front, or to the end of the query.
LEMMA Onward ==
    ASSUME Base, Complete
    PROVE  Front(Following) \/ Following = {}
<1>1. settings.graph \in Graphs /\ Typed(Applied) /\ DOMAIN Applied = Channels
  BY SettingsTyped, AppliedTyped DEF Base
<1>2. CASE settings.graph = "adaptive" /\ due # {} /\ due \subseteq StoreNodes
  BY <1>2, FollowingLegs DEF Front, Single
<1>3. CASE settings.graph \in {"self_rag", "agentic"} /\ due = Graders
  BY <1>3, FollowingGraders DEF Front, Single
<1>4. ASSUME NEW n \in Single(settings.graph), due = {n}
      PROVE  Front(Following) \/ Following = {}
  <2> DEFINE next == Successors(settings, n, Applied, Room(calls))
  <2>1. Following = next
    BY <1>4, FollowingOne
  <2>2. CASE settings.graph = "naive"
    <3>1. next = {} \/ \E m \in Single("naive") : next = {m}
      BY <2>2, <1>4, NaiveFlow DEF Single
    <3>2. QED
      BY <2>1, <2>2, <3>1 DEF Front
  <2>3. CASE settings.graph = "adaptive"
    <3>1. CASE n # "route"
      <4>1. next = {} \/ \E m \in Single("adaptive") : next = {m}
        BY <2>3, <1>4, <3>1, AdaptiveFlow DEF Single
      <4>2. QED
        BY <2>1, <2>3, <4>1 DEF Front
    <3>2. CASE n = "route"
      BY <2>3, <1>4, <3>2, RouteLeads DEF Front, Single
    <3>3. QED
      BY <3>1, <3>2
  <2>4. CASE settings.graph = "crag"
    <3>1. next = {} \/ \E m \in Single("crag") : next = {m}
      BY <2>4, <1>4, CragFlow DEF Single, CragAfterGrade, AfterWeb
    <3>2. QED
      BY <2>1, <2>4, <3>1 DEF Front
  <2>5. CASE settings.graph = "self_rag"
    <3>1. CASE n = "generate"
      <4>1. next = Graders
        BY <2>5, <3>1, SelfRagFlow DEF Graders
      <4>2. QED
        BY <2>1, <2>5, <4>1 DEF Front
    <3>2. CASE n # "generate"
      <4>1. next = {} \/ \E m \in Single("self_rag") : next = {m}
        BY <2>5, <1>4, <3>2, SelfRagFlow DEF Single, AfterJudge, JudgedOn
      <4>2. QED
        BY <2>1, <2>5, <4>1 DEF Front
    <3>3. QED
      BY <3>1, <3>2
  <2>6. CASE settings.graph = "graphrag"
    <3>1. CASE n # "classify"
      <4>1. next = {} \/ \E m \in Single("graphrag") : next = {m}
        BY <2>6, <1>4, <3>1, GraphRagFlow DEF Single, ModeNodes
      <4>2. QED
        BY <2>1, <2>6, <4>1 DEF Front
    <3>2. CASE n = "classify"
      BY <2>6, <1>4, <3>2, ModeLeads DEF Front, Single
    <3>3. QED
      BY <3>1, <3>2
  <2>7. CASE settings.graph = "multihop"
    <3>1. next = {} \/ \E m \in Single("multihop") : next = {m}
      BY <2>7, <1>4, MultiHopFlow DEF Single, HopBudget, AfterCheck
    <3>2. QED
      BY <2>1, <2>7, <3>1 DEF Front
  <2>8. CASE settings.graph = "agentic"
    <3>1. CASE n = "generate"
      <4>1. next = Graders
        BY <2>8, <3>1, AgenticFlow DEF Graders
      <4>2. QED
        BY <2>1, <2>8, <4>1 DEF Front
    <3>2. CASE n # "generate"
      <4>1. next = {} \/ \E m \in Single("agentic") : next = {m}
        <5>1. n \in Single("agentic")
          BY <2>8, <1>4
        <5>2. CASE n \notin {"grade", "web_search", "gate", "check_sufficiency", "judge"}
          BY <2>8, <3>2, <5>1, <5>2, AgenticFlow DEF Single
        <5>3. CASE n = "judge"
          BY <2>8, <5>3, AgenticFlow DEF Single, AfterJudge
        <5>4. CASE n \in {"grade", "web_search", "gate", "check_sufficiency"}
          <6>1. \E m : next = {m} /\ m \in {AgenticAfterGrade(settings, Applied, Room(calls)), 
                    AfterWeb(Applied, "gate"), Gate(settings, Applied, Room(calls)),
                    AfterCheck(settings, Applied, "collect")}
            BY <2>8, <5>4, AgenticFlow
          <6>2. {AgenticAfterGrade(settings, Applied, Room(calls)), AfterWeb(Applied, "gate"),
                 Gate(settings, Applied, Room(calls)), AfterCheck(settings, Applied, "collect")}
                  \subseteq Single("agentic")
            BY DEF Single, AgenticAfterGrade, AfterWeb, Gate, AfterCheck
          <6>3. QED
            BY <6>1, <6>2
        <5>5. QED
          BY <5>2, <5>3, <5>4
      <4>2. QED
        BY <2>1, <2>8, <4>1 DEF Front
    <3>3. QED
      BY <3>1, <3>2
  <2>9. QED
    BY <1>1, <2>2, <2>3, <2>4, <2>5, <2>6, <2>7, <2>8 DEF Graphs
<1>5. QED
  BY <1>2, <1>3, <1>4 DEF Base, Front, Complete

----------------------------------------------------------------------------
(* Types. *)

\* The end of a superstep that is not an exception.
Advances ==
    /\ Complete /\ ~Raced
    /\ ch' = Applied /\ due' = Following /\ partials' = Nothing
    /\ UNCHANGED <<settings, calls>>

\* Continue, Stream and Finish apply the superstep and lead on.
LEMMA Advancing ==
    ASSUME Continue \/ Stream \/ Finish
    PROVE  Advances
BY DEF Continue, Stream, Finish, Advances

\* A node that returns adds its partial state, or the ledger refuses its calls.
LEMMA ReturnMoves ==
    ASSUME Returns
    PROVE  /\ outcome = "running" /\ outcome' \in {"running", "budget"}
           /\ UNCHANGED <<settings, ch, due, step, cached, fresh>>
           /\ \/ /\ outcome' = "budget" /\ UNCHANGED <<partials, calls>>
              \/ /\ outcome' = "running"
                 /\ \E n \in due \ DOMAIN partials : \E p : \E cost \in Spends(n) :
                      /\ Fits(n, p) /\ Affords(cost)
                      /\ calls' = IF Counted THEN calls + cost ELSE calls
                      /\ DOMAIN partials' = DOMAIN partials \cup {n}
                      /\ partials'[n] = p
                      /\ \A m \in DOMAIN partials : partials'[m] = partials[m]
<1>1. PICK n, p, cost : n \in due /\ cost \in Spends(n) /\ Return(n, p, cost) /\ Fits(n, p)
  BY DEF Returns
<1>2. CASE Affords(cost)
  <2>1. /\ partials' = [m \in DOMAIN partials \cup {n} |-> IF m = n THEN p ELSE partials[m]]
        /\ n \in due \ DOMAIN partials
    BY <1>1, <1>2 DEF Return
  <2>2. /\ DOMAIN partials' = DOMAIN partials \cup {n} /\ partials'[n] = p
        /\ \A m \in DOMAIN partials : partials'[m] = partials[m]
    BY <2>1
  <2>3. /\ outcome = "running" /\ outcome' = "running"
        /\ calls' = IF Counted THEN calls + cost ELSE calls
        /\ UNCHANGED <<settings, ch, due, step, cached, fresh>>
    BY <1>1, <1>2 DEF Return
  <2>4. QED
    BY <1>1, <1>2, <2>1, <2>2, <2>3
<1>3. CASE ~Affords(cost)
  BY <1>1, <1>3 DEF Return
<1>4. QED
  BY <1>2, <1>3

\* Calls are counted in natural numbers.
LEMMA SpendsNatural ==
    ASSUME Accounts, NEW n, NEW cost \in Spends(n)
    PROVE  cost \in Nat
<1>1. RouteCalls \in Nat /\ MapCap \in Nat /\ Strategies \in Nat
  BY StoreCalls, QueryAssumption DEF Strategies
<1>2. CASE n = "grade"
  <2>1. PICK made \in 0 .. RouteCalls : cost \in made .. made + Allowance(made)
    BY <1>2, Spent
  <2>2. QED
    BY <1>1, <2>1, AllowanceNatural
<1>3. CASE n # "grade"
  BY <1>1, <1>3 DEF Spends
<1>4. QED
  BY <1>2, <1>3

\* Every graph may run six supersteps at least.
LEMMA LimitNatural ==
    ASSUME Accounts
    PROVE  RecursionLimit(settings) \in Nat /\ RecursionLimit(settings) >= 6
<1>1. /\ settings.graph \in Graphs /\ settings.retries \in Nat
      /\ settings.rewrites \in Nat /\ settings.hops \in Nat
  BY SettingsTyped
<1>2. RetrievalBudget(settings) \in Nat /\ MaxIterations(settings) \in Nat
  BY <1>1 DEF RetrievalBudget, MaxIterations, Larger
<1>3. (settings.retries + 1) * (10 + 2 * RetrievalBudget(settings)) \in Nat
  <2>1. ASSUME NEW a \in Nat, NEW b \in Nat
        PROVE  a * b \in Nat
    OBVIOUS
  <2>2. settings.retries + 1 \in Nat /\ 10 + 2 * RetrievalBudget(settings) \in Nat
    BY <1>1, <1>2
  <2>3. QED
    BY <2>1, <2>2
<1>4. QED
  BY <1>1, <1>2, <1>3 DEF RecursionLimit, Graphs

\* No node has returned yet.
LEMMA NothingReturned ==
    ASSUME partials = Nothing
    PROVE  DOMAIN partials = {} /\ Returned
<1>1. DOMAIN partials = {}
  BY DEF Nothing
<1>2. QED
  BY <1>1 DEF Returned

\* The channels that a query starts with.
LEMMA InitChannels ==
    ASSUME Init
    PROVE  /\ ch["retrieval"] = {} /\ ch["legs"] = {} /\ ch["grade"] = "unset"
           /\ ch["retrieve_iterations"] = 0 /\ ch["generate_iterations"] = 0
           /\ ~ch["lost"] /\ ~cached /\ ch["answer"] = "none"
BY DEF Init, InitialState

\* A query starts with one node due, and nothing written.
LEMMA InitBase ==
    ASSUME Init
    PROVE  Base
<1>1. Accounts
  BY SettingsTyped, QueryAssumption DEF Init, Accounts, Counted
<1>2. ChannelsTyped
  <2>1. DOMAIN ch = Channels
    BY DEF Init, InitialState, Channels
  <2>2. /\ ch["route"] = {} /\ ch["retrieval"] = {} /\ ch["legs"] = {} /\ ch["web"] = {}
        /\ ch["grade"] = "unset" /\ ch["report"] = "nothing_to_ask" /\ ch["answer"] = "none"
        /\ ch["search_mode"] = "" /\ ch["retrieve_iterations"] = 0 /\ ch["generate_iterations"] = 0
    BY DEF Init, InitialState
  <2>3. /\ ch["grounded"] \in BOOLEAN /\ ch["useful"] \in BOOLEAN /\ ch["errors"] \in BOOLEAN
        /\ ch["lost"] \in BOOLEAN /\ ch["uncounted"] \in BOOLEAN
    BY DEF Init, InitialState
  <2>4. \A c \in Channels : ch[c] \in Kind(c)
    <3>1. /\ ch["route"] \in Kind("route") /\ ch["retrieval"] \in Kind("retrieval")
          /\ ch["legs"] \in Kind("legs") /\ ch["web"] \in Kind("web")
      BY <2>2, Kinds
    <3>2. /\ ch["grade"] \in Kind("grade") /\ ch["report"] \in Kind("report")
          /\ ch["answer"] \in Kind("answer") /\ ch["search_mode"] \in Kind("search_mode")
      BY <2>2, Kinds DEF Grades, Reports
    <3>3. /\ ch["retrieve_iterations"] \in Kind("retrieve_iterations")
          /\ ch["generate_iterations"] \in Kind("generate_iterations")
      <4>1. Kind("retrieve_iterations") = Nat /\ Kind("generate_iterations") = Nat
        BY Kinds
      <4>2. QED
        BY <2>2, <4>1
    <3>4. /\ ch["grounded"] \in Kind("grounded") /\ ch["useful"] \in Kind("useful")
          /\ ch["errors"] \in Kind("errors") /\ ch["lost"] \in Kind("lost")
          /\ ch["uncounted"] \in Kind("uncounted")
      BY <2>3, Kinds
    <3>5. QED
      BY <3>1, <3>2, <3>3, <3>4 DEF Channels
  <2>5. QED
    BY <2>1, <2>4 DEF ChannelsTyped, Typed
<1>3. Front(due)
  <2>1. "validate" \in Single(settings.graph)
    BY <1>1, SettingsTyped DEF Single, Graphs
  <2>2. QED
    BY <2>1 DEF Front, Init
<1>4. DOMAIN partials = {} /\ Returned
  BY NothingReturned DEF Init
<1>5. /\ outcome \in Outcomes /\ cached \in BOOLEAN /\ fresh \subseteq {"grounded", "useful"}
      /\ step = 1
  BY DEF Init, Outcomes
<1>6. step \in 1 .. RecursionLimit(settings)
  BY <1>1, <1>5, LimitNatural
<1>7. QED
  BY <1>1, <1>2, <1>3, <1>4, <1>5, <1>6 DEF Base

\* The kinds of steps, under the inductive invariant.
LEMMA BaseMoves ==
    ASSUME Base, [Next]_vars
    PROVE  Returns \/ Turned \/ Continue \/ Raise \/ Stream \/ Finish \/ UNCHANGED vars
BY Steps DEF Base

\* What the invariants say of the nodes that have returned depends on the

\* settings and the channels as the superstep found them only.
LEMMA FitsKept ==
    ASSUME UNCHANGED <<settings, ch>>, NEW n, NEW p
    PROVE  Fits(n, p)' <=> Fits(n, p)
BY DEF Fits, Typed, Kind, Telling, Vetting, Endorsed, Counting, Judging, Choosing

\* Every step keeps the inductive invariant of the types.
LEMMA NextBase ==
    ASSUME Base, [Next]_vars
    PROVE  Base'
<1>1. CASE Returns
  <2>1. UNCHANGED <<settings, ch, due, step, cached, fresh>> /\ outcome' \in {"running", "budget"}
    BY <1>1, ReturnMoves
  <2>2. outcome' \in Outcomes
    BY <2>1 DEF Outcomes
  <2>3. ChannelsTyped'
    BY <2>1 DEF Base, ChannelsTyped, Typed, Kind
  <2>4. Front(due)' \/ (due' = {} /\ outcome' = "answered")
    BY <1>1, <2>1, ReturnMoves DEF Base, Front
  <2>5. DOMAIN partials' \subseteq due'
    BY <1>1, <2>1, ReturnMoves DEF Base
  <2>6. Returned'
    <3>1. CASE UNCHANGED partials
      BY <2>1, <3>1, FitsKept DEF Base, Returned
    <3>2. CASE outcome' = "running"
      <4>1. PICK n, p :
              /\ n \in due \ DOMAIN partials /\ Fits(n, p)
              /\ DOMAIN partials' = DOMAIN partials \cup {n}
              /\ partials'[n] = p /\ \A m \in DOMAIN partials : partials'[m] = partials[m]
        BY <1>1, <3>2, ReturnMoves
      <4>2. ASSUME NEW m \in DOMAIN partials'
            PROVE  Fits(m, partials'[m])
        BY <4>1 DEF Base, Returned
      <4>3. QED
        BY <2>1, <4>2, FitsKept DEF Returned
    <3>3. QED
      BY <1>1, <3>1, <3>2, ReturnMoves
  <2>7. Accounts'
    <3>1. CASE outcome' = "budget"
      BY <1>1, <2>1, <3>1, ReturnMoves DEF Base, Accounts, Counted
    <3>2. CASE outcome' = "running"
      <4>1. PICK n, cost :
              /\ cost \in Spends(n) /\ Affords(cost)
              /\ calls' = IF Counted THEN calls + cost ELSE calls
        BY <1>1, <3>2, ReturnMoves
      <4>2. cost \in Nat
        BY <4>1, SpendsNatural DEF Base
      <4>3. Counted => settings.ceiling \in Nat
        BY SettingsTyped DEF Base, Counted
      <4>4. QED
        BY <2>1, <4>1, <4>2, <4>3 DEF Base, Accounts, Counted, Affords, Remaining
    <3>3. QED
      BY <1>1, <3>1, <3>2, ReturnMoves
  <2>8. (step \in 1 .. RecursionLimit(settings))'
    BY <2>1 DEF Base
  <2>9. QED
    BY <2>1, <2>2, <2>3, <2>4, <2>5, <2>6, <2>7, <2>8 DEF Base
<1>2. CASE Turned \/ Raise
  <2>1. UNCHANGED <<settings, ch, due, partials, step, calls, cached, fresh>> /\ outcome' \in Outcomes
    BY <1>2 DEF Turned, Raise, Outcomes
  <2>2. outcome = "running"
    BY <1>2 DEF Turned, Raise, Complete
  <2>3. ChannelsTyped' /\ Returned' /\ Accounts'
    BY <2>1, FitsKept DEF Base, ChannelsTyped, Typed, Kind, Returned, Accounts, Counted
  <2>4. Front(due)'
    BY <2>1, <2>2 DEF Base, Front
  <2>5. QED
    BY <2>1, <2>3, <2>4 DEF Base
<1>3. CASE Continue \/ Stream \/ Finish
  <2>1. Advances
    BY <1>3, Advancing
  <2>2. /\ outcome' \in Outcomes /\ cached' \in BOOLEAN /\ fresh' \subseteq {"grounded", "useful"}
    BY <1>3 DEF Base, Continue, Stream, Finish, Outcomes, Regraded, Complete, Cacheable
  <2>3. ChannelsTyped'
    BY <2>1, AppliedTyped DEF Base, Advances, ChannelsTyped, Typed, Kind
  <2>4. DOMAIN partials' = {} /\ Returned'
    BY <2>1 DEF Advances, Nothing, Returned
  <2>5. Accounts'
    BY <2>1 DEF Base, Advances, Accounts, Counted
  <2>6. Front(due)' \/ (due' = {} /\ outcome' = "answered")
    BY <1>3, <2>1, Onward DEF Continue, Stream, Finish, Advances, Front
  <2>7. (step \in 1 .. RecursionLimit(settings))'
    <3>1. RecursionLimit(settings) \in Nat
      BY LimitNatural DEF Base
    <3>2. step' = step \/ (step' = step + 1 /\ ~AtLimit)
      BY <1>3 DEF Continue, Stream, Finish
    <3>3. settings' = settings /\ Sentinels \in Nat
      BY <2>1, QueryAssumption DEF Advances
    <3>4. QED
      BY <3>1, <3>2, <3>3 DEF Base, AtLimit
  <2>8. QED
    BY <2>2, <2>3, <2>4, <2>5, <2>6, <2>7 DEF Base
<1>4. CASE UNCHANGED vars
  BY <1>4, FitsKept DEF vars, Base, ChannelsTyped, Typed, Kind, Returned, Accounts, Counted, Front
<1>5. QED
  BY <1>1, <1>2, <1>3, <1>4, BaseMoves

\* The inductive invariant has the types in it.
LEMMA BaseTypes ==
    ASSUME Base
    PROVE  TypeOK
<1>1. ChannelsOK
  <2>1. \A c \in Channels : ch[c] \in Kind(c)
    BY DEF Base, ChannelsTyped, Typed
  <2>2. /\ ch["route"] \in Kind("route") /\ ch["retrieval"] \in Kind("retrieval")
        /\ ch["legs"] \in Kind("legs") /\ ch["web"] \in Kind("web")
        /\ ch["grade"] \in Kind("grade") /\ ch["report"] \in Kind("report")
        /\ ch["answer"] \in Kind("answer") /\ ch["search_mode"] \in Kind("search_mode")
    BY <2>1 DEF Channels
  <2>3. /\ ch["retrieve_iterations"] \in Nat /\ ch["generate_iterations"] \in Nat
    BY <2>1, Kinds DEF Channels
  <2>4. /\ ch["grounded"] \in BOOLEAN /\ ch["useful"] \in BOOLEAN /\ ch["errors"] \in BOOLEAN
        /\ ch["lost"] \in BOOLEAN /\ ch["uncounted"] \in BOOLEAN
    BY <2>1, Kinds DEF Channels
  <2>5. QED
    BY <2>2, <2>3, <2>4, Kinds, Names DEF ChannelsOK
<1>2. step \in 0 .. RecursionLimit(settings)
  BY DEF Base
<1>3. QED
  BY <1>1, <1>2 DEF Base, Accounts, Counted, TypeOK

\* TypeOK for any settings: the channels hold what RAGState declares, a query

\* stays within its supersteps and its calls, and it asks no store that the
\* router, or the fallback of a failed router, did not choose.
THEOREM QueryTypes == Spec => []TypeOK
<1>1. Init => Base
  BY InitBase
<1>2. Base /\ [Next]_vars => Base'
  BY NextBase
<1>3. Base => TypeOK
  BY BaseTypes
<1>4. QED
  BY <1>1, <1>2, <1>3, PTL DEF Spec

----------------------------------------------------------------------------
(* The reducers. *)

\* Nodes that are due together share no channel without a reducer.
LEMMA NoRace ==
    ASSUME Base
    PROVE  ~Raced
<1>1. SUFFICES ASSUME NEW c \in DOMAIN ch \ (Joined \cup Flags), NEW n \in DOMAIN partials,
                      NEW m \in DOMAIN partials, n # m, {n, m} \subseteq Writers(c)
               PROVE  FALSE
  BY DEF Raced
<1>2. c \in Writes(n) /\ c \in Writes(m) /\ n \in due /\ m \in due
  BY <1>1, Written DEF Base, Writers
<1>3. CASE due \subseteq StoreNodes
  <2>1. c \in {"legs", "errors", "lost"}
    BY <1>2, <1>3 DEF Writes, StoreNodes, ModeNodes, Narrowing
  <2>2. QED
    BY <1>1, <2>1 DEF Joined, Flags
<1>4. CASE due = Graders
  BY <1>1, <1>2, <1>4 DEF Writes, StoreNodes, ModeNodes, Narrowing, Graders, Flags
<1>5. ~\E k : due = {k}
  BY <1>1, <1>2
<1>6. due # {}
  BY <1>2
<1>7. QED
  BY <1>3, <1>4, <1>5, <1>6 DEF Base, Front

\* FanOutsReduce for any settings: no fan-out of a graph has two nodes write a

\* channel of RAGState that has no reducer.
THEOREM FanOuts == Spec => []FanOutsReduce
<1>1. Init => Base /\ FanOutsReduce
  BY InitBase DEF Init, FanOutsReduce
<1>2. Base /\ FanOutsReduce /\ [Next]_vars => (Base /\ FanOutsReduce)'
  <2>1. SUFFICES ASSUME Base, FanOutsReduce, [Next]_vars
                 PROVE  outcome' # "race"
    BY NextBase DEF FanOutsReduce
  <2>2. CASE Raise
    BY <2>1, <2>2, NoRace DEF Raise
  <2>3. CASE Returns
    BY <2>3, ReturnMoves
  <2>4. CASE Turned \/ Stream \/ Finish
    BY <2>4 DEF Turned, Stream, Finish
  <2>5. CASE Continue \/ UNCHANGED vars
    BY <2>1, <2>5 DEF FanOutsReduce, Continue, vars
  <2>6. QED
    BY <2>1, <2>2, <2>3, <2>4, <2>5, BaseMoves
<1>3. QED
  BY <1>1, <1>2, PTL DEF Spec

----------------------------------------------------------------------------
(* What the invariants below need of a step. *)

\* A step leaves the channels and the nodes due alone, or ends a superstep.
LEMMA Moves ==
    ASSUME Base, [Next]_vars
    PROVE  \/ UNCHANGED <<settings, ch, due, step, cached, fresh>>
           \/ Advances
<1>1. CASE Returns
  BY <1>1, ReturnMoves
<1>2. CASE ~Returns
  BY <1>2, BaseMoves, Advancing DEF Turned, Raise, vars
<1>3. QED
  BY <1>1, <1>2

----------------------------------------------------------------------------
(* Outages and the semantic cache. *)

\* A lost leg is on the state of a graph that reports its legs, and what is

\* cached carries no error.
Told ==
    /\ settings.graph \in ReportsLegs /\ ch.lost => ch.errors
    /\ cached => outcome = "answered" /\ ~ch.errors

\* A leg that is lost in this superstep is told in this superstep.
LEMMA ToldApplied ==
    ASSUME Base, Complete, settings.graph \in ReportsLegs, ch.lost => ch.errors
    PROVE  Applied.lost => Applied.errors
<1>1. SUFFICES ASSUME Applied["lost"]
               PROVE  Applied["errors"]
  OBVIOUS
<1>2. /\ Applied["lost"] <=> ch["lost"] \/ \E n \in Writers("lost") : partials[n]["lost"]
      /\ Applied["errors"] <=> ch["errors"] \/ \E n \in Writers("errors") : partials[n]["errors"]
  BY Applying DEF Base, Channels, Flags
<1>3. due \cap {"grade", "hop"} = {} \/ settings.graph \notin ReportsLegs
  BY DEF Base, Complete, Front, Single, ReportsLegs, StoreNodes, ModeNodes, Graders
<1>4. ASSUME NEW n \in Writers("lost"), partials[n]["lost"]
      PROVE  \E m \in Writers("errors") : partials[m]["errors"]
  <2>1. n \in DOMAIN partials /\ n \notin {"grade", "hop"} /\ "lost" \in DOMAIN partials[n]
    BY <1>3 DEF Writers, Base
  <2>2. "errors" \in DOMAIN partials[n] /\ partials[n]["errors"]
    BY <1>4, <2>1 DEF Base, Returned, Fits, Telling
  <2>3. QED
    BY <2>1, <2>2 DEF Writers
<1>5. QED
  BY <1>1, <1>2, <1>4

\* Every step keeps Told.
LEMMA NextTold ==
    ASSUME Base, Told, [Next]_vars
    PROVE  Told'
<1>1. CASE Continue \/ Stream \/ Finish
  <2>1. Advances /\ outcome = "running" /\ ~cached
    BY <1>1, Advancing DEF Told, Advances, Complete
  <2>2. (settings.graph \in ReportsLegs /\ ch.lost => ch.errors)'
    BY <2>1, ToldApplied DEF Told, Advances
  <2>3. CASE Finish
    BY <2>1, <2>2, <2>3 DEF Told, Finish, Cacheable
  <2>4. CASE Continue \/ Stream
    BY <2>1, <2>2, <2>4 DEF Told, Continue, Stream
  <2>5. QED
    BY <1>1, <2>3, <2>4
<1>2. CASE Returns \/ Turned \/ Raise
  <2>1. outcome = "running" /\ UNCHANGED <<settings, ch, cached>>
    BY <1>2, ReturnMoves DEF Turned, Raise, Complete
  <2>2. QED
    BY <2>1 DEF Told
<1>3. CASE UNCHANGED vars
  BY <1>3 DEF vars, Told
<1>4. QED
  BY <1>1, <1>2, <1>3, BaseMoves

\* OutageNotCached for any settings: in a graph whose retrieving nodes put

\* their failed legs on the state, no answer that some store did not contribute
\* to enters the semantic cache.
THEOREM Outages == Spec => []OutageNotCached
<1>1. Init => Base /\ Told
  BY InitBase, InitChannels DEF Told
<1>2. Base /\ Told /\ [Next]_vars => (Base /\ Told)'
  BY NextBase, NextTold
<1>3. Told => OutageNotCached
  BY DEF Told, OutageNotCached
<1>4. QED
  BY <1>1, <1>2, <1>3, PTL DEF Spec

----------------------------------------------------------------------------
(* The verdict of graded retrieval. *)

\* No list that a decision reads holds a rejected chunk, and under "incorrect"

\* the graded retrieval is gone but for the hops.  Legs with rejected chunks
\* are those of a grader, and its two graphs fuse no legs.
Vetted ==
    /\ "rejected" \notin ch.retrieval
    /\ settings.graph \notin {"crag", "agentic"} =>
         "rejected" \notin ch.legs /\ ch.grade = "unset"
    /\ ch.grade = "incorrect" => ch.retrieval \subseteq {"hop"}

\* Who writes the list that the generator reads, and in which graphs.
LEMMA WritesRetrieval ==
    ASSUME Base, NEW n \in Writers("retrieval")
    PROVE  /\ n \in due /\ Fits(n, partials[n]) /\ "retrieval" \in DOMAIN partials[n]
           /\ \/ n \in {"retrieve", "fuse", "bridge"} /\ settings.graph \notin {"crag", "agentic"}
              \/ n \in {"collect", "grade"} \cup Narrowing
<1>1. n \in DOMAIN partials /\ "retrieval" \in DOMAIN partials[n] /\ n \in due
  BY DEF Writers, Base
<1>2. Fits(n, partials[n]) /\ "retrieval" \in Writes(n)
  BY <1>1 DEF Base, Returned, Fits
<1>3. n \in {"retrieve", "fuse", "bridge", "collect", "grade"} \cup Narrowing
  BY <1>2 DEF Writes, StoreNodes, ModeNodes, Narrowing
<1>4. CASE n \in {"retrieve", "fuse", "bridge"}
  <2>1. settings.graph \notin {"crag", "agentic"}
    BY <1>1, <1>4 DEF Base, Front, Single, StoreNodes, Graders
  <2>2. QED
    BY <1>1, <1>2, <1>4, <2>1
<1>5. CASE n \in {"collect", "grade"} \cup Narrowing
  BY <1>1, <1>2, <1>5
<1>6. QED
  BY <1>3, <1>4, <1>5

\* Only the two graphs that grade retrieval do, and one node at a time.
LEMMA GradeAlone ==
    ASSUME Base, "grade" \in due
    PROVE  due = {"grade"} /\ settings.graph \in {"crag", "agentic"}
BY DEF Base, Front, Single, StoreNodes, ModeNodes, Graders

\* The verdict is the grader's alone.
LEMMA GradeWriters ==
    ASSUME Base, "grade" \notin due
    PROVE  Applied["grade"] = ch["grade"]
<1>1. \A n \in due : "grade" \notin Writes(n)
  BY DEF Writes, StoreNodes, ModeNodes, Narrowing
<1>2. QED
  BY <1>1, Untouched DEF Base, Channels

\* A superstep keeps Vetted.
LEMMA VettedApplied ==
    ASSUME Base, Vetted, Complete
    PROVE  /\ "rejected" \notin Applied["retrieval"]
           /\ settings.graph \notin {"crag", "agentic"} =>
                "rejected" \notin Applied["legs"] /\ Applied["grade"] = "unset"
           /\ Applied["grade"] = "incorrect" => Applied["retrieval"] \subseteq {"hop"}
<1>1. \/ Applied["retrieval"] = ch["retrieval"]
      \/ \E n \in Writers("retrieval") : Applied["retrieval"] = partials[n]["retrieval"]
  BY Applying DEF Base, Channels, Joined, Flags
<1>2. ASSUME NEW n \in Writers("retrieval")
      PROVE  /\ "rejected" \notin partials[n]["retrieval"]
             /\ n # "grade" /\ ch["grade"] = "incorrect" => partials[n]["retrieval"] \subseteq {"hop"}
  <2>1. Vetting(n, partials[n]) /\ "retrieval" \in DOMAIN partials[n]
    BY WritesRetrieval DEF Fits
  <2>2. CASE n \in {"retrieve", "fuse", "bridge"}
    <3>1. settings.graph \notin {"crag", "agentic"}
      BY <2>2, WritesRetrieval DEF Narrowing
    <3>2. "rejected" \notin partials[n]["retrieval"]
      BY <2>1, <2>2, <3>1 DEF Vetted, Vetting
    <3>3. QED
      BY <3>1, <3>2 DEF Vetted
  <2>3. CASE n = "grade"
    BY <2>1, <2>3 DEF Vetting
  <2>4. CASE n \in Narrowing
    BY <2>1, <2>4 DEF Vetting, Vetted, Narrowing
  <2>5. CASE n = "collect"
    BY <2>1, <2>5 DEF Vetting, Vetted, Endorsed
  <2>6. QED
    BY <2>2, <2>3, <2>4, <2>5, WritesRetrieval
<1>3. "rejected" \notin Applied["retrieval"]
  BY <1>1, <1>2 DEF Vetted
<1>4. ASSUME settings.graph \notin {"crag", "agentic"}
      PROVE  "rejected" \notin Applied["legs"] /\ Applied["grade"] = "unset"
  <2>1. "grade" \notin due
    BY <1>4, GradeAlone
  <2>2. Applied["grade"] = "unset"
    BY <1>4, <2>1, GradeWriters DEF Vetted
  <2>3. Applied["legs"] = ch["legs"] \cup UNION {partials[n]["legs"] : n \in Writers("legs")}
    BY Applying DEF Base, Channels, Joined
  <2>4. ASSUME NEW n \in Writers("legs")
        PROVE  "rejected" \notin partials[n]["legs"]
    <3>1. n # "grade" /\ "legs" \in DOMAIN partials[n] /\ Fits(n, partials[n])
      BY <2>1 DEF Base, Writers, Returned
    <3>2. QED
      BY <3>1 DEF Fits, Vetting
  <2>5. QED
    BY <1>4, <2>2, <2>3, <2>4 DEF Vetted
<1>5. ASSUME Applied["grade"] = "incorrect"
      PROVE  Applied["retrieval"] \subseteq {"hop"}
  <2>1. CASE "grade" \in due
    <3>1. DOMAIN partials = {"grade"}
      BY <2>1, GradeAlone DEF Complete
    <3>2. Fits("grade", partials["grade"])
      BY <3>1 DEF Base, Returned
    <3>3. "grade" \in DOMAIN partials["grade"]
      BY <3>2 DEF Fits, Vetting
    <3>4. partials["grade"]["grade"] = "incorrect"
      BY <1>5, <3>1, <3>3, Alone DEF Base, Joined, Flags
    <3>5. "retrieval" \in DOMAIN partials["grade"] /\ partials["grade"]["retrieval"] = {}
      BY <3>2, <3>4 DEF Fits, Vetting
    <3>6. Applied["retrieval"] = {}
      BY <3>1, <3>5, Alone DEF Base, Joined, Flags
    <3>7. QED
      BY <3>6
  <2>2. CASE "grade" \notin due
    <3>1. ch["grade"] = "incorrect"
      BY <1>5, <2>2, GradeWriters
    <3>2. \A n \in Writers("retrieval") : n # "grade"
      BY <2>2, WritesRetrieval
    <3>3. QED
      BY <1>1, <1>2, <3>1, <3>2 DEF Vetted
  <2>3. QED
    BY <2>1, <2>2
<1>6. QED
  BY <1>3, <1>4, <1>5

\* Every step keeps Vetted.
LEMMA NextVetted ==
    ASSUME Base, Vetted, [Next]_vars
    PROVE  Vetted'
<1>1. CASE Advances
  BY <1>1, VettedApplied DEF Vetted, Advances
<1>2. CASE UNCHANGED <<settings, ch>>
  BY <1>2 DEF Vetted
<1>3. QED
  BY <1>1, <1>2, Moves

\* VerdictHeeded for any settings: no generator, in any graph, is given a chunk

\* that graded retrieval rejected, and under an "incorrect" verdict it is given
\* nothing that was graded.
THEOREM Verdicts == Spec => []VerdictHeeded
<1>1. Init => Base /\ Vetted
  BY InitBase, InitChannels DEF Vetted
<1>2. Base /\ Vetted /\ [Next]_vars => (Base /\ Vetted)'
  BY NextBase, NextVetted
<1>3. Base /\ Vetted => VerdictHeeded
  <2>1. SUFFICES ASSUME Base, Vetted
                 PROVE  /\ "rejected" \notin Evidence(ch)
                        /\ ch.grade = "incorrect" => Evidence(ch) \subseteq {"hop", "web"}
    BY DEF VerdictHeeded
  <2>2. ch["web"] \subseteq {"web"}
    <3>1. ch["web"] \in Kind("web")
      BY <2>1, ChannelKinds DEF Base, Channels
    <3>2. QED
      BY <3>1, Kinds
  <2>3. QED
    BY <2>1, <2>2 DEF Vetted, Evidence
<1>4. QED
  BY <1>1, <1>2, <1>3, PTL DEF Spec

----------------------------------------------------------------------------
(* The grades of an answer. *)

Grading == {"self_rag", "agentic"}

\* self_rag leads to the judge from the graders only, and ends accepted or abstained.
LEMMA SelfRagNext ==
    ASSUME settings.graph = "self_rag", NEW n \in Single("self_rag"), due = {n}
    PROVE  /\ "judge" \notin Following
           /\ Following = {} => n = "abstain" \/ (n = "judge" /\ Accepted(Applied))
<1>1. Following = Successors(settings, n, Applied, Room(calls))
  BY FollowingOne
<1>2. CASE n = "judge"
  BY <1>1, <1>2, SelfRagFlow DEF JudgedOn
<1>3. CASE n # "judge"
  BY <1>1, <1>3, SelfRagFlow DEF Single
<1>4. QED
  BY <1>2, <1>3

\* So does the agentic graph.
LEMMA AgenticNext ==
    ASSUME settings.graph = "agentic", NEW n \in Single("agentic"), due = {n}
    PROVE  /\ "judge" \notin Following
           /\ Following = {} => n = "abstain" \/ (n = "judge" /\ Accepted(Applied))
<1>1. Following = Successors(settings, n, Applied, Room(calls))
  BY FollowingOne
<1>2. CASE n = "judge"
  BY <1>1, <1>2, AgenticFlow DEF AfterJudge
<1>3. CASE n \in {"grade", "web_search", "gate", "check_sufficiency"}
  <2>1. \E m : Following = {m} /\ m \in {AgenticAfterGrade(settings, Applied, Room(calls)),
            AfterWeb(Applied, "gate"), Gate(settings, Applied, Room(calls)),
            AfterCheck(settings, Applied, "collect")}
    BY <1>1, <1>3, AgenticFlow
  <2>2. "judge" \notin {AgenticAfterGrade(settings, Applied, Room(calls)),
            AfterWeb(Applied, "gate"), Gate(settings, Applied, Room(calls)),
            AfterCheck(settings, Applied, "collect")}
    BY DEF AgenticAfterGrade, AfterWeb, Gate, AfterCheck
  <2>3. QED
    BY <2>1, <2>2
<1>4. CASE n \notin {"judge", "grade", "web_search", "gate", "check_sufficiency"}
  BY <1>1, <1>4, AgenticFlow DEF Single
<1>5. QED
  BY <1>2, <1>3, <1>4

\* Both graded graphs: who precedes the judge, and how a query ends.
LEMMA GradingNext ==
    ASSUME Base, Complete, settings.graph \in Grading
    PROVE  /\ "judge" \in Following => due = Graders
           /\ Following = {} => due = {"abstain"} \/ (due = {"judge"} /\ Accepted(Applied))
<1>1. CASE due = Graders
  BY <1>1, FollowingGraders DEF Grading
<1>2. ASSUME NEW n \in Single(settings.graph), due = {n}
      PROVE  /\ "judge" \notin Following
             /\ Following = {} => n = "abstain" \/ (n = "judge" /\ Accepted(Applied))
  BY <1>2, SelfRagNext, AgenticNext DEF Grading
<1>3. QED
  BY <1>1, <1>2 DEF Base, Front, Complete, Grading

\* The judge of a graded graph is handed an answer with both of its grades.
Judged ==
    /\ settings.graph \in Grading /\ "judge" \in due /\ ch.answer = "answer" =>
         fresh = {"grounded", "useful"}
    /\ AcceptedIsJudged

\* Both graders write the grade of an answer they are handed.
LEMMA GradersAnswer ==
    ASSUME Base, Complete, due = Graders, Applied["answer"] = "answer"
    PROVE  Regraded = {"grounded", "useful"}
<1>1. Applied["answer"] = ch["answer"]
  <2>1. \A n \in due : "answer" \notin Writes(n)
    BY DEF Graders, Writes, StoreNodes, ModeNodes, Narrowing
  <2>2. QED
    BY <2>1, Untouched DEF Base, Channels
<1>2. /\ "verify_groundedness" \in DOMAIN partials /\ "verify_utility" \in DOMAIN partials
  BY DEF Complete, Graders
<1>3. /\ "grounded" \in DOMAIN partials["verify_groundedness"]
      /\ "useful" \in DOMAIN partials["verify_utility"]
  BY <1>1, <1>2 DEF Base, Returned, Fits, Judging
<1>4. Writers("grounded") # {} /\ Writers("useful") # {}
  BY <1>2, <1>3 DEF Writers
<1>5. QED
  BY <1>4 DEF Regraded, Graders, Base

\* Every step keeps Judged.
LEMMA NextJudged ==
    ASSUME Base, Judged, [Next]_vars
    PROVE  Judged'
<1>1. CASE Continue
  <2>1. Advances /\ outcome' = "running" /\ fresh' = Regraded
    BY <1>1, Advancing DEF Continue, Complete
  <2>2. ASSUME settings.graph \in Grading, "judge" \in Following, Applied["answer"] = "answer"
        PROVE  Regraded = {"grounded", "useful"}
    BY <2>1, <2>2, GradingNext, GradersAnswer DEF Advances
  <2>3. QED
    BY <2>1, <2>2 DEF Advances, Judged, AcceptedIsJudged
<1>2. CASE Stream
  <2>1. Advances /\ outcome' = "streamed" /\ "generate" \in Following
    BY <1>2, Advancing DEF Stream
  <2>2. "judge" \notin Following
    BY <2>1, Onward DEF Advances, Front, StoreNodes, Graders
  <2>3. QED
    BY <2>1, <2>2 DEF Advances, Judged, AcceptedIsJudged
<1>3. CASE Finish
  <2>1. Advances /\ outcome' = "answered" /\ due' = {} /\ fresh' = Regraded /\ Following = {}
    BY <1>3, Advancing DEF Finish
  <2>2. ASSUME settings.graph \in Grading, settings.allow, Applied["answer"] = "answer"
        PROVE  fresh' = {"grounded", "useful"} /\ Applied.grounded /\ Applied.useful
    <3>1. CASE due = {"abstain"}
      <4>1. DOMAIN partials = {"abstain"}
        BY <2>1, <3>1 DEF Advances, Complete
      <4>2. /\ "answer" \in DOMAIN partials["abstain"]
            /\ partials["abstain"]["answer"] = "abstained"
        BY <2>2, <4>1 DEF Base, Returned, Fits, Judging
      <4>3. Applied["answer"] = "abstained"
        BY <4>1, <4>2, Alone DEF Base, Joined, Flags
      <4>4. QED
        BY <2>2, <4>3
    <3>2. CASE due = {"judge"} /\ Accepted(Applied)
      <4>1. DOMAIN partials = {"judge"}
        BY <2>1, <3>2 DEF Advances, Complete
      <4>2. /\ "answer" \in DOMAIN partials["judge"]
            /\ partials["judge"]["answer"] = ch.answer
        BY <4>1 DEF Base, Returned, Fits, Judging
      <4>3. Applied["answer"] = ch["answer"]
        BY <4>1, <4>2, Alone DEF Base, Joined, Flags
      <4>4. fresh = {"grounded", "useful"}
        BY <2>2, <3>2, <4>3 DEF Judged
      <4>5. Regraded = {"grounded", "useful"}
        BY <3>2, <4>4 DEF Regraded
      <4>6. QED
        BY <2>1, <3>2, <4>5 DEF Accepted
    <3>3. QED
      BY <2>1, <2>2, <3>1, <3>2, GradingNext DEF Advances
  <2>3. QED
    BY <2>1, <2>2 DEF Advances, Judged, AcceptedIsJudged, Grading
<1>4. CASE Returns \/ Turned \/ Raise
  <2>1. /\ UNCHANGED <<settings, ch, due, fresh>> /\ outcome' # "answered"
    BY <1>4, ReturnMoves DEF Turned, Raise
  <2>2. QED
    BY <2>1 DEF Judged, AcceptedIsJudged
<1>5. CASE UNCHANGED vars
  BY <1>5 DEF vars, Judged, AcceptedIsJudged
<1>6. QED
  BY <1>1, <1>2, <1>3, <1>4, <1>5, BaseMoves

\* AcceptedIsJudged for any settings: what a graded graph returns as an answer

\* was given both grades, by graders that saw this very answer, and both good.
THEOREM Acceptance == Spec => []AcceptedIsJudged
<1>1. Init => Base /\ Judged
  BY InitBase, InitChannels DEF Judged, AcceptedIsJudged, Init
<1>2. Base /\ Judged /\ [Next]_vars => (Base /\ Judged)'
  BY NextBase, NextJudged
<1>3. Judged => AcceptedIsJudged
  BY DEF Judged
<1>4. QED
  BY <1>1, <1>2, <1>3, PTL DEF Spec

----------------------------------------------------------------------------
(* The budgets of the loops. *)

\* Where a loop goes round once more, its counter is below its budget.
Bounded ==
    /\ settings.graph = "crag" /\ "rewrite" \in due =>
         ch.retrieve_iterations < settings.rewrites
    /\ settings.graph = "agentic" /\ due \cap {"rewrite", "check_sufficiency", "hop"} # {} =>
         ch.retrieve_iterations < RetrievalBudget(settings)
    /\ settings.graph = "multihop" /\ due \cap {"check_sufficiency", "hop"} # {} =>
         ch.retrieve_iterations + 1 < MaxIterations(settings)

\* The budgets and the counters are natural numbers.
LEMMA Counters ==
    ASSUME Accounts, ChannelsTyped
    PROVE  /\ settings.retries \in Nat /\ settings.rewrites \in Nat /\ settings.hops \in Nat
           /\ RetrievalBudget(settings) \in Nat
           /\ MaxIterations(settings) \in Nat /\ MaxIterations(settings) >= 1
           /\ ch["retrieve_iterations"] \in Nat /\ ch["generate_iterations"] \in Nat
<1>1. settings.retries \in Nat /\ settings.rewrites \in Nat /\ settings.hops \in Nat
  BY SettingsTyped
<1>2. ch["retrieve_iterations"] \in Kind("retrieve_iterations")
      /\ ch["generate_iterations"] \in Kind("generate_iterations")
  BY ChannelKinds DEF Channels
<1>3. ch["retrieve_iterations"] \in Nat /\ ch["generate_iterations"] \in Nat
  BY <1>2, Kinds
<1>4. QED
  BY <1>1, <1>3 DEF RetrievalBudget, MaxIterations, Larger

\* The counter moves by a rewrite, a retry or a hop, and by one.
LEMMA IterationsApplied ==
    ASSUME Base, Complete
    PROVE  Applied["retrieve_iterations"] =
             IF \E n \in {"rewrite", "retry", "hop"} : due = {n}
             THEN ch["retrieve_iterations"] + 1 ELSE ch["retrieve_iterations"]
<1>1. ASSUME NEW n \in {"rewrite", "retry", "hop"}, due = {n}
      PROVE  Applied["retrieve_iterations"] = ch["retrieve_iterations"] + 1
  <2>1. DOMAIN partials = {n} /\ Fits(n, partials[n])
    BY <1>1 DEF Base, Complete, Returned
  <2>2. /\ "retrieve_iterations" \in DOMAIN partials[n]
        /\ partials[n]["retrieve_iterations"] = ch["retrieve_iterations"] + 1
    BY <2>1 DEF Fits, Counting
  <2>3. QED
    BY <2>1, <2>2, Alone DEF Base, Joined, Flags
<1>2. ASSUME \A n \in {"rewrite", "retry", "hop"} : due # {n}
      PROVE  Applied["retrieve_iterations"] = ch["retrieve_iterations"]
  <2>1. \A n \in due : n \notin {"rewrite", "retry", "hop"}
    BY <1>2 DEF Base, Complete, Front, StoreNodes, Graders
  <2>2. \A n \in due : "retrieve_iterations" \notin Writes(n)
    BY <2>1 DEF Writes, StoreNodes, ModeNodes, Narrowing
  <2>3. QED
    BY <2>2, Untouched DEF Base, Channels
<1>3. QED
  BY <1>1, <1>2

\* crag goes round again only below its budget.
LEMMA CragLoop ==
    ASSUME Base, Complete, settings.graph = "crag", "rewrite" \in Following
    PROVE  Applied["retrieve_iterations"] < settings.rewrites
<1>1. PICK n \in Single("crag") : due = {n}
  BY DEF Base, Complete, Front
<1>2. Following = Successors(settings, n, Applied, Room(calls))
  BY <1>1, FollowingOne
<1>3. Applied["retrieve_iterations"] \in Nat /\ settings.rewrites \in Nat
  BY IterationsApplied, Counters DEF Base
<1>4. QED
  BY <1>2, <1>3, CragFlow DEF CragAfterGrade, AfterWeb

\* multihop goes round again only below its budget.
LEMMA MultiHopLoop ==
    ASSUME Base, Bounded, Complete, settings.graph = "multihop",
           Following \cap {"check_sufficiency", "hop"} # {}
    PROVE  Applied["retrieve_iterations"] + 1 < MaxIterations(settings)
<1>1. PICK n \in Single("multihop") : due = {n}
  BY DEF Base, Complete, Front
<1>2. Following = Successors(settings, n, Applied, Room(calls))
  BY <1>1, FollowingOne
<1>3. Applied["retrieve_iterations"] \in Nat /\ MaxIterations(settings) \in Nat
  BY IterationsApplied, Counters DEF Base
<1>4. n \in {"retrieve", "hop", "check_sufficiency"}
  BY <1>1, <1>2, MultiHopFlow DEF Single
<1>5. CASE n \in {"retrieve", "hop"}
  BY <1>2, <1>3, <1>5, MultiHopFlow DEF HopBudget
<1>6. CASE n = "check_sufficiency"
  BY <1>1, <1>6, IterationsApplied DEF Bounded
<1>7. QED
  BY <1>4, <1>5, <1>6

\* agentic goes round again only below its budget.
LEMMA AgenticLoop ==
    ASSUME Base, Bounded, Complete, settings.graph = "agentic",
           Following \cap {"rewrite", "check_sufficiency", "hop"} # {}
    PROVE  Applied["retrieve_iterations"] < RetrievalBudget(settings)
<1>1. due # Graders
  BY FollowingGraders
<1>2. PICK n \in Single("agentic") : due = {n}
  BY <1>1 DEF Base, Complete, Front
<1>3. Following = Successors(settings, n, Applied, Room(calls))
  BY <1>2, FollowingOne
<1>4. Applied["retrieve_iterations"] \in Nat /\ RetrievalBudget(settings) \in Nat
  BY IterationsApplied, Counters DEF Base
<1>5. n \in {"grade", "gate", "check_sufficiency"}
  <2>1. CASE n = "judge"
    BY <1>3, <2>1, AgenticFlow DEF AfterJudge
  <2>2. CASE n = "web_search"
    BY <1>3, <2>2, AgenticFlow DEF AfterWeb
  <2>3. CASE n \notin {"judge", "web_search"}
    BY <1>3, <2>3, AgenticFlow DEF Single
  <2>4. QED
    BY <2>1, <2>2, <2>3
<1>6. CASE n = "grade"
  BY <1>3, <1>4, <1>6, AgenticFlow DEF AgenticAfterGrade
<1>7. CASE n = "gate"
  BY <1>3, <1>4, <1>7, AgenticFlow DEF Gate
<1>8. CASE n = "check_sufficiency"
  BY <1>2, <1>8, IterationsApplied DEF Bounded
<1>9. QED
  BY <1>5, <1>6, <1>7, <1>8

\* Every step keeps Bounded.
LEMMA NextBounded ==
    ASSUME Base, Bounded, [Next]_vars
    PROVE  Bounded'
<1>1. CASE Advances
  BY <1>1, CragLoop, MultiHopLoop, AgenticLoop
  DEF Advances, Bounded, RetrievalBudget, MaxIterations
<1>2. CASE UNCHANGED <<settings, ch, due>>
  BY <1>2 DEF Bounded, RetrievalBudget, MaxIterations
<1>3. QED
  BY <1>1, <1>2, Moves

\* A counter that moves stays within the budget of its loop.
LEMMA LoopStep ==
    ASSUME Base, Bounded, [Next]_vars, ch'.retrieve_iterations > ch.retrieve_iterations,
           settings.graph \in {"crag", "multihop", "agentic"}, "retry" \notin due
    PROVE  ch'.retrieve_iterations <=
             (IF settings.graph = "crag" THEN settings.rewrites
              ELSE IF settings.graph = "multihop" THEN MaxIterations(settings) - 1
              ELSE RetrievalBudget(settings))
<1>1. /\ ch["retrieve_iterations"] \in Nat /\ settings.rewrites \in Nat
      /\ MaxIterations(settings) \in Nat /\ RetrievalBudget(settings) \in Nat
  BY Counters DEF Base
<1>2. ch'["retrieve_iterations"] # ch["retrieve_iterations"]
  BY <1>1
<1>3. Advances
  BY <1>2, Moves
<1>4. PICK n \in {"rewrite", "hop"} : due = {n}
  BY <1>2, <1>3, IterationsApplied DEF Advances
<1>5. ch'["retrieve_iterations"] = ch["retrieve_iterations"] + 1
  BY <1>3, <1>4, IterationsApplied DEF Advances
<1>6. CASE settings.graph = "crag"
  <2>1. n = "rewrite"
    BY <1>4, <1>6 DEF Base, Front, Single
  <2>2. QED
    BY <1>1, <1>4, <1>5, <1>6, <2>1 DEF Bounded
<1>7. CASE settings.graph = "multihop"
  <2>1. n = "hop"
    BY <1>4, <1>7 DEF Base, Front, Single
  <2>2. QED
    BY <1>1, <1>4, <1>5, <1>7, <2>1 DEF Bounded
<1>8. CASE settings.graph = "agentic"
  <2>1. due \cap {"rewrite", "check_sufficiency", "hop"} # {}
    BY <1>4
  <2>2. ch["retrieve_iterations"] < RetrievalBudget(settings)
    BY <1>8, <2>1 DEF Bounded
  <2>3. ch["retrieve_iterations"] + 1 <= RetrievalBudget(settings)
    BY <1>1, <2>2
  <2>4. QED
    BY <1>5, <1>8, <2>3
<1>9. QED
  BY <1>6, <1>7, <1>8

\* LoopsShareBudget for any settings: every loop over retrieval ends by its own

\* counter, and in the agentic graph corrections and hops spend one budget.
THEOREM Loops == Spec => LoopsShareBudget
<1>1. Init => Base /\ Bounded
  BY InitBase DEF Bounded, Init
<1>2. Base /\ Bounded /\ [Next]_vars => (Base /\ Bounded)'
  BY NextBase, NextBounded
<1>3. Base /\ Bounded /\ [Next]_vars =>
        (ch'.retrieve_iterations > ch.retrieve_iterations
           /\ settings.graph \in {"crag", "multihop", "agentic"}
           /\ "retry" \notin due
         => ch'.retrieve_iterations <=
              (IF settings.graph = "crag" THEN settings.rewrites
               ELSE IF settings.graph = "multihop" THEN MaxIterations(settings) - 1
               ELSE RetrievalBudget(settings)))
  BY LoopStep
<1>4. QED
  BY <1>1, <1>2, <1>3, PTL DEF Spec, LoopsShareBudget

----------------------------------------------------------------------------
(* The reserve of the agentic graph. *)

\* The ceiling covers translation, construction, routing and the reserve.
EveryProvided == \A s \in Configurations : Provided(s)

\* Nodes before any store is asked, and whether a store of the route is asked in
\* a language that a model writes.
Prologue == {"validate", "translate", "construct", "route"}
Writing == ch.route \cap Generated # {}

\* Calls that are still there when node n is due alone, and when it returned.
Needs(n) ==
    CASE n \in {"validate", "translate"} -> Reserved + 6
      [] n = "construct" -> Reserved + 2
      [] n \in {"route", "rewrite", "check_sufficiency", "retry"} -> Reserved + 1
      [] n \in {"judge", "abstain"} -> 0
      [] OTHER -> Reserved

Leaves(n) ==
    CASE n = "validate" -> Reserved + 6
      [] n = "translate" -> Reserved + 2
      [] n = "construct" -> Reserved + 1
      [] n = "generate" -> 2
      [] n \in {"judge", "abstain"} -> 0
      [] OTHER -> Reserved

\* Each grader that has not returned has a call.
Pending == (IF "verify_groundedness" \in DOMAIN partials THEN 0 ELSE 1)
             + (IF "verify_utility" \in DOMAIN partials THEN 0 ELSE 1)

Reserve ==
    settings.graph = "agentic" /\ Counted =>
        /\ \A n \in Single("agentic") : due = {n} /\ (n \in Prologue \/ ~Writing) =>
             Remaining >= IF n \in DOMAIN partials THEN Leaves(n) ELSE Needs(n)
        /\ due = Graders /\ ~Writing => Remaining >= Pending

\* What remains on the ledger is a natural number.
LEMMA RemainingNatural ==
    ASSUME Accounts, Counted
    PROVE  Remaining \in Nat /\ settings.ceiling \in Nat /\ calls \in Nat
BY SettingsTyped DEF Accounts, Counted, Remaining

\* A node can pay for its calls, and leaves what Leaves says.
LEMMA Affordable ==
    ASSUME Accounts, Counted, settings.graph = "agentic",
           NEW n \in Single("agentic"), Remaining >= Needs(n),
           n \in Prologue \/ ~Writing, NEW cost \in Spends(n)
    PROVE  Remaining - cost >= Leaves(n) /\ Leaves(n) >= 0
<1>1. Remaining \in Nat
  BY RemainingNatural
<1>2. cost \in Nat
  BY SpendsNatural
<1>3. CASE n = "grade"
  <2>1. RouteCalls = 0
    BY <1>3, StoreCalls DEF Prologue, Writing
  <2>2. PICK made \in 0 .. 0 : cost \in made .. made + Allowance(made)
    BY <1>3, <2>1, Spent
  <2>3. made = 0 /\ Allowance(0) \in Nat
    BY <2>2, AllowanceNatural
  <2>4. cost <= Allowance(0)
    BY <2>2, <2>3
  <2>5. Remaining >= 4 /\ Leaves(n) = 4
    BY <1>3 DEF Needs, Leaves, Reserved
  <2>6. GradeCap \in Nat
    BY QueryAssumption
  <2>7. Allowance(0) <= Remaining - 4
    BY <1>1, <2>5, <2>6 DEF Allowance, Reserved
  <2>8. QED
    BY <1>1, <1>2, <2>3, <2>4, <2>5, <2>7
<1>4. CASE n = "generate"
  BY <1>1, <1>2, <1>4, Spent DEF Needs, Leaves, Reserved
<1>5. CASE n = "translate"
  <2>1. cost \in 0 .. 4
    BY <1>5, Spent DEF Strategies
  <2>2. QED
    BY <1>1, <1>5, <2>1 DEF Needs, Leaves, Reserved
<1>6. CASE n \in {"construct", "route", "rewrite", "retry", "check_sufficiency"}
  <2>1. cost \in 0 .. 1
    BY <1>6, Spent
  <2>2. QED
    BY <1>1, <1>6, <2>1 DEF Needs, Leaves, Reserved
<1>7. CASE n = "hop"
  <2>1. cost \in 0 .. 0
    BY <1>7, Spent, StoreCalls DEF Prologue, Writing
  <2>2. QED
    BY <1>1, <1>7, <2>1 DEF Needs, Leaves, Reserved
<1>8. CASE n \notin {"grade", "generate", "translate", "construct", "route", "rewrite", "retry",
                     "check_sufficiency", "hop"}
  <2>1. cost = 0
    BY <1>8 DEF Spends, Single, Graders, StoreNodes, ModeNodes
  <2>2. QED
    BY <1>1, <1>8, <2>1 DEF Needs, Leaves, Reserved
<1>9. QED
  BY <1>3, <1>4, <1>5, <1>6, <1>7, <1>8

\* A node that returns keeps the reserve, and is refused only where a model
\* writes a query.
LEMMA ReserveReturns ==
    ASSUME Base, Reserve, Returns, settings.graph = "agentic"
    PROVE  (outcome' = "budget" => Writing) /\ Reserve'
<1>1. CASE ~Counted
  <2>1. \A cost : Affords(cost)
    BY <1>1 DEF Affords
  <2>2. outcome' # "budget"
    BY <2>1 DEF Returns, Return
  <2>3. QED
    BY <1>1, <2>2, ReturnMoves DEF Reserve, Counted
<1>2. CASE Counted
  <2>1. PICK n, p, cost : n \in due /\ cost \in Spends(n) /\ Return(n, p, cost) /\ Fits(n, p)
    BY DEF Returns
  <2>2. n \notin DOMAIN partials /\ outcome = "running"
    BY <2>1 DEF Return
  <2>3. Remaining \in Nat /\ settings.ceiling \in Nat /\ calls \in Nat /\ cost \in Nat
    BY <1>2, <2>1, RemainingNatural, SpendsNatural DEF Base
  <2>4. UNCHANGED <<settings, due, ch>>
    BY ReturnMoves
  <2>5. CASE n \in Single("agentic") /\ due = {n} /\ (n \in Prologue \/ ~Writing)
    <3>1. Remaining >= Needs(n)
      BY <1>2, <2>2, <2>5 DEF Reserve
    <3>2. Remaining - cost >= Leaves(n) /\ Leaves(n) >= 0
      BY <1>2, <2>1, <2>5, <3>1, Affordable DEF Base
    <3>3. Leaves(n) \in Nat
      BY DEF Leaves, Reserved
    <3>4. Affords(cost)
      BY <2>3, <3>2, <3>3 DEF Affords
    <3>5. /\ outcome' # "budget" /\ calls' = calls + cost
          /\ n \in DOMAIN partials'
      BY <1>2, <2>1, <2>2, <3>4 DEF Return
    <3>6. Remaining' >= Leaves(n)
      BY <2>3, <2>4, <3>2, <3>3, <3>5 DEF Remaining
    <3>7. due' # Graders
      BY <2>4, <2>5 DEF Graders
    <3>8. QED
      BY <2>4, <2>5, <3>5, <3>6, <3>7 DEF Reserve, Leaves, Needs
  <2>6. CASE due = Graders /\ ~Writing
    <3>1. Remaining >= Pending
      BY <1>2, <2>6 DEF Reserve
    <3>2. cost \in 0 .. 1 /\ n \in {"verify_groundedness", "verify_utility"}
      BY <2>1, <2>6, Spent DEF Graders
    <3>3. Pending >= 1 /\ Pending \in Nat
      BY <2>2, <3>2 DEF Pending
    <3>4. Affords(cost)
      BY <2>3, <3>1, <3>2, <3>3 DEF Affords
    <3>5. /\ outcome' # "budget" /\ calls' = calls + cost
          /\ DOMAIN partials' = DOMAIN partials \cup {n}
      BY <1>2, <2>1, <2>2, <3>4 DEF Return
    <3>6. Pending' = Pending - 1
      BY <2>2, <3>2, <3>5 DEF Pending
    <3>7. Remaining' >= Pending'
      BY <2>3, <2>4, <3>1, <3>2, <3>3, <3>5, <3>6 DEF Remaining
    <3>8. \A m : due' # {m}
      BY <2>4, <2>6 DEF Graders
    <3>9. QED
      BY <3>5, <3>7, <3>8 DEF Reserve
  <2>7. CASE Writing /\ \A m \in Prologue : due # {m}
    <3>1. Writing'
      BY <2>4, <2>7 DEF Writing
    <3>2. QED
      BY <2>4, <2>7, <3>1 DEF Reserve
  <2>8. (\E m \in Single("agentic") : due = {m}) \/ due = Graders
    BY <2>1 DEF Base, Front
  <2>9. due = Graders => \A m : due # {m}
    BY DEF Graders
  <2>10. QED
    BY <2>1, <2>5, <2>6, <2>7, <2>8, <2>9
<1>3. QED
  BY <1>1, <1>2

\* Room means the reserve and one call.
LEMMA RoomLeft ==
    ASSUME Accounts, Counted, Room(calls)
    PROVE  Remaining >= Reserved + 1
<1>1. Remaining \in Nat /\ Remaining > Reserved
  BY RemainingNatural DEF Room, Remaining
<1>2. QED
  BY <1>1 DEF Reserved

\* What a node leaves is enough for the nodes that follow it.
LEMMA EnoughLeft ==
    ASSUME Base, settings.graph = "agentic", Counted,
           NEW n \in Single("agentic"), due = {n}, Remaining >= Leaves(n)
    PROVE  /\ \A m \in Single("agentic") : Following = {m} => Remaining >= Needs(m)
           /\ Following = Graders => Remaining >= 2
<1>1. Following = Successors(settings, n, Applied, Room(calls))
  BY FollowingOne
<1>2. Remaining \in Nat
  BY RemainingNatural DEF Base
<1>3. Room(calls) => Remaining >= 5
  BY RoomLeft DEF Base, Reserved
<1>4. CASE n \in {"validate", "translate", "construct", "route"}
  <2>1. Following = IF n = "validate" THEN {"translate"} ELSE IF n = "translate" THEN {"construct"}
                    ELSE IF n = "construct" THEN {"route"} ELSE {"grade"}
    BY <1>1, <1>4, AgenticFlow
  <2>2. QED
    BY <1>2, <1>4, <2>1 DEF Leaves, Needs, Reserved, Graders
<1>5. CASE n \in {"rewrite", "refine", "hop", "collect", "rerank", "compress", "retry"}
  <2>1. \E m \in {"web_search", "gate", "rerank", "compress", "generate", "grade"} : Following = {m}
    BY <1>1, <1>5, AgenticFlow
  <2>2. Remaining >= 4
    BY <1>5 DEF Leaves, Reserved
  <2>3. QED
    BY <1>2, <2>1, <2>2 DEF Needs, Reserved, Graders
<1>6. CASE n = "generate"
  <2>1. Following = Graders
    BY <1>1, <1>6, AgenticFlow DEF Graders
  <2>2. QED
    BY <1>6, <2>1 DEF Leaves, Graders
<1>7. CASE n = "judge"
  <2>1. Following \in {{}, {"abstain"}} \/ (Following = {"retry"} /\ Room(calls))
    BY <1>1, <1>7, AgenticFlow DEF AfterJudge
  <2>2. QED
    BY <1>2, <1>3, <2>1 DEF Needs, Reserved, Graders
<1>8. CASE n = "grade"
  <2>1. Following \in {{"web_search"}, {"refine"}, {"gate"}} \/ (Following = {"rewrite"} /\ Room(calls))
    BY <1>1, <1>8, AgenticFlow DEF AgenticAfterGrade
  <2>2. Remaining >= 4
    BY <1>8 DEF Leaves, Reserved
  <2>3. QED
    BY <1>2, <1>3, <2>1, <2>2 DEF Needs, Reserved, Graders
<1>9. CASE n \in {"web_search", "check_sufficiency"}
  <2>1. \E m \in {"grade", "gate", "collect", "hop"} : Following = {m}
    BY <1>1, <1>9, AgenticFlow DEF AfterWeb, AfterCheck
  <2>2. Remaining >= 4
    BY <1>9 DEF Leaves, Reserved
  <2>3. QED
    BY <1>2, <2>1, <2>2 DEF Needs, Reserved, Graders
<1>10. CASE n = "gate"
  <2>1. Following = {"collect"} \/ (Following = {"check_sufficiency"} /\ Room(calls))
    BY <1>1, <1>10, AgenticFlow DEF Gate
  <2>2. Remaining >= 4
    BY <1>10 DEF Leaves, Reserved
  <2>3. QED
    BY <1>2, <1>3, <2>1, <2>2 DEF Needs, Reserved, Graders
<1>11. CASE n = "abstain"
  <2>1. Following = {}
    BY <1>1, <1>11, AgenticFlow
  <2>2. QED
    BY <2>1 DEF Graders
<1>12. QED
  BY <1>4, <1>5, <1>6, <1>7, <1>8, <1>9, <1>10, <1>11 DEF Single

\* No node leads back to the ones before the stores.
LEMMA Forward ==
    ASSUME Base, settings.graph = "agentic",
           NEW n \in Single("agentic") \ Prologue, due = {n}, NEW m \in Prologue
    PROVE  Following # {m}
<1>1. Following = Successors(settings, n, Applied, Room(calls))
  BY FollowingOne
<1>2. CASE n \in {"rewrite", "refine", "hop", "collect", "rerank", "compress", "retry"}
  <2>1. \E k \in {"web_search", "gate", "rerank", "compress", "generate", "grade"} : Following = {k}
    BY <1>1, <1>2, AgenticFlow
  <2>2. QED
    BY <2>1 DEF Prologue
<1>3. CASE n = "generate"
  BY <1>1, <1>3, AgenticFlow DEF Graders, Prologue
<1>4. CASE n = "judge"
  BY <1>1, <1>4, AgenticFlow DEF AfterJudge, Prologue
<1>5. CASE n = "grade"
  BY <1>1, <1>5, AgenticFlow DEF AgenticAfterGrade, Prologue
<1>6. CASE n \in {"web_search", "check_sufficiency"}
  BY <1>1, <1>6, AgenticFlow DEF AfterWeb, AfterCheck, Prologue
<1>7. CASE n = "gate"
  BY <1>1, <1>7, AgenticFlow DEF Gate, Prologue
<1>8. CASE n = "abstain"
  BY <1>1, <1>8, AgenticFlow DEF Prologue
<1>9. QED
  BY <1>2, <1>3, <1>4, <1>5, <1>6, <1>7, <1>8 DEF Single, Prologue

\* The end of a superstep keeps the reserve.
LEMMA ReserveAdvances ==
    ASSUME Base, Reserve, Advances
    PROVE  Reserve'
<1>1. SUFFICES ASSUME settings.graph = "agentic", Counted
               PROVE  /\ \A m \in Single("agentic") :
                           Following = {m} /\ (m \in Prologue \/ ~Writing') => Remaining >= Needs(m)
                      /\ Following = Graders /\ ~Writing' => Remaining >= 2
  <2>1. /\ Counted' = Counted /\ Remaining' = Remaining /\ due' = Following
        /\ settings' = settings
    BY DEF Advances, Counted, Remaining
  <2>2. DOMAIN partials' = {}
    BY DEF Advances, Nothing
  <2>3. Pending' = 2
    BY <2>2 DEF Pending
  <2>4. QED
    BY <2>1, <2>2, <2>3 DEF Reserve, Needs, Leaves
<1>2. CASE due = Graders
  <2>1. Remaining >= 0
    BY <1>1, RemainingNatural DEF Base
  <2>2. Following = {"judge"}
    BY <1>1, <1>2, FollowingGraders
  <2>3. QED
    BY <2>1, <2>2 DEF Needs, Graders, Prologue
<1>3. CASE \E n \in Single("agentic") : due = {n} /\ (n \in Prologue \/ ~Writing)
  <2>1. PICK n \in Single("agentic") : due = {n} /\ (n \in Prologue \/ ~Writing)
    BY <1>3
  <2>2. Remaining >= Leaves(n)
    BY <1>1, <2>1 DEF Reserve, Advances, Complete
  <2>3. QED
    BY <1>1, <2>1, <2>2, EnoughLeft
<1>4. CASE \E n \in Single("agentic") \ Prologue : due = {n} /\ Writing
  <2>1. PICK n \in Single("agentic") \ Prologue : due = {n} /\ Writing
    BY <1>4
  <2>2. "route" \in Channels /\ \A k \in due : "route" \notin Writes(k)
    BY <2>1 DEF Channels, Writes, Prologue, Single, StoreNodes, ModeNodes, Narrowing
  <2>3. Applied["route"] = ch["route"]
    BY <2>2, Untouched DEF Base
  <2>4. Writing'
    BY <2>1, <2>3 DEF Writing, Advances
  <2>5. \A m \in Prologue : Following # {m}
    BY <1>1, <2>1, Forward
  <2>6. QED
    BY <2>4, <2>5
<1>5. QED
  BY <1>1, <1>2, <1>3, <1>4 DEF Base, Front, Advances, Complete

\* Every step keeps the reserve, and refuses a call of the agentic graph only
\* where a model writes the queries of a store.
LEMMA NextReserve ==
    ASSUME Base, Reserve, BudgetAnticipated, [Next]_vars
    PROVE  (Reserve /\ BudgetAnticipated)'
<1>1. CASE Returns
  <2>1. settings' = settings /\ ch' = ch
    BY <1>1, ReturnMoves
  <2>2. CASE settings.graph = "agentic"
    BY <1>1, <2>1, <2>2, ReserveReturns DEF BudgetAnticipated, Writing
  <2>3. CASE settings.graph # "agentic"
    BY <2>1, <2>3 DEF Reserve, BudgetAnticipated
  <2>4. QED
    BY <2>2, <2>3
<1>2. CASE Continue \/ Stream \/ Finish
  <2>1. Reserve'
    BY <1>2, Advancing, ReserveAdvances
  <2>2. outcome' # "budget"
    BY <1>2 DEF Continue, Stream, Finish, Complete
  <2>3. QED
    BY <2>1, <2>2 DEF BudgetAnticipated
<1>3. CASE Turned \/ Raise
  <2>1. UNCHANGED <<settings, ch, due, partials, calls>> /\ outcome' # "budget"
    BY <1>3 DEF Turned, Raise
  <2>2. QED
    BY <2>1 DEF Reserve, BudgetAnticipated, Counted, Remaining, Pending, Needs, Leaves, Writing
<1>4. CASE UNCHANGED vars
  BY <1>4 DEF vars, Reserve, BudgetAnticipated, Counted, Remaining, Pending, Needs, Leaves, Writing
<1>5. QED
  BY <1>1, <1>2, <1>3, <1>4, BaseMoves

\* BudgetAnticipated for any settings with such a ceiling: while an agentic
\* query translates, grades, corrects, hops and retries, the reserve stays on the
\* ledger, and BudgetExceeded ends none whose stores are asked without a model.
THEOREM Budget ==
    ASSUME EveryProvided
    PROVE  Spec => []BudgetAnticipated
<1>1. Init => Base /\ Reserve /\ BudgetAnticipated
  <2>1. SUFFICES ASSUME Init
                 PROVE  Base /\ Reserve /\ BudgetAnticipated
    OBVIOUS
  <2>2. settings \in Configurations /\ due = {"validate"} /\ DOMAIN partials = {} /\ calls = 0
    BY <2>1, NothingReturned DEF Init
  <2>3. settings.graph = "agentic" /\ Counted => Remaining >= 10
    <3>1. settings.graph = "agentic" /\ Counted => settings.ceiling >= 10 /\ settings.ceiling \in Nat
      BY <2>2, QueryAssumption DEF EveryProvided, Provided, Counted, Reserved
    <3>2. QED
      BY <2>2, <3>1 DEF Remaining
  <2>4. Needs("validate") = 10
    BY DEF Needs, Reserved
  <2>5. Reserve
    BY <2>2, <2>3, <2>4 DEF Reserve, Graders
  <2>6. QED
    BY <2>1, <2>5, InitBase DEF Init, BudgetAnticipated
<1>2. Base /\ Reserve /\ BudgetAnticipated /\ [Next]_vars => (Base /\ Reserve /\ BudgetAnticipated)'
  BY NextBase, NextReserve
<1>3. QED
  BY <1>1, <1>2, PTL DEF Spec

----------------------------------------------------------------------------
(* The recursion limit. *)

\* LangGraph spends two supersteps at most on START and END, and the limits

\* of the graphs are wide enough for their budgets.
EverySpacious == Sentinels <= 2 /\ \A s \in Configurations : Spacious(s)

\* Iterations that loops had to pay for: past the budget only retries count on.
Paid(c) ==
    IF c.retrieve_iterations < RetrievalBudget(settings)
    THEN c.retrieve_iterations ELSE RetrievalBudget(settings)

\* A check of sufficiency that asks for no hop costs a superstep, while the

\* budget lasts.
Idle(c) == IF c.retrieve_iterations < RetrievalBudget(settings) THEN 1 ELSE 0

\* Supersteps within which node n is reached with channels c, graph by graph.
NaivePace(n) == CASE n = "validate" -> 1 [] n = "retrieve" -> 2 [] OTHER -> 3

AdaptivePace(n) ==
    CASE n = "validate" -> 1 [] n = "translate" -> 2 [] n = "route" -> 3
      [] n \in StoreNodes -> 4 [] n = "fuse" -> 5 [] n = "rerank" -> 6
      [] OTHER -> 7

GraphRagPace(n) ==
    CASE n = "validate" -> 1 [] n = "translate" -> 2 [] n = "classify" -> 3
      [] n \in ModeNodes -> 4 [] n = "fuse" -> 5 [] n \in {"rerank", "reduce"} -> 6
      [] OTHER -> 7

CragPace(c, n) ==
    CASE n = "validate" -> 1 [] n = "translate" -> 2 [] n = "route" -> 3
      [] n = "grade" -> 4 + 3 * c.retrieve_iterations
      [] n \in {"rewrite", "refine"} -> 5 + 3 * c.retrieve_iterations
      [] n = "web_search" ->
           (IF c.grade = "incorrect" THEN 3 ELSE 5) + 3 * c.retrieve_iterations
      [] OTHER -> 6 + 3 * c.retrieve_iterations

SelfRagPace(c, n) ==
    CASE n = "validate" -> 1 [] n = "translate" -> 2 [] n = "route" -> 3
      [] n = "retrieve" -> 4 + 6 * c.generate_iterations
      [] n = "rerank" -> 5 + 6 * c.generate_iterations
      [] n = "generate" -> 6 + 6 * c.generate_iterations
      [] n \in Graders -> 1 + 6 * c.generate_iterations
      [] n = "judge" -> 2 + 6 * c.generate_iterations
      [] OTHER -> 3 + 6 * c.generate_iterations

MultiHopPace(c, n) ==
    CASE n = "validate" -> 1 [] n = "translate" -> 2 [] n = "seed" -> 3
      [] n = "bridge" -> 4 [] n = "retrieve" -> 5
      [] n = "check_sufficiency" -> 6 + 2 * c.retrieve_iterations
      [] n \in {"hop", "fuse"} -> 7 + 2 * c.retrieve_iterations
      [] n = "rerank" -> 8 + 2 * c.retrieve_iterations
      [] OTHER -> 9 + 2 * c.retrieve_iterations

AgenticPace(c, n) ==
    LET round == 10 * c.generate_iterations + 3 * Paid(c)
    IN  CASE n = "validate" -> 1 [] n = "translate" -> 2 [] n = "construct" -> 3
          [] n = "route" -> 4
          [] n = "grade" -> 5 + round
          [] n \in {"rewrite", "refine"} -> 6 + round
          [] n = "web_search" -> (IF c.grade = "incorrect" THEN 4 ELSE 6) + round
          [] n = "gate" -> 7 + round
          [] n = "check_sufficiency" -> 8 + round
          [] n = "hop" -> 9 + round
          [] n = "collect" -> 8 + round + Idle(c)
          [] n = "rerank" -> 9 + round + Idle(c)
          [] n = "compress" -> 10 + round + Idle(c)
          [] n = "generate" -> 11 + round + Idle(c)
          [] n \in Graders -> 2 + round + Idle(c)
          [] n = "judge" -> 3 + round + Idle(c)
          [] OTHER -> 4 + round + Idle(c)

Pace(c, n) ==
    CASE settings.graph = "naive" -> NaivePace(n)
      [] settings.graph = "adaptive" -> AdaptivePace(n)
      [] settings.graph = "graphrag" -> GraphRagPace(n)
      [] settings.graph = "crag" -> CragPace(c, n)
      [] settings.graph = "self_rag" -> SelfRagPace(c, n)
      [] settings.graph = "multihop" -> MultiHopPace(c, n)
      [] OTHER -> AgenticPace(c, n)

\* The counters of channels c within their budgets when node n is due.
Within(c, n) ==
    /\ settings.graph = "crag" => c.retrieve_iterations <= settings.rewrites
    /\ settings.graph = "multihop" => c.retrieve_iterations + 1 <= MaxIterations(settings)
    /\ settings.graph \in Grading =>
         c.generate_iterations <=
           IF n \in {"judge", "abstain"} \cup Graders
           THEN settings.retries + 1 ELSE settings.retries

Paced == ~ch.uncounted =>
    \A n \in due : step <= Pace(ch, n) /\ Within(ch, n)

\* Attempts are counted, unless the ghost says that one was not.
LEMMA GenerationsApplied ==
    ASSUME Base, Complete, ~Applied["uncounted"]
    PROVE  /\ ~ch["uncounted"]
           /\ Applied["generate_iterations"] =
                IF due = {"generate"} THEN ch["generate_iterations"] + 1
                ELSE ch["generate_iterations"]
<1>1. ~ch["uncounted"] /\ \A n \in Writers("uncounted") : ~partials[n]["uncounted"]
  BY Applying DEF Base, Channels, Flags
<1>2. CASE due = {"generate"}
  <2>1. DOMAIN partials = {"generate"} /\ Fits("generate", partials["generate"])
    BY <1>2 DEF Base, Complete, Returned
  <2>2. CASE "generate_iterations" \in DOMAIN partials["generate"]
    <3>1. partials["generate"]["generate_iterations"] = ch["generate_iterations"] + 1
      BY <2>1, <2>2 DEF Fits, Counting
    <3>2. QED
      BY <1>1, <1>2, <2>1, <2>2, <3>1, Alone DEF Base, Joined, Flags
  <2>3. CASE "generate_iterations" \notin DOMAIN partials["generate"]
    <3>1. /\ "uncounted" \in DOMAIN partials["generate"]
          /\ partials["generate"]["uncounted"]
      BY <2>1, <2>3 DEF Fits, Counting
    <3>2. QED
      BY <1>1, <2>1, <3>1 DEF Writers
  <2>4. QED
    BY <2>2, <2>3
<1>3. CASE due # {"generate"}
  <2>1. "generate" \notin due
    BY <1>3 DEF Base, Complete, Front, StoreNodes, Graders
  <2>2. \A n \in due : "generate_iterations" \notin Writes(n)
    BY <2>1 DEF Writes, StoreNodes, ModeNodes, Narrowing
  <2>3. QED
    BY <1>1, <1>3, <2>2, Untouched DEF Base, Channels
<1>4. QED
  BY <1>2, <1>3

\* The counters after a superstep are natural numbers.
LEMMA AppliedCounters ==
    ASSUME Base
    PROVE  Applied["retrieve_iterations"] \in Nat /\ Applied["generate_iterations"] \in Nat
<1>1. /\ Applied["retrieve_iterations"] \in Kind("retrieve_iterations")
      /\ Applied["generate_iterations"] \in Kind("generate_iterations")
  BY AppliedTyped DEF Base, Typed, Channels
<1>2. QED
  BY <1>1, Kinds

\* From here on, the superstep of a query whose attempts are all counted.
LEMMA PlainPaced ==
    ASSUME Base, Paced, Complete, ~Applied["uncounted"], NEW m \in Following,
           settings.graph \in {"naive", "adaptive", "graphrag"}
    PROVE  step + 1 <= Pace(Applied, m)
<1>1. step \in Nat /\ \A n \in due : step <= Pace(ch, n)
  BY GenerationsApplied DEF Base, Paced
<1>2. CASE settings.graph = "adaptive" /\ due \subseteq StoreNodes
  <2>1. m = "fuse"
    BY <1>2, FollowingLegs DEF Base, Complete
  <2>2. PICK n \in due : n \in StoreNodes
    BY <1>2 DEF Complete
  <2>3. step <= 4
    BY <1>1, <1>2, <2>2 DEF Pace, AdaptivePace, StoreNodes
  <2>4. QED
    BY <1>1, <1>2, <2>1, <2>3 DEF Pace, AdaptivePace, StoreNodes
<1>3. ASSUME NEW n \in Single(settings.graph), due = {n}
      PROVE  step + 1 <= Pace(Applied, m)
  <2>1. m \in Successors(settings, n, Applied, Room(calls)) /\ step <= Pace(ch, n)
    BY <1>1, <1>3, FollowingOne
  <2>2. CASE settings.graph = "naive"
    BY <1>1, <1>3, <2>1, <2>2, NaiveFlow DEF Pace, NaivePace, Single
  <2>3. CASE settings.graph = "adaptive"
    <3>1. CASE n = "route"
      <4>1. m \in StoreNodes \cup {"generate"}
        BY <1>3, <2>3, <3>1, RouteLeads
      <4>2. QED
        BY <1>1, <2>1, <2>3, <3>1, <4>1 DEF Pace, AdaptivePace, StoreNodes
    <3>2. CASE n # "route"
      BY <1>1, <1>3, <2>1, <2>3, <3>2, AdaptiveFlow DEF Pace, AdaptivePace, Single, StoreNodes
    <3>3. QED
      BY <3>1, <3>2
  <2>4. CASE settings.graph = "graphrag"
    <3>1. CASE n = "classify"
      <4>1. m \in ModeNodes
        BY <1>3, <2>4, <3>1, ModeLeads
      <4>2. QED
        BY <1>1, <2>1, <2>4, <3>1, <4>1 DEF Pace, GraphRagPace, ModeNodes
    <3>2. CASE n # "classify"
      BY <1>1, <1>3, <2>1, <2>4, <3>2, GraphRagFlow DEF Pace, GraphRagPace, Single, ModeNodes
    <3>3. QED
      BY <3>1, <3>2
  <2>5. QED
    BY <2>2, <2>3, <2>4
<1>4. QED
  BY <1>2, <1>3 DEF Base, Complete, Front

\* crag: two corrections of retrieval are three supersteps apart.
LEMMA CragPaced ==
    ASSUME Base, Bounded, Paced, Complete, ~Applied["uncounted"], NEW m \in Following,
           settings.graph = "crag"
    PROVE  step + 1 <= CragPace(Applied, m) /\ Within(Applied, m)
<1>1. PICK n \in Single("crag") : due = {n}
  BY DEF Base, Complete, Front
<1>2. /\ step \in Nat /\ step <= CragPace(ch, n)
      /\ ch["retrieve_iterations"] <= settings.rewrites
  BY <1>1, GenerationsApplied DEF Base, Paced, Pace, Within
<1>3. m \in Successors(settings, n, Applied, Room(calls))
  BY <1>1, FollowingOne
<1>4. /\ ch["retrieve_iterations"] \in Nat /\ settings.rewrites \in Nat
  BY Counters DEF Base
<1>5. Applied["retrieve_iterations"] = IF n = "rewrite" THEN ch["retrieve_iterations"] + 1
                                       ELSE ch["retrieve_iterations"]
  BY <1>1, IterationsApplied DEF Single
<1>6. Applied["retrieve_iterations"] <= settings.rewrites
  BY <1>1, <1>2, <1>4, <1>5 DEF Bounded
<1>7. n # "grade" => Applied["grade"] = ch["grade"]
  BY <1>1, GradeWriters
<1>8. step + 1 <= CragPace(Applied, m)
  <2>1. CASE n = "grade"
    BY <1>2, <1>3, <1>4, <1>5, <2>1, CragFlow DEF CragPace, CragAfterGrade
  <2>2. CASE n = "web_search"
    BY <1>2, <1>3, <1>4, <1>5, <1>7, <2>2, CragFlow DEF CragPace, AfterWeb
  <2>3. CASE n = "rewrite"
    BY <1>2, <1>3, <1>4, <1>5, <2>3, CragFlow DEF CragPace
  <2>4. CASE n \notin {"grade", "web_search", "rewrite"}
    BY <1>1, <1>2, <1>3, <1>4, <1>5, <2>4, CragFlow DEF CragPace, Single
  <2>5. QED
    BY <2>1, <2>2, <2>3, <2>4
<1>9. QED
  BY <1>6, <1>8 DEF Within, Grading

\* multihop: two hops are two supersteps apart.
LEMMA MultiHopPaced ==
    ASSUME Base, Bounded, Paced, Complete, ~Applied["uncounted"], NEW m \in Following,
           settings.graph = "multihop"
    PROVE  step + 1 <= MultiHopPace(Applied, m) /\ Within(Applied, m)
<1>1. PICK n \in Single("multihop") : due = {n}
  BY DEF Base, Complete, Front
<1>2. /\ step \in Nat /\ step <= MultiHopPace(ch, n)
      /\ ch["retrieve_iterations"] + 1 <= MaxIterations(settings)
  BY <1>1, GenerationsApplied DEF Base, Paced, Pace, Within
<1>3. m \in Successors(settings, n, Applied, Room(calls))
  BY <1>1, FollowingOne
<1>4. /\ ch["retrieve_iterations"] \in Nat /\ MaxIterations(settings) \in Nat
  BY Counters DEF Base
<1>5. Applied["retrieve_iterations"] = IF n = "hop" THEN ch["retrieve_iterations"] + 1
                                       ELSE ch["retrieve_iterations"]
  BY <1>1, IterationsApplied DEF Single
<1>6. Applied["retrieve_iterations"] + 1 <= MaxIterations(settings)
  <2>1. CASE n = "hop"
    <3>1. ch["retrieve_iterations"] + 1 < MaxIterations(settings)
      BY <1>1, <2>1 DEF Bounded
    <3>2. QED
      BY <1>4, <1>5, <2>1, <3>1
  <2>2. CASE n # "hop"
    BY <1>2, <1>5, <2>2
  <2>3. QED
    BY <2>1, <2>2
<1>7. step + 1 <= MultiHopPace(Applied, m)
  <2>1. CASE n \in {"retrieve", "hop"}
    BY <1>2, <1>3, <1>4, <1>5, <2>1, MultiHopFlow DEF MultiHopPace, HopBudget
  <2>2. CASE n = "check_sufficiency"
    BY <1>2, <1>3, <1>4, <1>5, <2>2, MultiHopFlow DEF MultiHopPace, AfterCheck
  <2>3. CASE n = "bridge"
    BY <1>2, <1>3, <1>4, <1>5, <2>3, MultiHopFlow DEF MultiHopPace
  <2>4. CASE n \notin {"retrieve", "hop", "check_sufficiency", "bridge"}
    BY <1>1, <1>2, <1>3, <1>4, <1>5, <2>4, MultiHopFlow DEF MultiHopPace, Single
  <2>5. QED
    BY <2>1, <2>2, <2>3, <2>4
<1>8. QED
  BY <1>6, <1>7 DEF Within, Grading

\* self_rag: two attempts at an answer are six supersteps apart.
LEMMA SelfRagPaced ==
    ASSUME Base, Paced, Complete, ~Applied["uncounted"], NEW m \in Following,
           settings.graph = "self_rag"
    PROVE  step + 1 <= SelfRagPace(Applied, m) /\ Within(Applied, m)
<1>1. /\ step \in Nat /\ ch["generate_iterations"] \in Nat /\ settings.retries \in Nat
      /\ Applied["generate_iterations"] = IF due = {"generate"} THEN ch["generate_iterations"] + 1
                                          ELSE ch["generate_iterations"]
  BY GenerationsApplied, Counters DEF Base
<1>2. \A n \in due : step <= SelfRagPace(ch, n) /\ Within(ch, n)
  BY GenerationsApplied DEF Paced, Pace
<1>3. CASE due = Graders
  <2>1. m = "judge"
    BY <1>3, FollowingGraders
  <2>2. /\ step <= 1 + 6 * ch["generate_iterations"]
        /\ ch["generate_iterations"] <= settings.retries + 1
    BY <1>2, <1>3 DEF SelfRagPace, Within, Graders, Grading
  <2>3. due # {"generate"}
    BY <1>3 DEF Graders
  <2>4. QED
    BY <1>1, <2>1, <2>2, <2>3 DEF SelfRagPace, Within, Graders, Grading
<1>4. ASSUME NEW n \in Single("self_rag"), due = {n}
      PROVE  step + 1 <= SelfRagPace(Applied, m) /\ Within(Applied, m)
  <2>1. /\ step <= SelfRagPace(ch, n)
        /\ ch["generate_iterations"] <= IF n \in {"judge", "abstain"} THEN settings.retries + 1
                                        ELSE settings.retries
    BY <1>2, <1>4 DEF Within, Graders, Grading, Single
  <2>2. m \in Successors(settings, n, Applied, Room(calls))
    BY <1>4, FollowingOne
  <2>3. Applied["generate_iterations"] = IF n = "generate" THEN ch["generate_iterations"] + 1
                                         ELSE ch["generate_iterations"]
    BY <1>1, <1>4
  <2>4. CASE n = "generate"
    <3>1. m \in Graders
      BY <2>2, <2>4, SelfRagFlow DEF Graders
    <3>2. QED
      BY <1>1, <2>1, <2>3, <2>4, <3>1 DEF SelfRagPace, Within, Graders, Grading
  <2>5. CASE n = "judge"
    <3>1. \/ m = "abstain"
          \/ m = "retry" /\ Applied["generate_iterations"] <= settings.retries
      BY <1>1, <2>2, <2>3, <2>5, SelfRagFlow DEF JudgedOn
    <3>2. QED
      BY <1>1, <2>1, <2>3, <2>5, <3>1 DEF SelfRagPace, Within, Graders, Grading
  <2>6. CASE n \notin {"generate", "judge"}
    <3>1. m \in {"translate", "route", "retrieve", "rerank", "generate"} /\ n # "abstain"
      BY <1>4, <2>2, <2>6, SelfRagFlow DEF Single
    <3>2. step + 1 <= SelfRagPace(Applied, m)
      BY <1>1, <1>4, <2>1, <2>2, <2>3, <2>6, SelfRagFlow DEF SelfRagPace, Single, Graders
    <3>3. QED
      BY <2>1, <2>3, <2>6, <3>1, <3>2 DEF Within, Graders, Grading
  <2>7. QED
    BY <2>4, <2>5, <2>6
<1>5. QED
  BY <1>3, <1>4 DEF Base, Complete, Front

\* What one superstep of the agentic graph adds to the account of its rounds.
LEMMA RoundsApplied ==
    ASSUME Base, Bounded, Complete, ~Applied["uncounted"], settings.graph = "agentic"
    PROVE  /\ Paid(ch) \in Nat /\ Paid(Applied) \in Nat
           /\ Idle(ch) \in {0, 1} /\ Idle(Applied) \in {0, 1}
           /\ Paid(Applied) = IF \E n \in {"rewrite", "retry", "hop"} : due = {n}
                              THEN Paid(ch) + Idle(ch) ELSE Paid(ch)
           /\ Idle(Applied) <= Idle(ch)
           /\ (\A n \in {"rewrite", "retry", "hop"} : due # {n}) => Idle(Applied) = Idle(ch)
           /\ due \cap {"rewrite", "check_sufficiency", "hop"} # {} => Idle(ch) = 1
<1>1. /\ ch["retrieve_iterations"] \in Nat /\ RetrievalBudget(settings) \in Nat
  BY Counters DEF Base
<1>2. CASE \E n \in {"rewrite", "retry", "hop"} : due = {n}
  <2>1. Applied["retrieve_iterations"] = ch["retrieve_iterations"] + 1
    BY <1>2, IterationsApplied
  <2>2. due \cap {"rewrite", "check_sufficiency", "hop"} # {} => Idle(ch) = 1
    BY <1>1 DEF Bounded, Idle
  <2>3. QED
    BY <1>1, <1>2, <2>1, <2>2 DEF Paid, Idle
<1>3. CASE \A n \in {"rewrite", "retry", "hop"} : due # {n}
  <2>1. Applied["retrieve_iterations"] = ch["retrieve_iterations"]
    BY <1>3, IterationsApplied
  <2>2. due \cap {"rewrite", "check_sufficiency", "hop"} # {} => Idle(ch) = 1
    BY <1>1 DEF Bounded, Idle
  <2>3. QED
    BY <1>1, <1>3, <2>1, <2>2 DEF Paid, Idle
<1>4. QED
  BY <1>2, <1>3

\* The agentic bounds one by one.
LEMMA AgenticPaces ==
    ASSUME NEW c, NEW round, round = 10 * c.generate_iterations + 3 * Paid(c)
    PROVE  /\ AgenticPace(c, "validate") = 1
           /\ AgenticPace(c, "translate") = 2
           /\ AgenticPace(c, "construct") = 3
           /\ AgenticPace(c, "route") = 4
           /\ AgenticPace(c, "grade") = 5 + round
           /\ AgenticPace(c, "rewrite") = 6 + round
           /\ AgenticPace(c, "refine") = 6 + round
           /\ AgenticPace(c, "gate") = 7 + round
           /\ AgenticPace(c, "check_sufficiency") = 8 + round
           /\ AgenticPace(c, "hop") = 9 + round
           /\ AgenticPace(c, "collect") = 8 + round + Idle(c)
           /\ AgenticPace(c, "rerank") = 9 + round + Idle(c)
           /\ AgenticPace(c, "compress") = 10 + round + Idle(c)
           /\ AgenticPace(c, "generate") = 11 + round + Idle(c)
           /\ AgenticPace(c, "judge") = 3 + round + Idle(c)
           /\ AgenticPace(c, "retry") = 4 + round + Idle(c)
           /\ AgenticPace(c, "abstain") = 4 + round + Idle(c)
           /\ AgenticPace(c, "web_search") = (IF c.grade = "incorrect" THEN 4 ELSE 6) + round
           /\ AgenticPace(c, "verify_groundedness") = 2 + round + Idle(c)
           /\ AgenticPace(c, "verify_utility") = 2 + round + Idle(c)
<1>1. AgenticPace(c, "validate") = 1
  BY DEF AgenticPace, Graders
<1>2. AgenticPace(c, "translate") = 2
  BY DEF AgenticPace, Graders
<1>3. AgenticPace(c, "construct") = 3
  BY DEF AgenticPace, Graders
<1>4. AgenticPace(c, "route") = 4
  BY DEF AgenticPace, Graders
<1>5. AgenticPace(c, "grade") = 5 + round
  BY DEF AgenticPace, Graders
<1>6. AgenticPace(c, "rewrite") = 6 + round
  BY DEF AgenticPace, Graders
<1>7. AgenticPace(c, "refine") = 6 + round
  BY DEF AgenticPace, Graders
<1>8. AgenticPace(c, "gate") = 7 + round
  BY DEF AgenticPace, Graders
<1>9. AgenticPace(c, "check_sufficiency") = 8 + round
  BY DEF AgenticPace, Graders
<1>10. AgenticPace(c, "hop") = 9 + round
  BY DEF AgenticPace, Graders
<1>11. AgenticPace(c, "collect") = 8 + round + Idle(c)
  BY DEF AgenticPace, Graders
<1>12. AgenticPace(c, "rerank") = 9 + round + Idle(c)
  BY DEF AgenticPace, Graders
<1>13. AgenticPace(c, "compress") = 10 + round + Idle(c)
  BY DEF AgenticPace, Graders
<1>14. AgenticPace(c, "generate") = 11 + round + Idle(c)
  BY DEF AgenticPace, Graders
<1>15. AgenticPace(c, "judge") = 3 + round + Idle(c)
  BY DEF AgenticPace, Graders
<1>16. AgenticPace(c, "retry") = 4 + round + Idle(c)
  BY DEF AgenticPace, Graders
<1>17. AgenticPace(c, "abstain") = 4 + round + Idle(c)
  BY DEF AgenticPace, Graders
<1>18. AgenticPace(c, "web_search") = (IF c.grade = "incorrect" THEN 4 ELSE 6) + round
  BY DEF AgenticPace, Graders
<1>19. AgenticPace(c, "verify_groundedness") = 2 + round + Idle(c)
  BY DEF AgenticPace, Graders
<1>20. AgenticPace(c, "verify_utility") = 2 + round + Idle(c)
  BY DEF AgenticPace, Graders
<1>21. QED
  BY <1>1, <1>2, <1>3, <1>4, <1>5, <1>6, <1>7, <1>8, <1>9, <1>10, <1>11, <1>12, <1>13, <1>14, <1>15, <1>16, <1>17, <1>18, <1>19, <1>20

\* agentic: ten supersteps for an attempt, three for a round that the budget paid.
LEMMA AgenticPaced ==
    ASSUME Base, Bounded, Paced, Complete, ~Applied["uncounted"], NEW m \in Following,
           settings.graph = "agentic"
    PROVE  step + 1 <= AgenticPace(Applied, m) /\ Within(Applied, m)
<1> DEFINE gi == ch["generate_iterations"]
           paid == Paid(ch)
           idle == Idle(ch)
<1>1. /\ step \in Nat /\ gi \in Nat /\ settings.retries \in Nat
      /\ Applied["generate_iterations"] = IF due = {"generate"} THEN gi + 1 ELSE gi
  BY GenerationsApplied, Counters DEF Base
<1>2. \A n \in due : step <= AgenticPace(ch, n) /\ Within(ch, n)
  BY GenerationsApplied DEF Paced, Pace
<1>3. /\ paid \in Nat /\ Paid(Applied) \in Nat /\ idle \in {0, 1} /\ Idle(Applied) \in {0, 1}
      /\ Paid(Applied) = IF \E n \in {"rewrite", "retry", "hop"} : due = {n}
                         THEN paid + idle ELSE paid
      /\ (\A n \in {"rewrite", "retry", "hop"} : due # {n}) => Idle(Applied) = idle
      /\ due \cap {"rewrite", "check_sufficiency", "hop"} # {} => idle = 1
  BY RoundsApplied
<1> HIDE DEF gi, paid, idle
<1>4. CASE due = Graders
  <2>1. m = "judge"
    BY <1>4, FollowingGraders
  <2>2. /\ step <= 2 + (10 * gi + 3 * paid) + idle
        /\ gi <= settings.retries + 1
    BY <1>2, <1>4 DEF AgenticPace, Within, Graders, Grading, gi, paid, idle
  <2>3. due # {"generate"} /\ \A n \in {"rewrite", "retry", "hop"} : due # {n}
    BY <1>4 DEF Graders
  <2>4. /\ Applied["generate_iterations"] = gi /\ Paid(Applied) = paid /\ Idle(Applied) = idle
    BY <1>1, <1>3, <2>3
  <2>5. step + 1 <= 3 + (10 * gi + 3 * paid) + idle
    BY <1>1, <1>3, <2>2
  <2>6. AgenticPace(Applied, "judge") = 3 + (10 * gi + 3 * paid) + idle
    BY <2>4 DEF AgenticPace, Graders
  <2>7. QED
    BY <2>1, <2>2, <2>4, <2>5, <2>6 DEF Within, Graders, Grading
<1>5. ASSUME NEW n \in Single("agentic"), due = {n}
      PROVE  step + 1 <= AgenticPace(Applied, m) /\ Within(Applied, m)
  <2> DEFINE round == 10 * gi + 3 * paid
             after == 10 * Applied["generate_iterations"] + 3 * Paid(Applied)
  <2>1. /\ step <= AgenticPace(ch, n)
        /\ gi <= IF n \in {"judge", "abstain"} THEN settings.retries + 1
                 ELSE settings.retries
    BY <1>2, <1>5 DEF Within, Graders, Grading, Single, gi
  <2>2. m \in Successors(settings, n, Applied, Room(calls))
    BY <1>5, FollowingOne
  <2>3. Applied["generate_iterations"] = IF n = "generate" THEN gi + 1 ELSE gi
    BY <1>1, <1>5
  <2>4. /\ Paid(Applied) = IF n \in {"rewrite", "retry", "hop"} THEN paid + idle ELSE paid
        /\ n \notin {"rewrite", "retry", "hop"} => Idle(Applied) = idle
        /\ n \in {"rewrite", "check_sufficiency", "hop"} => idle = 1
    BY <1>3, <1>5
  <2>5. round \in Nat
    BY <1>1, <1>3
  <2>6. after = IF n = "generate" THEN round + 10
                ELSE IF n \in {"rewrite", "retry", "hop"} THEN round + 3 * idle ELSE round
    BY <1>1, <1>3, <2>3, <2>4
  <2> HIDE DEF round, after
  <2>7. /\ AgenticPace(ch, "validate") = 1
        /\ AgenticPace(ch, "translate") = 2
        /\ AgenticPace(ch, "construct") = 3
        /\ AgenticPace(ch, "route") = 4
        /\ AgenticPace(ch, "grade") = 5 + round
        /\ AgenticPace(ch, "rewrite") = 6 + round
        /\ AgenticPace(ch, "refine") = 6 + round
        /\ AgenticPace(ch, "gate") = 7 + round
        /\ AgenticPace(ch, "check_sufficiency") = 8 + round
        /\ AgenticPace(ch, "hop") = 9 + round
        /\ AgenticPace(ch, "collect") = 8 + round + idle
        /\ AgenticPace(ch, "rerank") = 9 + round + idle
        /\ AgenticPace(ch, "compress") = 10 + round + idle
        /\ AgenticPace(ch, "generate") = 11 + round + idle
        /\ AgenticPace(ch, "judge") = 3 + round + idle
        /\ AgenticPace(ch, "retry") = 4 + round + idle
        /\ AgenticPace(ch, "abstain") = 4 + round + idle
        /\ AgenticPace(ch, "web_search") = (IF ch.grade = "incorrect" THEN 4 ELSE 6) + round
    BY AgenticPaces DEF round, gi, paid, idle
  <2>8. /\ AgenticPace(Applied, "validate") = 1
        /\ AgenticPace(Applied, "translate") = 2
        /\ AgenticPace(Applied, "construct") = 3
        /\ AgenticPace(Applied, "route") = 4
        /\ AgenticPace(Applied, "grade") = 5 + after
        /\ AgenticPace(Applied, "rewrite") = 6 + after
        /\ AgenticPace(Applied, "refine") = 6 + after
        /\ AgenticPace(Applied, "gate") = 7 + after
        /\ AgenticPace(Applied, "check_sufficiency") = 8 + after
        /\ AgenticPace(Applied, "hop") = 9 + after
        /\ AgenticPace(Applied, "collect") = 8 + after + Idle(Applied)
        /\ AgenticPace(Applied, "rerank") = 9 + after + Idle(Applied)
        /\ AgenticPace(Applied, "compress") = 10 + after + Idle(Applied)
        /\ AgenticPace(Applied, "generate") = 11 + after + Idle(Applied)
        /\ AgenticPace(Applied, "judge") = 3 + after + Idle(Applied)
        /\ AgenticPace(Applied, "retry") = 4 + after + Idle(Applied)
        /\ AgenticPace(Applied, "abstain") = 4 + after + Idle(Applied)
        /\ AgenticPace(Applied, "web_search") = (IF Applied.grade = "incorrect" THEN 4 ELSE 6) + after
        /\ \A k \in Graders : AgenticPace(Applied, k) = 2 + after + Idle(Applied)
    BY AgenticPaces DEF after, Graders
  <2>9. CASE n \in {"validate", "translate", "construct", "route"}
    <3>1. \/ n = "validate" /\ m = "translate" /\ step <= 1
          \/ n = "translate" /\ m = "construct" /\ step <= 2
          \/ n = "construct" /\ m = "route" /\ step <= 3
          \/ n = "route" /\ m = "grade" /\ step <= 4
      BY <2>1, <2>7, <2>2, <2>9, AgenticFlow
    <3>2. step + 1 <= AgenticPace(Applied, m)
      <4>1. after \in Nat
        BY <2>5, <2>6, <2>9
      <4>2. QED
        BY <1>1, <2>8, <3>1, <4>1
    <3>3. QED
      BY <2>1, <2>3, <2>9, <3>1, <3>2 DEF Within, Graders, Grading
  <2>10. CASE n = "grade"
    <3>1. m \in {"rewrite", "web_search", "refine", "gate"}
          /\ (m = "web_search" => Applied["grade"] # "incorrect")
      BY <2>2, <2>10, AgenticFlow DEF AgenticAfterGrade
    <3>2. step <= 5 + round
      BY <2>1, <2>7, <2>10
    <3>3. AgenticPace(Applied, m) = 6 + after \/ AgenticPace(Applied, m) = 7 + after
      BY <2>8, <3>1
    <3>4. after = round
      BY <2>6, <2>10
    <3>5. step + 1 <= AgenticPace(Applied, m)
      BY <1>1, <2>5, <3>2, <3>3, <3>4
    <3>6. QED
      BY <2>1, <2>3, <2>10, <3>1, <3>5 DEF Within, Graders, Grading
  <2>11. CASE n \in {"rewrite", "retry", "hop"}
    <3>1. \/ n = "rewrite" /\ m = "web_search" /\ step <= 6 + round
          \/ n = "retry" /\ m = "grade" /\ step <= 4 + round + idle
          \/ n = "hop" /\ m = "gate" /\ step <= 9 + round
      BY <2>1, <2>7, <2>2, <2>11, AgenticFlow
    <3>2. /\ after \in Nat /\ after = round + 3 * idle
          /\ n # "retry" => idle = 1
      BY <1>3, <2>4, <2>5, <2>6, <2>11
    <3>3. /\ m = "web_search" => \/ AgenticPace(Applied, m) = 4 + after
                                \/ AgenticPace(Applied, m) = 6 + after
          /\ m = "grade" => AgenticPace(Applied, m) = 5 + after
          /\ m = "gate" => AgenticPace(Applied, m) = 7 + after
      BY <2>8
    <3>4. step + 1 <= AgenticPace(Applied, m)
      BY <1>1, <1>3, <2>5, <3>1, <3>2, <3>3
    <3>5. QED
      BY <2>1, <2>3, <2>11, <3>1, <3>4 DEF Within, Graders, Grading
  <2>12. CASE n = "web_search"
    <3>1. Applied["grade"] = ch["grade"]
      BY <1>5, <2>12, GradeWriters
    <3>2. \/ m = "grade" /\ step <= 4 + round
          \/ m = "gate" /\ step <= 6 + round
      BY <1>1, <2>1, <2>2, <2>5, <2>7, <2>12, <3>1, AgenticFlow DEF AfterWeb
    <3>3. /\ m = "grade" => AgenticPace(Applied, m) = 5 + after
          /\ m = "gate" => AgenticPace(Applied, m) = 7 + after
      BY <2>8
    <3>4. step + 1 <= AgenticPace(Applied, m)
      BY <1>1, <2>5, <2>6, <2>12, <3>2, <3>3
    <3>5. QED
      BY <2>1, <2>3, <2>12, <3>2, <3>4 DEF Within, Graders, Grading
  <2>13. CASE n \in {"refine", "gate", "check_sufficiency"}
    <3>1. \/ n = "refine" /\ m = "gate" /\ step <= 6 + round
          \/ n = "gate" /\ m = "collect" /\ step <= 7 + round
          \/ n = "gate" /\ m = "check_sufficiency" /\ step <= 7 + round
          \/ n = "check_sufficiency" /\ m = "collect" /\ step <= 8 + round
          \/ n = "check_sufficiency" /\ m = "hop" /\ step <= 8 + round
      BY <2>1, <2>7, <2>2, <2>13, AgenticFlow DEF Gate, AfterCheck
    <3>2. /\ m = "gate" => AgenticPace(Applied, m) = 7 + after
          /\ m = "collect" => AgenticPace(Applied, m) = 8 + after + Idle(Applied)
          /\ m = "check_sufficiency" => AgenticPace(Applied, m) = 8 + after
          /\ m = "hop" => AgenticPace(Applied, m) = 9 + after
      BY <2>8
    <3>3. after = round /\ Idle(Applied) = idle /\ (n = "check_sufficiency" => idle = 1)
      BY <2>4, <2>6, <2>13
    <3>4. step + 1 <= AgenticPace(Applied, m)
      BY <1>1, <1>3, <2>5, <3>1, <3>2, <3>3
    <3>5. QED
      BY <2>1, <2>3, <2>13, <3>1, <3>4 DEF Within, Graders, Grading
  <2>14. CASE n \in {"collect", "rerank", "compress"}
    <3>1. \/ n = "collect" /\ m = "rerank" /\ step <= 8 + round + idle
          \/ n = "rerank" /\ m = "compress" /\ step <= 9 + round + idle
          \/ n = "compress" /\ m = "generate" /\ step <= 10 + round + idle
      BY <2>1, <2>7, <2>2, <2>14, AgenticFlow
    <3>2. /\ m = "rerank" => AgenticPace(Applied, m) = 9 + after + Idle(Applied)
          /\ m = "compress" => AgenticPace(Applied, m) = 10 + after + Idle(Applied)
          /\ m = "generate" => AgenticPace(Applied, m) = 11 + after + Idle(Applied)
      BY <2>8
    <3>3. after = round /\ Idle(Applied) = idle
      BY <2>4, <2>6, <2>14
    <3>4. step + 1 <= AgenticPace(Applied, m)
      BY <1>1, <1>3, <2>5, <3>1, <3>2, <3>3
    <3>5. QED
      BY <2>1, <2>3, <2>14, <3>1, <3>4 DEF Within, Graders, Grading
  <2>15. CASE n = "generate"
    <3>1. m \in Graders
      BY <2>2, <2>15, AgenticFlow DEF Graders
    <3>2. step <= 11 + round + idle
      BY <2>1, <2>7, <2>15
    <3>3. AgenticPace(Applied, m) = 2 + after + Idle(Applied)
      BY <2>8, <3>1
    <3>4. after = round + 10 /\ Idle(Applied) = idle
      BY <2>4, <2>6, <2>15
    <3>5. step + 1 <= AgenticPace(Applied, m)
      BY <1>1, <1>3, <2>5, <3>2, <3>3, <3>4
    <3>6. QED
      BY <1>1, <2>1, <2>3, <2>15, <3>1, <3>5 DEF Within, Grading
  <2>16. CASE n \in {"judge", "abstain"}
    <3>1. /\ n = "judge"
          /\ m \in {"abstain", "retry"}
          /\ m = "retry" => Applied["generate_iterations"] <= settings.retries
      <4>1. n # "abstain"
        BY <2>2, AgenticFlow
      <4>2. m = "abstain" \/ (m = "retry" /\ ~(Applied["generate_iterations"] > settings.retries))
        BY <2>2, <2>16, <4>1, AgenticFlow DEF AfterJudge
      <4>3. QED
        BY <1>1, <2>3, <2>16, <4>1, <4>2
    <3>2. step <= 3 + round + idle
      BY <2>1, <2>7, <3>1
    <3>3. AgenticPace(Applied, m) = 4 + after + Idle(Applied)
      BY <2>8, <3>1
    <3>4. after = round /\ Idle(Applied) = idle
      BY <2>4, <2>6, <3>1
    <3>5. step + 1 <= AgenticPace(Applied, m)
      BY <1>1, <1>3, <2>5, <3>2, <3>3, <3>4
    <3>6. QED
      BY <1>1, <2>1, <2>3, <3>1, <3>5 DEF Within, Graders, Grading
  <2>17. QED
    BY <2>9, <2>10, <2>11, <2>12, <2>13, <2>14, <2>15, <2>16 DEF Single
<1>6. QED
  BY <1>4, <1>5 DEF Base, Complete, Front

\* The supersteps that the agentic limit leaves for retrievals and retries.
LEMMA RoundsFit ==
    ASSUME NEW retries \in Nat, NEW budget \in Nat, retries >= 1 \/ budget = 0
    PROVE  16 + 10 * retries + 3 * budget <= 6 + (retries + 1) * (10 + 2 * budget)
<1>1. (retries + 1) * (10 + 2 * budget) = 10 * retries + 10 + 2 * budget + 2 * (retries * budget)
  OBVIOUS
<1>2. CASE budget = 0
  BY <1>1, <1>2
<1>3. CASE retries >= 1
  <2>1. PICK more \in Nat : retries = 1 + more
    <3>1. retries - 1 \in Nat /\ retries = 1 + (retries - 1)
      BY <1>3
    <3>2. QED
      BY <3>1
  <2>2. retries * budget = budget + more * budget
    BY <2>1
  <2>3. more * budget \in Nat
    BY <2>1
  <2> DEFINE product == retries * budget
             rest == more * budget
  <2>4. product = budget + rest /\ rest \in Nat
    BY <2>2, <2>3
  <2>5. (retries + 1) * (10 + 2 * budget) = 10 * retries + 10 + 2 * budget + 2 * product
    BY <1>1
  <2> HIDE DEF product, rest
  <2>6. product \in Nat /\ product >= budget
    BY <2>4
  <2>7. QED
    BY <2>5, <2>6
<1>4. QED
  BY <1>2, <1>3

\* The agentic pace stays two supersteps below the limit.
LEMMA AgenticFits ==
    ASSUME Accounts, ChannelsTyped, EverySpacious, settings.graph = "agentic",
           NEW c, c.retrieve_iterations \in Nat, c.generate_iterations \in Nat,
           NEW n \in Single("agentic") \cup Graders, Within(c, n)
    PROVE  AgenticPace(c, n) \in Nat /\ AgenticPace(c, n) + 2 <= RecursionLimit(settings)
<1> DEFINE budget == RetrievalBudget(settings)
           retries == settings.retries
           spent == 3 * Paid(c)
           tries == c.generate_iterations
           idle == Idle(c)
<1>1. /\ retries \in Nat /\ budget \in Nat /\ tries \in Nat
      /\ retries >= 1 \/ budget = 0
      /\ tries <= IF n \in {"judge", "abstain"} \cup Graders THEN retries + 1 ELSE retries
  BY Counters, QueryAssumption DEF EverySpacious, Spacious, Within, Grading, Accounts
<1>2. spent \in Nat /\ idle \in {0, 1} /\ spent + idle <= 3 * budget
  BY <1>1 DEF Paid, Idle
<1>3. RecursionLimit(settings) = 6 + (retries + 1) * (10 + 2 * budget)
  BY DEF RecursionLimit
<1> HIDE DEF budget, retries, spent, tries, idle
<1>4. 16 + 10 * retries + 3 * budget <= RecursionLimit(settings)
  BY <1>1, <1>3, RoundsFit
<1> DEFINE limit == RecursionLimit(settings)
<1>5. limit \in Nat /\ 16 + 10 * retries + 3 * budget <= limit
  BY <1>4, LimitNatural
<1> HIDE DEF limit
<1> DEFINE round == 10 * tries + spent
<1>6. /\ round \in Nat
      /\ n \in {"judge", "abstain"} \cup Graders => round + idle <= 10 + 10 * retries + 3 * budget
      /\ n \notin {"judge", "abstain"} \cup Graders => round + idle <= 10 * retries + 3 * budget
  BY <1>1, <1>2
<1>7. round = 10 * c.generate_iterations + 3 * Paid(c)
  BY DEF tries, spent
<1> HIDE DEF round
<1>8. /\ n \in {"judge", "abstain"} \cup Graders =>
           \E k \in {2, 3, 4} : AgenticPace(c, n) = k + round + idle
      /\ n \notin {"judge", "abstain"} \cup Graders =>
           \/ \E k \in 1 .. 9 : AgenticPace(c, n) = k
           \/ \E k \in 1 .. 9 : AgenticPace(c, n) = k + round
           \/ \E k \in 1 .. 11 : AgenticPace(c, n) = k + round + idle
  BY <1>7, AgenticPaces DEF Single, Graders, idle
<1>9. AgenticPace(c, n) \in Nat /\ AgenticPace(c, n) + 2 <= limit
  BY <1>1, <1>2, <1>5, <1>6, <1>8
<1>10. QED
  BY <1>9 DEF limit

\* A node that is due within its pace leaves the limit two supersteps or more.
LEMMA PaceFits ==
    ASSUME Accounts, ChannelsTyped, EverySpacious,
           NEW c, c.retrieve_iterations \in Nat, c.generate_iterations \in Nat,
           NEW n, n \in Single(settings.graph) \cup Graders \/ settings.graph = "adaptive",
           Within(c, n)
    PROVE  Pace(c, n) \in Nat /\ Pace(c, n) + 2 <= RecursionLimit(settings)
<1>1. /\ settings.graph \in Graphs
      /\ settings.retries \in Nat /\ settings.rewrites \in Nat /\ MaxIterations(settings) \in Nat
  BY SettingsTyped, Counters
<1>2. CASE settings.graph = "naive"
  BY <1>2 DEF Pace, NaivePace, RecursionLimit
<1>3. CASE settings.graph = "adaptive"
  BY <1>3 DEF Pace, AdaptivePace, RecursionLimit
<1>4. CASE settings.graph = "graphrag"
  BY <1>4 DEF Pace, GraphRagPace, RecursionLimit
<1>5. CASE settings.graph = "crag"
  <2>1. c.retrieve_iterations <= settings.rewrites
    BY <1>5 DEF Within
  <2>2. CragPace(c, n) \in Nat /\ CragPace(c, n) <= 6 + 3 * c.retrieve_iterations
    BY DEF CragPace
  <2>3. QED
    BY <1>1, <1>5, <2>1, <2>2 DEF Pace, RecursionLimit
<1>6. CASE settings.graph = "multihop"
  <2>1. c.retrieve_iterations + 1 <= MaxIterations(settings)
    BY <1>6 DEF Within
  <2>2. MultiHopPace(c, n) \in Nat /\ MultiHopPace(c, n) <= 9 + 2 * c.retrieve_iterations
    BY DEF MultiHopPace
  <2>3. QED
    BY <1>1, <1>6, <2>1, <2>2 DEF Pace, RecursionLimit
<1>7. CASE settings.graph = "self_rag"
  <2>1. c.generate_iterations <= IF n \in {"judge", "abstain"} \cup Graders
                                 THEN settings.retries + 1 ELSE settings.retries
    BY <1>7 DEF Within, Grading
  <2>2. SelfRagPace(c, n) \in Nat
    BY DEF SelfRagPace
  <2>3. n \in {"judge", "abstain"} \cup Graders =>
          SelfRagPace(c, n) <= 3 + 6 * c.generate_iterations
    BY DEF SelfRagPace, Graders
  <2>4. SelfRagPace(c, n) <= 6 + 6 * c.generate_iterations
    BY DEF SelfRagPace
  <2>5. SelfRagPace(c, n) + 2 <= 6 + 6 * (settings.retries + 1)
    BY <1>1, <2>1, <2>2, <2>3, <2>4
  <2>6. QED
    BY <1>7, <2>2, <2>5 DEF Pace, RecursionLimit
<1>8. CASE settings.graph = "agentic"
  BY <1>8, AgenticFits DEF Pace
<1>9. QED
  BY <1>1, <1>2, <1>3, <1>4, <1>5, <1>6, <1>7, <1>8 DEF Graphs

\* A superstep keeps to the pace of the nodes it leads to.
LEMMA FollowingPaced ==
    ASSUME Base, Bounded, Paced, Complete, ~Applied["uncounted"], NEW m \in Following
    PROVE  step + 1 <= Pace(Applied, m) /\ Within(Applied, m)
<1>1. settings.graph \in Graphs
  BY SettingsTyped DEF Base
<1>2. CASE settings.graph \in {"naive", "adaptive", "graphrag"}
  BY <1>2, PlainPaced DEF Within, Grading
<1>3. CASE settings.graph = "crag"
  BY <1>3, CragPaced DEF Pace
<1>4. CASE settings.graph = "multihop"
  BY <1>4, MultiHopPaced DEF Pace
<1>5. CASE settings.graph = "self_rag"
  BY <1>5, SelfRagPaced DEF Pace
<1>6. CASE settings.graph = "agentic"
  BY <1>6, AgenticPaced DEF Pace
<1>7. QED
  BY <1>1, <1>2, <1>3, <1>4, <1>5, <1>6 DEF Graphs

\* A query starts at its first superstep.
LEMMA InitPaced ==
    ASSUME Init
    PROVE  Paced
<1>1. /\ due = {"validate"} /\ step = 1
      /\ ch["retrieve_iterations"] = 0 /\ ch["generate_iterations"] = 0
  BY InitChannels DEF Init
<1>2. Accounts /\ ChannelsTyped /\ settings.graph \in Graphs
  BY InitBase, SettingsTyped DEF Base
<1>3. /\ settings.rewrites \in Nat /\ settings.retries \in Nat
      /\ MaxIterations(settings) \in Nat /\ MaxIterations(settings) >= 1
  BY <1>2, Counters
<1>4. Within(ch, "validate")
  BY <1>1, <1>3 DEF Within
<1>5. Pace(ch, "validate") = 1
  <2>1. /\ NaivePace("validate") = 1 /\ AdaptivePace("validate") = 1
        /\ GraphRagPace("validate") = 1 /\ CragPace(ch, "validate") = 1
    BY DEF NaivePace, AdaptivePace, GraphRagPace, CragPace, StoreNodes, ModeNodes
  <2>2. SelfRagPace(ch, "validate") = 1 /\ MultiHopPace(ch, "validate") = 1
    BY DEF SelfRagPace, MultiHopPace, Graders
  <2>3. AgenticPace(ch, "validate") = 1
    BY DEF AgenticPace, Graders
  <2>4. QED
    BY <2>1, <2>2, <2>3 DEF Pace
<1>6. QED
  BY <1>1, <1>4, <1>5 DEF Paced

\* The paces depend on the settings and the channels they are given only.
LEMMA PaceKept ==
    ASSUME settings' = settings, NEW n
    PROVE  (Pace(ch, n))' = Pace(ch', n) /\ (Within(ch, n))' = Within(ch', n)
<1>1. (Within(ch, n))' = Within(ch', n)
  BY DEF Within, MaxIterations
<1>2. (Paid(ch))' = Paid(ch') /\ (Idle(ch))' = Idle(ch')
  BY DEF Paid, Idle, RetrievalBudget
<1>3. (AgenticPace(ch, n))' = AgenticPace(ch', n)
  BY <1>2 DEF AgenticPace
<1>4. QED
  BY <1>1, <1>3 DEF Pace, CragPace, SelfRagPace, MultiHopPace

\* What follows a superstep is due two supersteps below the limit.
LEMMA FollowingFits ==
    ASSUME Base, Bounded, Paced, EverySpacious, Complete, ~Applied["uncounted"], NEW m \in Following
    PROVE  /\ Pace(Applied, m) \in Nat
           /\ step + 1 <= Pace(Applied, m)
           /\ Pace(Applied, m) + 2 <= RecursionLimit(settings)
<1>1. step + 1 <= Pace(Applied, m) /\ Within(Applied, m)
  BY FollowingPaced
<1>2. m \in Single(settings.graph) \cup Graders \/ settings.graph = "adaptive"
  BY Onward DEF Front
<1>3. QED
  BY <1>1, <1>2, PaceFits, AppliedCounters DEF Base

\* Every step keeps the pace.
LEMMA NextPaced ==
    ASSUME Base, Bounded, Paced, EverySpacious, [Next]_vars
    PROVE  Paced'
<1>1. ASSUME Advances, step' \in {step, step + 1} \/ Following = {}
      PROVE  Paced'
  <2>1. ch' = Applied /\ due' = Following /\ settings' = settings /\ Complete
    BY <1>1 DEF Advances
  <2>2. SUFFICES ASSUME ~Applied["uncounted"], NEW m \in Following
                 PROVE  step' <= Pace(ch', m) /\ Within(ch', m)
    BY <2>1, PaceKept DEF Paced
  <2>3. Within(Applied, m) /\ step + 1 <= Pace(Applied, m) /\ Pace(Applied, m) \in Nat
    BY <2>1, <2>2, FollowingPaced, FollowingFits
  <2>4. step \in Nat
    BY DEF Base
  <2>5. QED
    BY <1>1, <2>1, <2>2, <2>3, <2>4
<1>2. CASE Continue \/ Stream \/ Finish
  BY <1>1, <1>2, Advancing DEF Continue, Stream, Finish
<1>3. CASE UNCHANGED <<settings, ch, due, step>>
  <2>1. \A n \in due : (Pace(ch, n))' = Pace(ch, n) /\ (Within(ch, n))' = Within(ch, n)
    BY <1>3, PaceKept
  <2>2. QED
    BY <1>3, <2>1 DEF Paced
<1>4. CASE Returns \/ Turned \/ Raise \/ UNCHANGED vars
  BY <1>3, <1>4, ReturnMoves DEF Turned, Raise, vars
<1>5. QED
  BY <1>2, <1>4, BaseMoves

\* Only an attempt that no counter counts meets the limit.
LEMMA NextNet ==
    ASSUME Base, Bounded, Paced, EverySpacious, NetIsANet, [Next]_vars
    PROVE  NetIsANet'
<1>1. CASE Raise
  <2>1. Complete /\ Following # {} /\ step + Sentinels >= RecursionLimit(settings)
        /\ UNCHANGED <<ch, partials>>
    BY <1>1, NoRace DEF Raise, Overrun, AtLimit
  <2>2. Applied["uncounted"]
    <3>1. SUFFICES ASSUME ~Applied["uncounted"]
                   PROVE  FALSE
      OBVIOUS
    <3>2. PICK m \in Following : TRUE
      BY <2>1
    <3>3. /\ Pace(Applied, m) \in Nat /\ step + 1 <= Pace(Applied, m)
          /\ Pace(Applied, m) + 2 <= RecursionLimit(settings)
      BY <2>1, <3>1, FollowingFits
    <3>4. step \in Nat /\ Sentinels \in Nat /\ Sentinels <= 2 /\ RecursionLimit(settings) \in Nat
      BY QueryAssumption, LimitNatural DEF Base, EverySpacious, Spacious
    <3>5. QED
      BY <2>1, <3>3, <3>4
  <2>3. ch["uncounted"] \/ \E n \in Writers("uncounted") : partials[n]["uncounted"]
    BY <2>2, Applying DEF Base, Channels, Flags
  <2>4. QED
    BY <2>1, <2>3 DEF NetIsANet, Writers
<1>2. CASE UNCHANGED vars
  BY <1>2 DEF NetIsANet, vars
<1>3. CASE Returns \/ Turned \/ Continue \/ Stream \/ Finish
  <2>1. outcome' # "net"
    BY <1>3, ReturnMoves DEF Turned, Continue, Stream, Finish, Complete
  <2>2. QED
    BY <2>1 DEF NetIsANet
<1>4. QED
  BY <1>1, <1>2, <1>3, BaseMoves

\* NetIsANet for any settings within EverySpacious: the recursion limits that the
\* builders compute are above what their counters allow, so that only an answer
\* attempt that no counter counts meets one.
THEOREM Net ==
    ASSUME EverySpacious
    PROVE  Spec => []NetIsANet
<1>1. Init => Base /\ Bounded /\ Paced /\ NetIsANet
  BY InitBase, InitPaced DEF Init, Bounded, NetIsANet
<1>2. Base /\ Bounded /\ Paced /\ NetIsANet /\ [Next]_vars
        => (Base /\ Bounded /\ Paced /\ NetIsANet)'
  BY NextBase, NextBounded, NextPaced, NextNet
<1>3. QED
  BY <1>1, <1>2, PTL DEF Spec
=============================================================================
