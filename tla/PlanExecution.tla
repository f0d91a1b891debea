---------------------------- MODULE PlanExecution ----------------------------
(***************************************************************************)
(* The planner's graph and its execution by the runtime (planner/src, and  *)
(* plan.ts, plan-utils.ts and runtime.ts of runtime/src).                  *)
(*                                                                         *)
(* A request's text is the set of the keyword groups it contains.  A       *)
(* provider request is a provider id and whether the entry is well formed; *)
(* a registry is the providers it has, those that answer, and those of the *)
(* others that throw instead of reporting a failure.                       *)
(***************************************************************************)
EXTENDS Integers, Sequences, FiniteSets, SequencesExt, KernelGuards

-----------------------------------------------------------------------------
(* The planner. *)

\* The rules in order: the first whose keywords occur decides.
IntentRules == <<"status", "riskReview", "nextTask", "handoff">>

ClassifyIntent(request) ==
  LET matching == {r \in DOMAIN IntentRules : IntentRules[r] \in request.groups}
  IN IF request.empty THEN "none"
     ELSE IF matching = {} THEN "planning"
     ELSE IntentRules[CHOOSE r \in matching : \A q \in matching : r <= q]

\* Only a plan request with an object that holds a text becomes planner input.
PlannerInputMissing(request) == request.kind # "plan" \/ ~request.wellFormed

ExtractionFails(context) ==
  \/ ~context.isObject \/ ~context.isArray
  \/ \E i \in DOMAIN context.requests : ~context.requests[i].valid

\* Without a registry the planner plans all the same.
UnavailableProviderIds(requests, registry) ==
  IF registry.absent THEN {} ELSE {requests[i].provider : i \in DOMAIN requests} \ registry.has

\* The reads in the order asked, and one node that depends on all of them.
BuildTaskGraph(intent, requests) ==
  [i \in 1..(Len(requests) + 1) |->
     IF i <= Len(requests)
     THEN [id |-> i, kind |-> "providerRead", dependsOn |-> <<>>, request |-> requests[i]]
     ELSE [id |-> i, kind |-> "skillExecution", dependsOn |-> [j \in DOMAIN requests |-> j], intent |-> intent]]

PlanProject(request, context, registry) ==
  LET intent == ClassifyIntent(request)
      missing == UnavailableProviderIds(context.requests, registry)
  IN IF intent = "none" THEN [missing |-> "request"]
     ELSE IF ExtractionFails(context) THEN [missing |-> "providerRequests"]
     ELSE IF missing # {} THEN [missing |-> "providers"]
     ELSE [graph |-> BuildTaskGraph(intent, context.requests)]

-----------------------------------------------------------------------------
(* The runtime. *)

SkillIdForIntent ==
  [status |-> "summarizeStatus", riskReview |-> "extractRisks", nextTask |-> "deriveNextTasks",
   planning |-> "deriveNextTasks", handoff |-> "createHandoff"]

Reads(graph) == LET reads(n) == n.kind = "providerRead" IN SelectSeq(graph, reads)

\* The reads that are begun: one after the other, up to the first that fails.
BegunReads(graph, registry) ==
  LET reads == Reads(graph)
      begun(i) == \A j \in 1..(i - 1) : reads[j].request.provider \in registry.answers
  IN {i \in DOMAIN reads : ~registry.absent /\ begun(i)}

Response(code, reads, skill) == [code |-> code, reads |-> reads, skill |-> skill]

ExecuteGraph(graph, registry, skillWorks) ==
  LET begun == BegunReads(graph, registry)
      read == [i \in 1..Cardinality(begun) |-> Reads(graph)[i].request.provider]
      final == Last(graph)
      skill == SkillIdForIntent[final.intent]
  IN IF TaskGraphFindings(graph) # {} THEN Response("graphValidationFailed", <<>>, "none")
     ELSE IF \/ Cardinality(begun) < Len(Reads(graph))
             \/ \E i \in DOMAIN read : read[i] \notin registry.answers
     THEN Response(IF read # <<>> /\ Last(read) \in registry.throws THEN "handlerFailed" ELSE "providerFailed", read, "none")
     ELSE Response(IF skillWorks THEN "ok" ELSE "skillFailed", read, skill)

HandlePlanRequest(request, context, registry, skillWorks) ==
  LET plan == PlanProject(request, context, registry)
  IN IF PlannerInputMissing(request) \/ "missing" \in DOMAIN plan
     THEN Response("missingContext", <<>>, "none")
     ELSE ExecuteGraph(plan.graph, registry, skillWorks)

\* A request is validated first; status and doctor need nothing else. What is thrown
\* is an answer too ("handlerFailed"): of all that may throw, the providers do here.
Handle(request, context, registry, skillWorks) ==
  IF ~request.contract THEN Response("validationFailed", <<>>, "none")
  ELSE IF request.kind \in {"status", "doctor"} THEN Response("ok", <<>>, "none")
  ELSE IF request.kind = "plan" THEN HandlePlanRequest(request, context, registry, skillWorks)
  ELSE Response("unsupportedRequestKind", <<>>, "none")
=============================================================================
