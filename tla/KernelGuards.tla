---------------------------- MODULE KernelGuards ----------------------------
(***************************************************************************)
(* The kernel's decisions about plans, graphs, registries and releases     *)
(* (state.rs, registry.rs, update_guard.rs, validation.rs of the crate),   *)
(* and the boundary every caller reaches them through (wasm.rs and the     *)
(* JavaScript binding).                                                    *)
(***************************************************************************)
EXTENDS Integers, Sequences, FiniteSets, SequencesExt

-----------------------------------------------------------------------------
(* Releases. *)

AllowedNextStates ==
  [idea |-> {"source"}, source |-> {"validation"}, validation |-> {"ready", "source"},
   ready |-> {"released"}, released |-> {"published"}, published |-> {"frozen"}, frozen |-> {}]

DecideTransition(from, to) == to \in AllowedNextStates[from]

-----------------------------------------------------------------------------
(* The version registry: a sequence of components with versions. *)

RequiredComponents == {"contracts", "kernel", "runtime", "planner", "providers", "skills", "cli",
                       "installer", "validation"}

\* The findings, as a set of codes with the components they are about.
ValidateVersionRegistry(manifest) ==
  LET parts == manifest.components
      repeated == {i \in DOMAIN parts : \E j \in 1..(i - 1) : parts[j].id = parts[i].id}
      ids == {parts[i].id : i \in DOMAIN parts}
  IN {<<"invalidPayload", f>> : f \in {f \in {"schemaVersion", "systemVersion"} : manifest[f] = ""}}
     \union {<<"invalidPayload", parts[i].id>> : i \in {i \in DOMAIN parts : parts[i].version = ""}}
     \union {<<"duplicateComponent", parts[i].id>> : i \in repeated}
     \union {<<"missingComponent", c>> : c \in RequiredComponents \ ids}

-----------------------------------------------------------------------------
(* Update plans. *)

UpdateReasons(plan) ==
  {reason \in {"missing_plan_id", "missing_from_version", "missing_to_version", "same_version",
               "missing_steps", "missing_rollback_id", "missing_rollback_paths"} :
     CASE reason = "missing_plan_id" -> plan.id = ""
       [] reason = "missing_from_version" -> plan.from = ""
       [] reason = "missing_to_version" -> plan.to = ""
       [] reason = "same_version" -> plan.from # "" /\ plan.from = plan.to
       [] reason = "missing_steps" -> plan.steps = 0
       [] reason = "missing_rollback_id" -> plan.rollback = ""
       [] reason = "missing_rollback_paths" -> plan.paths = 0}

\* The hash a decision is bound to counts the steps and does not read them.
PlanHash(plan) == <<plan.id, plan.from, plan.to, plan.steps>>

CheckUpdatePlan(plan) ==
  [status |-> IF UpdateReasons(plan) = {} THEN "allowed" ELSE "blocked", hash |-> PlanHash(plan)]

-----------------------------------------------------------------------------
(* Task graphs: a sequence of nodes; the id 0 is the empty one. *)

TaskIds(graph) == {graph[i].id : i \in DOMAIN graph} \ {0}

\* What a node depends on, the nodes of one id taken together, in order.
Edges(graph, id) ==
  LET known(d) == d \in TaskIds(graph)
      of(n) == IF graph[n].id = id THEN SelectSeq(graph[n].dependsOn, known) ELSE <<>>
  IN FlattenSeq([n \in DOMAIN graph |-> of(n)])

\* Mutant: a dependency already on the stack taken for a finished one.
SearchStepForward(graph, s) ==
  LET top == Last(s.stack)
      deps == Edges(graph, top.node)
      dep == deps[top.next]
      advanced == [s EXCEPT !.stack[Len(s.stack)].next = @ + 1]
  IN IF s.stack = <<>> THEN s
     ELSE IF top.next > Len(deps)
     THEN [s EXCEPT !.stack = Front(@), !.done = @ \union {top.node}]
     ELSE IF dep \in s.seen /\ dep # top.node THEN advanced
     ELSE IF dep \in s.seen THEN [advanced EXCEPT !.cycles = @ \union {dep}]
     ELSE [advanced EXCEPT !.stack = Append(@, [node |-> dep, next |-> 1]), !.seen = @ \union {dep}]

\* One turn of the search: a frame is a node and the next dependency to look at.
SearchStep(graph, s) ==
  LET top == Last(s.stack)
      deps == Edges(graph, top.node)
      dep == deps[top.next]
      advanced == [s EXCEPT !.stack[Len(s.stack)].next = @ + 1]
  IN IF s.stack = <<>> THEN s
     ELSE IF top.next > Len(deps)
     THEN [s EXCEPT !.stack = Front(@), !.done = @ \union {top.node}]
     ELSE IF dep \in s.done THEN advanced
     ELSE IF dep \in s.seen THEN [advanced EXCEPT !.cycles = @ \union {dep}]
     ELSE [advanced EXCEPT !.stack = Append(@, [node |-> dep, next |-> 1]), !.seen = @ \union {dep}]

\* From each node not yet seen, in the order of the ids, until its stack is empty.
FindCycles(graph) ==
  LET ids == SetToSortSeq(TaskIds(graph), <)
      turns == 1 + 2 * Len(ids) + Len(FlattenSeq([n \in DOMAIN graph |-> graph[n].dependsOn]))
      search(s, id) ==
        IF id \in s.seen THEN s
        ELSE FoldLeft(LAMBDA t, turn : SearchStep(graph, t),
                      [s EXCEPT !.stack = <<[node |-> id, next |-> 1]>>, !.seen = @ \union {id}],
                      [turn \in 1..turns |-> turn])
  IN FoldLeft(search, [stack |-> <<>>, seen |-> {}, done |-> {}, cycles |-> {}], ids).cycles

TaskGraphFindings(graph) ==
  LET ids == [i \in DOMAIN graph |-> graph[i].id]
      fault(i) == \/ ids[i] = 0
                  \/ \E j \in 1..(i - 1) : ids[j] = ids[i]
                  \/ ~(Range(graph[i].dependsOn) \subseteq TaskIds(graph))
  IN {<<"node", i>> : i \in {i \in DOMAIN graph : fault(i)}}
     \union {<<"cycle", id>> : id \in FindCycles(graph)}

-----------------------------------------------------------------------------
(* Validation of a payload against a target.  A payload of a target that is
   only checked for its shape has no body that matters. *)

ShapeOnly == {"systemRequest", "providerResponse", "skillInput", "skillOutput", "installManifest"}

ValidateJson(target, payload) ==
  CASE ~payload.wellFormed -> {<<"invalidPayload", "">>}
    [] payload.wellFormed /\ target \in ShapeOnly -> {}
    [] payload.wellFormed /\ target = "versionRegistry" -> ValidateVersionRegistry(payload.body)
    [] payload.wellFormed /\ target = "updatePlan" -> {<<"invalidUpdatePlan", r>> : r \in UpdateReasons(payload.body)}
    [] payload.wellFormed /\ target = "taskGraph" -> TaskGraphFindings(payload.body)

-----------------------------------------------------------------------------
(* The boundary.  What cannot be read is answered, not thrown: a failed
   report, a blocked plan, a refused transition, an error envelope. *)

Passed(findings) == findings = {}

ValidateJsonWasm(target, known, json, payload) ==
  IF ~known \/ ~json THEN {<<"invalidPayload", "">>} ELSE ValidateJson(target, payload)

CheckUpdatePlanWasm(json, plan) ==
  IF json THEN CheckUpdatePlan(plan) ELSE [status |-> "blocked", hash |-> <<"invalid:updatePlan">>]

DecideTransitionWasm(json, from, to) == json /\ DecideTransition(from, to)

\* The envelope of the eight Project Brain operations.
PbEnvelope(json, result) ==
  IF ~json THEN [ok |-> FALSE, code |-> "invalidField"]
  ELSE IF "error" \in DOMAIN result THEN [ok |-> FALSE, code |-> result.error]
  ELSE [ok |-> TRUE, value |-> result]

\* A binding that was not built throws; one that was not configured refuses.
CallBinding(binding, json, result) ==
  CASE binding = "notBuilt" -> [thrown |-> TRUE]
    [] binding = "unavailable" -> [ok |-> FALSE, code |-> "unavailable"]
    [] binding = "built" -> PbEnvelope(json, result)
=============================================================================
