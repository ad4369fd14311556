------------------------------- MODULE Plans -------------------------------
(***************************************************************************)
(* Strategic plans (app/modules/strategy/service.py): a plan, the levels   *)
(* it uses, its results tree and its delivery tree, one of its indicators  *)
(* and that indicator's target.  Strategy managers keep them.  Titles,     *)
(* dates, owners, budgets and weights are left out.                        *)
(*                                                                         *)
(* A request loads a row; what it changed is committed later.              *)
(***************************************************************************)
EXTENDS Actions, Sequences

CONSTANTS
  Manager,         \* accounts with the strategy_manager duty
  NodeType,        \* the item types in use
  Unit,            \* the organisation's root unit and units below it
  Code,            \* codes an item may be given
  MaxNode,         \* bound on the items created
  MaxVersion       \* bound on the versions of the indicator

ASSUME PlansAssumption == Manager \subseteq User /\ MaxNode \in Nat \ {0} /\ MaxVersion \in Nat

VARIABLES
  plan,            \* [status, approved_by]
  levels,          \* the item types that are switched on
  nodes,           \* rows of plan_nodes, by number
  indicator        \* [status, node, definition, version, target]

RESULT_TYPES == <<"pillar", "objective", "outcome", "output">>
DELIVERY_TYPES == <<"programme", "initiative", "activity", "milestone">>
Types(tree) == {tree[i] : i \in DOMAIN tree}

(* The item types are those of the two trees.                              *)
ASSUME NodeTypeAssumption == NodeType \subseteq Types(RESULT_TYPES) \cup Types(DELIVERY_TYPES)

TreeOf(type) == IF type \in Types(RESULT_TYPES) THEN RESULT_TYPES ELSE DELIVERY_TYPES
Depth(type) == CHOOSE i \in 1..4 : TreeOf(type)[i] = type

PLAN_FLOW ==
  [activate   |-> Transition({"draft"}, "active"),
   archive    |-> ReasonedTransition({"active", "draft"}, "archived"),
   reactivate |-> ReasonedTransition({"archived"}, "active")]

NoPlan == [status |-> "absent", approved_by |-> Nobody]
NoNode == [type |-> "none", parent |-> 0, code |-> 0, unit |-> "none", retired |-> FALSE]
NoIndicator == [status |-> "absent", node |-> 0, definition |-> 0, version |-> 0, target |-> 0]

Made == {n \in DOMAIN nodes : nodes[n].type # "none"}

PlansInit ==
  /\ plan = NoPlan
  /\ levels = {}
  /\ nodes = [n \in 1..MaxNode |-> NoNode]
  /\ indicator = NoIndicator
-----------------------------------------------------------------------------
(* create_plan: a draft, with every level switched on.                     *)
CreatePlan(u) ==
  /\ Free
  /\ u \in Manager
  /\ plan.status = "absent"
  /\ plan' = [status |-> "draft", approved_by |-> Nobody]
  /\ levels' = NodeType
  /\ UNCHANGED <<nodes, indicator, req>>

(* import_tenant_plan: the plan of the tenant's configuration, once: a     *)
(* pillar, its first measure and that measure's target.                    *)
ImportTenantPlan(u, code) ==
  /\ Free
  /\ u \in Manager
  /\ plan.status = "absent"
  /\ "pillar" \in NodeType
  /\ plan' = [status |-> "draft", approved_by |-> Nobody]
  /\ levels' = NodeType
  /\ nodes' = [nodes EXCEPT ![1] = [type |-> "pillar", parent |-> 0, code |-> code, unit |-> "org", retired |-> FALSE]]
  /\ indicator' = [status |-> "active", node |-> 1, definition |-> 1, version |-> 1, target |-> 1]
  /\ UNCHANGED req

(* transition_plan: an active indicator is asked for on activation.        *)
TransitionPlan(w, u, name) ==
  /\ u \in Manager
  /\ Permits(PLAN_FLOW, name, plan.status, TRUE)
  /\ name = "activate" => indicator.status = "active"
  /\ Begin(w, [step |-> "plan", loaded |-> plan,
               new |-> [status |-> TargetOf(PLAN_FLOW, name),
                        approved_by |-> IF name = "activate" THEN u ELSE plan.approved_by]])
  /\ UNCHANGED <<plan, levels, nodes, indicator>>

CommitPlan(w) ==
  LET q == req[w]
  IN /\ q.step = "plan"
     /\ plan' = Flush(q.loaded, q.new, plan)
     /\ Finish(w)
     /\ UNCHANGED <<levels, nodes, indicator>>

(* set_levels: a level in use is not switched off.                         *)
LevelInUse(type) == \E n \in Made : nodes[n].type = type /\ ~nodes[n].retired

SetLevel(w, u, type) ==
  /\ u \in Manager
  /\ plan.status # "absent"
  /\ type \in levels => ~LevelInUse(type)
  /\ Begin(w, [step |-> "level", type |-> type, on |-> type \notin levels])
  /\ UNCHANGED <<plan, levels, nodes, indicator>>

CommitLevel(w) ==
  LET q == req[w]
  IN /\ q.step = "level"
     /\ levels' = IF q.on THEN levels \cup {q.type} ELSE levels \ {q.type}
     /\ Finish(w)
     /\ UNCHANGED <<plan, nodes, indicator>>
-----------------------------------------------------------------------------
Parents(S) == {nodes[n].parent : n \in S} \ {0}

(* The item and everything above it.                                       *)
Above(n) ==
  LET up[k \in 0..MaxNode] == IF k = 0 THEN {n} ELSE up[k - 1] \cup Parents(up[k - 1])
  IN up[MaxNode]

(* _check_parent: of the same tree, of a higher type, and no loop.         *)
GoodParent_SameType(type, parent, self) ==
  parent # 0 => /\ nodes[parent].type \in Types(TreeOf(type))
                /\ Depth(nodes[parent].type) <= Depth(type)
                /\ self \notin Above(parent)
GoodParent(type, parent, self) ==
  parent # 0 => /\ nodes[parent].type \in Types(TreeOf(type))
                /\ Depth(nodes[parent].type) < Depth(type)
                /\ self \notin Above(parent)

PlanOpenToChange == plan.status \notin {"absent", "archived"}

CreateNode(w, u, row) ==
  /\ u \in Manager
  /\ PlanOpenToChange
  /\ row.type \in levels
  /\ \A n \in Made : nodes[n].code # row.code
  /\ GoodParent(row.type, row.parent, 0)
  /\ Begin(w, [step |-> "new_node", row |-> row])
  /\ UNCHANGED <<plan, levels, nodes, indicator>>

(* The code is unique within the plan: of two that raced, one fails.       *)
CommitNewNode(w) ==
  LET q == req[w]
      taken == \E n \in Made : nodes[n].code = q.row.code
  IN /\ q.step = "new_node"
     /\ taken \/ Cardinality(Made) < MaxNode
     /\ nodes' = IF taken THEN nodes ELSE [nodes EXCEPT ![Cardinality(Made) + 1] = q.row]
     /\ Finish(w)
     /\ UNCHANGED <<plan, levels, indicator>>

(* update_node: moved elsewhere, given to another unit, retired or not.    *)
UpdateNode(w, u, n, new) ==
  /\ u \in Manager
  /\ PlanOpenToChange
  /\ new.parent # nodes[n].parent => GoodParent(nodes[n].type, new.parent, n)
  /\ Begin(w, [step |-> "node", id |-> n, loaded |-> nodes[n], new |-> new])
  /\ UNCHANGED <<plan, levels, nodes, indicator>>

CommitNode(w) ==
  LET q == req[w]
  IN /\ q.step = "node"
     /\ nodes' = [nodes EXCEPT ![q.id] = Flush(q.loaded, q.new, @)]
     /\ Finish(w)
     /\ UNCHANGED <<plan, levels, indicator>>
-----------------------------------------------------------------------------
(* _validate_indicator: it measures a results item, or none yet.           *)
Measurable(n) == n = 0 \/ (n \in Made /\ nodes[n].type \in Types(RESULT_TYPES))

CreateIndicator(u, n) ==
  /\ Free
  /\ u \in Manager
  /\ PlanOpenToChange
  /\ indicator.status = "absent"
  /\ Measurable(n)
  /\ indicator' = [status |-> "active", node |-> n, definition |-> 1, version |-> 1, target |-> 0]
  /\ UNCHANGED <<plan, levels, nodes, req>>

LoadIndicator(w, u, new) ==
  /\ u \in Manager
  /\ indicator.status # "absent"
  /\ Begin(w, [step |-> "indicator", loaded |-> indicator, new |-> new])
  /\ UNCHANGED <<plan, levels, nodes, indicator>>

(* update_indicator: another definition, for a reason, is a new version;   *)
(* its place in the tree and its status are not part of the definition.    *)
Redefine(w, u, definition) ==
  /\ definition # indicator.definition
  /\ indicator.version < MaxVersion
  /\ LoadIndicator(w, u, [indicator EXCEPT !.definition = definition, !.version = @ + 1])

MoveOrRetireIndicator(w, u, n, status) ==
  Measurable(n) /\ LoadIndicator(w, u, [indicator EXCEPT !.node = n, !.status = status])

(* set_targets: an agreed target changes for a reason, or is deleted.      *)
SetTarget(w, u, value) == LoadIndicator(w, u, [indicator EXCEPT !.target = value])

CommitIndicator(w) ==
  LET q == req[w]
  IN /\ q.step = "indicator"
     /\ indicator' = Flush(q.loaded, q.new, indicator)
     /\ Finish(w)
     /\ UNCHANGED <<plan, levels, nodes>>
-----------------------------------------------------------------------------
(* plan_detail: what a reader of some units is shown.  The items above a   *)
(* visible one are shown as context, by their titles.                      *)
Visible(units) ==
  {n \in Made : nodes[n].unit \in units}
    \cup (IF indicator.status # "absent" /\ "org" \in units THEN {indicator.node} \ {0} ELSE {})
Context(units) == (UNION {Above(n) : n \in Visible(units)}) \ Visible(units)

PlansNext ==
  \/ \E u \in User :
       \/ CreatePlan(u)
       \/ \E code \in Code : ImportTenantPlan(u, code)
       \/ \E n \in Made \cup {0} : CreateIndicator(u, n)
  \/ \E w \in Waiting, u \in User :
       \/ \E name \in DOMAIN PLAN_FLOW : TransitionPlan(w, u, name)
       \/ \E type \in NodeType : SetLevel(w, u, type)
       \/ \E type \in NodeType, parent \in Made \cup {0}, code \in Code, unit \in Unit :
            CreateNode(w, u, [type |-> type, parent |-> parent, code |-> code, unit |-> unit, retired |-> FALSE])
       \/ \E n \in Made :
            \/ \E parent \in Made \cup {0} : UpdateNode(w, u, n, [nodes[n] EXCEPT !.parent = parent])
            \/ UpdateNode(w, u, n, [nodes[n] EXCEPT !.retired = ~@])
       \/ \E definition \in 1..2 : Redefine(w, u, definition)
       \/ \E n \in Made \cup {0}, status \in {"active", "retired"} : MoveOrRetireIndicator(w, u, n, status)
       \/ \E value \in 0..2 : SetTarget(w, u, value)
  \/ \E w \in Worker : CommitPlan(w) \/ CommitLevel(w) \/ CommitNewNode(w) \/ CommitNode(w) \/ CommitIndicator(w)

(* However re-parentings race, each looking at the tree before the other,  *)
(* every item hangs from the top of its own tree by a chain of ever higher *)
(* types without a loop, so the walks of _check_parent and plan_detail end *)
(* (service.py:243, 1072); codes stay unique; and a reader of any units    *)
(* sees everything above what is visible.                                  *)
NodesFormTrees ==
  /\ \A n \in Made :
       /\ n \notin UNION {Above(p) : p \in Parents({n})}
       /\ \A p \in Parents({n}) : p \in Made /\ TreeOf(nodes[p].type) = TreeOf(nodes[n].type)
       /\ \A m \in Made : m # n => nodes[m].code # nodes[n].code
  /\ \A units \in SUBSET Unit :
       Parents(Visible(units) \cup Context(units)) \subseteq Visible(units) \cup Context(units)

-----------------------------------------------------------------------------
(* Evaluations of a plan (app/modules/strategy/service.py): the lead       *)
(* records findings, management responds to each, and an accepted          *)
(* recommendation raises an action in the shared tracker.                  *)

CONSTANTS
  Lead,            \* accounts that lead the evaluation
  MaxResponse      \* bound on the findings recorded

ASSUME EvaluationsAssumption == Lead \subseteq User /\ MaxResponse \in Nat

VARIABLES
  evaluation,      \* [status, summary: the findings are summarised]
  responses        \* management responses, one per finding: [response, action]

EVALUATION_FLOW ==
  [start    |-> Transition({"planned"}, "in_progress"),
   complete |-> Transition({"in_progress"}, "completed"),
   reopen   |-> ReasonedTransition({"completed"}, "in_progress")]

Evaluator == Lead \cup Manager
Responder == Approver \cup Manager
Unanswered == {r \in DOMAIN responses : responses[r].response = "none"}

EvaluationsInit ==
  /\ evaluation = [status |-> "absent", summary |-> FALSE]
  /\ responses = <<>>

CreateEvaluation(u) ==
  /\ Free
  /\ u \in Manager
  /\ evaluation.status = "absent"
  /\ evaluation' = [status |-> "planned", summary |-> FALSE]
  /\ UNCHANGED <<responses, actions, req>>

LoadEvaluation(w, new) ==
  /\ Begin(w, [step |-> "evaluation", loaded |-> evaluation, new |-> new])
  /\ UNCHANGED <<evaluation, responses, actions>>

(* update_evaluation: the summary is written or cleared.                   *)
UpdateEvaluation(w, u) ==
  /\ u \in Evaluator
  /\ evaluation.status \notin {"absent", "completed"}
  /\ LoadEvaluation(w, [evaluation EXCEPT !.summary = ~@])

(* transition_evaluation: completed with its findings, each answered.      *)
Completable_Summarised(e) == e.summary
Completable(e) == e.summary /\ Unanswered = {}

TransitionEvaluation(w, u, name) ==
  /\ u \in Evaluator
  /\ Permits(EVALUATION_FLOW, name, evaluation.status, TRUE)
  /\ name = "complete" => Completable(evaluation)
  /\ LoadEvaluation(w, [evaluation EXCEPT !.status = TargetOf(EVALUATION_FLOW, name)])

CommitEvaluation(w) ==
  LET q == req[w]
  IN /\ q.step = "evaluation"
     /\ evaluation' = Flush(q.loaded, q.new, evaluation)
     /\ Finish(w)
     /\ UNCHANGED <<responses, actions>>

(* add_finding: while the evaluation runs.                                 *)
AddFinding(w, u) ==
  /\ u \in Evaluator
  /\ evaluation.status \notin {"absent", "completed"}
  /\ Begin(w, [step |-> "evaluation_finding"])
  /\ UNCHANGED <<evaluation, responses, actions>>

CommitEvaluationFinding(w) ==
  /\ req[w].step = "evaluation_finding"
  /\ Len(responses) < MaxResponse
  /\ responses' = Append(responses, [response |-> "none", action |-> 0])
  /\ Finish(w)
  /\ UNCHANGED <<evaluation, actions>>

(* respond: once; what is not rejected raises the follow-up action.        *)
Respond(w, u, r, response) ==
  /\ u \in Responder
  /\ r \in Unanswered
  /\ Begin(w, [step |-> "respond", id |-> r, by |-> u, response |-> response])
  /\ UNCHANGED <<evaluation, responses, actions>>

CommitRespond(w) ==
  LET q == req[w]
      raises == q.response # "rejected"
      raised == Cardinality(Raised) + 1
      loaded == [response |-> "none", action |-> 0]
      new == [response |-> q.response, action |-> IF raises THEN raised ELSE 0]
  IN /\ q.step = "respond"
     /\ raises => RoomForAction
     /\ responses' = [responses EXCEPT ![q.id] = Flush(loaded, new, @)]
     /\ actions' = IF raises THEN NewAction(q.by, q.by, "management_response") ELSE actions
     /\ Finish(w)
     /\ UNCHANGED evaluation

EvaluationsNext ==
  \/ \E u \in User : CreateEvaluation(u)
  \/ \E w \in Waiting, u \in User :
       \/ UpdateEvaluation(w, u) \/ AddFinding(w, u)
       \/ \E name \in DOMAIN EVALUATION_FLOW : TransitionEvaluation(w, u, name)
       \/ \E r \in DOMAIN responses, response \in {"accepted", "rejected"} : Respond(w, u, r, response)
  \/ \E w \in Worker : CommitEvaluation(w) \/ CommitEvaluationFinding(w) \/ CommitRespond(w)

(* Every accepted recommendation has its own action in the tracker,        *)
(* whoever raced whom (service.py:996).  While requests are serial a       *)
(* completed evaluation has every finding answered (a finding added, or a  *)
(* response withdrawn, beside the completion would break it), and no       *)
(* action is raised twice for one finding.                                 *)
EvaluationsAreAnswered ==
  /\ \A r \in DOMAIN responses :
       responses[r].response = "accepted" =>
         /\ responses[r].action \in Raised
         /\ actions[responses[r].action].source = "management_response"
         /\ \A s \in DOMAIN responses : s # r => responses[s].action # responses[r].action
  /\ Serial /\ evaluation.status = "completed" =>
       /\ evaluation.summary
       /\ Unanswered = {}
       /\ Cardinality({a \in Raised : actions[a].source = "management_response"})
            = Cardinality({r \in DOMAIN responses : responses[r].response = "accepted"})
=============================================================================
