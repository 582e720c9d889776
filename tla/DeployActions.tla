--------------------------- MODULE DeployActions ---------------------------
(***************************************************************************)
(* deployActions of packages/core/src/core/deploy/deploy_actions.ts: walk  *)
(* the plan, deploy each of its items (change groups) with the adapter of  *)
(* its account, and after each record in the workspace state what the      *)
(* adapter applied (postDeployAction in packages/core/src/api.ts, which    *)
(* calls updateStateFromChanges of                                         *)
(* packages/workspace/src/workspace/state/in_mem.ts).                      *)
(*                                                                         *)
(* The walk is DagWalk: the handler of a node is the function below that   *)
(* deploys an item, cut where it awaits.  Items that do not depend on each *)
(* other are deployed concurrently, and so are their updates of the state. *)
(* An adapter is external: it may apply any of the changes of a group,     *)
(* report errors and warnings, throw, or never answer.                     *)
(***************************************************************************)
EXTENDS Naturals, FiniteSets

CONSTANTS
    Nodes,      \* the items of the plan
    Graphs,     \* the plans: their dependencies between items
    Changes,    \* changes to parts of elements
    Item,       \* Changes -> Nodes: the item (group) of a change
    Element,    \* Changes -> the top level element it changes, or a part of it
    Whole,      \* the changes that add, replace or remove a top level element
    NoAdapter   \* items whose account has no adapter (or cannot validate)

Elements == {Element[c] : c \in Changes}

ASSUME DeployAssumption ==
    /\ Item \in [Changes -> Nodes]
    /\ DOMAIN Element = Changes
    /\ Whole \subseteq Changes
    /\ NoAdapter \subseteq Nodes

VARIABLES
    \* the walk over the plan
    keys, dependsOn, reverseNeighbors, errors, causingNode,
    graph, handler, calls, walk, aborted, circularNodes,
    \* the handler of each item
    phase,            \* where it awaits
    result,           \* the AdapterDeployResult
    unrecorded,       \* the elements whose changes are not in the state yet
    readElement,      \* what it read of the element it is about to update
    planAtStart,      \* planElements when it called the adapter
    \* shared by the handlers
    planElements,     \* changes whose deployed values the plan's elements show
    state,            \* element -> the changes that the workspace state shows
    appliedChanges,
    progress,         \* item -> the last status reported to the caller
    deployErrors      \* item -> kinds of errors in the result

Walk == INSTANCE DagWalk WITH ThrownKinds <- {"error"}

ASSUME PlansAssumption ==
    /\ Graphs \subseteq [Nodes -> SUBSET Nodes]
    /\ Walk!NoNode \notin Nodes

walkVars == <<keys, dependsOn, reverseNeighbors, errors, causingNode,
              graph, handler, calls, walk, aborted, circularNodes>>
handlerVars == <<phase, result, unrecorded, readElement, planAtStart>>
sharedVars == <<planElements, state, appliedChanges, progress, deployErrors>>
vars == <<walkVars, handlerVars, sharedVars>>

Phases == {"none", "deploying", "recording", "writing", "recorded"}
Statuses == {"none", "started", "finished", "error", "cancelled"}
Results == [applied : SUBSET Changes, fatal : BOOLEAN, warnings : BOOLEAN]
NoResult == [applied |-> {}, fatal |-> FALSE, warnings |-> FALSE]
DeployErrorKinds == {"deploy", "dependency", "circular", "warning"}

\* Mistaken variant of ElementsOf: by change, not by element.
ElementsByChange(changes) == changes

ChangesOf(n) == {c \in Changes : Item[c] = n}
ElementsOf(changes) == {Element[c] : c \in changes}

Init ==
    /\ Walk!Init
    /\ phase = [n \in Nodes |-> "none"]
    /\ result = [n \in Nodes |-> NoResult]
    /\ unrecorded = [n \in Nodes |-> {}]
    /\ readElement = [n \in Nodes |-> {}]
    /\ planAtStart = [n \in Nodes |-> {}]
    /\ planElements = {}
    /\ state = [e \in Elements |-> {}]
    /\ appliedChanges = {}
    /\ progress = [n \in Nodes |-> "none"]
    /\ deployErrors = [n \in Nodes |-> {}]

\* The handlers of "started" run up to their first await: they report that they
\* start and call their adapter.  The handler of "ended" is over.
StartDeploying(started, ended, status) ==
    /\ phase' = [n \in Nodes |-> IF n \in started THEN "deploying"
                                 ELSE IF n = ended THEN "none" ELSE phase[n]]
    /\ progress' = [n \in Nodes |-> IF n \in started THEN "started"
                                    ELSE IF n = ended THEN status ELSE progress[n]]
    /\ planAtStart' = [n \in Nodes |-> IF n \in started THEN planElements
                                       ELSE planAtStart[n]]

StartDeploy ==
    /\ Walk!WalkAsync
    /\ StartDeploying(Walk!FreeNodes(keys), Walk!NoNode, "none")
    /\ UNCHANGED <<result, unrecorded, readElement, planElements, state,
                   appliedChanges, deployErrors>>

\* The handler has the result r of its adapter and updates the plan with "shown".
UseResult(n, r, shown) ==
    /\ phase[n] = "deploying"
    /\ n \notin NoAdapter
    /\ r.applied \subseteq ChangesOf(n)
    /\ result' = [result EXCEPT ![n] = r]
    /\ appliedChanges' = appliedChanges \cup r.applied
    /\ planElements' = planElements \cup shown
    /\ unrecorded' = [unrecorded EXCEPT ![n] = ElementsOf(r.applied)]
    /\ phase' = [phase EXCEPT ![n] = IF r.applied = {} THEN "recorded" ELSE "recording"]
    /\ UNCHANGED <<walkVars, readElement, planAtStart, state, progress, deployErrors>>

\* Mistaken variant of AdapterReturns: updatePlanElement is left out.
AdapterReturnsWithoutUpdate(n, r) == UseResult(n, r, {})

\* deployOrValidate returns r.  From here the handler runs without waiting to
\* the first state access of postDeployAction.
AdapterReturns(n, r) == UseResult(n, r, r.applied)

AppliedTo(n, e) == {c \in result[n].applied : Element[c] = e}

\* Element e is recorded, those in "rest" are not.
ElementRecorded(n, rest) ==
    /\ unrecorded' = [unrecorded EXCEPT ![n] = rest]
    /\ phase' = [phase EXCEPT ![n] = IF rest = {} THEN "recorded" ELSE "recording"]

\* updateStateElements, for a change of a whole element: set, or remove.
SetElement(n, e) ==
    /\ phase[n] = "recording"
    /\ e \in unrecorded[n]
    /\ AppliedTo(n, e) \cap Whole # {}
    /\ state' = [state EXCEPT ![e] = AppliedTo(n, e)]
    /\ ElementRecorded(n, unrecorded[n] \ {e})
    /\ UNCHANGED <<walkVars, result, readElement, planAtStart, planElements,
                   appliedChanges, progress, deployErrors>>

\* updateStateElements, for changes of parts of an element: it is read ...
ReadElement(n, e) ==
    /\ phase[n] = "recording"
    /\ e \in unrecorded[n]
    /\ AppliedTo(n, e) \cap Whole = {}
    /\ readElement' = [readElement EXCEPT ![n] = {[element |-> e, parts |-> state[e]]}]
    /\ phase' = [phase EXCEPT ![n] = "writing"]
    /\ UNCHANGED <<walkVars, result, unrecorded, planAtStart, sharedVars>>

Write(n, Value(_, _)) ==
    /\ phase[n] = "writing"
    /\ \E read \in readElement[n] :
         /\ state' = [state EXCEPT
                        ![read.element] = Value(read.parts, AppliedTo(n, read.element))]
         /\ ElementRecorded(n, unrecorded[n] \ {read.element})
    /\ readElement' = [readElement EXCEPT ![n] = {}]
    /\ UNCHANGED <<walkVars, result, planAtStart, planElements, appliedChanges,
                   progress, deployErrors>>

\* Mistaken variant of WriteElement: only the changed parts are written.
WriteElementAfresh(n) == Write(n, LAMBDA read, applied : applied)

\* ... and its clone, with the changes applied, is written back.
WriteElement(n) == Write(n, LAMBDA read, applied : read \cup applied)

\* Mistaken variant of ItemFinishes: warnings neither finish nor fail an item.
ItemFinishesWithoutWarnings(n) ==
    /\ phase[n] = "recorded"
    /\ ~result[n].fatal /\ ~result[n].warnings
    /\ Walk!HandlerResolves(n)
    /\ StartDeploying(Walk!FreedBy(n), n, "finished")
    /\ UNCHANGED <<result, unrecorded, readElement, planElements, state,
                   appliedChanges, deployErrors>>

\* The handler is over without an error of severity 'Error'.
ItemFinishes(n) ==
    /\ phase[n] = "recorded"
    /\ ~result[n].fatal
    /\ Walk!HandlerResolves(n)
    /\ StartDeploying(Walk!FreedBy(n), n, "finished")
    /\ deployErrors' = [deployErrors EXCEPT ![n] = IF result[n].warnings THEN {"warning"} ELSE {}]
    /\ UNCHANGED <<result, unrecorded, readElement, planElements, state, appliedChanges>>

\* The handler throws: an error of its own, or a WalkDeployError for the errors of
\* the adapter, after the warnings were taken.
HandlerThrows(n, warnings) ==
    \/ ~warnings /\ phase[n] = "deploying" /\ n \in NoAdapter
    \/ ~warnings /\ phase[n] \in {"recording", "writing", "recorded"}
    \/ warnings = result[n].warnings /\ phase[n] = "recorded" /\ result[n].fatal

\* There is no adapter, or postDeployAction throws, at any time until it is over
\* (it also updates the path index and the caller's changedElements), or the
\* adapter reported errors.
ItemFails(n) ==
    /\ \E warnings \in BOOLEAN :
          /\ HandlerThrows(n, warnings)
          /\ deployErrors' = [deployErrors EXCEPT ![n] = IF warnings THEN {"warning"} ELSE {}]
    /\ Walk!HandlerRejects(n, "error")
    /\ StartDeploying({}, n, "error")
    /\ UNCHANGED <<result, unrecorded, readElement, planElements, state, appliedChanges>>

\* What the error of the walk becomes: statuses and errors of the items in
\* "cancelled", "failed" and "circular".
ReportOutcome(cancelled, failed, circular) ==
    /\ progress' =
         [n \in Nodes |-> IF n \in cancelled THEN "cancelled"
                          ELSE IF n \in circular THEN "error"
                          ELSE progress[n]]
    /\ deployErrors' =
         [n \in Nodes |->
            deployErrors[n]
              \cup (IF n \in cancelled THEN {"dependency"} ELSE {})
              \cup (IF n \in failed THEN {"deploy"} ELSE {})
              \cup (IF n \in circular THEN {"circular"} ELSE {})]
    /\ UNCHANGED <<handlerVars, planElements, state, appliedChanges>>

WithError(kind) == {n \in Nodes : errors[n] = kind}

\* Mistaken variants of DeployReturns: circles are not reported; all that is left in
\* the map is.
DeployReturnsWithoutCircles ==
    Walk!ThrowIfNotEmpty /\ ReportOutcome(WithError("skipped"), WithError("error"), {})
DeployReturnsWithLeftovers ==
    Walk!ThrowIfNotEmpty /\ ReportOutcome(WithError("skipped"), WithError("error"), keys)

\* The walk is over, and so is deployActions.
DeployReturns ==
    Walk!ThrowIfNotEmpty
      /\ ReportOutcome(WithError("skipped"), WithError("error"), circularNodes')

Next ==
    \/ StartDeploy
    \/ \E n \in Nodes, r \in Results : AdapterReturns(n, r)
    \/ \E n \in Nodes, e \in Elements : SetElement(n, e)
    \/ \E n \in Nodes, e \in Elements : ReadElement(n, e)
    \/ \E n \in Nodes : WriteElement(n)
    \/ \E n \in Nodes : ItemFinishes(n)
    \/ \E n \in Nodes : ItemFails(n)
    \/ DeployReturns

\* Accesses of the state complete, and the handler goes on; it is not relied on to
\* fail where it need not.  Adapters may never answer.
HandlerProceeds(n) ==
    \/ \E e \in Elements : SetElement(n, e) \/ ReadElement(n, e)
    \/ WriteElement(n)
    \/ ItemFinishes(n)
    \/ (n \in NoAdapter \/ result[n].fatal) /\ ItemFails(n)

Spec ==
    /\ Init /\ [][Next]_vars
    /\ WF_vars(StartDeploy) /\ WF_vars(DeployReturns)
    /\ \A n \in Nodes : WF_vars(HandlerProceeds(n))

----------------------------------------------------------------------------
(* What a deployment promises. *)

Returned == walk \in {"resolved", "rejected"}

\* Types of the state of a deployment.
TypeOK ==
    /\ Walk!TypeOK
    /\ phase \in [Nodes -> Phases]
    /\ result \in [Nodes -> Results]
    /\ unrecorded \in [Nodes -> SUBSET Elements]
    /\ readElement \in [Nodes -> SUBSET [element : Elements, parts : SUBSET Changes]]
    /\ planAtStart \in [Nodes -> SUBSET Changes]
    /\ planElements \subseteq Changes
    /\ state \in [Elements -> SUBSET Changes]
    /\ appliedChanges \subseteq Changes
    /\ progress \in [Nodes -> Statuses]
    /\ deployErrors \in [Nodes -> SUBSET DeployErrorKinds]

\* Items m and n are deployed one after the other, not concurrently.
Ordered(m, n) ==
    \/ m = n
    \/ m \in Walk!Reachable(graph, {n})
    \/ n \in Walk!Reachable(graph, {m})

\* All items that change element e are ordered by the plan.
ChangedInOrder(e) ==
    \A c, d \in Changes : Element[c] = e /\ Element[d] = e => Ordered(Item[c], Item[d])

\* Once the deployment is over, what it applied to an element by changing parts
\* of it is in the state, also if the adapter reported errors or the item failed
\* after that.  If it is not, then because the item's update of that element was
\* not completed, and the item is reported as failed - provided that the plan
\* orders the items that change the element.
AppliedIsRecordedOrReported ==
    Returned =>
        \A c \in appliedChanges :
            ChangedInOrder(Element[c]) =>
                \/ c \in state[Element[c]]
                \/ /\ Element[c] \in unrecorded[Item[c]]
                   /\ "deploy" \in deployErrors[Item[c]]
                \/ \E d \in appliedChanges \cap Whole : Element[d] = Element[c] /\ d # c

\* An item is given to its adapter with the deployed values of everything that
\* its dependencies applied, and once those are in the state.
DeployedOnTopOfDependencies ==
    \A n \in Nodes :
        phase[n] # "none" =>
            \A d \in graph[n] :
                result[d].applied \subseteq planAtStart[n] /\ unrecorded[d] = {}

\* Every item ends with one outcome that the caller was told of, and the errors
\* agree with it: finished items have no errors, failed ones theirs, cancelled
\* ones a dependency error and an item they depend on that failed or, failing
\* that, a cycle is reported.
OutcomesAgreeWithErrors ==
    Returned =>
        \A n \in Nodes :
            /\ progress[n] = "finished" <=> deployErrors[n] \subseteq {"warning"}
            /\ progress[n] = "cancelled" <=> deployErrors[n] = {"dependency"}
            /\ progress[n] = "error" <=> deployErrors[n] \cap {"deploy", "circular"} # {}
            /\ progress[n] = "cancelled" =>
                  \E m \in Walk!Reachable(graph, {n}) : "deploy" \in deployErrors[m]

\* An outcome is final: the handlers, and the evaluation of the walk's error at the
\* end, report no item that was reported to be over already, and no error of it
\* but those that it failed with.
OutcomesAreReportedOnce ==
    [][\A n \in Nodes :
         progress[n] \in {"finished", "error", "cancelled"} =>
             /\ progress'[n] = progress[n]
             /\ deployErrors'[n] \ deployErrors[n] \subseteq {"deploy"}]_vars

\* A deployment returns if the adapters answer.
DeployEnds == (\A n \in Nodes : []<>(phase[n] # "deploying")) => <>Returned

============================================================================
