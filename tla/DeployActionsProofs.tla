------------------------ MODULE DeployActionsProofs ------------------------
(***************************************************************************)
(* Theorems about DeployActions, for any items, changes, elements and      *)
(* plans.  The walk over the plan is the one of DagWalkProofs, whose       *)
(* inductive invariant is used as it is.                                   *)
(***************************************************************************)
EXTENDS DeployActions, TLAPS

Proved == INSTANCE DagWalkProofs WITH ThrownKinds <- {"error"}

----------------------------------------------------------------------------
(* The walk is the one that DagWalkProofs is about. *)

LEMMA WalkStarts == Walk!Init => Proved!IInv
  <1>1. Walk!Init => Proved!Init
    BY DEF Walk!Init, Proved!Init, Walk!NewNodeMap, Proved!NewNodeMap,
           Walk!NoErrors, Proved!NoErrors, Walk!NoNode, Proved!NoNode,
           Walk!CreateReverseNeighbors, Proved!CreateReverseNeighbors
  <1>. QED
    BY <1>1, Proved!InitEstablishesIInv, PlansAssumption DEF Walk!NoNode, Proved!NoNode

LEMMA WalkProceeds ==
  ASSUME Proved!IInv, [Walk!Next]_walkVars
  PROVE  Proved!IInv'
  <1>. USE DEF Walk!mapVars, Proved!mapVars, Walk!errorVars, Proved!errorVars
  <1>1. ASSUME Walk!WalkAsync PROVE Proved!WalkAsync
    BY <1>1 DEF Walk!WalkAsync, Proved!WalkAsync, Walk!HandlerAfter, Proved!HandlerAfter,
         Walk!FreeNodes, Proved!FreeNodes, Walk!IsFreeNode, Proved!IsFreeNode,
         Walk!CallsAfter, Proved!CallsAfter, Walk!NoNode, Proved!NoNode
  <1>2. ASSUME NEW n \in Nodes, Walk!HandlerResolves(n) PROVE Proved!HandlerResolves(n)
    BY <1>2 DEF Walk!HandlerResolves, Proved!HandlerResolves, Walk!Running, Proved!Running,
         Walk!DeleteNode, Proved!DeleteNode, Walk!HandlerAfter, Proved!HandlerAfter,
         Walk!FreedBy, Proved!FreedBy, Walk!CallsAfter, Proved!CallsAfter
  <1>3. ASSUME NEW n \in Nodes, NEW kind \in {"error"}, Walk!HandlerRejects(n, kind)
        PROVE  Proved!HandlerRejects(n, kind)
    BY <1>3 DEF Walk!HandlerRejects, Proved!HandlerRejects, Walk!Running, Proved!Running,
         Walk!HandlerAfter, Proved!HandlerAfter, Walk!SetError, Proved!SetError,
         Walk!SetErrors, Proved!SetErrors, Walk!Attributions, Proved!Attributions,
         Walk!VisitedFrom, Proved!VisitedFrom, Walk!Reachable, Proved!Reachable,
         Walk!NoNode, Proved!NoNode
  <1>4. ASSUME Walk!RejectEarly PROVE Proved!RejectEarly
    BY <1>4 DEF Walk!RejectEarly, Proved!RejectEarly
  <1>5. ASSUME Walk!ThrowIfNotEmpty PROVE Proved!ThrowIfNotEmpty
    BY <1>5 DEF Walk!ThrowIfNotEmpty, Proved!ThrowIfNotEmpty, Walk!EndOfWalk,
         Proved!EndOfWalk, Walk!UnhandledNodes, Proved!UnhandledNodes, Walk!ErrorNodes,
         Proved!ErrorNodes, Walk!Running, Proved!Running
  <1>6. [Proved!Next]_(Proved!vars)
    BY <1>1, <1>2, <1>3, <1>4, <1>5 DEF Walk!Next, Proved!Next, walkVars, Proved!vars,
         Proved!walkVars
  <1>. QED
    BY <1>6, Proved!NextKeepsIInv, PlansAssumption DEF Walk!NoNode, Proved!NoNode

\* What is needed of the walk: nothing has thrown a fatal error, the dependencies of
\* a started item succeeded, and errors are those of failed items and of items
\* that were not started.
WalkFacts ==
    /\ graph \in [Nodes -> SUBSET Nodes]
    /\ handler \in [Nodes -> {"idle", "running", "succeeded", "failed"}]
    /\ errors \in [Nodes -> {"none", "error", "skipped"}]
    /\ keys = {n \in Nodes : handler[n] # "succeeded"}
    /\ walk = "created" => \A n \in Nodes : handler[n] = "idle"
    /\ \A n \in Nodes : handler[n] # "idle" =>
          \A d \in graph[n] : handler[d] = "succeeded"
    /\ \A n \in Nodes : errors[n] = "error" <=> handler[n] = "failed"
    /\ \A n \in Nodes : errors[n] # "none" => handler[n] \in {"failed", "idle"}
    /\ \A n \in Nodes : errors[n] = "skipped" =>
          \E m \in Walk!Reachable(graph, {n}) : handler[m] = "failed"

\* An item is being deployed while its handler runs, and not after the end.
PhasesOK ==
    /\ \A n \in Nodes : phase[n] # "none" <=> handler[n] = "running"
    /\ Returned => \A n \in Nodes : phase[n] = "none"

\* What is applied, shown in the plan and left to be recorded.
ItemsOK ==
    \A n \in Nodes :
        /\ handler[n] = "idle" \/ phase[n] = "deploying" => result[n] = NoResult
        /\ phase[n] \notin {"recording", "writing"} /\ handler[n] # "failed" =>
              unrecorded[n] = {}
        /\ result[n].applied \subseteq ChangesOf(n) \cap planElements
        /\ unrecorded[n] \subseteq ElementsOf(result[n].applied)

AppliedOK == appliedChanges = {c \in Changes : c \in result[Item[c]].applied}

\* An element that items change in order is still what the item that is about to
\* write it has read.
WritingOK ==
    \A n \in Nodes : phase[n] = "writing" =>
        \E e \in unrecorded[n], parts \in SUBSET Changes :
            /\ readElement[n] = {[element |-> e, parts |-> parts]}
            /\ ChangedInOrder(e) => parts = state[e]

\* An applied change is in the state, or is still to be recorded, unless its
\* element was replaced as a whole.
Outlived(c) == \E d \in appliedChanges \cap Whole : Element[d] = Element[c] /\ d # c

RecordedOK ==
    \A c \in appliedChanges :
        ChangedInOrder(Element[c]) =>
            \/ c \in state[Element[c]]
            \/ Element[c] \in unrecorded[Item[c]]
            \/ Outlived(c)

ProgressOK ==
    ~Returned =>
        \A n \in Nodes :
            /\ handler[n] = "idle" => progress[n] = "none" /\ deployErrors[n] = {}
            /\ handler[n] = "running" => progress[n] = "started" /\ deployErrors[n] = {}
            /\ handler[n] = "succeeded" =>
                  progress[n] = "finished" /\ deployErrors[n] \subseteq {"warning"}
            /\ handler[n] = "failed" =>
                  progress[n] = "error" /\ deployErrors[n] \subseteq {"warning"}

\* What the proofs below keep invariant.
IInv ==
    /\ Proved!IInv /\ ~aborted
    /\ TypeOK /\ PhasesOK /\ ItemsOK /\ AppliedOK /\ WritingOK /\ RecordedOK
    /\ ProgressOK /\ DeployedOnTopOfDependencies
    /\ AppliedIsRecordedOrReported /\ OutcomesAgreeWithErrors

----------------------------------------------------------------------------
(* Facts about the walk. *)

LEMMA WalkFactsHold == Proved!IInv /\ ~aborted => WalkFacts /\ Walk!TypeOK
  <1>. SUFFICES ASSUME Proved!IInv, ~aborted PROVE WalkFacts /\ Walk!TypeOK
    OBVIOUS
  <1>. USE DEF Proved!IInv, Proved!TypeOK, Proved!NodeMapTypeOK
  <1>1. Walk!TypeOK
    BY DEF Walk!TypeOK, Walk!NodeMapTypeOK, Walk!NoNode, Proved!NoNode, Walk!ErrorKinds,
           Proved!ErrorKinds, Walk!HandlerStates, Proved!HandlerStates, Walk!WalkStates,
           Proved!WalkStates
  <1>2. /\ graph \in [Nodes -> SUBSET Nodes]
        /\ handler \in [Nodes -> {"idle", "running", "succeeded", "failed"}]
        /\ keys = {n \in Nodes : handler[n] # "succeeded"}
    BY DEF Proved!HandlerStates, Proved!MapMirrorsHandlers, Proved!Succeeded
  <1>3. /\ \A n \in Nodes : errors[n] = "error" <=> handler[n] = "failed"
        /\ \A n \in Nodes : errors[n] # "fatal"
    BY DEF Proved!ErrorsSpread
  <1>4. errors \in [Nodes -> {"none", "error", "skipped"}]
    BY <1>3 DEF Proved!ErrorKinds
  <1>5. /\ walk = "created" => \A n \in Nodes : handler[n] = "idle"
        /\ \A n \in Nodes : handler[n] # "idle" =>
              \A d \in graph[n] : handler[d] = "succeeded"
    BY DEF Proved!NoneStartedBeforeTheWalk, Proved!StartedInOrder, Proved!Succeeded
  <1>6. \A n \in Nodes : errors[n] # "none" => handler[n] \in {"failed", "idle"}
    BY DEF Proved!ErrorsAreExplained
  <1>7. \A n \in Nodes : errors[n] = "skipped" =>
          \E m \in Walk!Reachable(graph, {n}) : handler[m] = "failed"
    BY DEF Proved!ErrorsSpread, Proved!Failed, Walk!Reachable, Proved!Reachable
  <1>. QED
    BY <1>1, <1>2, <1>3, <1>4, <1>5, <1>6, <1>7 DEF WalkFacts

\* Everything that a started item depends on has succeeded.
LEMMA StartedIsOnTop ==
  ASSUME WalkFacts, NEW n \in Nodes, handler[n] # "idle",
         NEW m \in Walk!Reachable(graph, {n}), m # n
  PROVE  m \in Nodes /\ handler[m] = "succeeded"
  <1> DEFINE S == {n} \cup {d \in Nodes : handler[d] = "succeeded"}
  <1>1. S \in SUBSET Nodes /\ {n} \subseteq S
    OBVIOUS
  <1>2. \A k \in S : graph[k] \subseteq S
    BY DEF WalkFacts
  <1>3. m \in S
    BY <1>1, <1>2 DEF Walk!Reachable
  <1>. QED
    BY <1>3

\* Two items that are deployed at the same time do not change one element in order.
LEMMA ConcurrentItemsAreUnordered ==
  ASSUME WalkFacts, NEW m \in Nodes, NEW n \in Nodes, m # n,
         handler[m] = "running", handler[n] = "running",
         NEW c \in Changes, NEW d \in Changes, Item[c] = m, Item[d] = n,
         Element[c] = Element[d]
  PROVE  ~ChangedInOrder(Element[c])
  <1>1. ~Ordered(m, n)
    BY StartedIsOnTop DEF Ordered
  <1>. QED
    BY <1>1 DEF ChangedInOrder

\* The steps of the walk, as far as handlers are concerned.
LEMMA WalkAsyncStarts ==
  ASSUME WalkFacts, Walk!WalkAsync
  PROVE  /\ walk = "created" /\ walk' = "walking"
         /\ graph' = graph /\ aborted' = aborted /\ errors' = errors
         /\ Walk!FreeNodes(keys) \subseteq Nodes
         /\ handler' = [n \in Nodes |-> IF n \in Walk!FreeNodes(keys) THEN "running"
                                        ELSE handler[n]]
         /\ \A n \in Nodes : handler[n] = "idle"
  BY PlansAssumption DEF WalkFacts, Walk!WalkAsync, Walk!HandlerAfter, Walk!FreeNodes,
     Walk!errorVars

LEMMA HandlerResolvesFrees ==
  ASSUME Proved!IInv, NEW n \in Nodes, Walk!HandlerResolves(n)
  PROVE  /\ handler[n] = "running"
         /\ walk' = walk /\ graph' = graph /\ aborted' = aborted /\ errors' = errors
         /\ \A m \in Walk!FreedBy(n) : m \in Nodes /\ handler[m] = "idle"
         /\ handler' = [m \in Nodes |-> IF m \in Walk!FreedBy(n) THEN "running"
                                        ELSE IF m = n THEN "succeeded" ELSE handler[m]]
  <1>1. Proved!Running(n)
    BY DEF Walk!HandlerResolves, Walk!Running, Proved!Running
  <1>2. Proved!FreedBy(n) \subseteq {m \in Nodes : handler[m] = "idle"}
    BY <1>1, Proved!FreedByFinishedHandler, PlansAssumption DEF Walk!NoNode, Proved!NoNode
  <1>3. Walk!FreedBy(n) = Proved!FreedBy(n)
    BY DEF Walk!FreedBy, Proved!FreedBy
  <1>. QED
    BY <1>2, <1>3 DEF Walk!HandlerResolves, Walk!Running, Walk!HandlerAfter, Walk!errorVars

LEMMA HandlerRejectsFails ==
  ASSUME NEW n \in Nodes, Walk!HandlerRejects(n, "error")
  PROVE  /\ handler[n] = "running"
         /\ walk' = walk /\ graph' = graph /\ aborted' = aborted
         /\ handler' = [m \in Nodes |-> IF m = n THEN "failed" ELSE handler[m]]
  BY DEF Walk!HandlerRejects, Walk!Running, Walk!HandlerAfter

LEMMA ThrowIfNotEmptyEnds ==
  ASSUME WalkFacts, Walk!ThrowIfNotEmpty
  PROVE  /\ walk = "walking" /\ walk' \in {"resolved", "rejected"}
         /\ graph' = graph /\ handler' = handler /\ errors' = errors /\ aborted' = aborted
         /\ \A n \in Nodes : handler[n] # "running"
         /\ circularNodes' = {n \in Nodes : handler[n] # "succeeded" /\ errors[n] = "none"}
  BY DEF WalkFacts, Walk!ThrowIfNotEmpty, Walk!EndOfWalk, Walk!Running, Walk!UnhandledNodes,
     Walk!ErrorNodes, Walk!errorVars

----------------------------------------------------------------------------
(* Facts about the steps of a deployment. *)

\* Every step of a deployment is one of its walk, or none.
LEMMA StepsAreOfTheWalk == [Next]_vars => [Walk!Next]_walkVars
  <1>1. ASSUME NEW n \in Nodes, NEW r \in Results, AdapterReturns(n, r)
        PROVE  UNCHANGED walkVars
    BY <1>1 DEF AdapterReturns, UseResult
  <1>2. ASSUME NEW n \in Nodes, NEW e \in Elements, SetElement(n, e) \/ ReadElement(n, e)
        PROVE  UNCHANGED walkVars
    BY <1>2 DEF SetElement, ReadElement
  <1>3. ASSUME NEW n \in Nodes, WriteElement(n) PROVE UNCHANGED walkVars
    BY <1>3 DEF WriteElement, Write
  <1>4. ASSUME NEW n \in Nodes, ItemFinishes(n) \/ ItemFails(n) PROVE Walk!Next
    BY <1>4 DEF ItemFinishes, ItemFails, Walk!Next
  <1>5. StartDeploy \/ DeployReturns => Walk!Next
    BY DEF StartDeploy, DeployReturns, Walk!Next
  <1>6. UNCHANGED vars => UNCHANGED walkVars
    BY DEF vars
  <1>. QED
    BY <1>1, <1>2, <1>3, <1>4, <1>5, <1>6 DEF Next

LEMMA WalkKeepsItsInvariant ==
  ASSUME IInv, Next, ~aborted'
  PROVE  Proved!IInv' /\ WalkFacts' /\ Walk!TypeOK'
  <1>1. Proved!IInv'
    BY StepsAreOfTheWalk, WalkProceeds DEF IInv
  <1>2. (Proved!IInv /\ ~aborted)' => (WalkFacts /\ Walk!TypeOK)'
    BY WalkFactsHold, PTL
  <1>. QED
    BY <1>1, <1>2

LEMMA OrderStays ==
  ASSUME graph' = graph
  PROVE  \A e : ChangedInOrder(e)' <=> ChangedInOrder(e)
  BY DEF ChangedInOrder, Ordered, Walk!Reachable

\* What is promised for the end holds before it.
LEMMA NothingIsPromisedBefore ==
  ASSUME ~Returned'
  PROVE  AppliedIsRecordedOrReported' /\ OutcomesAgreeWithErrors'
  BY DEF AppliedIsRecordedOrReported, OutcomesAgreeWithErrors

LEMMA DependenciesAreRecorded ==
  ASSUME WalkFacts', PhasesOK', ItemsOK',
         \A n \in Nodes : phase'[n] # "none" =>
             \A d \in graph'[n] : result'[d].applied \subseteq planAtStart'[n]
  PROVE  DeployedOnTopOfDependencies'
  <1>1. ASSUME NEW n \in Nodes, phase'[n] # "none", NEW d \in graph'[n]
        PROVE  unrecorded'[d] = {}
    <2>1. d \in Nodes /\ handler'[d] = "succeeded"
      BY <1>1 DEF WalkFacts, PhasesOK
    <2>. QED
      BY <2>1 DEF PhasesOK, ItemsOK
  <1>. QED
    BY <1>1 DEF DeployedOnTopOfDependencies

\* While an item is deployed the walk is under way.
LEMMA DeployingBeforeTheEnd ==
  ASSUME IInv, NEW n \in Nodes, phase[n] # "none"
  PROVE  ~Returned /\ handler[n] = "running"
  BY DEF IInv, PhasesOK

----------------------------------------------------------------------------
(* Each action keeps the invariant. *)

LEMMA InitEstablishesIInv == Init => IInv
  <1>. SUFFICES ASSUME Init PROVE IInv
    OBVIOUS
  <1>1. Proved!IInv /\ ~aborted
    BY WalkStarts DEF Init, Walk!Init
  <1>2. Walk!TypeOK
    BY <1>1, WalkFactsHold
  <1>3. walk = "created" /\ handler = [n \in Nodes |-> "idle"]
    BY DEF Init, Walk!Init
  <1>4. TypeOK
    BY <1>2 DEF Init, TypeOK, Phases, Results, NoResult, Statuses
  <1>5. PhasesOK /\ ItemsOK /\ AppliedOK /\ WritingOK /\ RecordedOK /\ ProgressOK
    BY <1>3, DeployAssumption DEF Init, PhasesOK, ItemsOK, AppliedOK, WritingOK, RecordedOK,
       ProgressOK, Returned, NoResult
  <1>6. DeployedOnTopOfDependencies /\ AppliedIsRecordedOrReported /\ OutcomesAgreeWithErrors
    BY <1>3 DEF Init, DeployedOnTopOfDependencies, AppliedIsRecordedOrReported,
       OutcomesAgreeWithErrors, Returned
  <1>. QED
    BY <1>1, <1>4, <1>5, <1>6 DEF IInv

\* The first items are handed to their adapters.
LEMMA StartDeployKeepsIInv ==
  ASSUME IInv, StartDeploy
  PROVE  IInv'
  <1>1. WalkFacts
    BY WalkFactsHold DEF IInv
  <1>2. /\ walk = "created" /\ walk' = "walking"
        /\ graph' = graph /\ ~aborted' /\ ~Returned'
        /\ Walk!FreeNodes(keys) \subseteq Nodes
        /\ handler' = [n \in Nodes |-> IF n \in Walk!FreeNodes(keys) THEN "running"
                                       ELSE handler[n]]
        /\ \A n \in Nodes : handler[n] = "idle" /\ phase[n] = "none"
    BY <1>1, WalkAsyncStarts DEF StartDeploy, IInv, Returned, PhasesOK
  <1>3. Proved!IInv' /\ WalkFacts' /\ Walk!TypeOK'
    BY <1>2, WalkKeepsItsInvariant DEF Next
  <1>4. /\ phase' = [n \in Nodes |-> IF n \in Walk!FreeNodes(keys) THEN "deploying"
                                     ELSE phase[n]]
        /\ progress' = [n \in Nodes |-> IF n \in Walk!FreeNodes(keys) THEN "started"
                                        ELSE progress[n]]
        /\ planAtStart' = [n \in Nodes |-> IF n \in Walk!FreeNodes(keys) THEN planElements
                                           ELSE planAtStart[n]]
        /\ UNCHANGED <<result, unrecorded, readElement, planElements, state,
                       appliedChanges, deployErrors>>
    BY PlansAssumption DEF StartDeploy, StartDeploying
  <1>5. TypeOK'
    BY <1>2, <1>3, <1>4 DEF IInv, TypeOK, Phases, Statuses
  <1>6. PhasesOK' /\ ItemsOK' /\ AppliedOK' /\ WritingOK'
    BY <1>2, <1>4 DEF IInv, TypeOK, PhasesOK, ItemsOK, AppliedOK, WritingOK
  <1>7. RecordedOK'
    BY <1>2, <1>4, OrderStays DEF IInv, RecordedOK, Outlived
  <1>8. ProgressOK'
    BY <1>2, <1>4 DEF IInv, TypeOK, ProgressOK, Returned
  <1>9. \A n \in Nodes : phase'[n] # "none" =>
          \A d \in graph'[n] : result'[d].applied \subseteq planAtStart'[n]
    BY <1>2, <1>3, <1>4 DEF IInv, TypeOK, ItemsOK, WalkFacts
  <1>10. DeployedOnTopOfDependencies'
    BY <1>3, <1>6, <1>9, DependenciesAreRecorded
  <1>. QED
    BY <1>2, <1>3, <1>5, <1>6, <1>7, <1>8, <1>10, NothingIsPromisedBefore DEF IInv

\* The result of an adapter is shown in the plan, and is left to be recorded.
LEMMA AdapterReturnsKeepsIInv ==
  ASSUME IInv, NEW n \in Nodes, NEW r \in Results, AdapterReturns(n, r)
  PROVE  IInv'
  <1>1. /\ phase[n] = "deploying" /\ r.applied \subseteq ChangesOf(n)
        /\ result' = [result EXCEPT ![n] = r]
        /\ appliedChanges' = appliedChanges \cup r.applied
        /\ planElements' = planElements \cup r.applied
        /\ unrecorded' = [unrecorded EXCEPT ![n] = ElementsOf(r.applied)]
        /\ phase' = [phase EXCEPT ![n] = IF r.applied = {} THEN "recorded" ELSE "recording"]
        /\ UNCHANGED <<walkVars, readElement, planAtStart, state, progress, deployErrors>>
    BY DEF AdapterReturns, UseResult
  <1>2. ~Returned /\ handler[n] = "running" /\ WalkFacts
    BY <1>1, DeployingBeforeTheEnd, WalkFactsHold DEF IInv
  <1>3. graph' = graph /\ handler' = handler /\ ~Returned' /\ ~aborted'
    BY <1>1, <1>2 DEF walkVars, Returned, IInv
  <1>4. Proved!IInv' /\ WalkFacts' /\ Walk!TypeOK'
    BY <1>3, WalkKeepsItsInvariant DEF Next
  <1>5. r.applied \subseteq Changes /\ ElementsOf(r.applied) \subseteq Elements
    BY DEF Results, ElementsOf, Elements
  <1>6. TypeOK'
    BY <1>1, <1>4, <1>5 DEF IInv, TypeOK, Phases
  <1>7. PhasesOK'
    BY <1>1, <1>2, <1>3 DEF IInv, TypeOK, PhasesOK
  <1>8. ItemsOK'
    <2>1. ASSUME NEW m \in Nodes, m # n
          PROVE  /\ result'[m] = result[m] /\ unrecorded'[m] = unrecorded[m]
                 /\ phase'[m] = phase[m]
      BY <1>1, <2>1 DEF IInv, TypeOK
    <2>2. /\ result'[n] = r /\ unrecorded'[n] = ElementsOf(r.applied)
          /\ phase'[n] = IF r.applied = {} THEN "recorded" ELSE "recording"
      BY <1>1 DEF IInv, TypeOK
    <2>3. r.applied = {} => ElementsOf(r.applied) = {}
      BY DEF ElementsOf
    <2>. QED
      BY <1>1, <1>2, <1>3, <2>1, <2>2, <2>3 DEF IInv, ItemsOK
  <1>9. AppliedOK'
    <2>1. \A c \in Changes : c \in r.applied => Item[c] = n
      BY <1>1 DEF ChangesOf
    <2>2. result[n].applied = {}
      BY <1>1 DEF IInv, ItemsOK, NoResult
    <2>3. \A c \in Changes : result'[Item[c]] = IF Item[c] = n THEN r ELSE result[Item[c]]
      BY <1>1, DeployAssumption DEF IInv, TypeOK
    <2>. QED
      BY <1>1, <1>5, <2>1, <2>2, <2>3 DEF IInv, AppliedOK
  <1>10. WritingOK'
    <2>1. ASSUME NEW m \in Nodes, phase'[m] = "writing"
          PROVE  /\ m # n /\ phase[m] = "writing" /\ unrecorded'[m] = unrecorded[m]
                 /\ readElement'[m] = readElement[m]
      BY <1>1, <2>1 DEF IInv, TypeOK
    <2>. QED
      BY <1>1, <1>3, <2>1, OrderStays DEF IInv, WritingOK
  <1>11. RecordedOK'
    <2>1. ASSUME NEW c \in appliedChanges, ChangedInOrder(Element[c])
          PROVE  \/ c \in state'[Element[c]] \/ Element[c] \in unrecorded'[Item[c]]
                 \/ Outlived(c)'
      <3>1. c \in Changes /\ Item[c] # n
        BY <1>1 DEF IInv, TypeOK, AppliedOK, ItemsOK, NoResult
      <3>2. unrecorded'[Item[c]] = unrecorded[Item[c]] /\ (Outlived(c) => Outlived(c)')
        BY <1>1, <3>1, DeployAssumption DEF IInv, TypeOK, Outlived
      <3>. QED
        BY <1>1, <2>1, <3>2 DEF IInv, RecordedOK
    <2>2. ASSUME NEW c \in r.applied
          PROVE  Element[c] \in unrecorded'[Item[c]]
      BY <1>1 DEF ChangesOf, ElementsOf, IInv, TypeOK
    <2>. QED
      BY <1>1, <1>3, <2>1, <2>2, OrderStays DEF RecordedOK
  <1>12. ProgressOK'
    BY <1>1, <1>2, <1>3 DEF IInv, ProgressOK
  <1>13. \A m \in Nodes : phase'[m] # "none" =>
           \A d \in graph'[m] : result'[d].applied \subseteq planAtStart'[m]
    <2>1. ASSUME NEW m \in Nodes, phase'[m] # "none", NEW d \in graph[m]
          PROVE  /\ d \in Nodes /\ d # n /\ phase[m] # "none"
                 /\ result'[d] = result[d] /\ planAtStart'[m] = planAtStart[m]
      BY <1>1, <1>2, <2>1 DEF IInv, TypeOK, PhasesOK, WalkFacts
    <2>. QED
      BY <1>3, <2>1 DEF IInv, DeployedOnTopOfDependencies
  <1>14. DeployedOnTopOfDependencies'
    BY <1>4, <1>7, <1>8, <1>13, DependenciesAreRecorded
  <1>. QED
    BY <1>3, <1>4, <1>6, <1>7, <1>8, <1>9, <1>10, <1>11, <1>12, <1>14,
       NothingIsPromisedBefore DEF IInv

\* An item that has an element left to record has applied a change of it.
LEMMA UnrecordedIsApplied ==
  ASSUME IInv, NEW n \in Nodes, NEW e \in unrecorded[n]
  PROVE  \E c \in Changes : Item[c] = n /\ Element[c] = e /\ c \in result[n].applied
  BY DEF IInv, ItemsOK, ElementsOf, ChangesOf

\* What item n writes of element e holds the item's changes of it, and what was
\* recorded before in order, unless it replaces the element.
KeepsWhatIsRecorded(n, e, written) ==
    \A c \in appliedChanges :
        Element[c] = e /\ ChangedInOrder(e) /\ (c \in state[e] \/ Item[c] = n) =>
            c \in written \/ Outlived(c)

\* Recording an element in this way keeps the invariant.
LEMMA RecordingAnElementKeepsIInv ==
  ASSUME IInv, Next, NEW n \in Nodes, NEW e \in Elements, NEW written \in SUBSET Changes,
         e \in unrecorded[n], phase[n] \in {"recording", "writing"},
         state' = [state EXCEPT ![e] = written],
         ElementRecorded(n, unrecorded[n] \ {e}),
         readElement' \in [Nodes -> SUBSET [element : Elements, parts : SUBSET Changes]],
         \A m \in Nodes : m # n => readElement'[m] = readElement[m],
         UNCHANGED <<walkVars, result, planAtStart, planElements, appliedChanges,
                     progress, deployErrors>>,
         KeepsWhatIsRecorded(n, e, written)
  PROVE  IInv'
  <1>1. /\ unrecorded' = [unrecorded EXCEPT ![n] = unrecorded[n] \ {e}]
        /\ phase' = [phase EXCEPT ![n] =
                       IF unrecorded[n] \ {e} = {} THEN "recorded" ELSE "recording"]
    BY DEF ElementRecorded
  <1>2. ~Returned /\ handler[n] = "running" /\ WalkFacts
    BY DeployingBeforeTheEnd, WalkFactsHold DEF IInv
  <1>3. graph' = graph /\ handler' = handler /\ ~Returned' /\ ~aborted'
    BY <1>2 DEF walkVars, Returned, IInv
  <1>4. Proved!IInv' /\ WalkFacts' /\ Walk!TypeOK'
    BY <1>3, WalkKeepsItsInvariant
  <1>5. TypeOK'
    BY <1>1, <1>4 DEF IInv, TypeOK, Phases
  <1>6. PhasesOK'
    BY <1>1, <1>2, <1>3 DEF IInv, TypeOK, PhasesOK
  <1>7. ASSUME NEW m \in Nodes, m # n
        PROVE  phase'[m] = phase[m] /\ unrecorded'[m] = unrecorded[m]
    BY <1>1, <1>7 DEF IInv, TypeOK
  <1>8. /\ unrecorded'[n] = unrecorded[n] \ {e}
        /\ phase'[n] = IF unrecorded[n] \ {e} = {} THEN "recorded" ELSE "recording"
    BY <1>1 DEF IInv, TypeOK
  <1>9. ItemsOK' /\ AppliedOK'
    BY <1>2, <1>3, <1>7, <1>8 DEF IInv, ItemsOK, AppliedOK
  <1>10. WritingOK'
    <2>1. SUFFICES ASSUME NEW m \in Nodes, phase'[m] = "writing"
          PROVE  \E f \in unrecorded'[m], parts \in SUBSET Changes :
                     /\ readElement'[m] = {[element |-> f, parts |-> parts]}
                     /\ ChangedInOrder(f)' => parts = state'[f]
      BY DEF WritingOK
    <2>2. m # n /\ phase[m] = "writing" /\ handler[m] = "running"
      BY <1>6, <1>7, <1>8, <1>3, <2>1 DEF PhasesOK
    <2>3. PICK f \in unrecorded[m], parts \in SUBSET Changes :
              /\ readElement[m] = {[element |-> f, parts |-> parts]}
              /\ ChangedInOrder(f) => parts = state[f]
      BY <2>2 DEF IInv, WritingOK
    <2>4. f = e => ~ChangedInOrder(f)
      BY <1>2, <2>2, UnrecordedIsApplied, ConcurrentItemsAreUnordered
    <2>5. f # e => state'[f] = state[f]
      BY <2>3 DEF IInv, TypeOK
    <2>. QED
      BY <1>3, <1>7, <2>2, <2>3, <2>4, <2>5, OrderStays
  <1>11. RecordedOK'
    <2>1. SUFFICES ASSUME NEW c \in appliedChanges, ChangedInOrder(Element[c])
          PROVE  \/ c \in state'[Element[c]] \/ Element[c] \in unrecorded'[Item[c]]
                 \/ Outlived(c)
      BY <1>3, OrderStays DEF RecordedOK, Outlived
    <2>2. c \in Changes /\ Item[c] \in Nodes /\ Element[c] \in Elements
      BY DeployAssumption DEF IInv, TypeOK, Elements
    <2>3. \/ c \in state[Element[c]] \/ Element[c] \in unrecorded[Item[c]]
          \/ Outlived(c)
      BY <2>1 DEF IInv, RecordedOK
    <2>4. CASE Element[c] # e
      BY <1>7, <1>8, <2>2, <2>3, <2>4 DEF IInv, TypeOK
    <2>5. CASE Element[c] = e /\ Item[c] # n
      BY <1>7, <2>1, <2>2, <2>3, <2>5 DEF IInv, TypeOK, KeepsWhatIsRecorded
    <2>6. CASE Element[c] = e /\ Item[c] = n
      BY <2>1, <2>2, <2>6 DEF IInv, TypeOK, KeepsWhatIsRecorded
    <2>. QED
      BY <2>4, <2>5, <2>6
  <1>12. ProgressOK'
    BY <1>3, <1>2 DEF IInv, ProgressOK
  <1>13. \A m \in Nodes : phase'[m] # "none" =>
           \A d \in graph'[m] : result'[d].applied \subseteq planAtStart'[m]
    BY <1>3, <1>7, <1>2 DEF IInv, DeployedOnTopOfDependencies, PhasesOK
  <1>14. DeployedOnTopOfDependencies'
    BY <1>4, <1>6, <1>9, <1>13, DependenciesAreRecorded
  <1>. QED
    BY <1>3, <1>4, <1>5, <1>6, <1>9, <1>10, <1>11, <1>12, <1>14,
       NothingIsPromisedBefore DEF IInv

\* A whole element is written.
LEMMA SetElementKeepsIInv ==
  ASSUME IInv, NEW n \in Nodes, NEW e \in Elements, SetElement(n, e)
  PROVE  IInv'
  <1> DEFINE written == AppliedTo(n, e)
  <1>1. written \in SUBSET Changes
    BY DEF AppliedTo, IInv, ItemsOK, ChangesOf
  <1>2. KeepsWhatIsRecorded(n, e, written)
    <2>1. PICK d \in written : d \in Whole
      BY DEF SetElement
    <2>2. d \in appliedChanges /\ Element[d] = e
      BY <2>1 DEF AppliedTo, IInv, ItemsOK, AppliedOK, ChangesOf
    <2>. QED
      BY <2>1, <2>2 DEF KeepsWhatIsRecorded, Outlived
  <1>3. /\ phase[n] = "recording" /\ e \in unrecorded[n]
        /\ state' = [state EXCEPT ![e] = written]
        /\ ElementRecorded(n, unrecorded[n] \ {e})
        /\ readElement' = readElement
        /\ UNCHANGED <<walkVars, result, planAtStart, planElements, appliedChanges,
                       progress, deployErrors>>
    BY DEF SetElement
  <1>4. readElement' \in [Nodes -> SUBSET [element : Elements, parts : SUBSET Changes]]
    BY <1>3 DEF IInv, TypeOK
  <1>5. Next
    BY DEF Next
  <1> HIDE DEF written
  <1>. QED
    BY <1>1, <1>2, <1>3, <1>4, <1>5, RecordingAnElementKeepsIInv

\* An element of which parts changed is read.
LEMMA ReadElementKeepsIInv ==
  ASSUME IInv, NEW n \in Nodes, NEW e \in Elements, ReadElement(n, e)
  PROVE  IInv'
  <1>1. /\ phase[n] = "recording" /\ e \in unrecorded[n]
        /\ readElement' = [readElement EXCEPT ![n] = {[element |-> e, parts |-> state[e]]}]
        /\ phase' = [phase EXCEPT ![n] = "writing"]
        /\ UNCHANGED <<walkVars, result, unrecorded, planAtStart, planElements, state,
                       appliedChanges, progress, deployErrors>>
    BY DEF ReadElement, sharedVars
  <1>2. ~Returned /\ handler[n] = "running" /\ WalkFacts
    BY <1>1, DeployingBeforeTheEnd, WalkFactsHold DEF IInv
  <1>3. graph' = graph /\ handler' = handler /\ ~Returned' /\ ~aborted'
    BY <1>1, <1>2 DEF walkVars, Returned, IInv
  <1>4. Proved!IInv' /\ WalkFacts' /\ Walk!TypeOK'
    BY <1>3, WalkKeepsItsInvariant DEF Next
  <1>5. TypeOK'
    BY <1>1, <1>4 DEF IInv, TypeOK, Phases
  <1>6. PhasesOK' /\ ItemsOK' /\ AppliedOK'
    BY <1>1, <1>2, <1>3 DEF IInv, TypeOK, PhasesOK, ItemsOK, AppliedOK
  <1>7. WritingOK'
    <2>1. \A m \in Nodes : m # n =>
            phase'[m] = phase[m] /\ readElement'[m] = readElement[m]
      BY <1>1 DEF IInv, TypeOK
    <2>2. /\ readElement'[n] = {[element |-> e, parts |-> state[e]]}
          /\ state[e] \in SUBSET Changes /\ e \in unrecorded[n]
      BY <1>1 DEF IInv, TypeOK
    <2>. QED
      BY <1>1, <1>3, <2>1, <2>2, OrderStays DEF IInv, WritingOK
  <1>8. RecordedOK'
    BY <1>1, <1>3, OrderStays DEF IInv, RecordedOK, Outlived
  <1>9. ProgressOK'
    BY <1>1, <1>2, <1>3 DEF IInv, ProgressOK
  <1>10. DeployedOnTopOfDependencies'
    BY <1>1, <1>3 DEF IInv, TypeOK, DeployedOnTopOfDependencies
  <1>. QED
    BY <1>3, <1>4, <1>5, <1>6, <1>7, <1>8, <1>9, <1>10, NothingIsPromisedBefore DEF IInv

\* ... and is written with the changes of the item: nothing was written in between
\* if the changes of the element are ordered.
LEMMA WriteElementKeepsIInv ==
  ASSUME IInv, NEW n \in Nodes, WriteElement(n)
  PROVE  IInv'
  <1>1. phase[n] = "writing"
    BY DEF WriteElement, Write
  <1>2. PICK e \in unrecorded[n], parts \in SUBSET Changes :
            /\ readElement[n] = {[element |-> e, parts |-> parts]}
            /\ ChangedInOrder(e) => parts = state[e]
    BY <1>1 DEF IInv, WritingOK
  <1> DEFINE written == parts \cup AppliedTo(n, e)
  <1>3. /\ state' = [state EXCEPT ![e] = written]
        /\ ElementRecorded(n, unrecorded[n] \ {e})
        /\ readElement' = [readElement EXCEPT ![n] = {}]
        /\ UNCHANGED <<walkVars, result, planAtStart, planElements, appliedChanges,
                       progress, deployErrors>>
    <2>1. PICK read \in readElement[n] :
              /\ state' = [state EXCEPT
                             ![read.element] = read.parts \cup AppliedTo(n, read.element)]
              /\ ElementRecorded(n, unrecorded[n] \ {read.element})
      BY DEF WriteElement, Write
    <2>2. read.element = e /\ read.parts = parts
      BY <1>2, <2>1
    <2>. QED
      BY <2>1, <2>2 DEF WriteElement, Write
  <1>4. written \in SUBSET Changes
    BY DEF AppliedTo, IInv, ItemsOK, ChangesOf
  <1>5. KeepsWhatIsRecorded(n, e, written)
    BY <1>2 DEF AppliedTo, IInv, AppliedOK, KeepsWhatIsRecorded
  <1>6. readElement' \in [Nodes -> SUBSET [element : Elements, parts : SUBSET Changes]]
        /\ \A m \in Nodes : m # n => readElement'[m] = readElement[m]
    BY <1>3 DEF IInv, TypeOK
  <1>7. e \in Elements
    BY <1>2 DEF IInv, TypeOK
  <1> HIDE DEF written
  <1>. QED
    BY <1>1, <1>2, <1>3, <1>4, <1>5, <1>6, <1>7, RecordingAnElementKeepsIInv DEF Next

\* An item is done: what it frees is handed to the adapters.
LEMMA ItemFinishesKeepsIInv ==
  ASSUME IInv, NEW n \in Nodes, ItemFinishes(n)
  PROVE  IInv'
  <1> DEFINE freed == Walk!FreedBy(n)
  <1>1. /\ phase[n] = "recorded" /\ Walk!HandlerResolves(n)
        /\ phase' = [m \in Nodes |-> IF m \in freed THEN "deploying"
                                     ELSE IF m = n THEN "none" ELSE phase[m]]
        /\ progress' = [m \in Nodes |-> IF m \in freed THEN "started"
                                        ELSE IF m = n THEN "finished" ELSE progress[m]]
        /\ planAtStart' = [m \in Nodes |-> IF m \in freed THEN planElements
                                           ELSE planAtStart[m]]
        /\ deployErrors' = [deployErrors EXCEPT
                              ![n] = IF result[n].warnings THEN {"warning"} ELSE {}]
        /\ UNCHANGED <<result, unrecorded, readElement, planElements, state, appliedChanges>>
    BY DEF ItemFinishes, StartDeploying
  <1>2. /\ handler[n] = "running"
        /\ walk' = walk /\ graph' = graph /\ aborted' = aborted
        /\ \A m \in freed : m \in Nodes /\ handler[m] = "idle"
        /\ handler' = [m \in Nodes |-> IF m \in freed THEN "running"
                                       ELSE IF m = n THEN "succeeded" ELSE handler[m]]
    BY <1>1, HandlerResolvesFrees DEF IInv
  <1> HIDE DEF freed
  <1>3. ~Returned /\ ~Returned' /\ ~aborted' /\ WalkFacts
    BY <1>1, <1>2, DeployingBeforeTheEnd, WalkFactsHold DEF IInv, Returned
  <1>4. Proved!IInv' /\ WalkFacts' /\ Walk!TypeOK'
    BY <1>3, WalkKeepsItsInvariant DEF Next
  <1>5. TypeOK'
    BY <1>1, <1>4 DEF IInv, TypeOK, Phases, Statuses, DeployErrorKinds
  <1>6. PhasesOK'
    BY <1>1, <1>2, <1>3 DEF IInv, TypeOK, PhasesOK
  <1>7. unrecorded[n] = {}
    BY <1>1, <1>2 DEF IInv, ItemsOK
  <1>8. ItemsOK' /\ AppliedOK'
    <2>1. ASSUME NEW m \in Nodes
          PROVE  /\ handler'[m] = "idle" \/ phase'[m] = "deploying" => result[m] = NoResult
                 /\ phase'[m] \notin {"recording", "writing"} /\ handler'[m] # "failed" =>
                       unrecorded[m] = {}
      <3>1. CASE m \in freed
        BY <1>2, <1>6, <3>1 DEF IInv, ItemsOK, PhasesOK
      <3>2. CASE m \notin freed /\ m = n
        BY <1>1, <1>2, <1>7, <3>2
      <3>3. CASE m \notin freed /\ m # n
        BY <1>1, <1>2, <3>3 DEF IInv, ItemsOK
      <3>. QED
        BY <3>1, <3>2, <3>3
    <2>. QED
      BY <1>1, <2>1 DEF IInv, ItemsOK, AppliedOK
  <1>9. WritingOK'
    BY <1>1, <1>2, OrderStays DEF IInv, WritingOK
  <1>10. RecordedOK'
    BY <1>1, <1>2, OrderStays DEF IInv, RecordedOK, Outlived
  <1>11. ProgressOK'
    BY <1>1, <1>2, <1>3 DEF IInv, TypeOK, ProgressOK
  <1>12. \A m \in Nodes : phase'[m] # "none" =>
           \A d \in graph'[m] : result'[d].applied \subseteq planAtStart'[m]
    <2>1. ASSUME NEW m \in Nodes, phase'[m] # "none", NEW d \in graph[m]
          PROVE  result'[d].applied \subseteq planAtStart'[m]
      <3>1. CASE m \in freed
        BY <1>1, <1>3, <2>1, <3>1 DEF IInv, ItemsOK, WalkFacts
      <3>2. CASE m \notin freed
        BY <1>1, <2>1, <3>2 DEF IInv, DeployedOnTopOfDependencies
      <3>. QED
        BY <3>1, <3>2
    <2>. QED
      BY <1>2, <2>1
  <1>13. DeployedOnTopOfDependencies'
    BY <1>4, <1>6, <1>8, <1>12, DependenciesAreRecorded
  <1>. QED
    BY <1>3, <1>4, <1>5, <1>6, <1>8, <1>9, <1>10, <1>11, <1>13,
       NothingIsPromisedBefore DEF IInv

\* An item fails: nothing starts, and what it has not recorded stays so.
LEMMA ItemFailsKeepsIInv ==
  ASSUME IInv, NEW n \in Nodes, ItemFails(n)
  PROVE  IInv'
  <1>1. /\ phase[n] # "none" /\ Walk!HandlerRejects(n, "error")
        /\ phase' = [m \in Nodes |-> IF m = n THEN "none" ELSE phase[m]]
        /\ progress' = [m \in Nodes |-> IF m = n THEN "error" ELSE progress[m]]
        /\ planAtStart' = [m \in Nodes |-> planAtStart[m]]
        /\ \E warnings \in BOOLEAN :
              deployErrors' = [deployErrors EXCEPT ![n] = IF warnings THEN {"warning"} ELSE {}]
        /\ UNCHANGED <<result, unrecorded, readElement, planElements, state, appliedChanges>>
    BY DEF ItemFails, HandlerThrows, StartDeploying
  <1>2. /\ handler[n] = "running"
        /\ walk' = walk /\ graph' = graph /\ aborted' = aborted
        /\ handler' = [m \in Nodes |-> IF m = n THEN "failed" ELSE handler[m]]
    BY <1>1, HandlerRejectsFails
  <1>3. ~Returned /\ ~Returned' /\ ~aborted'
    BY <1>1, <1>2, DeployingBeforeTheEnd DEF IInv, Returned
  <1>4. Proved!IInv' /\ WalkFacts' /\ Walk!TypeOK'
    BY <1>3, WalkKeepsItsInvariant DEF Next
  <1>5. TypeOK'
    BY <1>1, <1>4 DEF IInv, TypeOK, Phases, Statuses, DeployErrorKinds
  <1>6. PhasesOK'
    BY <1>1, <1>2, <1>3 DEF IInv, TypeOK, PhasesOK
  <1>7. ItemsOK' /\ AppliedOK'
    BY <1>1, <1>2 DEF IInv, ItemsOK, AppliedOK
  <1>8. WritingOK'
    BY <1>1, <1>2, OrderStays DEF IInv, WritingOK
  <1>9. RecordedOK'
    BY <1>1, <1>2, OrderStays DEF IInv, RecordedOK, Outlived
  <1>10. ProgressOK'
    BY <1>1, <1>2, <1>3 DEF IInv, TypeOK, ProgressOK
  <1>11. DeployedOnTopOfDependencies'
    BY <1>1, <1>2 DEF IInv, DeployedOnTopOfDependencies
  <1>. QED
    BY <1>3, <1>4, <1>5, <1>6, <1>7, <1>8, <1>9, <1>10, <1>11,
       NothingIsPromisedBefore DEF IInv

\* The deployment returns: no item is being deployed, so that what is not recorded
\* is of items that failed, and items that were not started are told why.
LEMMA DeployReturnsKeepsIInv ==
  ASSUME IInv, DeployReturns
  PROVE  IInv'
  <1>1. /\ Walk!ThrowIfNotEmpty
        /\ progress' = [n \in Nodes |-> IF n \in WithError("skipped") THEN "cancelled"
                                        ELSE IF n \in circularNodes' THEN "error"
                                        ELSE progress[n]]
        /\ deployErrors' =
             [n \in Nodes |->
                deployErrors[n]
                  \cup (IF n \in WithError("skipped") THEN {"dependency"} ELSE {})
                  \cup (IF n \in WithError("error") THEN {"deploy"} ELSE {})
                  \cup (IF n \in circularNodes' THEN {"circular"} ELSE {})]
        /\ UNCHANGED <<handlerVars, planElements, state, appliedChanges>>
    BY DEF DeployReturns, ReportOutcome
  <1>2. WalkFacts
    BY WalkFactsHold DEF IInv
  <1>3. /\ walk = "walking" /\ Returned'
        /\ graph' = graph /\ handler' = handler /\ errors' = errors /\ ~aborted'
        /\ \A n \in Nodes : handler[n] # "running"
        /\ circularNodes' = {n \in Nodes : handler[n] # "succeeded" /\ errors[n] = "none"}
    BY <1>1, <1>2, ThrowIfNotEmptyEnds DEF IInv, Returned
  <1>4. Proved!IInv' /\ WalkFacts' /\ Walk!TypeOK'
    BY <1>3, WalkKeepsItsInvariant DEF Next
  <1>5. TypeOK'
    BY <1>1, <1>4 DEF IInv, TypeOK, handlerVars, Statuses, DeployErrorKinds
  <1>6. PhasesOK' /\ ItemsOK' /\ AppliedOK'
    BY <1>1, <1>3 DEF IInv, handlerVars, PhasesOK, ItemsOK, AppliedOK
  <1>7. WritingOK' /\ RecordedOK' /\ DeployedOnTopOfDependencies'
    <2>1. WritingOK'
        <3>1. /\ phase' = phase /\ unrecorded' = unrecorded /\ readElement' = readElement
              /\ state' = state /\ \A e : ChangedInOrder(e)' <=> ChangedInOrder(e)
            BY <1>1, <1>3, OrderStays DEF handlerVars
        <3> QED
            BY <3>1 DEF IInv, WritingOK
    <2>2. RecordedOK'
        BY <1>1, <1>3, OrderStays DEF IInv, handlerVars, RecordedOK, Outlived
    <2>3. DeployedOnTopOfDependencies'
        BY <1>1, <1>3, OrderStays DEF IInv, handlerVars, DeployedOnTopOfDependencies
    <2> QED
        BY <2>1, <2>2, <2>3
  <1>8. ProgressOK'
    BY <1>3 DEF ProgressOK
  <1>9. ASSUME NEW n \in Nodes
        PROVE  /\ handler[n] = "idle" => deployErrors[n] = {}
               /\ handler[n] = "succeeded" =>
                    progress[n] = "finished" /\ deployErrors[n] \subseteq {"warning"}
               /\ handler[n] = "failed" =>
                    progress[n] = "error" /\ deployErrors[n] \subseteq {"warning"}
    BY <1>3 DEF IInv, ProgressOK, Returned
  <1>10. ASSUME NEW n \in Nodes
         PROVE  \/ /\ handler[n] = "succeeded" /\ progress'[n] = "finished"
                   /\ deployErrors'[n] \subseteq {"warning"}
                \/ /\ handler[n] = "failed" /\ progress'[n] = "error"
                   /\ "deploy" \in deployErrors'[n]
                \/ /\ errors[n] = "skipped" /\ handler[n] = "idle"
                   /\ progress'[n] = "cancelled" /\ deployErrors'[n] = {"dependency"}
                \/ /\ handler[n] = "idle" /\ progress'[n] = "error"
                   /\ deployErrors'[n] = {"circular"}
    <2>1. CASE handler[n] = "succeeded"
      BY <1>1, <1>2, <1>3, <1>9, <2>1 DEF WithError, WalkFacts
    <2>2. CASE handler[n] = "failed"
      BY <1>1, <1>2, <1>3, <1>9, <2>2 DEF WithError, WalkFacts
    <2>3. CASE handler[n] = "idle"
      BY <1>1, <1>2, <1>3, <1>9, <2>3 DEF WithError, WalkFacts
    <2>. QED
      BY <1>2, <1>3, <2>1, <2>2, <2>3 DEF WalkFacts
  <1>11. AppliedIsRecordedOrReported'
    <2>1. ASSUME NEW c \in appliedChanges, Element[c] \in unrecorded[Item[c]]
          PROVE  "deploy" \in deployErrors'[Item[c]]
      <3>1. Item[c] \in Nodes
        BY DeployAssumption DEF IInv, TypeOK
      <3>2. handler[Item[c]] = "failed"
        BY <1>3, <2>1, <3>1 DEF IInv, PhasesOK, ItemsOK
      <3>. QED
        BY <1>2, <1>10, <3>1, <3>2 DEF WalkFacts
    <2>. QED
      <3>1. UNCHANGED <<unrecorded, state, appliedChanges>>
        BY <1>1 DEF handlerVars
      <3>2. ASSUME NEW c \in appliedChanges, ChangedInOrder(Element[c])
            PROVE  \/ c \in state[Element[c]] \/ Element[c] \in unrecorded[Item[c]]
                   \/ Outlived(c)
        BY <3>2 DEF IInv, RecordedOK
      <3>. QED
        BY <1>3, <2>1, <3>1, <3>2, OrderStays DEF AppliedIsRecordedOrReported, Outlived
  <1>12. OutcomesAgreeWithErrors'
    <2>1. ASSUME NEW n \in Nodes, progress'[n] = "cancelled"
          PROVE  \E m \in Walk!Reachable(graph, {n}) : "deploy" \in deployErrors'[m]
      <3>1. PICK m \in Walk!Reachable(graph, {n}) : handler[m] = "failed"
        BY <1>2, <1>10, <2>1 DEF WalkFacts
      <3>2. m \in Nodes /\ errors[m] = "error"
        BY <1>2, <3>1 DEF Walk!Reachable, WalkFacts
      <3>. QED
        BY <1>2, <1>10, <3>1, <3>2
    <2>. QED
      BY <1>3, <1>10, <2>1 DEF OutcomesAgreeWithErrors, Walk!Reachable
  <1>. QED
    BY <1>3, <1>4, <1>5, <1>6, <1>7, <1>8, <1>11, <1>12 DEF IInv

LEMMA StutteringKeepsIInv == IInv /\ UNCHANGED vars => IInv'
  <1>. SUFFICES ASSUME IInv, UNCHANGED vars PROVE IInv'
    OBVIOUS
  <1>1. Proved!IInv'
    BY WalkProceeds DEF vars, IInv
  <1>2. (Proved!IInv /\ ~aborted)' => (WalkFacts /\ Walk!TypeOK)'
    BY WalkFactsHold, PTL
  <1>3. UNCHANGED <<graph, handler, walk, aborted>>
    BY DEF vars, walkVars
  <1>4. TypeOK'
    BY <1>1, <1>2, <1>3 DEF vars, handlerVars, sharedVars, IInv, TypeOK
  <1>5. PhasesOK' /\ ItemsOK' /\ AppliedOK' /\ ProgressOK' /\ DeployedOnTopOfDependencies'
    BY <1>3 DEF vars, handlerVars, sharedVars, IInv, PhasesOK, ItemsOK, AppliedOK, ProgressOK,
       DeployedOnTopOfDependencies, Returned
  <1>6. WritingOK' /\ RecordedOK' /\ AppliedIsRecordedOrReported'
    BY <1>3, OrderStays DEF vars, handlerVars, sharedVars, IInv, WritingOK, RecordedOK,
       Outlived, AppliedIsRecordedOrReported, Returned
  <1>7. OutcomesAgreeWithErrors'
    BY <1>3 DEF vars, sharedVars, IInv, OutcomesAgreeWithErrors, Returned, Walk!Reachable
  <1>. QED
    BY <1>1, <1>3, <1>4, <1>5, <1>6, <1>7 DEF IInv

LEMMA NextKeepsIInv == IInv /\ [Next]_vars => IInv'
  BY StartDeployKeepsIInv, AdapterReturnsKeepsIInv, SetElementKeepsIInv, ReadElementKeepsIInv,
     WriteElementKeepsIInv, ItemFinishesKeepsIInv, ItemFailsKeepsIInv, DeployReturnsKeepsIInv,
     StutteringKeepsIInv DEF Next

LEMMA IInvIsInvariant == Spec => []IInv
  BY InitEstablishesIInv, NextKeepsIInv, PTL DEF Spec

----------------------------------------------------------------------------
(* The theorems. *)

\* The variables of a deployment keep their types.
THEOREM TypesAreKept == Spec => []TypeOK
  <1>1. IInv => TypeOK
    BY DEF IInv
  <1>. QED
    BY <1>1, IInvIsInvariant, PTL

\* An item is given to its adapter on top of what its dependencies applied, for any
\* plan and whatever adapters apply, in whatever order they return.
THEOREM DeployedAlwaysOnTopOfDependencies == Spec => []DeployedOnTopOfDependencies
  <1>1. IInv => DeployedOnTopOfDependencies
    BY DEF IInv
  <1>. QED
    BY <1>1, IInvIsInvariant, PTL

\* What a deployment applied to an element whose changes are ordered is in the
\* state when it returns, or its item is reported as failed.
THEOREM AppliedIsAlwaysRecordedOrReported == Spec => []AppliedIsRecordedOrReported
  <1>1. IInv => AppliedIsRecordedOrReported
    BY DEF IInv
  <1>. QED
    BY <1>1, IInvIsInvariant, PTL

\* Each item ends with one outcome, with which its errors agree.
THEOREM OutcomesAlwaysAgreeWithErrors == Spec => []OutcomesAgreeWithErrors
  <1>1. IInv => OutcomesAgreeWithErrors
    BY DEF IInv
  <1>. QED
    BY <1>1, IInvIsInvariant, PTL

\* An item that was reported to be over is not reported again, for any plan and
\* whatever its adapters and the state do.
THEOREM OutcomesAreAlwaysReportedOnce == Spec => OutcomesAreReportedOnce
  <1> DEFINE Over(n) == progress[n] \in {"finished", "error", "cancelled"}
             Again(n) == \/ progress'[n] # progress[n]
                         \/ ~(deployErrors'[n] \ deployErrors[n] \subseteq {"deploy"})
  <1>1. ASSUME IInv, [Next]_vars, NEW n \in Nodes, Over(n)
        PROVE  ~Again(n)
    <2>1. CASE UNCHANGED <<progress, deployErrors>>
      BY <2>1
    <2>2. CASE ~UNCHANGED <<progress, deployErrors>>
      <3>1. \/ StartDeploy
            \/ \E m \in Nodes : ItemFinishes(m) \/ ItemFails(m)
            \/ DeployReturns
        BY <1>1, <2>2 DEF Next, AdapterReturns, UseResult, SetElement, ReadElement,
           WriteElement, Write, vars, sharedVars
      <3>2. ~Returned
        BY <1>1, <3>1 DEF StartDeploy, Walk!WalkAsync, ItemFinishes, ItemFails, HandlerThrows,
           DeployReturns, Walk!ThrowIfNotEmpty, Walk!EndOfWalk, IInv, PhasesOK, Returned
      <3>3. WalkFacts
        BY <1>1, WalkFactsHold DEF IInv
      <3>4. handler[n] \in {"succeeded", "failed"}
        BY <1>1, <3>2, <3>3 DEF IInv, ProgressOK, WalkFacts
      <3>5. CASE StartDeploy
        BY <3>3, <3>4, <3>5, WalkAsyncStarts DEF StartDeploy
      <3>6. ASSUME NEW m \in Nodes, ItemFinishes(m)
            PROVE  ~Again(n)
        <4>1. n # m /\ n \notin Walk!FreedBy(m)
          BY <1>1, <3>4, <3>6, HandlerResolvesFrees DEF ItemFinishes, IInv
        <4>. QED
          BY <1>1, <3>6, <4>1 DEF ItemFinishes, StartDeploying, IInv, TypeOK
      <3>7. ASSUME NEW m \in Nodes, ItemFails(m)
            PROVE  ~Again(n)
        <4>1. n # m
          BY <3>4, <3>7, HandlerRejectsFails DEF ItemFails
        <4>. QED
          BY <1>1, <3>7, <4>1 DEF ItemFails, StartDeploying, IInv, TypeOK
      <3>8. CASE DeployReturns
        <4>1. n \notin WithError("skipped") /\ n \notin circularNodes'
          BY <3>3, <3>4, <3>8, ThrowIfNotEmptyEnds DEF DeployReturns, WithError, WalkFacts
        <4>. QED
          BY <3>8, <4>1 DEF DeployReturns, ReportOutcome
      <3>. QED
        BY <3>1, <3>5, <3>6, <3>7, <3>8
    <2>. QED
      BY <2>1, <2>2
  <1>2. IInv /\ [Next]_vars =>
          [\A n \in Nodes :
             progress[n] \in {"finished", "error", "cancelled"} =>
                 /\ progress'[n] = progress[n]
                 /\ deployErrors'[n] \ deployErrors[n] \subseteq {"deploy"}]_vars
    BY <1>1
  <1>. QED
    BY <1>2, IInvIsInvariant, PTL DEF Spec, OutcomesAreReportedOnce

============================================================================
