------------------------------ MODULE DagWalk ------------------------------
(***************************************************************************)
(* DAG.walkAsync of packages/dag/src/nodemap.ts: run an asynchronous       *)
(* handler on every node of a dependency map, each node as soon as the     *)
(* nodes it depends on were handled.                                       *)
(*                                                                         *)
(* The handlers of free nodes run concurrently.  When one resolves its     *)
(* node is deleted from (a clone of) the map and the dependents that this  *)
(* frees are started in the same turn of the event loop; when one rejects  *)
(* the error is recorded for the node and, as "skipped", for everything    *)
(* that depends on it.  A FatalError makes the walk reject while other     *)
(* handlers are still running; nothing cancels those.                      *)
(***************************************************************************)
EXTENDS NodeMap

CONSTANTS
    Graphs,       \* the dependency maps that a walk may be given
    ThrownKinds   \* what handlers may throw

ASSUME GraphsAssumption == Graphs \subseteq [Nodes -> SUBSET Nodes]
ASSUME ThrownKindsAssumption == ThrownKinds \subseteq {"error", "fatal"}

VARIABLES
    graph,          \* the map walkAsync was called on; walkAsync clones it
    handler,        \* node -> state of its handler's promise
    calls,          \* node -> how often the handler was called for it
    walk,           \* state of the promise that walkAsync returns
    aborted,        \* a handler threw a FatalError: the rejection is under way
    circularNodes   \* causingNodeIds of the CircularDependencyError, or {}

walkVars == <<graph, handler, calls, walk, aborted, circularNodes>>
vars == <<mapVars, errorVars, walkVars>>

HandlerStates == {"idle", "running", "succeeded", "failed"}
WalkStates == {"created", "walking", "resolved", "rejected"}

Init ==
    /\ graph \in Graphs
    /\ NewNodeMap(graph)
    /\ NoErrors
    /\ handler = [n \in Nodes |-> "idle"]
    /\ calls = [n \in Nodes |-> 0]
    /\ walk = "created"
    /\ aborted = FALSE
    /\ circularNodes = {}

Running(n) == handler[n] = "running"

\* Mistaken variant of HandlerAfter: a promise loses its state as it settles.
HandlerAfterForgetting(settled, as, started) ==
    [n \in Nodes |-> IF n \in started THEN "running"
                     ELSE IF n = settled THEN "settled"
                     ELSE handler[n]]

\* The new value of handler when the promise of node "settled" (or NoNode)
\* takes state "as" and the handlers of "started" are called, and the new
\* value of calls.
HandlerAfter(settled, as, started) ==
    [n \in Nodes |-> IF n \in started THEN "running"
                     ELSE IF n = settled THEN as
                     ELSE handler[n]]

CallsAfter(started) ==
    [n \in Nodes |-> IF n \in started THEN calls[n] + 1 ELSE calls[n]]

\* The call of walkAsync: next(this.keys()) starts every free node.
WalkAsync ==
    /\ walk = "created"
    /\ walk' = "walking"
    /\ handler' = HandlerAfter(NoNode, "idle", FreeNodes(keys))
    /\ calls' = CallsAfter(FreeNodes(keys))
    /\ UNCHANGED <<mapVars, errorVars, graph, aborted, circularNodes>>

\* Mistaken variant of FreedBy: every free node of the map.
FreedByScan(n) == {m \in keys \ {n} : dependsOn[m] \subseteq {n}}

\* The affected nodes that are free once node n is deleted.
FreedBy(n) == {m \in reverseNeighbors[n] : dependsOn[m] \subseteq {n}}

\* A handler resolves: next(this.deleteNode(node)).
HandlerResolves(n) ==
    /\ Running(n)
    /\ DeleteNode(n)
    /\ handler' = HandlerAfter(n, "succeeded", FreedBy(n))
    /\ calls' = CallsAfter(FreedBy(n))
    /\ UNCHANGED <<errorVars, graph, walk, aborted, circularNodes>>

\* A handler rejects: errors.set(node, e), which throws on a FatalError, and
\* that rejects the promise chain of the walk.
HandlerRejects(n, kind) ==
    /\ Running(n)
    /\ \/ kind = "error" /\ SetError(n) /\ UNCHANGED aborted
       \/ kind = "fatal" /\ SetFatalError(n) /\ aborted' = TRUE
    /\ handler' = HandlerAfter(n, "failed", {})
    /\ UNCHANGED <<mapVars, graph, calls, walk, circularNodes>>

\* Mistaken variant of RejectEarly: waits for the other handlers.
RejectWhenIdle ==
    /\ walk = "walking"
    /\ aborted
    /\ \A n \in Nodes : ~Running(n)
    /\ walk' = "rejected"
    /\ UNCHANGED <<mapVars, errorVars, graph, handler, calls, aborted, circularNodes>>

\* The rejection that errors.set threw reaches the caller of walkAsync through
\* the pending Promise.all chain, whatever else is still running.
RejectEarly ==
    /\ walk = "walking"
    /\ aborted
    /\ walk' = "rejected"
    /\ UNCHANGED <<mapVars, errorVars, graph, handler, calls, aborted, circularNodes>>

\* The end of the walk with "circular" as unhandledNodes, if "guard" holds.
EndOfWalk(circular, guard) ==
    /\ walk = "walking"
    /\ ~aborted
    /\ guard
    /\ circularNodes' = circular
    /\ walk' = IF ErrorNodes = {} /\ circular = {} THEN "resolved" ELSE "rejected"
    /\ UNCHANGED <<mapVars, errorVars, graph, handler, calls, aborted>>

\* Mistaken variants of ThrowIfNotEmpty: nodes with errors count as circular;
\* circles are forgotten; the walk waits for the map to be empty.
ThrowIfKeysLeft == EndOfWalk(keys, \A n \in Nodes : ~Running(n))
ThrowOnErrorsOnly == EndOfWalk({}, \A n \in Nodes : ~Running(n))
ThrowWhenAllHandled == EndOfWalk(UnhandledNodes, keys = ErrorNodes)

\* Every promise of the chain resolved: errors.throwIfNotEmpty().
ThrowIfNotEmpty == EndOfWalk(UnhandledNodes, \A n \in Nodes : ~Running(n))

Next ==
    \/ WalkAsync
    \/ \E n \in Nodes : HandlerResolves(n)
    \/ \E n \in Nodes, kind \in ThrownKinds : HandlerRejects(n, kind)
    \/ RejectEarly
    \/ ThrowIfNotEmpty

Settled == walk \in {"resolved", "rejected"}

\* What the event loop guarantees: a promise reaction that is due runs.
EventLoop == WF_vars(WalkAsync) /\ WF_vars(RejectEarly) /\ WF_vars(ThrowIfNotEmpty)

\* Nothing is assumed of the handlers: a promise may stay pending for ever.
Spec == Init /\ [][Next]_vars /\ EventLoop

----------------------------------------------------------------------------
(* What a walk promises. *)

Failed == {n \in Nodes : handler[n] = "failed"}
Succeeded == {n \in Nodes : handler[n] = "succeeded"}

\* Types of the walk's state.
TypeOK ==
    /\ NodeMapTypeOK
    /\ graph \in [Nodes -> SUBSET Nodes]
    /\ handler \in [Nodes -> HandlerStates]
    /\ calls \in [Nodes -> Nat]
    /\ walk \in WalkStates
    /\ aborted \in BOOLEAN
    /\ circularNodes \subseteq Nodes

\* The map that the walk consumes stays the original one without the nodes
\* that succeeded, and its inverse relation stays its inverse: deleteNode never
\* leaves a dangling edge on either side.
MapIsRemainder ==
    /\ keys = Nodes \ Succeeded
    /\ \A n \in keys : dependsOn[n] = graph[n] \ Succeeded
    /\ reverseNeighbors = CreateReverseNeighbors(dependsOn)

\* walkAsync calls the handler of a node once, as soon as the handlers of all it
\* depended on in the original map succeeded, and never otherwise: in whatever
\* order handlers finish, however many at once, fatal errors or not.
HandledExactlyWhenReady ==
    \A n \in Nodes :
        calls[n] = IF walk # "created" /\ graph[n] \subseteq Succeeded THEN 1 ELSE 0

\* Without a fatal error the skipped nodes are exactly those that depend,
\* through any number of steps, on a node whose handler failed; and nothing
\* that is skipped ever runs.
SkippedAreTheDoomed ==
    ~aborted =>
        \A n \in Nodes :
            errors[n] = "skipped" <=>
                n \notin Failed /\ Reachable(graph, {n}) \cap Failed # {}

\* A skip is blamed on a direct dependency that itself has an entry, and
\* following the blame from node to node ends at a node whose handler threw.
BlameLeadsToAFailure ==
    ~aborted =>
        \A n \in Nodes :
            errors[n] = "skipped" =>
                /\ causingNode[n] \in graph[n]
                /\ Reachable([m \in Nodes |-> {causingNode[m]} \cap Nodes], {n})
                      \cap Failed # {}

\* A walk that ended without a fatal error accounts for every node exactly once:
\* it succeeded, or it has an error entry, or it is reported as circular; it is
\* reported as circular iff no failure explains it and it reaches a cycle of the
\* original map; and the walk resolves iff all nodes succeeded.
EndAccountsForAllNodes ==
    Settled /\ ~aborted =>
        /\ \A n \in Nodes :
              /\ (n \in Succeeded) # (errors[n] # "none" \/ n \in circularNodes)
              /\ n \in circularNodes <=>
                   /\ Reachable(graph, {n}) \cap Failed = {}
                   /\ \E m \in Reachable(graph, {n}) : m \in Reachable(graph, graph[m])
        /\ walk = "resolved" <=> Succeeded = Nodes

\* A walk implements the execution of a graph in evaluation order.
Order == INSTANCE EvaluationOrder WITH status <- handler, outcome <- walk
ImplementsEvaluationOrder == Order!Spec

\* A fatal error ends the walk although other handlers may never settle.
FatalErrorEndsTheWalk == aborted ~> walk = "rejected"

\* A walk ends, cycles or not, if every handler that is called settles.
WalkEnds == (\A n \in Nodes : []<>~Running(n)) => <>Settled

============================================================================
