---------------------------- MODULE DagWalkSync ----------------------------
(***************************************************************************)
(* DAG.walkSync of packages/dag/src/nodemap.ts: the synchronous walk.      *)
(*                                                                         *)
(* next(affectedNodes) iterates over the affected nodes and, for each that *)
(* is free, calls the handler, deletes the node and calls itself on what   *)
(* that affects, before it goes on to the next affected node.  The         *)
(* iteration is lazy (wu): whether a node is free is asked when its turn   *)
(* comes, after the recursive calls for the nodes before it.  A step of    *)
(* this module is one turn of such a loop.                                 *)
(***************************************************************************)
EXTENDS NodeMap, Sequences

CONSTANTS
    Graphs,        \* the dependency maps that a walk may be given
    ThrownKinds,   \* what handlers may throw
    MaxCalls       \* bound on the calls of the handler for one node

VARIABLES
    graph,   \* the map walkSync was called on
    stack,   \* the active calls of next: the nodes each has yet to look at
    calls,   \* node -> how often the handler was called for it
    walk     \* "walking", "returned", or "threw" a WalkError

syncVars == <<graph, stack, calls, walk>>
vars == <<mapVars, errorVars, syncVars>>

Init ==
    /\ graph \in Graphs
    /\ NewNodeMap(graph)
    /\ NoErrors
    /\ stack = <<keys>>
    /\ calls = [n \in Nodes |-> 0]
    /\ walk = "walking"

Top == Len(stack)

\* next's loop has come to node n, one of the affected nodes it did not look at
\* yet.  Their order is that of insertion into the map, which is arbitrary.
Turn(n) ==
    /\ walk = "walking"
    /\ stack # << >>
    /\ n \in stack[Top]

\* The stack once the turn of n is over.  The outermost loop iterates over the
\* keys of the map itself (this.keys()), so it meets a key that was deleted and
\* inserted again ("inserted") a second time, and a deleted one no more.
AfterTurn(n, inserted) ==
    [i \in 1..Top |->
        (IF i = Top THEN stack[i] \ {n} ELSE stack[i])
          \cup (IF i = 1 THEN inserted ELSE {})]

\* isFreeNode(n) is false.
SkipBusyNode(n) ==
    /\ Turn(n)
    /\ ~IsFreeNode(n)
    /\ stack' = AfterTurn(n, {})
    /\ UNCHANGED <<mapVars, errorVars, graph, calls, walk>>

CallHandler(n) ==
    /\ Turn(n)
    /\ IsFreeNode(n)
    /\ calls[n] < MaxCalls
    /\ calls' = [calls EXCEPT ![n] = @ + 1]

\* handler(n) returns: next(this.deleteNode(n)).
HandlerReturns(n) ==
    /\ CallHandler(n)
    /\ DeleteNode(n)
    /\ stack' = Append([i \in 1..Top |-> IF i \in {1, Top} THEN stack[i] \ {n} ELSE stack[i]],
                       reverseNeighbors[n])
    /\ UNCHANGED <<errorVars, graph, walk>>

\* handler(n) throws: errors.set(n, e).  isFreeNode read the dependencies of n
\* with get, which inserts n into the map if it is not there any more.
HandlerThrows(n) ==
    /\ CallHandler(n)
    /\ SetError(n)
    /\ keys' = keys \cup {n}
    /\ stack' = AfterTurn(n, {n} \ keys)
    /\ UNCHANGED <<dependsOn, reverseNeighbors, graph, walk>>

\* handler(n) throws a FatalError: errors.set throws through all the loops.
HandlerThrowsFatally(n) ==
    /\ CallHandler(n)
    /\ SetFatalError(n)
    /\ keys' = keys \cup {n}
    /\ stack' = << >>
    /\ walk' = "threw"
    /\ UNCHANGED <<dependsOn, reverseNeighbors, graph>>

\* A call of next has looked at all its affected nodes.
ReturnFromNext ==
    /\ walk = "walking"
    /\ stack # << >>
    /\ stack[Top] = {}
    /\ stack' = SubSeq(stack, 1, Top - 1)
    /\ UNCHANGED <<mapVars, errorVars, graph, calls, walk>>

ThrowIfNotEmpty ==
    /\ walk = "walking"
    /\ stack = << >>
    /\ walk' = IF ErrorNodes = {} /\ UnhandledNodes = {} THEN "returned" ELSE "threw"
    /\ UNCHANGED <<mapVars, errorVars, graph, stack, calls>>

Next ==
    \/ \E n \in Nodes : SkipBusyNode(n)
    \/ \E n \in Nodes : HandlerReturns(n)
    \/ \E n \in Nodes : "error" \in ThrownKinds /\ HandlerThrows(n)
    \/ \E n \in Nodes : "fatal" \in ThrownKinds /\ HandlerThrowsFatally(n)
    \/ ReturnFromNext
    \/ ThrowIfNotEmpty

Spec == Init /\ [][Next]_vars /\ WF_vars(Next)

----------------------------------------------------------------------------

\* nodemap.test.ts expects of the handler of walkSync that it is not called for
\* a node it was called for before.
HandledAtMostOnce == \A n \in Nodes : calls[n] <= 1

============================================================================
