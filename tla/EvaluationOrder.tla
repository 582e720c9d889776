-------------------------- MODULE EvaluationOrder --------------------------
(***************************************************************************)
(* What a caller of DAG.walkAsync relies on, and all it relies on: every   *)
(* node is executed at most once, after all the nodes it depends on were   *)
(* executed successfully, nodes that are ready may execute concurrently,   *)
(* and the walk is fulfilled only by the success of all nodes.  Nothing is *)
(* said here of the map the walk consumes or of the errors it reports.     *)
(***************************************************************************)
CONSTANTS Nodes, Graphs

VARIABLES graph, status, outcome

vars == <<graph, status, outcome>>

Statuses == {"idle", "running", "succeeded", "failed"}
Outcomes == {"created", "walking", "resolved", "rejected"}

Init ==
    /\ graph \in Graphs
    /\ status = [n \in Nodes |-> "idle"]
    /\ outcome = "created"

Ready(n, succeeded) == status[n] = "idle" /\ graph[n] \subseteq succeeded

Succeeded == {n \in Nodes : status[n] = "succeeded"}

\* The walk begins, and with it the nodes that depend on nothing.
Begin ==
    /\ outcome = "created"
    /\ outcome' = "walking"
    /\ status' = [n \in Nodes |-> IF graph[n] = {} THEN "running" ELSE status[n]]
    /\ UNCHANGED graph

\* Node n succeeds; at once every node that waited for it alone executes.
Succeed(n) ==
    /\ status[n] = "running"
    /\ status' = [m \in Nodes |->
                    IF m = n THEN "succeeded"
                    ELSE IF Ready(m, Succeeded \cup {n}) THEN "running"
                    ELSE status[m]]
    /\ UNCHANGED <<graph, outcome>>

Fail(n) ==
    /\ status[n] = "running"
    /\ status' = [status EXCEPT ![n] = "failed"]
    /\ UNCHANGED <<graph, outcome>>

\* All nodes succeeded.
Resolve ==
    /\ outcome = "walking"
    /\ Succeeded = Nodes
    /\ outcome' = "resolved"
    /\ UNCHANGED <<graph, status>>

\* Some node did not succeed, and either nothing executes any more or a failure
\* ended the walk early.
Reject ==
    /\ outcome = "walking"
    /\ Succeeded # Nodes
    /\ \/ \A n \in Nodes : status[n] # "running"
       \/ \E n \in Nodes : status[n] = "failed"
    /\ outcome' = "rejected"
    /\ UNCHANGED <<graph, status>>

Next ==
    \/ Begin
    \/ \E n \in Nodes : Succeed(n) \/ Fail(n)
    \/ Resolve
    \/ Reject

Spec == Init /\ [][Next]_vars

============================================================================
