-------------------------- MODULE MCDeployActions --------------------------
(***************************************************************************)
(* An instance of DeployActions for TLC: three items, of which i2 and i3    *)
(* change two elements and share the first, and i1 has no adapter.  The    *)
(* plans are all the ways in which i1 may depend on the others and they on *)
(* each other, a cycle included.                                           *)
(***************************************************************************)
EXTENDS DeployActions, TLC

CONSTANTS i1, i2, i3, c1, c2, c3, e1, e2

MCNodes == {i1, i2, i3}
MCChanges == {c1, c2, c3}
MCItem == (c1 :> i2) @@ (c2 :> i3) @@ (c3 :> i3)
MCElement == (c1 :> e1) @@ (c2 :> e1) @@ (c3 :> e2)

Edges == {<<i1, i2>>, <<i1, i3>>, <<i3, i2>>, <<i2, i3>>}

MCGraphs ==
    {[n \in MCNodes |-> {m \in MCNodes : <<n, m>> \in E}] : E \in SUBSET Edges}

============================================================================
