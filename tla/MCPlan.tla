------------------------------- MODULE MCPlan -------------------------------
(***************************************************************************)
(* An instance of Plan for TLC: an added type, a field of it, and two      *)
(* other added elements, with all dependencies between the four.           *)
(***************************************************************************)
EXTENDS Plan, TLC

CONSTANTS t, f, x, y, T, F, X, Y

MCNodes == {t, f, x, y}

\* The field depends on its type, the type not on its field, and y not on the field.
MCGraphs ==
    {g \in [MCNodes -> SUBSET MCNodes] :
        t \in g[f] /\ f \notin g[t] \cup g[y] /\ \A n \in MCNodes : n \notin g[n]}

Grouping(a, b, c, d, e) ==
    [keys |-> (t :> a) @@ (f :> b) @@ (x :> c) @@ (y :> d), disjoint |-> e]
MCGroupings ==
    {Grouping(T, T, X, Y, {}), Grouping(T, F, X, Y, {}), Grouping(T, T, X, X, {}),
     Grouping(T, F, T, F, {}), Grouping(T, F, T, F, {T})}

MCTypeChange == (f :> t)

==============================================================================
