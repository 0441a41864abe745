-------------------------- MODULE AssociationGraph --------------------------
(***************************************************************************)
(* model/association_graph.cpp: which physical assets make one logical     *)
(* asset.  A graph is [vertices, edges, status]; AddVertex and AddEdge     *)
(* refuse what they refuse in the code and the caller returns the status.  *)
(* BuildLogicalAssets is the union-find of the code.                       *)
(*                                                                         *)
(* Asset ids are numbers: the code sorts the ids (hex digests) and unites  *)
(* their positions, so that only the order of the ids matters.  A logical  *)
(* asset is the set of its members: its id is a digest of the sorted ids   *)
(* of the members.                                                         *)
(***************************************************************************)
EXTENDS Naturals, Sequences, FiniteSets, SequencesExt

EmptyGraph == [vertices |-> {}, edges |-> {}, status |-> "ok"]

\* A status that is not ok ends the caller's loop.
AddVertex(graph, id) ==
    CASE graph.status # "ok" -> graph
      [] graph.status = "ok" /\ id \in graph.vertices ->
            [graph EXCEPT !.status = "already_exists"]
      [] OTHER -> [graph EXCEPT !.vertices = @ \cup {id}]

AddEdge(graph, edge) ==
    CASE graph.status # "ok" -> graph
      [] graph.status = "ok" /\ ~({edge.lhs, edge.rhs} \subseteq graph.vertices) ->
            [graph EXCEPT !.status = "not_found"]
      [] graph.status = "ok" /\ edge.lhs = edge.rhs ->
            [graph EXCEPT !.status = "invalid_argument"]
      [] graph.status = "ok" /\ edge \in graph.edges ->
            [graph EXCEPT !.status = "already_exists"]
      [] OTHER -> [graph EXCEPT !.edges = @ \cup {edge}]

Composition(edges) ==
    {e \in edges : e.edge_kind = "composition" /\ e.status = "confirmed"}

-----------------------------------------------------------------------------
(* BuildLogicalAssets *)

\* The vertices from v up to its root.  A parent is never above its child in id order.
Ancestors(parent, v) ==
    LET up[i \in DOMAIN parent] ==
            {i} \cup (IF parent[i] = i THEN {} ELSE up[parent[i]])
    IN  up[v]

RootOf(parent, v) == CHOOSE r \in Ancestors(parent, v) : parent[r] = r

\* What find_root leaves of the forest: every vertex on the way points to the root.
Compressed(parent, v) ==
    [i \in DOMAIN parent |->
        IF i \in Ancestors(parent, v) THEN RootOf(parent, v) ELSE parent[i]]

\* Mutated: The endpoints are linked instead of their roots.
UniteEndpoints(parent, edge) ==
    IF edge.lhs < edge.rhs THEN [parent EXCEPT ![edge.rhs] = edge.lhs]
    ELSE [parent EXCEPT ![edge.lhs] = edge.rhs]

\* The smaller of the two roots becomes the root of both.
Unite(parent, edge) ==
    LET found == Compressed(Compressed(parent, edge.lhs), edge.rhs)
        left == RootOf(found, edge.lhs)
        right == RootOf(found, edge.rhs)
    IN  CASE left = right -> found
          [] left < right -> [found EXCEPT ![right] = left]
          [] right < left -> [found EXCEPT ![left] = right]

EdgeBefore(d, e) == d.lhs < e.lhs \/ (d.lhs = e.lhs /\ d.rhs < e.rhs)

Forest(graph) ==
    FoldLeft(Unite, [v \in graph.vertices |-> v],
             SetToSortSeq(Composition(graph.edges), EdgeBefore))

BuildLogicalAssets(graph) ==
    LET parent == Forest(graph)
    IN  {{v \in graph.vertices : RootOf(parent, v) = r} : r \in
            {RootOf(parent, v) : v \in graph.vertices}}

-----------------------------------------------------------------------------
(* What it has to compute *)

\* The connected components: the groups partition the vertices, no edge leaves a group
\* and none can be cut in two without cutting an edge.
AreComponents(groups, vertices, edges) ==
    /\ UNION groups = vertices /\ {} \notin groups
    /\ \A g, h \in groups : g # h => g \cap h = {}
    /\ \A e \in edges : \E g \in groups : {e.lhs, e.rhs} \subseteq g
    /\ \A g \in groups : \A part \in (SUBSET g) \ {{}, g} :
          \E e \in edges : (e.lhs \in part) # (e.rhs \in part) /\ e.lhs \in g
=============================================================================
