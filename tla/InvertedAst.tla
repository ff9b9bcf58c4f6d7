---------------------------- MODULE InvertedAst ----------------------------
(***************************************************************************)
(* The inverted syntax tree of inverted_ast.c, and the edge check of       *)
(* hyperkitty-ast that its graph is meant for.  Nodes are numbered in the  *)
(* order of their allocation.  A tree is only ever built downwards: the    *)
(* code does not look for cycles, which would send every one of its        *)
(* recursions round for ever, so the environment makes none; but nothing   *)
(* keeps a node from being attached in two places.                         *)
(***************************************************************************)
EXTENDS Integers, Sequences

CONSTANTS MaxNodes,   \* bound on allocations
          MaxChildren \* children of a node, 16 in the code
ASSUME AstBounds == MaxNodes \in Nat /\ MaxChildren \in Nat

VARIABLES heap \* per node: its type, its children, its place among them
astVars == <<heap>>

Structural == {"PROGRAM"}      \* stands for the eleven types of weight 1.0
Payload    == {"LITERAL_STR"}  \* stands for the others, of weight 0.0
node_weight(type) == IF type \in Structural THEN 1 ELSE 0

Nodes == DOMAIN heap
Wt(n) == node_weight(heap[n].type)
Kids(n) == {heap[n].children[i] : i \in DOMAIN heap[n].children}
Below(n) ==
  LET below[m \in Nodes] ==
        {m} \cup UNION {below[heap[m].children[i]] : i \in DOMAIN heap[m].children}
  IN below[n]

\* What a loop over a sequence adds to 0, and puts behind a start.
Added(s) == LET upTo[i \in 0 .. Len(s)] == IF i = 0 THEN 0 ELSE upTo[i - 1] + s[i]
            IN upTo[Len(s)]
Chained(start, parts) ==
  LET upTo[i \in 0 .. Len(parts)] == IF i = 0 THEN start ELSE upTo[i - 1] \o parts[i]
  IN upTo[Len(parts)]

AstInit == heap = <<>>
hk_ast_node_alloc(type) ==
  /\ Len(heap) < MaxNodes
  /\ heap' = Append(heap, [type |-> type, children |-> <<>>, parent_idx |-> -1])

\* HK_ERR_INVALID_STATE and HK_ERR_ALLOC leave everything as it was.
\* Mutant: only the number of children is looked at.
X_MayAdopt(p, c) == Len(heap[p].children) < MaxChildren
MayAdopt(p, c) == ~(Wt(p) = 0 /\ Wt(c) = 1) /\ Len(heap[p].children) < MaxChildren
hk_ast_add_child(p, c) ==
  /\ p \notin Below(c) /\ MayAdopt(p, c)
  /\ heap' = [heap EXCEPT ![c].parent_idx = Len(heap[p].children),
                          ![p].children = Append(@, c)]
AstNext == \/ \E type \in Structural \cup Payload : hk_ast_node_alloc(type)
           \/ \E p, c \in Nodes : hk_ast_add_child(p, c)

AstSpec == AstInit /\ [][AstNext]_astVars

\* Weights in tenths: 1.0 between structural nodes, 0.1 down to a payload.
edge_weight(p, c) == CASE Wt(p) = 1 /\ Wt(c) = 1 -> 10
                       [] Wt(p) = 1 /\ Wt(c) = 0 -> 1
                       [] OTHER -> 0
hk_ast_compute_weight(n) ==
  LET total[m \in Nodes] ==
        10 * Wt(m) + Added([i \in DOMAIN heap[m].children |->
           (edge_weight(m, heap[m].children[i]) * total[heap[m].children[i]]) \div 10])
  IN total[n]

\* The graph: the nodes in preorder, once per path that leads to them, and
\* each edge drawn to the first place its child has in that order.
flatten_tree(n) ==
  LET flat[m \in Nodes] ==
        Chained(<<m>>, [i \in DOMAIN heap[m].children |-> flat[heap[m].children[i]]])
  IN flat[n]
FirstPlace(flat, c) == CHOOSE k \in DOMAIN flat : flat[k] = c /\ \A j \in 1 .. k - 1 : flat[j] # c
hk_ast_to_graph(root) ==
  LET flat == flatten_tree(root) IN
  [nodes |-> flat,
   adj |-> [i \in DOMAIN flat |-> [k \in DOMAIN flat |->
     IF \E c \in Kids(flat[i]) : FirstPlace(flat, c) = k
     THEN edge_weight(flat[i], flat[k]) ELSE 0]]]

\* hyperkitty-ast has seven structural types and six payload ones, and weights
\* of its own: 0.5 where its comments say 0.1 and the other way round.  An edge
\* list is invalid when an edge leaves the list or leads from a payload to a
\* structural node.
is_structural(n) == heap[n].type \in Structural
is_payload(n)    == ~is_structural(n)
weight(n)        == IF is_structural(n) THEN 10 ELSE 0
rust_edge_weight(p, c) == CASE is_payload(p) -> 0
                            [] is_structural(p) /\ is_structural(c) -> 1
                            [] OTHER -> 5
has_dangerous_pattern(p, c) == is_payload(p) /\ is_structural(c)
validate(nodes, edges) ==
  \A e \in edges : /\ e[1] \in DOMAIN nodes /\ e[2] \in DOMAIN nodes
                   /\ ~has_dangerous_pattern(nodes[e[1]], nodes[e[2]])

(***************************************************************************)
(* Properties                                                              *)
(***************************************************************************)

\* "Payload cannot propagate routing weight upward": nothing below a payload
\* is structural, however the tree was put together, and the weight of a tree
\* is the number of its structural nodes, counted once per path: the total of
\* the weights the Rust nodes have.
PayloadHasNoAuthority ==
  \A n \in Nodes :
    /\ Wt(n) = 0 => \A m \in Below(n) : Wt(m) = 0
    /\ hk_ast_compute_weight(n) =
         Added([i \in DOMAIN flatten_tree(n) |-> weight(flatten_tree(n)[i])])

\* No node is attached in two places.
AttachedOnce ==
  \A p, q \in Nodes : \A i \in DOMAIN heap[p].children, j \in DOMAIN heap[q].children :
    heap[p].children[i] = heap[q].children[j] => p = q /\ i = j

Edges(g) == {e \in (DOMAIN g.nodes) \X (DOMAIN g.nodes) : g.nodes[e[2]] \in Kids(g.nodes[e[1]])}

\* Place i of a graph is the one parent of place k.
IsParent(g, i, k) ==
  /\ <<i, k>> \in Edges(g) /\ \A j \in DOMAIN g.nodes \ {i} : <<j, k>> \notin Edges(g)
  /\ g.adj[i][k] # 0 <=> rust_edge_weight(g.nodes[i], g.nodes[k]) # 0
  /\ heap[g.nodes[i]].children[heap[g.nodes[k]].parent_idx + 1] = g.nodes[k]

DrawsTheTree(g) ==
  /\ validate(g.nodes, Edges(g))
  /\ \A i, k \in DOMAIN g.nodes : g.adj[i][k] # 0 => <<i, k>> \in Edges(g)
  /\ AttachedOnce => \A k \in DOMAIN g.nodes \ {1} : \E i \in DOMAIN g.nodes : IsParent(g, i, k)

\* Payloads stay below; and the graph handed to the next stage draws each edge
\* between two of its own nodes, passes the Rust validation, and, when no node
\* is attached twice, has one edge into every node but the root, which carries
\* weight exactly when the Rust edge does, much as the two disagree on how
\* much it is.
GraphIsTheTree ==
  PayloadHasNoAuthority /\ \A root \in Nodes : DrawsTheTree(hk_ast_to_graph(root))
=============================================================================
