-------------------------------- MODULE Tree --------------------------------
(***************************************************************************)
(* The tree of named nodes (jumpscale/data/treemanager/treemanager.py).  A *)
(* node that was removed keeps its name, its parent and its children, and  *)
(* whoever holds it may remove it again, or add to what is left of it.     *)
(***************************************************************************)
EXTENDS Integers, Sequences, SequencesExt

CONSTANTS Names,    \* the empty one is among them
          Depth,    \* bound: names in a path
          MaxNodes  \* bound: nodes made

Empty == ""
Root == 0
Missing == MaxNodes + 1
Nodes == 1 .. MaxNodes
Paths == UNION {[1 .. d -> Names] : d \in 1 .. Depth}
TreeAssumption == Empty \in Names /\ Depth \in Nat /\ MaxNodes \in Nat

VARIABLES tree,   \* the nodes, and which of them their parent has as children
          promised \* ghost: the paths that were added and not removed

vars == <<tree, promised>>

TreeType == [made : 0 .. MaxNodes,
             name : [Nodes -> Names],
             parent : [Nodes -> {Root} \cup Nodes],
             listed : SUBSET Nodes]

TypeOK == tree \in TreeType /\ promised \subseteq Paths

Init ==
    /\ tree = [made |-> 0, name |-> [n \in Nodes |-> Empty],
               parent |-> [n \in Nodes |-> Root], listed |-> {}]
    /\ promised = {}

-----------------------------------------------------------------------------
(* get_child_by_name and get_by_path                                       *)
Child(t, q, x) ==
    LET found == {n \in t.listed : t.parent[n] = q /\ t.name[n] = x}
    IN IF found = {} THEN Missing ELSE CHOOSE n \in found : TRUE

GetByPath(t, p) ==
    LET at[i \in 0 .. Len(p)] ==
          IF i = 0 THEN Root
          ELSE LET q == at[i - 1] IN IF q = Missing THEN Missing ELSE Child(t, q, p[i])
    IN at[Len(p)]

(* get_path: a node without a name answers as the root does.               *)
Ancestors(t, n) ==
    LET up[q \in {Root} \cup Nodes] ==
          IF q = Root THEN <<>> ELSE Append(up[t.parent[q]], q)
    IN up[n]
GetPath(t, n) ==
    LET above == Ancestors(t, n)
        unnamed == {i \in DOMAIN above : t.name[above[i]] = Empty}
        from == IF unnamed = {} THEN 0
                ELSE CHOOSE i \in unnamed : \A k \in unnamed : k <= i
    IN [i \in 1 .. Len(above) - from |-> t.name[above[from + i]]]

(* search_custom from the root: every node below it that has a name        *)
Below(t) == {n \in Nodes : n <= t.made /\ ToSet(Ancestors(t, n)) \subseteq t.listed}
Found(t) == {n \in Below(t) : t.name[n] # Empty}

-----------------------------------------------------------------------------
(* One more node below q, by the constructor and add_child.                *)
Grown(t, q, x) ==
    [made |-> t.made + 1,
     name |-> [t.name EXCEPT ![t.made + 1] = x],
     parent |-> [t.parent EXCEPT ![t.made + 1] = q],
     listed |-> t.listed \cup {t.made + 1}]

\* Mutant: add_child replaces the child that has the name.
Added_Twice(w, x) ==
    IF w.t.made < MaxNodes THEN [w EXCEPT !.t = Grown(w.t, w.q, x)]
    ELSE [w EXCEPT !.full = TRUE]
Added(w, x) ==
    IF Child(w.t, w.q, x) # Missing THEN [w EXCEPT !.raised = TRUE]
    ELSE IF w.t.made < MaxNodes THEN [w EXCEPT !.t = Grown(w.t, w.q, x)]
    ELSE [w EXCEPT !.full = TRUE]

(* One round of the loop over the names before the last.                   *)
Walked(w, x) ==
    LET next == Child(w.t, w.q, x)
        made == Added(w, x)
    IN IF w.raised \/ w.full THEN w
       ELSE IF x = Empty THEN [w EXCEPT !.raised = TRUE]
       ELSE IF next # Missing THEN [w EXCEPT !.q = next]
       ELSE [made EXCEPT !.q = made.t.made]

(* add_node_by_path: what it has made when it raises stays.  The empty     *)
(* name is refused for all but the last.                                   *)
AddNode(p) ==
    LET start == [t |-> tree, q |-> Root, raised |-> FALSE, full |-> FALSE]
        walk[i \in 0 .. Len(p) - 1] == IF i = 0 THEN start ELSE Walked(walk[i - 1], p[i])
        walked == walk[Len(p) - 1]
        end == IF walked.raised \/ walked.full THEN walked ELSE Added(walked, Last(p))
        refused == {i \in 1 .. Len(p) - 1 : p[i] = Empty}
    IN /\ ~end.full
       /\ tree' = end.t
       /\ promised' = promised \cup
            {SubSeq(p, 1, k) : k \in {k \in 1 .. Len(p) : \A i \in refused : k < i}}

(* remove_child goes by the name: of a node that is not there any more it  *)
(* removes the one that has its name now.                                  *)
Without(t, q, x) == [t EXCEPT !.listed = @ \ {Child(t, q, x)}]
Unpromised(p) == promised \ {s \in promised : IsPrefix(p, s)}

RemoveByPath(p) ==
    LET n == GetByPath(tree, p)
    IN /\ n # Missing
       /\ tree' = Without(tree, tree.parent[n], tree.name[n])
       /\ promised' = Unpromised(p)

(* remove_node, with any node that was ever made                           *)
RemoveNode(n) ==
    LET q == tree.parent[n]
    IN /\ n \in 1 .. tree.made
       /\ tree' = Without(tree, q, tree.name[n])
       /\ promised' = IF q = Root \/ q \in Below(tree)
                      THEN Unpromised(Append(GetPath(tree, q), tree.name[n]))
                      ELSE promised

Next ==
    \/ \E p \in Paths : AddNode(p) \/ RemoveByPath(p)
    \/ \E n \in Nodes : RemoveNode(n)

Spec == Init /\ [][Next]_vars

-----------------------------------------------------------------------------
(* The tree is the map of its paths: whatever was added, refused half way, *)
(* removed by path or by a handle that is out of date, the paths that lead *)
(* to a node are those that were added and not removed, each leads to a    *)
(* node of its own, a node with a name is found by the path it gives as    *)
(* its own, and a search finds it.                                         *)
TreeIsItsPaths ==
    LET leads == {p \in Paths : GetByPath(tree, p) # Missing}
    IN /\ leads = promised
       /\ {GetByPath(tree, p) : p \in leads} = Below(tree)
       /\ \A p, s \in leads : GetByPath(tree, p) = GetByPath(tree, s) => p = s
       /\ \A n \in Found(tree) : GetByPath(tree, GetPath(tree, n)) = n
=============================================================================
