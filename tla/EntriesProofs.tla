--------------------------- MODULE EntriesProofs ----------------------------
(***************************************************************************)
(* What was put into a configuration stays there: the paths of a tree      *)
(* (data/treemanager), the lists of Syncthing (clients/syncthing) and the  *)
(* records of the gateway (tools/tfgateway), for any number of nodes,      *)
(* entries, records and callers. The tree is the hard one. Its operations  *)
(* go along a path name by name, so the proof speaks of lines: nodes from  *)
(* below the root, each the parent of the next. Names tell the lines that  *)
(* are there apart (SameNames), so a path leads to one node (PathOfLine,   *)
(* LineOfPath); and taking a node out takes the lines through it and no    *)
(* others (CutFacts, CutPath). What is recursive in Tree is a recursive    *)
(* function, shown to exist by taking the smallest number for which there  *)
(* is none (SomeGoes, SomeFollows, SomeWalk).                              *)
(***************************************************************************)
EXTENDS Clients, SequenceTheorems, FoldProofs, TLAPS

-----------------------------------------------------------------------------
(* Tree.                                                                   *)

\* The parents of nodes were there before them, a node has one child of each name, and one
\* without a name has no children.
WellFormed(t) ==
    /\ t \in Tr!TreeType /\ t.listed \subseteq 1 .. t.made
    /\ \A n \in Tr!Nodes : t.parent[n] < n
    /\ \A n, m \in t.listed : t.parent[n] = t.parent[m] /\ t.name[n] = t.name[m] => n = m
    /\ \A n \in 1 .. t.made : t.parent[n] # Tr!Root => t.name[t.parent[n]] # Tr!Empty

\* A line of nodes from below the root, each the parent of the next; its last, its names.
Line(t, s) ==
    /\ s \in Seq(Tr!Nodes)
    /\ \A i \in 1 .. Len(s) : t.parent[s[i]] = IF i = 1 THEN Tr!Root ELSE s[i - 1]
Foot(s) == IF Len(s) = 0 THEN Tr!Root ELSE s[Len(s)]
NamesOf(t, s) == [i \in 1 .. Len(s) |-> t.name[s[i]]]

\* A line whose nodes are all there; and the paths that lead to a node.
Lives(t, s) == Line(t, s) /\ s \in Seq(t.listed)
PathsOf(t) == {p \in Seq(NodeNames) : p # <<>> /\ \E s : Lives(t, s) /\ NamesOf(t, s) = p}

TreeInv == WellFormed(tree) /\ promised = PathsOf(tree) /\ promised \subseteq Tr!Paths

\* The constants of a tree: the root is 0, and no node is missing.
LEMMA TreeConstants ==
  /\ Tr!Empty \in NodeNames /\ Depth \in Nat /\ MaxNodes \in Nat
  /\ Tr!Root = 0 /\ Tr!Missing = MaxNodes + 1 /\ Tr!Nodes = 1 .. MaxNodes
  BY ClientsAssumption DEF ClientsAssumption, Tr!TreeAssumption, Tr!Root, Tr!Missing, Tr!Nodes

\* What is there of a well-formed tree.
LEMMA TreeFacts ==
  ASSUME NEW t, WellFormed(t)
  PROVE  /\ t.made \in 0 .. MaxNodes /\ t.made \in Nat /\ t.listed \subseteq Tr!Nodes
         /\ \A n \in t.listed : n \in 1 .. t.made
         /\ \A n \in Tr!Nodes : /\ n \in Nat /\ n # 0 /\ t.parent[n] \in {0} \cup Tr!Nodes
                                /\ t.parent[n] \in Nat /\ t.parent[n] < n /\ t.name[n] \in NodeNames
         /\ Tr!Missing \notin Tr!Nodes /\ 0 \notin Tr!Nodes
  <1>1. t \in Tr!TreeType /\ t.listed \subseteq 1 .. t.made /\ \A n \in Tr!Nodes : t.parent[n] < n
    BY DEF WellFormed
  <1>2. /\ t.made \in 0 .. MaxNodes /\ t.listed \subseteq Tr!Nodes
        /\ \A n \in Tr!Nodes : t.parent[n] \in {0} \cup Tr!Nodes /\ t.name[n] \in NodeNames
    BY <1>1, TreeConstants DEF Tr!TreeType
  <1>3. \A n \in Tr!Nodes : n \in Nat /\ n # 0
    BY TreeConstants
  <1>4. Tr!Missing \notin Tr!Nodes /\ 0 \notin Tr!Nodes /\ t.made \in Nat
    BY <1>2, TreeConstants
  <1>5. \A n \in Tr!Nodes : t.parent[n] \in Nat
    BY <1>2, <1>3
  <1> QED  BY <1>1, <1>2, <1>3, <1>4, <1>5

-----------------------------------------------------------------------------
(* Sequences: the first of one, and one more.                              *)
LEMMA FirstOf ==
  ASSUME NEW S, NEW s \in Seq(S), NEW k \in 0 .. Len(s)
  PROVE  /\ SubSeq(s, 1, k) \in Seq(S) /\ Len(SubSeq(s, 1, k)) = k
         /\ \A i \in 1 .. k : SubSeq(s, 1, k)[i] = s[i]
  <1>1. Len(s) \in Nat /\ k \in Nat /\ \A i \in 1 .. Len(s) : s[i] \in S
    BY LenProperties, ElementOfSeq
  <1>2. \A i \in 1 .. k : s[i] \in S
    BY <1>1
  <1>3. /\ SubSeq(s, 1, k) \in Seq(S)
        /\ Len(SubSeq(s, 1, k)) = IF 1 <= k THEN k - 1 + 1 ELSE 0
        /\ \A i \in 1 .. k - 1 + 1 : SubSeq(s, 1, k)[i] = s[1 + i - 1]
    BY <1>1, <1>2, SubSeqProperties
  <1> DEFINE w == SubSeq(s, 1, k)
  <1> HIDE DEF w
  <1>4. w \in Seq(S) /\ Len(w) = k
    BY <1>1, <1>3 DEF w
  <1>5. ASSUME NEW i \in 1 .. k PROVE w[i] = s[i]
    <2>1. i \in 1 .. k - 1 + 1 /\ 1 + i - 1 = i
      BY <1>1
    <2> QED  BY <1>3, <2>1 DEF w
  <1> QED  BY <1>4, <1>5 DEF w

\* A sequence with one more at its end.
LEMMA OneMore ==
  ASSUME NEW S, NEW s \in Seq(S), NEW x \in S
  PROVE  /\ Append(s, x) \in Seq(S) /\ Len(Append(s, x)) = Len(s) + 1
         /\ \A i \in 1 .. Len(s) : Append(s, x)[i] = s[i]
         /\ Append(s, x)[Len(s) + 1] = x
         /\ Append(s, x) # <<>> /\ Len(s) \in Nat
         /\ SubSeq(Append(s, x), 1, Len(s)) = s
  <1> DEFINE w == Append(s, x)
  <1>1. /\ w \in Seq(S) /\ Len(w) = Len(s) + 1 /\ Len(s) \in Nat
        /\ \A i \in 1 .. Len(s) : w[i] = s[i]
        /\ w[Len(s) + 1] = x
    OBVIOUS
  <1> HIDE DEF w
  <1>2. w # <<>>
    BY <1>1, EmptySeq
  <1>3. Len(s) \in 0 .. Len(w)
    BY <1>1
  <1>4. /\ SubSeq(w, 1, Len(s)) \in Seq(S) /\ Len(SubSeq(w, 1, Len(s))) = Len(s)
        /\ \A i \in 1 .. Len(s) : SubSeq(w, 1, Len(s))[i] = w[i]
    BY <1>1, <1>3, FirstOf
  <1>5. SubSeq(w, 1, Len(s)) = s
    BY <1>1, <1>4, SeqEqual
  <1> QED  BY <1>1, <1>2, <1>5 DEF w

\* A sequence that is not empty is one more than all but its last.
LEMMA AllButLast ==
  ASSUME NEW S, NEW s \in Seq(S), s # <<>>
  PROVE  LET k == Len(s) - 1
         IN k \in 0 .. Len(s) /\ Len(s) \in 1 .. Len(s) /\ s = Append(SubSeq(s, 1, k), s[Len(s)])
  <1> DEFINE k == Len(s) - 1
             f == SubSeq(s, 1, k)
             w == Append(f, s[Len(s)])
  <1>1. Len(s) \in Nat \ {0} /\ Len(s) \in 1 .. Len(s) /\ s[Len(s)] \in S
    <2>1. Len(s) \in Nat \ {0}
      BY EmptySeq
    <2>2. Len(s) \in 1 .. Len(s)
      BY <2>1
    <2> QED  BY <2>1, <2>2, ElementOfSeq
  <1>2. k \in 0 .. Len(s) /\ k + 1 = Len(s) /\ k \in Nat
    BY <1>1
  <1> HIDE DEF k
  <1>3. f \in Seq(S) /\ Len(f) = k /\ \A i \in 1 .. k : f[i] = s[i]
    BY <1>2, FirstOf
  <1> HIDE DEF f
  <1>4. /\ w \in Seq(S) /\ Len(w) = Len(f) + 1 /\ w[Len(f) + 1] = s[Len(s)]
        /\ \A i \in 1 .. Len(f) : w[i] = f[i]
    BY <1>1, <1>3, OneMore
  <1> HIDE DEF w
  <1>5. Len(s) = Len(w)
    BY <1>2, <1>3, <1>4
  <1>6. ASSUME NEW i \in 1 .. Len(s) PROVE s[i] = w[i]
    <2>1. i \in 1 .. k \/ i = k + 1
      BY <1>2
    <2> QED  BY <1>2, <1>3, <1>4, <2>1
  <1>7. s = w
    BY <1>4, <1>5, <1>6, SeqEqual
  <1> QED  BY <1>1, <1>2, <1>7 DEF w, f, k

-----------------------------------------------------------------------------
(* Lines.                                                                  *)
LEMMA EmptyLine ==
  ASSUME NEW t
  PROVE  Line(t, <<>>) /\ Lives(t, <<>>) /\ Foot(<<>>) = 0 /\ NamesOf(t, <<>>) = <<>>
  <1>1. Len(<<>>) = 0 /\ <<>> \in Seq(Tr!Nodes) /\ <<>> \in Seq(t.listed)
    BY EmptySeq
  <1>2. 1 .. 0 = {}
    OBVIOUS
  <1> QED  BY <1>1, <1>2, TreeConstants DEF Line, Lives, Foot, NamesOf

\* The names of a line are as many as its nodes.
LEMMA NamesFacts ==
  ASSUME NEW t, WellFormed(t), NEW s \in Seq(Tr!Nodes)
  PROVE  /\ NamesOf(t, s) \in Seq(NodeNames) /\ Len(NamesOf(t, s)) = Len(s)
         /\ \A i \in 1 .. Len(s) : NamesOf(t, s)[i] = t.name[s[i]]
         /\ NamesOf(t, s) = <<>> <=> s = <<>>
  <1>1. Len(s) \in Nat /\ \A i \in 1 .. Len(s) : t.name[s[i]] \in NodeNames
    BY TreeFacts, ElementOfSeq, LenProperties
  <1> DEFINE w == NamesOf(t, s)
  <1>2. w \in Seq(NodeNames) /\ Len(w) = Len(s) /\ \A i \in 1 .. Len(s) : w[i] = t.name[s[i]]
    BY <1>1 DEF NamesOf
  <1> HIDE DEF w
  <1>3. w = <<>> <=> s = <<>>
    BY <1>2
  <1> QED  BY <1>2, <1>3 DEF w

\* The beginning of a line is one, and has the beginning of its names.
LEMMA LineBegins ==
  ASSUME NEW t, WellFormed(t), NEW s, Line(t, s), NEW k \in 0 .. Len(s)
  PROVE  LET f == SubSeq(s, 1, k)
         IN /\ Line(t, f) /\ Len(f) = k /\ (Lives(t, s) => Lives(t, f))
            /\ Foot(f) = IF k = 0 THEN 0 ELSE s[k]
            /\ NamesOf(t, f) = SubSeq(NamesOf(t, s), 1, k)
            /\ k < Len(s) => t.parent[s[k + 1]] = Foot(f)
  <1> DEFINE f == SubSeq(s, 1, k)
  <1>1. s \in Seq(Tr!Nodes) /\ Len(s) \in Nat /\ k \in Nat /\ k <= Len(s)
        /\ \A i \in 1 .. Len(s) : t.parent[s[i]] = IF i = 1 THEN 0 ELSE s[i - 1]
    BY TreeConstants DEF Line
  <1>2. f \in Seq(Tr!Nodes) /\ Len(f) = k /\ \A i \in 1 .. k : f[i] = s[i]
    BY <1>1, FirstOf
  <1>3. Lives(t, s) => f \in Seq(t.listed)
    BY FirstOf DEF Lives
  <1> HIDE DEF f
  <1>4. ASSUME NEW i \in 1 .. k PROVE t.parent[f[i]] = IF i = 1 THEN 0 ELSE f[i - 1]
    <2>1. i \in 1 .. Len(s) /\ (i # 1 => i - 1 \in 1 .. k)
      BY <1>1
    <2> QED  BY <1>1, <1>2, <2>1
  <1>5. Line(t, f)
    BY <1>2, <1>4, TreeConstants DEF Line
  <1>6. Foot(f) = IF k = 0 THEN 0 ELSE s[k]
    BY <1>1, <1>2, TreeConstants DEF Foot
  <1>7. k < Len(s) => t.parent[s[k + 1]] = Foot(f)
    <2>1. k < Len(s) => k + 1 \in 1 .. Len(s) /\ (k + 1 = 1 <=> k = 0) /\ (k + 1) - 1 = k
      BY <1>1
    <2> QED  BY <1>1, <1>6, <2>1
  <1>8. NamesOf(t, f) = SubSeq(NamesOf(t, s), 1, k)
    <2> DEFINE u == NamesOf(t, s)
               v == NamesOf(t, f)
    <2>1. /\ u \in Seq(NodeNames) /\ Len(u) = Len(s) /\ \A i \in 1 .. Len(s) : u[i] = t.name[s[i]]
          /\ v \in Seq(NodeNames) /\ Len(v) = k /\ \A i \in 1 .. k : v[i] = t.name[f[i]]
      BY <1>1, <1>2, NamesFacts
    <2> HIDE DEF u, v
    <2>2. /\ SubSeq(u, 1, k) \in Seq(NodeNames) /\ Len(SubSeq(u, 1, k)) = k
          /\ \A i \in 1 .. k : SubSeq(u, 1, k)[i] = u[i]
      BY <2>1, FirstOf
    <2>3. ASSUME NEW i \in 1 .. k PROVE v[i] = SubSeq(u, 1, k)[i]
      <3>1. i \in 1 .. Len(s)
        BY <1>1
      <3> QED  BY <1>2, <2>1, <2>2, <3>1
    <2>4. v = SubSeq(u, 1, k)
      BY <2>1, <2>2, <2>3, SeqEqual
    <2> QED  BY <2>4 DEF u, v
  <1> QED  BY <1>2, <1>3, <1>5, <1>6, <1>7, <1>8 DEF Lives, f

\* A line goes on with a child of its last.
LEMMA LineGoesOn ==
  ASSUME NEW t, WellFormed(t), NEW s, Line(t, s), NEW n \in Tr!Nodes, t.parent[n] = Foot(s)
  PROVE  LET w == Append(s, n)
         IN /\ Line(t, w) /\ Foot(w) = n /\ w # <<>>
            /\ Lives(t, s) /\ n \in t.listed => Lives(t, w)
            /\ NamesOf(t, w) = Append(NamesOf(t, s), t.name[n])
  <1> DEFINE w == Append(s, n)
  <1>1. s \in Seq(Tr!Nodes) /\ Len(s) \in Nat
        /\ \A i \in 1 .. Len(s) : t.parent[s[i]] = IF i = 1 THEN 0 ELSE s[i - 1]
    BY TreeConstants DEF Line
  <1>2. /\ w \in Seq(Tr!Nodes) /\ Len(w) = Len(s) + 1 /\ w[Len(s) + 1] = n /\ w # <<>>
        /\ \A i \in 1 .. Len(s) : w[i] = s[i]
    BY <1>1, OneMore
  <1>3. Lives(t, s) /\ n \in t.listed => w \in Seq(t.listed)
    BY OneMore DEF Lives
  <1> HIDE DEF w
  <1>4. ASSUME NEW i \in 1 .. Len(w) PROVE t.parent[w[i]] = IF i = 1 THEN 0 ELSE w[i - 1]
    <2>1. CASE i \in 1 .. Len(s)
      <3>1. i # 1 => i - 1 \in 1 .. Len(s)
        BY <1>1, <2>1
      <3> QED  BY <1>1, <1>2, <2>1, <3>1
    <2>2. CASE i = Len(s) + 1
      <3>1. i = 1 <=> Len(s) = 0
        BY <1>1, <2>2
      <3>2. i # 1 => i - 1 = Len(s) /\ Len(s) \in 1 .. Len(s)
        BY <1>1, <2>2
      <3> QED  BY <1>1, <1>2, <2>2, <3>1, <3>2, TreeConstants DEF Foot
    <2> QED  BY <1>1, <1>2, <2>1, <2>2
  <1>5. Line(t, w)
    BY <1>2, <1>4, TreeConstants DEF Line
  <1>6. Foot(w) = n
    BY <1>1, <1>2 DEF Foot
  <1>7. NamesOf(t, w) = Append(NamesOf(t, s), t.name[n])
    <2> DEFINE u == NamesOf(t, s)
               v == NamesOf(t, w)
               x == Append(u, t.name[n])
    <2>1. /\ u \in Seq(NodeNames) /\ Len(u) = Len(s) /\ \A i \in 1 .. Len(s) : u[i] = t.name[s[i]]
          /\ v \in Seq(NodeNames) /\ Len(v) = Len(w) /\ \A i \in 1 .. Len(w) : v[i] = t.name[w[i]]
          /\ t.name[n] \in NodeNames
      BY <1>1, <1>2, NamesFacts, TreeFacts
    <2> HIDE DEF u, v
    <2>2. /\ x \in Seq(NodeNames) /\ Len(x) = Len(u) + 1 /\ x[Len(u) + 1] = t.name[n]
          /\ \A i \in 1 .. Len(u) : x[i] = u[i]
      BY <2>1, OneMore
    <2> HIDE DEF x
    <2>3. ASSUME NEW i \in 1 .. Len(v) PROVE v[i] = x[i]
      <3>1. i \in 1 .. Len(w) /\ (i \in 1 .. Len(s) \/ i = Len(s) + 1)
        BY <1>1, <1>2, <2>1
      <3> QED  BY <1>2, <2>1, <2>2, <3>1
    <2>4. v = x
      BY <1>2, <2>1, <2>2, <2>3, SeqEqual
    <2> QED  BY <2>4 DEF u, v, x
  <1> QED  BY <1>2, <1>3, <1>5, <1>6, <1>7 DEF Lives, w

-----------------------------------------------------------------------------
(* Ancestors: by recursion over nodes, whose parents are smaller.          *)

\* What Ancestors takes as its definition, for the nodes up to k.
Goes(t, up, k) ==
    up = [q \in 0 .. k |-> IF q = 0 THEN <<>> ELSE Append(up[t.parent[q]], q)]

\* There is a function with the definition of Ancestors, however many nodes there may be.
LEMMA SomeGoes ==
  ASSUME NEW t, WellFormed(t)
  PROVE  \E up : Goes(t, up, MaxNodes)
  <1> DEFINE G == {k \in Nat : k <= MaxNodes => \E up : Goes(t, up, k)}
  <1>1. 0 \in G
    <2> DEFINE up == [q \in 0 .. 0 |-> <<>>]
    <2>1. Goes(t, up, 0)
      BY DEF Goes
    <2> QED  BY <2>1
  <1>2. ASSUME NEW k \in Nat, k \in G PROVE k + 1 \in G
    <2> SUFFICES ASSUME k + 1 <= MaxNodes PROVE \E up : Goes(t, up, k + 1)
      OBVIOUS
    <2>1. k <= MaxNodes
      BY TreeConstants
    <2>2. PICK up : Goes(t, up, k)
      BY <1>2, <2>1
    <2> DEFINE new == [q \in 0 .. k + 1 |-> IF q = 0 THEN <<>> ELSE Append(up[t.parent[q]], q)]
    <2>3. \A q \in 0 .. k : up[q] = IF q = 0 THEN <<>> ELSE Append(up[t.parent[q]], q)
      BY <2>2 DEF Goes
    <2>4. \A q \in 0 .. k : q \in 0 .. k + 1 /\ new[q] = up[q]
      BY <2>3
    <2>5. \A q \in 0 .. k + 1 : q # 0 => t.parent[q] \in 0 .. k
      <3>1. \A q \in 0 .. k + 1 : q # 0 => q \in Tr!Nodes
        BY <2>1, TreeConstants
      <3> QED  BY <3>1, TreeFacts
    <2>6. new = [q \in 0 .. k + 1 |-> IF q = 0 THEN <<>> ELSE Append(new[t.parent[q]], q)]
      <3>1. \A q \in 0 .. k + 1 : q # 0 => new[t.parent[q]] = up[t.parent[q]]
        BY <2>4, <2>5
      <3>2. \A q \in 0 .. k + 1 : new[q] = IF q = 0 THEN <<>> ELSE Append(new[t.parent[q]], q)
        BY <3>1
      <3>3. new = [q \in 0 .. k + 1 |-> new[q]]
        OBVIOUS
      <3> HIDE DEF new
      <3> QED  BY <3>2, <3>3
    <2>7. Goes(t, new, k + 1)
      <3> HIDE DEF new
      <3> QED  BY <2>6 DEF Goes
    <2> QED  BY <2>7, Zenon
  <1>3. MaxNodes \in G
    BY <1>1, <1>2, EveryNumber, TreeConstants
  <1> QED  BY <1>3, TreeConstants

\* The ancestors of a node are those of its parent and itself.
LEMMA AncestorsGo ==
  ASSUME NEW t, WellFormed(t)
  PROVE  /\ Tr!Ancestors(t, 0) = <<>>
         /\ \A n \in Tr!Nodes : Tr!Ancestors(t, n) = Append(Tr!Ancestors(t, t.parent[n]), n)
  <1> DEFINE up == CHOOSE up : Goes(t, up, MaxNodes)
  <1>1. Goes(t, up, MaxNodes)
    BY SomeGoes, Zenon
  <1>2. {0} \cup Tr!Nodes = 0 .. MaxNodes
    BY TreeConstants
  <1>3. \A n : Tr!Ancestors(t, n) = up[n]
    BY <1>2, TreeConstants DEF Tr!Ancestors, Goes
  <1> HIDE DEF up
  <1>4. \A q \in 0 .. MaxNodes : up[q] = IF q = 0 THEN <<>> ELSE Append(up[t.parent[q]], q)
    BY <1>1 DEF Goes
  <1>5. 0 \in 0 .. MaxNodes /\ \A n \in Tr!Nodes : n \in 0 .. MaxNodes /\ n # 0
    BY TreeConstants
  <1> QED  BY <1>3, <1>4, <1>5

\* They are a line that ends with the node; and any line is of the ancestors of its last.
LEMMA AncestorsAreLine ==
  ASSUME NEW t, WellFormed(t), NEW n \in {0} \cup Tr!Nodes
  PROVE  Line(t, Tr!Ancestors(t, n)) /\ Foot(Tr!Ancestors(t, n)) = n
  <1> DEFINE Good(m) == Line(t, Tr!Ancestors(t, m)) /\ Foot(Tr!Ancestors(t, m)) = m
             G == {k \in Nat : \A m \in {0} \cup Tr!Nodes : m <= k => Good(m)}
  <1>1. 0 \in G
    <2>1. Good(0)
      BY AncestorsGo, EmptyLine
    <2> HIDE DEF Good
    <2>2. \A m \in {0} \cup Tr!Nodes : m <= 0 => m = 0
      BY TreeConstants
    <2> QED  BY <2>1, <2>2
  <1>2. ASSUME NEW k \in Nat, k \in G PROVE k + 1 \in G
    <2> SUFFICES ASSUME NEW m \in {0} \cup Tr!Nodes, m <= k + 1 PROVE Good(m)
      OBVIOUS
    <2>1. CASE m <= k
      <3> HIDE DEF Good
      <3> QED  BY <1>2, <2>1
    <2>2. CASE m = k + 1
      <3>1. m \in Tr!Nodes /\ t.parent[m] \in {0} \cup Tr!Nodes /\ t.parent[m] <= k
        <4>1. m \in Tr!Nodes
          BY <2>2
        <4> QED  BY <2>2, <4>1, TreeFacts
      <3>2. Good(t.parent[m])
        <4> HIDE DEF Good
        <4> QED  BY <1>2, <3>1
      <3> DEFINE s == Tr!Ancestors(t, t.parent[m])
      <3>3. Line(t, s) /\ t.parent[m] = Foot(s)
        BY <3>2
      <3>4. Tr!Ancestors(t, m) = Append(s, m)
        BY <3>1, AncestorsGo
      <3> HIDE DEF s
      <3>5. Line(t, Append(s, m)) /\ Foot(Append(s, m)) = m
        BY <3>1, <3>3, LineGoesOn
      <3> QED  BY <3>4, <3>5
    <2>3. m \in Nat
      BY TreeConstants
    <2> QED  BY <2>1, <2>2, <2>3
  <1>3. Nat \subseteq G
    <2> HIDE DEF G
    <2> QED  BY <1>1, <1>2, EveryNumber
  <1>4. n \in Nat /\ n <= n
    BY TreeConstants
  <1> HIDE DEF Good
  <1>5. Good(n)
    BY <1>3, <1>4
  <1> QED  BY <1>5 DEF Good

\* A line is the ancestors of its last node.
LEMMA LineIsAncestors ==
  ASSUME NEW t, WellFormed(t), NEW s, Line(t, s)
  PROVE  Tr!Ancestors(t, Foot(s)) = s
  <1> DEFINE begin(k) == SubSeq(s, 1, k)
             G == {k \in Nat : k <= Len(s) => Tr!Ancestors(t, Foot(begin(k))) = begin(k)}
  <1>1. s \in Seq(Tr!Nodes) /\ Len(s) \in Nat /\ \A i \in 1 .. Len(s) : s[i] \in Tr!Nodes
    BY ElementOfSeq, LenProperties DEF Line
  <1>2. 0 \in G
    <2>1. 0 \in 0 .. Len(s)
      BY <1>1
    <2>2. begin(0) \in Seq(Tr!Nodes) /\ Len(begin(0)) = 0 /\ Foot(begin(0)) = 0
      BY <1>1, <2>1, FirstOf, LineBegins
    <2>3. begin(0) = <<>>
      BY <2>2, EmptySeq
    <2> HIDE DEF begin
    <2> QED  BY <2>2, <2>3, AncestorsGo
  <1>3. ASSUME NEW k \in Nat, k \in G PROVE k + 1 \in G
    <2> SUFFICES ASSUME k + 1 <= Len(s)
                 PROVE  Tr!Ancestors(t, Foot(begin(k + 1))) = begin(k + 1)
      OBVIOUS
    <2>1. k \in 0 .. Len(s) /\ k + 1 \in 0 .. Len(s) /\ k < Len(s) /\ k + 1 \in 1 .. Len(s) /\ k + 1 # 0
      BY <1>1
    <2>2. Foot(begin(k + 1)) = s[k + 1] /\ t.parent[s[k + 1]] = Foot(begin(k))
      BY <2>1, LineBegins
    <2>3. Tr!Ancestors(t, Foot(begin(k))) = begin(k)
      BY <1>3, <2>1
    <2>4. s[k + 1] \in Tr!Nodes
      BY <1>1, <2>1
    <2>5. Tr!Ancestors(t, s[k + 1]) = Append(begin(k), s[k + 1])
      <3> HIDE DEF begin
      <3> QED  BY <2>2, <2>3, <2>4, AncestorsGo
    <2>6. begin(k + 1) = Append(begin(k), s[k + 1])
      <3>1. /\ begin(k + 1) \in Seq(Tr!Nodes) /\ Len(begin(k + 1)) = k + 1
            /\ \A i \in 1 .. k + 1 : begin(k + 1)[i] = s[i]
        BY <1>1, <2>1, FirstOf
      <3>2. /\ begin(k) \in Seq(Tr!Nodes) /\ Len(begin(k)) = k
            /\ \A i \in 1 .. k : begin(k)[i] = s[i]
        BY <1>1, <2>1, FirstOf
      <3> HIDE DEF begin
      <3> DEFINE w == Append(begin(k), s[k + 1])
      <3>3. /\ w \in Seq(Tr!Nodes) /\ Len(w) = k + 1 /\ w[k + 1] = s[k + 1]
            /\ \A i \in 1 .. k : w[i] = begin(k)[i]
        BY <2>4, <3>2, OneMore
      <3> HIDE DEF w
      <3>4. ASSUME NEW i \in 1 .. k + 1 PROVE begin(k + 1)[i] = w[i]
        <4>1. i \in 1 .. k \/ i = k + 1
          OBVIOUS
        <4> QED  BY <3>1, <3>2, <3>3, <4>1
      <3>5. begin(k + 1) = w
        BY <3>1, <3>3, <3>4, SeqEqual
      <3> QED  BY <3>5 DEF w
    <2> HIDE DEF begin
    <2> QED  BY <2>2, <2>5, <2>6
  <1>4. Len(s) \in G
    <2> HIDE DEF G
    <2> QED  BY <1>1, <1>2, <1>3, EveryNumber
  <1>5. begin(Len(s)) = s
    BY <1>1, SubSeqFull
  <1> HIDE DEF begin
  <1> QED  BY <1>1, <1>4, <1>5

\* Below the root are the last nodes of the lines that are there.
LEMMA BelowIsFoot ==
  ASSUME NEW t, WellFormed(t)
  PROVE  /\ \A n \in Tr!Below(t) : n \in Tr!Nodes /\ Lives(t, Tr!Ancestors(t, n))
         /\ \A s : Lives(t, s) /\ s # <<>> => Foot(s) \in Tr!Below(t) /\ Foot(s) \in t.listed
  <1>1. ASSUME NEW n \in Tr!Below(t) PROVE n \in Tr!Nodes /\ Lives(t, Tr!Ancestors(t, n))
    <2> DEFINE s == Tr!Ancestors(t, n)
    <2>1. n \in Tr!Nodes /\ Tr!ToSet(s) \subseteq t.listed
      BY DEF Tr!Below
    <2>2. Line(t, s)
      BY <2>1, AncestorsAreLine
    <2> HIDE DEF s
    <2>3. s \in Seq(Tr!Nodes) /\ DOMAIN s = 1 .. Len(s) /\ Len(s) \in Nat /\ s = [i \in 1 .. Len(s) |-> s[i]]
      BY <2>2 DEF Line
    <2>4. \A i \in 1 .. Len(s) : s[i] \in t.listed
      BY <2>1, <2>3 DEF Tr!ToSet
    <2>5. s \in Seq(t.listed)
      BY <2>3, <2>4
    <2> QED  BY <2>1, <2>2, <2>5 DEF Lives, s
  <1>2. ASSUME NEW s, Lives(t, s), s # <<>> PROVE Foot(s) \in Tr!Below(t) /\ Foot(s) \in t.listed
    <2>1. s \in Seq(t.listed) /\ Line(t, s)
      BY <1>2 DEF Lives
    <2>2. DOMAIN s = 1 .. Len(s) /\ Len(s) \in Nat /\ Len(s) # 0 /\ \A i \in 1 .. Len(s) : s[i] \in t.listed
      BY <1>2, <2>1
    <2>3. Tr!ToSet(s) \subseteq t.listed
      BY <2>2 DEF Tr!ToSet
    <2>4. Foot(s) \in t.listed
      BY <2>2 DEF Foot
    <2>5. Foot(s) \in Tr!Nodes /\ Foot(s) <= t.made
      BY <2>4, TreeFacts
    <2>6. Tr!Ancestors(t, Foot(s)) = s
      BY <2>1, LineIsAncestors
    <2> QED  BY <2>3, <2>4, <2>5, <2>6 DEF Tr!Below
  <1> QED  BY <1>1, <1>2

-----------------------------------------------------------------------------
(* Children, and the node at a path.                                       *)
LEMMA ChildFacts ==
  ASSUME NEW t, WellFormed(t), NEW q, NEW x
  PROVE  LET c == Tr!Child(t, q, x)
         IN /\ \/ c = Tr!Missing /\ \A n \in t.listed : ~ (t.parent[n] = q /\ t.name[n] = x)
               \/ c \in t.listed /\ t.parent[c] = q /\ t.name[c] = x
            /\ \A n \in t.listed : t.parent[n] = q /\ t.name[n] = x => c = n
            /\ c # Tr!Missing <=> c \in t.listed
  <1> DEFINE found == {n \in t.listed : t.parent[n] = q /\ t.name[n] = x}
             c == Tr!Child(t, q, x)
  <1>1. c = IF found = {} THEN Tr!Missing ELSE CHOOSE n \in found : TRUE
    BY DEF Tr!Child
  <1>2. \A n \in found, m \in found : n = m
    BY DEF WellFormed
  <1>3. Tr!Missing \notin t.listed
    BY TreeFacts
  <1> HIDE DEF c
  <1>4. CASE found = {}
    <2>1. c = Tr!Missing /\ \A n \in t.listed : ~ (t.parent[n] = q /\ t.name[n] = x)
      BY <1>1, <1>4
    <2> QED  BY <1>3, <2>1 DEF c
  <1>5. CASE found # {}
    <2>1. c \in found
      <3> HIDE DEF found
      <3> QED  BY <1>1, <1>5
    <2>2. \A n \in found : c = n
      BY <1>2, <2>1
    <2> QED  BY <1>3, <2>1, <2>2 DEF c
  <1> QED  BY <1>4, <1>5

\* What GetByPath takes as its definition.
Follows(t, p, at) ==
    at = [i \in 0 .. Len(p) |->
            IF i = 0 THEN 0
            ELSE LET q == at[i - 1] IN IF q = Tr!Missing THEN Tr!Missing ELSE Tr!Child(t, q, p[i])]

\* There is a function with the definition of GetByPath, however long the path.
LEMMA SomeFollows ==
  ASSUME NEW t, NEW p, Len(p) \in Nat
  PROVE  \E at : Follows(t, p, at)
  <1> DEFINE Then(q, i) == IF q = Tr!Missing THEN Tr!Missing ELSE Tr!Child(t, q, p[i])
             Is(at, k) == at = [i \in 0 .. k |-> IF i = 0 THEN 0 ELSE Then(at[i - 1], i)]
             G == {k \in Nat : \E at : Is(at, k)}
  <1> HIDE DEF Then
  <1>1. 0 \in G
    <2> DEFINE at == [i \in 0 .. 0 |-> 0]
    <2>1. Is(at, 0)
      OBVIOUS
    <2> QED  BY <2>1
  <1>2. ASSUME NEW k \in Nat, k \in G PROVE k + 1 \in G
    <2>1. PICK at : Is(at, k)
      BY <1>2
    <2> DEFINE new == [i \in 0 .. k + 1 |-> IF i = 0 THEN 0 ELSE Then(at[i - 1], i)]
    <2>2. \A i \in 0 .. k : at[i] = IF i = 0 THEN 0 ELSE Then(at[i - 1], i)
      BY <2>1
    <2>3. \A i \in 0 .. k : new[i] = at[i]
      BY <2>2
    <2>4. \A i \in 0 .. k + 1 : i # 0 => new[i - 1] = at[i - 1]
      <3>1. \A i \in 0 .. k + 1 : i # 0 => i - 1 \in 0 .. k
        OBVIOUS
      <3> HIDE DEF new
      <3> QED  BY <2>3, <3>1
    <2>5. Is(new, k + 1)
      <3>1. \A i \in 0 .. k + 1 : new[i] = IF i = 0 THEN 0 ELSE Then(new[i - 1], i)
        BY <2>4
      <3>2. new = [i \in 0 .. k + 1 |-> new[i]]
        OBVIOUS
      <3> HIDE DEF new
      <3> QED  BY <3>1, <3>2
    <2> HIDE DEF Is, new
    <2>6. \E a : Is(a, k + 1)
      BY <2>5
    <2> QED  BY <2>6
  <1>3. Len(p) \in G
    <2> HIDE DEF G
    <2> QED  BY <1>1, <1>2, EveryNumber
  <1> QED  BY <1>3 DEF Follows, Then

\* GetByPath goes from child to child by the names of the path.
LEMMA PathFollows ==
  ASSUME NEW t, NEW p, Len(p) \in Nat
  PROVE  \E at : /\ Tr!GetByPath(t, p) = at[Len(p)] /\ at[0] = 0
                 /\ \A i \in 1 .. Len(p) :
                      at[i] = IF at[i - 1] = Tr!Missing THEN Tr!Missing
                              ELSE Tr!Child(t, at[i - 1], p[i])
  <1> DEFINE at == CHOOSE at : Follows(t, p, at)
  <1>1. Follows(t, p, at)
    BY SomeFollows, Zenon
  <1>2. Tr!GetByPath(t, p) = at[Len(p)]
    BY TreeConstants DEF Tr!GetByPath, Follows
  <1> HIDE DEF at
  <1>3. \A i \in 0 .. Len(p) : at[i] = IF i = 0 THEN 0
            ELSE IF at[i - 1] = Tr!Missing THEN Tr!Missing ELSE Tr!Child(t, at[i - 1], p[i])
    BY <1>1 DEF Follows
  <1>4. \A i \in 1 .. Len(p) : i \in 0 .. Len(p) /\ i # 0
    OBVIOUS
  <1>5. 0 \in 0 .. Len(p)
    OBVIOUS
  <1> QED  BY <1>2, <1>3, <1>4, <1>5

\* The beginning of a sequence, and one more of it.
LEMMA BeginsOn ==
  ASSUME NEW S, NEW s \in Seq(S), NEW k \in Nat, k + 1 <= Len(s)
  PROVE  SubSeq(s, 1, k + 1) = Append(SubSeq(s, 1, k), s[k + 1])
  <1> DEFINE a == SubSeq(s, 1, k)
             b == SubSeq(s, 1, k + 1)
             w == Append(a, s[k + 1])
  <1>1. Len(s) \in Nat /\ k \in 0 .. Len(s) /\ k + 1 \in 0 .. Len(s) /\ k + 1 \in 1 .. Len(s)
    BY LenProperties
  <1>2. s[k + 1] \in S
    BY <1>1, ElementOfSeq
  <1>3. b \in Seq(S) /\ Len(b) = k + 1 /\ \A i \in 1 .. k + 1 : b[i] = s[i]
    BY <1>1, FirstOf
  <1>4. a \in Seq(S) /\ Len(a) = k /\ \A i \in 1 .. k : a[i] = s[i]
    BY <1>1, FirstOf
  <1> HIDE DEF a, b
  <1>5. /\ w \in Seq(S) /\ Len(w) = k + 1 /\ w[k + 1] = s[k + 1]
        /\ \A i \in 1 .. k : w[i] = a[i]
    BY <1>2, <1>4, OneMore
  <1> HIDE DEF w
  <1>6. ASSUME NEW i \in 1 .. k + 1 PROVE b[i] = w[i]
    <2>1. i \in 1 .. k \/ i = k + 1
      OBVIOUS
    <2> QED  BY <1>3, <1>4, <1>5, <2>1
  <1>7. b = w
    BY <1>3, <1>5, <1>6, SeqEqual
  <1> QED  BY <1>7 DEF a, b, w

\* Lines that are there begin alike as far as their names do.
LEMMA AlikeByName ==
  ASSUME NEW t, WellFormed(t), NEW s, NEW u, Lives(t, s), Lives(t, u),
         NEW k \in Nat, k <= Len(s), k <= Len(u),
         \A i \in 1 .. k : NamesOf(t, s)[i] = NamesOf(t, u)[i]
  PROVE  \A i \in 1 .. k : s[i] = u[i]
  <1>1. /\ s \in Seq(Tr!Nodes) /\ Len(s) \in Nat /\ u \in Seq(Tr!Nodes) /\ Len(u) \in Nat
        /\ \A i \in 1 .. Len(s) : s[i] \in t.listed /\ t.parent[s[i]] = IF i = 1 THEN 0 ELSE s[i - 1]
        /\ \A i \in 1 .. Len(u) : u[i] \in t.listed /\ t.parent[u[i]] = IF i = 1 THEN 0 ELSE u[i - 1]
    BY ElementOfSeq, LenProperties, TreeConstants DEF Lives, Line
  <1>2. \A i \in 1 .. k : t.name[s[i]] = t.name[u[i]] /\ i \in 1 .. Len(s) /\ i \in 1 .. Len(u)
    <2>1. \A i \in 1 .. k : i \in 1 .. Len(s) /\ i \in 1 .. Len(u)
      BY <1>1
    <2> QED  BY <1>1, <2>1, NamesFacts
  <1> DEFINE G == {j \in Nat : j <= k => \A i \in 1 .. j : s[i] = u[i]}
  <1>3. 0 \in G
    OBVIOUS
  <1>4. ASSUME NEW j \in Nat, j \in G PROVE j + 1 \in G
    <2> SUFFICES ASSUME j + 1 <= k, NEW i \in 1 .. j + 1 PROVE s[i] = u[i]
      OBVIOUS
    <2>1. \A h \in 1 .. j : s[h] = u[h]
      BY <1>4
    <2>2. CASE i \in 1 .. j
      BY <2>1, <2>2
    <2>3. CASE i = j + 1
      <3>1. i \in 1 .. k /\ i \in 1 .. Len(s) /\ i \in 1 .. Len(u)
        BY <1>1, <2>3
      <3>2. t.parent[s[i]] = t.parent[u[i]]
        <4>1. i # 1 => s[i - 1] = u[i - 1]
          BY <2>1, <2>3
        <4> QED  BY <1>1, <3>1, <4>1
      <3>3. s[i] \in t.listed /\ u[i] \in t.listed /\ t.name[s[i]] = t.name[u[i]]
        BY <1>1, <1>2, <3>1
      <3> QED  BY <3>2, <3>3 DEF WellFormed
    <2>4. i \in 1 .. j \/ i = j + 1
      OBVIOUS
    <2> QED  BY <2>2, <2>3, <2>4
  <1>5. k \in G
    <2> HIDE DEF G
    <2> QED  BY <1>3, <1>4, EveryNumber
  <1> QED  BY <1>5

\* A line with the names that another begins with is the beginning of it.
LEMMA NamedBegin ==
  ASSUME NEW t, WellFormed(t), NEW s, NEW u, Lives(t, s), Lives(t, u),
         Len(s) <= Len(u), NamesOf(t, s) = SubSeq(NamesOf(t, u), 1, Len(s))
  PROVE  s = SubSeq(u, 1, Len(s))
  <1> DEFINE k == Len(s)
             f == SubSeq(u, 1, k)
  <1>1. s \in Seq(Tr!Nodes) /\ k \in Nat /\ u \in Seq(Tr!Nodes) /\ Len(u) \in Nat /\ k \in 0 .. Len(u)
    BY LenProperties DEF Lives, Line
  <1> HIDE DEF k
  <1>2. /\ f \in Seq(Tr!Nodes) /\ Len(f) = k /\ \A i \in 1 .. k : f[i] = u[i]
    BY <1>1, FirstOf
  <1>3. Lives(t, f) /\ NamesOf(t, f) = NamesOf(t, s)
    <2>1. Line(t, u)
      BY DEF Lives
    <2> QED  BY <1>1, <2>1, LineBegins DEF k
  <1> HIDE DEF f
  <1>4. k <= Len(s) /\ k <= Len(f)
    BY <1>1, <1>2 DEF k
  <1>5. \A i \in 1 .. k : s[i] = f[i]
    <2>1. \A i \in 1 .. k : NamesOf(t, s)[i] = NamesOf(t, f)[i]
      BY <1>3
    <2>2. k \in Nat
      BY <1>1
    <2> QED  BY <1>3, <1>4, <2>1, <2>2, AlikeByName
  <1>6. s = f
    BY <1>1, <1>2, <1>5, SeqEqual DEF k
  <1> QED  BY <1>6 DEF f, k

\* Lines that are there and have the same names are the same.
LEMMA SameNames ==
  ASSUME NEW t, WellFormed(t), NEW s, NEW u, Lives(t, s), Lives(t, u),
         NamesOf(t, s) = NamesOf(t, u)
  PROVE  s = u
  <1>1. s \in Seq(Tr!Nodes) /\ u \in Seq(Tr!Nodes)
    BY DEF Lives, Line
  <1>2. Len(s) = Len(u) /\ NamesOf(t, u) \in Seq(NodeNames) /\ Len(NamesOf(t, u)) = Len(u) /\ Len(u) \in Nat
    BY <1>1, NamesFacts, LenProperties
  <1>3. NamesOf(t, s) = SubSeq(NamesOf(t, u), 1, Len(s)) /\ SubSeq(u, 1, Len(s)) = u
    BY <1>1, <1>2, SubSeqFull
  <1>4. Len(s) <= Len(u)
    BY <1>2
  <1> QED  BY <1>3, <1>4, NamedBegin

\* A path leads to the last of the line that has its names, and to none if no line has.
LEMMA PathOfLine ==
  ASSUME NEW t, WellFormed(t), NEW s, Lives(t, s)
  PROVE  Tr!GetByPath(t, NamesOf(t, s)) = Foot(s)
  <1> DEFINE p == NamesOf(t, s)
  <1>1. /\ s \in Seq(Tr!Nodes) /\ Len(s) \in Nat
        /\ \A i \in 1 .. Len(s) : s[i] \in t.listed /\ t.parent[s[i]] = IF i = 1 THEN 0 ELSE s[i - 1]
    BY ElementOfSeq, LenProperties, TreeConstants DEF Lives, Line
  <1>2. Len(p) = Len(s) /\ \A i \in 1 .. Len(s) : p[i] = t.name[s[i]]
    BY <1>1, NamesFacts
  <1>8. Len(p) \in Nat
    BY <1>1, <1>2
  <1> HIDE DEF p
  <1>3. PICK at : /\ Tr!GetByPath(t, p) = at[Len(p)] /\ at[0] = 0
                  /\ \A i \in 1 .. Len(p) :
                       at[i] = IF at[i - 1] = Tr!Missing THEN Tr!Missing
                               ELSE Tr!Child(t, at[i - 1], p[i])
    BY <1>8, PathFollows
  <1> DEFINE G == {k \in Nat : k <= Len(s) => at[k] = IF k = 0 THEN 0 ELSE s[k]}
  <1>4. 0 \in G
    BY <1>3
  <1>5. ASSUME NEW k \in Nat, k \in G PROVE k + 1 \in G
    <2> SUFFICES ASSUME k + 1 <= Len(s) PROVE at[k + 1] = s[k + 1]
      OBVIOUS
    <2> DEFINE n == s[k + 1]
               q == at[k]
    <2>1. k + 1 \in 1 .. Len(s) /\ k <= Len(s) /\ (k + 1) - 1 = k /\ (k # 0 => k \in 1 .. Len(s))
      BY <1>1
    <2>2. q = IF k = 0 THEN 0 ELSE s[k]
      BY <1>5, <2>1
    <2>3. n \in t.listed /\ t.parent[n] = q /\ t.name[n] = p[k + 1]
      <3>1. k + 1 = 1 <=> k = 0
        OBVIOUS
      <3> QED  BY <1>1, <1>2, <2>1, <2>2, <3>1
    <2>4. q # Tr!Missing
      BY <1>1, <2>1, <2>2, TreeFacts, TreeConstants
    <2>5. at[k + 1] = Tr!Child(t, q, p[k + 1])
      BY <1>2, <1>3, <2>1, <2>4
    <2> HIDE DEF n, q
    <2>6. Tr!Child(t, q, p[k + 1]) = n
      BY <2>3, ChildFacts
    <2> QED  BY <2>5, <2>6 DEF n
  <1>6. Len(s) \in G
    <2> HIDE DEF G
    <2> QED  BY <1>1, <1>4, <1>5, EveryNumber
  <1>7. at[Len(s)] = Foot(s)
    BY <1>6, TreeConstants DEF Foot
  <1> QED  BY <1>2, <1>3, <1>7 DEF p

\* A path that leads to a node has the names of a line that ends there.
LEMMA LineOfPath ==
  ASSUME NEW t, WellFormed(t), NEW p \in Seq(NodeNames), Tr!GetByPath(t, p) # Tr!Missing
  PROVE  \E s : Lives(t, s) /\ NamesOf(t, s) = p /\ Foot(s) = Tr!GetByPath(t, p)
  <1>1. Len(p) \in Nat
    BY LenProperties
  <1>2. PICK at : /\ Tr!GetByPath(t, p) = at[Len(p)] /\ at[0] = 0
                  /\ \A i \in 1 .. Len(p) :
                       at[i] = IF at[i - 1] = Tr!Missing THEN Tr!Missing
                               ELSE Tr!Child(t, at[i - 1], p[i])
    BY <1>1, PathFollows
  <1> DEFINE Leads(s, k) == Lives(t, s) /\ NamesOf(t, s) = SubSeq(p, 1, k) /\ Foot(s) = at[k]
             G == {k \in Nat : k <= Len(p) /\ at[k] # Tr!Missing => \E s : Leads(s, k)}
  <1>3. 0 \in G
    <2>1. 0 \in 0 .. Len(p)
      BY <1>1
    <2>2. SubSeq(p, 1, 0) \in Seq(NodeNames) /\ Len(SubSeq(p, 1, 0)) = 0
      BY <2>1, FirstOf
    <2>3. SubSeq(p, 1, 0) = <<>>
      BY <2>2, EmptySeq
    <2>4. Leads(<<>>, 0)
      BY <1>2, <2>3, EmptyLine
    <2> HIDE DEF Leads
    <2> QED  BY <2>4
  <1>4. ASSUME NEW k \in Nat, k \in G PROVE k + 1 \in G
    <2> SUFFICES ASSUME k + 1 <= Len(p), at[k + 1] # Tr!Missing PROVE \E s : Leads(s, k + 1)
      OBVIOUS
    <2> DEFINE q == at[k]
               x == p[k + 1]
               n == Tr!Child(t, q, x)
    <2>1. k + 1 \in 1 .. Len(p) /\ k <= Len(p) /\ (k + 1) - 1 = k
      BY <1>1
    <2>2. q # Tr!Missing /\ at[k + 1] = n
      BY <1>2, <2>1
    <2>3. PICK s : Leads(s, k)
      <3> HIDE DEF Leads
      <3> QED  BY <1>4, <2>1, <2>2
    <2>4. n # Tr!Missing
      BY <2>2
    <2> HIDE DEF n, q, x
    <2>5. n \in t.listed /\ t.parent[n] = q /\ t.name[n] = x
      BY <2>4, ChildFacts DEF n
    <2>6. n \in Tr!Nodes /\ t.parent[n] = Foot(s) /\ Line(t, s) /\ Lives(t, s)
      BY <2>3, <2>5, TreeFacts DEF q, Lives
    <2> DEFINE w == Append(s, n)
    <2>7. Lives(t, w) /\ Foot(w) = n /\ NamesOf(t, w) = Append(NamesOf(t, s), t.name[n])
      BY <2>5, <2>6, LineGoesOn
    <2> HIDE DEF w
    <2>8. SubSeq(p, 1, k + 1) = Append(SubSeq(p, 1, k), x)
      BY BeginsOn DEF x
    <2>9. Leads(w, k + 1)
      BY <2>2, <2>3, <2>5, <2>7, <2>8
    <2> HIDE DEF Leads
    <2> QED  BY <2>9
  <1>5. Len(p) \in G
    <2> HIDE DEF G
    <2> QED  BY <1>1, <1>3, <1>4, EveryNumber
  <1>6. SubSeq(p, 1, Len(p)) = p
    BY SubSeqFull
  <1> QED  BY <1>1, <1>2, <1>5, <1>6

\* The paths that lead to a node are those GetByPath finds one at.
LEMMA PathsAreFound ==
  ASSUME NEW t, WellFormed(t), NEW p \in Seq(NodeNames), p # <<>>
  PROVE  p \in PathsOf(t) <=> Tr!GetByPath(t, p) # Tr!Missing
  <1>1. ASSUME p \in PathsOf(t) PROVE Tr!GetByPath(t, p) # Tr!Missing
    <2>1. PICK s : Lives(t, s) /\ NamesOf(t, s) = p
      BY <1>1 DEF PathsOf
    <2>2. s # <<>>
      BY <2>1, EmptyLine
    <2>3. Tr!GetByPath(t, p) = Foot(s) /\ Foot(s) \in t.listed
      BY <2>1, <2>2, PathOfLine, BelowIsFoot
    <2> QED  BY <2>3, TreeFacts
  <1>2. ASSUME Tr!GetByPath(t, p) # Tr!Missing PROVE p \in PathsOf(t)
    BY <1>2, LineOfPath DEF PathsOf
  <1> QED  BY <1>1, <1>2

\* The path a node gives as its own has the names of its line, unless one has none.
LEMMA OwnPath ==
  ASSUME NEW t, WellFormed(t), NEW s, Lives(t, s), s # <<>> => t.name[Foot(s)] # Tr!Empty
  PROVE  Tr!GetPath(t, Foot(s)) = NamesOf(t, s)
  <1> DEFINE above == Tr!Ancestors(t, Foot(s))
  <1>1. above = s
    BY LineIsAncestors DEF Lives
  <1>2. /\ s \in Seq(Tr!Nodes) /\ Len(s) \in Nat /\ DOMAIN s = 1 .. Len(s)
        /\ \A i \in 1 .. Len(s) : s[i] \in t.listed /\ t.parent[s[i]] = IF i = 1 THEN 0 ELSE s[i - 1]
    BY ElementOfSeq, LenProperties, TreeConstants DEF Lives, Line
  <1>3. ASSUME NEW i \in 1 .. Len(s) PROVE t.name[s[i]] # Tr!Empty
    <2>1. CASE i = Len(s)
      <3>1. s # <<>> /\ Foot(s) = s[i]
        BY <1>2, <2>1 DEF Foot
      <3> QED  BY <3>1
    <2>2. CASE i < Len(s)
      <3>1. i + 1 \in 1 .. Len(s) /\ i + 1 # 1 /\ (i + 1) - 1 = i
        BY <1>2, <2>2
      <3>2. s[i + 1] \in 1 .. t.made /\ t.parent[s[i + 1]] = s[i] /\ s[i] # 0
        BY <1>2, <3>1, TreeFacts
      <3> QED  BY <3>2, TreeConstants DEF WellFormed
    <2>3. i = Len(s) \/ i < Len(s)
      <3>1. Len(s) \in Nat
        BY <1>2
      <3> QED  BY <3>1
    <2> QED  BY <2>1, <2>2, <2>3
  <1> DEFINE unnamed == {i \in DOMAIN above : t.name[above[i]] = Tr!Empty}
  <1>4. unnamed = {}
    BY <1>1, <1>2, <1>3
  <1>5. Tr!GetPath(t, Foot(s)) = [i \in 1 .. Len(above) - 0 |-> t.name[above[0 + i]]]
    <2> HIDE DEF above
    <2> QED  BY <1>4 DEF Tr!GetPath, above
  <1> HIDE DEF above, unnamed
  <1>6. Len(s) - 0 = Len(s) /\ \A i \in 1 .. Len(s) : 0 + i = i
    BY <1>2
  <1> QED  BY <1>1, <1>5, <1>6 DEF NamesOf

\* A path has names, and at least one.
LEMMA PathsAreSequences == \A p \in Tr!Paths : p \in Seq(NodeNames) /\ p # <<>>
  <1> SUFFICES ASSUME NEW p \in Tr!Paths PROVE p \in Seq(NodeNames) /\ p # <<>>
    OBVIOUS
  <1>1. PICK d \in 1 .. Depth : p \in [1 .. d -> NodeNames]
    BY DEF Tr!Paths
  <1>2. d \in Nat /\ d # 0
    BY <1>1, TreeConstants
  <1>3. p \in Seq(NodeNames) /\ Len(p) = d
    BY <1>1, <1>2
  <1> QED  BY <1>2, <1>3

\* A tree as the invariant has it is what its paths say, and typed.
LEMMA TreePaths == TreeInv => Tr!TypeOK /\ Tr!TreeIsItsPaths
  <1> SUFFICES ASSUME TreeInv PROVE Tr!TypeOK /\ Tr!TreeIsItsPaths
    OBVIOUS
  <1>1. WellFormed(tree) /\ promised = PathsOf(tree) /\ promised \subseteq Tr!Paths
    BY DEF TreeInv
  <1>2. Tr!TypeOK
    BY <1>1 DEF Tr!TypeOK, WellFormed
  <1> DEFINE leads == {p \in Tr!Paths : Tr!GetByPath(tree, p) # Tr!Missing}
  <1>3. leads = promised
    BY <1>1, PathsAreSequences, PathsAreFound
  <1>4. ASSUME NEW p \in leads
        PROVE  \E s : Lives(tree, s) /\ NamesOf(tree, s) = p /\ s # <<>> /\ Foot(s) = Tr!GetByPath(tree, p)
    <2>1. p \in Seq(NodeNames) /\ p # <<>> /\ Tr!GetByPath(tree, p) # Tr!Missing
      BY PathsAreSequences
    <2>2. PICK s : Lives(tree, s) /\ NamesOf(tree, s) = p /\ Foot(s) = Tr!GetByPath(tree, p)
      BY <1>1, <2>1, LineOfPath
    <2>3. s # <<>>
      BY <2>1, <2>2, EmptyLine
    <2> QED  BY <2>2, <2>3
  <1>5. ASSUME NEW n \in Tr!Below(tree)
        PROVE  \E s : Lives(tree, s) /\ s # <<>> /\ Foot(s) = n
                      /\ NamesOf(tree, s) \in leads /\ Tr!GetByPath(tree, NamesOf(tree, s)) = n
    <2> DEFINE s == Tr!Ancestors(tree, n)
    <2>1. n \in Tr!Nodes /\ Lives(tree, s)
      BY <1>1, BelowIsFoot
    <2>2. Foot(s) = n
      BY <1>1, <2>1, AncestorsAreLine
    <2>3. n # 0
      BY <2>1, TreeConstants
    <2> HIDE DEF s
    <2>4. s # <<>> /\ s \in Seq(Tr!Nodes)
      BY <2>1, <2>2, <2>3, EmptyLine DEF Lives, Line
    <2>5. NamesOf(tree, s) \in Seq(NodeNames) /\ NamesOf(tree, s) # <<>>
      BY <1>1, <2>4, NamesFacts
    <2>6. NamesOf(tree, s) \in PathsOf(tree)
      BY <2>1, <2>5 DEF PathsOf
    <2>7. Tr!GetByPath(tree, NamesOf(tree, s)) = n
      BY <1>1, <2>1, <2>2, PathOfLine
    <2> QED  BY <1>1, <1>3, <2>1, <2>2, <2>4, <2>6, <2>7
  <1> HIDE DEF leads
  <1>6. {Tr!GetByPath(tree, p) : p \in leads} = Tr!Below(tree)
    <2>1. ASSUME NEW p \in leads PROVE Tr!GetByPath(tree, p) \in Tr!Below(tree)
      BY <1>1, <1>4, BelowIsFoot
    <2>2. ASSUME NEW n \in Tr!Below(tree) PROVE \E p \in leads : n = Tr!GetByPath(tree, p)
      BY <1>5
    <2> QED  BY <2>1, <2>2
  <1>7. ASSUME NEW p \in leads, NEW r \in leads, Tr!GetByPath(tree, p) = Tr!GetByPath(tree, r)
        PROVE  p = r
    <2>1. PICK s : Lives(tree, s) /\ NamesOf(tree, s) = p /\ Foot(s) = Tr!GetByPath(tree, p)
      BY <1>4
    <2>2. PICK u : Lives(tree, u) /\ NamesOf(tree, u) = r /\ Foot(u) = Tr!GetByPath(tree, r)
      BY <1>4
    <2>3. s = Tr!Ancestors(tree, Foot(s)) /\ u = Tr!Ancestors(tree, Foot(u))
      BY <1>1, <2>1, <2>2, LineIsAncestors DEF Lives
    <2> QED  BY <1>7, <2>1, <2>2, <2>3
  <1>8. ASSUME NEW n \in Tr!Found(tree) PROVE Tr!GetByPath(tree, Tr!GetPath(tree, n)) = n
    <2>1. n \in Tr!Below(tree) /\ tree.name[n] # Tr!Empty
      BY DEF Tr!Found
    <2>2. PICK s : /\ Lives(tree, s) /\ s # <<>> /\ Foot(s) = n
                   /\ Tr!GetByPath(tree, NamesOf(tree, s)) = n
      BY <1>5, <2>1
    <2>3. Tr!GetPath(tree, n) = NamesOf(tree, s)
      BY <1>1, <2>1, <2>2, OwnPath
    <2> QED  BY <2>2, <2>3
  <1>9. Tr!TreeIsItsPaths
    BY <1>3, <1>6, <1>7, <1>8, Zenon DEF Tr!TreeIsItsPaths, leads
  <1> QED  BY <1>2, <1>9

-----------------------------------------------------------------------------
(* Taking a node out.                                                      *)
Cut(t, c) == [t EXCEPT !.listed = @ \ {c}]

\* A tree without one node is well-formed, with the lines that do without it.
LEMMA CutFacts ==
  ASSUME NEW t, WellFormed(t), NEW c
  PROVE  /\ WellFormed(Cut(t, c))
         /\ \A s : /\ Lives(Cut(t, c), s) <=> Lives(t, s) /\ \A i \in 1 .. Len(s) : s[i] # c
                   /\ NamesOf(Cut(t, c), s) = NamesOf(t, s)
  <1> DEFINE u == Cut(t, c)
  <1>1. t \in Tr!TreeType
    BY DEF WellFormed
  <1>2. /\ u.made = t.made /\ u.name = t.name /\ u.parent = t.parent
        /\ u.listed = t.listed \ {c} /\ u \in Tr!TreeType
    BY <1>1 DEF Cut, Tr!TreeType
  <1> HIDE DEF u
  <1>3. WellFormed(u)
    BY <1>2 DEF WellFormed
  <1>4. ASSUME NEW s
        PROVE  /\ Lives(u, s) <=> Lives(t, s) /\ \A i \in 1 .. Len(s) : s[i] # c
               /\ NamesOf(u, s) = NamesOf(t, s)
    <2>1. NamesOf(u, s) = NamesOf(t, s) /\ (Line(u, s) <=> Line(t, s))
      BY <1>2 DEF NamesOf, Line
    <2>2. ASSUME Lives(u, s) PROVE Lives(t, s) /\ \A i \in 1 .. Len(s) : s[i] # c
      <3>1. s \in Seq(t.listed \ {c}) /\ t.listed \ {c} \subseteq t.listed
        BY <1>2, <2>2 DEF Lives
      <3>2. s \in Seq(t.listed) /\ \A i \in 1 .. Len(s) : s[i] \in t.listed \ {c}
        BY <3>1, SeqMonotonic, ElementOfSeq
      <3> QED  BY <2>1, <2>2, <3>2 DEF Lives
    <2>3. ASSUME Lives(t, s), \A i \in 1 .. Len(s) : s[i] # c PROVE Lives(u, s)
      <3>1. s \in Seq(t.listed)
        BY <2>3 DEF Lives
      <3>2. Len(s) \in Nat /\ s = [i \in 1 .. Len(s) |-> s[i]] /\ \A i \in 1 .. Len(s) : s[i] \in t.listed \ {c}
        BY <2>3, <3>1
      <3>3. s \in Seq(t.listed \ {c})
        BY <3>2
      <3> QED  BY <1>2, <2>1, <2>3, <3>3 DEF Lives
    <2> QED  BY <2>1, <2>2, <2>3
  <1> QED  BY <1>3, <1>4 DEF u

\* A node that no line has is not missed.
LEMMA CutNothing ==
  ASSUME NEW t, WellFormed(t), NEW c, \A s : Lives(t, s) => \A i \in 1 .. Len(s) : s[i] # c
  PROVE  PathsOf(Cut(t, c)) = PathsOf(t)
  BY CutFacts DEF PathsOf

\* With a node go the paths that begin with its own.
LEMMA CutPath ==
  ASSUME NEW t, WellFormed(t), NEW s, Lives(t, s), s # <<>>
  PROVE  PathsOf(Cut(t, Foot(s))) = {r \in PathsOf(t) : ~ Tr!IsPrefix(NamesOf(t, s), r)}
  <1> DEFINE c == Foot(s)
             p == NamesOf(t, s)
  <1>1. Line(t, s) /\ s \in Seq(Tr!Nodes) /\ Len(s) \in Nat \ {0} /\ s[Len(s)] = c
    <2>1. Line(t, s) /\ s \in Seq(Tr!Nodes)
      BY DEF Lives, Line
    <2>2. Len(s) \in Nat \ {0}
      BY <2>1, EmptySeq
    <2> QED  BY <2>1, <2>2 DEF Foot
  <1>2. p \in Seq(NodeNames) /\ Len(p) = Len(s) /\ SubSeq(p, 1, Len(p)) = p
    BY <1>1, NamesFacts, SubSeqFull
  <1> HIDE DEF c, p
  <1>3. ASSUME NEW w, Lives(t, w)
        PROVE  (\E i \in 1 .. Len(w) : w[i] = c) <=> Tr!IsPrefix(p, NamesOf(t, w))
    <2> DEFINE r == NamesOf(t, w)
    <2>1. Line(t, w) /\ w \in Seq(Tr!Nodes) /\ Len(w) \in Nat
      BY <1>3, LenProperties DEF Lives, Line
    <2>2. r \in Seq(NodeNames) /\ Len(r) = Len(w)
      BY <2>1, NamesFacts
    <2>3. ASSUME NEW i \in 1 .. Len(w), w[i] = c PROVE Tr!IsPrefix(p, r)
      <3> DEFINE f == SubSeq(w, 1, i)
      <3>1. i \in 0 .. Len(w) /\ i # 0 /\ i \in Nat
        BY <2>1
      <3>2. Line(t, f) /\ Len(f) = i /\ Foot(f) = w[i] /\ NamesOf(t, f) = SubSeq(r, 1, i)
        BY <2>1, <3>1, LineBegins
      <3> HIDE DEF f
      <3>3. f = s
        <4>1. Tr!Ancestors(t, c) = f
          BY <2>3, <3>2, LineIsAncestors
        <4>2. Tr!Ancestors(t, c) = s
          BY <1>1, LineIsAncestors DEF c
        <4> QED  BY <4>1, <4>2
      <3>4. p = SubSeq(r, 1, Len(p)) /\ Len(p) <= Len(r)
        BY <1>2, <2>1, <2>2, <3>1, <3>2, <3>3 DEF p
      <3> HIDE DEF r
      <3> QED  BY <1>2, <3>4 DEF Tr!IsPrefix
    <2>4. ASSUME Tr!IsPrefix(p, r) PROVE \E i \in 1 .. Len(w) : w[i] = c
      <3>1. Len(p) <= Len(r) /\ SubSeq(p, 1, Len(p)) = SubSeq(r, 1, Len(p))
        BY <2>4 DEF Tr!IsPrefix
      <3>2. Len(s) <= Len(w) /\ NamesOf(t, s) = SubSeq(NamesOf(t, w), 1, Len(s))
        BY <1>2, <2>2, <3>1 DEF p
      <3>3. s = SubSeq(w, 1, Len(s))
        BY <1>3, <3>2, NamedBegin
      <3>4. Len(s) \in 0 .. Len(w) /\ Len(s) \in 1 .. Len(s) /\ Len(s) \in 1 .. Len(w)
        BY <1>1, <2>1, <3>2
      <3>5. SubSeq(w, 1, Len(s))[Len(s)] = w[Len(s)]
        BY <2>1, <3>4, FirstOf
      <3> QED  BY <1>1, <3>3, <3>4, <3>5
    <2> QED  BY <2>3, <2>4 DEF r
  <1>4. ASSUME NEW r \in PathsOf(Cut(t, c)) PROVE r \in PathsOf(t) /\ ~ Tr!IsPrefix(p, r)
    <2>1. PICK w : Lives(Cut(t, c), w) /\ NamesOf(Cut(t, c), w) = r
      BY DEF PathsOf
    <2>2. Lives(t, w) /\ NamesOf(t, w) = r /\ \A i \in 1 .. Len(w) : w[i] # c
      BY <2>1, CutFacts
    <2>3. r \in PathsOf(t)
      BY <2>2 DEF PathsOf
    <2> QED  BY <1>3, <2>2, <2>3
  <1>5. ASSUME NEW r \in PathsOf(t), ~ Tr!IsPrefix(p, r) PROVE r \in PathsOf(Cut(t, c))
    <2>1. PICK w : Lives(t, w) /\ NamesOf(t, w) = r
      BY DEF PathsOf
    <2>2. \A i \in 1 .. Len(w) : w[i] # c
      BY <1>3, <1>5, <2>1
    <2>3. Lives(Cut(t, c), w) /\ NamesOf(Cut(t, c), w) = r
      BY <2>1, <2>2, CutFacts
    <2> QED  BY <2>3 DEF PathsOf
  <1> QED  BY <1>4, <1>5 DEF c, p

\* The invariant after it.
LEMMA CutKeeps ==
  ASSUME TreeInv, NEW c, tree' = Cut(tree, c), promised' = PathsOf(Cut(tree, c))
  PROVE  TreeInv'
  <1>1. WellFormed(tree) /\ promised = PathsOf(tree) /\ promised \subseteq Tr!Paths
    BY DEF TreeInv
  <1>2. WellFormed(Cut(tree, c))
    BY <1>1, CutFacts
  <1>3. PathsOf(Cut(tree, c)) \subseteq PathsOf(tree)
    BY <1>1, CutFacts DEF PathsOf
  <1>4. Tr!Paths' = Tr!Paths /\ WellFormed(tree') = WellFormed(tree)'
        /\ PathsOf(tree') = PathsOf(tree)'
    BY DEF Tr!Paths
  <1> QED  BY <1>1, <1>2, <1>3, <1>4 DEF TreeInv

\* Removing by path takes the node and what is promised below it.
LEMMA RemoveByPathKeeps ==
  ASSUME TreeInv, NEW p \in Tr!Paths, Tr!RemoveByPath(p)
  PROVE  TreeInv'
  <1> DEFINE n == Tr!GetByPath(tree, p)
             c == Tr!Child(tree, tree.parent[n], tree.name[n])
  <1>1. /\ n # Tr!Missing /\ tree' = Cut(tree, c)
        /\ promised' = promised \ {r \in promised : Tr!IsPrefix(p, r)}
    BY DEF Tr!RemoveByPath, Tr!Without, Tr!Unpromised, Cut
  <1>2. WellFormed(tree) /\ promised = PathsOf(tree) /\ p \in Seq(NodeNames) /\ p # <<>>
    BY PathsAreSequences DEF TreeInv
  <1>3. PICK s : Lives(tree, s) /\ NamesOf(tree, s) = p /\ Foot(s) = n
    BY <1>1, <1>2, LineOfPath
  <1>4. s # <<>>
    BY <1>2, <1>3, EmptyLine
  <1>5. n \in tree.listed
    BY <1>2, <1>3, <1>4, BelowIsFoot
  <1> HIDE DEF n
  <1>6. c = n
    BY <1>2, <1>5, ChildFacts
  <1>7. PathsOf(Cut(tree, n)) = {r \in PathsOf(tree) : ~ Tr!IsPrefix(p, r)}
    BY <1>2, <1>3, <1>4, CutPath
  <1> HIDE DEF c
  <1>8. promised' = PathsOf(Cut(tree, c))
    BY <1>1, <1>2, <1>6, <1>7
  <1> QED  BY <1>1, <1>8, CutKeeps

\* Removing a node takes it and what is promised below the path it gives as its own.
LEMMA RemoveNodeKeeps ==
  ASSUME TreeInv, NEW n \in Tr!Nodes, Tr!RemoveNode(n)
  PROVE  TreeInv'
  <1> DEFINE q == tree.parent[n]
             x == tree.name[n]
             c == Tr!Child(tree, q, x)
             p == Append(Tr!GetPath(tree, q), x)
             Above == q = 0 \/ q \in Tr!Below(tree)
             s == Tr!Ancestors(tree, q)
  <1>1. /\ n \in 1 .. tree.made /\ tree' = Cut(tree, c)
        /\ promised' = IF Above THEN promised \ {r \in promised : Tr!IsPrefix(p, r)} ELSE promised
    BY TreeConstants DEF Tr!RemoveNode, Tr!Without, Tr!Unpromised, Cut
  <1>2. WellFormed(tree) /\ promised = PathsOf(tree)
    BY DEF TreeInv
  <1>3. q \in {0} \cup Tr!Nodes /\ x \in NodeNames
    BY <1>2, TreeFacts
  <1>4. Line(tree, s) /\ Foot(s) = q
    BY <1>2, <1>3, AncestorsAreLine
  <1>5. ASSUME Above
        PROVE  Lives(tree, s) /\ Tr!GetPath(tree, q) = NamesOf(tree, s)
    <2>1. Lives(tree, s)
      <3>1. CASE q = 0
        <4>1. s = <<>>
          BY <1>2, <3>1, AncestorsGo
        <4> QED  BY <4>1, EmptyLine
      <3>2. CASE q \in Tr!Below(tree)
        BY <1>2, <3>2, BelowIsFoot
      <3> QED  BY <1>5, <3>1, <3>2
    <2>2. s # <<>> => q # 0
      <3> SUFFICES ASSUME s # <<>>, q = 0 PROVE FALSE
        OBVIOUS
      <3> QED  BY <1>2, AncestorsGo
    <2>3. q # 0 => tree.name[q] # Tr!Empty
      BY <1>1, <1>2, TreeConstants DEF WellFormed
    <2> HIDE DEF s, q
    <2>4. s # <<>> => tree.name[Foot(s)] # Tr!Empty
      BY <1>4, <2>2, <2>3
    <2>5. Tr!GetPath(tree, Foot(s)) = NamesOf(tree, s)
      BY <1>2, <2>1, <2>4, OwnPath
    <2> QED  BY <1>4, <2>1, <2>5
  <1> HIDE DEF q, x, s
  <1>6. CASE Above /\ c # Tr!Missing
    <2> DEFINE w == Append(s, c)
    <2>1. c \in tree.listed /\ tree.parent[c] = q /\ tree.name[c] = x
      BY <1>2, <1>6, ChildFacts
    <2> HIDE DEF c
    <2>2. c \in Tr!Nodes /\ tree.parent[c] = Foot(s)
      BY <1>2, <1>4, <2>1, TreeFacts
    <2>3. Lives(tree, s) /\ p = Append(NamesOf(tree, s), x)
      BY <1>5, <1>6
    <2>4. Lives(tree, w) /\ Foot(w) = c /\ w # <<>> /\ NamesOf(tree, w) = p
      BY <1>2, <1>4, <2>1, <2>2, <2>3, LineGoesOn
    <2> HIDE DEF w, p
    <2>5. PathsOf(Cut(tree, c)) = {r \in PathsOf(tree) : ~ Tr!IsPrefix(p, r)}
      BY <1>2, <2>4, CutPath
    <2>6. promised' = PathsOf(Cut(tree, c))
      BY <1>1, <1>2, <1>6, <2>5
    <2> QED  BY <1>1, <2>6, CutKeeps
  <1>7. CASE Above /\ c = Tr!Missing
    <2>1. Lives(tree, s) /\ p = Append(NamesOf(tree, s), x)
      BY <1>5, <1>7
    <2>2. ASSUME NEW r \in PathsOf(tree), Tr!IsPrefix(p, r) PROVE FALSE
      <3>1. PICK w : Lives(tree, w) /\ NamesOf(tree, w) = r
        BY DEF PathsOf
      <3> DEFINE k == Len(s)
                 d == w[k + 1]
                 f == SubSeq(w, 1, k)
      <3>2. s \in Seq(Tr!Nodes) /\ k \in Nat /\ w \in Seq(Tr!Nodes) /\ Len(w) \in Nat /\ Line(tree, w)
        BY <1>4, <3>1, LenProperties DEF Lives, Line
      <3>3. /\ NamesOf(tree, s) \in Seq(NodeNames) /\ Len(NamesOf(tree, s)) = k
            /\ r \in Seq(NodeNames) /\ Len(r) = Len(w)
            /\ \A i \in 1 .. Len(w) : r[i] = tree.name[w[i]]
        BY <1>2, <3>1, <3>2, NamesFacts
      <3>4. /\ p \in Seq(NodeNames) /\ Len(p) = k + 1 /\ p[k + 1] = x
            /\ SubSeq(p, 1, k) = NamesOf(tree, s)
        BY <1>3, <2>1, <3>3, OneMore
      <3>5. Len(p) <= Len(r) /\ SubSeq(p, 1, Len(p)) = SubSeq(r, 1, Len(p))
        BY <2>2 DEF Tr!IsPrefix
      <3> HIDE DEF p, k
      <3>6. k + 1 <= Len(w) /\ k + 1 \in 1 .. Len(w) /\ k \in 0 .. Len(w) /\ k < Len(w) /\ k + 1 \in Nat
            /\ k <= Len(w) /\ k + 1 \in 0 .. Len(r) /\ k + 1 \in 1 .. k + 1 /\ k \in 0 .. Len(r)
        BY <3>2, <3>3, <3>4, <3>5
      <3>7. \A i \in 1 .. k + 1 : p[i] = r[i]
        <4>1. p = SubSeq(r, 1, k + 1)
          BY <3>4, <3>5, SubSeqFull
        <4>2. \A i \in 1 .. k + 1 : SubSeq(r, 1, k + 1)[i] = r[i]
          BY <3>3, <3>6, FirstOf
        <4> QED  BY <4>1, <4>2
      <3>8. NamesOf(tree, s) = SubSeq(NamesOf(tree, w), 1, k)
        <4>1. /\ SubSeq(p, 1, k) \in Seq(NodeNames) /\ Len(SubSeq(p, 1, k)) = k
              /\ \A i \in 1 .. k : SubSeq(p, 1, k)[i] = p[i]
          BY <3>2, <3>4, FirstOf
        <4>2. /\ SubSeq(r, 1, k) \in Seq(NodeNames) /\ Len(SubSeq(r, 1, k)) = k
              /\ \A i \in 1 .. k : SubSeq(r, 1, k)[i] = r[i]
          BY <3>3, <3>6, FirstOf
        <4>3. \A i \in 1 .. k : i \in 1 .. k + 1
          BY <3>2
        <4>4. \A i \in 1 .. k : SubSeq(p, 1, k)[i] = SubSeq(r, 1, k)[i]
          BY <3>7, <4>1, <4>2, <4>3
        <4>5. SubSeq(p, 1, k) = SubSeq(r, 1, k)
          BY <4>1, <4>2, <4>4, SeqEqual
        <4> QED  BY <3>1, <3>4, <4>5
      <3>9. s = f
        BY <1>2, <2>1, <3>1, <3>6, <3>8, NamedBegin DEF k
      <3>10. tree.parent[d] = Foot(f)
        BY <1>2, <3>2, <3>6, LineBegins
      <3>11. d \in tree.listed /\ tree.name[d] = x
        <4>1. w \in Seq(tree.listed)
          BY <3>1 DEF Lives
        <4>2. d \in tree.listed
          BY <3>6, <4>1, ElementOfSeq
        <4>3. r[k + 1] = p[k + 1]
          BY <3>6, <3>7
        <4> QED  BY <3>3, <3>4, <3>6, <4>2, <4>3
      <3> HIDE DEF d, f
      <3> QED  BY <1>2, <1>4, <1>7, <3>9, <3>10, <3>11, ChildFacts
    <2>3. promised' = PathsOf(tree)
      BY <1>1, <1>2, <1>7, <2>2
    <2>4. ASSUME NEW w, Lives(tree, w), NEW i \in 1 .. Len(w) PROVE w[i] # c
      <3>1. w[i] \in tree.listed
        BY <2>4, ElementOfSeq DEF Lives
      <3> QED  BY <1>2, <1>7, <3>1, TreeFacts
    <2> HIDE DEF c
    <2>5. PathsOf(Cut(tree, c)) = PathsOf(tree)
      BY <1>2, <2>4, CutNothing
    <2> QED  BY <1>1, <2>3, <2>5, CutKeeps
  <1>8. CASE ~ Above
    <2>1. promised' = PathsOf(tree)
      BY <1>1, <1>2, <1>8
    <2>2. ASSUME NEW w, Lives(tree, w), NEW i \in 1 .. Len(w), w[i] = c PROVE FALSE
      <3>1. w \in Seq(tree.listed) /\ Line(tree, w) /\ Len(w) \in Nat
        BY <2>2, LenProperties DEF Lives
      <3>2. c \in tree.listed
        BY <2>2, <3>1, ElementOfSeq
      <3>3. tree.parent[c] = q
        BY <1>2, <3>2, ChildFacts, TreeFacts
      <3> HIDE DEF c
      <3>4. i # 1 /\ q = w[i - 1] /\ i - 1 \in 0 .. Len(w) /\ i - 1 # 0
        <4>1. tree.parent[w[i]] = IF i = 1 THEN 0 ELSE w[i - 1]
          BY <3>1, TreeConstants DEF Line
        <4>2. i # 1
          BY <1>8, <2>2, <3>3, <4>1
        <4> QED  BY <2>2, <3>1, <3>3, <4>1, <4>2
      <3> DEFINE f == SubSeq(w, 1, i - 1)
      <3>5. Lives(tree, f) /\ Len(f) = i - 1 /\ Foot(f) = w[i - 1]
        BY <1>2, <2>2, <3>1, <3>4, LineBegins
      <3>6. f # <<>>
        BY <3>4, <3>5, EmptySeq
      <3> HIDE DEF f
      <3>7. q \in Tr!Below(tree)
        BY <1>2, <3>4, <3>5, <3>6, BelowIsFoot
      <3> QED  BY <1>8, <3>7
    <2> HIDE DEF c
    <2>3. PathsOf(Cut(tree, c)) = PathsOf(tree)
      BY <1>2, <2>2, CutNothing
    <2> QED  BY <1>1, <2>1, <2>3, CutKeeps
  <1> QED  BY <1>6, <1>7, <1>8

-----------------------------------------------------------------------------
(* One more node.                                                          *)
LEMMA GrowthFacts ==
  ASSUME NEW t, WellFormed(t), NEW s, Lives(t, s), NEW x \in NodeNames,
         Tr!Child(t, Foot(s), x) = Tr!Missing, t.made < MaxNodes,
         s # <<>> => t.name[Foot(s)] # Tr!Empty
  PROVE  LET u == Tr!Grown(t, Foot(s), x)
             n == t.made + 1
         IN /\ WellFormed(u) /\ u.made = n /\ n \in Tr!Nodes
            /\ n \notin t.listed /\ u.listed = t.listed \cup {n}
            /\ u.parent[n] = Foot(s) /\ u.name[n] = x
            /\ \A m \in Tr!Nodes : m # n => u.parent[m] = t.parent[m] /\ u.name[m] = t.name[m]
            /\ \A m \in u.listed : u.parent[m] # n
  <1> DEFINE q == Foot(s)
             n == t.made + 1
             u == Tr!Grown(t, q, x)
  <1>1. t.made \in Nat /\ n \in Nat /\ n \in Tr!Nodes /\ n \in 0 .. MaxNodes /\ n > t.made
    BY TreeFacts, TreeConstants
  <1>2. q \in {0} \cup t.listed /\ (q # 0 => s # <<>>)
    <2>1. s # <<>> => q \in t.listed
      BY BelowIsFoot
    <2>2. s = <<>> => q = 0
      BY EmptyLine
    <2> QED  BY <2>1, <2>2
  <1>3. q \in {0} \cup Tr!Nodes /\ q \in Nat /\ q <= t.made /\ q < n
    <2>1. q \in {0} \cup Tr!Nodes /\ (q # 0 => q \in 1 .. t.made)
      BY <1>2, TreeFacts
    <2>2. q \in Nat
      BY <2>1, TreeConstants
    <2> QED  BY <1>1, <2>1, <2>2
  <1>4. t \in Tr!TreeType
    BY DEF WellFormed
  <1>5. /\ u.made = n /\ u.name = [t.name EXCEPT ![n] = x] /\ u.parent = [t.parent EXCEPT ![n] = q]
        /\ u.listed = t.listed \cup {n}
        /\ u = [made |-> n, name |-> [t.name EXCEPT ![n] = x],
                parent |-> [t.parent EXCEPT ![n] = q], listed |-> t.listed \cup {n}]
    BY DEF Tr!Grown
  <1> HIDE DEF u, n, q
  <1>6. /\ u.parent[n] = q /\ u.name[n] = x
        /\ \A m \in Tr!Nodes : m # n => u.parent[m] = t.parent[m] /\ u.name[m] = t.name[m]
    BY <1>1, <1>4, <1>5, TreeConstants DEF Tr!TreeType
  <1>7. u \in Tr!TreeType
    <2>1. u.name \in [Tr!Nodes -> NodeNames] /\ u.parent \in [Tr!Nodes -> {Tr!Root} \cup Tr!Nodes]
      BY <1>1, <1>3, <1>4, <1>5, TreeConstants DEF Tr!TreeType
    <2>2. u.listed \in SUBSET Tr!Nodes
      BY <1>1, <1>5, TreeFacts
    <2> QED  BY <1>1, <1>5, <2>1, <2>2 DEF Tr!TreeType
  <1>8. n \notin t.listed /\ \A m \in t.listed : m \in Tr!Nodes /\ m # n /\ m \in 1 .. t.made
    <2>1. \A m \in t.listed : m \in Tr!Nodes /\ m \in 1 .. t.made
      BY TreeFacts
    <2>2. n \notin 1 .. t.made
      BY <1>1
    <2> QED  BY <2>1, <2>2
  <1>9. u.listed \subseteq 1 .. u.made
    BY <1>1, <1>5, <1>8 DEF n
  <1>10. \A m \in Tr!Nodes : u.parent[m] < m
    BY <1>3, <1>6, TreeFacts
  <1>11. ASSUME NEW a \in u.listed, NEW b \in u.listed, u.parent[a] = u.parent[b], u.name[a] = u.name[b]
         PROVE  a = b
    <2>1. \A m \in t.listed : ~ (t.parent[m] = q /\ t.name[m] = x)
      BY ChildFacts, TreeFacts DEF q
    <2>2. CASE a \in t.listed /\ b \in t.listed
      BY <1>6, <1>8, <1>11, <2>2 DEF WellFormed
    <2>3. CASE a = n
      BY <1>5, <1>6, <1>8, <1>11, <2>1, <2>3
    <2>4. CASE b = n
      BY <1>5, <1>6, <1>8, <1>11, <2>1, <2>4
    <2> QED  BY <1>5, <2>2, <2>3, <2>4
  <1>12. ASSUME NEW m \in 1 .. u.made, u.parent[m] # Tr!Root PROVE u.name[u.parent[m]] # Tr!Empty
    <2>1. CASE m = n
      <3>1. u.parent[m] = q /\ q # 0 /\ q # n /\ q \in Tr!Nodes
        BY <1>1, <1>3, <1>6, <1>12, <2>1, TreeConstants
      <3>2. t.name[q] # Tr!Empty
        BY <1>2, <3>1 DEF q
      <3> QED  BY <1>6, <3>1, <3>2
    <2>2. CASE m # n
      <3>1. m \in 1 .. t.made /\ m \in Tr!Nodes
        BY <1>1, <1>5, <2>2, TreeConstants DEF n
      <3>2. u.parent[m] = t.parent[m]
        BY <1>6, <2>2, <3>1
      <3>3. t.parent[m] \in Tr!Nodes /\ t.parent[m] # n
        <4>1. t.parent[m] \in {0} \cup Tr!Nodes /\ t.parent[m] < m /\ t.parent[m] \in Nat
          BY <3>1, TreeFacts
        <4>2. t.parent[m] # 0
          BY <1>12, <3>2, TreeConstants
        <4> QED  BY <1>1, <3>1, <4>1, <4>2
      <3>4. t.name[t.parent[m]] # Tr!Empty
        BY <1>12, <3>1, <3>2 DEF WellFormed
      <3> QED  BY <1>6, <3>2, <3>3, <3>4
    <2> QED  BY <2>1, <2>2
  <1>13. WellFormed(u)
    BY <1>7, <1>9, <1>10, <1>11, <1>12 DEF WellFormed
  <1>14. \A m \in u.listed : u.parent[m] # n
    <2> SUFFICES ASSUME NEW m \in u.listed, u.parent[m] = n PROVE FALSE
      OBVIOUS
    <2>1. m \in Nat /\ m <= n /\ u.parent[m] < m
      BY <1>1, <1>5, <1>9, <1>10, <1>13, TreeFacts
    <2> QED  BY <1>1, <2>1
  <1> QED  BY <1>1, <1>5, <1>6, <1>8, <1>13, <1>14 DEF u, n, q

\* The lines that were there are; and there is one more, and so one path more.
LEMMA GrowthPaths ==
  ASSUME NEW t, WellFormed(t), NEW s, Lives(t, s), NEW x \in NodeNames,
         Tr!Child(t, Foot(s), x) = Tr!Missing, t.made < MaxNodes,
         s # <<>> => t.name[Foot(s)] # Tr!Empty
  PROVE  LET u == Tr!Grown(t, Foot(s), x)
             w == Append(s, t.made + 1)
         IN /\ WellFormed(u) /\ u.made = t.made + 1
            /\ Lives(u, w) /\ Foot(w) = t.made + 1
            /\ NamesOf(u, w) = Append(NamesOf(t, s), x)
            /\ PathsOf(u) = PathsOf(t) \cup {Append(NamesOf(t, s), x)}
  <1> DEFINE n == t.made + 1
             u == Tr!Grown(t, Foot(s), x)
             w == Append(s, n)
  <1>1. /\ WellFormed(u) /\ u.made = n /\ n \in Tr!Nodes
        /\ n \notin t.listed /\ u.listed = t.listed \cup {n}
        /\ u.parent[n] = Foot(s) /\ u.name[n] = x
        /\ \A m \in Tr!Nodes : m # n => u.parent[m] = t.parent[m] /\ u.name[m] = t.name[m]
        /\ \A m \in u.listed : u.parent[m] # n
    BY GrowthFacts
  <1> HIDE DEF n, u
  <1>2. \A m \in t.listed : m \in Tr!Nodes /\ m # n
    BY <1>1, TreeFacts
  <1>3. ASSUME NEW v, v \in Seq(t.listed)
        PROVE  (Line(u, v) <=> Line(t, v)) /\ NamesOf(u, v) = NamesOf(t, v) /\ v \in Seq(u.listed)
    <2>1. \A i \in 1 .. Len(v) : u.parent[v[i]] = t.parent[v[i]] /\ u.name[v[i]] = t.name[v[i]]
      <3>1. \A i \in 1 .. Len(v) : v[i] \in t.listed
        BY <1>3, ElementOfSeq
      <3> QED  BY <1>1, <1>2, <3>1
    <2>2. v \in Seq(u.listed)
      BY <1>1, <1>3, SeqMonotonic
    <2> QED  BY <2>1, <2>2 DEF Line, NamesOf
  <1>4. \A v : Lives(t, v) => Lives(u, v) /\ NamesOf(u, v) = NamesOf(t, v)
    BY <1>3 DEF Lives
  <1>5. Lives(u, w) /\ Foot(w) = n /\ NamesOf(u, w) = Append(NamesOf(t, s), x) /\ w # <<>>
    <2>1. Lives(u, s) /\ Line(u, s) /\ NamesOf(u, s) = NamesOf(t, s)
      BY <1>4 DEF Lives
    <2>2. n \in u.listed /\ n \in Tr!Nodes /\ u.parent[n] = Foot(s)
      BY <1>1
    <2> QED  BY <1>1, <2>1, <2>2, LineGoesOn
  <1>6. ASSUME NEW v, Lives(u, v) PROVE Lives(t, v) \/ v = w
    <2>1. Line(u, v) /\ v \in Seq(u.listed) /\ Len(v) \in Nat /\ v \in Seq(Tr!Nodes)
          /\ v = [i \in 1 .. Len(v) |-> v[i]] /\ \A i \in 1 .. Len(v) : v[i] \in u.listed
      BY <1>6, SMTT(30) DEF Lives, Line
    <2>2. CASE \A i \in 1 .. Len(v) : v[i] # n
      <3>1. \A i \in 1 .. Len(v) : v[i] \in t.listed
        BY <1>1, <2>1, <2>2
      <3>2. v \in Seq(t.listed)
        BY <2>1, <3>1
      <3> QED  BY <1>3, <2>1, <3>2, Zenon DEF Lives
    <2>3. ASSUME NEW i \in 1 .. Len(v), v[i] = n PROVE v = w
      <3>1. i = Len(v)
        <4> SUFFICES ASSUME i # Len(v) PROVE FALSE
          OBVIOUS
        <4>1. i + 1 \in 1 .. Len(v) /\ i + 1 # 1 /\ (i + 1) - 1 = i
          BY <2>1
        <4>2. u.parent[v[i + 1]] = v[i] /\ v[i + 1] \in u.listed
          BY <2>1, <4>1 DEF Line
        <4> QED  BY <1>1, <2>3, <4>2
      <3>2. Foot(v) = n
        BY <2>1, <2>3, <3>1 DEF Foot
      <3>3. Tr!Ancestors(u, n) = v
        BY <1>1, <2>1, <3>2, LineIsAncestors
      <3>4. Tr!Ancestors(u, n) = w
        <4> HIDE DEF w
        <4>1. Line(u, w) /\ Foot(w) = n
          BY <1>5 DEF Lives
        <4> QED  BY <1>1, <4>1, LineIsAncestors
      <3> QED  BY <3>3, <3>4
    <2> QED  BY <2>2, <2>3
  <1> HIDE DEF w
  <1>7. NamesOf(u, w) \in Seq(NodeNames) /\ NamesOf(u, w) # <<>>
    BY <1>1, <1>5, NamesFacts DEF Lives, Line
  <1>8. ASSUME NEW p \in PathsOf(u) PROVE p \in PathsOf(t) \/ p = NamesOf(u, w)
    <2>1. PICK v : p \in Seq(NodeNames) /\ p # <<>> /\ Lives(u, v) /\ NamesOf(u, v) = p
      BY DEF PathsOf
    <2>2. CASE v = w
      BY <2>1, <2>2
    <2>3. CASE Lives(t, v)
      <3>1. NamesOf(t, v) = p
        BY <1>4, <2>1, <2>3
      <3> QED  BY <2>1, <2>3, <3>1 DEF PathsOf
    <2> QED  BY <1>6, <2>1, <2>2, <2>3
  <1>9. PathsOf(t) \subseteq PathsOf(u)
    <2> SUFFICES ASSUME NEW p \in PathsOf(t) PROVE p \in PathsOf(u)
      OBVIOUS
    <2>1. PICK v : p \in Seq(NodeNames) /\ p # <<>> /\ Lives(t, v) /\ NamesOf(t, v) = p
      BY DEF PathsOf
    <2> QED  BY <1>4, <2>1 DEF PathsOf
  <1>10. NamesOf(u, w) \in PathsOf(u)
    BY <1>5, <1>7 DEF PathsOf
  <1>11. PathsOf(u) = PathsOf(t) \cup {NamesOf(u, w)}
    BY <1>8, <1>9, <1>10
  <1> QED  BY <1>1, <1>5, <1>11 DEF n, u, w

-----------------------------------------------------------------------------
(* The walk of AddNode.                                                    *)
Walks == [t : Tr!TreeType, q : Nat, raised : BOOLEAN, full : BOOLEAN]

\* No name up to the k-th is empty; and the paths on the way that are added up to there.
AllNamed(p, k) == \A j \in 1 .. k : p[j] # Tr!Empty
OnTheWay(p, k) == {SubSeq(p, 1, h) : h \in {h \in 1 .. k : AllNamed(p, h)}}

\* Unless there were too many nodes, k rounds have added the paths on the way; and they
\* have raised at an empty name or are at the node of the path.
Walking(p, k, w) ==
    /\ w \in Walks
    /\ ~ w.full =>
         /\ WellFormed(w.t) /\ (w.raised <=> ~ AllNamed(p, k))
         /\ PathsOf(w.t) = PathsOf(tree) \cup OnTheWay(p, k)
         /\ ~ w.raised => \E s : /\ Lives(w.t, s) /\ Foot(s) = w.q
                                 /\ NamesOf(w.t, s) = SubSeq(p, 1, k)

\* The fields of a walk that changes one of them.
LEMMA WalkFields ==
  ASSUME NEW w \in Walks
  PROVE  /\ [w EXCEPT !.raised = TRUE] \in Walks
         /\ [w EXCEPT !.raised = TRUE].t = w.t
         /\ [w EXCEPT !.raised = TRUE].raised
         /\ [w EXCEPT !.raised = TRUE].full = w.full
         /\ [w EXCEPT !.raised = TRUE].q = w.q
         /\ [w EXCEPT !.full = TRUE] \in Walks /\ [w EXCEPT !.full = TRUE].full
         /\ \A q \in Nat : /\ [w EXCEPT !.q = q] \in Walks
                           /\ [w EXCEPT !.q = q].t = w.t
                           /\ [w EXCEPT !.q = q].q = q
                           /\ [w EXCEPT !.q = q].raised = w.raised
                           /\ [w EXCEPT !.q = q].full = w.full
         /\ \A t \in Tr!TreeType : /\ [w EXCEPT !.t = t] \in Walks
                                   /\ [w EXCEPT !.t = t].t = t
                                   /\ [w EXCEPT !.t = t].q = w.q
                                   /\ [w EXCEPT !.t = t].raised = w.raised
                                   /\ [w EXCEPT !.t = t].full = w.full
  BY DEF Walks

\* The paths on the way up to one more name.
LEMMA WayGoesOn ==
  ASSUME NEW p, NEW k \in Nat
  PROVE  /\ AllNamed(p, k + 1) <=> AllNamed(p, k) /\ p[k + 1] # Tr!Empty
         /\ OnTheWay(p, k + 1) = IF AllNamed(p, k + 1) THEN OnTheWay(p, k) \cup {SubSeq(p, 1, k + 1)}
                                 ELSE OnTheWay(p, k)
  <1>1. \A j : j \in 1 .. k + 1 <=> j \in 1 .. k \/ j = k + 1
    OBVIOUS
  <1>2. AllNamed(p, k + 1) <=> AllNamed(p, k) /\ p[k + 1] # Tr!Empty
    BY <1>1 DEF AllNamed
  <1>3. \A x : x \in OnTheWay(p, k + 1) <=>
                 x \in OnTheWay(p, k) \/ (AllNamed(p, k + 1) /\ x = SubSeq(p, 1, k + 1))
    BY <1>1 DEF OnTheWay
  <1> QED  BY <1>2, <1>3

\* The node that a name leads to or that is added for it, from where a walk is.
LEMMA AddedFacts ==
  ASSUME NEW p \in Seq(NodeNames), NEW k \in Nat, k + 1 <= Len(p),
         NEW w, Walking(p, k, w), ~ w.raised, ~ w.full,
         ~ Tr!Added(w, p[k + 1]).full
  PROVE  LET c == Tr!Child(w.t, w.q, p[k + 1])
             a == Tr!Added(w, p[k + 1])
             t == a.t
             q == IF c # Tr!Missing THEN c ELSE t.made
         IN /\ a \in Walks /\ WellFormed(t) /\ q \in Nat
            /\ (c # Tr!Missing => t = w.t) /\ (a.raised <=> c # Tr!Missing)
            /\ PathsOf(t) = PathsOf(w.t) \cup {SubSeq(p, 1, k + 1)}
            /\ \E s : Lives(t, s) /\ Foot(s) = q /\ NamesOf(t, s) = SubSeq(p, 1, k + 1)
  <1> DEFINE x == p[k + 1]
             c == Tr!Child(w.t, w.q, x)
             a == Tr!Added(w, x)
  <1>1. /\ w \in Walks /\ WellFormed(w.t) /\ AllNamed(p, k)
    BY DEF Walking
  <1>2. PICK s : Lives(w.t, s) /\ Foot(s) = w.q /\ NamesOf(w.t, s) = SubSeq(p, 1, k)
    BY DEF Walking
  <1>3. Len(p) \in Nat /\ k + 1 \in 1 .. Len(p) /\ k \in 0 .. Len(p)
    BY LenProperties
  <1>4. x \in NodeNames /\ SubSeq(p, 1, k + 1) = Append(SubSeq(p, 1, k), x)
    <2>1. k + 1 \in 1 .. Len(p)
      BY LenProperties
    <2> QED  BY <2>1, BeginsOn, ElementOfSeq
  <1>5. a = IF c # Tr!Missing THEN [w EXCEPT !.raised = TRUE]
            ELSE IF w.t.made < MaxNodes THEN [w EXCEPT !.t = Tr!Grown(w.t, w.q, x)]
            ELSE [w EXCEPT !.full = TRUE]
    BY DEF Tr!Added
  <1> HIDE DEF x, c, a
  <1>6. CASE c # Tr!Missing
    <2>1. a \in Walks /\ a.t = w.t /\ a.raised
      BY <1>1, <1>5, <1>6, WalkFields
    <2>2. c \in w.t.listed /\ w.t.parent[c] = w.q /\ w.t.name[c] = x
      BY <1>1, <1>6, ChildFacts DEF c
    <2>3. c \in Tr!Nodes /\ Line(w.t, s) /\ w.t.parent[c] = Foot(s) /\ c \in Nat
      BY <1>1, <1>2, <2>2, TreeFacts DEF Lives
    <2> DEFINE v == Append(s, c)
    <2>4. Lives(w.t, v) /\ Foot(v) = c /\ v # <<>> /\ NamesOf(w.t, v) = SubSeq(p, 1, k + 1)
      <3>1. /\ Foot(v) = c /\ v # <<>> /\ (Lives(w.t, s) /\ c \in w.t.listed => Lives(w.t, v))
            /\ NamesOf(w.t, v) = Append(NamesOf(w.t, s), w.t.name[c])
        BY <1>1, <2>3, LineGoesOn
      <3> HIDE DEF v
      <3> QED  BY <1>2, <1>4, <2>2, <3>1
    <2> HIDE DEF v
    <2>5. SubSeq(p, 1, k + 1) \in PathsOf(w.t)
      <3>1. v \in Seq(Tr!Nodes)
        BY <2>4 DEF Lives, Line
      <3>2. NamesOf(w.t, v) \in Seq(NodeNames) /\ NamesOf(w.t, v) # <<>>
        BY <1>1, <2>4, <3>1, NamesFacts
      <3> QED  BY <2>4, <3>2 DEF PathsOf
    <2>6. PathsOf(w.t) = PathsOf(w.t) \cup {SubSeq(p, 1, k + 1)}
      BY <2>5
    <2> QED  BY <1>1, <1>6, <2>1, <2>3, <2>4, <2>6 DEF a, c, x
  <1>7. CASE c = Tr!Missing
    <2>1. w.t.made < MaxNodes
      <3> SUFFICES ASSUME ~ (w.t.made < MaxNodes) PROVE FALSE
        OBVIOUS
      <3>1. a = [w EXCEPT !.full = TRUE]
        BY <1>5, <1>7
      <3>2. a.full
        BY <1>1, <3>1, WalkFields
      <3> QED  BY <3>2 DEF a, x
    <2> DEFINE u == Tr!Grown(w.t, w.q, x)
               v == Append(s, w.t.made + 1)
    <2>2. s # <<>> => w.t.name[Foot(s)] # Tr!Empty
      <3> SUFFICES ASSUME s # <<>> PROVE w.t.name[Foot(s)] # Tr!Empty
        OBVIOUS
      <3>1. s \in Seq(Tr!Nodes)
        BY <1>2 DEF Lives, Line
      <3>2. Len(s) \in Nat \ {0} /\ Foot(s) = s[Len(s)] /\ Len(s) \in 1 .. Len(s)
        <4>1. Len(s) \in Nat \ {0}
          BY <3>1, EmptySeq
        <4> QED  BY <4>1 DEF Foot
      <3>3. /\ Len(NamesOf(w.t, s)) = Len(s)
            /\ NamesOf(w.t, s)[Len(s)] = w.t.name[s[Len(s)]]
        BY <1>1, <3>1, <3>2, NamesFacts
      <3>4. Len(SubSeq(p, 1, k)) = k /\ \A i \in 1 .. k : SubSeq(p, 1, k)[i] = p[i]
        <4>1. k \in 0 .. Len(p)
          BY <1>3
        <4> QED  BY <4>1, FirstOf
      <3>5. Len(s) = k
        BY <1>2, <3>3, <3>4
      <3>6. w.t.name[Foot(s)] = p[k] /\ k \in 1 .. k
        BY <1>2, <3>2, <3>3, <3>4, <3>5
      <3> QED  BY <1>1, <3>6 DEF AllNamed
    <2>3. Tr!Child(w.t, Foot(s), x) = Tr!Missing
      BY <1>2, <1>7 DEF c
    <2>4. /\ WellFormed(u) /\ u.made = w.t.made + 1 /\ Lives(u, v) /\ Foot(v) = w.t.made + 1
          /\ NamesOf(u, v) = SubSeq(p, 1, k + 1)
          /\ PathsOf(u) = PathsOf(w.t) \cup {SubSeq(p, 1, k + 1)}
      <3>1. x \in NodeNames /\ Lives(w.t, s) /\ WellFormed(w.t)
        BY <1>1, <1>2, <1>4
      <3> DEFINE r == Tr!Grown(w.t, Foot(s), x)
      <3>2. /\ WellFormed(r) /\ r.made = w.t.made + 1 /\ Lives(r, v) /\ Foot(v) = w.t.made + 1
            /\ NamesOf(r, v) = Append(NamesOf(w.t, s), x)
            /\ PathsOf(r) = PathsOf(w.t) \cup {Append(NamesOf(w.t, s), x)}
        BY <2>1, <2>2, <2>3, <3>1, GrowthPaths
      <3>3. r = u
        BY <1>2
      <3> HIDE DEF r, u, v
      <3> QED  BY <1>2, <1>4, <3>2, <3>3
    <2> HIDE DEF u, v
    <2>5. u \in Tr!TreeType /\ a = [w EXCEPT !.t = u]
      BY <1>5, <1>7, <2>1, <2>4 DEF WellFormed, u
    <2>6. a \in Walks /\ a.t = u /\ a.raised = w.raised
      BY <1>1, <2>5, WalkFields
    <2>7. u.made \in Nat
      BY <2>4, TreeFacts
    <2> QED  BY <1>7, <2>4, <2>6, <2>7 DEF a, c, x
  <1> QED  BY <1>6, <1>7

\* One round of the walk adds one more path on the way, or raises, or finds the tree full.
LEMMA WalkedKeeps ==
  ASSUME NEW p \in Seq(NodeNames), NEW k \in Nat, k + 1 <= Len(p),
         NEW w, Walking(p, k, w)
  PROVE  Walking(p, k + 1, Tr!Walked(w, p[k + 1]))
  <1> DEFINE x == p[k + 1]
             c == Tr!Child(w.t, w.q, x)
             a == Tr!Added(w, x)
             b == Tr!Walked(w, x)
  <1>1. w \in Walks
    BY DEF Walking
  <1>2. /\ AllNamed(p, k + 1) <=> AllNamed(p, k) /\ x # Tr!Empty
        /\ OnTheWay(p, k + 1) = IF AllNamed(p, k + 1) THEN OnTheWay(p, k) \cup {SubSeq(p, 1, k + 1)}
                                ELSE OnTheWay(p, k)
    BY WayGoesOn
  <1>3. b = IF w.raised \/ w.full THEN w
            ELSE IF x = Tr!Empty THEN [w EXCEPT !.raised = TRUE]
            ELSE IF c # Tr!Missing THEN [w EXCEPT !.q = c]
            ELSE [a EXCEPT !.q = a.t.made]
    BY DEF Tr!Walked
  <1> HIDE DEF b
  <1>4. CASE w.full
    <2>1. b = w
      BY <1>3, <1>4
    <2> QED  BY <1>1, <1>4, <2>1 DEF Walking, b, x
  <1>5. CASE ~ w.full /\ w.raised
    <2>1. b = w
      BY <1>3, <1>5
    <2>2. WellFormed(w.t) /\ ~ AllNamed(p, k) /\ PathsOf(w.t) = PathsOf(tree) \cup OnTheWay(p, k)
      BY <1>5 DEF Walking
    <2>3. ~ AllNamed(p, k + 1) /\ OnTheWay(p, k + 1) = OnTheWay(p, k)
      BY <1>2, <2>2
    <2>4. Walking(p, k + 1, w)
      BY <1>1, <1>5, <2>2, <2>3 DEF Walking
    <2> QED  BY <2>1, <2>4 DEF b, x
  <1>6. CASE ~ w.full /\ ~ w.raised /\ x = Tr!Empty
    <2> DEFINE d == [w EXCEPT !.raised = TRUE]
    <2>1. b = d
      BY <1>3, <1>6
    <2>2. d \in Walks /\ d.t = w.t /\ d.raised /\ d.full = w.full
      BY <1>1, WalkFields
    <2> HIDE DEF d
    <2>3. WellFormed(w.t) /\ PathsOf(w.t) = PathsOf(tree) \cup OnTheWay(p, k)
      BY <1>6 DEF Walking
    <2>4. ~ AllNamed(p, k + 1) /\ OnTheWay(p, k + 1) = OnTheWay(p, k)
      BY <1>2, <1>6
    <2>5. Walking(p, k + 1, d)
      BY <2>2, <2>3, <2>4 DEF Walking
    <2> QED  BY <2>1, <2>5 DEF b, x
  <1>7. CASE ~ w.full /\ ~ w.raised /\ x # Tr!Empty
    <2> HIDE DEF x, c, a
    <2>1. AllNamed(p, k + 1) /\ OnTheWay(p, k + 1) = OnTheWay(p, k) \cup {SubSeq(p, 1, k + 1)}
      BY <1>2, <1>7 DEF Walking
    <2>2. WellFormed(w.t) /\ PathsOf(w.t) = PathsOf(tree) \cup OnTheWay(p, k)
      BY <1>7 DEF Walking
    <2>3. a = IF c # Tr!Missing THEN [w EXCEPT !.raised = TRUE]
              ELSE IF w.t.made < MaxNodes THEN [w EXCEPT !.t = Tr!Grown(w.t, w.q, x)]
              ELSE [w EXCEPT !.full = TRUE]
      BY DEF Tr!Added, a, c
    <2>4. ASSUME ~ a.full
          PROVE  LET t == a.t
                     q == IF c # Tr!Missing THEN c ELSE t.made
                 IN /\ a \in Walks /\ WellFormed(t) /\ q \in Nat
                    /\ (c # Tr!Missing => t = w.t) /\ (a.raised <=> c # Tr!Missing)
                    /\ PathsOf(t) = PathsOf(w.t) \cup {SubSeq(p, 1, k + 1)}
                    /\ \E s : Lives(t, s) /\ Foot(s) = q /\ NamesOf(t, s) = SubSeq(p, 1, k + 1)
      <3> USE DEF a, x, c
      <3> QED  BY <1>7, <2>4, AddedFacts
    <2>5. CASE c # Tr!Missing
      <3> DEFINE d == [w EXCEPT !.q = c]
      <3>1. b = d
        BY <1>3, <1>7, <2>5
      <3>2. ~ a.full
        BY <1>1, <1>7, <2>3, <2>5, WalkFields
      <3>3. /\ c \in Nat /\ PathsOf(w.t) = PathsOf(w.t) \cup {SubSeq(p, 1, k + 1)}
            /\ \E s : Lives(w.t, s) /\ Foot(s) = c /\ NamesOf(w.t, s) = SubSeq(p, 1, k + 1)
        BY <2>4, <2>5, <3>2
      <3>4. d \in Walks /\ d.t = w.t /\ d.q = c /\ d.raised = w.raised /\ d.full = w.full
        BY <1>1, <3>3, WalkFields
      <3> HIDE DEF d
      <3>5. PathsOf(d.t) = PathsOf(tree) \cup OnTheWay(p, k + 1)
        BY <2>1, <2>2, <3>3, <3>4
      <3>6. Walking(p, k + 1, d)
        BY <1>7, <2>1, <2>2, <3>3, <3>4, <3>5 DEF Walking
      <3> QED  BY <3>1, <3>6 DEF b, x
    <2>6. CASE c = Tr!Missing
      <3> DEFINE d == [a EXCEPT !.q = a.t.made]
      <3>1. b = d
        BY <1>3, <1>7, <2>6
      <3>2. CASE a.full
        <4>1. a \in Walks
          <5>1. ASSUME w.t.made < MaxNodes PROVE FALSE
            <6>1. a = [w EXCEPT !.t = Tr!Grown(w.t, w.q, x)]
              BY <2>3, <2>6, <5>1
            <6>2. a.full = w.full
              BY <1>1, <6>1 DEF Walks
            <6> QED  BY <1>7, <3>2, <6>2
          <5>2. a = [w EXCEPT !.full = TRUE]
            BY <2>3, <2>6, <5>1
          <5> QED  BY <1>1, <5>2, WalkFields
        <4>2. a.t.made \in Nat
          BY <4>1 DEF Walks, Tr!TreeType
        <4>3. d \in Walks /\ d.full
          BY <3>2, <4>1, <4>2, WalkFields
        <4> HIDE DEF d
        <4>4. Walking(p, k + 1, d)
          BY <4>3 DEF Walking
        <4> QED  BY <3>1, <4>4 DEF b, x
      <3>3. CASE ~ a.full
        <4>1. /\ a \in Walks /\ WellFormed(a.t) /\ a.t.made \in Nat /\ ~ a.raised
              /\ PathsOf(a.t) = PathsOf(w.t) \cup {SubSeq(p, 1, k + 1)}
              /\ \E s : Lives(a.t, s) /\ Foot(s) = a.t.made /\ NamesOf(a.t, s) = SubSeq(p, 1, k + 1)
          BY <2>4, <2>6, <3>3
        <4>2. d \in Walks /\ d.t = a.t /\ d.q = a.t.made /\ d.raised = a.raised /\ d.full = a.full
          BY <4>1, WalkFields
        <4> HIDE DEF d
        <4>3. PathsOf(d.t) = PathsOf(tree) \cup OnTheWay(p, k + 1)
          BY <2>1, <2>2, <4>1, <4>2
        <4>4. Walking(p, k + 1, d)
          BY <2>1, <3>3, <4>1, <4>2, <4>3 DEF Walking
        <4> QED  BY <3>1, <4>4 DEF b, x
      <3> QED  BY <3>2, <3>3
    <2> QED  BY <2>5, <2>6
  <1> QED  BY <1>4, <1>5, <1>6, <1>7

Start == [t |-> tree, q |-> 0, raised |-> FALSE, full |-> FALSE]

\* What AddNode takes as the definition of its walk.
WalksOn(p, n, walk) ==
    walk = [i \in 0 .. n |-> IF i = 0 THEN Start ELSE Tr!Walked(walk[i - 1], p[i])]

\* There is a function with the definition of the walk, however long the path.
LEMMA SomeWalk ==
  ASSUME NEW p, NEW n \in Nat
  PROVE  \E walk : WalksOn(p, n, walk)
  <1> DEFINE Then(w, i) == Tr!Walked(w, p[i])
             Is(walk, k) == walk = [i \in 0 .. k |-> IF i = 0 THEN Start ELSE Then(walk[i - 1], i)]
             G == {k \in Nat : \E walk : Is(walk, k)}
  <1> HIDE DEF Then
  <1>1. 0 \in G
    <2> DEFINE walk == [i \in 0 .. 0 |-> Start]
    <2>1. Is(walk, 0)
      OBVIOUS
    <2> QED  BY <2>1
  <1>2. ASSUME NEW k \in Nat, k \in G PROVE k + 1 \in G
    <2>1. PICK walk : Is(walk, k)
      BY <1>2
    <2> DEFINE new == [i \in 0 .. k + 1 |-> IF i = 0 THEN Start ELSE Then(walk[i - 1], i)]
    <2>2. \A i \in 0 .. k : walk[i] = IF i = 0 THEN Start ELSE Then(walk[i - 1], i)
      BY <2>1
    <2>3. \A i \in 0 .. k : new[i] = walk[i]
      BY <2>2
    <2>4. \A i \in 0 .. k + 1 : i # 0 => new[i - 1] = walk[i - 1]
      <3>1. \A i \in 0 .. k + 1 : i # 0 => i - 1 \in 0 .. k
        OBVIOUS
      <3> HIDE DEF new
      <3> QED  BY <2>3, <3>1
    <2>5. Is(new, k + 1)
      <3>1. \A i \in 0 .. k + 1 : new[i] = IF i = 0 THEN Start ELSE Then(new[i - 1], i)
        BY <2>4
      <3>2. new = [i \in 0 .. k + 1 |-> new[i]]
        OBVIOUS
      <3> HIDE DEF new
      <3> QED  BY <3>1, <3>2
    <2> HIDE DEF Is, new
    <2>6. \E v : Is(v, k + 1)
      BY <2>5
    <2> QED  BY <2>6
  <1>3. n \in G
    <2> HIDE DEF G
    <2> QED  BY <1>1, <1>2, EveryNumber
  <1> QED  BY <1>3 DEF WalksOn, Then

\* AddNode in terms of its walk: round by round, and a last node added.
LEMMA AddNodeIs ==
  ASSUME NEW p, Len(p) - 1 \in Nat, Tr!AddNode(p)
  PROVE  \E walk :
           /\ walk[0] = Start /\ \A i \in 1 .. Len(p) - 1 : walk[i] = Tr!Walked(walk[i - 1], p[i])
           /\ LET walked == walk[Len(p) - 1]
                  end == IF walked.raised \/ walked.full THEN walked
                         ELSE Tr!Added(walked, p[Len(p)])
                  refused == {i \in 1 .. Len(p) - 1 : p[i] = Tr!Empty}
              IN /\ ~ end.full /\ tree' = end.t
                 /\ promised' = promised \cup
                      {SubSeq(p, 1, k) : k \in {k \in 1 .. Len(p) : \A i \in refused : k < i}}
  <1> DEFINE walk == CHOOSE walk : WalksOn(p, Len(p) - 1, walk)
  <1>1. WalksOn(p, Len(p) - 1, walk)
    BY SomeWalk, Zenon
  <1>2. LET walked == walk[Len(p) - 1]
            end == IF walked.raised \/ walked.full THEN walked
                   ELSE Tr!Added(walked, p[Len(p)])
            refused == {i \in 1 .. Len(p) - 1 : p[i] = Tr!Empty}
        IN /\ ~ end.full /\ tree' = end.t
           /\ promised' = promised \cup
                {SubSeq(p, 1, k) : k \in {k \in 1 .. Len(p) : \A i \in refused : k < i}}
    BY TreeConstants, Zenon DEF Tr!AddNode, Tr!Last, WalksOn, Start, Tr!Root
  <1> HIDE DEF walk
  <1>3. \A i \in 0 .. Len(p) - 1 : walk[i] = IF i = 0 THEN Start ELSE Tr!Walked(walk[i - 1], p[i])
    BY <1>1 DEF WalksOn
  <1>4. 0 \in 0 .. Len(p) - 1 /\ \A i \in 1 .. Len(p) - 1 : i \in 0 .. Len(p) - 1 /\ i # 0
    OBVIOUS
  <1>5. walk[0] = Start /\ \A i \in 1 .. Len(p) - 1 : walk[i] = Tr!Walked(walk[i - 1], p[i])
    BY <1>3, <1>4
  <1> QED  BY <1>2, <1>5, Zenon

\* Adding a node adds the paths on the way to it and no others.
LEMMA AddNodeKeeps ==
  ASSUME TreeInv, NEW p \in Tr!Paths, Tr!AddNode(p)
  PROVE  TreeInv'
  <1> DEFINE n == Len(p) - 1
             refused == {i \in 1 .. n : p[i] = Tr!Empty}
             added == {SubSeq(p, 1, k) : k \in {k \in 1 .. Len(p) : \A i \in refused : k < i}}
  <1>1. WellFormed(tree) /\ promised = PathsOf(tree) /\ promised \subseteq Tr!Paths
    BY DEF TreeInv
  <1>2. p \in Seq(NodeNames) /\ Len(p) \in Nat \ {0} /\ n \in Nat /\ n + 1 = Len(p) /\ n <= Len(p)
    <2>1. p \in Seq(NodeNames) /\ Len(p) \in Nat \ {0}
      BY PathsAreSequences, EmptySeq
    <2> QED  BY <2>1
  <1>3. PICK walk :
           /\ walk[0] = Start /\ \A i \in 1 .. n : walk[i] = Tr!Walked(walk[i - 1], p[i])
           /\ LET walked == walk[n]
                  end == IF walked.raised \/ walked.full THEN walked
                         ELSE Tr!Added(walked, p[Len(p)])
              IN ~ end.full /\ tree' = end.t /\ promised' = promised \cup added
    BY <1>2, AddNodeIs
  <1> HIDE DEF n, added
  <1>4. Walking(p, n, walk[n])
    <2> DEFINE G == {k \in Nat : k <= n => Walking(p, k, walk[k])}
    <2>1. 0 \in G
      <3>1. Start \in Walks /\ Start.t = tree /\ Start.q = 0 /\ ~ Start.raised /\ ~ Start.full
        BY <1>1 DEF Start, Walks, WellFormed
      <3>2. AllNamed(p, 0) /\ OnTheWay(p, 0) = {}
        <4>1. 1 .. 0 = {}
          OBVIOUS
        <4> QED  BY <4>1 DEF AllNamed, OnTheWay
      <3>3. SubSeq(p, 1, 0) = <<>>
        <4>1. 0 \in 0 .. Len(p)
          BY <1>2
        <4>2. SubSeq(p, 1, 0) \in Seq(NodeNames) /\ Len(SubSeq(p, 1, 0)) = 0
          BY <1>2, <4>1, FirstOf
        <4> QED  BY <4>2, EmptySeq
      <3>4. Lives(tree, <<>>) /\ Foot(<<>>) = 0 /\ NamesOf(tree, <<>>) = <<>>
        BY EmptyLine
      <3>5. Walking(p, 0, Start)
        BY <1>1, <3>1, <3>2, <3>3, <3>4 DEF Walking
      <3> QED  BY <1>3, <3>5
    <2>2. ASSUME NEW k \in Nat, k \in G PROVE k + 1 \in G
      <3> SUFFICES ASSUME k + 1 <= n PROVE Walking(p, k + 1, walk[k + 1])
        OBVIOUS
      <3>1. k <= n /\ k + 1 <= Len(p) /\ k + 1 \in 1 .. n /\ (k + 1) - 1 = k
        BY <1>2
      <3>2. Walking(p, k, walk[k]) /\ walk[k + 1] = Tr!Walked(walk[k], p[k + 1])
        BY <1>3, <2>2, <3>1
      <3> QED  BY <1>2, <3>1, <3>2, WalkedKeeps
    <2>3. n \in G
      <3> HIDE DEF G
      <3> QED  BY <1>2, <2>1, <2>2, EveryNumber
    <2> QED  BY <1>2, <2>3
  <1> DEFINE w == walk[n]
             x == p[Len(p)]
  <1>5. added = OnTheWay(p, n) \cup (IF AllNamed(p, n) THEN {SubSeq(p, 1, n + 1)} ELSE {})
    <2>1. \A k \in 1 .. n : (\A i \in refused : k < i) <=> AllNamed(p, k)
      BY <1>2 DEF AllNamed
    <2>2. (\A i \in refused : n + 1 < i) <=> AllNamed(p, n)
      BY <1>2 DEF AllNamed
    <2>3. \A k : k \in 1 .. Len(p) <=> k \in 1 .. n \/ k = n + 1
      BY <1>2
    <2> HIDE DEF refused
    <2>4. \A y : y \in added <=> y \in OnTheWay(p, n) \/ (AllNamed(p, n) /\ y = SubSeq(p, 1, n + 1))
      BY <2>1, <2>2, <2>3 DEF added, OnTheWay
    <2> QED  BY <2>4
  <1>6. WellFormed(tree') /\ PathsOf(tree') = promised'
    <2>1. CASE w.raised \/ w.full
      <3>1. ~ w.full /\ w.raised /\ tree' = w.t /\ promised' = promised \cup added
        BY <1>3, <2>1
      <3>2. WellFormed(w.t) /\ ~ AllNamed(p, n) /\ PathsOf(w.t) = PathsOf(tree) \cup OnTheWay(p, n)
        BY <1>4, <3>1 DEF Walking
      <3> QED  BY <1>1, <1>5, <3>1, <3>2
    <2>2. CASE ~ (w.raised \/ w.full)
      <3> DEFINE a == Tr!Added(w, x)
      <3>1. ~ a.full /\ tree' = a.t /\ promised' = promised \cup added
        BY <1>3, <2>2
      <3>2. AllNamed(p, n) /\ PathsOf(w.t) = PathsOf(tree) \cup OnTheWay(p, n)
        BY <1>4, <2>2 DEF Walking
      <3>3. WellFormed(a.t) /\ PathsOf(a.t) = PathsOf(w.t) \cup {SubSeq(p, 1, n + 1)}
        <4>1. n + 1 <= Len(p) /\ x = p[n + 1] /\ ~ w.raised /\ ~ w.full
          BY <1>2, <2>2
        <4> HIDE DEF w, x
        <4> QED  BY <1>2, <1>4, <3>1, <4>1, AddedFacts DEF w
      <3> HIDE DEF a
      <3> QED  BY <1>1, <1>5, <3>1, <3>2, <3>3
    <2> QED  BY <2>1, <2>2
  <1>7. added \subseteq Tr!Paths
    <2> SUFFICES ASSUME NEW k \in 1 .. Len(p) PROVE SubSeq(p, 1, k) \in Tr!Paths
      BY DEF added
    <2>1. PICK d \in 1 .. Depth : p \in [1 .. d -> NodeNames]
      BY DEF Tr!Paths
    <2>2. Len(p) = d /\ k \in 0 .. Len(p) /\ k \in 1 .. Depth
      BY <1>2, <2>1, TreeConstants
    <2>3. SubSeq(p, 1, k) \in Seq(NodeNames) /\ Len(SubSeq(p, 1, k)) = k
      BY <1>2, <2>2, FirstOf
    <2>4. SubSeq(p, 1, k) \in [1 .. k -> NodeNames]
      BY <2>3, LenProperties
    <2> QED  BY <2>2, <2>4 DEF Tr!Paths
  <1>8. promised' \subseteq Tr!Paths
    BY <1>1, <1>3, <1>7
  <1>9. Tr!Paths' = Tr!Paths /\ WellFormed(tree') = WellFormed(tree)'
        /\ PathsOf(tree') = PathsOf(tree)'
    BY DEF Tr!Paths
  <1> QED  BY <1>6, <1>8, <1>9 DEF TreeInv

\* The tree begins with its root, and no path.
LEMMA TreeInit == Tr!Init => TreeInv
  <1> SUFFICES ASSUME Tr!Init PROVE TreeInv
    OBVIOUS
  <1>1. /\ tree = [made |-> 0, name |-> [n \in Tr!Nodes |-> Tr!Empty],
                   parent |-> [n \in Tr!Nodes |-> Tr!Root], listed |-> {}]
        /\ promised = {}
    BY DEF Tr!Init
  <1>2. WellFormed(tree)
    <2>1. 1 .. 0 = {} /\ 0 \in 0 .. MaxNodes /\ \A n \in Tr!Nodes : 0 < n
      BY TreeConstants
    <2> QED  BY <1>1, <2>1, TreeConstants DEF WellFormed, Tr!TreeType
  <1>3. ASSUME NEW p \in PathsOf(tree) PROVE FALSE
    <2>1. PICK s : p # <<>> /\ Lives(tree, s) /\ NamesOf(tree, s) = p
      BY DEF PathsOf
    <2>2. s # <<>>
      BY <2>1, EmptyLine
    <2>3. Foot(s) \in tree.listed
      BY <1>2, <2>1, <2>2, BelowIsFoot
    <2> QED  BY <1>1, <2>3
  <1> QED  BY <1>1, <1>2, <1>3 DEF TreeInv

\* Every operation on the tree keeps what its paths say.
LEMMA TreeNext == ASSUME TreeInv, [Tr!Next]_(Tr!vars) PROVE TreeInv'
  <1>1. CASE UNCHANGED Tr!vars
    <2>1. tree' = tree /\ promised' = promised
      BY <1>1 DEF Tr!vars
    <2>2. Tr!Paths' = Tr!Paths /\ WellFormed(tree') = WellFormed(tree)'
          /\ PathsOf(tree') = PathsOf(tree)'
      BY DEF Tr!Paths
    <2> QED  BY <2>1, <2>2 DEF TreeInv
  <1> QED  BY <1>1, AddNodeKeeps, RemoveByPathKeeps, RemoveNodeKeeps DEF Tr!Next

\* The behaviours of Clients are behaviours of Tree.
LEMMA TreeSteps == Spec => Tr!Spec
  <1>1. Init => Tr!Init
    BY DEF Init
  <1>2. [Next]_vars => [Tr!Next]_(Tr!vars)
    BY DEF Next, vars, DropletsRuns, CirclesRuns, FilesRuns, TreeRuns, SyncthingRuns,
       GatewayRuns, LabelsRuns, VestingRuns, StatsRuns, treeVars, Tr!vars
  <1> QED  BY <1>1, <1>2, PTL DEF Spec, Tr!Spec

\* The tree stays typed and is what its paths say.
LEMMA TreeKept == Spec => [](Tr!TypeOK /\ Tr!TreeIsItsPaths)
  <1>1. TreeInv /\ [Tr!Next]_(Tr!vars) => TreeInv'
    BY TreeNext
  <1> QED  BY <1>1, TreeInit, TreePaths, TreeSteps, PTL DEF Tr!Spec

-----------------------------------------------------------------------------
(* Syncthing.                                                              *)

\* A name is twice in a list only if it was added while first in one.
Once(names, added) ==
    \A i, j \in DOMAIN names : i # j /\ names[i] = names[j] => names[i] \in added

\* A client that is not behind has what the server has; and no copy, which may be posted
\* at any time, has a name twice that was not added while first.
SyncthingInv ==
    /\ Sy!TypeOK
    /\ \A c \in Callers : copies[c] # Sy!None =>
         /\ Len(copies[c]) <= MaxEntries /\ Once(copies[c], heads)
         /\ c \notin outdated => copies[c] = entries
    /\ lost = {} /\ Once(entries, heads)

\* What stands for no copy is not a list.
LEMMA SyncthingConstants == Sy!None \notin Seq(EntryNames) /\ MaxEntries \in Nat
  <1>1. "none" \notin EntryNames /\ MaxEntries \in Nat
    BY ClientsAssumption DEF ClientsAssumption, Sy!SyncthingAssumption
  <1>2. ASSUME Sy!None \in Seq(EntryNames) PROVE FALSE
    <2>1. Len(Sy!None) = 1 /\ Sy!None[1] = "none"
      BY DEF Sy!None
    <2>2. Sy!None[1] \in EntryNames
      BY <1>2, <2>1
    <2> QED  BY <1>1, <2>1, <2>2
  <1> QED  BY <1>1, <1>2

\* The server begins with nothing in its list, and nobody has a copy.
LEMMA SyncthingInit == Sy!Init => SyncthingInv
  BY SyncthingConstants DEF Sy!Init, SyncthingInv, Sy!TypeOK, Once

\* The place of a name is where it comes first, and 0 if it is not there.
LEMMA PlaceIsFirst ==
  ASSUME NEW s \in Seq(EntryNames), NEW n
  PROVE  LET p == Sy!Place(s, n)
         IN \/ p = 0 /\ \A i \in 1 .. Len(s) : s[i] # n
            \/ p \in 1 .. Len(s) /\ s[p] = n
  <1> DEFINE I == {i \in 1 .. Len(s) : s[i] = n}
  <1>1. Sy!Place(s, n) = IF I # {} THEN Sy!Min(I) ELSE 0
    BY DEF Sy!Place, Sy!SelectInSeq
  <1>2. CASE I = {}
    BY <1>1, <1>2
  <1>3. CASE I # {}
    <2>1. I \in SUBSET Nat
      OBVIOUS
    <2>2. \E m \in I : \A x \in I : m <= x
      <3> HIDE DEF I
      <3> QED  BY <1>3, <2>1, SomeSmallest
    <2>3. Sy!Min(I) \in I
      <3> HIDE DEF I
      <3> QED  BY <2>2 DEF Sy!Min
    <2> QED  BY <1>1, <1>3, <2>3
  <1> QED  BY <1>2, <1>3

\* A list without the entry at p.
LEMMA WithoutFacts ==
  ASSUME NEW s \in Seq(EntryNames), NEW p \in 1 .. Len(s)
  PROVE  LET w == Sy!RemoveAt(s, p)
         IN /\ w \in Seq(EntryNames) /\ Len(w) = Len(s) - 1
            /\ \A i \in 1 .. Len(w) : w[i] = IF i < p THEN s[i] ELSE s[i + 1]
  <1> DEFINE u == SubSeq(s, 1, p - 1)
             v == SubSeq(s, p + 1, Len(s))
  <1>1. Len(s) \in Nat /\ p \in Nat /\ \A i \in 1 .. Len(s) : s[i] \in EntryNames
    OBVIOUS
  <1>2. u = [i \in 1 .. p - 1 |-> s[i]] /\ v = [i \in 1 .. Len(s) - p |-> s[i + p]]
    BY <1>1
  <1>3. u \in Seq(EntryNames) /\ Len(u) = p - 1 /\ \A i \in 1 .. p - 1 : u[i] = s[i]
    BY <1>1, <1>2
  <1>4. v \in Seq(EntryNames) /\ Len(v) = Len(s) - p /\ \A i \in 1 .. Len(s) - p : v[i] = s[i + p]
    BY <1>1, <1>2
  <1> HIDE DEF u, v
  <1>5. Sy!RemoveAt(s, p) = u \o v
    BY DEF Sy!RemoveAt, u, v
  <1>6. /\ u \o v \in Seq(EntryNames) /\ Len(u \o v) = Len(u) + Len(v)
        /\ \A i \in 1 .. Len(u) + Len(v) : (u \o v)[i] = IF i <= Len(u) THEN u[i] ELSE v[i - Len(u)]
    BY <1>3, <1>4, ConcatProperties
  <1> DEFINE w == u \o v
  <1> HIDE DEF w
  <1>7. /\ w \in Seq(EntryNames) /\ Len(w) = Len(s) - 1
        /\ \A i \in 1 .. Len(s) - 1 : w[i] = IF i <= p - 1 THEN u[i] ELSE v[i - (p - 1)]
    BY <1>1, <1>3, <1>4, <1>6 DEF w
  <1>8. ASSUME NEW i \in 1 .. Len(s) - 1 PROVE w[i] = IF i < p THEN s[i] ELSE s[i + 1]
    <2>1. CASE i < p
      BY <1>1, <1>3, <1>7, <2>1
    <2>2. CASE ~ (i < p)
      <3>1. i - (p - 1) \in 1 .. Len(s) - p /\ (i - (p - 1)) + p = i + 1
        BY <1>1, <2>2
      <3> QED  BY <1>1, <1>4, <1>7, <2>2, <3>1
    <2> QED  BY <2>1, <2>2
  <1> QED  BY <1>5, <1>7, <1>8 DEF w

\* What is taken out can be missed once; and nothing is twice that was not.
LEMMA WithoutKeeps ==
  ASSUME NEW s \in Seq(EntryNames), NEW n, Sy!Finds(s, n), Once(s, heads)
  PROVE  LET w == Sy!Without(s, n)
         IN /\ w \in Seq(EntryNames) /\ Len(w) = Len(s) - 1 /\ Len(s) # 0
            /\ Sy!ToSet(s) \subseteq Sy!ToSet(w) \cup {n}
            /\ Once(w, heads) /\ ((\E i \in DOMAIN w : w[i] = n) => n \in heads)
  <1> DEFINE p == Sy!Place(s, n)
             w == Sy!Without(s, n)
             from(i) == IF i < p THEN i ELSE i + 1
  <1>1. p \in 1 .. Len(s) /\ s[p] = n
    <2>1. p > 1
      BY DEF Sy!Finds
    <2> HIDE DEF p
    <2>2. p = 0 \/ (p \in 1 .. Len(s) /\ s[p] = n)
      BY PlaceIsFirst DEF p
    <2> QED  BY <2>1, <2>2
  <1>2. w = Sy!RemoveAt(s, p)
    BY DEF Sy!Without
  <1> HIDE DEF p, w
  <1>3. /\ w \in Seq(EntryNames) /\ Len(w) = Len(s) - 1
        /\ \A i \in 1 .. Len(w) : w[i] = IF i < p THEN s[i] ELSE s[i + 1]
    BY <1>1, <1>2, WithoutFacts
  <1>4. /\ DOMAIN s = 1 .. Len(s) /\ DOMAIN w = 1 .. Len(w) /\ Len(s) \in Nat /\ Len(w) \in Nat
        /\ p \in Nat /\ p >= 1 /\ p <= Len(s)
    BY <1>1, <1>3
  <1>5. \A i \in DOMAIN w : from(i) \in DOMAIN s /\ from(i) # p /\ w[i] = s[from(i)]
    BY <1>3, <1>4
  <1>6. \A i, j \in DOMAIN w : i # j => from(i) # from(j)
    BY <1>4
  <1> HIDE DEF from
  <1>7. Once(w, heads)
    BY <1>5, <1>6 DEF Once
  <1>8. (\E i \in DOMAIN w : w[i] = n) => n \in heads
    BY <1>1, <1>4, <1>5 DEF Once
  <1>9. ASSUME NEW i \in DOMAIN s PROVE s[i] = n \/ \E j \in DOMAIN w : w[j] = s[i]
    <2>1. CASE i = p
      BY <1>1, <2>1
    <2>2. CASE i < p
      <3>1. i \in DOMAIN w /\ w[i] = s[i]
        BY <1>3, <1>4, <2>2
      <3> QED  BY <3>1
    <2>3. CASE i > p
      <3>1. i - 1 \in DOMAIN w /\ w[i - 1] = s[i]
        BY <1>3, <1>4, <2>3
      <3> QED  BY <3>1
    <2> QED  BY <1>4, <2>1, <2>2, <2>3
  <1>10. Sy!ToSet(s) \subseteq Sy!ToSet(w) \cup {n}
    BY <1>9 DEF Sy!ToSet
  <1> QED  BY <1>3, <1>4, <1>7, <1>8, <1>10 DEF w

\* A list with one more entry.
LEMMA AppendFacts ==
  ASSUME NEW s \in Seq(EntryNames), NEW n \in EntryNames
  PROVE  LET w == Append(s, n)
         IN /\ w \in Seq(EntryNames) /\ Len(w) = Len(s) + 1 /\ DOMAIN w = 1 .. Len(s) + 1
            /\ \A i \in 1 .. Len(w) : w[i] = IF i = Len(s) + 1 THEN n ELSE s[i]
            /\ Sy!ToSet(w) = Sy!ToSet(s) \cup {n}
  <1> DEFINE w == Append(s, n)
  <1>1. /\ w \in Seq(EntryNames) /\ Len(w) = Len(s) + 1 /\ DOMAIN w = 1 .. Len(s) + 1
        /\ \A i \in 1 .. Len(w) : w[i] = IF i = Len(s) + 1 THEN n ELSE s[i]
    OBVIOUS
  <1>2. DOMAIN s = 1 .. Len(s) /\ Len(s) \in Nat
    OBVIOUS
  <1> HIDE DEF w
  <1>3. \A x : x \in Sy!ToSet(w) <=> x = n \/ x \in Sy!ToSet(s)
    <2>1. ASSUME NEW i \in DOMAIN w PROVE w[i] = n \/ \E j \in DOMAIN s : w[i] = s[j]
      BY <1>1, <1>2
    <2>2. ASSUME NEW j \in DOMAIN s PROVE j \in DOMAIN w /\ w[j] = s[j]
      BY <1>1, <1>2
    <2>3. Len(s) + 1 \in DOMAIN w /\ w[Len(s) + 1] = n
      BY <1>1, <1>2
    <2> QED  BY <2>1, <2>2, <2>3 DEF Sy!ToSet
  <1>4. Sy!ToSet(w) = Sy!ToSet(s) \cup {n}
    BY <1>3
  <1> QED  BY <1>1, <1>4 DEF w

\* A change that is posted, or is not.
LEMMA PostsKeeps ==
  ASSUME SyncthingInv, NEW c \in Callers, copies[c] # Sy!None,
         NEW names \in Seq(EntryNames), NEW asked, NEW ok \in BOOLEAN,
         Sy!Posts(c, names, asked, ok),
         Len(names) <= MaxEntries, Once(names, heads'),
         Sy!ToSet(copies[c]) \subseteq Sy!ToSet(names) \cup asked,
         heads \subseteq heads', heads' \subseteq EntryNames
  PROVE  SyncthingInv'
  <1>1. copies \in [Callers -> Seq(EntryNames) \cup {Sy!None}] /\ lost = {}
    BY DEF SyncthingInv, Sy!TypeOK
  <1>2. copies' = [copies EXCEPT ![c] = names] /\ names # Sy!None
    BY SyncthingConstants DEF Sy!Posts
  <1>3. /\ copies' \in [Callers -> Seq(EntryNames) \cup {Sy!None}] /\ copies'[c] = names
        /\ \A d \in Callers \ {c} : copies'[d] = copies[d]
    BY <1>1, <1>2
  <1>4. \A s : Once(s, heads) => Once(s, heads')
    BY DEF Once
  <1>5. \A d \in Callers : copies'[d] # Sy!None => Len(copies'[d]) <= MaxEntries /\ Once(copies'[d], heads')
    BY <1>3, <1>4 DEF SyncthingInv
  <1>6. CASE ok
    <2>1. /\ entries' = names /\ outdated' = {d \in Callers \ {c} : copies[d] # Sy!None}
          /\ lost' = IF c \in outdated THEN lost
                     ELSE lost \cup (Sy!ToSet(entries) \ (Sy!ToSet(names) \cup asked))
      BY <1>6 DEF Sy!Posts
    <2>2. lost' = {}
      <3>1. c \notin outdated => entries = copies[c]
        BY DEF SyncthingInv
      <3> QED  BY <1>1, <2>1, <3>1
    <2>3. \A d \in Callers : copies'[d] # Sy!None /\ d \notin outdated' => copies'[d] = entries'
      BY <1>3, <2>1
    <2>4. Sy!TypeOK'
      BY <1>3, <2>1, <2>2 DEF Sy!TypeOK, Sy!None
    <2>5. Once(entries', heads')
      BY <2>1 DEF Once
    <2> QED  BY <1>5, <2>2, <2>3, <2>4, <2>5 DEF SyncthingInv, Once, Sy!None
  <1>7. CASE ~ ok
    <2>1. outdated' = outdated \cup {c} /\ UNCHANGED <<entries, lost>>
      BY <1>7 DEF Sy!Posts
    <2>2. \A d \in Callers : copies'[d] # Sy!None /\ d \notin outdated' => copies'[d] = entries'
      BY <1>3, <2>1 DEF SyncthingInv
    <2>3. Sy!TypeOK'
      BY <1>3, <2>1 DEF Sy!TypeOK, Sy!None, SyncthingInv
    <2>4. Once(entries', heads')
      BY <2>1, <1>4 DEF Once, SyncthingInv
    <2> QED  BY <1>1, <1>5, <2>1, <2>2, <2>3, <2>4 DEF SyncthingInv, Once, Sy!None
  <1> QED  BY <1>6, <1>7

\* Adding a name keeps the list, whether it is posted or not.
LEMMA SyncthingAdd ==
  ASSUME SyncthingInv, NEW c \in Callers, NEW n \in EntryNames, NEW overwrite \in BOOLEAN,
         NEW ok \in BOOLEAN, Sy!Add(c, n, overwrite, ok)
  PROVE  SyncthingInv'
  <1> DEFINE s == copies[c]
             k == Sy!Kept(s, n)
             w == Append(k, n)
  <1>1. /\ s # Sy!None /\ Len(s) < MaxEntries /\ Sy!Posts(c, w, {}, ok)
        /\ heads' = IF Sy!Place(s, n) = 1 THEN heads \cup {n} ELSE heads
    BY DEF Sy!Add
  <1>2. s \in Seq(EntryNames) /\ Once(s, heads) /\ heads \subseteq EntryNames
    BY <1>1 DEF SyncthingInv, Sy!TypeOK
  <1> HIDE DEF s
  <1>3. heads \subseteq heads' /\ heads' \subseteq EntryNames
    BY <1>1, <1>2
  <1>4. /\ k \in Seq(EntryNames) /\ Len(k) <= Len(s) /\ Sy!ToSet(s) \subseteq Sy!ToSet(k) \cup {n}
        /\ Once(k, heads) /\ ((\E i \in DOMAIN k : k[i] = n) => n \in heads')
    <2>1. CASE Sy!Finds(s, n)
      <3>1. k = Sy!Without(s, n)
        BY <2>1 DEF Sy!Kept
      <3>2. Len(s) \in Nat
        BY <1>2
      <3> HIDE DEF k
      <3> QED  BY <1>2, <1>3, <2>1, <3>1, <3>2, WithoutKeeps
    <2>2. CASE ~ Sy!Finds(s, n)
      <3>1. k = s
        BY <2>2 DEF Sy!Kept
      <3>2. Len(s) \in Nat /\ DOMAIN s = 1 .. Len(s)
        BY <1>2
      <3>3. (\E i \in DOMAIN s : s[i] = n) => Sy!Place(s, n) = 1
        <4> DEFINE p == Sy!Place(s, n)
        <4>1. ~ (p > 1)
          BY <2>2 DEF Sy!Finds
        <4> HIDE DEF p
        <4>2. \/ p = 0 /\ \A i \in 1 .. Len(s) : s[i] # n
              \/ p \in 1 .. Len(s) /\ s[p] = n
          BY <1>2, PlaceIsFirst DEF p
        <4> QED  BY <3>2, <4>1, <4>2 DEF p
      <3> HIDE DEF k
      <3> QED  BY <1>1, <1>2, <3>1, <3>2, <3>3
    <2> QED  BY <2>1, <2>2
  <1> HIDE DEF k
  <1>5. /\ w \in Seq(EntryNames) /\ Len(w) = Len(k) + 1 /\ DOMAIN w = 1 .. Len(k) + 1
        /\ \A i \in 1 .. Len(w) : w[i] = IF i = Len(k) + 1 THEN n ELSE k[i]
        /\ Sy!ToSet(w) = Sy!ToSet(k) \cup {n}
    BY <1>4, AppendFacts
  <1> HIDE DEF w
  <1>6. Len(w) <= MaxEntries
    <2>1. Len(k) \in Nat /\ Len(s) \in Nat
      BY <1>2, <1>4
    <2> QED  BY <1>1, <1>4, <1>5, <2>1, SyncthingConstants
  <1>7. Once(w, heads')
    <2>1. DOMAIN k = 1 .. Len(k) /\ Len(k) \in Nat
      BY <1>4
    <2>2. \A i \in DOMAIN w : (i = Len(k) + 1 /\ w[i] = n) \/ (i \in DOMAIN k /\ w[i] = k[i])
      BY <1>5, <2>1
    <2>3. ASSUME NEW i \in DOMAIN w, NEW j \in DOMAIN w, i # j, w[i] = w[j] PROVE w[i] \in heads'
      <3>1. CASE i \in DOMAIN k /\ j \in DOMAIN k
        BY <1>3, <1>4, <1>5, <2>1, <2>3, <3>1 DEF Once
      <3>2. CASE ~ (i \in DOMAIN k /\ j \in DOMAIN k)
        BY <1>4, <2>2, <2>3, <3>2
      <3> QED  BY <3>1, <3>2
    <2> QED  BY <2>3 DEF Once
  <1>8. Sy!ToSet(s) \subseteq Sy!ToSet(w) \cup {}
    BY <1>4, <1>5
  <1> QED  BY <1>1, <1>3, <1>5, <1>6, <1>7, <1>8, PostsKeeps DEF s

\* Deleting a name keeps the list, whether it is posted or not.
LEMMA SyncthingDelete ==
  ASSUME SyncthingInv, NEW c \in Callers, NEW n \in EntryNames, NEW ok \in BOOLEAN,
         Sy!Delete(c, n, ok)
  PROVE  SyncthingInv'
  <1> DEFINE s == copies[c]
             w == Sy!Without(s, n)
  <1>1. s # Sy!None /\ Sy!Finds(s, n) /\ Sy!Posts(c, w, {n}, ok) /\ heads' = heads
    BY DEF Sy!Delete
  <1>2. s \in Seq(EntryNames) /\ Once(s, heads) /\ heads \subseteq EntryNames /\ Len(s) <= MaxEntries
    BY <1>1 DEF SyncthingInv, Sy!TypeOK
  <1> HIDE DEF s
  <1>3. /\ w \in Seq(EntryNames) /\ Len(w) = Len(s) - 1
        /\ Sy!ToSet(s) \subseteq Sy!ToSet(w) \cup {n} /\ Once(w, heads)
    BY <1>1, <1>2, WithoutKeeps
  <1> HIDE DEF w
  <1>4. Len(w) <= MaxEntries
    <2>1. Len(s) \in Nat
      BY <1>2
    <2> QED  BY <1>2, <1>3, <2>1, SyncthingConstants
  <1>5. Once(w, heads')
    BY <1>1, <1>3 DEF Once
  <1> QED  BY <1>1, <1>2, <1>3, <1>4, <1>5, PostsKeeps DEF s

\* Every call of the client keeps the list.
LEMMA SyncthingNext == ASSUME SyncthingInv, [Sy!Next]_(Sy!vars) PROVE SyncthingInv'
  <1>0. copies \in [Callers -> Seq(EntryNames) \cup {Sy!None}] /\ entries \in Seq(EntryNames)
    BY DEF SyncthingInv, Sy!TypeOK
  <1>1. ASSUME NEW c \in Callers, Sy!Read(c) PROVE SyncthingInv'
    <2>1. /\ copies' = [copies EXCEPT ![c] = entries] /\ outdated' = outdated \ {c}
          /\ UNCHANGED <<entries, heads, lost>>
      BY <1>1 DEF Sy!Read
    <2>2. /\ copies' \in [Callers -> Seq(EntryNames) \cup {Sy!None}] /\ copies'[c] = entries
          /\ \A d \in Callers \ {c} : copies'[d] = copies[d]
      BY <1>0, <2>1
    <2>3. Sy!TypeOK'
      BY <2>1, <2>2 DEF SyncthingInv, Sy!TypeOK, Sy!None
    <2>4. Once(entries, heads) /\ Len(entries) <= MaxEntries
      BY DEF SyncthingInv, Sy!TypeOK
    <2> QED  BY <2>1, <2>2, <2>3, <2>4 DEF SyncthingInv, Once, Sy!None
  <1>2. ASSUME NEW c \in Callers, Sy!Reload(c) PROVE SyncthingInv'
    <2>1. copies' = [copies EXCEPT ![c] = Sy!None] /\ UNCHANGED <<entries, outdated, heads, lost>>
      BY <1>2 DEF Sy!Reload
    <2>2. /\ copies' \in [Callers -> Seq(EntryNames) \cup {Sy!None}] /\ copies'[c] = Sy!None
          /\ \A d \in Callers \ {c} : copies'[d] = copies[d]
      BY <1>0, <2>1
    <2>3. Sy!TypeOK'
      BY <2>1, <2>2 DEF SyncthingInv, Sy!TypeOK, Sy!None
    <2> QED  BY <2>1, <2>2, <2>3 DEF SyncthingInv, Once, Sy!None
  <1>3. CASE UNCHANGED Sy!vars
    BY <1>3 DEF Sy!vars, SyncthingInv, Sy!TypeOK, Once, Sy!None
  <1> QED  BY <1>1, <1>2, <1>3, SyncthingAdd, SyncthingDelete DEF Sy!Next

\* The behaviours of Clients are behaviours of Syncthing.
LEMMA SyncthingSteps == Spec => Sy!Spec
  <1>1. Init => Sy!Init
    BY DEF Init
  <1>2. [Next]_vars => [Sy!Next]_(Sy!vars)
    BY DEF Next, vars, DropletsRuns, CirclesRuns, FilesRuns, TreeRuns, SyncthingRuns,
       GatewayRuns, LabelsRuns, VestingRuns, StatsRuns, syncthingVars, Sy!vars
  <1> QED  BY <1>1, <1>2, PTL DEF Spec, Sy!Spec

\* The list stays typed, and what was put in it stays.
LEMMA SyncthingKept == Spec => [](Sy!TypeOK /\ Sy!EntriesKept)
  <1>1. SyncthingInv /\ [Sy!Next]_(Sy!vars) => SyncthingInv'
    BY SyncthingNext
  <1>2. SyncthingInv => Sy!TypeOK /\ Sy!EntriesKept
    BY DEF SyncthingInv, Sy!EntriesKept, Once
  <1> QED  BY <1>1, <1>2, SyncthingInit, SyncthingSteps, PTL DEF Sy!Spec

-----------------------------------------------------------------------------
(* Gateway.                                                                *)

Registrations == [at : {"idle", "exists", "get", "set"}, host : Hosts,
                  type : Ga!Types, ip : Ga!Addresses, read : [Ga!Types -> Seq(Ga!Addresses)]]

\* A caller that is about to write and was not overtaken has read what is there.
GatewayInv ==
    /\ Ga!TypeOK
    /\ \A c \in Callers : /\ registering[c].at \in {"exists", "get"} => registering[c].read = Ga!Unset
                          /\ registering[c].at = "set" /\ c \notin behind
                               => registering[c].read = records[registering[c].host]
    /\ Ga!RecordsKept

\* The constants of the gateway: there is a host, and an address.
LEMMA GatewayConstants ==
  /\ Hosts # {} /\ Ga!Addresses # {} /\ MaxRecords \in Nat /\ Malformed \notin Ga!Addresses
  BY ClientsAssumption DEF ClientsAssumption, Ga!GatewayAssumption, Ga!Addresses

\* A caller that registers nothing is typed, and nothing is no record.
LEMMA GatewayIdle ==
  /\ Ga!Idle \in Registrations /\ Ga!Idle.at = "idle"
  /\ Ga!Unset \in [Ga!Types -> Seq(Ga!Addresses)] /\ Ga!Size(Ga!Unset) = 0
  <1>1. Ga!AnyHost \in Hosts /\ Ga!AnyAddress \in Ga!Addresses
    BY GatewayConstants DEF Ga!AnyHost, Ga!AnyAddress
  <1>2. <<>> \in Seq(Ga!Addresses) /\ Len(<<>>) = 0 /\ "a" \in Ga!Types
    BY DEF Ga!Types
  <1>3. Ga!Unset \in [Ga!Types -> Seq(Ga!Addresses)] /\ Ga!Size(Ga!Unset) = 0
    BY <1>2 DEF Ga!Unset, Ga!Size, Ga!Types
  <1> QED  BY <1>1, <1>2, <1>3 DEF Ga!Idle, Registrations

\* The gateway begins with no records.
LEMMA GatewayInit == Ga!Init => GatewayInv
  <1> SUFFICES ASSUME Ga!Init PROVE GatewayInv
    OBVIOUS
  <1>1. /\ records = [h \in Hosts |-> Ga!Unset] /\ services = {} /\ behind = {} /\ kept = {}
        /\ registering = [c \in Callers |-> Ga!Idle]
    BY DEF Ga!Init
  <1>2. registering \in [Callers -> Registrations]
    BY <1>1, GatewayIdle
  <1>3. records \in [Hosts -> [Ga!Types -> Seq(Ga!Addresses)]]
        /\ \A h \in Hosts : Ga!Size(records[h]) <= MaxRecords
    <2>1. 0 <= MaxRecords
      BY GatewayConstants
    <2> QED  BY <1>1, <2>1, GatewayIdle
  <1>4. Ga!TypeOK
    BY <1>1, <1>2, <1>3 DEF Ga!TypeOK, Registrations
  <1>5. \A c \in Callers : registering[c].at = "idle"
    BY <1>1, GatewayIdle
  <1> QED  BY <1>1, <1>4, <1>5 DEF GatewayInv, Ga!RecordsKept

\* A caller that goes on without a write.
LEMMA GatewayGoes ==
  ASSUME GatewayInv, NEW c \in Callers, NEW r \in Registrations,
         registering' = [registering EXCEPT ![c] = r],
         r.at \in {"exists", "get"} => r.read = Ga!Unset,
         r.at = "set" => r.read = records[r.host],
         behind' \subseteq behind, behind \ {c} \subseteq behind',
         UNCHANGED <<records, services, kept>>
  PROVE  GatewayInv'
  <1>1. registering \in [Callers -> Registrations]
    BY DEF GatewayInv, Ga!TypeOK, Registrations
  <1>2. registering' \in [Callers -> Registrations]
    BY <1>1
  <1>3. Ga!TypeOK'
    BY <1>2 DEF GatewayInv, Ga!TypeOK, Registrations, Ga!Size, Ga!Types, Ga!Addresses
  <1>4. ASSUME NEW d \in Callers
        PROVE  /\ registering'[d].at \in {"exists", "get"} => registering'[d].read = Ga!Unset
               /\ registering'[d].at = "set" /\ d \notin behind'
                    => registering'[d].read = records'[registering'[d].host]
    <2>1. CASE d = c
      BY <1>1, <2>1
    <2>2. CASE d # c
      <3>1. registering'[d] = registering[d] /\ (d \notin behind' => d \notin behind)
        BY <1>1, <2>2
      <3> QED  BY <3>1 DEF GatewayInv
    <2> QED  BY <2>1, <2>2
  <1>5. Ga!RecordsKept'
    BY DEF GatewayInv, Ga!RecordsKept, Ga!ToSet
  <1>6. Ga!Unset' = Ga!Unset
    BY DEF Ga!Unset, Ga!Types
  <1> QED  BY <1>3, <1>4, <1>5, <1>6 DEF GatewayInv

\* A write keeps the records of all but those it overtakes.
LEMMA GatewaySet ==
  ASSUME GatewayInv, NEW c \in Callers, Ga!Set(c)
  PROVE  GatewayInv'
  <1> DEFINE r == registering[c]
             host == Ga!Extended(r)
             mine == <<r.host, r.type, r.ip>>
             overwritten == {k \in kept : k[1] = r.host /\ <<k[2], k[3]>> \notin Ga!Has(host)}
             before == IF c \in behind THEN kept \ overwritten ELSE kept
             overtaken == {d \in Callers \ {c} : /\ registering[d].at \in {"get", "set"}
                                                 /\ registering[d].host = r.host}
  <1>1. /\ r.at = "set" /\ Ga!Size(host) <= MaxRecords
        /\ records' = [records EXCEPT ![r.host] = host]
        /\ kept' = before \cup {mine}
        /\ behind' = (behind \ {c}) \cup overtaken
        /\ registering' = [registering EXCEPT ![c] = Ga!Idle]
        /\ services' = services
    BY DEF Ga!Set, Ga!At
  <1>2. /\ registering \in [Callers -> Registrations]
        /\ records \in [Hosts -> [Ga!Types -> Seq(Ga!Addresses)]]
        /\ kept \subseteq Hosts \X Ga!Types \X Ga!Addresses
        /\ r \in Registrations
    BY DEF GatewayInv, Ga!TypeOK, Registrations
  <1>3. /\ r.host \in Hosts /\ r.type \in Ga!Types /\ r.ip \in Ga!Addresses
        /\ r.read \in [Ga!Types -> Seq(Ga!Addresses)]
    BY <1>2 DEF Registrations
  <1> HIDE DEF r
  <1>4. /\ host \in [Ga!Types -> Seq(Ga!Addresses)]
        /\ \A t \in Ga!Types : Ga!ToSet(r.read[t]) \subseteq Ga!ToSet(host[t])
        /\ r.ip \in Ga!ToSet(host[r.type])
    <2> DEFINE new == <<r.ip>> \o r.read[r.type]
    <2>1. r.read[r.type] \in Seq(Ga!Addresses) /\ <<r.ip>> \in Seq(Ga!Addresses)
      BY <1>3
    <2>2. new \in Seq(Ga!Addresses) /\ Len(new) = 1 + Len(r.read[r.type]) /\ new[1] = r.ip
          /\ \A i \in 1 .. Len(r.read[r.type]) : new[i + 1] = r.read[r.type][i]
      BY <2>1
    <2>3. r.ip \in Ga!ToSet(new) /\ Ga!ToSet(r.read[r.type]) \subseteq Ga!ToSet(new)
      <3> HIDE DEF new
      <3>1. DOMAIN new = 1 .. Len(new) /\ DOMAIN r.read[r.type] = 1 .. Len(r.read[r.type])
            /\ Len(r.read[r.type]) \in Nat
        BY <2>1, <2>2
      <3>2. 1 \in DOMAIN new
        BY <2>2, <3>1
      <3>3. \A i \in DOMAIN r.read[r.type] : i + 1 \in DOMAIN new
        BY <2>2, <3>1
      <3>4. r.ip \in Ga!ToSet(new)
        BY <2>2, <3>2 DEF Ga!ToSet
      <3>5. ASSUME NEW i \in DOMAIN r.read[r.type] PROVE r.read[r.type][i] \in Ga!ToSet(new)
        <4>1. i + 1 \in DOMAIN new /\ new[i + 1] = r.read[r.type][i]
          BY <2>2, <3>1, <3>3
        <4> QED  BY <4>1 DEF Ga!ToSet
      <3> QED  BY <3>4, <3>5 DEF Ga!ToSet
    <2> HIDE DEF new
    <2>4. host = [r.read EXCEPT ![r.type] = new]
      BY DEF Ga!Extended, new
    <2> HIDE DEF host
    <2>5. host[r.type] = new /\ \A t \in Ga!Types \ {r.type} : host[t] = r.read[t]
      BY <1>3, <2>4
    <2>6. host \in [Ga!Types -> Seq(Ga!Addresses)]
      BY <1>3, <2>2, <2>4
    <2> QED  BY <2>3, <2>5, <2>6
  <1>5. ASSUME NEW k \in kept'
        PROVE  /\ k \in Hosts \X Ga!Types \X Ga!Addresses
               /\ k[3] \in Ga!ToSet(records'[k[1]][k[2]])
    <2> HIDE DEF host
    <2>1. CASE k = mine
      <3>1. k[1] = r.host /\ k[2] = r.type /\ k[3] = r.ip /\ k \in Hosts \X Ga!Types \X Ga!Addresses
        BY <1>3, <2>1
      <3>2. records'[r.host] = host
        BY <1>1, <1>2, <1>3
      <3> QED  BY <1>4, <3>1, <3>2
    <2>2. CASE k \in before
      <3>1. k \in kept /\ k \in Hosts \X Ga!Types \X Ga!Addresses
        BY <1>2, <2>2
      <3>2. k[1] \in Hosts /\ k[2] \in Ga!Types /\ k[3] \in Ga!ToSet(records[k[1]][k[2]])
        BY <3>1 DEF GatewayInv, Ga!RecordsKept
      <3>3. CASE k[1] # r.host
        <4>1. records'[k[1]] = records[k[1]]
          BY <1>1, <1>2, <3>2, <3>3
        <4> QED  BY <3>1, <3>2, <4>1
      <3>4. CASE k[1] = r.host
        <4>1. records'[k[1]] = host
          BY <1>1, <1>2, <1>3, <3>4
        <4>2. CASE c \in behind
          <5>1. <<k[2], k[3]>> \in Ga!Has(host)
            BY <2>2, <3>1, <3>4, <4>2
          <5>2. PICK t \in Ga!Types : <<k[2], k[3]>> \in {t} \X Ga!ToSet(host[t])
            BY <5>1 DEF Ga!Has
          <5>3. k[2] = t /\ k[3] \in Ga!ToSet(host[t])
            BY <5>2
          <5> QED  BY <3>1, <4>1, <5>3
        <4>3. CASE c \notin behind
          <5>1. r.read = records[r.host]
            BY <1>1, <4>3 DEF GatewayInv, r
          <5> QED  BY <1>4, <3>1, <3>2, <3>4, <4>1, <5>1
        <4> QED  BY <4>2, <4>3
      <3> QED  BY <3>3, <3>4
    <2> QED  BY <1>1, <2>1, <2>2
  <1> HIDE DEF host, mine, before
  <1>6. /\ records' \in [Hosts -> [Ga!Types -> Seq(Ga!Addresses)]]
        /\ \A h \in Hosts : Ga!Size(records'[h]) <= MaxRecords
    <2>1. \A h \in Hosts : records'[h] = IF h = r.host THEN host ELSE records[h]
      BY <1>1, <1>2, <1>3
    <2>2. \A h \in Hosts : Ga!Size(records[h]) <= MaxRecords
      BY DEF GatewayInv, Ga!TypeOK
    <2>3. records' \in [Hosts -> [Ga!Types -> Seq(Ga!Addresses)]]
      BY <1>1, <1>2, <1>4
    <2> QED  BY <1>1, <2>1, <2>2, <2>3
  <1>7. registering' \in [Callers -> Registrations]
        /\ \A d \in Callers : registering'[d] = IF d = c THEN Ga!Idle ELSE registering[d]
    BY <1>1, <1>2, GatewayIdle
  <1>8. behind' \subseteq Callers /\ services' \subseteq Hosts
    BY <1>1 DEF GatewayInv, Ga!TypeOK
  <1>9. Ga!Types' = Ga!Types /\ Ga!Addresses' = Ga!Addresses /\ Ga!Unset' = Ga!Unset
        /\ \A h : Ga!Size(h)' = Ga!Size(h)
    BY DEF Ga!Types, Ga!Addresses, Ga!Unset, Ga!Size
  <1>10. Ga!TypeOK'
    BY <1>5, <1>6, <1>7, <1>8, <1>9 DEF Ga!TypeOK, Registrations
  <1>11. Ga!RecordsKept'
    BY <1>5 DEF Ga!RecordsKept, Ga!ToSet
  <1>12. ASSUME NEW d \in Callers
         PROVE  /\ registering'[d].at \in {"exists", "get"} => registering'[d].read = Ga!Unset
                /\ registering'[d].at = "set" /\ d \notin behind'
                     => registering'[d].read = records'[registering'[d].host]
    <2>1. CASE d = c
      BY <1>7, <2>1, GatewayIdle
    <2>2. CASE d # c
      <3>1. registering'[d] = registering[d] /\ registering[d].host \in Hosts
        BY <1>2, <1>7, <2>2 DEF Registrations
      <3>2. registering[d].at = "set" /\ d \notin behind' => registering[d].host # r.host /\ d \notin behind
        BY <1>1, <2>2
      <3>3. registering[d].host # r.host => records'[registering[d].host] = records[registering[d].host]
        BY <1>1, <1>2, <3>1
      <3> QED  BY <3>1, <3>2, <3>3 DEF GatewayInv
    <2> QED  BY <2>1, <2>2
  <1> QED  BY <1>9, <1>10, <1>11, <1>12 DEF GatewayInv

\* Every request to the gateway keeps its records.
LEMMA GatewayNext == ASSUME GatewayInv, [Ga!Next]_(Ga!vars) PROVE GatewayInv'
  <1>0. registering \in [Callers -> Registrations]
        /\ \A h \in Hosts : records[h] \in [Ga!Types -> Seq(Ga!Addresses)]
    BY DEF GatewayInv, Ga!TypeOK, Registrations
  <1>1. CASE \E h \in Hosts : Ga!RegisterService(h)
    <2>1. UNCHANGED <<records, registering, behind, kept>> /\ services' \subseteq Hosts
      BY <1>1 DEF Ga!RegisterService, GatewayInv, Ga!TypeOK
    <2>2. Ga!TypeOK'
      BY <1>0, <2>1 DEF GatewayInv, Ga!TypeOK, Ga!Size, Ga!Types, Ga!Addresses
    <2>3. Ga!RecordsKept'
      BY <2>1 DEF GatewayInv, Ga!RecordsKept, Ga!ToSet
    <2> QED  BY <2>1, <2>2, <2>3 DEF GatewayInv, Ga!Unset, Ga!Types
  <1>2. ASSUME NEW c \in Callers, NEW h \in Hosts, NEW t \in Ga!Types,
               NEW ip \in Ga!Addresses \cup {Malformed}, Ga!Register(c, h, t, ip)
        PROVE  GatewayInv'
    <2> DEFINE r == [at |-> "exists", host |-> h, type |-> t, ip |-> ip, read |-> Ga!Unset]
    <2>1. ip \in Ga!Addresses /\ registering' = [registering EXCEPT ![c] = r]
          /\ UNCHANGED <<records, services, behind, kept>>
      BY <1>2 DEF Ga!Register, Ga!AddrCheck, Ga!Addresses
    <2>2. r \in Registrations /\ r.at = "exists" /\ r.read = Ga!Unset
      BY <2>1, GatewayIdle DEF Registrations
    <2> HIDE DEF r
    <2> QED  BY <2>1, <2>2, GatewayGoes
  <1>3. ASSUME NEW c \in Callers, Ga!Exists(c) PROVE GatewayInv'
    <2> DEFINE at == IF records[registering[c].host] = Ga!Unset THEN "set" ELSE "get"
               r == [registering[c] EXCEPT !.at = at]
    <2>1. /\ registering[c].at = "exists" /\ registering' = [registering EXCEPT ![c] = r]
          /\ behind' = behind \ {c} /\ UNCHANGED <<records, services, kept>>
      BY <1>3, Zenon DEF Ga!Exists, Ga!At
    <2>2. registering[c].read = Ga!Unset
      BY <2>1 DEF GatewayInv
    <2>3. registering[c] \in Registrations
      BY <1>0
    <2>4. at \in {"set", "get"} /\ (at = "set" => records[registering[c].host] = Ga!Unset)
      OBVIOUS
    <2> HIDE DEF at
    <2>5. r \in Registrations /\ r.at = at /\ r.host = registering[c].host
          /\ r.read = registering[c].read
      BY <2>3, <2>4 DEF Registrations
    <2> HIDE DEF r
    <2> QED  BY <2>1, <2>2, <2>4, <2>5, GatewayGoes
  <1>4. ASSUME NEW c \in Callers, Ga!Get(c) PROVE GatewayInv'
    <2> DEFINE read == records[registering[c].host]
               r == [registering[c] EXCEPT !.at = "set", !.read = read]
    <2>1. /\ registering' = [registering EXCEPT ![c].at = "set", ![c].read = read]
          /\ behind' = behind \ {c} /\ UNCHANGED <<records, services, kept>>
      BY <1>4, Zenon DEF Ga!Get, Ga!At
    <2>2. registering[c] \in Registrations /\ read \in [Ga!Types -> Seq(Ga!Addresses)]
      BY <1>0 DEF Registrations
    <2>3. registering' = [registering EXCEPT ![c] = r]
      BY <1>0, <2>1
    <2>4. r \in Registrations /\ r.at = "set" /\ r.read = read /\ r.host = registering[c].host
      BY <2>2 DEF Registrations
    <2> HIDE DEF r
    <2> QED  BY <2>1, <2>3, <2>4, GatewayGoes
  <1>5. ASSUME NEW c \in Callers, Ga!Fails(c) PROVE GatewayInv'
    <2>1. registering' = [registering EXCEPT ![c] = Ga!Idle] /\ behind' = behind \ {c}
          /\ UNCHANGED <<records, services, kept>>
      BY <1>5 DEF Ga!Fails
    <2> QED  BY <2>1, GatewayIdle, GatewayGoes
  <1>6. CASE UNCHANGED Ga!vars
    <2>1. UNCHANGED <<records, registering, behind, kept, services>>
      BY <1>6 DEF Ga!vars
    <2>2. Ga!TypeOK'
      BY <1>0, <2>1 DEF GatewayInv, Ga!TypeOK, Ga!Size, Ga!Types, Ga!Addresses
    <2>3. Ga!RecordsKept'
      BY <2>1 DEF GatewayInv, Ga!RecordsKept, Ga!ToSet
    <2> QED  BY <2>1, <2>2, <2>3 DEF GatewayInv, Ga!Unset, Ga!Types
  <1> QED  BY <1>1, <1>2, <1>3, <1>4, <1>5, <1>6, GatewaySet DEF Ga!Next

\* The behaviours of Clients are behaviours of Gateway.
LEMMA GatewaySteps == Spec => Ga!Spec
  <1>1. Init => Ga!Init
    BY DEF Init
  <1>2. [Next]_vars => [Ga!Next]_(Ga!vars)
    BY DEF Next, vars, DropletsRuns, CirclesRuns, FilesRuns, TreeRuns, SyncthingRuns,
       GatewayRuns, LabelsRuns, VestingRuns, StatsRuns, gatewayVars, Ga!vars
  <1> QED  BY <1>1, <1>2, PTL DEF Spec, Ga!Spec

\* The gateway stays typed, and what was registered stays.
LEMMA GatewayKept == Spec => []GatewayInv
  <1>1. GatewayInv /\ [Ga!Next]_(Ga!vars) => GatewayInv'
    BY GatewayNext
  <1> QED  BY <1>1, GatewayInit, GatewaySteps, PTL DEF Ga!Spec

-----------------------------------------------------------------------------
\* What was put into a configuration stays there until it is taken out, whichever calls
\* overlap and wherever they fail, as far as each component promises it
\* (data/treemanager, clients/syncthing and tools/tfgateway).
THEOREM EntriesAreKept == Spec => []EntriesStay
  <1>1. GatewayInv => Ga!RecordsKept
    BY DEF GatewayInv
  <1>2. Tr!TreeIsItsPaths /\ Sy!EntriesKept /\ Ga!RecordsKept => EntriesStay
    BY DEF EntriesStay
  <1> QED  BY <1>1, <1>2, TreeKept, SyncthingKept, GatewayKept, PTL
=============================================================================
