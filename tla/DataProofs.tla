----------------------------- MODULE DataProofs -----------------------------
(***************************************************************************)
(* Proofs about the parts of MCData that write no RECURSIVE operator.      *)
(*                                                                         *)
(* HashMap, for hashes of any width and length and any keys and values:    *)
(* each operation of the trie is right on every level, by induction over   *)
(* the levels (SetGoodAlways, DeleteGoodAlways, EntriesGoodAlways); so a   *)
(* whole map is a function (Represents), and what set, delete and the      *)
(* operations that build a map anew make of it is the function they        *)
(* should.                                                                 *)
(*                                                                         *)
(* Sockets, Crypto and Terminal, for any number of receives, keys, calls   *)
(* and lines: sockets, keys, and randomInt of every range whose draws are  *)
(* exact; and the terminal, whose invariant ties the characters of a       *)
(* listener to the keys of its call (Tracks), the raw mode to the flow of  *)
(* stdin, and the lines answered to those that came (Once).                *)
(***************************************************************************)
EXTENDS HashMap, Crypto, Terminal, Sockets, QueueLemmas, FunctionTheorems

-----------------------------------------------------------------------------
(* The recursive functions. *)

\* What each function of the levels is at one of them, by what it is one below.
NodeLayer(n, deeper)    == {NoNode} \cup LeafNode \cup IF n = 0 THEN {} ELSE InternalNode(deeper)
GetLayer(n, deeper)     == [node \in TrieNode[n] |-> [k \in MapKey |-> GetFrom(deeper, n, node, k)]]
SetLayer(n, deeper)     == [node \in TrieNode[n] |-> [entry \in Entry |-> SetIn(IF n = 0 THEN <<>> ELSE deeper, n, node, entry)]]
DeleteLayer(n, deeper)  == [node \in TrieNode[n] |-> [k \in MapKey |-> DeleteFrom(deeper, n, node, k)]]
EntriesLayer(n, deeper) == [node \in TrieNode[n] |-> EntriesIn(deeper, node)]
TriesLayer(n, deeper)   == [p \in Path |-> {node \in TrieNode[n] : NodeFits(deeper, n, p, node)}]

Layer(op, n, deeper) ==
  CASE op = "node"    -> NodeLayer(n, deeper)
    [] op = "get"     -> GetLayer(n, deeper)
    [] op = "set"     -> SetLayer(n, deeper)
    [] op = "delete"  -> DeleteLayer(n, deeper)
    [] op = "entries" -> EntriesLayer(n, deeper)
    [] op = "tries"   -> TriesLayer(n, deeper)

\* There is such a function, as the lowest level needs none below.
LEMMA LayersExist ==
  ASSUME NEW op, \A d, e : Layer(op, 0, d) = Layer(op, 0, e)
  PROVE  \A N \in Nat : \E g : g = [n \in 0..N |-> Layer(op, n, g[n - 1])]
<1> DEFINE P == {N \in Nat : \E g : g = [n \in 0..N |-> Layer(op, n, g[n - 1])]}
<1>1. 0 \in P
  <2> DEFINE g == [n \in 0..0 |-> Layer(op, 0, 0)]
  <2>1. \A n \in 0..0 : Layer(op, n, g[n - 1]) = Layer(op, 0, 0)
    <3>1. \A n \in 0..0 : n = 0
      OBVIOUS
    <3> QED
      BY <3>1
  <2>2. g = [n \in 0..0 |-> Layer(op, n, g[n - 1])]
    BY <2>1
  <2> HIDE DEF g
  <2> QED
    BY <2>2
<1>2. ASSUME NEW N \in Nat, N \in P PROVE N + 1 \in P
  <2>1. PICK g : g = [n \in 0..N |-> Layer(op, n, g[n - 1])]
    BY <1>2
  <2> DEFINE h == [n \in 0..N + 1 |-> IF n = N + 1 THEN Layer(op, N + 1, g[N]) ELSE g[n]]
  <2>2. /\ \A n \in 0..N : h[n] = g[n]
        /\ h[N + 1] = Layer(op, N + 1, g[N])
        /\ \A n \in 0..N : g[n] = Layer(op, n, g[n - 1])
    <3>1. \A n \in 0..N : n \in 0..N + 1 /\ n # N + 1
      OBVIOUS
    <3>2. N + 1 \in 0..N + 1
      OBVIOUS
    <3>3. \A n \in 0..N : g[n] = Layer(op, n, g[n - 1])
      BY <2>1
    <3> QED
      BY <3>1, <3>2, <3>3
  <2>3. ASSUME NEW n \in 0..N + 1 PROVE h[n] = Layer(op, n, h[n - 1])
    <3> HIDE DEF h
    <3>1. CASE n = N + 1
      <4>1. n - 1 = N /\ N \in 0..N
        BY <3>1
      <4>2. h[n - 1] = g[N]
        BY <2>2, <4>1
      <4> QED
        BY <2>2, <3>1, <4>2
    <3>2. CASE n = 0
      <4>1. 0 \in 0..N
        OBVIOUS
      <4>2. h[0] = Layer(op, 0, g[0 - 1])
        BY <2>2, <4>1
      <4>3. Layer(op, 0, g[0 - 1]) = Layer(op, 0, h[0 - 1])
        OBVIOUS
      <4> QED
        BY <3>2, <4>2, <4>3
    <3>3. CASE n # N + 1 /\ n # 0
      <4>1. n \in 0..N /\ n - 1 \in 0..N
        BY <3>3
      <4>2. h[n] = g[n] /\ h[n - 1] = g[n - 1] /\ g[n] = Layer(op, n, g[n - 1])
        BY <2>2, <4>1
      <4> QED
        BY <4>2
    <3> QED
      BY <3>1, <3>2, <3>3
  <2>4. h = [n \in 0..N + 1 |-> Layer(op, n, h[n - 1])]
    <3>1. h = [n \in 0..N + 1 |-> h[n]]
      OBVIOUS
    <3> HIDE DEF h
    <3> QED
      BY <2>3, <3>1
  <2> HIDE DEF h
  <2> QED
    BY <2>4
<1>3. \A N \in Nat : N \in P
  <2> HIDE DEF P
  <2> QED
    BY <1>1, <1>2, NatSetInduction
<1> QED
  BY <1>3

LEMMA NodeSteps == TrieNode = [n \in 0..Levels |-> NodeLayer(n, TrieNode[n - 1])]
<1>1. \A n, d : Layer("node", n, d) = NodeLayer(n, d)
  BY Zenon DEF Layer
<1>2. ASSUME NEW d, NEW e PROVE Layer("node", 0, d) = Layer("node", 0, e)
  BY <1>1 DEF NodeLayer
<1>3. \E g : g = [n \in 0..Levels |-> NodeLayer(n, g[n - 1])]
  <2>1. PICK g : g = [n \in 0..Levels |-> Layer("node", n, g[n - 1])]
    BY <1>2, LayersExist, HashMapAssumption
  <2>2. g = [n \in 0..Levels |-> NodeLayer(n, g[n - 1])]
    BY <1>1, <2>1
  <2> QED
    BY <2>2
<1> DEFINE F(g) == [n \in 0..Levels |-> NodeLayer(n, g[n - 1])]
<1>4. TrieNode = CHOOSE g : g = F(g)
  BY DEF TrieNode, NodeLayer
<1>5. \E g : g = F(g)
  BY <1>3
<1> HIDE DEF F
<1>6. TrieNode = F(TrieNode)
  BY <1>4, <1>5
<1> QED
  BY <1>6 DEF F

\* A node is undefined, a leaf or, where a level is left, an internal one.
LEMMA NodeKinds ==
  /\ \A n \in 0..Levels : NoNode \in TrieNode[n] /\ LeafNode \subseteq TrieNode[n]
  /\ \A n \in 0..Levels : n # 0 => InternalNode(TrieNode[n - 1]) \subseteq TrieNode[n]
  /\ \A n \in 0..Levels : \A node \in TrieNode[n] :
       node = NoNode \/ node \in LeafNode \/ (n # 0 /\ node \in InternalNode(TrieNode[n - 1]))
<1>1. \A n \in 0..Levels : TrieNode[n] = NodeLayer(n, TrieNode[n - 1])
  BY NodeSteps
<1>2. \A n \in 0..Levels : NoNode \in TrieNode[n] /\ LeafNode \subseteq TrieNode[n]
  BY <1>1, Zenon DEF NodeLayer
<1>3. \A n \in 0..Levels : n # 0 => InternalNode(TrieNode[n - 1]) \subseteq TrieNode[n]
  BY <1>1, Zenon DEF NodeLayer
<1>4. ASSUME NEW n \in 0..Levels, NEW node \in TrieNode[n]
      PROVE  node = NoNode \/ node \in LeafNode \/ (n # 0 /\ node \in InternalNode(TrieNode[n - 1]))
  <2>1. node \in NodeLayer(n, TrieNode[n - 1])
    BY <1>1
  <2>2. n = 0 => node \in {NoNode} \cup LeafNode \cup {}
    BY <2>1, Zenon DEF NodeLayer
  <2>3. n # 0 => node \in {NoNode} \cup LeafNode \cup InternalNode(TrieNode[n - 1])
    BY <2>1, Zenon DEF NodeLayer
  <2> QED
    BY <2>2, <2>3, Zenon
<1> QED
  BY <1>2, <1>3, <1>4, Zenon

\* Which of them a node is, its kind tells.
LEMMA KindTells ==
  /\ NoNode.kind = "none"
  /\ \A node \in LeafNode : node.kind = "leaf" /\ node.entries \in Seq(Entry) /\ node = Leaf(node.entries)
  /\ \A entries \in Seq(Entry) : Leaf(entries) \in LeafNode /\ Leaf(entries).entries = entries
  /\ \A ns : \A node \in InternalNode(ns) :
       node.kind = "internal" /\ node.children \in [Part -> ns] /\ node = Internal(node.children)
  /\ \A ns : \A children \in [Part -> ns] : Internal(children) \in InternalNode(ns) /\ Internal(children).children = children
BY DEF NoNode, LeafNode, InternalNode, Leaf, Internal

LEMMA LowestKinds == \A node \in TrieNode[0] : node.kind = "none" \/ node.kind = "leaf"
<1>1. 0 \in 0..Levels
  BY HashMapAssumption
<1> QED
  BY <1>1, NodeKinds, KindTells

\* So at the lowest level nothing asks what is below it.
LEMMA LowestAlike ==
  ASSUME NEW node \in TrieNode[0], NEW d, NEW e
  PROVE  /\ \A k : GetFrom(d, 0, node, k) = GetFrom(e, 0, node, k)
         /\ \A k : DeleteFrom(d, 0, node, k) = DeleteFrom(e, 0, node, k)
         /\ EntriesIn(d, node) = EntriesIn(e, node)
         /\ \A p : NodeFits(d, 0, p, node) <=> NodeFits(e, 0, p, node)
<1>1. CASE node.kind = "none"
  BY <1>1, Zenon DEF GetFrom, DeleteFrom, EntriesIn, NodeFits
<1>2. CASE node.kind = "leaf"
  BY <1>2, Zenon DEF GetFrom, DeleteFrom, EntriesIn, NodeFits
<1> QED
  BY <1>1, <1>2, LowestKinds

LEMMA GetSteps == TrieGet = [n \in 0..Levels |-> GetLayer(n, TrieGet[n - 1])]
<1>1. \A n, d : Layer("get", n, d) = GetLayer(n, d)
  BY Zenon DEF Layer
<1>2. ASSUME NEW d, NEW e PROVE Layer("get", 0, d) = Layer("get", 0, e)
  <2>1. \A node \in TrieNode[0] : \A k : GetFrom(d, 0, node, k) = GetFrom(e, 0, node, k)
    BY LowestAlike
  <2>2. GetLayer(0, d) = GetLayer(0, e)
    BY <2>1, Zenon DEF GetLayer
  <2> QED
    BY <1>1, <2>2
<1>3. \E g : g = [n \in 0..Levels |-> GetLayer(n, g[n - 1])]
  <2>1. PICK g : g = [n \in 0..Levels |-> Layer("get", n, g[n - 1])]
    BY <1>2, LayersExist, HashMapAssumption
  <2>2. g = [n \in 0..Levels |-> GetLayer(n, g[n - 1])]
    BY <1>1, <2>1
  <2> QED
    BY <2>2
<1> DEFINE F(g) == [n \in 0..Levels |-> GetLayer(n, g[n - 1])]
<1>4. TrieGet = CHOOSE g : g = F(g)
  BY DEF TrieGet, GetLayer
<1>5. \E g : g = F(g)
  BY <1>3
<1> HIDE DEF F
<1>6. TrieGet = F(TrieGet)
  BY <1>4, <1>5
<1> QED
  BY <1>6 DEF F

LEMMA SetSteps == TrieSet = [n \in 0..Levels |-> SetLayer(n, TrieSet[n - 1])]
<1>1. \A n, d : Layer("set", n, d) = SetLayer(n, d)
  BY Zenon DEF Layer
<1>2. ASSUME NEW d, NEW e PROVE Layer("set", 0, d) = Layer("set", 0, e)
  BY <1>1 DEF SetLayer
<1>3. \E g : g = [n \in 0..Levels |-> SetLayer(n, g[n - 1])]
  <2>1. PICK g : g = [n \in 0..Levels |-> Layer("set", n, g[n - 1])]
    BY <1>2, LayersExist, HashMapAssumption
  <2>2. g = [n \in 0..Levels |-> SetLayer(n, g[n - 1])]
    BY <1>1, <2>1
  <2> QED
    BY <2>2
<1> DEFINE F(g) == [n \in 0..Levels |-> SetLayer(n, g[n - 1])]
<1>4. TrieSet = CHOOSE g : g = F(g)
  BY DEF TrieSet, SetLayer
<1>5. \E g : g = F(g)
  BY <1>3
<1> HIDE DEF F
<1>6. TrieSet = F(TrieSet)
  BY <1>4, <1>5
<1> QED
  BY <1>6 DEF F

LEMMA DeleteSteps == TrieDelete = [n \in 0..Levels |-> DeleteLayer(n, TrieDelete[n - 1])]
<1>1. \A n, d : Layer("delete", n, d) = DeleteLayer(n, d)
  BY Zenon DEF Layer
<1>2. ASSUME NEW d, NEW e PROVE Layer("delete", 0, d) = Layer("delete", 0, e)
  <2>1. \A node \in TrieNode[0] : \A k : DeleteFrom(d, 0, node, k) = DeleteFrom(e, 0, node, k)
    BY LowestAlike
  <2>2. DeleteLayer(0, d) = DeleteLayer(0, e)
    BY <2>1, Zenon DEF DeleteLayer
  <2> QED
    BY <1>1, <2>2
<1>3. \E g : g = [n \in 0..Levels |-> DeleteLayer(n, g[n - 1])]
  <2>1. PICK g : g = [n \in 0..Levels |-> Layer("delete", n, g[n - 1])]
    BY <1>2, LayersExist, HashMapAssumption
  <2>2. g = [n \in 0..Levels |-> DeleteLayer(n, g[n - 1])]
    BY <1>1, <2>1
  <2> QED
    BY <2>2
<1> DEFINE F(g) == [n \in 0..Levels |-> DeleteLayer(n, g[n - 1])]
<1>4. TrieDelete = CHOOSE g : g = F(g)
  BY DEF TrieDelete, DeleteLayer
<1>5. \E g : g = F(g)
  BY <1>3
<1> HIDE DEF F
<1>6. TrieDelete = F(TrieDelete)
  BY <1>4, <1>5
<1> QED
  BY <1>6 DEF F

LEMMA EntriesSteps == TrieEntries = [n \in 0..Levels |-> EntriesLayer(n, TrieEntries[n - 1])]
<1>1. \A n, d : Layer("entries", n, d) = EntriesLayer(n, d)
  BY Zenon DEF Layer
<1>2. ASSUME NEW d, NEW e PROVE Layer("entries", 0, d) = Layer("entries", 0, e)
  <2>1. \A node \in TrieNode[0] : EntriesIn(d, node) = EntriesIn(e, node)
    BY LowestAlike
  <2>2. EntriesLayer(0, d) = EntriesLayer(0, e)
    BY <2>1, Zenon DEF EntriesLayer
  <2> QED
    BY <1>1, <2>2
<1>3. \E g : g = [n \in 0..Levels |-> EntriesLayer(n, g[n - 1])]
  <2>1. PICK g : g = [n \in 0..Levels |-> Layer("entries", n, g[n - 1])]
    BY <1>2, LayersExist, HashMapAssumption
  <2>2. g = [n \in 0..Levels |-> EntriesLayer(n, g[n - 1])]
    BY <1>1, <2>1
  <2> QED
    BY <2>2
<1> DEFINE F(g) == [n \in 0..Levels |-> EntriesLayer(n, g[n - 1])]
<1>4. TrieEntries = CHOOSE g : g = F(g)
  BY DEF TrieEntries, EntriesLayer
<1>5. \E g : g = F(g)
  BY <1>3
<1> HIDE DEF F
<1>6. TrieEntries = F(TrieEntries)
  BY <1>4, <1>5
<1> QED
  BY <1>6 DEF F

LEMMA TriesSteps == Tries = [n \in 0..Levels |-> TriesLayer(n, Tries[n - 1])]
<1>1. \A n, d : Layer("tries", n, d) = TriesLayer(n, d)
  BY Zenon DEF Layer
<1>2. ASSUME NEW d, NEW e PROVE Layer("tries", 0, d) = Layer("tries", 0, e)
  <2>1. \A node \in TrieNode[0] : \A p : NodeFits(d, 0, p, node) <=> NodeFits(e, 0, p, node)
    BY LowestAlike
  <2>2. TriesLayer(0, d) = TriesLayer(0, e)
    BY <2>1, Zenon DEF TriesLayer
  <2> QED
    BY <1>1, <2>2
<1>3. \E g : g = [n \in 0..Levels |-> TriesLayer(n, g[n - 1])]
  <2>1. PICK g : g = [n \in 0..Levels |-> Layer("tries", n, g[n - 1])]
    BY <1>2, LayersExist, HashMapAssumption
  <2>2. g = [n \in 0..Levels |-> TriesLayer(n, g[n - 1])]
    BY <1>1, <2>1
  <2> QED
    BY <2>2
<1> DEFINE F(g) == [n \in 0..Levels |-> TriesLayer(n, g[n - 1])]
<1>4. Tries = CHOOSE g : g = F(g)
  BY DEF Tries, TriesLayer
<1>5. \E g : g = F(g)
  BY <1>3
<1> HIDE DEF F
<1>6. Tries = F(Tries)
  BY <1>4, <1>5
<1> QED
  BY <1>6 DEF F


LEMMA InternalMade ==
  ASSUME NEW n \in 0..Levels, n # 0, NEW children \in [Part -> TrieNode[n - 1]]
  PROVE  /\ Internal(children) \in TrieNode[n] /\ Internal(children).kind = "internal"
         /\ Internal(children).children = children
<1> DEFINE ns == TrieNode[n - 1]
<1>1. InternalNode(ns) \subseteq TrieNode[n]
  BY NodeKinds
<1>2. children \in [Part -> ns]
  OBVIOUS
<1> HIDE DEF ns
<1>3. Internal(children) \in InternalNode(ns) /\ Internal(children).children = children
  BY <1>2, KindTells, Zenon
<1>4. Internal(children).kind = "internal"
  BY <1>3, KindTells, Zenon
<1> QED
  BY <1>1, <1>3, <1>4

-----------------------------------------------------------------------------
(* What the functions are for each kind of node. *)

LEMMA LevelBelow == \A n \in 0..Levels : n # 0 => n - 1 \in 0..Levels
BY HashMapAssumption

\* trieGet
LEMMA GetOf ==
  ASSUME NEW n \in 0..Levels, NEW k \in MapKey
  PROVE  /\ TrieGet[n][NoNode][k] = {}
         /\ \A entries \in Seq(Entry) :
              TrieGet[n][Leaf(entries)][k] = {e.value : e \in {f \in ToSet(entries) : f.key = k}}
         /\ n # 0 => \A children \in [Part -> TrieNode[n - 1]] :
              TrieGet[n][Internal(children)][k] = TrieGet[n - 1][children[HashOf[k][n]]][k]
<1>1. TrieGet[n] = GetLayer(n, TrieGet[n - 1])
  BY GetSteps
<1>2. \A node \in TrieNode[n] : TrieGet[n][node][k] = GetFrom(TrieGet[n - 1], n, node, k)
  BY <1>1 DEF GetLayer
<1>3. \A d, node : node.kind = "none" => GetFrom(d, n, node, k) = {}
  BY Zenon DEF GetFrom
<1>4. \A d, node : node.kind = "leaf" =>
        GetFrom(d, n, node, k) = {e.value : e \in {f \in ToSet(node.entries) : f.key = k}}
  BY Zenon DEF GetFrom
<1>5. \A d, node : node.kind = "internal" => GetFrom(d, n, node, k) = d[node.children[HashOf[k][n]]][k]
  BY Zenon DEF GetFrom
<1>6. TrieGet[n][NoNode][k] = {}
  BY <1>2, <1>3, NodeKinds, KindTells
<1>7. ASSUME NEW entries \in Seq(Entry)
      PROVE  TrieGet[n][Leaf(entries)][k] = {e.value : e \in {f \in ToSet(entries) : f.key = k}}
  <2>1. Leaf(entries) \in TrieNode[n] /\ Leaf(entries).kind = "leaf" /\ Leaf(entries).entries = entries
    BY NodeKinds, KindTells, Zenon
  <2> QED
    BY <1>2, <1>4, <2>1
<1>8. ASSUME n # 0, NEW children \in [Part -> TrieNode[n - 1]]
      PROVE  TrieGet[n][Internal(children)][k] = TrieGet[n - 1][children[HashOf[k][n]]][k]
  <2>1. /\ Internal(children) \in TrieNode[n] /\ Internal(children).kind = "internal"
        /\ Internal(children).children = children
    BY <1>8, InternalMade
  <2> QED
    BY <1>2, <1>5, <2>1
<1> QED
  BY <1>6, <1>7, <1>8, Zenon

\* trieSet
LEMMA SetOf ==
  ASSUME NEW n \in 0..Levels, NEW entry \in Entry
  PROVE  /\ TrieSet[n][NoNode][entry] = [node |-> Leaf(<<entry>>), added |-> TRUE]
         /\ \A entries \in Seq(Entry) :
              TrieSet[n][Leaf(entries)][entry] =
                SetInLeaf(IF n = 0 THEN <<>> ELSE TrieSet[n - 1], n, Leaf(entries), entry)
         /\ n # 0 => \A children \in [Part -> TrieNode[n - 1]] :
              TrieSet[n][Internal(children)][entry] = SetBelow(TrieSet[n - 1], n, Internal(children), entry)
<1> DEFINE deeper == IF n = 0 THEN <<>> ELSE TrieSet[n - 1]
<1>1. TrieSet[n] = SetLayer(n, TrieSet[n - 1])
  BY SetSteps
<1>2. \A node \in TrieNode[n] : TrieSet[n][node][entry] = SetIn(deeper, n, node, entry)
  BY <1>1 DEF SetLayer
<1>3. \A d, node : node.kind = "none" => SetIn(d, n, node, entry) = [node |-> Leaf(<<entry>>), added |-> TRUE]
  BY Zenon DEF SetIn
<1>4. \A d, node : node.kind = "leaf" => SetIn(d, n, node, entry) = SetInLeaf(d, n, node, entry)
  BY Zenon DEF SetIn
<1>5. \A d, node : node.kind = "internal" => SetIn(d, n, node, entry) = SetBelow(d, n, node, entry)
  BY Zenon DEF SetIn
<1>6. n # 0 => deeper = TrieSet[n - 1]
  OBVIOUS
<1> HIDE DEF deeper
<1>7. TrieSet[n][NoNode][entry] = [node |-> Leaf(<<entry>>), added |-> TRUE]
  <2>1. NoNode \in TrieNode[n] /\ NoNode.kind = "none"
    BY NodeKinds, KindTells, Zenon
  <2> QED
    BY <1>2, <1>3, <2>1, Zenon
<1>8. ASSUME NEW entries \in Seq(Entry)
      PROVE  TrieSet[n][Leaf(entries)][entry] = SetInLeaf(deeper, n, Leaf(entries), entry)
  <2>1. Leaf(entries) \in TrieNode[n] /\ Leaf(entries).kind = "leaf"
    BY NodeKinds, KindTells, Zenon
  <2> QED
    BY <1>2, <1>4, <2>1
<1>9. ASSUME n # 0, NEW children \in [Part -> TrieNode[n - 1]]
      PROVE  TrieSet[n][Internal(children)][entry] = SetBelow(TrieSet[n - 1], n, Internal(children), entry)
  <2>1. Internal(children) \in TrieNode[n] /\ Internal(children).kind = "internal"
    BY <1>9, InternalMade
  <2>2. TrieSet[n][Internal(children)][entry] = SetBelow(deeper, n, Internal(children), entry)
    BY <1>2, <1>5, <2>1
  <2> QED
    BY <1>6, <1>9, <2>2
<1> QED
  BY <1>7, <1>8, <1>9, Zenon DEF deeper

\* trieDelete
LEMMA DeleteOf ==
  ASSUME NEW n \in 0..Levels, NEW k \in MapKey
  PROVE  /\ TrieDelete[n][NoNode][k] = [node |-> NoNode, removed |-> FALSE]
         /\ \A entries \in Seq(Entry) : TrieDelete[n][Leaf(entries)][k] = DeleteFromLeaf(Leaf(entries), k)
         /\ n # 0 => \A children \in [Part -> TrieNode[n - 1]] :
              TrieDelete[n][Internal(children)][k] = DeleteBelow(TrieDelete[n - 1], n, Internal(children), k)
<1>1. TrieDelete[n] = DeleteLayer(n, TrieDelete[n - 1])
  BY DeleteSteps
<1>2. \A node \in TrieNode[n] : TrieDelete[n][node][k] = DeleteFrom(TrieDelete[n - 1], n, node, k)
  BY <1>1 DEF DeleteLayer
<1>3. \A d, node : node.kind = "none" => DeleteFrom(d, n, node, k) = [node |-> NoNode, removed |-> FALSE]
  BY Zenon DEF DeleteFrom
<1>4. \A d, node : node.kind = "leaf" => DeleteFrom(d, n, node, k) = DeleteFromLeaf(node, k)
  BY Zenon DEF DeleteFrom
<1>5. \A d, node : node.kind = "internal" => DeleteFrom(d, n, node, k) = DeleteBelow(d, n, node, k)
  BY Zenon DEF DeleteFrom
<1>6. TrieDelete[n][NoNode][k] = [node |-> NoNode, removed |-> FALSE]
  <2>1. NoNode \in TrieNode[n] /\ NoNode.kind = "none"
    BY NodeKinds, KindTells, Zenon
  <2> QED
    BY <1>2, <1>3, <2>1, Zenon
<1>7. ASSUME NEW entries \in Seq(Entry)
      PROVE  TrieDelete[n][Leaf(entries)][k] = DeleteFromLeaf(Leaf(entries), k)
  <2>1. Leaf(entries) \in TrieNode[n] /\ Leaf(entries).kind = "leaf"
    BY NodeKinds, KindTells, Zenon
  <2> QED
    BY <1>2, <1>4, <2>1
<1>8. ASSUME n # 0, NEW children \in [Part -> TrieNode[n - 1]]
      PROVE  TrieDelete[n][Internal(children)][k] = DeleteBelow(TrieDelete[n - 1], n, Internal(children), k)
  <2>1. Internal(children) \in TrieNode[n] /\ Internal(children).kind = "internal"
    BY <1>8, InternalMade
  <2> QED
    BY <1>2, <1>5, <2>1
<1> QED
  BY <1>6, <1>7, <1>8, Zenon

\* trieEntries
LEMMA EntriesAre ==
  ASSUME NEW n \in 0..Levels
  PROVE  /\ TrieEntries[n][NoNode] = <<>>
         /\ \A entries \in Seq(Entry) : TrieEntries[n][Leaf(entries)] = entries
         /\ n # 0 => \A children \in [Part -> TrieNode[n - 1]] :
              TrieEntries[n][Internal(children)] =
                FlattenSeq([i \in 1..Width |-> TrieEntries[n - 1][children[i - 1]]])
<1>1. TrieEntries[n] = EntriesLayer(n, TrieEntries[n - 1])
  BY EntriesSteps
<1>2. \A node \in TrieNode[n] : TrieEntries[n][node] = EntriesIn(TrieEntries[n - 1], node)
  BY <1>1 DEF EntriesLayer
<1>3. \A d, node : node.kind = "none" => EntriesIn(d, node) = <<>>
  BY Zenon DEF EntriesIn
<1>4. \A d, node : node.kind = "leaf" => EntriesIn(d, node) = node.entries
  BY Zenon DEF EntriesIn
<1>5. \A d, node : node.kind = "internal" => EntriesIn(d, node) = FlattenSeq([i \in 1..Width |-> d[node.children[i - 1]]])
  BY Zenon DEF EntriesIn
<1>6. TrieEntries[n][NoNode] = <<>>
  BY <1>2, <1>3, NodeKinds, KindTells
<1>7. ASSUME NEW entries \in Seq(Entry) PROVE TrieEntries[n][Leaf(entries)] = entries
  <2>1. Leaf(entries) \in TrieNode[n] /\ Leaf(entries).kind = "leaf" /\ Leaf(entries).entries = entries
    BY NodeKinds, KindTells, Zenon
  <2> QED
    BY <1>2, <1>4, <2>1
<1>8. ASSUME n # 0, NEW children \in [Part -> TrieNode[n - 1]]
      PROVE  TrieEntries[n][Internal(children)] =
               FlattenSeq([i \in 1..Width |-> TrieEntries[n - 1][children[i - 1]]])
  <2>1. /\ Internal(children) \in TrieNode[n] /\ Internal(children).kind = "internal"
        /\ Internal(children).children = children
    BY <1>8, InternalMade
  <2>2. TrieEntries[n][Internal(children)] = EntriesIn(TrieEntries[n - 1], Internal(children))
    BY <1>2, <2>1
  <2>3. EntriesIn(TrieEntries[n - 1], Internal(children)) =
          FlattenSeq([i \in 1..Width |-> TrieEntries[n - 1][Internal(children).children[i - 1]]])
    BY <1>5, <2>1
  <2> QED
    BY <2>1, <2>2, <2>3
<1> QED
  BY <1>6, <1>7, <1>8, Zenon

\* Which nodes are tries.
LEMMA TriesAre ==
  ASSUME NEW n \in 0..Levels, NEW p \in Path
  PROVE  /\ Tries[n][p] \subseteq TrieNode[n]
         /\ NoNode \notin Tries[n][p]
         /\ \A entries \in Seq(Entry) : Leaf(entries) \in Tries[n][p] <=> LeafFits(n, p, entries)
         /\ n # 0 => \A children \in [Part -> TrieNode[n - 1]] :
              Internal(children) \in Tries[n][p]
                <=> /\ \E pos \in Part : children[pos] # NoNode
                    /\ \A pos \in Part : children[pos] # NoNode => children[pos] \in Tries[n - 1][[p EXCEPT ![n] = pos]]
<1>1. Tries[n] = TriesLayer(n, Tries[n - 1])
  BY TriesSteps
<1>2. Tries[n][p] = {node \in TrieNode[n] : NodeFits(Tries[n - 1], n, p, node)}
  BY <1>1 DEF TriesLayer
<1>3. \A d, node : node.kind = "none" => ~NodeFits(d, n, p, node)
  BY Zenon DEF NodeFits
<1>4. \A d, node : node.kind = "leaf" => (NodeFits(d, n, p, node) <=> LeafFits(n, p, node.entries))
  BY Zenon DEF NodeFits
<1>5. \A d, node : node.kind = "internal" =>
        (NodeFits(d, n, p, node) <=> Occupied(node) # {} /\ ChildrenFit(d, n, p, node))
  BY Zenon DEF NodeFits
<1>6. NoNode \notin Tries[n][p]
  BY <1>2, <1>3, KindTells
<1>7. ASSUME NEW entries \in Seq(Entry) PROVE Leaf(entries) \in Tries[n][p] <=> LeafFits(n, p, entries)
  <2>1. Leaf(entries) \in TrieNode[n] /\ Leaf(entries).kind = "leaf" /\ Leaf(entries).entries = entries
    BY NodeKinds, KindTells, Zenon
  <2>2. NodeFits(Tries[n - 1], n, p, Leaf(entries)) <=> LeafFits(n, p, entries)
    BY <1>4, <2>1
  <2> QED
    BY <1>2, <2>1, <2>2
<1>8. ASSUME n # 0, NEW children \in [Part -> TrieNode[n - 1]]
      PROVE  Internal(children) \in Tries[n][p]
               <=> /\ \E pos \in Part : children[pos] # NoNode
                   /\ \A pos \in Part : children[pos] # NoNode => children[pos] \in Tries[n - 1][[p EXCEPT ![n] = pos]]
  <2> DEFINE node == Internal(children)
  <2>1. node \in TrieNode[n] /\ node.kind = "internal" /\ node.children = children
    BY <1>8, InternalMade
  <2>2. NodeFits(Tries[n - 1], n, p, node) <=> Occupied(node) # {} /\ ChildrenFit(Tries[n - 1], n, p, node)
    BY <1>5, <2>1
  <2>3. Occupied(node) = {pos \in Part : children[pos] # NoNode}
    BY <2>1 DEF Occupied
  <2>4. Occupied(node) # {} <=> \E pos \in Part : children[pos] # NoNode
    BY <2>3
  <2>5. ChildrenFit(Tries[n - 1], n, p, node)
          <=> \A pos \in Part : children[pos] # NoNode => children[pos] \in Tries[n - 1][[p EXCEPT ![n] = pos]]
    BY <2>1, <2>3 DEF ChildrenFit
  <2>6. node \in Tries[n][p] <=> NodeFits(Tries[n - 1], n, p, node)
    BY <1>2, <2>1
  <2> HIDE DEF node
  <2>7. node \in Tries[n][p]
          <=> /\ \E pos \in Part : children[pos] # NoNode
              /\ \A pos \in Part : children[pos] # NoNode => children[pos] \in Tries[n - 1][[p EXCEPT ![n] = pos]]
    BY <2>2, <2>4, <2>5, <2>6
  <2> QED
    BY <2>7 DEF node
<1> QED
  BY <1>2, <1>6, <1>7, <1>8

-----------------------------------------------------------------------------
(* Leaves. *)

\* findIndex() of an entry in A.
LEMMA FirstPlace ==
  ASSUME NEW T, NEW entries \in Seq(T), NEW A
  PROVE  /\ FirstIn(entries, A) = 0 => \A i \in 1..Len(entries) : entries[i] \notin A
         /\ FirstIn(entries, A) # 0 => FirstIn(entries, A) \in 1..Len(entries) /\ entries[FirstIn(entries, A)] \in A
<1> DEFINE places == {i \in 1..Len(entries) : entries[i] \in A}
           least == CHOOSE x \in places : \A y \in places : x =< y
<1>1. FirstIn(entries, A) = IF places # {} THEN least ELSE 0
  BY DEF FirstIn, SelectInSeq, Min
<1>2. places # {} => least \in places
  <2>1. places \in SUBSET Nat
    OBVIOUS
  <2> HIDE DEF places
  <2>2. places # {} => \E x \in places : \A y \in places : x <= y
    BY <2>1, LeastExists
  <2> QED
    BY <2>2
<1>3. places # {} => least # 0
  <2>1. \A x \in places : x # 0
    OBVIOUS
  <2> HIDE DEF places, least
  <2> QED
    BY <1>2, <2>1
<1> HIDE DEF least
<1> QED
  BY <1>1, <1>2, <1>3

KeyPlace(entries, k, i) == i \in 1..Len(entries) /\ entries[i].key = k

LEMMA IndexPlace ==
  ASSUME NEW entries \in Seq(Entry), NEW k \in MapKey
  PROVE  /\ IndexOf(entries, k) = 0 => \A i \in 1..Len(entries) : entries[i].key # k
         /\ IndexOf(entries, k) # 0 => KeyPlace(entries, k, IndexOf(entries, k))
<1> DEFINE A == [key : {k}, value : MapValue]
<1>1. \A e \in Entry : e \in A <=> e.key = k
  BY DEF Entry
<1>2. \A i \in 1..Len(entries) : entries[i] \in Entry
  OBVIOUS
<1>3. IndexOf(entries, k) = FirstIn(entries, A)
  BY DEF IndexOf
<1> HIDE DEF A
<1>4. FirstIn(entries, A) = 0 => \A i \in 1..Len(entries) : entries[i] \notin A
  BY FirstPlace
<1>5. FirstIn(entries, A) # 0 => FirstIn(entries, A) \in 1..Len(entries) /\ entries[FirstIn(entries, A)] \in A
  BY FirstPlace
<1> QED
  BY <1>1, <1>2, <1>3, <1>4, <1>5 DEF KeyPlace

DistinctKeys(entries) == \A i, j \in 1..Len(entries) : entries[i].key = entries[j].key => i = j
OneHash(entries)      == \A i, j \in 1..Len(entries) : HashOf[entries[i].key] = HashOf[entries[j].key]
AllOnPath(n, p, entries) == \A i \in 1..Len(entries) : OnPath(entries[i].key, n, p)

LEMMA LeafFitsIs ==
  ASSUME NEW n, NEW p, NEW entries \in Seq(Entry)
  PROVE  LeafFits(n, p, entries)
           <=> entries # <<>> /\ AllOnPath(n, p, entries) /\ OneHash(entries) /\ DistinctKeys(entries)
<1>1. DOMAIN entries = 1..Len(entries)
  OBVIOUS
<1> QED
  BY <1>1, Zenon DEF LeafFits, AllOnPath, OneHash, DistinctKeys

\* What a leaf holds under a key.
LEMMA LeafHolds ==
  ASSUME NEW n \in 0..Levels, NEW k \in MapKey, NEW entries \in Seq(Entry)
  PROVE  /\ TrieGet[n][Leaf(entries)][k] = {v \in MapValue : \E i \in 1..Len(entries) : entries[i].key = k /\ v = entries[i].value}
         /\ \A i \in 1..Len(entries) :
              DistinctKeys(entries) /\ entries[i].key = k => TrieGet[n][Leaf(entries)][k] = {entries[i].value}
         /\ (\A i \in 1..Len(entries) : entries[i].key # k) => TrieGet[n][Leaf(entries)][k] = {}
<1> DEFINE held == {e.value : e \in {f \in ToSet(entries) : f.key = k}}
<1>1. TrieGet[n][Leaf(entries)][k] = held
  BY GetOf
<1>2. ToSet(entries) = {entries[i] : i \in 1..Len(entries)}
  BY DEF ToSet
<1>3. \A v : v \in held <=> \E i \in 1..Len(entries) : entries[i].key = k /\ v = entries[i].value
  BY <1>2
<1>6. held = {v \in MapValue : \E i \in 1..Len(entries) : entries[i].key = k /\ v = entries[i].value}
  <2>1. \A i \in 1..Len(entries) : entries[i] \in Entry
    OBVIOUS
  <2>2. \A i \in 1..Len(entries) : entries[i].value \in MapValue
    BY <2>1 DEF Entry
  <2> HIDE DEF held
  <2>3. \A v : v \in held => v \in MapValue
    BY <1>3, <2>2
  <2> DEFINE values == {v \in MapValue : \E i \in 1..Len(entries) : entries[i].key = k /\ v = entries[i].value}
  <2>4. \A v : v \in values <=> v \in held
    BY <1>3, <2>3
  <2> HIDE DEF values
  <2>5. values = held
    BY <2>4, Zenon
  <2> QED
    BY <2>5 DEF values
<1> HIDE DEF held
<1>4. ASSUME NEW i \in 1..Len(entries), DistinctKeys(entries), entries[i].key = k PROVE held = {entries[i].value}
  <2>1. \A j \in 1..Len(entries) : entries[j].key = k => j = i
    BY <1>4 DEF DistinctKeys
  <2>2. \A v : v \in held <=> v = entries[i].value
    BY <1>3, <1>4, <2>1
  <2> QED
    BY <2>2
<1>5. (\A i \in 1..Len(entries) : entries[i].key # k) => held = {}
  BY <1>3
<1> QED
  BY <1>1, <1>4, <1>5, <1>6

-----------------------------------------------------------------------------
(* One entry after the other. *)

\* The places of a sequence, and one more.
LEMMA Places ==
  ASSUME NEW n \in Nat
  PROVE  0 \in 0..n /\ n + 1 \in 0..n + 1 /\ \A i \in 1..n : i \in 0..n /\ i # 0
OBVIOUS

LEMMA InsertSteps ==
  ASSUME NEW set, NEW node, NEW T, NEW entries \in Seq(T)
  PROVE  \E g : /\ g[0] = node
                /\ \A i \in 1..Len(entries) : g[i] = set[g[i - 1]][entries[i]].node
                /\ InsertEach(set, node, entries) = g[Len(entries)]
<1> DEFINE F(N, g) == [i \in 0..N |-> IF i = 0 THEN node ELSE set[g[i - 1]][entries[i]].node]
           P == {N \in Nat : \E g : g = F(N, g)}
<1>1. 0 \in P
  <2> DEFINE g == [i \in 0..0 |-> node]
  <2>1. g = F(0, g)
    OBVIOUS
  <2> HIDE DEF g, F
  <2> QED
    BY <2>1
<1>2. ASSUME NEW N \in Nat, N \in P PROVE N + 1 \in P
  <2>1. PICK g : g = F(N, g)
    BY <1>2
  <2> DEFINE next == set[g[N]][entries[N + 1]].node
             h == [i \in 0..N + 1 |-> IF i = N + 1 THEN next ELSE g[i]]
  <2>2. /\ \A i \in 0..N : h[i] = g[i]
        /\ h[N + 1] = next
        /\ \A i \in 0..N : g[i] = IF i = 0 THEN node ELSE set[g[i - 1]][entries[i]].node
    <3>1. \A i \in 0..N : i \in 0..N + 1 /\ i # N + 1
      OBVIOUS
    <3>2. N + 1 \in 0..N + 1
      BY Places
    <3>3. \A i \in 0..N : g[i] = IF i = 0 THEN node ELSE set[g[i - 1]][entries[i]].node
      BY <2>1, Zenon
    <3> QED
      BY <3>1, <3>2, <3>3
  <2>3. h = [i \in 0..N + 1 |-> h[i]]
    OBVIOUS
  <2> HIDE DEF h
  <2>4. ASSUME NEW i \in 0..N + 1 PROVE h[i] = IF i = 0 THEN node ELSE set[h[i - 1]][entries[i]].node
    <3>1. CASE i = N + 1
      <4>1. i - 1 = N /\ N \in 0..N /\ i # 0
        BY <3>1
      <4>2. h[i - 1] = g[N]
        BY <2>2, <4>1
      <4> QED
        BY <2>2, <3>1, <4>1, <4>2
    <3>2. CASE i # N + 1
      <4>1. i \in 0..N /\ (i # 0 => i - 1 \in 0..N)
        BY <3>2
      <4>2. h[i] = g[i] /\ (i # 0 => h[i - 1] = g[i - 1])
        BY <2>2, <4>1
      <4> QED
        BY <2>2, <4>1, <4>2
    <3> QED
      BY <3>1, <3>2
  <2>5. h = F(N + 1, h)
    BY <2>3, <2>4
  <2> HIDE DEF F
  <2> QED
    BY <2>5
<1>3. \A N \in Nat : N \in P
  <2> HIDE DEF P
  <2> QED
    BY <1>1, <1>2, NatSetInduction
<1> DEFINE after == CHOOSE g : g = F(Len(entries), g)
<1>4. after = F(Len(entries), after)
  <2> HIDE DEF F
  <2>1. \E g : g = F(Len(entries), g)
    BY <1>3, LenProperties
  <2> QED
    BY <2>1
<1>5. InsertEach(set, node, entries) = after[Len(entries)]
  BY DEF InsertEach
<1> HIDE DEF after
<1>6. Len(entries) \in Nat /\ 0 \in 0..Len(entries) /\ \A i \in 1..Len(entries) : i \in 0..Len(entries) /\ i # 0
  BY LenProperties, Places
<1>7. \A i \in 0..Len(entries) : after[i] = IF i = 0 THEN node ELSE set[after[i - 1]][entries[i]].node
  BY <1>4, Zenon
<1> QED
  BY <1>5, <1>6, <1>7

\* Every node that is Good stays so when an entry with a key in K is put in, and get finds
\* that entry and no other change.
KeepsGood(Good, K, get, set) ==
  \A m \in Good : \A e \in Entry : e.key \in K =>
    /\ set[m][e].node \in Good
    /\ \A k \in MapKey : get[set[m][e].node][k] = IF k = e.key THEN {e.value} ELSE get[m][k]

KeysIn(entries, K) == \A i \in 1..Len(entries) : entries[i].key \in K

\* Under each entry's key there is its value in the end.
Agree(entries, final) == \A i \in 1..Len(entries) : final[entries[i].key] = {entries[i].value}

AllIn(get, node, new, entries, final) ==
  \A k \in MapKey : get[new][k] = IF \E i \in 1..Len(entries) : entries[i].key = k THEN final[k] ELSE get[node][k]

\* What one insertion keeps, all keep.
LEMMA InsertsGood ==
  ASSUME NEW Good, NEW K, NEW get, NEW set, KeepsGood(Good, K, get, set),
         NEW node \in Good, NEW entries \in Seq(Entry), KeysIn(entries, K),
         NEW final, Agree(entries, final)
  PROVE  /\ InsertEach(set, node, entries) \in Good
         /\ AllIn(get, node, InsertEach(set, node, entries), entries, final)
<1>0. /\ \A i \in 1..Len(entries) : entries[i].key \in K
      /\ \A i \in 1..Len(entries) : final[entries[i].key] = {entries[i].value}
  BY DEF KeysIn, Agree
<1>1. PICK g : /\ g[0] = node
               /\ \A i \in 1..Len(entries) : g[i] = set[g[i - 1]][entries[i]].node
               /\ InsertEach(set, node, entries) = g[Len(entries)]
  BY InsertSteps
<1> DEFINE Fine(j) == /\ g[j] \in Good
                      /\ \A k \in MapKey : get[g[j]][k] = IF \E i \in 1..j : entries[i].key = k THEN final[k] ELSE get[node][k]
           P == {j \in Nat : j <= Len(entries) => Fine(j)}
<1>2. 0 \in P
  BY <1>1
<1>3. ASSUME NEW j \in Nat, j \in P PROVE j + 1 \in P
  <2> SUFFICES ASSUME j + 1 <= Len(entries) PROVE Fine(j + 1)
    OBVIOUS
  <2> DEFINE e == entries[j + 1]
  <2>1. j + 1 \in 1..Len(entries) /\ (j + 1) - 1 = j /\ j <= Len(entries)
    OBVIOUS
  <2>2. e \in Entry /\ e.key \in K /\ final[e.key] = {e.value} /\ g[j + 1] = set[g[j]][e].node
    BY <1>0, <1>1, <2>1
  <2>3. Fine(j)
    BY <1>3, <2>1
  <2>7. g[j] \in Good
    BY <2>3
  <2> HIDE DEF e, Fine
  <2>4. g[j + 1] \in Good
    BY <2>7, <2>2 DEF KeepsGood
  <2>5. \A k \in MapKey : get[g[j + 1]][k] = IF k = e.key THEN {e.value} ELSE get[g[j]][k]
    <3>1. \A k \in MapKey : get[set[g[j]][e].node][k] = IF k = e.key THEN {e.value} ELSE get[g[j]][k]
      BY <2>7, <2>2, Zenon DEF KeepsGood
    <3> QED
      BY <3>1, <2>2
  <2> USE DEF e, Fine
  <2>6. ASSUME NEW k \in MapKey
        PROVE  get[g[j + 1]][k] = IF \E i \in 1..j + 1 : entries[i].key = k THEN final[k] ELSE get[node][k]
    <3>1. CASE k = e.key
      <4>1. \E i \in 1..j + 1 : entries[i].key = k
        BY <3>1, <2>1
      <4> HIDE DEF e, Fine
      <4>2. get[g[j + 1]][k] = {e.value}
        BY <2>5, <3>1
      <4>3. final[k] = {e.value}
        BY <2>2, <3>1
      <4> QED
        BY <4>1, <4>2, <4>3
    <3>2. CASE k # e.key
      <4>1. (\E i \in 1..j + 1 : entries[i].key = k) <=> \E i \in 1..j : entries[i].key = k
        BY <3>2
      <4> QED
        BY <2>3, <2>5, <3>2, <4>1
    <3> QED
      BY <3>1, <3>2
  <2> QED
    BY <2>4, <2>6
<1>4. \A j \in Nat : j \in P
  <2> HIDE DEF P
  <2> QED
    BY <1>2, <1>3, NatSetInduction
<1>5. Fine(Len(entries))
  BY <1>4
<1> QED
  BY <1>1, <1>5 DEF AllIn

-----------------------------------------------------------------------------
(* Paths, and the hashes of keys. *)

LEMMA HashParts ==
  ASSUME NEW k \in MapKey
  PROVE  HashOf[k] \in Path /\ \A n \in 0..Levels : n # 0 => n \in 1..Levels /\ HashOf[k][n] \in Part
<1>1. HashOf[k] \in [1..Levels -> Part]
  BY HashMapAssumption
<1>2. \A n \in 0..Levels : n # 0 => n \in 1..Levels
  BY HashMapAssumption
<1> QED
  BY <1>1, <1>2 DEF Path

\* The keys on a path one level down.
LEMMA PathBelow ==
  ASSUME NEW n \in 0..Levels, n # 0, NEW p \in Path, NEW pos \in Part
  PROVE  /\ [p EXCEPT ![n] = pos] \in Path
         /\ \A k \in MapKey : OnPath(k, n - 1, [p EXCEPT ![n] = pos]) <=> OnPath(k, n, p) /\ HashOf[k][n] = pos
<1> DEFINE q == [p EXCEPT ![n] = pos]
<1>1. n \in 1..Levels /\ p \in [1..Levels -> Part]
  BY HashMapAssumption DEF Path
<1>2. q \in Path
  BY <1>1 DEF Path
<1>3. q[n] = pos /\ \A m \in 1..Levels : m # n => q[m] = p[m]
  BY <1>1
<1> HIDE DEF q
<1>4. ASSUME NEW k \in MapKey PROVE OnPath(k, n - 1, q) <=> OnPath(k, n, p) /\ HashOf[k][n] = pos
  <2>1. /\ \A m \in (n - 1) + 1..Levels : m = n \/ (m \in n + 1..Levels)
        /\ \A m \in n + 1..Levels : m \in 1..Levels /\ m # n /\ m \in (n - 1) + 1..Levels
        /\ n \in (n - 1) + 1..Levels
    BY <1>1, HashMapAssumption
  <2>2. ASSUME OnPath(k, n - 1, q) PROVE OnPath(k, n, p) /\ HashOf[k][n] = pos
    BY <1>3, <2>1, <2>2 DEF OnPath
  <2>3. ASSUME OnPath(k, n, p), HashOf[k][n] = pos PROVE OnPath(k, n - 1, q)
    <3>1. ASSUME NEW m \in (n - 1) + 1..Levels PROVE HashOf[k][m] = q[m]
      BY <1>3, <2>1, <2>3 DEF OnPath
    <3> QED
      BY <3>1 DEF OnPath
  <2> QED
    BY <2>2, <2>3
<1> QED
  BY <1>2, <1>4 DEF q

\* Where no level is left, keys on one path have one hash.
LEMMA PathEnds ==
  ASSUME NEW p \in Path, NEW k \in MapKey, NEW x \in MapKey, OnPath(k, 0, p), OnPath(x, 0, p)
  PROVE  HashOf[k] = HashOf[x]
<1>1. HashOf[k] \in [1..Levels -> Part] /\ HashOf[x] \in [1..Levels -> Part]
  BY HashMapAssumption
<1>2. \A m \in 1..Levels : HashOf[k][m] = p[m] /\ HashOf[x][m] = p[m]
  BY DEF OnPath
<1> DEFINE f == HashOf[k]
           g == HashOf[x]
<1>3. f \in [1..Levels -> Part] /\ g \in [1..Levels -> Part] /\ \A m \in 1..Levels : f[m] = g[m]
  BY <1>1, <1>2
<1> HIDE DEF f, g
<1>4. f = [m \in 1..Levels |-> f[m]] /\ g = [m \in 1..Levels |-> g[m]]
  BY <1>3, Zenon
<1>5. f = g
  BY <1>3, <1>4
<1> QED
  BY <1>5 DEF f, g

-----------------------------------------------------------------------------
(* trieSet puts one entry in and changes no other. *)

\* The children of a node where the path p leads; all may be missing.
Below(n, p, children) ==
  /\ children \in [Part -> TrieNode[n - 1]]
  /\ \A pos \in Part : children[pos] # NoNode => children[pos] \in Tries[n - 1][[p EXCEPT ![n] = pos]]

Overrides(n, node, new, k, vs) ==
  \A x \in MapKey : TrieGet[n][new][x] = IF x = k THEN vs ELSE TrieGet[n][node][x]

SetGood(n) ==
  \A p \in Path : \A node \in Tries[n][p] \cup {NoNode} : \A entry \in Entry : OnPath(entry.key, n, p) =>
    /\ TrieSet[n][node][entry].node \in Tries[n][p]
    /\ Overrides(n, node, TrieSet[n][node][entry].node, entry.key, {entry.value})
    /\ TrieSet[n][node][entry].added = (TrieGet[n][node][entry.key] = {})

\* An internal node where the path leads: what is below it fits, and something is there.
LEMMA InternalTrie ==
  ASSUME NEW n \in 0..Levels, n # 0, NEW p \in Path, NEW children, Below(n, p, children)
  PROVE  /\ Internal(children) \in TrieNode[n]
         /\ Internal(children) \in Tries[n][p] <=> \E pos \in Part : children[pos] # NoNode
<1>1. children \in [Part -> TrieNode[n - 1]]
  BY DEF Below
<1>2. Internal(children) \in TrieNode[n]
  BY <1>1, InternalMade
<1>3. Internal(children) \in Tries[n][p]
        <=> /\ \E pos \in Part : children[pos] # NoNode
            /\ \A pos \in Part : children[pos] # NoNode => children[pos] \in Tries[n - 1][[p EXCEPT ![n] = pos]]
  BY <1>1, TriesAre
<1>4. \A pos \in Part : children[pos] # NoNode => children[pos] \in Tries[n - 1][[p EXCEPT ![n] = pos]]
  BY DEF Below
<1> QED
  BY <1>2, <1>3, <1>4

LEMMA SetBelowGood ==
  ASSUME NEW n \in 0..Levels, n # 0, SetGood(n - 1), NEW p \in Path, NEW children, Below(n, p, children),
         NEW entry \in Entry, OnPath(entry.key, n, p)
  PROVE  \E new : /\ Below(n, p, new) /\ Internal(new) \in Tries[n][p]
                  /\ SetBelow(TrieSet[n - 1], n, Internal(children), entry).node = Internal(new)
                  /\ Overrides(n, Internal(children), Internal(new), entry.key, {entry.value})
                  /\ SetBelow(TrieSet[n - 1], n, Internal(children), entry).added
                       = (TrieGet[n][Internal(children)][entry.key] = {})
<1> DEFINE k   == entry.key
           pos == HashOf[k][n]
           q   == [p EXCEPT ![n] = pos]
           set == TrieSet[n - 1][children[pos]][entry]
           new == [children EXCEPT ![pos] = set.node]
<1>1. k \in MapKey /\ pos \in Part /\ n - 1 \in 0..Levels
  BY HashParts, LevelBelow DEF Entry
<1>2. q \in Path /\ OnPath(k, n - 1, q)
  BY <1>1, PathBelow
<1>3. children \in [Part -> TrieNode[n - 1]] /\ children[pos] \in Tries[n - 1][q] \cup {NoNode}
  BY <1>1 DEF Below
<1>4. /\ set.node \in Tries[n - 1][q]
      /\ Overrides(n - 1, children[pos], set.node, k, {entry.value})
      /\ set.added = (TrieGet[n - 1][children[pos]][k] = {})
  BY <1>2, <1>3 DEF SetGood
<1>5. set.node \in TrieNode[n - 1] /\ set.node # NoNode
  <2> HIDE DEF q, set
  <2>1. Tries[n - 1][q] \subseteq TrieNode[n - 1] /\ NoNode \notin Tries[n - 1][q]
    BY <1>1, <1>2, TriesAre, Zenon
  <2> QED
    BY <1>4, <2>1
<1>6. /\ new \in [Part -> TrieNode[n - 1]] /\ new[pos] = set.node
      /\ \A x \in Part : x # pos => new[x] = children[x]
  BY <1>1, <1>3, <1>5, Zenon
<1>7. SetBelow(TrieSet[n - 1], n, Internal(children), entry) = [node |-> Internal(new), added |-> set.added]
  BY DEF SetBelow, WithChild, Internal
<1> HIDE DEF k, pos, q, set, new
<1>8. Below(n, p, new)
  <2>1. ASSUME NEW x \in Part, new[x] # NoNode PROVE new[x] \in Tries[n - 1][[p EXCEPT ![n] = x]]
    <3>1. CASE x = pos
      BY <1>4, <1>6, <3>1 DEF q
    <3>2. CASE x # pos
      BY <1>6, <2>1, <3>2 DEF Below
    <3> QED
      BY <3>1, <3>2
  <2> QED
    BY <1>6, <2>1 DEF Below
<1>9. Internal(new) \in Tries[n][p]
  BY <1>1, <1>5, <1>6, <1>8, InternalTrie
<1>10. /\ \A x \in MapKey : TrieGet[n][Internal(children)][x] = TrieGet[n - 1][children[HashOf[x][n]]][x]
       /\ \A x \in MapKey : TrieGet[n][Internal(new)][x] = TrieGet[n - 1][new[HashOf[x][n]]][x]
  BY <1>3, <1>6, GetOf
<1>11. Overrides(n, Internal(children), Internal(new), k, {entry.value})
  <2> SUFFICES ASSUME NEW x \in MapKey
               PROVE  TrieGet[n][Internal(new)][x] = IF x = k THEN {entry.value} ELSE TrieGet[n][Internal(children)][x]
    BY DEF Overrides
  <2>1. HashOf[x][n] \in Part
    BY HashParts
  <2>2. CASE HashOf[x][n] = pos
    <3>1. TrieGet[n - 1][set.node][x] = IF x = k THEN {entry.value} ELSE TrieGet[n - 1][children[pos]][x]
      BY <1>4 DEF Overrides
    <3> QED
      BY <1>6, <1>10, <2>2, <3>1
  <2>3. CASE HashOf[x][n] # pos
    <3>1. x # k
      BY <2>3 DEF pos
    <3>2. new[HashOf[x][n]] = children[HashOf[x][n]]
      BY <1>6, <2>1, <2>3
    <3> QED
      BY <1>10, <3>1, <3>2
  <2> QED
    BY <2>2, <2>3
<1>12. set.added = (TrieGet[n][Internal(children)][k] = {})
  <2>1. TrieGet[n][Internal(children)][k] = TrieGet[n - 1][children[pos]][k]
    BY <1>1, <1>10 DEF pos
  <2> QED
    BY <1>4, <2>1
<1>13. /\ SetBelow(TrieSet[n - 1], n, Internal(children), entry).node = Internal(new)
       /\ SetBelow(TrieSet[n - 1], n, Internal(children), entry).added = set.added
  BY <1>7
<1> QED
  BY <1>8, <1>9, <1>11, <1>12, <1>13 DEF k

\* Entries put under a new internal node are all there, each under its key.
LEMMA SplitGood ==
  ASSUME NEW n \in 0..Levels, n # 0, SetGood(n - 1), NEW p \in Path,
         NEW entries \in Seq(Entry), entries # <<>>, AllOnPath(n, p, entries), DistinctKeys(entries)
  PROVE  /\ Split(TrieSet[n - 1], n, entries) \in Tries[n][p]
         /\ \A k \in MapKey : TrieGet[n][Split(TrieSet[n - 1], n, entries)][k] = TrieGet[n][Leaf(entries)][k]
<1> DEFINE none == [pos \in Part |-> NoNode]
           Good == {node \in InternalNode(TrieNode[n - 1]) : Below(n, p, node.children)}
           K    == {k \in MapKey : OnPath(k, n, p)}
           set  == [node \in InternalNode(TrieNode[n - 1]) |->
                      [entry \in Entry |-> SetBelow(TrieSet[n - 1], n, node, entry)]]
           get  == TrieGet[n]
           final == [k \in MapKey |-> TrieGet[n][Leaf(entries)][k]]
           start == Internal(none)
           new  == InsertEach(set, start, entries)
<1>1. Split(TrieSet[n - 1], n, entries) = new
  BY DEF Split
<1>2. n - 1 \in 0..Levels
  BY LevelBelow
<1>3. ASSUME NEW m \in Good PROVE m = Internal(m.children) /\ Below(n, p, m.children) /\ m \in InternalNode(TrieNode[n - 1])
  BY <1>3, KindTells, Zenon
<1>4. ASSUME NEW m \in Good, NEW e \in Entry, e.key \in K
      PROVE  /\ set[m][e].node \in Good
             /\ \A k \in MapKey : get[set[m][e].node][k] = IF k = e.key THEN {e.value} ELSE get[m][k]
  <2>1. m = Internal(m.children) /\ Below(n, p, m.children) /\ m \in InternalNode(TrieNode[n - 1])
    BY <1>3
  <2>2. set[m][e] = SetBelow(TrieSet[n - 1], n, m, e)
    BY <2>1
  <2>3. OnPath(e.key, n, p)
    BY <1>4
  <2> HIDE DEF set, Good, K
  <2>4. PICK c : /\ Below(n, p, c) /\ Internal(c) \in Tries[n][p]
                 /\ SetBelow(TrieSet[n - 1], n, Internal(m.children), e).node = Internal(c)
                 /\ Overrides(n, Internal(m.children), Internal(c), e.key, {e.value})
    BY <2>1, <2>3, SetBelowGood
  <2>5. set[m][e].node = Internal(c) /\ Overrides(n, m, Internal(c), e.key, {e.value})
    BY <2>1, <2>2, <2>4
  <2>6. Internal(c) \in Good
    <3>1. c \in [Part -> TrieNode[n - 1]]
      BY <2>4 DEF Below
    <3>2. Internal(c) \in InternalNode(TrieNode[n - 1]) /\ Internal(c).children = c
      BY <3>1, KindTells, Zenon
    <3> QED
      BY <2>4, <3>2 DEF Good
  <2> QED
    BY <2>5, <2>6 DEF Overrides
<1>5. Internal(none) \in Good /\ \A k \in MapKey : get[Internal(none)][k] = {}
  <2>1. none \in [Part -> TrieNode[n - 1]]
    BY <1>2, NodeKinds
  <2>2. Below(n, p, none)
    BY <2>1 DEF Below
  <2>3. Internal(none) \in InternalNode(TrieNode[n - 1]) /\ Internal(none).children = none
    BY <2>1, KindTells, Zenon
  <2>4. ASSUME NEW k \in MapKey PROVE get[Internal(none)][k] = {}
    <3>1. none[HashOf[k][n]] = NoNode
      BY HashParts
    <3>2. TrieGet[n][Internal(none)][k] = TrieGet[n - 1][none[HashOf[k][n]]][k]
      BY <2>1, GetOf
    <3>3. TrieGet[n - 1][NoNode][k] = {}
      BY <1>2, GetOf
    <3> QED
      BY <3>1, <3>2, <3>3
  <2> QED
    BY <2>2, <2>3, <2>4
<1>6. KeysIn(entries, K)
  <2>1. \A i \in 1..Len(entries) : entries[i] \in Entry
    OBVIOUS
  <2> QED
    BY <2>1 DEF AllOnPath, Entry, KeysIn
<1>7. Agree(entries, final)
  <2> SUFFICES ASSUME NEW i \in 1..Len(entries) PROVE final[entries[i].key] = {entries[i].value}
    BY DEF Agree
  <2>1. entries[i].key \in MapKey
    BY <1>6 DEF KeysIn
  <2>2. TrieGet[n][Leaf(entries)][entries[i].key] = {entries[i].value}
    BY <2>1, LeafHolds
  <2> QED
    BY <2>1, <2>2
<1> HIDE DEF Good, K, set, get, final, start
<1>8. new \in Good /\ AllIn(get, start, new, entries, final)
  <2>1. KeepsGood(Good, K, get, set)
    BY <1>4 DEF KeepsGood
  <2>2. start \in Good
    BY <1>5 DEF start
  <2> QED
    BY <1>6, <1>7, <2>1, <2>2, InsertsGood
<1>9. \A k \in MapKey : get[new][k] = final[k]
  <2> SUFFICES ASSUME NEW k \in MapKey PROVE get[new][k] = final[k]
    OBVIOUS
  <2>1. CASE \E i \in 1..Len(entries) : entries[i].key = k
    BY <1>8, <2>1 DEF AllIn
  <2>2. CASE ~ \E i \in 1..Len(entries) : entries[i].key = k
    <3>1. TrieGet[n][Leaf(entries)][k] = {}
      BY <2>2, LeafHolds
    <3>2. final[k] = {}
      BY <3>1 DEF final
    <3>3. get[new][k] = get[start][k]
      BY <1>8, <2>2 DEF AllIn
    <3> QED
      BY <1>5, <3>2, <3>3 DEF start
  <2> QED
    BY <2>1, <2>2
<1>10. new \in Tries[n][p]
  <2>1. new \in Good
    BY <1>8
  <2> HIDE DEF new
  <2>2. new = Internal(new.children) /\ Below(n, p, new.children)
    BY <1>3, <2>1
  <2>3. \E pos \in Part : new.children[pos] # NoNode
    <3>1. 1 \in 1..Len(entries) /\ entries[1].key \in MapKey
      BY <1>6, LenProperties, EmptySeq DEF K, KeysIn
    <3> DEFINE k == entries[1].key
    <3>2. get[new][k] # {}
      BY <1>7, <1>9, <3>1 DEF Agree
    <3>3. TrieGet[n][Internal(new.children)][k] = TrieGet[n - 1][new.children[HashOf[k][n]]][k]
      BY <2>2, <3>1, GetOf, SMTT(30) DEF Below
    <3>4. new.children[HashOf[k][n]] # NoNode
      <4>1. TrieGet[n - 1][NoNode][k] = {}
        BY <1>2, <3>1, GetOf
      <4> QED
        BY <2>2, <3>2, <3>3, <4>1, Zenon DEF get
    <3> QED
      BY <3>1, <3>4, HashParts
  <2> QED
    BY <2>2, <2>3, InternalTrie
<1> QED
  BY <1>1, <1>9, <1>10 DEF get, final

\* The tries are leaves and internal nodes.
LEMMA TrieCases ==
  ASSUME NEW n \in 0..Levels, NEW p \in Path, NEW node \in Tries[n][p]
  PROVE  \/ \E entries \in Seq(Entry) :
              /\ node = Leaf(entries) /\ entries # <<>>
              /\ AllOnPath(n, p, entries) /\ OneHash(entries) /\ DistinctKeys(entries)
         \/ /\ n # 0
            /\ \E children : /\ node = Internal(children) /\ Below(n, p, children)
                             /\ \E pos \in Part : children[pos] # NoNode
<1>1. node \in TrieNode[n] /\ node # NoNode
  BY TriesAre
<1>2. node \in LeafNode \/ (n # 0 /\ node \in InternalNode(TrieNode[n - 1]))
  BY <1>1, NodeKinds
<1>3. CASE node \in LeafNode
  <2> DEFINE entries == node.entries
  <2>1. node = Leaf(entries) /\ entries \in Seq(Entry)
    BY <1>3, KindTells, Zenon
  <2> HIDE DEF entries
  <2>2. LeafFits(n, p, entries)
    BY <2>1, TriesAre
  <2> QED
    BY <2>1, <2>2, LeafFitsIs
<1>4. CASE n # 0 /\ node \in InternalNode(TrieNode[n - 1])
  <2> DEFINE children == node.children
             ns == TrieNode[n - 1]
  <2>1. node \in InternalNode(ns)
    BY <1>4
  <2> HIDE DEF ns
  <2>2. node = Internal(children) /\ children \in [Part -> ns]
    BY <2>1, KindTells, Zenon
  <2> HIDE DEF children
  <2>3. /\ \E pos \in Part : children[pos] # NoNode
        /\ \A pos \in Part : children[pos] # NoNode => children[pos] \in Tries[n - 1][[p EXCEPT ![n] = pos]]
    BY <1>4, <2>2, TriesAre DEF ns
  <2>4. Below(n, p, children)
    BY <2>2, <2>3 DEF Below, ns
  <2> QED
    BY <1>4, <2>2, <2>3, <2>4
<1> QED
  BY <1>2, <1>3, <1>4

LEMMA LeafTrie ==
  ASSUME NEW n \in 0..Levels, NEW p \in Path, NEW entries \in Seq(Entry), entries # <<>>,
         AllOnPath(n, p, entries), OneHash(entries), DistinctKeys(entries)
  PROVE  Leaf(entries) \in Tries[n][p]
BY LeafFitsIs, TriesAre

\* A leaf gets another entry.
LEMMA LeafAppend ==
  ASSUME NEW n \in 0..Levels, NEW entries \in Seq(Entry), DistinctKeys(entries), NEW entry \in Entry,
         \A i \in 1..Len(entries) : entries[i].key # entry.key
  PROVE  /\ Append(entries, entry) \in Seq(Entry) /\ Append(entries, entry) # <<>>
         /\ DistinctKeys(Append(entries, entry))
         /\ \A p : AllOnPath(n, p, entries) /\ OnPath(entry.key, n, p) => AllOnPath(n, p, Append(entries, entry))
         /\ (\A i \in 1..Len(entries) : HashOf[entries[i].key] = HashOf[entry.key]) => OneHash(Append(entries, entry))
         /\ Overrides(n, Leaf(entries), Leaf(Append(entries, entry)), entry.key, {entry.value})
         /\ TrieGet[n][Leaf(entries)][entry.key] = {}
<1> DEFINE new == Append(entries, entry)
<1>1. /\ new \in Seq(Entry) /\ new # <<>> /\ Len(entries) \in Nat /\ Len(new) = Len(entries) + 1
      /\ new[Len(entries) + 1] = entry
      /\ \A i \in 1..Len(entries) : new[i] = entries[i]
  OBVIOUS
<1>2. \A i \in 1..Len(new) : i \in 1..Len(entries) \/ i = Len(entries) + 1
  BY <1>1
<1> HIDE DEF new
<1>3. DistinctKeys(new)
  BY <1>1, <1>2 DEF DistinctKeys
<1>4. \A p : AllOnPath(n, p, entries) /\ OnPath(entry.key, n, p) => AllOnPath(n, p, new)
  BY <1>1, <1>2 DEF AllOnPath
<1>5. (\A i \in 1..Len(entries) : HashOf[entries[i].key] = HashOf[entry.key]) => OneHash(new)
  BY <1>1, <1>2 DEF OneHash
<1>6. entry.key \in MapKey
  BY DEF Entry
<1>7. TrieGet[n][Leaf(entries)][entry.key] = {}
  BY <1>6, LeafHolds
<1>8. ASSUME NEW x \in MapKey
      PROVE  TrieGet[n][Leaf(new)][x] = IF x = entry.key THEN {entry.value} ELSE TrieGet[n][Leaf(entries)][x]
  <2>1. CASE x = entry.key
    <3>1. Len(entries) + 1 \in 1..Len(new) /\ new[Len(entries) + 1].key = x
      BY <1>1, <2>1
    <3>2. TrieGet[n][Leaf(new)][x] = {new[Len(entries) + 1].value}
      BY <1>1, <1>3, <3>1, LeafHolds
    <3> QED
      BY <1>1, <2>1, <3>2
  <2>2. CASE x # entry.key
    <3>1. TrieGet[n][Leaf(new)][x] = {v \in MapValue : \E i \in 1..Len(new) : new[i].key = x /\ v = new[i].value}
      BY <1>1, LeafHolds
    <3>2. TrieGet[n][Leaf(entries)][x]
            = {v \in MapValue : \E i \in 1..Len(entries) : entries[i].key = x /\ v = entries[i].value}
      BY LeafHolds
    <3>3. \A v : (\E i \in 1..Len(new) : new[i].key = x /\ v = new[i].value)
                   <=> \E i \in 1..Len(entries) : entries[i].key = x /\ v = entries[i].value
      BY <1>1, <1>2, <2>2
    <3>4. {v \in MapValue : \E i \in 1..Len(new) : new[i].key = x /\ v = new[i].value}
            = {v \in MapValue : \E i \in 1..Len(entries) : entries[i].key = x /\ v = entries[i].value}
      BY <3>3
    <3> QED
      BY <2>2, <3>1, <3>2, <3>4, Zenon
  <2> QED
    BY <2>1, <2>2
<1> QED
  BY <1>1, <1>3, <1>4, <1>5, <1>7, <1>8 DEF Overrides, new

\* An entry of a leaf gets another value.
LEMMA LeafReplace ==
  ASSUME NEW n \in 0..Levels, NEW entries \in Seq(Entry), entries # <<>>, DistinctKeys(entries), OneHash(entries),
         NEW entry \in Entry, NEW place \in 1..Len(entries), entries[place].key = entry.key
  PROVE  /\ [entries EXCEPT ![place] = entry] \in Seq(Entry) /\ [entries EXCEPT ![place] = entry] # <<>>
         /\ DistinctKeys([entries EXCEPT ![place] = entry]) /\ OneHash([entries EXCEPT ![place] = entry])
         /\ \A p : AllOnPath(n, p, entries) => AllOnPath(n, p, [entries EXCEPT ![place] = entry])
         /\ Overrides(n, Leaf(entries), Leaf([entries EXCEPT ![place] = entry]), entry.key, {entry.value})
         /\ TrieGet[n][Leaf(entries)][entry.key] # {}
<1> DEFINE new == [entries EXCEPT ![place] = entry]
<1>1. /\ new \in Seq(Entry) /\ Len(new) = Len(entries) /\ Len(entries) \in Nat \ {0}
      /\ \A i \in 1..Len(entries) : new[i] = IF i = place THEN entry ELSE entries[i]
  OBVIOUS
<1> HIDE DEF new
<1>2. \A i \in 1..Len(entries) : new[i].key = entries[i].key
  BY <1>1
<1>3. new # <<>> /\ DistinctKeys(new) /\ OneHash(new)
  <2>1. new # <<>>
    BY <1>1
  <2>2. DistinctKeys(new)
    BY <1>1, <1>2 DEF DistinctKeys
  <2>3. OneHash(new)
    BY <1>1, <1>2 DEF OneHash
  <2> QED
    BY <2>1, <2>2, <2>3
<1>4. \A p : AllOnPath(n, p, entries) => AllOnPath(n, p, new)
  BY <1>1, <1>2 DEF AllOnPath
<1>5. entry.key \in MapKey
  BY DEF Entry
<1>6. TrieGet[n][Leaf(entries)][entry.key] # {}
  <2>1. TrieGet[n][Leaf(entries)][entry.key] = {entries[place].value}
    BY <1>5, LeafHolds
  <2> QED
    BY <2>1
<1>7. ASSUME NEW x \in MapKey
      PROVE  TrieGet[n][Leaf(new)][x] = IF x = entry.key THEN {entry.value} ELSE TrieGet[n][Leaf(entries)][x]
  <2>1. CASE \E i \in 1..Len(entries) : entries[i].key = x
    <3>1. PICK i \in 1..Len(entries) : entries[i].key = x
      BY <2>1
    <3>2. TrieGet[n][Leaf(new)][x] = {new[i].value} /\ TrieGet[n][Leaf(entries)][x] = {entries[i].value}
      BY <1>1, <1>2, <1>3, <3>1, LeafHolds
    <3>3. i = place <=> x = entry.key
      BY <3>1 DEF DistinctKeys
    <3> QED
      BY <1>1, <3>2, <3>3
  <2>2. CASE ~ \E i \in 1..Len(entries) : entries[i].key = x
    <3>1. TrieGet[n][Leaf(new)][x] = {} /\ TrieGet[n][Leaf(entries)][x] = {}
      BY <1>1, <1>2, <2>2, LeafHolds
    <3>2. x # entry.key
      BY <2>2
    <3> QED
      BY <3>1, <3>2
  <2> QED
    BY <2>1, <2>2
<1> QED
  BY <1>1, <1>3, <1>4, <1>6, <1>7 DEF Overrides, new

\* An entry comes to a leaf.
LEMMA SetInLeafGood ==
  ASSUME NEW n \in 0..Levels, n # 0 => SetGood(n - 1), NEW p \in Path,
         NEW entries \in Seq(Entry), entries # <<>>, AllOnPath(n, p, entries), OneHash(entries), DistinctKeys(entries),
         NEW entry \in Entry, OnPath(entry.key, n, p)
  PROVE  /\ TrieSet[n][Leaf(entries)][entry].node \in Tries[n][p]
         /\ Overrides(n, Leaf(entries), TrieSet[n][Leaf(entries)][entry].node, entry.key, {entry.value})
         /\ TrieSet[n][Leaf(entries)][entry].added = (TrieGet[n][Leaf(entries)][entry.key] = {})
<1> DEFINE deeper == IF n = 0 THEN <<>> ELSE TrieSet[n - 1]
           result == TrieSet[n][Leaf(entries)][entry]
           place  == IndexOf(entries, entry.key)
           more   == Append(entries, entry)
<1>1. result = SetInLeaf(deeper, n, Leaf(entries), entry)
  BY SetOf
<1>2. Leaf(entries).entries = entries
  BY DEF Leaf
<1>3. result = IF place # 0 THEN [node |-> Leaf([entries EXCEPT ![place] = entry]), added |-> FALSE]
               ELSE IF HashOf[Head(entries).key] = HashOf[entry.key]
                    THEN [node |-> Leaf(more), added |-> TRUE]
               ELSE [node |-> Split(deeper, n, more), added |-> TRUE]
  BY <1>1, <1>2, Zenon DEF SetInLeaf, SplitLeaf
<1>4. entry.key \in MapKey /\ Head(entries) = entries[1] /\ 1 \in 1..Len(entries)
  BY DEF Entry
<1>5. n # 0 => deeper = TrieSet[n - 1]
  OBVIOUS
<1> HIDE DEF deeper, result, place, more
<1>6. /\ place = 0 => \A i \in 1..Len(entries) : entries[i].key # entry.key
      /\ place # 0 => place \in 1..Len(entries) /\ entries[place].key = entry.key
  BY <1>4, IndexPlace DEF place, KeyPlace
<1>7. CASE place # 0
  <2> DEFINE new == [entries EXCEPT ![place] = entry]
  <2>1. result.node = Leaf(new) /\ result.added = FALSE
    BY <1>3, <1>7
  <2>2. place \in 1..Len(entries) /\ entries[place].key = entry.key
    BY <1>6, <1>7
  <2>3. /\ new \in Seq(Entry) /\ new # <<>> /\ DistinctKeys(new) /\ OneHash(new) /\ AllOnPath(n, p, new)
        /\ Overrides(n, Leaf(entries), Leaf(new), entry.key, {entry.value})
        /\ TrieGet[n][Leaf(entries)][entry.key] # {}
    BY <2>2, LeafReplace
  <2> HIDE DEF new
  <2>4. Leaf(new) \in Tries[n][p]
    BY <2>3, LeafTrie
  <2> QED
    BY <2>1, <2>3, <2>4 DEF result
<1>8. ASSUME place = 0
      PROVE  /\ more \in Seq(Entry) /\ more # <<>> /\ DistinctKeys(more) /\ AllOnPath(n, p, more)
             /\ (\A i \in 1..Len(entries) : HashOf[entries[i].key] = HashOf[entry.key]) => OneHash(more)
             /\ Overrides(n, Leaf(entries), Leaf(more), entry.key, {entry.value})
             /\ TrieGet[n][Leaf(entries)][entry.key] = {}
  BY <1>6, <1>8, LeafAppend DEF more
<1>9. CASE place = 0 /\ HashOf[Head(entries).key] = HashOf[entry.key]
  <2>1. result.node = Leaf(more) /\ result.added = TRUE
    BY <1>3, <1>9
  <2>2. OneHash(more)
    BY <1>4, <1>8, <1>9 DEF OneHash
  <2>3. Leaf(more) \in Tries[n][p]
    BY <1>8, <1>9, <2>2, LeafTrie
  <2> QED
    BY <1>8, <1>9, <2>1, <2>3 DEF result
<1>10. CASE place = 0 /\ HashOf[Head(entries).key] # HashOf[entry.key]
  <2>1. result.node = Split(deeper, n, more) /\ result.added = TRUE
    BY <1>3, <1>10
  <2>2. n # 0
    <3> SUFFICES ASSUME n = 0 PROVE FALSE
      OBVIOUS
    <3>1. entries[1].key \in MapKey /\ OnPath(entries[1].key, 0, p) /\ OnPath(entry.key, 0, p)
      <4>1. entries[1] \in Entry
        BY <1>4
      <4> QED
        BY <1>4, <4>1 DEF AllOnPath, Entry
    <3> QED
      BY <1>4, <1>10, <3>1, PathEnds
  <2>3. /\ Split(deeper, n, more) \in Tries[n][p]
        /\ \A k \in MapKey : TrieGet[n][Split(deeper, n, more)][k] = TrieGet[n][Leaf(more)][k]
    BY <1>5, <1>8, <1>10, <2>2, SplitGood
  <2>4. Overrides(n, Leaf(entries), Split(deeper, n, more), entry.key, {entry.value})
    BY <1>8, <1>10, <2>3 DEF Overrides
  <2> QED
    BY <1>8, <1>10, <2>1, <2>3, <2>4 DEF result
<1> QED
  BY <1>7, <1>9, <1>10

\* trieSet, on every level.
LEMMA SetGoodAlways == \A n \in 0..Levels : SetGood(n)
<1> DEFINE P == {n \in Nat : n <= Levels => SetGood(n)}
<1>1. ASSUME NEW n \in 0..Levels, n # 0 => SetGood(n - 1) PROVE SetGood(n)
  <2> SUFFICES ASSUME NEW p \in Path, NEW node \in Tries[n][p] \cup {NoNode}, NEW entry \in Entry, OnPath(entry.key, n, p)
               PROVE  /\ TrieSet[n][node][entry].node \in Tries[n][p]
                      /\ Overrides(n, node, TrieSet[n][node][entry].node, entry.key, {entry.value})
                      /\ TrieSet[n][node][entry].added = (TrieGet[n][node][entry.key] = {})
    BY Zenon DEF SetGood
  <2>1. CASE node = NoNode
    <3> DEFINE one == <<entry>>
    <3>1. TrieSet[n][node][entry].node = Leaf(one) /\ TrieSet[n][node][entry].added = TRUE
      <4>1. TrieSet[n][NoNode][entry] = [node |-> Leaf(one), added |-> TRUE]
        BY SetOf
      <4> QED
        BY <2>1, <4>1
    <3>2. /\ one \in Seq(Entry) /\ one # <<>> /\ Len(one) = 1 /\ one[1] = entry
          /\ \A i \in 1..Len(one) : i = 1
      OBVIOUS
    <3> HIDE DEF one
    <3>3. AllOnPath(n, p, one) /\ OneHash(one) /\ DistinctKeys(one)
      BY <3>2 DEF AllOnPath, OneHash, DistinctKeys
    <3>4. Leaf(one) \in Tries[n][p]
      BY <3>2, <3>3, LeafTrie
    <3>5. \A x \in MapKey : TrieGet[n][NoNode][x] = {}
      BY GetOf
    <3>6. entry.key \in MapKey
      BY DEF Entry
    <3>7. ASSUME NEW x \in MapKey PROVE TrieGet[n][Leaf(one)][x] = IF x = entry.key THEN {entry.value} ELSE {}
      <4>1. CASE x = entry.key
        BY <3>2, <3>3, <4>1, LeafHolds
      <4>2. CASE x # entry.key
        BY <3>2, <3>3, <4>2, LeafHolds
      <4> QED
        BY <4>1, <4>2
    <3>8. Overrides(n, node, Leaf(one), entry.key, {entry.value})
      BY <2>1, <3>5, <3>7 DEF Overrides
    <3> QED
      BY <2>1, <3>1, <3>4, <3>5, <3>6, <3>8
  <2>2. ASSUME NEW entries \in Seq(Entry), node = Leaf(entries), entries # <<>>,
               AllOnPath(n, p, entries), OneHash(entries), DistinctKeys(entries)
        PROVE  /\ TrieSet[n][node][entry].node \in Tries[n][p]
               /\ Overrides(n, node, TrieSet[n][node][entry].node, entry.key, {entry.value})
               /\ TrieSet[n][node][entry].added = (TrieGet[n][node][entry.key] = {})
    <3>1. /\ TrieSet[n][Leaf(entries)][entry].node \in Tries[n][p]
          /\ Overrides(n, Leaf(entries), TrieSet[n][Leaf(entries)][entry].node, entry.key, {entry.value})
          /\ TrieSet[n][Leaf(entries)][entry].added = (TrieGet[n][Leaf(entries)][entry.key] = {})
      BY <1>1, <2>2, SetInLeafGood
    <3> QED
      BY <2>2, <3>1
  <2>3. ASSUME n # 0, NEW children, node = Internal(children), Below(n, p, children)
        PROVE  /\ TrieSet[n][node][entry].node \in Tries[n][p]
               /\ Overrides(n, node, TrieSet[n][node][entry].node, entry.key, {entry.value})
               /\ TrieSet[n][node][entry].added = (TrieGet[n][node][entry.key] = {})
    <3>1. TrieSet[n][node][entry] = SetBelow(TrieSet[n - 1], n, node, entry)
      BY <2>3, SetOf DEF Below
    <3>2. PICK new : /\ Below(n, p, new) /\ Internal(new) \in Tries[n][p]
                     /\ SetBelow(TrieSet[n - 1], n, Internal(children), entry).node = Internal(new)
                     /\ Overrides(n, Internal(children), Internal(new), entry.key, {entry.value})
                     /\ SetBelow(TrieSet[n - 1], n, Internal(children), entry).added
                          = (TrieGet[n][Internal(children)][entry.key] = {})
      BY <1>1, <2>3, SetBelowGood
    <3> QED
      BY <2>3, <3>1, <3>2
  <2>4. CASE node \in Tries[n][p]
    <3>1. \/ \E entries \in Seq(Entry) :
               /\ node = Leaf(entries) /\ entries # <<>>
               /\ AllOnPath(n, p, entries) /\ OneHash(entries) /\ DistinctKeys(entries)
          \/ /\ n # 0
             /\ \E children : node = Internal(children) /\ Below(n, p, children)
      BY <2>4, TrieCases
    <3> QED
      BY <2>2, <2>3, <3>1
  <2> QED
    BY <2>1, <2>4
<1>2. 0 \in P
  BY <1>1, HashMapAssumption
<1>3. ASSUME NEW n \in Nat, n \in P PROVE n + 1 \in P
  <2> SUFFICES ASSUME n + 1 <= Levels PROVE SetGood(n + 1)
    OBVIOUS
  <2>1. n + 1 \in 0..Levels /\ (n + 1) - 1 = n /\ n <= Levels
    BY HashMapAssumption
  <2>2. SetGood((n + 1) - 1)
    BY <1>3, <2>1
  <2> QED
    BY <1>1, <2>1, <2>2
<1>4. \A n \in Nat : n \in P
  <2> HIDE DEF P
  <2> QED
    BY <1>2, <1>3, NatSetInduction
<1> QED
  BY <1>4, HashMapAssumption

-----------------------------------------------------------------------------
(* trieDelete takes one entry out and changes no other. *)

\* filter() of all places but one.
LEMMA RemovePlace ==
  ASSUME NEW S, NEW s \in Seq(S), NEW i \in 1..Len(s)
  PROVE  /\ RemoveAt(s, i) \in Seq(S) /\ Len(RemoveAt(s, i)) = Len(s) - 1
         /\ \A j \in 1..Len(s) - 1 : RemoveAt(s, i)[j] = IF j < i THEN s[j] ELSE s[j + 1]
<1> DEFINE a == SubSeq(s, 1, i - 1)
           b == SubSeq(s, i + 1, Len(s))
<1>1. /\ a \in Seq(S) /\ Len(a) = i - 1 /\ \A j \in 1..i - 1 : a[j] = s[j]
      /\ b \in Seq(S) /\ Len(b) = Len(s) - i /\ \A j \in 1..Len(s) - i : b[j] = s[i + j]
      /\ Len(s) \in Nat
  OBVIOUS
<1>2. RemoveAt(s, i) = a \o b
  BY DEF RemoveAt
<1> HIDE DEF a, b
<1>3. /\ a \o b \in Seq(S) /\ Len(a \o b) = Len(s) - 1
      /\ \A j \in 1..Len(s) - 1 : (a \o b)[j] = IF j <= i - 1 THEN a[j] ELSE b[j - (i - 1)]
  <2>1. /\ a \o b \in Seq(S) /\ Len(a \o b) = Len(a) + Len(b)
        /\ \A j \in 1..Len(a) + Len(b) : (a \o b)[j] = IF j <= Len(a) THEN a[j] ELSE b[j - Len(a)]
    BY <1>1, ConcatProperties
  <2>2. Len(a) = i - 1 /\ Len(a) + Len(b) = Len(s) - 1
    BY <1>1
  <2> QED
    BY <2>1, <2>2
<1>4. ASSUME NEW j \in 1..Len(s) - 1 PROVE (a \o b)[j] = IF j < i THEN s[j] ELSE s[j + 1]
  <2>1. CASE j < i
    BY <1>1, <1>3, <2>1
  <2>2. CASE ~(j < i)
    <3>1. j - (i - 1) \in 1..Len(s) - i /\ i + (j - (i - 1)) = j + 1
      BY <1>1, <2>2
    <3> QED
      BY <1>1, <1>3, <2>2, <3>1
  <2> QED
    BY <2>1, <2>2
<1> QED
  BY <1>2, <1>3, <1>4

\* A leaf loses an entry and keeps others.
LEMMA LeafRemove ==
  ASSUME NEW n \in 0..Levels, NEW entries \in Seq(Entry), Len(entries) # 1, DistinctKeys(entries), OneHash(entries),
         NEW place \in 1..Len(entries)
  PROVE  /\ RemoveAt(entries, place) \in Seq(Entry) /\ RemoveAt(entries, place) # <<>>
         /\ DistinctKeys(RemoveAt(entries, place)) /\ OneHash(RemoveAt(entries, place))
         /\ \A p : AllOnPath(n, p, entries) => AllOnPath(n, p, RemoveAt(entries, place))
         /\ Overrides(n, Leaf(entries), Leaf(RemoveAt(entries, place)), entries[place].key, {})
<1> DEFINE new == RemoveAt(entries, place)
           old(j) == IF j < place THEN j ELSE j + 1
<1>1. /\ new \in Seq(Entry) /\ Len(new) = Len(entries) - 1 /\ Len(entries) \in Nat /\ Len(entries) > 1
      /\ \A j \in 1..Len(entries) - 1 : new[j] = IF j < place THEN entries[j] ELSE entries[j + 1]
  <2>1. Len(entries) \in Nat /\ Len(entries) > 1
    <3> DEFINE m == Len(entries)
    <3>1. m \in Nat /\ m # 1 /\ place \in 1..m
      BY LenProperties
    <3> HIDE DEF m, new, old
    <3>2. m > 1
      BY <3>1
    <3> QED
      BY <3>1, <3>2 DEF m
  <2>2. /\ new \in Seq(Entry) /\ Len(new) = Len(entries) - 1
        /\ \A j \in 1..Len(entries) - 1 : new[j] = IF j < place THEN entries[j] ELSE entries[j + 1]
    BY RemovePlace
  <2> HIDE DEF new
  <2> QED
    BY <2>1, <2>2
<1> HIDE DEF new
<1>2. /\ \A j \in 1..Len(new) : old(j) \in 1..Len(entries) /\ old(j) # place /\ new[j] = entries[old(j)]
      /\ \A i, j \in 1..Len(new) : old(i) = old(j) => i = j
      /\ \A i \in 1..Len(entries) : i # place => \E j \in 1..Len(new) : i = old(j)
  <2>1. ASSUME NEW j \in 1..Len(new) PROVE old(j) \in 1..Len(entries) /\ old(j) # place /\ new[j] = entries[old(j)]
    <3> HIDE DEF old
    <3>1. /\ j \in 1..Len(entries) - 1 /\ j \in Nat /\ place \in Nat /\ Len(entries) \in Nat
          /\ new[j] = IF j < place THEN entries[j] ELSE entries[j + 1]
      <4>1. Len(new) = Len(entries) - 1 /\ Len(entries) \in Nat
        BY <1>1, Zenon
      <4>2. j \in 1..Len(entries) - 1
        BY <4>1, Zenon
      <4>3. new[j] = IF j < place THEN entries[j] ELSE entries[j + 1]
        BY <1>1, <4>2, Zenon
      <4>4. j \in Nat /\ place \in Nat
        BY <4>1
      <4> QED
        BY <4>1, <4>2, <4>3, <4>4
    <3>2. CASE j < place
      <4>1. old(j) = j
        BY <3>2 DEF old
      <4> QED
        BY <3>1, <3>2, <4>1
    <3>3. CASE ~(j < place)
      <4>1. old(j) = j + 1
        BY <3>3 DEF old
      <4>2. j + 1 \in 1..Len(entries) /\ j + 1 # place
        BY <3>1, <3>3
      <4> QED
        BY <3>1, <3>3, <4>1, <4>2
    <3> QED
      BY <3>2, <3>3
  <2>2. ASSUME NEW i \in 1..Len(new), NEW j \in 1..Len(new), old(i) = old(j) PROVE i = j
    BY <1>1, <2>2
  <2>3. ASSUME NEW i \in 1..Len(entries), i # place PROVE \E j \in 1..Len(new) : i = old(j)
    <3>1. CASE i < place
      <4>1. i \in 1..Len(new) /\ i = old(i)
        BY <1>1, <3>1
      <4> QED
        BY <4>1
    <3>2. CASE i > place
      <4>1. i - 1 \in 1..Len(new) /\ i = old(i - 1)
        BY <1>1, <3>2
      <4> QED
        BY <4>1
    <3> QED
      BY <2>3, <3>1, <3>2
  <2> QED
    BY <2>1, <2>2, <2>3
<1> HIDE DEF old
<1>3. new # <<>>
  BY <1>1
<1>4. DistinctKeys(new)
  <2> SUFFICES ASSUME NEW i \in 1..Len(new), NEW j \in 1..Len(new), new[i].key = new[j].key
               PROVE  i = j
    BY DEF DistinctKeys
  <2>1. /\ old(i) \in 1..Len(entries) /\ old(j) \in 1..Len(entries)
        /\ entries[old(i)].key = entries[old(j)].key
    BY <1>2
  <2>2. old(i) = old(j)
    BY <2>1 DEF DistinctKeys
  <2> QED
    BY <1>2, <2>2
<1>5. OneHash(new)
  <2> SUFFICES ASSUME NEW i \in 1..Len(new), NEW j \in 1..Len(new)
               PROVE  HashOf[new[i].key] = HashOf[new[j].key]
    BY DEF OneHash
  <2>1. /\ old(i) \in 1..Len(entries) /\ old(j) \in 1..Len(entries)
        /\ new[i] = entries[old(i)] /\ new[j] = entries[old(j)]
    BY <1>2
  <2>2. HashOf[entries[old(i)].key] = HashOf[entries[old(j)].key]
    BY <2>1 DEF OneHash
  <2> QED
    BY <2>1, <2>2
<1>6. \A p : AllOnPath(n, p, entries) => AllOnPath(n, p, new)
  BY <1>2 DEF AllOnPath
<1>7. ASSUME NEW x \in MapKey
      PROVE  TrieGet[n][Leaf(new)][x] = IF x = entries[place].key THEN {} ELSE TrieGet[n][Leaf(entries)][x]
  <2>1. CASE x = entries[place].key
    <3>1. \A j \in 1..Len(new) : new[j].key # x
      BY <1>2, <2>1 DEF DistinctKeys
    <3>2. TrieGet[n][Leaf(new)][x] = {}
      BY <1>1, <3>1, LeafHolds
    <3> QED
      BY <2>1, <3>2
  <2>2. CASE x # entries[place].key
    <3>1. TrieGet[n][Leaf(new)][x] = {v \in MapValue : \E i \in 1..Len(new) : new[i].key = x /\ v = new[i].value}
      BY <1>1, LeafHolds
    <3>2. TrieGet[n][Leaf(entries)][x]
            = {v \in MapValue : \E i \in 1..Len(entries) : entries[i].key = x /\ v = entries[i].value}
      BY LeafHolds
    <3>3. ASSUME NEW v PROVE (\E i \in 1..Len(new) : new[i].key = x /\ v = new[i].value)
                               <=> \E i \in 1..Len(entries) : entries[i].key = x /\ v = entries[i].value
      <4>1. ASSUME NEW j \in 1..Len(new), new[j].key = x, v = new[j].value
            PROVE  \E i \in 1..Len(entries) : entries[i].key = x /\ v = entries[i].value
        <5>1. old(j) \in 1..Len(entries) /\ entries[old(j)].key = x /\ v = entries[old(j)].value
          BY <1>2, <4>1
        <5> QED
          BY <5>1
      <4>2. ASSUME NEW i \in 1..Len(entries), entries[i].key = x, v = entries[i].value
            PROVE  \E j \in 1..Len(new) : new[j].key = x /\ v = new[j].value
        <5>1. PICK j \in 1..Len(new) : i = old(j)
          BY <1>2, <2>2, <4>2
        <5>2. new[j].key = x /\ v = new[j].value
          BY <1>2, <4>2, <5>1
        <5> QED
          BY <5>2
      <4> QED
        BY <4>1, <4>2
    <3> QED
      BY <2>2, <3>1, <3>2, <3>3
  <2> QED
    BY <2>1, <2>2
<1> QED
  BY <1>1, <1>3, <1>4, <1>5, <1>6, <1>7 DEF Overrides, new

DeleteGood(n) ==
  \A p \in Path : \A node \in Tries[n][p] \cup {NoNode} : \A k \in MapKey :
    /\ TrieDelete[n][node][k].node \in Tries[n][p] \cup {NoNode}
    /\ Overrides(n, node, TrieDelete[n][node][k].node, k, {})
    /\ TrieDelete[n][node][k].removed = (TrieGet[n][node][k] # {})

\* What holds nothing under a key is not overridden by nothing.
LEMMA NothingDeleted ==
  ASSUME NEW n, NEW node, NEW k \in MapKey, TrieGet[n][node][k] = {}
  PROVE  Overrides(n, node, node, k, {})
BY DEF Overrides

LEMMA DeleteFromLeafGood ==
  ASSUME NEW n \in 0..Levels, NEW p \in Path,
         NEW entries \in Seq(Entry), entries # <<>>, AllOnPath(n, p, entries), OneHash(entries), DistinctKeys(entries),
         NEW k \in MapKey
  PROVE  /\ TrieDelete[n][Leaf(entries)][k].node \in Tries[n][p] \cup {NoNode}
         /\ Overrides(n, Leaf(entries), TrieDelete[n][Leaf(entries)][k].node, k, {})
         /\ TrieDelete[n][Leaf(entries)][k].removed = (TrieGet[n][Leaf(entries)][k] # {})
<1> DEFINE result == TrieDelete[n][Leaf(entries)][k]
           place  == IndexOf(entries, k)
           new    == RemoveAt(entries, place)
<1>1. result = DeleteFromLeaf(Leaf(entries), k)
  BY DeleteOf
<1>2. Leaf(entries).entries = entries
  BY DEF Leaf
<1>3. result = IF place = 0 THEN [node |-> Leaf(entries), removed |-> FALSE]
               ELSE IF Len(entries) = 1 THEN [node |-> NoNode, removed |-> TRUE]
               ELSE [node |-> Leaf(new), removed |-> TRUE]
  BY <1>1, <1>2, Zenon DEF DeleteFromLeaf
<1> HIDE DEF result, place, new
<1>4. /\ place = 0 => \A i \in 1..Len(entries) : entries[i].key # k
      /\ place # 0 => place \in 1..Len(entries) /\ entries[place].key = k
  BY IndexPlace DEF place, KeyPlace
<1>5. CASE place = 0
  <2>1. result.node = Leaf(entries) /\ result.removed = FALSE
    BY <1>3, <1>5
  <2>2. TrieGet[n][Leaf(entries)][k] = {}
    BY <1>4, <1>5, LeafHolds
  <2>3. Leaf(entries) \in Tries[n][p]
    BY LeafTrie
  <2>4. Overrides(n, Leaf(entries), Leaf(entries), k, {})
    BY <2>2, NothingDeleted
  <2> QED
    BY <2>1, <2>2, <2>3, <2>4 DEF result
<1>6. place # 0 => TrieGet[n][Leaf(entries)][k] # {}
  <2> SUFFICES ASSUME place # 0 PROVE TrieGet[n][Leaf(entries)][k] # {}
    OBVIOUS
  <2>1. TrieGet[n][Leaf(entries)][k] = {entries[place].value}
    BY <1>4, LeafHolds
  <2> QED
    BY <2>1
<1>7. CASE place # 0 /\ Len(entries) = 1
  <2>1. result.node = NoNode /\ result.removed = TRUE
    BY <1>3, <1>7
  <2>2. \A i \in 1..Len(entries) : entries[i].key = k
    BY <1>4, <1>7
  <2>3. ASSUME NEW x \in MapKey PROVE TrieGet[n][NoNode][x] = IF x = k THEN {} ELSE TrieGet[n][Leaf(entries)][x]
    <3>1. TrieGet[n][NoNode][x] = {}
      BY GetOf
    <3>2. x # k => TrieGet[n][Leaf(entries)][x] = {}
      BY <2>2, LeafHolds
    <3> QED
      BY <3>1, <3>2
  <2>4. Overrides(n, Leaf(entries), NoNode, k, {})
    BY <2>3 DEF Overrides
  <2> QED
    BY <1>6, <1>7, <2>1, <2>4 DEF result
<1>8. CASE place # 0 /\ Len(entries) # 1
  <2>1. result.node = Leaf(new) /\ result.removed = TRUE
    BY <1>3, <1>8
  <2>2. place \in 1..Len(entries) /\ entries[place].key = k
    BY <1>4, <1>8
  <2>3. /\ new \in Seq(Entry) /\ new # <<>> /\ DistinctKeys(new) /\ OneHash(new) /\ AllOnPath(n, p, new)
        /\ Overrides(n, Leaf(entries), Leaf(new), entries[place].key, {})
    BY <1>8, <2>2, LeafRemove DEF new
  <2>4. Leaf(new) \in Tries[n][p]
    BY <2>3, LeafTrie
  <2> QED
    BY <1>6, <1>8, <2>1, <2>2, <2>3, <2>4 DEF result
<1> QED
  BY <1>5, <1>7, <1>8

LEMMA DeleteBelowGood ==
  ASSUME NEW n \in 0..Levels, n # 0, DeleteGood(n - 1), NEW p \in Path, NEW children, Below(n, p, children),
         \E pos \in Part : children[pos] # NoNode, NEW k \in MapKey
  PROVE  /\ TrieDelete[n][Internal(children)][k].node \in Tries[n][p] \cup {NoNode}
         /\ Overrides(n, Internal(children), TrieDelete[n][Internal(children)][k].node, k, {})
         /\ TrieDelete[n][Internal(children)][k].removed = (TrieGet[n][Internal(children)][k] # {})
<1> DEFINE pos    == HashOf[k][n]
           q      == [p EXCEPT ![n] = pos]
           below  == TrieDelete[n - 1][children[pos]][k]
           new    == [children EXCEPT ![pos] = below.node]
           node   == Internal(children)
           result == TrieDelete[n][node][k]
<1>1. pos \in Part /\ n - 1 \in 0..Levels
  BY HashParts, LevelBelow
<1>2. q \in Path
  BY <1>1, PathBelow
<1>3. children \in [Part -> TrieNode[n - 1]] /\ children[pos] \in Tries[n - 1][q] \cup {NoNode}
  BY <1>1, Zenon DEF Below
<1>4. /\ below.node \in Tries[n - 1][q] \cup {NoNode}
      /\ Overrides(n - 1, children[pos], below.node, k, {})
      /\ below.removed = (TrieGet[n - 1][children[pos]][k] # {})
  <2> DEFINE child == children[pos]
  <2>1. q \in Path /\ child \in Tries[n - 1][q] \cup {NoNode}
    BY <1>2, <1>3
  <2> HIDE DEF q, child
  <2>2. /\ TrieDelete[n - 1][child][k].node \in Tries[n - 1][q] \cup {NoNode}
        /\ Overrides(n - 1, child, TrieDelete[n - 1][child][k].node, k, {})
        /\ TrieDelete[n - 1][child][k].removed = (TrieGet[n - 1][child][k] # {})
    BY <2>1, Zenon DEF DeleteGood
  <2> QED
    BY <2>2, Zenon DEF child
<1>5. below.node \in TrieNode[n - 1]
  <2> HIDE DEF q, below
  <2>1. Tries[n - 1][q] \subseteq TrieNode[n - 1] /\ NoNode \in TrieNode[n - 1]
    BY <1>1, <1>2, TriesAre, NodeKinds, SMTT(30)
  <2> QED
    BY <1>4, <2>1
<1>6. /\ new \in [Part -> TrieNode[n - 1]] /\ new[pos] = below.node
      /\ \A x \in Part : x # pos => new[x] = children[x]
  BY <1>1, <1>3, <1>5
<1>7. result = DeleteBelow(TrieDelete[n - 1], n, node, k)
  BY <1>3, DeleteOf
<1>8. node.children = children /\ WithChild(node, pos, below.node) = Internal(new)
  BY DEF Internal, WithChild
<1>9. Occupied(node) = {x \in Part : children[x] # NoNode}
  BY <1>8 DEF Occupied
<1>10. result = IF ~below.removed THEN [node |-> node, removed |-> FALSE]
                ELSE IF below.node = NoNode /\ Cardinality(Occupied(node)) = 1 THEN [node |-> NoNode, removed |-> TRUE]
                ELSE [node |-> Internal(new), removed |-> TRUE]
  BY <1>7, <1>8, Zenon DEF DeleteBelow
<1>11. node \in Tries[n][p]
  BY InternalTrie
<1> HIDE DEF pos, q, below, new, node, result
<1>12. \A x \in MapKey : TrieGet[n][node][x] = TrieGet[n - 1][children[HashOf[x][n]]][x]
  BY <1>3, GetOf DEF node
<1>13. below.removed = (TrieGet[n][node][k] # {})
  BY <1>4, <1>12 DEF pos
<1>14. \A x \in MapKey : TrieGet[n][Internal(new)][x] = IF x = k THEN {} ELSE TrieGet[n][node][x]
  <2> SUFFICES ASSUME NEW x \in MapKey
               PROVE  TrieGet[n][Internal(new)][x] = IF x = k THEN {} ELSE TrieGet[n][node][x]
    OBVIOUS
  <2>1. HashOf[x][n] \in Part
    BY HashParts
  <2>2. TrieGet[n][Internal(new)][x] = TrieGet[n - 1][new[HashOf[x][n]]][x]
    BY <1>6, GetOf
  <2>3. CASE HashOf[x][n] = pos
    <3>1. TrieGet[n - 1][below.node][x] = IF x = k THEN {} ELSE TrieGet[n - 1][children[pos]][x]
      BY <1>4 DEF Overrides
    <3> QED
      BY <1>6, <1>12, <2>2, <2>3, <3>1
  <2>4. CASE HashOf[x][n] # pos
    <3>1. x # k
      BY <2>4 DEF pos
    <3>2. new[HashOf[x][n]] = children[HashOf[x][n]]
      BY <1>6, <2>1, <2>4
    <3> QED
      BY <1>12, <2>2, <3>1, <3>2
  <2> QED
    BY <2>3, <2>4
<1>15. Below(n, p, new)
  <2>1. ASSUME NEW x \in Part, new[x] # NoNode PROVE new[x] \in Tries[n - 1][[p EXCEPT ![n] = x]]
    <3>1. CASE x = pos
      BY <1>4, <1>6, <2>1, <3>1 DEF q
    <3>2. CASE x # pos
      BY <1>6, <2>1, <3>2 DEF Below
    <3> QED
      BY <3>1, <3>2
  <2> QED
    BY <1>6, <2>1 DEF Below
<1>16. CASE ~below.removed
  <2>1. result.node = node /\ result.removed = FALSE /\ TrieGet[n][node][k] = {}
    BY <1>10, <1>13, <1>16
  <2>2. Overrides(n, node, node, k, {})
    BY <2>1, NothingDeleted
  <2> QED
    BY <1>11, <2>1, <2>2 DEF result, node
<1>17. below.removed => children[pos] # NoNode
  <2>1. TrieGet[n - 1][NoNode][k] = {}
    BY <1>1, GetOf
  <2> QED
    BY <1>4, <2>1
<1>18. CASE below.removed /\ below.node = NoNode /\ Cardinality(Occupied(node)) = 1
  <2>1. result.node = NoNode /\ result.removed = TRUE
    BY <1>10, <1>18
  <2>2. \A x \in Part : x # pos => children[x] = NoNode
    <3>1. IsFiniteSet(Part)
      BY FS_Interval, HashMapAssumption DEF Part
    <3>2. IsFiniteSet(Occupied(node))
      BY <1>9, <3>1, FS_Subset
    <3>3. PICK only : Occupied(node) = {only}
      BY <1>18, <3>2, FS_Singleton
    <3>4. pos \in Occupied(node)
      BY <1>1, <1>9, <1>17, <1>18
    <3> QED
      BY <1>9, <3>3, <3>4
  <2>3. \A x \in Part : new[x] = NoNode
    BY <1>6, <1>18, <2>2
  <2>4. ASSUME NEW x \in MapKey PROVE TrieGet[n][NoNode][x] = TrieGet[n][Internal(new)][x]
    <3>1. TrieGet[n][Internal(new)][x] = TrieGet[n - 1][new[HashOf[x][n]]][x]
      BY <1>6, GetOf
    <3>2. new[HashOf[x][n]] = NoNode
      BY <2>3, HashParts
    <3>3. TrieGet[n - 1][NoNode][x] = {} /\ TrieGet[n][NoNode][x] = {}
      BY <1>1, GetOf
    <3> QED
      BY <3>1, <3>2, <3>3
  <2>5. Overrides(n, node, NoNode, k, {})
    BY <1>14, <2>4 DEF Overrides
  <2> QED
    BY <1>13, <1>18, <2>1, <2>5 DEF result, node
<1>19. CASE below.removed /\ ~(below.node = NoNode /\ Cardinality(Occupied(node)) = 1)
  <2>1. result.node = Internal(new) /\ result.removed = TRUE
    BY <1>10, <1>19
  <2>2. \E x \in Part : new[x] # NoNode
    <3>1. CASE below.node # NoNode
      BY <1>1, <1>6, <3>1
    <3>2. CASE Cardinality(Occupied(node)) # 1
      <4> SUFFICES ASSUME \A x \in Part : new[x] = NoNode PROVE FALSE
        OBVIOUS
      <4>1. Occupied(node) = {pos}
        BY <1>1, <1>6, <1>9, <1>17, <1>19
      <4> QED
        BY <3>2, <4>1, FS_Singleton
    <3> QED
      BY <1>19, <3>1, <3>2
  <2>3. Internal(new) \in Tries[n][p]
    BY <1>15, <2>2, InternalTrie
  <2>4. Overrides(n, node, Internal(new), k, {})
    BY <1>14 DEF Overrides
  <2> QED
    BY <1>13, <1>19, <2>1, <2>3, <2>4 DEF result, node
<1> QED
  BY <1>16, <1>18, <1>19

\* trieDelete, on every level.
LEMMA DeleteGoodAlways == \A n \in 0..Levels : DeleteGood(n)
<1> DEFINE P == {n \in Nat : n <= Levels => DeleteGood(n)}
<1>1. ASSUME NEW n \in 0..Levels, n # 0 => DeleteGood(n - 1) PROVE DeleteGood(n)
  <2> SUFFICES ASSUME NEW p \in Path, NEW node \in Tries[n][p] \cup {NoNode}, NEW k \in MapKey
               PROVE  /\ TrieDelete[n][node][k].node \in Tries[n][p] \cup {NoNode}
                      /\ Overrides(n, node, TrieDelete[n][node][k].node, k, {})
                      /\ TrieDelete[n][node][k].removed = (TrieGet[n][node][k] # {})
    BY Zenon DEF DeleteGood
  <2>1. CASE node = NoNode
    <3>1. TrieDelete[n][NoNode][k] = [node |-> NoNode, removed |-> FALSE]
      BY DeleteOf
    <3>2. TrieDelete[n][NoNode][k].node = NoNode /\ TrieDelete[n][NoNode][k].removed = FALSE
      BY <3>1
    <3>3. TrieGet[n][NoNode][k] = {}
      BY GetOf
    <3>4. Overrides(n, NoNode, NoNode, k, {})
      BY <3>3, NothingDeleted
    <3> QED
      BY <2>1, <3>2, <3>3, <3>4
  <2>2. ASSUME NEW entries \in Seq(Entry), node = Leaf(entries), entries # <<>>,
               AllOnPath(n, p, entries), OneHash(entries), DistinctKeys(entries)
        PROVE  /\ TrieDelete[n][node][k].node \in Tries[n][p] \cup {NoNode}
               /\ Overrides(n, node, TrieDelete[n][node][k].node, k, {})
               /\ TrieDelete[n][node][k].removed = (TrieGet[n][node][k] # {})
    <3>1. /\ TrieDelete[n][Leaf(entries)][k].node \in Tries[n][p] \cup {NoNode}
          /\ Overrides(n, Leaf(entries), TrieDelete[n][Leaf(entries)][k].node, k, {})
          /\ TrieDelete[n][Leaf(entries)][k].removed = (TrieGet[n][Leaf(entries)][k] # {})
      BY <2>2, DeleteFromLeafGood
    <3> QED
      BY <2>2, <3>1
  <2>3. ASSUME n # 0, NEW children, node = Internal(children), Below(n, p, children),
               \E pos \in Part : children[pos] # NoNode
        PROVE  /\ TrieDelete[n][node][k].node \in Tries[n][p] \cup {NoNode}
               /\ Overrides(n, node, TrieDelete[n][node][k].node, k, {})
               /\ TrieDelete[n][node][k].removed = (TrieGet[n][node][k] # {})
    <3>1. /\ TrieDelete[n][Internal(children)][k].node \in Tries[n][p] \cup {NoNode}
          /\ Overrides(n, Internal(children), TrieDelete[n][Internal(children)][k].node, k, {})
          /\ TrieDelete[n][Internal(children)][k].removed = (TrieGet[n][Internal(children)][k] # {})
      BY <1>1, <2>3, DeleteBelowGood
    <3> QED
      BY <2>3, <3>1
  <2>4. CASE node \in Tries[n][p]
    <3>1. \/ \E entries \in Seq(Entry) :
               /\ node = Leaf(entries) /\ entries # <<>>
               /\ AllOnPath(n, p, entries) /\ OneHash(entries) /\ DistinctKeys(entries)
          \/ /\ n # 0
             /\ \E children : /\ node = Internal(children) /\ Below(n, p, children)
                              /\ \E pos \in Part : children[pos] # NoNode
      BY <2>4, TrieCases
    <3> QED
      BY <2>2, <2>3, <3>1
  <2> QED
    BY <2>1, <2>4
<1>2. 0 \in P
  BY <1>1, HashMapAssumption
<1>3. ASSUME NEW n \in Nat, n \in P PROVE n + 1 \in P
  <2> SUFFICES ASSUME n + 1 <= Levels PROVE DeleteGood(n + 1)
    OBVIOUS
  <2>1. n + 1 \in 0..Levels /\ (n + 1) - 1 = n /\ n <= Levels
    BY HashMapAssumption
  <2>2. DeleteGood((n + 1) - 1)
    BY <1>3, <2>1
  <2> QED
    BY <1>1, <2>1, <2>2
<1>4. \A n \in Nat : n \in P
  <2> HIDE DEF P
  <2> QED
    BY <1>2, <1>3, NatSetInduction
<1> QED
  BY <1>4, HashMapAssumption

-----------------------------------------------------------------------------
(* trieEntries gives every entry once. *)

\* Sequences with no element twice, neither in one nor in two of them, are flattened to such a one.
Apart(s) == /\ \A i \in 1..Len(s) : IsInjective(s[i])
            /\ \A i, j \in 1..Len(s) : i # j => Range(s[i]) \cap Range(s[j]) = {}

LEMMA FlattenApart ==
  ASSUME NEW S, NEW s \in Seq(Seq(S)), Apart(s)
  PROVE  /\ FlattenSeq(s) \in Seq(S) /\ IsInjective(FlattenSeq(s))
         /\ \A x : x \in Range(FlattenSeq(s)) <=> \E i \in 1..Len(s) : x \in Range(s[i])
<1> DEFINE Fine(t) == /\ FlattenSeq(t) \in Seq(S) /\ IsInjective(FlattenSeq(t))
                      /\ \A x : x \in Range(FlattenSeq(t)) <=> \E i \in 1..Len(t) : x \in Range(t[i])
           P == {t \in Seq(Seq(S)) : Apart(t) => Fine(t)}
<1>1. <<>> \in P
  <2>1. FlattenSeq(<<>>) = <<>> /\ <<>> \in Seq(Seq(S)) /\ Len(<<>>) = 0
    BY FlattenEmpty
  <2>2. <<>> \in Seq(S) /\ IsInjective(<<>>) /\ Range(<<>>) = {}
    BY EmptyQueue
  <2>3. \A x : ~ \E i \in 1..Len(<<>>) : x \in Range(<<>>[i])
    BY <2>1
  <2>4. Fine(<<>>)
    BY <2>1, <2>2, <2>3, Zenon
  <2> QED
    BY <2>1, <2>4, Zenon
<1>2. ASSUME NEW t \in Seq(Seq(S)), NEW y \in Seq(S), t \in P PROVE Append(t, y) \in P
  <2> DEFINE u == Append(t, y)
  <2>1. /\ u \in Seq(Seq(S)) /\ Len(u) = Len(t) + 1 /\ Len(t) \in Nat /\ u[Len(t) + 1] = y
        /\ \A i \in 1..Len(t) : u[i] = t[i]
    OBVIOUS
  <2>2. FlattenSeq(u) = FlattenSeq(t) \o y
    BY FlattenAppend
  <2> HIDE DEF u
  <2> SUFFICES ASSUME Apart(u) PROVE Fine(u)
    BY <2>1 DEF u
  <2>3. Apart(t) /\ IsInjective(y) /\ \A i \in 1..Len(t) : Range(t[i]) \cap Range(y) = {}
    <3>1. \A i \in 1..Len(t) : i \in 1..Len(u) /\ i # Len(t) + 1
      BY <2>1
    <3>2. Len(t) + 1 \in 1..Len(u)
      BY <2>1
    <3>3. Apart(t)
      BY <2>1, <3>1 DEF Apart
    <3>4. IsInjective(y)
      BY <2>1, <3>2 DEF Apart
    <3>5. ASSUME NEW i \in 1..Len(t) PROVE Range(t[i]) \cap Range(y) = {}
      <4>1. Range(u[i]) \cap Range(u[Len(t) + 1]) = {}
        BY <3>1, <3>2 DEF Apart
      <4> QED
        BY <2>1, <4>1
    <3> QED
      BY <3>3, <3>4, <3>5
  <2>4. Fine(t)
    BY <1>2, <2>3
  <2> DEFINE f == FlattenSeq(t)
  <2>5. f \in Seq(S) /\ IsInjective(f) /\ \A x : x \in Range(f) <=> \E i \in 1..Len(t) : x \in Range(t[i])
    BY <2>4
  <2> HIDE DEF f, Fine
  <2>6. Range(f) \cap Range(y) = {}
    BY <2>3, <2>5
  <2>7. f \o y \in Seq(S) /\ IsInjective(f \o y) /\ Range(f \o y) = Range(f) \cup Range(y)
    BY <2>3, <2>5, <2>6, ConcatQueue
  <2>8. \A x : (\E i \in 1..Len(u) : x \in Range(u[i])) <=> (x \in Range(y) \/ \E i \in 1..Len(t) : x \in Range(t[i]))
    <3>1. \A i \in 1..Len(u) : i \in 1..Len(t) \/ i = Len(t) + 1
      BY <2>1
    <3>2. Len(t) + 1 \in 1..Len(u) /\ \A i \in 1..Len(t) : i \in 1..Len(u)
      BY <2>1
    <3> QED
      BY <2>1, <3>1, <3>2
  <2>9. FlattenSeq(u) = f \o y
    BY <2>2 DEF f
  <2>10. \A x : x \in Range(f \o y) <=> \E i \in 1..Len(u) : x \in Range(u[i])
    BY <2>5, <2>7, <2>8
  <2> QED
    BY <2>7, <2>9, <2>10 DEF Fine
<1>3. \A t \in Seq(Seq(S)) : t \in P
  <2> HIDE DEF P
  <2> QED
    BY <1>1, <1>2, SeqSetInduction
<1> QED
  BY <1>3

HeldBy(n, node) == {e \in Entry : TrieGet[n][node][e.key] = {e.value}}

EntriesGood(n) ==
  \A p \in Path : \A node \in Tries[n][p] \cup {NoNode} :
    /\ TrieEntries[n][node] \in Seq(Entry) /\ IsInjective(TrieEntries[n][node])
    /\ Range(TrieEntries[n][node]) = HeldBy(n, node)
    /\ \A k \in MapKey : TrieGet[n][node][k] # {} => OnPath(k, n, p)

LEMMA EntriesOfLeaf ==
  ASSUME NEW n \in 0..Levels, NEW p \in Path,
         NEW entries \in Seq(Entry), entries # <<>>, AllOnPath(n, p, entries), OneHash(entries), DistinctKeys(entries)
  PROVE  /\ TrieEntries[n][Leaf(entries)] \in Seq(Entry) /\ IsInjective(TrieEntries[n][Leaf(entries)])
         /\ Range(TrieEntries[n][Leaf(entries)]) = HeldBy(n, Leaf(entries))
         /\ \A k \in MapKey : TrieGet[n][Leaf(entries)][k] # {} => OnPath(k, n, p)
<1>1. TrieEntries[n][Leaf(entries)] = entries
  BY EntriesAre
<1>2. DOMAIN entries = 1..Len(entries) /\ \A i \in 1..Len(entries) : entries[i] \in Entry
  OBVIOUS
<1>3. IsInjective(entries)
  BY <1>2 DEF DistinctKeys, IsInjective
<1>4. ASSUME NEW e \in Range(entries) PROVE e \in HeldBy(n, Leaf(entries))
  <2>1. PICK i \in 1..Len(entries) : entries[i] = e
    BY <1>2 DEF Range
  <2>2. e \in Entry /\ e.key \in MapKey
    BY <1>2, <2>1 DEF Entry
  <2>3. TrieGet[n][Leaf(entries)][e.key] = {e.value}
    BY <2>1, <2>2, LeafHolds
  <2> QED
    BY <2>2, <2>3 DEF HeldBy
<1>5. ASSUME NEW e \in HeldBy(n, Leaf(entries)) PROVE e \in Range(entries)
  <2>1. e \in Entry /\ e.key \in MapKey /\ TrieGet[n][Leaf(entries)][e.key] = {e.value}
    BY DEF HeldBy, Entry
  <2>2. PICK i \in 1..Len(entries) : entries[i].key = e.key
    BY <2>1, LeafHolds, ZenonT(40)
  <2>3. TrieGet[n][Leaf(entries)][e.key] = {entries[i].value}
    BY <2>1, <2>2, LeafHolds, ZenonT(40)
  <2>4. entries[i].value = e.value /\ entries[i] \in Entry
    BY <1>2, <2>1, <2>3
  <2>5. entries[i] = e
    BY <2>1, <2>2, <2>4 DEF Entry
  <2> QED
    BY <1>2, <2>5 DEF Range
<1>6. ASSUME NEW k \in MapKey, TrieGet[n][Leaf(entries)][k] # {} PROVE OnPath(k, n, p)
  <2>1. PICK i \in 1..Len(entries) : entries[i].key = k
    BY <1>6, LeafHolds
  <2> QED
    BY <2>1 DEF AllOnPath
<1>7. Range(entries) = HeldBy(n, Leaf(entries))
  BY <1>4, <1>5
<1> QED
  BY <1>1, <1>3, <1>6, <1>7

LEMMA EntriesOfInternal ==
  ASSUME NEW n \in 0..Levels, n # 0, EntriesGood(n - 1), NEW p \in Path, NEW children, Below(n, p, children)
  PROVE  /\ TrieEntries[n][Internal(children)] \in Seq(Entry) /\ IsInjective(TrieEntries[n][Internal(children)])
         /\ Range(TrieEntries[n][Internal(children)]) = HeldBy(n, Internal(children))
         /\ \A k \in MapKey : TrieGet[n][Internal(children)][k] # {} => OnPath(k, n, p)
<1> DEFINE node == Internal(children)
           parts == [i \in 1..Width |-> TrieEntries[n - 1][children[i - 1]]]
<1>1. children \in [Part -> TrieNode[n - 1]]
  BY DEF Below
<1>2. TrieEntries[n][node] = FlattenSeq(parts)
  BY <1>1, EntriesAre
<1>3. \A x \in MapKey : TrieGet[n][node][x] = TrieGet[n - 1][children[HashOf[x][n]]][x]
  BY <1>1, GetOf
<1>4. ASSUME NEW pos \in Part
      PROVE  /\ TrieEntries[n - 1][children[pos]] \in Seq(Entry) /\ IsInjective(TrieEntries[n - 1][children[pos]])
             /\ Range(TrieEntries[n - 1][children[pos]]) = HeldBy(n - 1, children[pos])
             /\ \A k \in MapKey : TrieGet[n - 1][children[pos]][k] # {} => OnPath(k, n, p) /\ HashOf[k][n] = pos
  <2> DEFINE q == [p EXCEPT ![n] = pos]
             child == children[pos]
  <2>1. q \in Path /\ \A k \in MapKey : OnPath(k, n - 1, q) => OnPath(k, n, p) /\ HashOf[k][n] = pos
    <3> HIDE DEF node, parts, child
    <3>1. q \in Path /\ \A k \in MapKey : OnPath(k, n - 1, q) <=> OnPath(k, n, p) /\ HashOf[k][n] = pos
      BY PathBelow
    <3> QED
      BY <3>1
  <2>2. child \in Tries[n - 1][q] \cup {NoNode}
    BY DEF Below
  <2> HIDE DEF q, child
  <2>3. /\ TrieEntries[n - 1][child] \in Seq(Entry) /\ IsInjective(TrieEntries[n - 1][child])
        /\ Range(TrieEntries[n - 1][child]) = HeldBy(n - 1, child)
        /\ \A k \in MapKey : TrieGet[n - 1][child][k] # {} => OnPath(k, n - 1, q)
    BY <2>1, <2>2, Zenon DEF EntriesGood
  <2>4. \A k \in MapKey : TrieGet[n - 1][child][k] # {} => OnPath(k, n, p) /\ HashOf[k][n] = pos
    BY <2>1, <2>3
  <2> QED
    BY <2>3, <2>4 DEF child
<1> DEFINE inPart(pos) == HeldBy(n - 1, children[pos])
<1>5. \A i \in 1..Width : i - 1 \in Part
  BY HashMapAssumption DEF Part
<1>6. \A i \in 1..Width : /\ parts[i] \in Seq(Entry) /\ IsInjective(parts[i])
                          /\ Range(parts[i]) = inPart(i - 1)
  BY <1>4, <1>5
<1>7. parts \in Seq(Seq(Entry)) /\ Len(parts) = Width /\ Width \in Nat
  <2>1. parts \in [1..Width -> Seq(Entry)]
    BY <1>6
  <2> HIDE DEF parts
  <2> QED
    BY <2>1, HashMapAssumption
<1> HIDE DEF parts, inPart, node
<1>8. \A pos \in Part : \A e : e \in inPart(pos) <=> e \in HeldBy(n, node) /\ HashOf[e.key][n] = pos
  <2> SUFFICES ASSUME NEW pos \in Part, NEW e \in Entry
               PROVE  e \in inPart(pos) <=> e \in HeldBy(n, node) /\ HashOf[e.key][n] = pos
    BY DEF inPart, HeldBy
  <2>1. e.key \in MapKey
    BY DEF Entry
  <2>2. e \in inPart(pos) <=> TrieGet[n - 1][children[pos]][e.key] = {e.value}
    BY DEF inPart, HeldBy
  <2>3. e \in HeldBy(n, node) <=> TrieGet[n - 1][children[HashOf[e.key][n]]][e.key] = {e.value}
    BY <1>3, <2>1 DEF HeldBy
  <2>4. e \in inPart(pos) => HashOf[e.key][n] = pos
    BY <1>4, <2>1, <2>2
  <2> QED
    BY <2>2, <2>3, <2>4
<1>9. Apart(parts)
  <2>1. ASSUME NEW i \in 1..Width, NEW j \in 1..Width, i # j PROVE Range(parts[i]) \cap Range(parts[j]) = {}
    <3>1. i - 1 # j - 1 /\ i - 1 \in Part /\ j - 1 \in Part
      BY <1>5, <1>7, <2>1
    <3>2. \A e : ~(e \in inPart(i - 1) /\ e \in inPart(j - 1))
      BY <1>8, <3>1
    <3> QED
      BY <1>6, <3>2
  <2> QED
    BY <1>6, <1>7, <2>1 DEF Apart
<1>10. /\ FlattenSeq(parts) \in Seq(Entry) /\ IsInjective(FlattenSeq(parts))
       /\ \A x : x \in Range(FlattenSeq(parts)) <=> \E i \in 1..Width : x \in Range(parts[i])
  BY <1>7, <1>9, FlattenApart
<1>11. \A x : (\E i \in 1..Width : x \in Range(parts[i])) <=> x \in HeldBy(n, node)
  <2>1. ASSUME NEW x, NEW i \in 1..Width, x \in Range(parts[i]) PROVE x \in HeldBy(n, node)
    BY <1>5, <1>6, <1>8, <2>1
  <2>2. ASSUME NEW x, x \in HeldBy(n, node) PROVE \E i \in 1..Width : x \in Range(parts[i])
    <3> DEFINE pos == HashOf[x.key][n]
    <3>1. pos \in Part
      BY <2>2, HashParts DEF HeldBy, Entry
    <3>2. x \in inPart(pos)
      BY <1>8, <2>2, <3>1
    <3> HIDE DEF pos
    <3>3. pos + 1 \in 1..Width /\ (pos + 1) - 1 = pos
      BY <3>1, HashMapAssumption DEF Part
    <3>4. x \in Range(parts[pos + 1])
      BY <1>6, <3>2, <3>3
    <3> QED
      BY <3>3, <3>4
  <2> QED
    BY <2>1, <2>2
<1>12. Range(FlattenSeq(parts)) = HeldBy(n, node)
  BY <1>10, <1>11
<1>13. ASSUME NEW k \in MapKey, TrieGet[n][node][k] # {} PROVE OnPath(k, n, p)
  <2>1. HashOf[k][n] \in Part
    BY HashParts
  <2> QED
    BY <1>3, <1>4, <1>13, <2>1
<1> QED
  BY <1>2, <1>10, <1>12, <1>13 DEF node

LEMMA EntriesOfNone ==
  ASSUME NEW n \in 0..Levels
  PROVE  /\ TrieEntries[n][NoNode] \in Seq(Entry) /\ IsInjective(TrieEntries[n][NoNode])
         /\ Range(TrieEntries[n][NoNode]) = HeldBy(n, NoNode)
         /\ \A k \in MapKey : TrieGet[n][NoNode][k] = {}
<1>1. TrieEntries[n][NoNode] = <<>> /\ \A k \in MapKey : TrieGet[n][NoNode][k] = {}
  BY EntriesAre, GetOf
<1>2. HeldBy(n, NoNode) = {}
  BY <1>1 DEF HeldBy, Entry
<1> QED
  BY <1>1, <1>2, EmptyQueue

\* trieEntries, on every level.
LEMMA EntriesGoodAlways == \A n \in 0..Levels : EntriesGood(n)
<1> DEFINE P == {n \in Nat : n <= Levels => EntriesGood(n)}
<1>1. ASSUME NEW n \in 0..Levels, n # 0 => EntriesGood(n - 1) PROVE EntriesGood(n)
  <2> DEFINE Fine(p, node) == /\ TrieEntries[n][node] \in Seq(Entry) /\ IsInjective(TrieEntries[n][node])
                              /\ Range(TrieEntries[n][node]) = HeldBy(n, node)
                              /\ \A k \in MapKey : TrieGet[n][node][k] # {} => OnPath(k, n, p)
  <2> SUFFICES ASSUME NEW p \in Path, NEW node \in Tries[n][p] \cup {NoNode} PROVE Fine(p, node)
    BY Zenon DEF EntriesGood
  <2>1. Fine(p, NoNode)
    BY EntriesOfNone
  <2>2. ASSUME NEW entries \in Seq(Entry), entries # <<>>,
               AllOnPath(n, p, entries), OneHash(entries), DistinctKeys(entries)
        PROVE  Fine(p, Leaf(entries))
    BY <2>2, EntriesOfLeaf
  <2>3. ASSUME n # 0, NEW children, Below(n, p, children) PROVE Fine(p, Internal(children))
    BY <1>1, <2>3, EntriesOfInternal
  <2> HIDE DEF Fine
  <2>4. CASE node \in Tries[n][p]
    <3>1. \/ \E entries \in Seq(Entry) :
               /\ node = Leaf(entries) /\ entries # <<>>
               /\ AllOnPath(n, p, entries) /\ OneHash(entries) /\ DistinctKeys(entries)
          \/ /\ n # 0
             /\ \E children : node = Internal(children) /\ Below(n, p, children)
      BY <2>4, TrieCases
    <3> QED
      BY <2>2, <2>3, <3>1
  <2> QED
    BY <2>1, <2>4
<1>2. 0 \in P
  BY <1>1, HashMapAssumption
<1>3. ASSUME NEW n \in Nat, n \in P PROVE n + 1 \in P
  <2> SUFFICES ASSUME n + 1 <= Levels PROVE EntriesGood(n + 1)
    OBVIOUS
  <2>1. n + 1 \in 0..Levels /\ (n + 1) - 1 = n /\ n <= Levels
    BY HashMapAssumption
  <2>2. EntriesGood((n + 1) - 1)
    BY <1>3, <2>1
  <2> QED
    BY <1>1, <2>1, <2>2
<1>4. \A n \in Nat : n \in P
  <2> HIDE DEF P
  <2> QED
    BY <1>2, <1>3, NatSetInduction
<1> QED
  BY <1>4, HashMapAssumption

-----------------------------------------------------------------------------
(* Whole maps: a well-formed node is a function. *)

GoodMaps == {NoNode} \cup UNION {Tries[Levels][p] : p \in Path}

LEMMA GoodMapsAre == /\ \A node : WellFormed(node) <=> node \in GoodMaps
                     /\ Levels \in 0..Levels /\ Path # {}
                     /\ \A p \in Path : \A k \in MapKey : OnPath(k, Levels, p)
<1>1. \A node : WellFormed(node) <=> node \in GoodMaps
  BY DEF WellFormed, GoodMaps
<1>2. [m \in 1..Levels |-> 0] \in Path
  BY HashMapAssumption DEF Path, Part
<1>3. \A p \in Path : \A k \in MapKey : OnPath(k, Levels, p)
  BY HashMapAssumption DEF OnPath
<1> QED
  BY <1>1, <1>2, <1>3, HashMapAssumption

\* A well-formed node lies on some path, or is none.
LEMMA OnSomePath ==
  ASSUME NEW node, WellFormed(node)
  PROVE  \E p \in Path : node \in Tries[Levels][p] \cup {NoNode}
BY GoodMapsAre DEF WellFormed

\* set and delete of a map.
LEMMA MapSet ==
  ASSUME NEW node, WellFormed(node), NEW e \in Entry
  PROVE  /\ WellFormed(TrieSet[Levels][node][e].node)
         /\ \A k \in MapKey : Lookup(TrieSet[Levels][node][e].node, k) = IF k = e.key THEN {e.value} ELSE Lookup(node, k)
         /\ TrieSet[Levels][node][e].added = (Lookup(node, e.key) = {})
<1>1. PICK p \in Path : node \in Tries[Levels][p] \cup {NoNode}
  BY OnSomePath
<1>2. e.key \in MapKey
  BY DEF Entry
<1>3. OnPath(e.key, Levels, p) /\ Levels \in 0..Levels
  BY <1>2, GoodMapsAre
<1>4. SetGood(Levels)
  BY <1>3, SetGoodAlways
<1>5. /\ TrieSet[Levels][node][e].node \in Tries[Levels][p]
      /\ Overrides(Levels, node, TrieSet[Levels][node][e].node, e.key, {e.value})
      /\ TrieSet[Levels][node][e].added = (TrieGet[Levels][node][e.key] = {})
  BY <1>1, <1>3, <1>4, Zenon DEF SetGood
<1>6. WellFormed(TrieSet[Levels][node][e].node)
  BY <1>5 DEF WellFormed
<1>7. \A k \in MapKey : Lookup(TrieSet[Levels][node][e].node, k) = IF k = e.key THEN {e.value} ELSE Lookup(node, k)
  BY <1>5, Zenon DEF Overrides, Lookup
<1> QED
  BY <1>5, <1>6, <1>7, Zenon DEF Lookup

LEMMA MapDelete ==
  ASSUME NEW node, WellFormed(node), NEW k \in MapKey
  PROVE  /\ WellFormed(TrieDelete[Levels][node][k].node)
         /\ \A x \in MapKey : Lookup(TrieDelete[Levels][node][k].node, x) = IF x = k THEN {} ELSE Lookup(node, x)
         /\ TrieDelete[Levels][node][k].removed = (Lookup(node, k) # {})
<1>1. PICK p \in Path : node \in Tries[Levels][p] \cup {NoNode}
  BY OnSomePath
<1>2. DeleteGood(Levels)
  BY GoodMapsAre, DeleteGoodAlways
<1>3. /\ TrieDelete[Levels][node][k].node \in Tries[Levels][p] \cup {NoNode}
      /\ Overrides(Levels, node, TrieDelete[Levels][node][k].node, k, {})
      /\ TrieDelete[Levels][node][k].removed = (TrieGet[Levels][node][k] # {})
  BY <1>1, <1>2, Zenon DEF DeleteGood
<1>4. WellFormed(TrieDelete[Levels][node][k].node)
  BY <1>3 DEF WellFormed
<1>5. \A x \in MapKey : Lookup(TrieDelete[Levels][node][k].node, x) = IF x = k THEN {} ELSE Lookup(node, x)
  BY <1>3, Zenon DEF Overrides, Lookup
<1> QED
  BY <1>3, <1>4, <1>5, Zenon DEF Lookup

\* Any entries put in one after the other: under each of their keys there is the value that
\* they agree on in the end.
LEMMA MapSetAll ==
  ASSUME NEW node, WellFormed(node), NEW entries \in Seq(Entry), NEW final, Agree(entries, final)
  PROVE  /\ WellFormed(SetAll(node, entries))
         /\ \A k \in MapKey : Lookup(SetAll(node, entries), k) =
              IF \E i \in 1..Len(entries) : entries[i].key = k THEN final[k] ELSE Lookup(node, k)
<1> DEFINE get == TrieGet[Levels]
           set == TrieSet[Levels]
<1>1. KeepsGood(GoodMaps, MapKey, get, set)
  <2> SUFFICES ASSUME NEW m \in GoodMaps, NEW e \in Entry
               PROVE  /\ set[m][e].node \in GoodMaps
                      /\ \A k \in MapKey : get[set[m][e].node][k] = IF k = e.key THEN {e.value} ELSE get[m][k]
    BY DEF KeepsGood
  <2>1. WellFormed(m)
    BY GoodMapsAre
  <2>2. WellFormed(set[m][e].node)
    BY <2>1, MapSet
  <2>3. \A k \in MapKey : Lookup(set[m][e].node, k) = IF k = e.key THEN {e.value} ELSE Lookup(m, k)
    BY <2>1, MapSet
  <2> QED
    BY <2>2, <2>3, GoodMapsAre DEF Lookup
<1>2. KeysIn(entries, MapKey)
  <2>1. \A i \in 1..Len(entries) : entries[i] \in Entry
    OBVIOUS
  <2> QED
    BY <2>1 DEF KeysIn, Entry
<1> HIDE DEF get, set
<1>3. node \in GoodMaps
  BY GoodMapsAre
<1>4. /\ InsertEach(set, node, entries) \in GoodMaps
      /\ AllIn(get, node, InsertEach(set, node, entries), entries, final)
  BY <1>1, <1>2, <1>3, InsertsGood
<1>5. SetAll(node, entries) = InsertEach(set, node, entries)
  BY DEF SetAll, set
<1>6. WellFormed(SetAll(node, entries))
  BY <1>4, <1>5, GoodMapsAre
<1> QED
  BY <1>4, <1>5, <1>6, Zenon DEF AllIn, Lookup, get

\* Iteration gives each entry that get finds, once.
LEMMA MapEntries ==
  ASSUME NEW node, WellFormed(node)
  PROVE  /\ EntriesOf(node) \in Seq(Entry) /\ IsInjective(EntriesOf(node))
         /\ Range(EntriesOf(node)) = {e \in Entry : Lookup(node, e.key) = {e.value}}
<1>1. PICK p \in Path : node \in Tries[Levels][p] \cup {NoNode}
  BY OnSomePath
<1>2. EntriesGood(Levels)
  BY GoodMapsAre, EntriesGoodAlways
<1>3. /\ TrieEntries[Levels][node] \in Seq(Entry) /\ IsInjective(TrieEntries[Levels][node])
      /\ Range(TrieEntries[Levels][node]) = HeldBy(Levels, node)
  BY <1>1, <1>2, Zenon DEF EntriesGood
<1> QED
  BY <1>3 DEF EntriesOf, HeldBy, Lookup

-----------------------------------------------------------------------------
(* A map that is a function, and what is built from it. *)

Graph(f) == {EntryOf(k, f[k]) : k \in DOMAIN f}

\* The map is the function f.
Represents(node, f) ==
  /\ WellFormed(node) /\ DOMAIN f \subseteq MapKey /\ f \in [DOMAIN f -> MapValue]
  /\ \A k \in MapKey : Lookup(node, k) = IF k \in DOMAIN f THEN {f[k]} ELSE {}

\* f, overridden by g.
Over(f, g) == [k \in DOMAIN f \cup DOMAIN g |-> IF k \in DOMAIN g THEN g[k] ELSE f[k]]

LEMMA EntryMade ==
  /\ \A k, v : EntryOf(k, v).key = k /\ EntryOf(k, v).value = v
  /\ \A k, v : EntryOf(k, v) \in Entry <=> k \in MapKey /\ v \in MapValue
  /\ \A e \in Entry : e.key \in MapKey /\ e.value \in MapValue /\ e = EntryOf(e.key, e.value)
BY DEF Entry, EntryOf

LEMMA GraphHas ==
  ASSUME NEW f
  PROVE  /\ \A e \in Graph(f) : e.key \in DOMAIN f /\ e.value = f[e.key] /\ e = EntryOf(e.key, f[e.key])
         /\ \A k \in DOMAIN f : EntryOf(k, f[k]) \in Graph(f)
         /\ \A k \in DOMAIN f : \E e \in Graph(f) : e.key = k
<1>1. \A e \in Graph(f) : e.key \in DOMAIN f /\ e.value = f[e.key] /\ e = EntryOf(e.key, f[e.key])
  BY EntryMade DEF Graph
<1>2. \A k \in DOMAIN f : EntryOf(k, f[k]) \in Graph(f) /\ EntryOf(k, f[k]).key = k
  BY EntryMade DEF Graph
<1> QED
  BY <1>1, <1>2

\* The entries are the function's graph.
LEMMA GraphOf ==
  ASSUME NEW node, NEW f, Represents(node, f)
  PROVE  /\ EntriesOf(node) \in Seq(Entry) /\ IsInjective(EntriesOf(node))
         /\ Range(EntriesOf(node)) = Graph(f) /\ ToSet(EntriesOf(node)) = Graph(f)
<1>1. /\ EntriesOf(node) \in Seq(Entry) /\ IsInjective(EntriesOf(node))
      /\ Range(EntriesOf(node)) = {e \in Entry : Lookup(node, e.key) = {e.value}}
  BY MapEntries DEF Represents
<1>2. ASSUME NEW e \in Entry PROVE Lookup(node, e.key) = {e.value} <=> e \in Graph(f)
  <2>1. e.key \in MapKey /\ e = EntryOf(e.key, e.value)
    BY EntryMade
  <2>2. Lookup(node, e.key) = IF e.key \in DOMAIN f THEN {f[e.key]} ELSE {}
    BY <2>1 DEF Represents
  <2>3. e \in Graph(f) <=> e.key \in DOMAIN f /\ f[e.key] = e.value
    BY <2>1, EntryMade DEF Graph
  <2> QED
    BY <2>2, <2>3
<1>3. \A e \in Graph(f) : e \in Entry
  <2>1. \A k \in DOMAIN f : k \in MapKey /\ f[k] \in MapValue
    BY DEF Represents
  <2> QED
    BY <2>1, EntryMade DEF Graph
<1>4. {e \in Entry : Lookup(node, e.key) = {e.value}} = Graph(f)
  BY <1>2, <1>3
<1>5. ToSet(EntriesOf(node)) = Range(EntriesOf(node))
  BY DEF ToSet, Range
<1> QED
  BY <1>1, <1>4, <1>5

\* A sequence with no element twice is as long as there are elements.
LEMMA InjectiveCount ==
  ASSUME NEW S, NEW s \in Seq(S), IsInjective(s)
  PROVE  IsFiniteSet(Range(s)) /\ Cardinality(Range(s)) = Len(s)
<1> DEFINE P == {t \in Seq(S) : IsInjective(t) => IsFiniteSet(Range(t)) /\ Cardinality(Range(t)) = Len(t)}
<1>1. <<>> \in P
  <2>1. <<>> \in Seq(S) /\ Len(<<>>) = 0 /\ Range(<<>>) = {}
    BY EmptyQueue
  <2> QED
    BY <2>1, FS_EmptySet
<1>2. ASSUME NEW t \in Seq(S), NEW x \in S, t \in P PROVE Append(t, x) \in P
  <2> DEFINE u == Append(t, x)
  <2>1. /\ u \in Seq(S) /\ Len(u) = Len(t) + 1 /\ Range(u) = Range(t) \cup {x}
        /\ IsInjective(u) => IsInjective(t) /\ x \notin Range(t)
    BY AppendRange
  <2> HIDE DEF u
  <2> SUFFICES ASSUME IsInjective(u) PROVE IsFiniteSet(Range(u)) /\ Cardinality(Range(u)) = Len(u)
    BY <2>1 DEF u
  <2>2. IsFiniteSet(Range(t)) /\ Cardinality(Range(t)) = Len(t) /\ x \notin Range(t)
    BY <1>2, <2>1
  <2>3. IsFiniteSet(Range(t) \cup {x}) /\ Cardinality(Range(t) \cup {x}) = Cardinality(Range(t)) + 1
    BY <2>2, FS_AddElement
  <2> QED
    BY <2>1, <2>2, <2>3
<1>3. \A t \in Seq(S) : t \in P
  <2> HIDE DEF P
  <2> QED
    BY <1>1, <1>2, SeqSetInduction
<1> QED
  BY <1>3

\* keys() and size, which counts the keys.
LEMMA KeysOf ==
  ASSUME NEW node, NEW f, Represents(node, f)
  PROVE  /\ ToSet(MapKeys(node)) = DOMAIN f
         /\ IsFiniteSet(DOMAIN f) /\ EntryCount(node) = Cardinality(DOMAIN f)
<1> DEFINE s == EntriesOf(node)
           ks == MapKeys(node)
<1>1. s \in Seq(Entry) /\ IsInjective(s) /\ Range(s) = Graph(f)
  BY GraphOf
<1>2. ks = [i \in 1..Len(s) |-> s[i].key]
  BY DEF MapKeys, EntryCount
<1> HIDE DEF s, ks
<1>3. Len(s) \in Nat /\ DOMAIN s = 1..Len(s) /\ \A i \in 1..Len(s) : s[i] \in Entry
  BY <1>1
<1>4. \A i \in 1..Len(s) : s[i] \in Graph(f)
  BY <1>1, <1>3 DEF Range
<1>5. \A i \in 1..Len(s) : s[i].key \in DOMAIN f /\ s[i] = EntryOf(s[i].key, f[s[i].key])
  BY <1>4, EntryMade DEF Graph
<1>6. DOMAIN f \subseteq MapKey
  BY DEF Represents
<1>7. ks \in Seq(MapKey) /\ Len(ks) = Len(s) /\ DOMAIN ks = 1..Len(s) /\ \A i \in 1..Len(s) : ks[i] = s[i].key
  <2>1. ks \in [1..Len(s) -> MapKey]
    BY <1>2, <1>5, <1>6
  <2> QED
    BY <1>2, <1>3, <2>1
<1>8. IsInjective(ks)
  <2> SUFFICES ASSUME NEW i \in 1..Len(s), NEW j \in 1..Len(s), ks[i] = ks[j] PROVE i = j
    BY <1>7 DEF IsInjective
  <2>1. s[i] = s[j]
    BY <1>5, <1>7
  <2> QED
    BY <1>1, <1>3, <2>1 DEF IsInjective
<1>9. Range(ks) = DOMAIN f
  <2>1. ASSUME NEW k \in DOMAIN f PROVE \E i \in 1..Len(s) : ks[i] = k
    <3>1. EntryOf(k, f[k]) \in Range(s)
      BY <1>1 DEF Graph
    <3>2. PICK i \in 1..Len(s) : s[i] = EntryOf(k, f[k])
      BY <1>3, <3>1 DEF Range
    <3> QED
      BY <1>7, <3>2, EntryMade
  <2>2. \A k : k \in Range(ks) <=> \E i \in 1..Len(s) : ks[i] = k
    BY <1>7 DEF Range
  <2>3. \A i \in 1..Len(s) : ks[i] \in DOMAIN f
    BY <1>5, <1>7
  <2> QED
    BY <2>1, <2>2, <2>3
<1>10. IsFiniteSet(Range(ks)) /\ Cardinality(Range(ks)) = Len(ks)
  BY <1>7, <1>8, InjectiveCount
<1>11. ToSet(ks) = Range(ks) /\ EntryCount(node) = Len(s)
  BY DEF ToSet, Range, EntryCount, s
<1> QED
  BY <1>7, <1>9, <1>10, <1>11 DEF ks

\* What FunctionOf reads from the entries is the function.
LEMMA FunctionRead ==
  ASSUME NEW node, NEW f, Represents(node, f)
  PROVE  FunctionOf(node) = f
<1> DEFINE T == ToSet(EntriesOf(node))
<1>1. T = Graph(f)
  BY GraphOf
<1>2. FunctionOf(node) = [k \in {e.key : e \in T} |-> (CHOOSE e \in T : e.key = k).value]
  BY DEF FunctionOf
<1> HIDE DEF T
<1>3. \A e \in T : e.key \in DOMAIN f /\ e.value = f[e.key]
  BY <1>1, GraphHas
<1>4. \A k \in DOMAIN f : \E e \in T : e.key = k
  BY <1>1, GraphHas
<1>5. {e.key : e \in T} = DOMAIN f
  BY <1>3, <1>4
<1>6. ASSUME NEW k \in DOMAIN f PROVE (CHOOSE e \in T : e.key = k).value = f[k]
  BY <1>3, <1>4
<1>7. f = [k \in DOMAIN f |-> f[k]]
  BY DEF Represents
<1> QED
  BY <1>2, <1>5, <1>6, <1>7

\* equals of two maps is equality of the functions.
LEMMA EqualAre ==
  ASSUME NEW a, NEW b, NEW f, NEW g, Represents(a, f), Represents(b, g)
  PROVE  EqualMaps(a, b) <=> f = g
<1>1. /\ IsFiniteSet(DOMAIN f) /\ EntryCount(a) = Cardinality(DOMAIN f)
      /\ IsFiniteSet(DOMAIN g) /\ EntryCount(b) = Cardinality(DOMAIN g)
  BY KeysOf
<1>2. (\A e \in ToSet(EntriesOf(a)) : Lookup(b, e.key) = {e.value}) <=> \A k \in DOMAIN f : Lookup(b, k) = {f[k]}
  <2>1. ToSet(EntriesOf(a)) = Graph(f)
    BY GraphOf
  <2> DEFINE T == ToSet(EntriesOf(a))
  <2> HIDE DEF T
  <2>2. /\ \A e \in T : e.key \in DOMAIN f /\ e.value = f[e.key]
        /\ \A k \in DOMAIN f : \E e \in T : e.key = k
    BY <2>1, GraphHas DEF T
  <2>3. (\A e \in T : Lookup(b, e.key) = {e.value}) <=> \A k \in DOMAIN f : Lookup(b, k) = {f[k]}
    BY <2>2
  <2> QED
    BY <2>3 DEF T
<1>3. \A k \in DOMAIN f : Lookup(b, k) = {f[k]} <=> k \in DOMAIN g /\ g[k] = f[k]
  BY DEF Represents
<1>4. f = [k \in DOMAIN f |-> f[k]] /\ g = [k \in DOMAIN g |-> g[k]]
  BY DEF Represents
<1>5. ASSUME Cardinality(DOMAIN f) = Cardinality(DOMAIN g), \A k \in DOMAIN f : k \in DOMAIN g /\ g[k] = f[k]
      PROVE  f = g
  <2>1. DOMAIN f = DOMAIN g
    BY <1>1, <1>5, FS_Subset
  <2> QED
    BY <1>4, <1>5, <2>1
<1> QED
  BY <1>1, <1>2, <1>3, <1>5 DEF EqualMaps

\* Entries that are a function's graph, put into a map: the map's function is overridden.
LEMMA SetAllOver ==
  ASSUME NEW node, NEW f, Represents(node, f), NEW entries \in Seq(Entry), NEW g, Range(entries) = Graph(g)
  PROVE  Represents(SetAll(node, entries), Over(f, g))
<1> DEFINE final == [k \in MapKey |-> {g[k]}]
           new == SetAll(node, entries)
           h == Over(f, g)
<1>1. /\ DOMAIN entries = 1..Len(entries) /\ \A i \in 1..Len(entries) : entries[i] \in Entry
      /\ \A e : e \in Graph(g) <=> \E i \in 1..Len(entries) : entries[i] = e
  <2>1. DOMAIN entries = 1..Len(entries) /\ \A i \in 1..Len(entries) : entries[i] \in Entry
    OBVIOUS
  <2> QED
    BY <2>1 DEF Range
<1>2. \A i \in 1..Len(entries) : entries[i].key \in MapKey /\ entries[i].key \in DOMAIN g
                                 /\ entries[i].value = g[entries[i].key]
  BY <1>1, EntryMade, GraphHas
<1>3. \A k \in DOMAIN g : k \in MapKey /\ g[k] \in MapValue
  BY <1>1, EntryMade, GraphHas
<1>4. \A k : (\E i \in 1..Len(entries) : entries[i].key = k) <=> k \in DOMAIN g
  <2>1. ASSUME NEW k \in DOMAIN g PROVE \E i \in 1..Len(entries) : entries[i].key = k
    <3>1. EntryOf(k, g[k]) \in Graph(g) /\ EntryOf(k, g[k]).key = k
      BY GraphHas, EntryMade
    <3> QED
      BY <1>1, <3>1
  <2> QED
    BY <1>2, <2>1
<1>5. Agree(entries, final)
  BY <1>2 DEF Agree
<1>6. \A k \in MapKey : final[k] = {g[k]}
  OBVIOUS
<1>7. WellFormed(node)
  BY DEF Represents
<1> HIDE DEF final, new, h
<1>8. /\ WellFormed(new)
      /\ \A k \in MapKey : Lookup(new, k) =
           IF \E i \in 1..Len(entries) : entries[i].key = k THEN final[k] ELSE Lookup(node, k)
  BY <1>5, <1>7, MapSetAll DEF new
<1>9. /\ DOMAIN f \subseteq MapKey /\ f \in [DOMAIN f -> MapValue]
      /\ \A k \in MapKey : Lookup(node, k) = IF k \in DOMAIN f THEN {f[k]} ELSE {}
  BY DEF Represents
<1>10. /\ DOMAIN h = DOMAIN f \cup DOMAIN g
       /\ \A k \in DOMAIN h : h[k] = IF k \in DOMAIN g THEN g[k] ELSE f[k]
       /\ h = [k \in DOMAIN h |-> h[k]]
  BY DEF h, Over
<1>11. \A k \in DOMAIN h : k \in MapKey /\ h[k] \in MapValue
  BY <1>3, <1>9, <1>10
<1>12. h \in [DOMAIN h -> MapValue]
  <2> DEFINE D == DOMAIN h
  <2>1. h = [k \in D |-> h[k]] /\ \A k \in D : h[k] \in MapValue
    BY <1>10, <1>11
  <2> HIDE DEF D
  <2>2. h \in [D -> MapValue]
    BY <2>1
  <2> QED
    BY <2>2 DEF D
<1>13. \A k \in MapKey : Lookup(new, k) = IF k \in DOMAIN h THEN {h[k]} ELSE {}
  <2> SUFFICES ASSUME NEW k \in MapKey PROVE Lookup(new, k) = IF k \in DOMAIN h THEN {h[k]} ELSE {}
    OBVIOUS
  <2>1. CASE k \in DOMAIN g
    <3>1. Lookup(new, k) = {g[k]}
      BY <1>4, <1>6, <1>8, <2>1
    <3> QED
      BY <1>10, <2>1, <3>1
  <2>2. CASE k \notin DOMAIN g
    <3>1. Lookup(new, k) = Lookup(node, k)
      BY <1>4, <1>8, <2>2
    <3> QED
      BY <1>9, <1>10, <2>2, <3>1
  <2> QED
    BY <2>1, <2>2
<1>14. Represents(new, h)
  BY <1>8, <1>11, <1>12, <1>13 DEF Represents
<1> QED
  BY <1>14 DEF new, h

Nothing == [k \in {} |-> 0]

LEMMA NothingStored == Represents(NoNode, Nothing)
<1>1. \A k \in MapKey : Lookup(NoNode, k) = {}
  BY EntriesOfNone, GoodMapsAre DEF Lookup
<1>2. DOMAIN Nothing = {} /\ Nothing \in [{} -> MapValue]
  BY DEF Nothing
<1> QED
  BY <1>1, <1>2 DEF Represents, WellFormed

\* A map built from entries that are a function's graph is that function.
LEMMA OfEntriesIs ==
  ASSUME NEW entries \in Seq(Entry), NEW g, Range(entries) = Graph(g), g = [k \in DOMAIN g |-> g[k]]
  PROVE  Represents(OfEntries(entries), g)
<1>1. Represents(OfEntries(entries), Over(Nothing, g))
  BY NothingStored, SetAllOver DEF OfEntries
<1>2. Over(Nothing, g) = g
  BY DEF Over, Nothing
<1> QED
  BY <1>1, <1>2

LEMMA MergeIs ==
  ASSUME NEW a, NEW b, NEW f, NEW g, Represents(a, f), Represents(b, g)
  PROVE  Represents(MergeMaps(a, b), Over(f, g))
<1>1. EntriesOf(b) \in Seq(Entry) /\ Range(EntriesOf(b)) = Graph(g)
  BY GraphOf
<1> QED
  BY <1>1, SetAllOver DEF MergeMaps

LEMMA ReverseIs ==
  ASSUME NEW node, NEW f, Represents(node, f)
  PROVE  Represents(OfEntries(Reverse(EntriesOf(node))), f)
<1> DEFINE s == EntriesOf(node)
           r == Reverse(s)
<1>1. s \in Seq(Entry) /\ Range(s) = Graph(f)
  BY GraphOf
<1>2. r = [i \in 1..Len(s) |-> s[(Len(s) - i) + 1]]
  BY DEF Reverse
<1> HIDE DEF s, r
<1>3. Len(s) \in Nat /\ DOMAIN s = 1..Len(s) /\ \A i \in 1..Len(s) : s[i] \in Entry
  BY <1>1
<1>4. \A i \in 1..Len(s) : (Len(s) - i) + 1 \in 1..Len(s) /\ (Len(s) - ((Len(s) - i) + 1)) + 1 = i
  BY <1>3
<1>5. DOMAIN r = 1..Len(s) /\ \A i \in 1..Len(s) : r[i] = s[(Len(s) - i) + 1] /\ r[(Len(s) - i) + 1] = s[i]
  BY <1>2, <1>4
<1>6. r \in Seq(Entry)
  <2>1. r \in [1..Len(s) -> Entry]
    BY <1>2, <1>3, <1>4
  <2> QED
    BY <1>3, <2>1
<1>7. Range(r) = Range(s)
  <2>1. \A x : x \in Range(r) <=> \E i \in 1..Len(s) : r[i] = x
    BY <1>5 DEF Range
  <2>2. \A x : x \in Range(s) <=> \E i \in 1..Len(s) : s[i] = x
    BY <1>3 DEF Range
  <2>3. \A x : x \in Range(r) <=> x \in Range(s)
    BY <1>4, <1>5, <2>1, <2>2
  <2> QED
    BY <2>3
<1>8. f = [k \in DOMAIN f |-> f[k]]
  BY DEF Represents
<1>9. Represents(OfEntries(r), f)
  BY <1>1, <1>6, <1>7, <1>8, OfEntriesIs
<1> QED
  BY <1>9 DEF s, r

\* filter: the function's restriction to the keys whose value is kept.
Restriction(f, keep) == [k \in {x \in DOMAIN f : f[x] \in keep} |-> f[k]]

LEMMA FilterIs ==
  ASSUME NEW node, NEW f, Represents(node, f), NEW keep \in SUBSET MapValue
  PROVE  Represents(FilterMap(node, keep), Restriction(f, keep))
<1> DEFINE s == EntriesOf(node)
           A == Valued(MapValue \ keep)
           r == Remaining(s, A)
           g == Restriction(f, keep)
<1>1. s \in Seq(Entry) /\ Range(s) = Graph(f)
  BY GraphOf
<1>2. \A k \in DOMAIN f : k \in MapKey /\ f[k] \in MapValue
  BY DEF Represents
<1>3. \A k \in DOMAIN f : EntryOf(k, f[k]) \in A <=> f[k] \notin keep
  BY <1>2, EntryMade DEF Valued, EntryOf
<1>4. DOMAIN g = {x \in DOMAIN f : f[x] \in keep} /\ (\A k \in DOMAIN g : g[k] = f[k]) /\ g = [k \in DOMAIN g |-> g[k]]
  BY DEF Restriction
<1>5. FilterMap(node, keep) = OfEntries(r)
  BY DEF FilterMap
<1> HIDE DEF s, A, g
<1>6. r \in Seq(Entry) /\ Range(r) = Range(s) \ A
  BY <1>1, RemainingQueue
<1>7. \A e : e \in Graph(g) <=> e \in Graph(f) /\ e \notin A
  <2>1. ASSUME NEW e \in Graph(g) PROVE e \in Graph(f) /\ e \notin A
    <3>1. e.key \in DOMAIN g /\ e = EntryOf(e.key, g[e.key])
      BY GraphHas
    <3>2. e.key \in DOMAIN f /\ f[e.key] \in keep /\ e = EntryOf(e.key, f[e.key])
      BY <1>4, <3>1
    <3> QED
      BY <1>3, <3>2, GraphHas
  <2>2. ASSUME NEW e \in Graph(f), e \notin A PROVE e \in Graph(g)
    <3>1. e.key \in DOMAIN f /\ e = EntryOf(e.key, f[e.key])
      BY GraphHas
    <3>2. e.key \in DOMAIN g /\ e = EntryOf(e.key, g[e.key])
      BY <1>3, <1>4, <2>2, <3>1
    <3> QED
      BY <3>2, GraphHas
  <2> QED
    BY <2>1, <2>2
<1>8. Range(r) = Graph(g)
  BY <1>1, <1>6, <1>7
<1> HIDE DEF r
<1>9. Represents(OfEntries(r), g)
  BY <1>4, <1>6, <1>8, OfEntriesIs
<1> QED
  BY <1>5, <1>9 DEF g

\* map: the function, then fn.
LEMMA ValuesAre ==
  ASSUME NEW node, NEW f, Represents(node, f), NEW fn \in [MapValue -> MapValue]
  PROVE  Represents(MapValues(node, fn), [k \in DOMAIN f |-> fn[f[k]]])
<1> DEFINE s == EntriesOf(node)
           r == [i \in 1..Len(s) |-> EntryOf(s[i].key, fn[s[i].value])]
           g == [k \in DOMAIN f |-> fn[f[k]]]
<1>1. s \in Seq(Entry) /\ Range(s) = Graph(f)
  BY GraphOf
<1>2. MapValues(node, fn) = OfEntries(r)
  BY DEF MapValues, EntryCount
<1>3. DOMAIN g = DOMAIN f /\ (\A k \in DOMAIN f : g[k] = fn[f[k]]) /\ g = [k \in DOMAIN g |-> g[k]]
  OBVIOUS
<1> HIDE DEF s, g
<1>4. Len(s) \in Nat /\ DOMAIN s = 1..Len(s) /\ \A i \in 1..Len(s) : s[i] \in Entry
  BY <1>1
<1>5. DOMAIN r = 1..Len(s) /\ \A i \in 1..Len(s) : r[i] = EntryOf(s[i].key, fn[s[i].value])
  BY <1>4
<1>6. r \in Seq(Entry)
  <2>1. \A i \in 1..Len(s) : EntryOf(s[i].key, fn[s[i].value]) \in Entry
    BY <1>4, EntryMade
  <2>2. r \in [1..Len(s) -> Entry]
    BY <2>1
  <2> HIDE DEF r
  <2> QED
    BY <1>4, <2>2
<1> HIDE DEF r
<1>7. \A x : x \in Graph(f) <=> \E i \in 1..Len(s) : s[i] = x
  BY <1>1, <1>4 DEF Range
<1>8. \A x : x \in Range(r) <=> \E i \in 1..Len(s) : r[i] = x
  BY <1>5 DEF Range
<1>9. \A i \in 1..Len(s) : s[i].key \in DOMAIN f /\ s[i].value = f[s[i].key]
  BY <1>7, GraphHas
<1>10. ASSUME NEW x \in Range(r) PROVE x \in Graph(g)
  <2>1. PICK i \in 1..Len(s) : r[i] = x
    BY <1>8, <1>10
  <2>2. s[i].key \in DOMAIN g /\ x = EntryOf(s[i].key, g[s[i].key])
    BY <1>3, <1>5, <1>9, <2>1
  <2> QED
    BY <2>2, GraphHas
<1>11. ASSUME NEW x \in Graph(g) PROVE x \in Range(r)
  <2>1. x.key \in DOMAIN f /\ x = EntryOf(x.key, fn[f[x.key]])
    <3>1. x.key \in DOMAIN g /\ x = EntryOf(x.key, g[x.key])
      BY <1>11, GraphHas
    <3>2. x.key \in DOMAIN f /\ g[x.key] = fn[f[x.key]]
      BY <1>3, <3>1
    <3> QED
      BY <3>1, <3>2
  <2>2. EntryOf(x.key, f[x.key]) \in Graph(f)
    BY <2>1, GraphHas
  <2>3. PICK i \in 1..Len(s) : s[i] = EntryOf(x.key, f[x.key])
    BY <1>7, <2>2
  <2>4. s[i].key = x.key /\ s[i].value = f[x.key]
    BY <2>3, EntryMade
  <2>5. r[i] = x
    BY <1>5, <2>1, <2>4
  <2> QED
    BY <1>8, <2>5
<1>12. Range(r) = Graph(g)
  BY <1>10, <1>11
<1>13. Represents(OfEntries(r), g)
  BY <1>3, <1>6, <1>12, OfEntriesIs
<1> QED
  BY <1>2, <1>13 DEF g

\* some and every: the first entry that decides.
LEMMA DecidesIs ==
  ASSUME NEW node, NEW f, Represents(node, f), NEW keep \in SUBSET MapValue
  PROVE  /\ SomeEntry(node, keep) <=> \E k \in DOMAIN f : f[k] \in keep
         /\ EveryEntry(node, keep) <=> \A k \in DOMAIN f : f[k] \in keep
<1> DEFINE s == EntriesOf(node)
           first(A) == FirstIn(s, Valued(A))
<1>1. s \in Seq(Entry) /\ Range(s) = Graph(f)
  BY GraphOf
<1>2. \A k \in DOMAIN f : k \in MapKey /\ f[k] \in MapValue
  BY DEF Represents
<1>3. \A A \in SUBSET MapValue : \A k \in DOMAIN f : EntryOf(k, f[k]) \in Valued(A) <=> f[k] \in A
  BY <1>2, EntryMade DEF Valued, EntryOf
<1> HIDE DEF s
<1>4. DOMAIN s = 1..Len(s)
  BY <1>1
<1>5. \A x : x \in Graph(f) <=> \E i \in 1..Len(s) : s[i] = x
  BY <1>1, <1>4 DEF Range
<1>6. ASSUME NEW A \in SUBSET MapValue PROVE first(A) # 0 <=> \E k \in DOMAIN f : f[k] \in A
  <2> DEFINE V == Valued(A)
  <2>1. \A k \in DOMAIN f : EntryOf(k, f[k]) \in V <=> f[k] \in A
    BY <1>3
  <2> HIDE DEF V
  <2>2. /\ FirstIn(s, V) = 0 => \A i \in 1..Len(s) : s[i] \notin V
        /\ FirstIn(s, V) # 0 => FirstIn(s, V) \in 1..Len(s) /\ s[FirstIn(s, V)] \in V
    BY <1>1, FirstPlace
  <2>3. FirstIn(s, V) # 0 <=> \E x \in Graph(f) : x \in V
    BY <1>5, <2>2
  <2>4. (\E x \in Graph(f) : x \in V) <=> \E k \in DOMAIN f : f[k] \in A
    BY <2>1, GraphHas
  <2> QED
    BY <2>3, <2>4 DEF V
<1>7. EveryEntry(node, keep) <=> first(MapValue \ keep) = 0
  BY DEF EveryEntry, s
<1>8. SomeEntry(node, keep) <=> first(keep) # 0
  BY DEF SomeEntry, FindEntry, s
<1> HIDE DEF first
<1>9. first(MapValue \ keep) # 0 <=> \E k \in DOMAIN f : f[k] \notin keep
  <2>1. first(MapValue \ keep) # 0 <=> \E k \in DOMAIN f : f[k] \in MapValue \ keep
    BY <1>6
  <2> QED
    BY <1>2, <2>1
<1>10. first(keep) # 0 <=> \E k \in DOMAIN f : f[k] \in keep
  BY <1>6
<1> QED
  BY <1>7, <1>8, <1>9, <1>10

-----------------------------------------------------------------------------
(* The map as set and delete leave it. *)

MapInv == Represents(root, contents) /\ size = Cardinality(DOMAIN contents)

LEMMA MapInvInit == HashMapInit => MapInv
<1> SUFFICES ASSUME HashMapInit PROVE MapInv
  OBVIOUS
<1>1. root = NoNode /\ size = 0 /\ contents = Nothing
  BY DEF HashMapInit, Nothing
<1>2. DOMAIN Nothing = {}
  BY DEF Nothing
<1> QED
  BY <1>1, <1>2, NothingStored, FS_EmptySet DEF MapInv

LEMMA MapInvSet ==
  ASSUME MapInv, NEW k \in MapKey, NEW v \in MapValue, SetEntry(k, v)
  PROVE  MapInv'
<1> DEFINE e == EntryOf(k, v)
           new == TrieSet[Levels][root][e].node
           f == contents
           h == [x \in DOMAIN contents \cup {k} |-> IF x = k THEN v ELSE contents[x]]
<1>1. e \in Entry /\ e.key = k /\ e.value = v
  BY EntryMade
<1>2. /\ WellFormed(root) /\ DOMAIN f \subseteq MapKey /\ f \in [DOMAIN f -> MapValue]
      /\ \A x \in MapKey : Lookup(root, x) = IF x \in DOMAIN f THEN {f[x]} ELSE {}
  BY DEF MapInv, Represents
<1>3. root' = new /\ contents' = h /\ size' = IF TrieSet[Levels][root][e].added THEN size + 1 ELSE size
  BY DEF SetEntry
<1>4. IsFiniteSet(DOMAIN f) /\ size = Cardinality(DOMAIN f)
  BY KeysOf DEF MapInv
<1>5. /\ DOMAIN h = DOMAIN f \cup {k} /\ h[k] = v
      /\ \A x \in DOMAIN h : h[x] = IF x = k THEN v ELSE f[x]
      /\ h = [x \in DOMAIN h |-> h[x]]
  OBVIOUS
<1>6. \A x \in DOMAIN h : x \in MapKey /\ h[x] \in MapValue
  BY <1>2, <1>5
<1> HIDE DEF e, f, h
<1>7. /\ WellFormed(new)
      /\ \A x \in MapKey : Lookup(new, x) = IF x = e.key THEN {e.value} ELSE Lookup(root, x)
      /\ TrieSet[Levels][root][e].added = (Lookup(root, e.key) = {})
  BY <1>1, <1>2, MapSet
<1> HIDE DEF new
<1>8. h \in [DOMAIN h -> MapValue]
  <2> DEFINE D == DOMAIN h
  <2>1. h = [x \in D |-> h[x]] /\ \A x \in D : h[x] \in MapValue
    BY <1>5, <1>6
  <2> HIDE DEF D
  <2>2. h \in [D -> MapValue]
    BY <2>1
  <2> QED
    BY <2>2 DEF D
<1>9. \A x \in MapKey : Lookup(new, x) = IF x \in DOMAIN h THEN {h[x]} ELSE {}
  <2> SUFFICES ASSUME NEW x \in MapKey PROVE Lookup(new, x) = IF x \in DOMAIN h THEN {h[x]} ELSE {}
    OBVIOUS
  <2>1. CASE x = k
    BY <1>1, <1>5, <1>7, <2>1
  <2>2. CASE x # k
    BY <1>1, <1>2, <1>5, <1>7, <2>2
  <2> QED
    BY <2>1, <2>2
<1>10. Represents(new, h)
  BY <1>6, <1>7, <1>8, <1>9 DEF Represents
<1>11. size' = Cardinality(DOMAIN h)
  <2>1. Cardinality(DOMAIN f \cup {k}) = IF k \in DOMAIN f THEN Cardinality(DOMAIN f) ELSE Cardinality(DOMAIN f) + 1
    BY <1>4, FS_AddElement
  <2>2. Lookup(root, k) = {} <=> k \notin DOMAIN f
    BY <1>2
  <2>3. TrieSet[Levels][root][e].added = (k \notin DOMAIN f)
    BY <1>1, <1>7, <2>2
  <2> DEFINE added == TrieSet[Levels][root][e].added
  <2>4. size' = IF added THEN size + 1 ELSE size
    BY <1>3
  <2> HIDE DEF added
  <2>5. added <=> k \notin DOMAIN f
    BY <2>3 DEF added
  <2> QED
    BY <1>4, <1>5, <2>1, <2>4, <2>5
<1> QED
  BY <1>3, <1>10, <1>11 DEF MapInv, Represents

LEMMA MapInvDelete ==
  ASSUME MapInv, NEW k \in MapKey, DeleteEntry(k)
  PROVE  MapInv'
<1> DEFINE new == TrieDelete[Levels][root][k].node
           removed == TrieDelete[Levels][root][k].removed
           f == contents
           h == [x \in DOMAIN contents \ {k} |-> contents[x]]
<1>1. /\ WellFormed(root) /\ DOMAIN f \subseteq MapKey /\ f \in [DOMAIN f -> MapValue]
      /\ \A x \in MapKey : Lookup(root, x) = IF x \in DOMAIN f THEN {f[x]} ELSE {}
  BY DEF MapInv, Represents
<1>2. root' = new /\ contents' = h /\ size' = IF removed THEN size - 1 ELSE size
  BY DEF DeleteEntry
<1>3. IsFiniteSet(DOMAIN f) /\ size = Cardinality(DOMAIN f)
  BY KeysOf DEF MapInv
<1>4. DOMAIN h = DOMAIN f \ {k} /\ (\A x \in DOMAIN h : h[x] = f[x]) /\ h = [x \in DOMAIN h |-> h[x]]
  OBVIOUS
<1>5. \A x \in DOMAIN h : x \in MapKey /\ h[x] \in MapValue
  BY <1>1, <1>4
<1>6. /\ WellFormed(new)
      /\ \A x \in MapKey : Lookup(new, x) = IF x = k THEN {} ELSE Lookup(root, x)
      /\ removed = (Lookup(root, k) # {})
  BY <1>1, MapDelete
<1> HIDE DEF new, removed, f, h
<1>7. h \in [DOMAIN h -> MapValue]
  <2> DEFINE D == DOMAIN h
  <2>1. h = [x \in D |-> h[x]] /\ \A x \in D : h[x] \in MapValue
    BY <1>4, <1>5
  <2> HIDE DEF D
  <2>2. h \in [D -> MapValue]
    BY <2>1
  <2> QED
    BY <2>2 DEF D
<1>8. \A x \in MapKey : Lookup(new, x) = IF x \in DOMAIN h THEN {h[x]} ELSE {}
  BY <1>1, <1>4, <1>6
<1>9. Represents(new, h)
  BY <1>5, <1>6, <1>7, <1>8 DEF Represents
<1>10. size' = Cardinality(DOMAIN h)
  <2>1. Cardinality(DOMAIN f \ {k}) = IF k \in DOMAIN f THEN Cardinality(DOMAIN f) - 1 ELSE Cardinality(DOMAIN f)
    BY <1>3, FS_RemoveElement
  <2>2. removed <=> k \in DOMAIN f
    BY <1>1, <1>6
  <2> QED
    BY <1>2, <1>3, <1>4, <2>1, <2>2
<1> QED
  BY <1>2, <1>9, <1>10 DEF MapInv, Represents

\* What the invariant says of every operation that only reads.
LEMMA MapInvSuffices == MapInv => MapIsFunction
<1> SUFFICES ASSUME MapInv PROVE MapIsFunction
  OBVIOUS
<1> DEFINE rebuilt == OfEntries(Reverse(EntriesOf(root)))
<1>1. Represents(root, contents) /\ size = Cardinality(DOMAIN contents)
  BY DEF MapInv
<1>2. \A k \in MapKey : Lookup(root, k) = IF k \in DOMAIN contents THEN {contents[k]} ELSE {}
  BY <1>1 DEF Represents
<1>3. DOMAIN contents \subseteq MapKey /\ contents = [k \in DOMAIN contents |-> contents[k]]
      /\ \A k \in DOMAIN contents : contents[k] \in MapValue
  BY <1>1 DEF Represents
<1>4. EntryCount(root) = size /\ ToSet(MapKeys(root)) = DOMAIN contents
  BY <1>1, KeysOf
<1>5. ToSet(MapKeys(root)) = {k \in MapKey : HasKey(root, k)}
  <2>1. \A k \in MapKey : HasKey(root, k) <=> k \in DOMAIN contents
    BY <1>2 DEF HasKey
  <2> QED
    BY <1>3, <1>4, <2>1
<1>6. WellFormed(root)
  BY <1>1 DEF Represents
<1>7. Represents(rebuilt, contents)
  BY <1>1, ReverseIs
<1> HIDE DEF rebuilt
<1>8. /\ FunctionOf(rebuilt) = contents /\ EqualMaps(rebuilt, root) /\ EqualMaps(root, rebuilt)
      /\ WellFormed(rebuilt)
  BY <1>1, <1>7, FunctionRead, EqualAre DEF Represents
<1>9. ASSUME NEW v \in MapValue
      PROVE  LET kept == FilterMap(root, {v})
                 set  == MapValues(root, [x \in MapValue |-> v])
             IN  /\ SomeEntry(root, {v}) <=> v \in {contents[k] : k \in DOMAIN contents}
                 /\ EveryEntry(root, {v}) <=> EqualMaps(kept, root)
                 /\ FunctionOf(kept) = [k \in {k \in DOMAIN contents : contents[k] = v} |-> v]
                 /\ FunctionOf(MergeMaps(kept, root)) = contents
                 /\ FunctionOf(MergeMaps(root, set)) = [k \in DOMAIN contents |-> v]
                 /\ EqualMaps(kept, root) <=> (DOMAIN contents = {k \in DOMAIN contents : contents[k] = v})
  <2> DEFINE kept == FilterMap(root, {v})
             all == [x \in MapValue |-> v]
             set == MapValues(root, all)
             f == [k \in {k \in DOMAIN contents : contents[k] = v} |-> v]
             g == [k \in DOMAIN contents |-> v]
  <2>1. Represents(kept, f)
    <3>1. Represents(kept, Restriction(contents, {v}))
      BY <1>1, FilterIs
    <3>2. Restriction(contents, {v}) = f
      BY DEF Restriction
    <3> QED
      BY <3>1, <3>2
  <2>2. Represents(set, g)
    <3>1. all \in [MapValue -> MapValue] /\ \A x \in MapValue : all[x] = v
      OBVIOUS
    <3> HIDE DEF all
    <3>2. Represents(set, [k \in DOMAIN contents |-> all[contents[k]]])
      BY <1>1, <3>1, ValuesAre
    <3>3. [k \in DOMAIN contents |-> all[contents[k]]] = g
      BY <1>3, <3>1
    <3> QED
      BY <3>2, <3>3
  <2>3. /\ DOMAIN f = {k \in DOMAIN contents : contents[k] = v} /\ \A k \in DOMAIN f : f[k] = v
        /\ DOMAIN g = DOMAIN contents /\ \A k \in DOMAIN g : g[k] = v
        /\ f = [k \in DOMAIN f |-> f[k]] /\ g = [k \in DOMAIN g |-> g[k]]
    OBVIOUS
  <2> HIDE DEF kept, all, set, f, g
  <2>4. Over(f, contents) = contents
    <3>1. DOMAIN f \cup DOMAIN contents = DOMAIN contents
      BY <2>3
    <3>2. Over(f, contents) = [k \in DOMAIN contents |-> contents[k]]
      BY <3>1 DEF Over
    <3> QED
      BY <1>3, <3>2
  <2>5. Over(contents, g) = g
    <3>1. DOMAIN contents \cup DOMAIN g = DOMAIN g
      BY <2>3
    <3>2. Over(contents, g) = [k \in DOMAIN g |-> g[k]]
      BY <3>1 DEF Over
    <3> QED
      BY <2>3, <3>2
  <2>6. FunctionOf(MergeMaps(kept, root)) = contents
    BY <1>1, <2>1, <2>4, MergeIs, FunctionRead
  <2>7. FunctionOf(MergeMaps(root, set)) = g
    BY <1>1, <2>2, <2>5, MergeIs, FunctionRead
  <2>8. FunctionOf(kept) = f
    BY <2>1, FunctionRead
  <2>9. EqualMaps(kept, root) <=> f = contents
    BY <1>1, <2>1, EqualAre
  <2>10. f = contents <=> DOMAIN contents = {k \in DOMAIN contents : contents[k] = v}
    <3>1. ASSUME DOMAIN contents = {k \in DOMAIN contents : contents[k] = v} PROVE f = contents
      <4>1. DOMAIN f = DOMAIN contents /\ \A k \in DOMAIN contents : contents[k] = v
        BY <2>3, <3>1
      <4> QED
        BY <1>3, <2>3, <4>1
    <3> QED
      BY <2>3, <3>1
  <2>11. SomeEntry(root, {v}) <=> v \in {contents[k] : k \in DOMAIN contents}
    BY <1>1, DecidesIs
  <2>12. EveryEntry(root, {v}) <=> DOMAIN contents = {k \in DOMAIN contents : contents[k] = v}
    <3>1. EveryEntry(root, {v}) <=> \A k \in DOMAIN contents : contents[k] \in {v}
      BY <1>1, DecidesIs
    <3> QED
      BY <3>1
  <2>13. EveryEntry(root, {v}) <=> EqualMaps(kept, root)
    BY <2>9, <2>10, <2>12
  <2>14. EqualMaps(kept, root) <=> DOMAIN contents = {k \in DOMAIN contents : contents[k] = v}
    BY <2>9, <2>10
  <2> QED
    BY <2>6, <2>7, <2>8, <2>11, <2>13, <2>14, Zenon DEF kept, all, set, f, g
<1> QED
  BY <1>1, <1>2, <1>4, <1>5, <1>6, <1>8, <1>9, Zenon DEF MapIsFunction, rebuilt

\* Whatever keys are set and deleted, over hashes of any width and length and with any
\* collisions, the persistent map is a function: every lookup, the size, iteration, and
\* what filter, map, merge, some, every and equals say of it (src/data/hash-map.ts).
THEOREM MapsAreFunctions == HashMapSpec => []MapIsFunction
<1>1. HashMapInit => MapInv
  BY MapInvInit
<1>2. MapInv /\ [HashMapNext]_hashMapVars => MapInv'
  <2> SUFFICES ASSUME MapInv, [HashMapNext]_hashMapVars PROVE MapInv'
    OBVIOUS
  <2>1. ASSUME NEW k \in MapKey, DeleteEntry(k) PROVE MapInv'
    BY <2>1, MapInvDelete
  <2>2. ASSUME NEW k \in MapKey, NEW v \in MapValue, SetEntry(k, v) PROVE MapInv'
    BY <2>2, MapInvSet
  <2>3. CASE UNCHANGED hashMapVars
    BY <2>3 DEF MapInv, hashMapVars, Represents, Lookup
  <2> QED
    BY <2>1, <2>2, <2>3 DEF HashMapNext
<1>3. MapInv => MapIsFunction
  BY MapInvSuffices
<1> QED
  BY <1>1, <1>2, <1>3, PTL DEF HashMapSpec

-----------------------------------------------------------------------------
(* Sockets. *)

\* What connect came to and the state of the socket agree, and calls need a connection.
LinkMatches ==
  /\ connected = "none" => link \in {"none", "connecting"}
  /\ connected = "err" => link \in {"failing", "closed"}
  /\ connected = "ok" => link \in {"open", "failing", "destroyed", "closed"}
  /\ connected # "ok" => hearing = {} /\ \A s \in Send : writes[s] = "none"

\* A call was made at some number of chunks, and one that has no listeners is not settled.
CallsMatch ==
  /\ calledAt \in [Receive -> 0..MaxChunk]
  /\ \A r \in hearing : calledAt[r] <= emitted
  /\ \A r \in Receive \ hearing : received[r] = Pending

SocketInv == SocketsTypeOK /\ LinkMatches /\ CallsMatch /\ SocketSound

LEMMA SocketsBegin == SocketsInit => SocketInv
BY SocketAssumption DEF SocketsInit, SocketInv, SocketsTypeOK, LinkMatches, CallsMatch, SocketSound, Pending, Rejected

\* What settles the calls that listen leaves the others, and those that are settled.
LEMMA SettledCalls ==
  ASSUME NEW result \in 0..Rejected, SocketsTypeOK, Settled(hearing, result)
  PROVE  /\ received' \in [Receive -> 0..Rejected]
         /\ \A r \in hearing : received[r] = Pending => received'[r] = result
         /\ \A r \in Receive : r \notin hearing \/ received[r] # Pending => received'[r] = received[r]
BY DEF SocketsTypeOK, Settled

LEMMA SocketsStep == SocketInv /\ [SocketsNext]_socketVars => SocketInv'
<1> SUFFICES ASSUME SocketInv, [SocketsNext]_socketVars PROVE SocketInv'
  OBVIOUS
<1> USE SocketAssumption
<1>0. MaxChunk \in Nat /\ Rejected \in 0..Rejected /\ Pending = 0 /\ Rejected = MaxChunk + 1
  BY DEF Rejected, Pending
<1>1. CASE Connect
  BY <1>1, <1>0 DEF Connect, SocketInv, SocketsTypeOK, LinkMatches, CallsMatch, SocketSound
<1>2. CASE Connected
  BY <1>2, <1>0 DEF Connected, SocketInv, SocketsTypeOK, LinkMatches, CallsMatch, SocketSound
<1>3. CASE SocketError
  <2>1. /\ received' \in [Receive -> 0..Rejected]
        /\ \A r \in hearing : received[r] = Pending => received'[r] = Rejected
        /\ \A r \in Receive : r \notin hearing \/ received[r] # Pending => received'[r] = received[r]
    BY <1>3, <1>0, SettledCalls DEF SocketError, SocketInv
  <2> QED
    BY <1>3, <1>0, <2>1 DEF SocketError, SocketInv, SocketsTypeOK, LinkMatches, CallsMatch, SocketSound
<1>4. CASE ChunkArrives
  BY <1>4, <1>0 DEF ChunkArrives, SocketInv, SocketsTypeOK, LinkMatches, CallsMatch, SocketSound
<1>5. CASE PeerEnds
  BY <1>5, <1>0 DEF PeerEnds, SocketInv, SocketsTypeOK, LinkMatches, CallsMatch, SocketSound
<1>6. CASE DataEvent
  <2>1. /\ emitted \in Nat /\ arrived \in 0..MaxChunk /\ emitted < arrived
        /\ emitted' = emitted + 1 /\ emitted' \in 1..MaxChunk /\ emitted' \in 0..Rejected
    BY <1>6, <1>0 DEF DataEvent, SocketInv, SocketsTypeOK
  <2>2. /\ received' \in [Receive -> 0..Rejected]
        /\ \A r \in hearing : received[r] = Pending => received'[r] = emitted'
        /\ \A r \in Receive : r \notin hearing \/ received[r] # Pending => received'[r] = received[r]
    BY <1>6, <2>1, SettledCalls DEF DataEvent, SocketInv
  <2>3. SocketsTypeOK' /\ LinkMatches' /\ CallsMatch'
    BY <1>6, <1>0, <2>1, <2>2 DEF DataEvent, SocketInv, SocketsTypeOK, LinkMatches, CallsMatch
  <2>4. \E r \in hearing : calledAt[r] = 0
    BY <1>6, <1>0, <2>1 DEF DataEvent, SocketInv, SocketsTypeOK, CallsMatch, SocketSound
  <2>5. \A r \in hearing : received'[r] # Pending
    BY <2>1, <2>2, <1>0 DEF SocketInv, SocketsTypeOK
  <2> QED
    BY <1>6, <1>0, <2>1, <2>2, <2>3, <2>4, <2>5 DEF DataEvent, SocketInv, SocketsTypeOK, LinkMatches, CallsMatch, SocketSound
<1>7. CASE CloseEvent
  <2>1. /\ received' \in [Receive -> 0..Rejected]
        /\ \A r \in hearing : received[r] = Pending => received'[r] = Rejected
        /\ \A r \in Receive : r \notin hearing \/ received[r] # Pending => received'[r] = received[r]
    BY <1>7, <1>0, SettledCalls DEF CloseEvent, SocketInv
  <2> QED
    BY <1>7, <1>0, <2>1 DEF CloseEvent, SocketInv, SocketsTypeOK, LinkMatches, CallsMatch, SocketSound
<1>8. CASE CloseSocket
  BY <1>8, <1>0 DEF CloseSocket, SocketInv, SocketsTypeOK, LinkMatches, CallsMatch, SocketSound
<1>9. ASSUME NEW r \in Receive, ReceiveData(r) PROVE SocketInv'
  BY <1>9, <1>0 DEF ReceiveData, SocketInv, SocketsTypeOK, LinkMatches, CallsMatch, SocketSound
<1>10. ASSUME NEW s \in Send, SendData(s) PROVE SocketInv'
  BY <1>10, <1>0 DEF SendData, SocketInv, SocketsTypeOK, LinkMatches, CallsMatch, SocketSound
<1>11. ASSUME NEW s \in Send, Written(s) PROVE SocketInv'
  BY <1>11, <1>0 DEF Written, SocketInv, SocketsTypeOK, LinkMatches, CallsMatch, SocketSound
<1>12. CASE UNCHANGED socketVars
  BY <1>12 DEF socketVars, SocketInv, SocketsTypeOK, LinkMatches, CallsMatch, SocketSound
<1> QED
  BY <1>1, <1>2, <1>3, <1>4, <1>5, <1>6, <1>7, <1>8, <1>9, <1>10, <1>11, <1>12 DEF SocketsNext

\* However calls, chunks, errors and the end interleave, every call of receive() has the
\* first chunk given after it was made, or was refused by what ended the socket.
THEOREM SocketsAreSound == SocketsSpec => [](SocketsTypeOK /\ SocketSound)
<1>1. SocketInv => SocketsTypeOK /\ SocketSound
  BY DEF SocketInv
<1> QED
  BY <1>1, SocketsBegin, SocketsStep, PTL DEF SocketsSpec

-----------------------------------------------------------------------------
(* Keys and what they are used for. *)

\* The usages keys are made with: all a key may have, or what generateKey gives it.
UsagesOf(part) == {Allowed(part), Generates \cap Allowed(part)}

MadeKey(k) ==
  \E part \in PartsOf : \E id \in 1..pairs, usages \in UsagesOf(part), extractable \in BOOLEAN :
     /\ k = Key(part, id, usages, part = "public" \/ extractable)
     /\ usages # {} \/ part = "public"

Material(m) ==
  \E part \in PartsOf : \E id \in 1..pairs, format \in FormatsOf(part) :
     m = [format |-> format, part |-> part, id |-> id]

\* What an answer is that holds one value at most.
LEMMA TaskOfOne == ASSUME NEW x PROVE CryptoTask({x}) = [ok |-> TRUE, value |-> x]
BY DEF CryptoTask

LEMMA TaskOfNone == CryptoTask({}) = Err
BY DEF CryptoTask

LEMMA UsagesFit ==
  ASSUME algorithm \in Algorithms, NEW part \in PartsOf, NEW usages \in UsagesOf(part)
  PROVE  usages \subseteq Allowed(part)
BY DEF UsagesOf

\* No key that is not public is made without a use.
LEMMA UsagesAreSome ==
  ASSUME algorithm \in Algorithms, NEW part \in PartsOf, NEW usages \in UsagesOf(part), part # "public"
  PROVE  usages # {}
<1>1. part \in {"secret", "private"}
  BY DEF PartsOf
<1> QED
  BY <1>1 DEF UsagesOf, Allowed, Generates, Algorithms, Symmetric, PartsOf

VaultTypeOK ==
  /\ algorithm \in Algorithms /\ pairs \in Nat /\ drawn \in Nat
  /\ \A k \in keyRing : MadeKey(k)
  /\ \A id \in 1..pairs : GenerateKey(id) \subseteq keyRing
  /\ \A m \in exported : Material(m)
  /\ \A w \in wrapped : \E m : Material(m) /\ w = [key |-> m, by |-> 0]

\* A ciphertext is of what it was made from.
Ciphers == {"AES-GCM", "AES-CBC", "RSA-OAEP"}
SealedInv ==
  /\ sealed # {} => algorithm \in Ciphers
  /\ \A s \in sealed :
       \E iv \in 1..drawn, id \in 1..pairs, text \in Plaintexts, a \in {"none", "x"} :
          s = [iv |-> iv, data |-> [params |-> CipherParams(iv, a), id |-> id, text |-> text],
               text |-> text, additionalData |-> a, id |-> id]
  /\ \A s, t \in sealed : s.iv = t.iv => s = t

SignedInv ==
  /\ signed # {} => algorithm \in {"HMAC", "ECDSA", "RSA-PSS"}
  /\ \A s \in signed :
       \E id \in 1..pairs, text \in Plaintexts, option \in {"none", "SHA-512", "0"} :
          s = [signature |-> [params |-> SignParams(option), id |-> id, text |-> text], text |-> text, id |-> id, option |-> option]

VaultInv == VaultTypeOK /\ SealedInv /\ SignedInv

LEMMA CryptoBegins == CryptoInit => VaultInv
BY SMT DEF CryptoInit, VaultInv, VaultTypeOK, SealedInv, SignedInv

\* What an import of a material gives.
LEMMA ImportMakes ==
  ASSUME VaultTypeOK, NEW format, NEW m, Material(m), NEW part \in PartsOf, NEW usages \in UsagesOf(part),
         NEW extractable \in BOOLEAN, NEW k \in SubtleImport(format, m, extractable, usages)
  PROVE  MadeKey(k)
<1>1. PICK own \in PartsOf : \E id \in 1..pairs, f \in FormatsOf(own) : m = [format |-> f, part |-> own, id |-> id]
  BY DEF Material
<1>4. PICK id \in 1..pairs, f \in FormatsOf(own) : m = [format |-> f, part |-> own, id |-> id]
  BY <1>1
<1>2. /\ usages \subseteq Allowed(own) /\ (usages # {} \/ own = "public")
      /\ k = Key(own, id, usages, own = "public" \/ extractable)
  BY <1>4 DEF SubtleImport
<1>3. usages \in UsagesOf(own)
  <2>1. CASE own = part
    BY <2>1
  <2>2. CASE own # part
    <3>1. algorithm \in {"ECDSA", "RSA-PSS", "RSA-OAEP", "ECDH"} /\ {own, part} = {"public", "private"}
      BY <2>2 DEF PartsOf, VaultTypeOK, Algorithms
    <3> QED
      BY <3>1, <1>2 DEF UsagesOf, Allowed, Generates, VaultTypeOK, Algorithms, Symmetric
  <2> QED
    BY <2>1, <2>2
<1> QED
  BY <1>2, <1>3 DEF MadeKey

\* What depends on the algorithm only is the same after each step.
LEMMA SameAlgorithm ==
  ASSUME algorithm' = algorithm
  PROVE  /\ PartsOf' = PartsOf /\ Generates' = Generates
         /\ \A part : /\ Allowed(part)' = Allowed(part) /\ UsagesOf(part)' = UsagesOf(part)
                      /\ FormatsOf(part)' = FormatsOf(part)
         /\ \A part, id, usages, extractable : Key(part, id, usages, extractable)' = Key(part, id, usages, extractable)
         /\ \A id : GenerateKey(id)' = GenerateKey(id)
         /\ \A iv, a : CipherParams(iv, a)' = CipherParams(iv, a)
         /\ \A option : SignParams(option)' = SignParams(option)
<1>1. PartsOf' = PartsOf /\ Generates' = Generates
  BY DEF PartsOf, Generates
<1>2. \A part : Allowed(part)' = Allowed(part)
  BY DEF Allowed
<1>3. \A part : UsagesOf(part)' = UsagesOf(part)
  BY <1>1, <1>2 DEF UsagesOf
<1>4. \A part : FormatsOf(part)' = FormatsOf(part)
  BY DEF FormatsOf
<1>5. \A part, id, usages, extractable : Key(part, id, usages, extractable)' = Key(part, id, usages, extractable)
  BY DEF Key
<1>6. \A id : GenerateKey(id)' = GenerateKey(id)
  BY <1>1, <1>2, <1>5 DEF GenerateKey, SubtleGenerate
<1>7. \A iv, a : CipherParams(iv, a)' = CipherParams(iv, a)
  BY DEF CipherParams
<1>8. \A option : SignParams(option)' = SignParams(option)
  BY DEF SignParams
<1> QED
  BY <1>1, <1>2, <1>3, <1>4, <1>5, <1>6, <1>7, <1>8

\* Keys and materials remain what they are when more keys are made.
LEMMA MadeRemains ==
  ASSUME algorithm' = algorithm, pairs \in Nat, pairs' \in {pairs, pairs + 1}
  PROVE  /\ \A k : MadeKey(k) => MadeKey(k)'
         /\ \A m : Material(m) => Material(m)'
<1>1. 1..pairs \subseteq 1..pairs'
  OBVIOUS
<1>2. ASSUME NEW k, MadeKey(k) PROVE MadeKey(k)'
  <2>1. PICK part \in PartsOf : \E id \in 1..pairs, usages \in UsagesOf(part), extractable \in BOOLEAN :
           k = Key(part, id, usages, part = "public" \/ extractable) /\ (usages # {} \/ part = "public")
    BY <1>2 DEF MadeKey
  <2>2. PICK id \in 1..pairs, usages \in UsagesOf(part), extractable \in BOOLEAN :
           k = Key(part, id, usages, part = "public" \/ extractable) /\ (usages # {} \/ part = "public")
    BY <2>1
  <2>3. part \in PartsOf' /\ id \in 1..pairs' /\ usages \in UsagesOf(part)'
    BY <1>1, SameAlgorithm
  <2>4. k = Key(part, id, usages, part = "public" \/ extractable)'
    BY <2>2, SameAlgorithm DEF Key
  <2> QED
    BY <2>2, <2>3, <2>4 DEF MadeKey
<1>3. ASSUME NEW m, Material(m) PROVE Material(m)'
  <2>1. PICK part \in PartsOf : \E id \in 1..pairs, format \in FormatsOf(part) :
           m = [format |-> format, part |-> part, id |-> id]
    BY <1>3 DEF Material
  <2>2. PICK id \in 1..pairs, format \in FormatsOf(part) : m = [format |-> format, part |-> part, id |-> id]
    BY <2>1
  <2>3. part \in PartsOf' /\ id \in 1..pairs' /\ format \in FormatsOf(part)'
    BY <1>1, SameAlgorithm
  <2> QED
    BY <2>2, <2>3 DEF Material
<1> QED
  BY <1>2, <1>3

\* And so do ciphertexts and signatures.
LEMMA SealsRemain ==
  ASSUME algorithm' = algorithm, pairs \in Nat, drawn \in Nat, pairs' \in {pairs, pairs + 1}, drawn' = drawn,
         sealed' = sealed, signed' = signed, SealedInv, SignedInv
  PROVE  SealedInv' /\ SignedInv'
<1>1. 1..pairs \subseteq 1..pairs'
  OBVIOUS
<1>2. SealedInv'
  BY <1>1, SameAlgorithm DEF SealedInv
<1>3. SignedInv'
  BY <1>1, SameAlgorithm DEF SignedInv
<1> QED
  BY <1>2, <1>3

LEMMA GenerateKeepsVault == ASSUME VaultInv, Generate PROVE VaultInv'
<1>1. /\ pairs \in Nat /\ pairs' = pairs + 1 /\ algorithm' = algorithm /\ drawn \in Nat /\ drawn' = drawn
      /\ exported' = exported /\ wrapped' = wrapped /\ sealed' = sealed /\ signed' = signed
      /\ keyRing' = keyRing \cup GenerateKey(pairs')
  BY DEF Generate, VaultInv, VaultTypeOK
<1>2. 1..pairs \subseteq 1..pairs' /\ pairs' \in 1..pairs' /\ \A id \in 1..pairs' : id \in 1..pairs \/ id = pairs'
  BY <1>1
<1>3. ASSUME NEW k \in GenerateKey(pairs') PROVE MadeKey(k)'
  <2>1. PICK part \in PartsOf : k = Key(part, pairs', Generates \cap Allowed(part), part = "public" \/ TRUE)
    BY DEF GenerateKey, SubtleGenerate
  <2>2. PICK id, usages : id = pairs' /\ usages = Generates \cap Allowed(part)
    OBVIOUS
  <2>3. usages \in UsagesOf(part)
    BY <2>2 DEF UsagesOf
  <2>4. usages # {} \/ part = "public"
    BY <2>3, UsagesAreSome DEF VaultInv, VaultTypeOK
  <2>5. usages \in UsagesOf(part)' /\ part \in PartsOf' /\ id \in 1..pairs'
    BY <2>2, <2>3, <1>1, <1>2, SameAlgorithm
  <2>6. k = Key(part, id, usages, part = "public" \/ TRUE)'
    BY <2>1, <2>2, <1>1, SameAlgorithm
  <2> QED
    BY <2>4, <2>5, <2>6 DEF MadeKey
<1>4. \A k \in keyRing' : MadeKey(k)'
  BY <1>1, <1>3, MadeRemains DEF VaultInv, VaultTypeOK
<1>5. \A id \in 1..pairs' : GenerateKey(id)' \subseteq keyRing'
  BY <1>1, <1>2, SameAlgorithm DEF VaultInv, VaultTypeOK
<1>6. VaultTypeOK'
  BY <1>1, <1>4, <1>5, MadeRemains DEF VaultInv, VaultTypeOK
<1> QED
  BY <1>1, <1>6, SealsRemain DEF VaultInv

\* What is added to a set if there is an answer.
LEMMA GivenIs ==
  ASSUME NEW answer, NEW to, NEW S, answer = CryptoTask(S), S = {} \/ \E x : S = {x}
  PROVE  \A y \in Given(answer, to) : y \in to \/ y \in S
<1>1. CASE S = {}
  BY <1>1, TaskOfNone DEF Given, Err
<1>2. ASSUME NEW x, S = {x} PROVE \A y \in Given(answer, to) : y \in to \/ y \in S
  <2>1. answer = [ok |-> TRUE, value |-> x]
    BY <1>2, TaskOfOne
  <2>2. Given(answer, to) = to \cup {x}
    BY <2>1 DEF Given
  <2> QED
    BY <2>2, <1>2
<1> QED
  BY <1>1, <1>2

LEMMA GivenKeeps == ASSUME NEW answer, NEW to PROVE to \subseteq Given(answer, to)
BY DEF Given

LEMMA ExportKeepsVault == ASSUME VaultInv, ExportStep PROVE VaultInv'
<1>1. /\ pairs \in Nat /\ pairs' = pairs /\ algorithm' = algorithm /\ drawn \in Nat /\ drawn' = drawn
      /\ keyRing' = keyRing /\ sealed' = sealed /\ signed' = signed
  BY DEF ExportStep, Used, VaultInv, VaultTypeOK
<1>2. ASSUME NEW k \in keyRing, NEW format, NEW m \in SubtleExport(format, k) PROVE Material(m)
  <2>1. PICK part \in PartsOf : \E id \in 1..pairs, usages \in UsagesOf(part), extractable \in BOOLEAN :
           k = Key(part, id, usages, part = "public" \/ extractable)
    BY DEF VaultInv, VaultTypeOK, MadeKey
  <2>2. k.part = part /\ k.id \in 1..pairs
    BY <2>1 DEF Key
  <2>3. format \in FormatsOf(part) /\ m = [format |-> format, part |-> part, id |-> k.id]
    BY <2>2 DEF SubtleExport
  <2> QED
    BY <2>2, <2>3 DEF Material
<1>3. PICK k \in keyRing, format \in {"raw", "jwk", "pkcs8", "spki"} :
         \/ exported' = Given(ExportKey(format, k), exported) /\ UNCHANGED wrapped
         \/ wrapped' = Given(WrapKey(format, k, Wrapper), wrapped) /\ UNCHANGED exported
  BY DEF ExportStep
<1>4. \A m \in exported' : Material(m)
  <2>1. SubtleExport(format, k) = {} \/ \E x : SubtleExport(format, k) = {x}
    BY DEF SubtleExport
  <2>2. \A m \in Given(ExportKey(format, k), exported) : m \in exported \/ m \in SubtleExport(format, k)
    BY <2>1, GivenIs DEF ExportKey
  <2> QED
    BY <1>2, <1>3, <2>2 DEF VaultInv, VaultTypeOK
<1>5. \A w \in wrapped' : \E m : Material(m) /\ w = [key |-> m, by |-> 0]
  <2> DEFINE W == IF "wrapKey" \in Wrapper.usages THEN {[key |-> x, by |-> Wrapper.id] : x \in SubtleExport(format, k)} ELSE {}
  <2>1. SubtleExport(format, k) = {} \/ \E x : SubtleExport(format, k) = {x}
    BY DEF SubtleExport
  <2>2. W = {} \/ \E x : W = {x}
    BY <2>1
  <2>3. WrapKey(format, k, Wrapper) = CryptoTask(W)
    BY DEF WrapKey
  <2>4. \A w \in W : \E m : Material(m) /\ w = [key |-> m, by |-> 0]
    BY <1>2 DEF Wrapper
  <2> HIDE DEF W
  <2>5. \A w \in Given(WrapKey(format, k, Wrapper), wrapped) : w \in wrapped \/ w \in W
    BY <2>2, <2>3, GivenIs
  <2> QED
    BY <1>3, <2>4, <2>5 DEF VaultInv, VaultTypeOK
<1>6. VaultTypeOK'
  <2>1. \A m \in exported' : Material(m)'
    BY <1>1, <1>4, MadeRemains
  <2>2. \A w \in wrapped' : \E m : Material(m)' /\ w = [key |-> m, by |-> 0]
    BY <1>1, <1>5, MadeRemains
  <2> QED
    BY <1>1, <2>1, <2>2, MadeRemains, SameAlgorithm DEF VaultInv, VaultTypeOK
<1> QED
  BY <1>1, <1>6, SealsRemain DEF VaultInv

LEMMA ImportKeepsVault == ASSUME VaultInv, ImportStep PROVE VaultInv'
<1>1. /\ pairs \in Nat /\ pairs' = pairs /\ algorithm' = algorithm /\ drawn \in Nat /\ drawn' = drawn
      /\ exported' = exported /\ wrapped' = wrapped /\ sealed' = sealed /\ signed' = signed
  BY DEF ImportStep, Used, VaultInv, VaultTypeOK
<1>2. PICK part \in PartsOf : \E usages \in UsagesOf(part) :
         \/ \E m \in exported : keyRing' = Given(ImportKey(m.format, m, usages), keyRing)
         \/ \E w \in wrapped, extractable \in BOOLEAN :
              keyRing' = Given(UnwrapKey(w.key.format, w, Wrapper, extractable, usages), keyRing)
  BY DEF ImportStep, UsagesOf
<1>3. PICK usages \in UsagesOf(part) :
         \/ \E m \in exported : keyRing' = Given(ImportKey(m.format, m, usages), keyRing)
         \/ \E w \in wrapped, extractable \in BOOLEAN :
              keyRing' = Given(UnwrapKey(w.key.format, w, Wrapper, extractable, usages), keyRing)
  BY <1>2
<1>4. ASSUME NEW m, Material(m), NEW extractable \in BOOLEAN,
             NEW S, S \in {{}, SubtleImport(m.format, m, extractable, usages)},
             keyRing' = Given(CryptoTask(S), keyRing)
      PROVE  keyRing \subseteq keyRing' /\ \A k \in keyRing' : MadeKey(k)
  <2>1. SubtleImport(m.format, m, extractable, usages) = {}
        \/ \E x : SubtleImport(m.format, m, extractable, usages) = {x}
    BY DEF SubtleImport
  <2>2. S = {} \/ \E x : S = {x}
    BY <1>4, <2>1
  <2>3. \A k \in keyRing' : k \in keyRing \/ k \in S
    BY <1>4, <2>2, GivenIs
  <2>4. \A k \in S : MadeKey(k)
    BY <1>4, ImportMakes DEF VaultInv
  <2> QED
    BY <1>4, <2>3, <2>4, GivenKeeps DEF VaultInv, VaultTypeOK
<1>5. keyRing \subseteq keyRing' /\ \A k \in keyRing' : MadeKey(k)
  <2>1. ASSUME NEW m \in exported, keyRing' = Given(ImportKey(m.format, m, usages), keyRing)
        PROVE  keyRing \subseteq keyRing' /\ \A k \in keyRing' : MadeKey(k)
    BY <2>1, <1>4 DEF ImportKey, VaultInv, VaultTypeOK
  <2>2. ASSUME NEW w \in wrapped, NEW extractable \in BOOLEAN,
               keyRing' = Given(UnwrapKey(w.key.format, w, Wrapper, extractable, usages), keyRing)
        PROVE  keyRing \subseteq keyRing' /\ \A k \in keyRing' : MadeKey(k)
    <3>1. PICK m : Material(m) /\ w = [key |-> m, by |-> 0]
      BY DEF VaultInv, VaultTypeOK
    <3>2. UnwrapKey(w.key.format, w, Wrapper, extractable, usages) =
            CryptoTask(SubtleImport(m.format, m, extractable, usages))
      BY <3>1 DEF UnwrapKey, Wrapper
    <3> QED
      BY <2>2, <3>1, <3>2, <1>4
  <2> QED
    BY <1>3, <2>1, <2>2
<1>6. VaultTypeOK'
  <2>1. \A k \in keyRing' : MadeKey(k)'
    BY <1>1, <1>5, MadeRemains
  <2> QED
    BY <1>1, <1>5, <2>1, MadeRemains, SameAlgorithm DEF VaultInv, VaultTypeOK
<1> QED
  BY <1>1, <1>6, SealsRemain DEF VaultInv

\* A key at hand is one of those generated, or made from it.
LEMMA KeyIsMade ==
  ASSUME VaultInv, NEW k \in keyRing
  PROVE  /\ k.algorithm = algorithm /\ k.part \in PartsOf /\ k.id \in 1..pairs /\ k.usages \in UsagesOf(k.part)
         /\ k.extractable \in BOOLEAN /\ (k.part = "public" => k.extractable)
         /\ k.usages # {} \/ k.part = "public"
         /\ k = Key(k.part, k.id, k.usages, k.extractable)
<1>1. PICK part \in PartsOf : \E id \in 1..pairs, usages \in UsagesOf(part), extractable \in BOOLEAN :
         k = Key(part, id, usages, part = "public" \/ extractable) /\ (usages # {} \/ part = "public")
  BY DEF MadeKey, VaultInv, VaultTypeOK
<1>2. PICK id \in 1..pairs, usages \in UsagesOf(part), extractable \in BOOLEAN :
         k = Key(part, id, usages, part = "public" \/ extractable) /\ (usages # {} \/ part = "public")
  BY <1>1
<1>3. PICK e \in BOOLEAN : e = (part = "public" \/ extractable)
  OBVIOUS
<1>4. k = [algorithm |-> algorithm, part |-> part, id |-> id, usages |-> usages, extractable |-> e]
  BY <1>2, <1>3 DEF Key
<1>5. /\ k.algorithm = algorithm /\ k.part = part /\ k.id = id /\ k.usages = usages /\ k.extractable = e
      /\ k = Key(k.part, k.id, k.usages, k.extractable)
  BY <1>4 DEF Key
<1>6. part = "public" => e
  BY <1>3
<1> QED
  BY <1>2, <1>5, <1>6

LEMMA EncryptKeepsVault == ASSUME VaultInv, EncryptStep PROVE VaultInv'
<1>1. /\ pairs \in Nat /\ pairs' = pairs /\ algorithm' = algorithm /\ drawn \in Nat /\ drawn' = drawn + 1
      /\ keyRing' = keyRing /\ exported' = exported /\ wrapped' = wrapped /\ signed' = signed
  BY DEF EncryptStep, Used, VaultInv, VaultTypeOK
<1>2. VaultTypeOK'
  BY <1>1, MadeRemains, SameAlgorithm DEF VaultInv, VaultTypeOK
<1>3. SignedInv'
  BY <1>1, SameAlgorithm DEF VaultInv, SignedInv
<1>4. PICK k \in keyRing, text \in Plaintexts, a \in {"none", "x"} :
         sealed' = IF Encrypt(k, drawn', text, a).ok
                   THEN sealed \cup {[iv |-> drawn', data |-> Encrypt(k, drawn', text, a).value, text |-> text,
                                      additionalData |-> a, id |-> k.id]}
                   ELSE sealed
  BY DEF EncryptStep
<1>5. 1..drawn \subseteq 1..drawn' /\ drawn' \in 1..drawn' /\ drawn' \notin 1..drawn
  BY <1>1
<1>6. CASE sealed' = sealed
  BY <1>1, <1>2, <1>3, <1>5, <1>6, SameAlgorithm DEF VaultInv, SealedInv
<1>7. CASE Encrypt(k, drawn', text, a).ok
  <2> DEFINE params == CipherParams(drawn', a)
  <2>0. k.algorithm = algorithm /\ k.id \in 1..pairs /\ k.usages \in UsagesOf(k.part) /\ k.part \in PartsOf
    BY KeyIsMade
  <2>1. Usable(params, k, "encrypt")
    BY <1>7, TaskOfNone DEF Encrypt, SubtleEncrypt, Err
  <2>2. Encrypt(k, drawn', text, a) = [ok |-> TRUE, value |-> [params |-> params, id |-> k.id, text |-> text]]
    BY <2>1, TaskOfOne DEF Encrypt, SubtleEncrypt
  <2>3. algorithm \in Ciphers
    <3>1. algorithm = params.name
      BY <2>0, <2>1 DEF Usable
    <3> QED
      BY <3>1 DEF CipherParams, Ciphers
  <2> DEFINE new == [iv |-> drawn', data |-> [params |-> params, id |-> k.id, text |-> text],
                     text |-> text, additionalData |-> a, id |-> k.id]
  <2>4. sealed' = sealed \cup {new}
    BY <1>4, <1>7, <2>2
  <2>5. new.iv = drawn' /\ \A s \in sealed : s.iv \in 1..drawn
    BY DEF VaultInv, SealedInv
  <2>6. \A s, t \in sealed' : s.iv = t.iv => s = t
    BY <2>4, <2>5, <1>5 DEF VaultInv, SealedInv
  <2>7. \A s \in sealed' :
          \E iv \in 1..drawn', id \in 1..pairs, t \in Plaintexts, b \in {"none", "x"} :
             s = [iv |-> iv, data |-> [params |-> CipherParams(iv, b), id |-> id, text |-> t],
                  text |-> t, additionalData |-> b, id |-> id]
    BY <2>4, <2>0, <1>5 DEF VaultInv, SealedInv
  <2> HIDE DEF new, params
  <2> QED
    BY <1>1, <1>2, <1>3, <2>3, <2>6, <2>7, SameAlgorithm DEF VaultInv, SealedInv
<1> QED
  BY <1>2, <1>3, <1>4, <1>6, <1>7 DEF VaultInv

LEMMA SignKeepsVault == ASSUME VaultInv, SignStep PROVE VaultInv'
<1>1. /\ pairs \in Nat /\ pairs' = pairs /\ algorithm' = algorithm /\ drawn \in Nat /\ drawn' = drawn
      /\ keyRing' = keyRing /\ exported' = exported /\ wrapped' = wrapped /\ sealed' = sealed
  BY DEF SignStep, Used, VaultInv, VaultTypeOK
<1>2. VaultTypeOK'
  BY <1>1, MadeRemains, SameAlgorithm DEF VaultInv, VaultTypeOK
<1>3. SealedInv'
  BY <1>1, SameAlgorithm DEF VaultInv, SealedInv
<1>4. PICK k \in keyRing, text \in Plaintexts, option \in {"none", "SHA-512", "0"} :
         signed' = IF Sign(k, text, option).ok
                   THEN signed \cup {[signature |-> Sign(k, text, option).value, text |-> text, id |-> k.id, option |-> option]}
                   ELSE signed
  BY DEF SignStep
<1>5. CASE signed' = signed
  BY <1>1, <1>2, <1>3, <1>5, SameAlgorithm DEF VaultInv, SignedInv
<1>6. CASE Sign(k, text, option).ok
  <2> DEFINE params == SignParams(option)
  <2>0. k.algorithm = algorithm /\ k.id \in 1..pairs
    BY KeyIsMade
  <2>1. Usable(params, k, "sign")
    BY <1>6, TaskOfNone DEF Sign, SubtleSign, Err
  <2>2. Sign(k, text, option) = [ok |-> TRUE, value |-> [params |-> params, id |-> k.id, text |-> text]]
    BY <2>1, TaskOfOne DEF Sign, SubtleSign
  <2>3. algorithm \in {"HMAC", "ECDSA", "RSA-PSS"}
    <3>1. algorithm = params.name
      BY <2>0, <2>1 DEF Usable
    <3> QED
      BY <3>1 DEF SignParams
  <2> DEFINE new == [signature |-> [params |-> params, id |-> k.id, text |-> text], text |-> text,
                     id |-> k.id, option |-> option]
  <2>4. signed' = signed \cup {new}
    BY <1>4, <1>6, <2>2
  <2>5. \A s \in signed' :
          \E id \in 1..pairs, t \in Plaintexts, o \in {"none", "SHA-512", "0"} :
             s = [signature |-> [params |-> SignParams(o), id |-> id, text |-> t], text |-> t, id |-> id, option |-> o]
    BY <2>4, <2>0 DEF VaultInv, SignedInv
  <2> HIDE DEF new, params
  <2> QED
    BY <1>1, <1>2, <1>3, <2>3, <2>5, SameAlgorithm DEF VaultInv, SignedInv
<1> QED
  BY <1>4, <1>5, <1>6

LEMMA VaultKept == VaultInv /\ [CryptoNext]_cryptoVars => VaultInv'
<1> SUFFICES ASSUME VaultInv, [CryptoNext]_cryptoVars PROVE VaultInv'
  OBVIOUS
<1>1. CASE UNCHANGED cryptoVars
  <2>1. /\ pairs \in Nat /\ pairs' = pairs /\ algorithm' = algorithm /\ drawn \in Nat /\ drawn' = drawn
        /\ keyRing' = keyRing /\ exported' = exported /\ wrapped' = wrapped /\ sealed' = sealed /\ signed' = signed
    BY <1>1 DEF cryptoVars, VaultInv, VaultTypeOK
  <2>2. VaultTypeOK'
    BY <2>1, MadeRemains, SameAlgorithm DEF VaultInv, VaultTypeOK
  <2> QED
    BY <2>1, <2>2, SealsRemain DEF VaultInv
<1> QED
  BY <1>1, GenerateKeepsVault, ExportKeepsVault, ImportKeepsVault, EncryptKeepsVault, SignKeepsVault DEF CryptoNext

\* The keys that were generated are at hand.
LEMMA OwnKeys ==
  ASSUME VaultInv, NEW id \in 1..pairs, NEW part \in PartsOf
  PROVE  \E k \in keyRing : k.id = id /\ k.part = part /\ k.usages = Generates \cap Allowed(part)
<1>1. PICK usages : usages = Generates \cap Allowed(part)
  OBVIOUS
<1>2. PICK e : e = (part = "public" \/ TRUE)
  OBVIOUS
<1>3. Key(part, id, usages, e) \in keyRing
  BY <1>1, <1>2 DEF VaultInv, VaultTypeOK, GenerateKey, SubtleGenerate
<1>4. /\ Key(part, id, usages, e).id = id /\ Key(part, id, usages, e).part = part
      /\ Key(part, id, usages, e).usages = usages
  BY DEF Key
<1> QED
  BY <1>1, <1>3, <1>4

LEMMA OpensItsOwn ==
  ASSUME VaultInv, NEW s \in sealed, NEW k \in keyRing, NEW a \in {"none", "x"}
  PROVE  LET answer == Decrypt(k, s.iv, s.data, a)
             same == k.id = s.id /\ (a = s.additionalData \/ algorithm # "AES-GCM")
         IN  answer = IF same /\ "decrypt" \in k.usages THEN [ok |-> TRUE, value |-> s.text]
                      ELSE IF algorithm = "AES-CBC" /\ "decrypt" \in k.usages THEN [ok |-> TRUE, value |-> "garbled"] ELSE Err
<1>1. PICK iv \in 1..drawn, id \in 1..pairs, text \in Plaintexts, b \in {"none", "x"} :
         s = [iv |-> iv, data |-> [params |-> CipherParams(iv, b), id |-> id, text |-> text],
              text |-> text, additionalData |-> b, id |-> id]
  BY DEF VaultInv, SealedInv
<1> DEFINE data == [params |-> CipherParams(iv, b), id |-> id, text |-> text]
<1>2. s.iv = iv /\ s.data = data /\ s.text = text /\ s.additionalData = b /\ s.id = id
  BY <1>1
<1>3. algorithm \in Ciphers /\ k.algorithm = algorithm
  BY KeyIsMade DEF VaultInv, SealedInv
<1>4. CipherParams(iv, a).name = algorithm
  BY <1>3 DEF CipherParams, Ciphers
<1>5. CipherParams(iv, b) = CipherParams(iv, a) <=> (a = b \/ algorithm # "AES-GCM")
  <2>1. CASE algorithm = "AES-GCM"
    <3>1. /\ CipherParams(iv, a) = [name |-> "AES-GCM", iv |-> iv, additionalData |-> a]
          /\ CipherParams(iv, b) = [name |-> "AES-GCM", iv |-> iv, additionalData |-> b]
      BY <2>1 DEF CipherParams
    <3>2. CipherParams(iv, a).additionalData = a /\ CipherParams(iv, b).additionalData = b
      BY <3>1
    <3> QED
      BY <3>2, <2>1
  <2>2. CASE algorithm # "AES-GCM"
    BY <2>2, <1>3 DEF CipherParams, Ciphers
  <2> QED
    BY <2>1, <2>2
<1>6. Decrypt(k, iv, data, a) = CryptoTask(SubtleDecrypt(CipherParams(iv, a), k, data))
  BY DEF Decrypt
<1>7. CASE "decrypt" \notin k.usages
  <2>1. SubtleDecrypt(CipherParams(iv, a), k, data) = {}
    BY <1>7 DEF SubtleDecrypt, Usable
  <2> QED
    BY <1>2, <1>6, <1>7, <2>1, TaskOfNone
<1>8. CASE "decrypt" \in k.usages
  <2>1. Usable(CipherParams(iv, a), k, "decrypt")
    BY <1>8, <1>3, <1>4 DEF Usable
  <2>2. data.params = CipherParams(iv, b) /\ data.id = id /\ data.text = text
    OBVIOUS
  <2>3. CASE k.id = id /\ (a = b \/ algorithm # "AES-GCM")
    <3>1. SubtleDecrypt(CipherParams(iv, a), k, data) = {text}
      BY <2>1, <2>2, <2>3, <1>5 DEF SubtleDecrypt
    <3> QED
      BY <1>2, <1>6, <1>8, <2>3, <3>1, TaskOfOne
  <2>4. CASE ~(k.id = id /\ (a = b \/ algorithm # "AES-GCM"))
    <3>1. SubtleDecrypt(CipherParams(iv, a), k, data) = IF algorithm = "AES-CBC" THEN {"garbled"} ELSE {}
      BY <2>1, <2>2, <2>4, <1>4, <1>5 DEF SubtleDecrypt
    <3> QED
      BY <1>2, <1>6, <1>8, <2>4, <3>1, TaskOfOne, TaskOfNone
  <2> QED
    BY <2>3, <2>4
<1> QED
  BY <1>7, <1>8

LEMMA VerifiesItsOwn ==
  ASSUME VaultInv, NEW s \in signed, NEW k \in keyRing, NEW text \in Plaintexts, NEW option \in {"none", "SHA-512", "0"}
  PROVE  LET answer == Verify(k, s.signature, text, option)
         IN  /\ answer.ok = ("verify" \in k.usages)
             /\ answer.ok => answer.value = (k.id = s.id /\ text = s.text /\ (option = s.option \/ algorithm = "HMAC"))
<1>1. PICK id \in 1..pairs, t \in Plaintexts, o \in {"none", "SHA-512", "0"} :
         s = [signature |-> [params |-> SignParams(o), id |-> id, text |-> t], text |-> t, id |-> id, option |-> o]
  BY DEF VaultInv, SignedInv
<1> DEFINE signature == [params |-> SignParams(o), id |-> id, text |-> t]
<1>2. s.signature = signature /\ s.text = t /\ s.option = o /\ s.id = id
  BY <1>1
<1>3. algorithm \in {"HMAC", "ECDSA", "RSA-PSS"} /\ k.algorithm = algorithm
  BY KeyIsMade DEF VaultInv, SignedInv
<1>4. SignParams(option).name = algorithm
  BY <1>3 DEF SignParams
<1>5. SignParams(o) = SignParams(option) <=> (option = o \/ algorithm = "HMAC")
  <2>1. CASE algorithm = "HMAC"
    BY <2>1 DEF SignParams
  <2>2. CASE algorithm = "ECDSA"
    <3>1. \A x : SignParams(x) = [name |-> "ECDSA", hash |-> IF x = "none" THEN "SHA-256" ELSE x]
      BY <2>2 DEF SignParams
    <3>2. \A x : SignParams(x).hash = IF x = "none" THEN "SHA-256" ELSE x
      BY <3>1
    <3> QED
      BY <3>2, <2>2
  <2>3. CASE algorithm = "RSA-PSS"
    <3>1. \A x : SignParams(x) = [name |-> "RSA-PSS", saltLength |-> IF x = "none" THEN "32" ELSE x]
      BY <2>3 DEF SignParams
    <3>2. \A x : SignParams(x).saltLength = IF x = "none" THEN "32" ELSE x
      BY <3>1
    <3> QED
      BY <3>2, <2>3
  <2> QED
    BY <1>3, <2>1, <2>2, <2>3
<1>6. Verify(k, signature, text, option) = CryptoTask(SubtleVerify(SignParams(option), k, signature, text))
  BY DEF Verify
<1>7. CASE "verify" \notin k.usages
  <2>1. SubtleVerify(SignParams(option), k, signature, text) = {}
    BY <1>7 DEF SubtleVerify, Usable
  <2>2. Verify(k, signature, text, option).ok = FALSE
    BY <1>6, <2>1, TaskOfNone DEF Err
  <2>3. ("verify" \in k.usages) = FALSE
    BY <1>7
  <2>4. Verify(k, s.signature, text, option).ok = ("verify" \in k.usages)
    BY <1>2, <2>2, <2>3
  <2>5. ~Verify(k, s.signature, text, option).ok
    BY <1>2, <2>2
  <2> HIDE DEF signature
  <2> QED
    BY <2>4, <2>5
<1>8. CASE "verify" \in k.usages
  <2> DEFINE fits == signature = [params |-> SignParams(option), id |-> k.id, text |-> text]
  <2>1. SubtleVerify(SignParams(option), k, signature, text) = {fits}
    BY <1>8, <1>3, <1>4 DEF SubtleVerify, Usable
  <2>2. fits <=> (SignParams(o) = SignParams(option) /\ id = k.id /\ t = text)
    <3>1. /\ signature.params = SignParams(o) /\ signature.id = id /\ signature.text = t
          /\ [params |-> SignParams(option), id |-> k.id, text |-> text].params = SignParams(option)
          /\ [params |-> SignParams(option), id |-> k.id, text |-> text].id = k.id
          /\ [params |-> SignParams(option), id |-> k.id, text |-> text].text = text
      OBVIOUS
    <3> QED
      BY <3>1
  <2>3. fits = (k.id = id /\ text = t /\ (option = o \/ algorithm = "HMAC"))
    BY <2>2, <1>5
  <2> HIDE DEF fits
  <2>4. Verify(k, signature, text, option) = [ok |-> TRUE, value |-> fits]
    BY <1>6, <2>1, TaskOfOne
  <2>5. Verify(k, signature, text, option).ok = TRUE /\ Verify(k, signature, text, option).value = fits
    BY <2>4
  <2> QED
    BY <1>2, <1>8, <2>3, <2>5
<1> QED
  BY <1>7, <1>8

LEMMA VaultIsSound == VaultInv => VaultSound
<1> SUFFICES ASSUME VaultInv PROVE VaultSound
  OBVIOUS
<1>1. ASSUME NEW s \in sealed PROVE \E k \in keyRing : k.id = s.id /\ "decrypt" \in k.usages
  <2>1. s.id \in 1..pairs /\ algorithm \in Ciphers
    BY DEF VaultInv, SealedInv
  <2>2. \E part \in PartsOf : "decrypt" \in Generates \cap Allowed(part)
    <3>1. CASE algorithm = "RSA-OAEP"
      <4>1. "private" \in PartsOf
        BY <3>1 DEF PartsOf, Symmetric
      <4>2. "decrypt" \in Generates /\ "decrypt" \in Allowed("private")
        BY <3>1 DEF Generates, Allowed
      <4> QED
        BY <4>1, <4>2
    <3>2. CASE algorithm \in {"AES-GCM", "AES-CBC"}
      <4>1. "secret" \in PartsOf
        BY <3>2 DEF PartsOf, Symmetric
      <4>2. "decrypt" \in Generates /\ "decrypt" \in Allowed("secret")
        BY <3>2 DEF Generates, Allowed
      <4> QED
        BY <4>1, <4>2
    <3> QED
      BY <2>1, <3>1, <3>2 DEF Ciphers
  <2> QED
    BY <2>1, <2>2, OwnKeys
<1>2. ASSUME NEW s \in signed PROVE \E k \in keyRing : k.id = s.id /\ "verify" \in k.usages
  <2>1. s.id \in 1..pairs /\ algorithm \in {"HMAC", "ECDSA", "RSA-PSS"}
    BY DEF VaultInv, SignedInv
  <2>2. \E part \in PartsOf : "verify" \in Generates \cap Allowed(part)
    <3>1. CASE algorithm \in {"ECDSA", "RSA-PSS"}
      <4>1. "public" \in PartsOf
        BY <3>1 DEF PartsOf, Symmetric
      <4>2. "verify" \in Generates /\ "verify" \in Allowed("public")
        BY <3>1 DEF Generates, Allowed
      <4> QED
        BY <4>1, <4>2
    <3>2. CASE algorithm = "HMAC"
      <4>1. "secret" \in PartsOf
        BY <3>2 DEF PartsOf, Symmetric
      <4>2. "verify" \in Generates /\ "verify" \in Allowed("secret")
        BY <3>2 DEF Generates, Allowed
      <4> QED
        BY <4>1, <4>2
    <3> QED
      BY <2>1, <3>1, <3>2
  <2> QED
    BY <2>1, <2>2, OwnKeys
<1>3. \A s, t \in sealed : s.iv = t.iv => s = t
  BY DEF VaultInv, SealedInv
<1> QED
  BY <1>1, <1>2, <1>3, OpensItsOwn, VerifiesItsOwn DEF VaultSound

LEMMA SecretsAreShared == VaultInv => SecretsShared
<1> SUFFICES ASSUME VaultInv, algorithm = "ECDH",
                    NEW a \in keyRing, NEW c \in keyRing, a.part = "private", c.part = "private",
                    NEW b \in keyRing, NEW d \in keyRing
             PROVE  DeriveBits(a, b, 1).ok /\ (DeriveBits(a, b, 1) = DeriveBits(c, d, 1) <=> {a.id, b.id} = {c.id, d.id})
  BY SMTT(30) DEF SecretsShared
<1>1. ASSUME NEW x \in keyRing, x.part = "private" PROVE "deriveBits" \in x.usages /\ x.algorithm = "ECDH"
  <2>1. x.usages \in UsagesOf("private") /\ x.algorithm = "ECDH"
    BY <1>1, KeyIsMade
  <2>2. "deriveBits" \in Allowed("private") /\ "deriveBits" \in Generates
    BY DEF Allowed, Generates
  <2> QED
    BY <2>1, <2>2 DEF UsagesOf
<1>2. ASSUME NEW x \in keyRing, x.part = "private", NEW y \in keyRing
      PROVE  DeriveBits(x, y, 1) = [ok |-> TRUE, value |-> [ids |-> {x.id, y.id}, bits |-> 1]]
  <2>1. Usable([name |-> "ECDH", public |-> y], x, "deriveBits")
    BY <1>1, <1>2 DEF Usable
  <2>2. SubtleDerive([name |-> "ECDH", public |-> y], x, 1) = {[ids |-> {x.id, y.id}, bits |-> 1]}
    BY <2>1 DEF SubtleDerive
  <2> QED
    BY <2>2, TaskOfOne DEF DeriveBits
<1>3. PICK S, T : S = {a.id, b.id} /\ T = {c.id, d.id}
  OBVIOUS
<1>4. /\ DeriveBits(a, b, 1) = [ok |-> TRUE, value |-> [ids |-> S, bits |-> 1]]
      /\ DeriveBits(c, d, 1) = [ok |-> TRUE, value |-> [ids |-> T, bits |-> 1]]
  BY <1>2, <1>3
<1>5. DeriveBits(a, b, 1).ok /\ DeriveBits(a, b, 1).value.ids = S /\ DeriveBits(c, d, 1).value.ids = T
  BY <1>4
<1>6. DeriveBits(a, b, 1) = DeriveBits(c, d, 1) <=> S = T
  BY <1>4, <1>5
<1> QED
  BY <1>3, <1>5, <1>6

LEMMA KeysComeBack == VaultInv => KeysReturn
<1> SUFFICES ASSUME VaultInv, NEW k \in keyRing, NEW format \in FormatsOf(k.part)
             PROVE  LET out == ExportKey(format, k)
                    IN  /\ out.ok = k.extractable /\ WrapKey(format, k, Wrapper).ok = k.extractable
                        /\ out.ok /\ (k.usages # {} \/ k.part = "public") =>
                             ImportKey(format, out.value, k.usages) = [ok |-> TRUE, value |-> k]
  BY DEF KeysReturn
<1> DEFINE m == [format |-> format, part |-> k.part, id |-> k.id]
<1>1. /\ k.part \in PartsOf /\ k.usages \in UsagesOf(k.part) /\ k.extractable \in BOOLEAN
      /\ k.usages # {} \/ k.part = "public"
      /\ k = Key(k.part, k.id, k.usages, k.extractable)
  BY KeyIsMade
<1>2. CASE ~k.extractable
  <2>1. SubtleExport(format, k) = {}
    BY <1>2 DEF SubtleExport
  <2>2. ExportKey(format, k) = Err /\ WrapKey(format, k, Wrapper) = Err
    BY <2>1, TaskOfNone DEF ExportKey, WrapKey
  <2>3. Err.ok = FALSE
    BY DEF Err
  <2> QED
    BY <1>1, <1>2, <2>2, <2>3
<1>3. CASE k.extractable
  <2>1. SubtleExport(format, k) = {m}
    BY <1>3 DEF SubtleExport
  <2>2. ExportKey(format, k) = [ok |-> TRUE, value |-> m]
    BY <2>1, TaskOfOne DEF ExportKey
  <2>3. WrapKey(format, k, Wrapper) = [ok |-> TRUE, value |-> [key |-> m, by |-> Wrapper.id]]
    <3>1. {[key |-> x, by |-> Wrapper.id] : x \in SubtleExport(format, k)} = {[key |-> m, by |-> Wrapper.id]}
      BY <2>1
    <3>2. "wrapKey" \in Wrapper.usages
      BY DEF Wrapper
    <3> QED
      BY <3>1, <3>2, TaskOfOne DEF WrapKey
  <2>4. m.format = format /\ m.part = k.part /\ m.id = k.id
    OBVIOUS
  <2> HIDE DEF m
  <2>5. k.usages \subseteq Allowed(k.part)
    BY <1>1, UsagesFit DEF VaultInv, VaultTypeOK
  <2>6. PICK e : e = (k.part = "public" \/ TRUE)
    OBVIOUS
  <2>7. SubtleImport(format, m, TRUE, k.usages) = {Key(k.part, k.id, k.usages, e)}
    BY <1>1, <2>4, <2>5, <2>6 DEF SubtleImport
  <2>8. Key(k.part, k.id, k.usages, e) = k
    BY <1>1, <1>3, <2>6
  <2>9. ImportKey(format, m, k.usages) = [ok |-> TRUE, value |-> k]
    BY <2>7, <2>8, TaskOfOne DEF ImportKey
  <2> QED
    BY <1>1, <1>3, <2>2, <2>3, <2>9
<1> QED
  BY <1>2, <1>3

LEMMA VaultKeeps == VaultInv => KeysSound
BY VaultIsSound, SecretsAreShared, KeysComeBack DEF KeysSound

-----------------------------------------------------------------------------
(* randomInt. *)

Digit == 0..ByteSize - 1

\* The number that n digits are, with all those of fewer of them.
Reads(v, base, digits, n) ==
  /\ v[0] = base
  /\ \A i \in 1..n : v[i] = v[i - 1] * ByteSize + digits[i]

\* There is such a function.
Reading(base, digits, n, v) == [i \in 0..n |-> IF i = 0 THEN base ELSE v[i - 1] * ByteSize + digits[i]]

LEMMA ReadingExists ==
  ASSUME NEW base, NEW digits
  PROVE  \A n \in Nat : \E v : v = Reading(base, digits, n, v)
<1> DEFINE F(n, v) == [i \in 0..n |-> IF i = 0 THEN base ELSE v[i - 1] * ByteSize + digits[i]]
           P == {n \in Nat : \E v : v = F(n, v)}
<1>1. 0 \in P
  <2> DEFINE v == [i \in 0..0 |-> base]
  <2>1. v = F(0, v)
    OBVIOUS
  <2> HIDE DEF v
  <2> QED
    BY <2>1
<1>2. ASSUME NEW n \in Nat, n \in P PROVE n + 1 \in P
  <2>1. PICK v : v = F(n, v)
    BY <1>2
  <2> DEFINE w == [i \in 0..n + 1 |-> IF i = n + 1 THEN v[n] * ByteSize + digits[n + 1] ELSE v[i]]
  <2>2. v[0] = base /\ \A i \in 0..n : i # 0 => v[i] = v[i - 1] * ByteSize + digits[i]
    BY <2>1
  <2>3. /\ \A i \in 0..n : w[i] = v[i]
        /\ w[n + 1] = v[n] * ByteSize + digits[n + 1]
    OBVIOUS
  <2>4. w = [i \in 0..n + 1 |-> w[i]]
    OBVIOUS
  <2> HIDE DEF w
  <2>5. ASSUME NEW i \in 0..n + 1 PROVE w[i] = IF i = 0 THEN base ELSE w[i - 1] * ByteSize + digits[i]
    <3>1. CASE i = n + 1
      <4>1. i - 1 = n /\ n \in 0..n
        BY <3>1
      <4> QED
        BY <2>3, <3>1, <4>1
    <3>2. CASE i # n + 1
      <4>1. i \in 0..n /\ (i # 0 => i - 1 \in 0..n)
        BY <3>2
      <4> QED
        BY <2>2, <2>3, <4>1
    <3> QED
      BY <3>1, <3>2
  <2>6. w = F(n + 1, w)
    BY <2>4, <2>5
  <2> QED
    BY <2>6
<1>3. \A n \in Nat : n \in P
  <2> HIDE DEF P
  <2> QED
    BY <1>1, <1>2, NatSetInduction
<1> QED
  BY <1>3 DEF Reading

\* Powers are positive and grow.
LEMMA PowerSteps ==
  /\ Power[0] = 1
  /\ \A n \in 1..MaxRange : Power[n] = Power[n - 1] * ByteSize
  /\ \A n \in 0..MaxRange : Power[n] \in Nat /\ Power[n] >= n + 1
<1> USE CryptoAssumption
<1>0. MaxRange \in Nat /\ ByteSize \in Nat /\ ByteSize >= 2
  OBVIOUS
<1> DEFINE F(p) == [n \in 0..MaxRange |-> IF n = 0 THEN 1 ELSE p[n - 1] * ByteSize]
           zeros == [i \in Nat |-> 0]
<1>1. \E p : p = F(p)
  <2> HIDE DEF zeros
  <2>1. PICK v : v = [i \in 0..MaxRange |-> IF i = 0 THEN 1 ELSE v[i - 1] * ByteSize + zeros[i]]
    <3>1. PICK v : v = Reading(1, zeros, MaxRange, v)
      BY <1>0, ReadingExists
    <3> QED
      BY <3>1 DEF Reading
  <2>0. \A i \in 0..MaxRange : zeros[i] = 0
    BY <1>0 DEF zeros
  <2>2. v[0] = 1 /\ \A i \in 0..MaxRange : i # 0 => v[i] = v[i - 1] * ByteSize + 0
    BY <2>0, <2>1, <1>0
  <2> DEFINE P == {n \in Nat : n <= MaxRange => v[n] \in Nat}
  <2>3. 0 \in P
    BY <2>2
  <2>4. ASSUME NEW n \in Nat, n \in P PROVE n + 1 \in P
    <3> SUFFICES ASSUME n + 1 <= MaxRange PROVE v[n + 1] \in Nat
      OBVIOUS
    <3>1. v[n] \in Nat /\ n + 1 \in 0..MaxRange /\ n + 1 # 0 /\ (n + 1) - 1 = n
      BY <2>4, <1>0
    <3>2. v[n + 1] = v[n] * ByteSize + 0
      BY <2>2, <3>1
    <3> QED
      BY <3>1, <3>2, <1>0
  <2>5. \A n \in Nat : n \in P
    <3> HIDE DEF P
    <3> QED
      BY <2>3, <2>4, NatSetInduction
  <2>6. \A i \in 0..MaxRange : i # 0 => v[i] = v[i - 1] * ByteSize
    <3> TAKE i \in 0..MaxRange
    <3> HAVE i # 0
    <3>1. i - 1 \in Nat /\ i - 1 <= MaxRange
      BY <1>0
    <3>2. v[i - 1] \in Nat
      BY <2>5, <3>1
    <3> QED
      BY <2>2, <3>2, <1>0
  <2>7. v = [i \in 0..MaxRange |-> v[i]]
    BY <2>1
  <2>8. v = F(v)
    BY <2>2, <2>6, <2>7
  <2> QED
    BY <2>8
<1>2. Power = CHOOSE p : p = F(p)
  BY DEF Power
<1> HIDE DEF F
<1>3. Power = F(Power)
  BY <1>1, <1>2
<1>4. Power[0] = 1 /\ \A n \in 1..MaxRange : Power[n] = Power[n - 1] * ByteSize
  BY <1>3, <1>0 DEF F
<1> DEFINE Q == {n \in Nat : n <= MaxRange => Power[n] \in Nat /\ Power[n] >= n + 1}
<1>5. 0 \in Q
  BY <1>4
<1>6. ASSUME NEW n \in Nat, n \in Q PROVE n + 1 \in Q
  <2> SUFFICES ASSUME n + 1 <= MaxRange PROVE Power[n + 1] \in Nat /\ Power[n + 1] >= n + 2
    OBVIOUS
  <2>1. Power[n] \in Nat /\ Power[n] >= n + 1 /\ n + 1 \in 1..MaxRange /\ (n + 1) - 1 = n
    BY <1>6, <1>0
  <2>2. Power[n + 1] = Power[n] * ByteSize
    BY <1>4, <2>1
  <2>3. Power[n] * 2 <= Power[n] * ByteSize
    BY <2>1, <1>0
  <2> QED
    BY <2>1, <2>2, <2>3, <1>0
<1>7. \A n \in Nat : n \in Q
  <2> HIDE DEF Q
  <2> QED
    BY <1>5, <1>6, NatSetInduction
<1> QED
  BY <1>4, <1>7, <1>0

\* The number without the rounding.
ExactValue(n, digits) ==
  LET value[i \in 0..n] == IF i = 0 THEN 0 ELSE value[i - 1] * ByteSize + digits[i] IN value[n]

LEMMA ValueReads ==
  ASSUME NEW n \in Nat, NEW digits
  PROVE  \E v : Reads(v, 0, digits, n) /\ ExactValue(n, digits) = v[n]
<1> DEFINE F(v) == [i \in 0..n |-> IF i = 0 THEN 0 ELSE v[i - 1] * ByteSize + digits[i]]
           value == CHOOSE v : v = F(v)
<1>1. \E v : v = F(v)
  <2>1. \E v : v = Reading(0, digits, n, v)
    BY ReadingExists
  <2> QED
    BY <2>1 DEF Reading
<1>2. ExactValue(n, digits) = value[n]
  BY DEF ExactValue
<1> HIDE DEF F
<1>3. value = F(value)
  BY <1>1
<1> HIDE DEF value
<1>4. Reads(value, 0, digits, n)
  BY <1>3 DEF F, Reads
<1> QED
  BY <1>2, <1>4

\* n digits are a number below the power of n, and those of an initial part are below its power.
LEMMA ReadsRange ==
  ASSUME NEW n \in 0..MaxRange, NEW digits, \A i \in 1..n : digits[i] \in Digit, NEW v, Reads(v, 0, digits, n)
  PROVE  \A i \in 0..n : v[i] \in 0..Power[i] - 1
<1> USE CryptoAssumption
<1>0. MaxRange \in Nat /\ n \in Nat /\ ByteSize \in Nat /\ ByteSize >= 2
  OBVIOUS
<1> DEFINE P == {i \in Nat : i <= n => v[i] \in 0..Power[i] - 1}
<1>1. 0 \in P
  BY PowerSteps DEF Reads
<1>2. ASSUME NEW i \in Nat, i \in P PROVE i + 1 \in P
  <2> SUFFICES ASSUME i + 1 <= n PROVE v[i + 1] \in 0..Power[i + 1] - 1
    OBVIOUS
  <2>1. i + 1 \in 1..n /\ i + 1 \in 1..MaxRange /\ i \in 0..MaxRange /\ (i + 1) - 1 = i
    BY <1>0
  <2>2. v[i] \in 0..Power[i] - 1 /\ digits[i + 1] \in 0..ByteSize - 1
    BY <1>2, <2>1 DEF Digit
  <2>3. v[i + 1] = v[i] * ByteSize + digits[i + 1]
    BY <2>1 DEF Reads
  <2>4. Power[i] \in Nat /\ Power[i + 1] = Power[i] * ByteSize
    BY <2>1, PowerSteps
  <2>5. v[i] * ByteSize <= (Power[i] - 1) * ByteSize
    BY <2>2, <2>4, <1>0, TimesMonotone
  <2>6. (Power[i] - 1) * ByteSize = Power[i] * ByteSize - ByteSize
    BY <2>4, <1>0
  <2>7. v[i] * ByteSize >= 0 /\ v[i] * ByteSize \in Int /\ Power[i] * ByteSize \in Int
    BY <2>2, <2>4, <1>0
  <2> QED
    BY <2>2, <2>3, <2>4, <2>5, <2>6, <2>7, <1>0
<1>3. \A i \in Nat : i \in P
  <2> HIDE DEF P
  <2> QED
    BY <1>1, <1>2, NatSetInduction
<1> QED
  BY <1>0, <1>3

\* Two lists of digits that are the same number are the same, as are their numbers on the way.
LEMMA ReadsTell ==
  ASSUME NEW n \in 0..MaxRange, NEW c, NEW d, \A i \in 1..n : c[i] \in Digit /\ d[i] \in Digit,
         NEW v, Reads(v, 0, c, n), NEW w, Reads(w, 0, d, n), v[n] = w[n]
  PROVE  \A j \in 1..n : c[j] = d[j]
<1> USE CryptoAssumption
<1>0. MaxRange \in Nat /\ n \in Nat /\ ByteSize \in Nat \ {0}
  OBVIOUS
<1>1. /\ \A i \in 0..n : v[i] \in 0..Power[i] - 1
      /\ \A i \in 0..n : w[i] \in 0..Power[i] - 1
  BY ReadsRange
<1> DEFINE P == {i \in Nat : i <= n /\ v[i] = w[i] => \A j \in 1..i : c[j] = d[j]}
<1>2. 0 \in P
  OBVIOUS
<1>3. ASSUME NEW i \in Nat, i \in P PROVE i + 1 \in P
  <2> SUFFICES ASSUME i + 1 <= n, v[i + 1] = w[i + 1] PROVE \A j \in 1..i + 1 : c[j] = d[j]
    OBVIOUS
  <2>1. i + 1 \in 1..n /\ i \in 0..n /\ (i + 1) - 1 = i
    BY <1>0
  <2>2. v[i] \in Int /\ w[i] \in Int /\ c[i + 1] \in 0..ByteSize - 1 /\ d[i + 1] \in 0..ByteSize - 1
    <3>1. Power[i] \in Nat
      BY <2>1, <1>0, PowerSteps
    <3> QED
      BY <1>1, <2>1, <3>1 DEF Digit
  <2>3. v[i] * ByteSize + c[i + 1] = w[i] * ByteSize + d[i + 1]
    BY <2>1 DEF Reads
  <2>4. v[i] = w[i] /\ c[i + 1] = d[i + 1]
    <3>1. PICK a, b, e, f : a = v[i] /\ b = w[i] /\ e = c[i + 1] /\ f = d[i + 1]
      OBVIOUS
    <3>2. a \in Int /\ b \in Int /\ e \in 0..ByteSize - 1 /\ f \in 0..ByteSize - 1 /\ a * ByteSize + e = b * ByteSize + f
      BY <2>2, <2>3, <3>1
    <3>3. a = b /\ e = f
      BY <3>2, <1>0, DivUnique
    <3> QED
      BY <3>1, <3>3
  <2>5. \A j \in 1..i : c[j] = d[j]
    BY <1>3, <2>1, <2>4
  <2> QED
    BY <2>4, <2>5
<1>4. \A i \in Nat : i \in P
  <2> HIDE DEF P
  <2> QED
    BY <1>2, <1>3, NatSetInduction
<1> QED
  BY <1>0, <1>4

\* Numbers read from the same digits are the same.
LEMMA ReadsSame ==
  ASSUME NEW n \in Nat, NEW c, NEW d, \A i \in 1..n : c[i] = d[i],
         NEW v, Reads(v, 0, c, n), NEW w, Reads(w, 0, d, n)
  PROVE  v[n] = w[n]
<1> DEFINE P == {i \in Nat : i <= n => v[i] = w[i]}
<1>1. 0 \in P
  BY DEF Reads
<1>2. ASSUME NEW i \in Nat, i \in P PROVE i + 1 \in P
  <2> SUFFICES ASSUME i + 1 <= n PROVE v[i + 1] = w[i + 1]
    OBVIOUS
  <2>1. i + 1 \in 1..n /\ (i + 1) - 1 = i
    OBVIOUS
  <2> QED
    BY <1>2, <2>1 DEF Reads
<1>3. \A i \in Nat : i \in P
  <2> HIDE DEF P
  <2> QED
    BY <1>1, <1>2, NatSetInduction
<1> QED
  BY <1>3

\* Every number below the power of n is that of n digits.
LEMMA ReadsAll ==
  \A n \in 0..MaxRange : \A x \in 0..Power[n] - 1 : \E digits \in [1..n -> Digit] : ExactValue(n, digits) = x
<1> USE CryptoAssumption
<1>0. MaxRange \in Nat /\ ByteSize \in Nat \ {0}
  OBVIOUS
<1> DEFINE P == {n \in Nat : n <= MaxRange => \A x \in 0..Power[n] - 1 : \E digits \in [1..n -> Digit] : ExactValue(n, digits) = x}
<1>1. 0 \in P
  <2> SUFFICES ASSUME NEW x \in 0..Power[0] - 1 PROVE \E digits \in [1..0 -> Digit] : ExactValue(0, digits) = x
    OBVIOUS
  <2>1. x = 0
    BY PowerSteps
  <2> DEFINE none == [i \in 1..0 |-> 0]
  <2>2. none \in [1..0 -> Digit]
    OBVIOUS
  <2>3. ExactValue(0, none) = 0
    BY ValueReads DEF Reads
  <2> QED
    BY <2>1, <2>2, <2>3
<1>2. ASSUME NEW n \in Nat, n \in P PROVE n + 1 \in P
  <2> SUFFICES ASSUME n + 1 <= MaxRange, NEW x \in 0..Power[n + 1] - 1
               PROVE  \E digits \in [1..n + 1 -> Digit] : ExactValue(n + 1, digits) = x
    OBVIOUS
  <2>1. n \in 0..MaxRange /\ n + 1 \in 1..MaxRange /\ (n + 1) - 1 = n
    BY <1>0
  <2>2. Power[n] \in Nat /\ Power[n + 1] = Power[n] * ByteSize
    BY <2>1, PowerSteps
  <2>3. PICK q, r : q = x \div ByteSize /\ r = x % ByteSize
    OBVIOUS
  <2>4. x \in Nat /\ x < Power[n] * ByteSize
    BY <2>2, <1>0
  <2>5. q \in Nat /\ r \in 0..ByteSize - 1 /\ x = q * ByteSize + r
    <3>1. x \in Int /\ ByteSize \in Nat \ {0}
      BY <2>4, <1>0
    <3>2. x % ByteSize \in 0..ByteSize - 1 /\ x = (x \div ByteSize) * ByteSize + (x % ByteSize)
      BY <3>1, DivMod
    <3>3. x \div ByteSize \in Nat
      BY <2>4, <3>1, DivNat
    <3> QED
      BY <2>3, <3>2, <3>3
  <2>6. q < Power[n]
    <3> SUFFICES ASSUME Power[n] <= q PROVE FALSE
      BY <2>2, <2>5
    <3>1. Power[n] * ByteSize <= q * ByteSize
      BY <2>2, <2>5, <1>0, TimesMonotone
    <3>2. Power[n] * ByteSize \in Int /\ q * ByteSize \in Int
      BY <2>2, <2>5, <1>0
    <3> QED
      BY <2>4, <2>5, <3>1, <3>2
  <2>7. PICK digits \in [1..n -> Digit] : ExactValue(n, digits) = q
    BY <1>2, <2>1, <2>2, <2>5, <2>6
  <2> DEFINE more == [i \in 1..n + 1 |-> IF i = n + 1 THEN r ELSE digits[i]]
  <2>8. more \in [1..n + 1 -> Digit] /\ more[n + 1] = r /\ \A i \in 1..n : more[i] = digits[i]
    BY <2>5 DEF Digit
  <2> HIDE DEF more
  <2>9. PICK v : Reads(v, 0, digits, n) /\ ExactValue(n, digits) = v[n]
    BY ValueReads
  <2>10. PICK w : Reads(w, 0, more, n + 1) /\ ExactValue(n + 1, more) = w[n + 1]
    BY ValueReads
  <2>11. Reads(w, 0, more, n) /\ w[n + 1] = w[n] * ByteSize + more[n + 1]
    BY <2>10 DEF Reads
  <2>12. w[n] = v[n]
    BY <2>8, <2>9, <2>11, ReadsSame, SMTT(30)
  <2> QED
    BY <2>5, <2>7, <2>8, <2>9, <2>10, <2>11, <2>12
<1>3. \A n \in Nat : n \in P
  <2> HIDE DEF P
  <2> QED
    BY <1>1, <1>2, NatSetInduction
<1> QED
  BY <1>0, <1>3

LEMMA PowersGrow == ASSUME NEW n \in 0..MaxRange PROVE \A i \in 0..n : Power[i] <= Power[n]
<1> USE CryptoAssumption
<1>0. MaxRange \in Nat /\ ByteSize \in Nat /\ ByteSize >= 2
  OBVIOUS
<1> DEFINE P == {m \in Nat : m <= MaxRange => \A i \in 0..m : Power[i] <= Power[m]}
<1>1. 0 \in P
  BY PowerSteps, <1>0
<1>2. ASSUME NEW m \in Nat, m \in P PROVE m + 1 \in P
  <2> SUFFICES ASSUME m + 1 <= MaxRange, NEW i \in 0..m + 1 PROVE Power[i] <= Power[m + 1]
    OBVIOUS
  <2>1. m \in 0..MaxRange /\ m + 1 \in 1..MaxRange /\ (m + 1) - 1 = m /\ i \in 0..MaxRange /\ m + 1 \in 0..MaxRange
    BY <1>0
  <2>2. Power[m] \in Nat /\ Power[i] \in Nat /\ Power[m + 1] \in Nat /\ Power[m + 1] = Power[m] * ByteSize
    BY <2>1, PowerSteps
  <2>3. Power[m] * 2 <= Power[m] * ByteSize
    BY <2>2, <1>0
  <2>4. i # m + 1 => Power[i] <= Power[m]
    BY <1>2, <2>1
  <2> QED
    BY <2>2, <2>3, <2>4
<1>3. \A m \in Nat : m \in P
  <2> HIDE DEF P
  <2> QED
    BY <1>1, <1>2, NatSetInduction
<1> QED
  BY <1>0, <1>3

\* Where the power of n is exact, no digit is rounded.
LEMMA ValueIsExact ==
  ASSUME NEW n \in 0..MaxRange, Power[n] <= ExactBelow, NEW digits, \A i \in 1..n : digits[i] \in Digit
  PROVE  ValueOf(n, digits) = ExactValue(n, digits)
<1> USE CryptoAssumption
<1>0. MaxRange \in Nat /\ n \in Nat /\ ByteSize \in Nat /\ ExactBelow \in Nat
  OBVIOUS
<1> DEFINE G(v) == [i \in 0..n |-> IF i = 0 THEN 0 ELSE Rounded(v[i - 1] * ByteSize + digits[i])]
           value == CHOOSE v : v = G(v)
<1>1. PICK w : Reads(w, 0, digits, n) /\ ExactValue(n, digits) = w[n]
  BY <1>0, ValueReads
<1>2. \A i \in 0..n : w[i] \in Nat /\ w[i] <= ExactBelow
  <2> TAKE i \in 0..n
  <2>1. w[i] \in 0..Power[i] - 1
    BY <1>1, ReadsRange
  <2>2. Power[i] <= Power[n] /\ Power[i] \in Nat /\ Power[n] \in Nat
    BY <1>0, PowersGrow, PowerSteps
  <2> QED
    BY <1>0, <2>1, <2>2
<1>3. \A i \in 1..n : Rounded(w[i - 1] * ByteSize + digits[i]) = w[i]
  <2> TAKE i \in 1..n
  <2>1. w[i] = w[i - 1] * ByteSize + digits[i] /\ w[i] <= ExactBelow
    BY <1>1, <1>2 DEF Reads
  <2> QED
    BY <2>1 DEF Rounded
<1> DEFINE exact == [i \in 0..n |-> w[i]]
<1>4. exact = G(exact)
  <2>1. \A i \in 0..n : exact[i] = w[i] /\ (i # 0 => i - 1 \in 0..n /\ i \in 1..n)
    OBVIOUS
  <2>2. exact[0] = 0
    BY <1>1, <2>1, <1>0 DEF Reads
  <2>3. \A i \in 0..n : exact[i] = IF i = 0 THEN 0 ELSE Rounded(exact[i - 1] * ByteSize + digits[i])
    BY <1>3, <2>1, <2>2
  <2>4. exact = [i \in 0..n |-> exact[i]]
    OBVIOUS
  <2> HIDE DEF exact
  <2> QED
    BY <2>3, <2>4
<1>5. ValueOf(n, digits) = value[n]
  BY DEF ValueOf
<1> HIDE DEF G, exact
<1>6. value = G(value)
  BY <1>4
<1> HIDE DEF value
<1>7. /\ value[0] = 0
      /\ \A i \in 1..n : value[i] = Rounded(value[i - 1] * ByteSize + digits[i])
  BY <1>0, <1>6 DEF G
<1> DEFINE P == {i \in Nat : i <= n => value[i] = w[i]}
<1>8. 0 \in P
  BY <1>1, <1>7 DEF Reads
<1>9. ASSUME NEW i \in Nat, i \in P PROVE i + 1 \in P
  <2> SUFFICES ASSUME i + 1 <= n PROVE value[i + 1] = w[i + 1]
    OBVIOUS
  <2>1. i + 1 \in 1..n /\ (i + 1) - 1 = i
    BY <1>0
  <2> QED
    BY <1>3, <1>7, <1>9, <2>1
<1>10. \A i \in Nat : i \in P
  <2> HIDE DEF P
  <2> QED
    BY <1>8, <1>9, NatSetInduction
<1> QED
  BY <1>0, <1>1, <1>5, <1>10

\* So as many draws are one of some numbers as there are such numbers.
LEMMA CountDraws ==
  ASSUME NEW n \in 0..MaxRange, NEW T \in SUBSET (0..Power[n] - 1)
  PROVE  Cardinality({bytes \in [1..n -> Digit] : ExactValue(n, bytes) \in T}) = Cardinality(T)
<1> DEFINE S == {bytes \in [1..n -> Digit] : ExactValue(n, bytes) \in T}
           F == [bytes \in S |-> ExactValue(n, bytes)]
<1>0. n \in Nat /\ Power[n] \in Nat
  BY PowerSteps, CryptoAssumption
<1>1. F \in [S -> T] /\ \A b \in S : F[b] = ExactValue(n, b)
  OBVIOUS
<1>2. ASSUME NEW b \in S, NEW c \in S, F[b] = F[c] PROVE b = c
  <2>1. b \in [1..n -> Digit] /\ c \in [1..n -> Digit] /\ ExactValue(n, b) = ExactValue(n, c)
    BY <1>1, <1>2
  <2>2. PICK v : Reads(v, 0, b, n) /\ ExactValue(n, b) = v[n]
    BY <1>0, ValueReads
  <2>3. PICK w : Reads(w, 0, c, n) /\ ExactValue(n, c) = w[n]
    BY <1>0, ValueReads
  <2>4. \A i \in 1..n : b[i] \in Digit /\ c[i] \in Digit
    BY <2>1
  <2>5. v[n] = w[n]
    BY <2>1, <2>2, <2>3
  <2>6. \A i \in 1..n : b[i] = c[i]
    BY <2>2, <2>3, <2>4, <2>5, ReadsTell
  <2> QED
    BY <2>1, <2>6
<1>3. ASSUME NEW t \in T PROVE \E b \in S : F[b] = t
  <2>1. t \in 0..Power[n] - 1
    OBVIOUS
  <2>2. PICK b \in [1..n -> Digit] : ExactValue(n, b) = t
    BY <2>1, ReadsAll
  <2> QED
    BY <1>1, <2>2
<1>4. IsFiniteSet(T)
  <2>1. IsFiniteSet(0..Power[n] - 1)
    BY <1>0, FS_Interval, SMTT(30)
  <2> QED
    BY <2>1, FS_Subset
<1> HIDE DEF S, F
<1>5. F \in Bijection(S, T)
  BY <1>1, <1>2, <1>3, Fun_IsBij
<1>6. ExistsBijection(T, S)
  BY <1>5, Fun_ExistsBijSymmetric DEF ExistsBijection
<1>7. Cardinality(S) = Cardinality(T)
  BY <1>4, <1>6, FS_Bijection
<1> QED
  BY <1>7 DEF S

\* Of the first q times range numbers each remainder has q.
LEMMA CountRemainders ==
  ASSUME NEW range \in Nat \ {0}, NEW q \in Nat, NEW r \in 0..range - 1
  PROVE  Cardinality({x \in 0..q * range - 1 : x % range = r}) = q
<1> DEFINE T == {x \in 0..q * range - 1 : x % range = r}
           F == [k \in 0..q - 1 |-> k * range + r]
<1>0. q * range \in Nat
  OBVIOUS
<1>1. ASSUME NEW k \in 0..q - 1 PROVE k * range + r \in T
  <2>1. k \in Int /\ k + 1 <= q /\ k * range \in Int
    OBVIOUS
  <2>2. (k + 1) * range <= q * range
    BY <2>1, TimesMonotone
  <2>3. (k + 1) * range = k * range + range
    BY <2>1
  <2>4. k * range >= 0
    OBVIOUS
  <2>5. k * range + r \in 0..q * range - 1
    BY <1>0, <2>1, <2>2, <2>3, <2>4
  <2>6. (k * range + r) % range = r
    <3>1. PICK d \in Int : d = k * range + r
      BY <2>1
    <3>2. d % range = r
      BY <2>1, <3>1, DivIs
    <3> QED
      BY <3>1, <3>2
  <2> QED
    BY <2>5, <2>6
<1>2. F \in [0..q - 1 -> T]
  BY <1>1
<1>3. ASSUME NEW j \in 0..q - 1, NEW k \in 0..q - 1, F[j] = F[k] PROVE j = k
  <2>1. j * range + r = k * range + r
    BY <1>3
  <2> QED
    BY <2>1, DivUnique
<1>4. ASSUME NEW t \in T PROVE \E k \in 0..q - 1 : F[k] = t
  <2>1. t \in Nat /\ t < q * range /\ t % range = r
    BY <1>0
  <2>2. PICK k : k = t \div range
    OBVIOUS
  <2>3. k \in Nat /\ t = k * range + r
    BY <2>1, <2>2, DivMod, DivNat
  <2>4. k < q
    <3> SUFFICES ASSUME q <= k PROVE FALSE
      BY <2>3
    <3>1. q * range <= k * range
      BY <2>3, TimesMonotone
    <3> QED
      BY <1>0, <2>1, <2>3, <3>1
  <2> QED
    BY <2>3, <2>4
<1>5. IsFiniteSet(0..q - 1) /\ Cardinality(0..q - 1) = q
  BY FS_Interval
<1> HIDE DEF T, F
<1>6. F \in Bijection(0..q - 1, T)
  BY <1>2, <1>3, <1>4, Fun_IsBij
<1>7. Cardinality(T) = q
  BY <1>5, <1>6, FS_Bijection DEF ExistsBijection
<1> QED
  BY <1>7 DEF T

\* There are bytes enough for a range, and the limit is its greatest multiple among their numbers.
LEMMA LimitIs ==
  ASSUME NEW range \in 1..MaxRange, Power[BytesNeeded(range)] <= ExactBelow
  PROVE  LET n == BytesNeeded(range)
         IN  /\ n \in 1..MaxRange
             /\ \E q \in Nat, r \in 0..range - 1 :
                  q >= 1 /\ Limit(range) = q * range /\ Power[n] = q * range + r
<1> USE CryptoAssumption
<1>0. MaxRange \in Nat /\ MaxRange >= 1 /\ range \in Nat \ {0} /\ range <= MaxRange
  OBVIOUS
<1> DEFINE Enough == {n \in 1..MaxRange : Power[n] >= range}
           n == BytesNeeded(range)
<1>1. Enough \in SUBSET Nat /\ MaxRange \in Enough
  BY <1>0, PowerSteps
<1>2. PICK least \in Enough : \A m \in Enough : least <= m
  <2> HIDE DEF Enough
  <2> QED
    BY <1>1, LeastExists
<1>3. \A m \in 1..least - 1 : Power[m] < range
  <2> TAKE m \in 1..least - 1
  <2>1. m \in 1..MaxRange /\ ~(least <= m)
    BY <1>1, <1>2
  <2>2. m \notin Enough
    BY <1>2, <2>1
  <2>3. Power[m] \in Nat
    BY <2>1, <1>0, PowerSteps
  <2> QED
    BY <2>1, <2>2, <2>3, <1>0
<1>4. n \in 1..MaxRange /\ Power[n] >= range
  <2>1. \E k \in 1..MaxRange : Power[k] >= range /\ \A m \in 1..k - 1 : Power[m] < range
    BY <1>2, <1>3
  <2> QED
    BY <2>1 DEF BytesNeeded
<1>5. Limit(range) = Rounded(Power[n] - (Power[n] % range)) /\ Power[n] <= ExactBelow
  BY DEF Limit
<1> HIDE DEF n
<1>6. PICK p : p = Power[n]
  OBVIOUS
<1>7. p \in Nat /\ p >= range
  BY <1>0, <1>4, <1>6, PowerSteps
<1>8. PICK q, r : q = p \div range /\ r = p % range
  OBVIOUS
<1>9. r \in 0..range - 1 /\ p = q * range + r /\ q \in Nat
  <2>1. p % range \in 0..range - 1 /\ p = (p \div range) * range + (p % range)
    BY <1>0, <1>7, DivMod
  <2>2. p \div range \in Nat
    BY <1>0, <1>7, DivNat
  <2> QED
    BY <1>8, <2>1, <2>2
<1>10. q >= 1
  <2> SUFFICES ASSUME q = 0 PROVE FALSE
    BY <1>9
  <2> QED
    BY <1>0, <1>7, <1>9
<1>11. Limit(range) = q * range
  <2>1. q * range \in Int
    BY <1>0, <1>9
  <2>2. p - r = q * range /\ p - r <= ExactBelow
    BY <1>0, <1>5, <1>6, <1>7, <1>9, <2>1
  <2>3. Limit(range) = Rounded(p - r)
    BY <1>5, <1>6, <1>8
  <2> QED
    BY <2>2, <2>3 DEF Rounded
<1> QED
  BY <1>4, <1>6, <1>9, <1>10, <1>11 DEF n

LEMMA RestsBelow == ASSUME NEW range \in Nat \ {0} PROVE \A x \in Nat : x % range \in 0..range - 1
BY DivMod

LEMMA RandomIsUniform == RandomUniform
<1> USE CryptoAssumption
<1> SUFFICES ASSUME NEW range \in 1..MaxRange, Power[BytesNeeded(range)] <= ExactBelow
             PROVE  LET draws == [1..BytesNeeded(range) -> 0..ByteSize - 1]
                        of(n) == Cardinality({bytes \in draws : n \in RandomInt(3, 3 + range, bytes)})
                    IN  /\ \A n \in 3..2 + range : of(n) = of(3) /\ of(n) > 0
                        /\ \A bytes \in draws : RandomInt(3, 3 + range, bytes) \subseteq 3..2 + range
                        /\ 2 * range * of(3) > Cardinality(draws)
  BY DEF RandomUniform
<1>0. MaxRange \in Nat /\ range \in Nat \ {0}
  OBVIOUS
<1>rest. \A x \in Nat : x % range \in 0..range - 1
  BY <1>0, RestsBelow
<1> DEFINE N == BytesNeeded(range)
           draws == [1..N -> 0..ByteSize - 1]
           of(n) == Cardinality({bytes \in draws : n \in RandomInt(3, 3 + range, bytes)})
<1>1. N \in 1..MaxRange
  BY LimitIs
<1>2. PICK q \in Nat, r \in 0..range - 1 : q >= 1 /\ Limit(range) = q * range /\ Power[N] = q * range + r
  BY LimitIs
<1>3. N \in 0..MaxRange /\ draws = [1..N -> Digit]
  BY <1>1 DEF Digit
<1>4. (3 + range) - 3 = range
  BY <1>0
<1>below. Power[N] <= ExactBelow
  OBVIOUS
<1> HIDE DEF N
<1>5. q * range \in Nat /\ Power[N] \in Nat
  BY <1>0, <1>2
<1>exact. ASSUME NEW bytes \in draws PROVE ValueOf(N, bytes) = ExactValue(N, bytes)
  <2>1. \A i \in 1..N : bytes[i] \in Digit
    BY <1>3
  <2> QED
    BY <1>3, <1>below, <2>1, ValueIsExact
<1>6. ASSUME NEW bytes \in draws PROVE ExactValue(N, bytes) \in 0..Power[N] - 1
  <2>1. bytes \in [1..N -> Digit] /\ \A i \in 1..N : bytes[i] \in Digit
    BY <1>3
  <2>2. PICK v : Reads(v, 0, bytes, N) /\ ExactValue(N, bytes) = v[N]
    BY <1>3, ValueReads
  <2>3. N \in 0..N
    BY <1>3
  <2> QED
    BY <1>3, <2>1, <2>2, <2>3, ReadsRange
<1>7. ASSUME NEW bytes \in draws
      PROVE  RandomInt(3, 3 + range, bytes) =
               IF ExactValue(N, bytes) >= q * range THEN {} ELSE {3 + (ExactValue(N, bytes) % range)}
  <2>1. RandomInt(3, 3 + range, bytes) =
          IF ValueOf(N, bytes) >= q * range THEN {} ELSE {3 + (ValueOf(N, bytes) % range)}
    BY <1>2, <1>4 DEF RandomInt, N
  <2> QED
    BY <1>exact, <2>1
<1>8. ASSUME NEW bytes \in draws PROVE RandomInt(3, 3 + range, bytes) \subseteq 3..2 + range
  <2>1. PICK x : x = ExactValue(N, bytes)
    OBVIOUS
  <2>0. x \in Nat
    BY <1>5, <1>6, <2>1
  <2>2. x % range \in 0..range - 1
    BY <1>rest, <2>0
  <2>3. 3 + (x % range) \in 3..2 + range
    BY <1>0, <2>2
  <2>4. RandomInt(3, 3 + range, bytes) = IF x >= q * range THEN {} ELSE {3 + (x % range)}
    BY <1>7, <2>1
  <2> HIDE DEF draws
  <2> QED
    BY <2>3, <2>4
<1>9. ASSUME NEW n \in 3..2 + range PROVE of(n) = q
  <2> DEFINE T == {x \in 0..q * range - 1 : x % range = n - 3}
  <2>1. n - 3 \in 0..range - 1
    BY <1>0
  <2>2. Cardinality(T) = q
    BY <1>0, <2>1, CountRemainders
  <2>3. T \in SUBSET (0..Power[N] - 1)
    BY <1>0, <1>2, <1>5
  <2>4. ASSUME NEW bytes \in draws PROVE n \in RandomInt(3, 3 + range, bytes) <=> ExactValue(N, bytes) \in T
    <3>1. PICK x : x = ExactValue(N, bytes)
      OBVIOUS
    <3>2. x \in Nat
      BY <1>5, <1>6, <3>1
    <3>3. x % range \in 0..range - 1
      BY <1>rest, <3>2
    <3>4. x \in 0..q * range - 1 <=> ~(x >= q * range)
      BY <1>5, <3>2
    <3>5. n = 3 + (x % range) <=> x % range = n - 3
      BY <3>3
    <3>6. RandomInt(3, 3 + range, bytes) = IF x >= q * range THEN {} ELSE {3 + (x % range)}
      BY <1>7, <3>1
    <3> HIDE DEF draws
    <3>7. x \in T <=> ~(x >= q * range) /\ x % range = n - 3
      BY <3>4
    <3> QED
      BY <3>1, <3>5, <3>6, <3>7
  <2>5. {bytes \in draws : n \in RandomInt(3, 3 + range, bytes)} = {bytes \in [1..N -> Digit] : ExactValue(N, bytes) \in T}
    BY <1>3, <2>4
  <2> HIDE DEF T
  <2>6. Cardinality({bytes \in [1..N -> Digit] : ExactValue(N, bytes) \in T}) = Cardinality(T)
    BY <1>3, <2>3, CountDraws
  <2> QED
    BY <2>2, <2>5, <2>6
<1>10. Cardinality(draws) = Power[N]
  <2> DEFINE T == 0..Power[N] - 1
  <2>0. \A bytes \in draws : ExactValue(N, bytes) \in T
    BY <1>6
  <2>1. draws = {bytes \in [1..N -> Digit] : ExactValue(N, bytes) \in T}
    BY <1>3, <2>0
  <2>2. T \in SUBSET (0..Power[N] - 1)
    OBVIOUS
  <2>3. Cardinality(T) = Power[N]
    <3>1. PICK p \in Nat : p = Power[N]
      BY <1>5
    <3> HIDE DEF T, of, draws
    <3>2. p - 1 \in Int /\ (0 <= p - 1 <=> p # 0) /\ (p - 1) - 0 + 1 = p
      OBVIOUS
    <3>3. Cardinality(0..p - 1) = IF 0 <= p - 1 THEN (p - 1) - 0 + 1 ELSE 0
      BY <3>2, FS_Interval
    <3>4. Cardinality(0..p - 1) = p
      BY <3>2, <3>3
    <3> QED
      BY <3>1, <3>4 DEF T
  <2> HIDE DEF T
  <2>4. Cardinality({bytes \in [1..N -> Digit] : ExactValue(N, bytes) \in T}) = Cardinality(T)
    BY <1>3, <2>2, CountDraws
  <2> QED
    BY <2>1, <2>3, <2>4
<1>11. 2 * range * q > Power[N]
  <2>1. range <= q * range
    <3>1. 1 * range <= q * range
      BY <1>0, <1>2, TimesMonotone
    <3> QED
      BY <1>0, <3>1
  <2>2. 2 * range * q = q * range + q * range
    BY <1>0
  <2> QED
    BY <1>0, <1>2, <1>5, <2>1, <2>2
<1>12. 3 \in 3..2 + range
  BY <1>0
<1> HIDE DEF of, draws
<1>13. /\ \A n \in 3..2 + range : of(n) = of(3) /\ of(n) > 0
       /\ \A bytes \in draws : RandomInt(3, 3 + range, bytes) \subseteq 3..2 + range
       /\ 2 * range * of(3) > Cardinality(draws)
  BY <1>2, <1>8, <1>9, <1>10, <1>11, <1>12
<1> QED
  BY <1>13 DEF of, draws, N

\* For any pairs, uses, formats and extractabilities of keys, in any order of operations: what one
\* key closed its counterpart alone opens, the two sides of a pair share a secret, and a key
\* that may leave comes back the same (createCrypto of crypto.ts); and whatever the size of a byte
\* and the range, as long as the draws are exact numbers, a number of the range is as likely as any
\* other (randomInt).
THEOREM CryptoIsSound == CryptoSpec => []CryptoSound
<1>1. VaultInv => CryptoSound
  BY VaultKeeps, RandomIsUniform DEF CryptoSound
<1> QED
  BY <1>1, CryptoBegins, VaultKept, PTL DEF CryptoSpec

-----------------------------------------------------------------------------
(* The keys of a password. *)

\* The same with the keys as a parameter.
CountIn(s, key, i, j) == Cardinality({n \in i + 1..j : s[n] = key})
StaysIn(s, i) == \A j \in i + 1..Len(s) : CountIn(s, "delete", i, j) <= CountIn(s, "text", i, j)

LEMMA CountFinite ==
  ASSUME NEW s, NEW key, NEW i \in Nat, NEW j \in Nat
  PROVE  IsFiniteSet({n \in i + 1..j : s[n] = key}) /\ CountIn(s, key, i, j) \in Nat
<1> DEFINE S == {n \in i + 1..j : s[n] = key}
<1>1. IsFiniteSet(i + 1..j)
  BY FS_Interval
<1>2. S \in SUBSET (i + 1..j)
  OBVIOUS
<1> HIDE DEF S
<1>3. IsFiniteSet(S)
  BY <1>1, <1>2, FS_Subset
<1>4. Cardinality(S) \in Nat
  BY <1>3, FS_CardinalityType
<1> QED
  BY <1>3, <1>4 DEF S, CountIn

LEMMA CountNone == ASSUME NEW s, NEW key, NEW i \in Nat PROVE CountIn(s, key, i, i) = 0
<1>1. {n \in i + 1..i : s[n] = key} = {}
  OBVIOUS
<1> QED
  BY <1>1, FS_EmptySet DEF CountIn

LEMMA CountNext ==
  ASSUME NEW s, NEW key, NEW i \in Nat, NEW j \in Nat, j >= i
  PROVE  CountIn(s, key, i, j + 1) = CountIn(s, key, i, j) + IF s[j + 1] = key THEN 1 ELSE 0
<1> DEFINE S == {n \in i + 1..j : s[n] = key}
           T == {n \in i + 1..j + 1 : s[n] = key}
<1>1. j + 1 \notin S /\ T = IF s[j + 1] = key THEN S \cup {j + 1} ELSE S
  OBVIOUS
<1>2. IsFiniteSet(S) /\ Cardinality(S) \in Nat
  BY CountFinite DEF CountIn
<1> HIDE DEF S, T
<1>3. Cardinality(T) = Cardinality(S) + IF s[j + 1] = key THEN 1 ELSE 0
  <2>1. Cardinality(S \cup {j + 1}) = Cardinality(S) + 1
    BY <1>1, <1>2, FS_AddElement
  <2>2. CASE s[j + 1] = key
    BY <1>1, <2>1, <2>2
  <2>3. CASE s[j + 1] # key
    <3>1. T = S
      BY <1>1, <2>3
    <3> QED
      BY <1>2, <2>3, <3>1
  <2> QED
    BY <2>2, <2>3
<1> QED
  BY <1>3 DEF S, T, CountIn

\* One more key changes no earlier count.
LEMMA CountAppend ==
  ASSUME NEW s \in Seq(Presses), NEW key, NEW more \in Presses, NEW i \in Nat, NEW j \in 0..Len(s)
  PROVE  CountIn(Append(s, more), key, i, j) = CountIn(s, key, i, j)
<1>1. \A n \in i + 1..j : Append(s, more)[n] = s[n]
  OBVIOUS
<1>2. {n \in i + 1..j : Append(s, more)[n] = key} = {n \in i + 1..j : s[n] = key}
  BY <1>1
<1> QED
  BY <1>2 DEF CountIn

\* The characters so far, whose keys began after start: each is of a key that stays, later ones
\* are of later keys, no other key stays, and it would take as many keys to delete one
\* as there are characters from it on.
Tracks(chars, s, start) ==
  /\ \A m \in DOMAIN chars : /\ chars[m] - start \in 1..Len(s) /\ s[chars[m] - start] = "text"
                             /\ StaysIn(s, chars[m] - start)
                             /\ CountIn(s, "text", chars[m] - start, Len(s)) =
                                  CountIn(s, "delete", chars[m] - start, Len(s)) + (Len(chars) - m)
  /\ \A m, n \in DOMAIN chars : m < n => chars[m] < chars[n]
  /\ \A i \in 1..Len(s) : s[i] = "text" /\ StaysIn(s, i) => \E m \in DOMAIN chars : chars[m] = start + i

LEMMA TracksNothing == ASSUME NEW start \in Nat PROVE Tracks(<<>>, <<>>, start)
BY DEF Tracks

\* What stays with one more key stayed without it.
LEMMA StaysBefore ==
  ASSUME NEW s \in Seq(Presses), NEW more \in Presses, NEW i \in 1..Len(s)
  PROVE  StaysIn(Append(s, more), i) <=>
           /\ StaysIn(s, i)
           /\ CountIn(Append(s, more), "delete", i, Len(s) + 1) <= CountIn(Append(s, more), "text", i, Len(s) + 1)
<1>0. Len(s) \in Nat /\ Len(Append(s, more)) = Len(s) + 1 /\ i \in Nat
  OBVIOUS
<1>1. \A j \in i + 1..Len(s) : /\ CountIn(Append(s, more), "delete", i, j) = CountIn(s, "delete", i, j)
                               /\ CountIn(Append(s, more), "text", i, j) = CountIn(s, "text", i, j)
  BY <1>0, CountAppend
<1>2. \A j \in i + 1..Len(s) + 1 : j \in i + 1..Len(s) \/ j = Len(s) + 1
  BY <1>0
<1>3. i + 1..Len(s) \subseteq i + 1..Len(s) + 1 /\ Len(s) + 1 \in i + 1..Len(s) + 1
  BY <1>0
<1> QED
  BY <1>0, <1>1, <1>2, <1>3 DEF StaysIn

LEMMA CountLast ==
  ASSUME NEW s \in Seq(Presses), NEW more \in Presses, NEW key, NEW i \in 1..Len(s)
  PROVE  CountIn(Append(s, more), key, i, Len(s) + 1) =
           CountIn(s, key, i, Len(s)) + IF more = key THEN 1 ELSE 0
<1>0. Len(s) \in Nat /\ i \in Nat /\ Len(s) >= i /\ Append(s, more)[Len(s) + 1] = more
  OBVIOUS
<1>1. CountIn(Append(s, more), key, i, Len(s) + 1) =
        CountIn(Append(s, more), key, i, Len(s)) + IF Append(s, more)[Len(s) + 1] = key THEN 1 ELSE 0
  <2>1. PICK t, j : t = Append(s, more) /\ j = Len(s)
    OBVIOUS
  <2>2. CountIn(t, key, i, j + 1) = CountIn(t, key, i, j) + IF t[j + 1] = key THEN 1 ELSE 0
    <3>1. j \in Nat /\ i \in Nat /\ j >= i
      BY <1>0, <2>1
    <3> QED
      BY <3>1, CountNext
  <2> QED
    BY <2>1, <2>2
<1>2. CountIn(Append(s, more), key, i, Len(s)) = CountIn(s, key, i, Len(s))
  BY <1>0, CountAppend
<1> QED
  BY <1>0, <1>1, <1>2

LEMMA TracksKey ==
  ASSUME NEW chars \in Seq(Nat), NEW s \in Seq(Presses), NEW start \in Nat, Tracks(chars, s, start),
         NEW key \in Presses, NEW at, at = start + Len(s) + 1
  PROVE  Tracks(IF key = "text" THEN Append(chars, at)
                ELSE IF key = "delete" /\ chars # <<>> THEN Front(chars) ELSE chars,
                Append(s, key), start)
<1> DEFINE t == Append(s, key)
           L == Len(s)
           place(m) == chars[m] - start
<1>0. /\ L \in Nat /\ Len(t) = L + 1 /\ t \in Seq(Presses) /\ t[L + 1] = key
      /\ \A i \in 1..L : t[i] = s[i]
      /\ Len(chars) \in Nat /\ DOMAIN chars = 1..Len(chars) /\ \A m \in 1..Len(chars) : chars[m] \in Nat
  OBVIOUS
<1>1. \A m \in DOMAIN chars : /\ place(m) \in 1..L /\ s[place(m)] = "text" /\ StaysIn(s, place(m))
                              /\ CountIn(s, "text", place(m), L) = CountIn(s, "delete", place(m), L) + (Len(chars) - m)
  BY DEF Tracks
<1>2. \A m, n \in DOMAIN chars : m < n => chars[m] < chars[n]
  BY DEF Tracks
<1>3. \A i \in 1..L : s[i] = "text" /\ StaysIn(s, i) => \E m \in DOMAIN chars : chars[m] = start + i
  BY DEF Tracks
<1>4. ASSUME NEW i \in 1..L
      PROVE  /\ StaysIn(t, i) <=> StaysIn(s, i) /\ CountIn(t, "delete", i, L + 1) <= CountIn(t, "text", i, L + 1)
             /\ CountIn(t, "text", i, L + 1) = CountIn(s, "text", i, L) + IF key = "text" THEN 1 ELSE 0
             /\ CountIn(t, "delete", i, L + 1) = CountIn(s, "delete", i, L) + IF key = "delete" THEN 1 ELSE 0
             /\ CountIn(s, "text", i, L) \in Nat /\ CountIn(s, "delete", i, L) \in Nat
  <2>1. i \in Nat /\ L \in Nat
    BY <1>0
  <2>2. CountIn(s, "text", i, L) \in Nat /\ CountIn(s, "delete", i, L) \in Nat
    BY <2>1, CountFinite
  <2> QED
    BY <2>2, StaysBefore, CountLast
<1> HIDE DEF t, L, place
<1>5. StaysIn(t, L + 1) /\ CountIn(t, "text", L + 1, L + 1) = 0 /\ CountIn(t, "delete", L + 1, L + 1) = 0
  <2>1. StaysIn(t, L + 1)
    BY <1>0 DEF StaysIn
  <2> QED
    BY <1>0, <2>1, CountNone
<1>6. \A i \in 1..L + 1 : i \in 1..L \/ i = L + 1
  BY <1>0
<1>7. CASE key = "text"
  <2> DEFINE more == Append(chars, at)
             n == Len(chars) + 1
  <2>1. /\ DOMAIN more = 1..n /\ Len(more) = n /\ more[n] = at
        /\ \A m \in 1..Len(chars) : more[m] = chars[m]
    BY <1>0
  <2>7. n \in Nat /\ Len(chars) \in Nat /\ n = Len(chars) + 1
    BY <1>0
  <2> HIDE DEF more, n
  <2>2. at = start + L + 1 /\ at - start = L + 1
    BY <1>0 DEF L
  <2>3. ASSUME NEW m \in 1..n
        PROVE  /\ more[m] - start \in 1..Len(t) /\ t[more[m] - start] = "text" /\ StaysIn(t, more[m] - start)
               /\ CountIn(t, "text", more[m] - start, Len(t)) = CountIn(t, "delete", more[m] - start, Len(t)) + (n - m)
    <3>1. CASE m = n
      <4>1. more[m] - start = L + 1
        BY <2>1, <2>2, <3>1
      <4> QED
        BY <1>0, <1>5, <1>7, <3>1, <4>1
    <3>2. CASE m # n
      <4>0. m \in 1..Len(chars)
        BY <2>7, <3>2
      <4>1. m \in DOMAIN chars /\ more[m] - start = place(m)
        BY <1>0, <2>1, <4>0 DEF place
      <4>2. PICK i \in 1..L : i = place(m)
        BY <1>1, <4>1
      <4>3. /\ s[i] = "text" /\ StaysIn(s, i)
            /\ CountIn(s, "text", i, L) = CountIn(s, "delete", i, L) + (Len(chars) - m)
        BY <1>1, <4>1, <4>2
      <4>4. CountIn(t, "text", i, L + 1) = CountIn(s, "text", i, L) + 1 /\ CountIn(t, "delete", i, L + 1) = CountIn(s, "delete", i, L)
        BY <1>4, <1>7
      <4>5. CountIn(s, "text", i, L) \in Nat /\ CountIn(s, "delete", i, L) \in Nat
        BY <1>4
      <4>6. CountIn(t, "text", i, L + 1) = CountIn(t, "delete", i, L + 1) + (n - m)
        BY <1>0, <2>7, <4>1, <4>3, <4>4, <4>5
      <4>7. StaysIn(t, i)
        BY <1>0, <1>4, <2>7, <4>3, <4>6, <4>4, <4>5
      <4> QED
        BY <1>0, <4>1, <4>2, <4>3, <4>6, <4>7, SMTT(30)
    <3> QED
      BY <3>1, <3>2
  <2>4. ASSUME NEW k \in 1..n, NEW m \in 1..n, k < m PROVE more[k] < more[m]
    <3>1. k \in 1..Len(chars) /\ more[k] = chars[k]
      BY <1>0, <2>1, <2>4, <2>7
    <3>2. CASE m = n
      <4>1. place(k) \in 1..L
        BY <1>0, <1>1, <3>1
      <4> QED
        BY <1>0, <2>1, <2>2, <2>7, <3>1, <3>2, <4>1 DEF place
    <3>3. CASE m # n
      <4>1. m \in 1..Len(chars)
        BY <2>7, <3>3
      <4>2. k \in DOMAIN chars /\ m \in DOMAIN chars
        BY <1>0, <3>1, <4>1
      <4> QED
        BY <1>2, <2>1, <2>4, <3>1, <4>1, <4>2
    <3> QED
      BY <3>2, <3>3
  <2>5. ASSUME NEW i \in 1..Len(t), t[i] = "text", StaysIn(t, i) PROVE \E m \in 1..n : more[m] = start + i
    <3>1. CASE i = L + 1
      BY <1>0, <2>1, <2>2, <2>7, <3>1
    <3>2. CASE i \in 1..L
      <4>1. s[i] = "text" /\ StaysIn(s, i)
        BY <1>0, <1>4, <2>5, <3>2
      <4>2. PICK m \in DOMAIN chars : chars[m] = start + i
        BY <1>3, <3>2, <4>1
      <4> QED
        BY <1>0, <2>1, <2>7, <4>2
    <3> QED
      BY <1>0, <1>6, <3>1, <3>2
  <2>6. Tracks(more, t, start)
    BY <2>1, <2>3, <2>4, <2>5 DEF Tracks
  <2> QED
    BY <1>7, <2>6 DEF more, t
<1>8. CASE key = "delete" /\ chars # <<>>
  <2> DEFINE less == Front(chars)
             n == Len(chars) - 1
  <2>1. n \in Nat /\ DOMAIN less = 1..n /\ Len(less) = n /\ \A m \in 1..n : less[m] = chars[m]
    BY <1>0, <1>8 DEF Front
  <2>6. n \in Nat /\ Len(chars) = n + 1 /\ 1..n \subseteq 1..Len(chars)
    BY <1>0, <2>1
  <2> HIDE DEF less, n
  <2>2. ASSUME NEW m \in 1..n
        PROVE  /\ less[m] - start \in 1..Len(t) /\ t[less[m] - start] = "text" /\ StaysIn(t, less[m] - start)
               /\ CountIn(t, "text", less[m] - start, Len(t)) = CountIn(t, "delete", less[m] - start, Len(t)) + (n - m)
    <3>1. m \in DOMAIN chars /\ less[m] - start = place(m)
      BY <1>0, <2>1, <2>6 DEF place
    <3>2. PICK i \in 1..L : i = place(m)
      BY <1>1, <3>1
    <3>3. /\ s[i] = "text" /\ StaysIn(s, i)
          /\ CountIn(s, "text", i, L) = CountIn(s, "delete", i, L) + (Len(chars) - m)
      BY <1>1, <3>1, <3>2
    <3>4. CountIn(t, "text", i, L + 1) = CountIn(s, "text", i, L) /\ CountIn(t, "delete", i, L + 1) = CountIn(s, "delete", i, L) + 1
      BY <1>4, <1>8
    <3>5. CountIn(s, "text", i, L) \in Nat /\ CountIn(s, "delete", i, L) \in Nat
      BY <1>4
    <3>6. CountIn(t, "text", i, L + 1) = CountIn(t, "delete", i, L + 1) + (n - m)
      BY <1>0, <2>1, <2>6, <3>3, <3>4, <3>5
    <3>7. StaysIn(t, i)
      BY <1>0, <1>4, <2>1, <2>6, <3>3, <3>6, <3>4, <3>5
    <3> QED
      BY <1>0, <3>1, <3>2, <3>3, <3>6, <3>7
  <2>3. ASSUME NEW k \in 1..n, NEW m \in 1..n, k < m PROVE less[k] < less[m]
    <3>1. k \in DOMAIN chars /\ m \in DOMAIN chars
      BY <1>0, <2>6
    <3> QED
      BY <1>2, <2>1, <2>3, <3>1
  <2>4. ASSUME NEW i \in 1..Len(t), t[i] = "text", StaysIn(t, i) PROVE \E m \in 1..n : less[m] = start + i
    <3>1. i \in 1..L
      BY <1>0, <1>6, <1>8, <2>4
    <3>2. s[i] = "text" /\ StaysIn(s, i) /\ CountIn(t, "delete", i, L + 1) <= CountIn(t, "text", i, L + 1)
      BY <1>0, <1>4, <2>4, <3>1
    <3>3. PICK m \in DOMAIN chars : chars[m] = start + i
      BY <1>3, <3>1, <3>2
    <3>4. place(m) = i /\ m \in 1..Len(chars)
      BY <1>0, <3>1, <3>3 DEF place
    <3>5. CountIn(s, "text", i, L) = CountIn(s, "delete", i, L) + (Len(chars) - m)
      BY <1>1, <3>3, <3>4
    <3>6. CountIn(s, "delete", i, L) + 1 <= CountIn(s, "text", i, L) /\ CountIn(s, "text", i, L) \in Nat /\ CountIn(s, "delete", i, L) \in Nat
      BY <1>4, <1>8, <3>1, <3>2
    <3>7. m \in 1..n
      BY <1>0, <2>1, <2>6, <3>4, <3>5, <3>6, SMTT(30)
    <3> QED
      BY <2>1, <3>3, <3>7
  <2>5. Tracks(less, t, start)
    BY <2>1, <2>2, <2>3, <2>4 DEF Tracks
  <2> QED
    BY <1>8, <2>5 DEF less, t
<1>9. CASE key # "text" /\ ~(key = "delete" /\ chars # <<>>)
  <2>1. ASSUME NEW m \in DOMAIN chars
        PROVE  /\ place(m) \in 1..Len(t) /\ t[place(m)] = "text" /\ StaysIn(t, place(m))
               /\ CountIn(t, "text", place(m), Len(t)) = CountIn(t, "delete", place(m), Len(t)) + (Len(chars) - m)
    <3>0. key # "delete" /\ m \in 1..Len(chars)
      BY <1>0, <1>9
    <3>1. PICK i \in 1..L : i = place(m)
      BY <1>1
    <3>2. /\ s[i] = "text" /\ StaysIn(s, i)
          /\ CountIn(s, "text", i, L) = CountIn(s, "delete", i, L) + (Len(chars) - m)
      BY <1>1, <3>1
    <3>3. CountIn(t, "text", i, L + 1) = CountIn(s, "text", i, L) /\ CountIn(t, "delete", i, L + 1) = CountIn(s, "delete", i, L)
      BY <1>4, <1>9, <3>0
    <3>4. CountIn(s, "text", i, L) \in Nat /\ CountIn(s, "delete", i, L) \in Nat
      BY <1>4
    <3>5. StaysIn(t, i)
      BY <1>0, <1>4, <3>0, <3>2, <3>3, <3>4
    <3> QED
      BY <1>0, <3>1, <3>2, <3>3, <3>5
  <2>2. ASSUME NEW i \in 1..Len(t), t[i] = "text", StaysIn(t, i) PROVE \E m \in DOMAIN chars : chars[m] = start + i
    <3>1. i \in 1..L
      BY <1>0, <1>6, <1>9, <2>2
    <3>2. s[i] = "text" /\ StaysIn(s, i)
      BY <1>0, <1>4, <2>2, <3>1
    <3> QED
      BY <1>3, <3>1, <3>2
  <2>3. Tracks(chars, t, start)
    BY <1>2, <2>1, <2>2 DEF Tracks, place
  <2> QED
    BY <1>9, <2>3 DEF t
<1> QED
  BY <1>7, <1>8, <1>9

\* AreTyped of any keys.
TypedIn(chars, s, start) ==
  /\ \A m, n \in DOMAIN chars : m < n => chars[m] < chars[n]
  /\ Range(chars) = {start + n : n \in {m \in DOMAIN s : s[m] = "text" /\ StaysIn(s, m)}}

LEMMA TypedIs == \A chars, start : AreTyped(chars, start) <=> TypedIn(chars, keys, start)
<1>1. \A i : Stays(i) <=> StaysIn(keys, i)
  BY DEF Stays, StaysIn, CountIn
<1> QED
  BY <1>1 DEF AreTyped, TypedIn

LEMMA TracksTyped ==
  ASSUME NEW s \in Seq(Presses), NEW chars \in Seq(Nat), NEW start \in Nat, Tracks(chars, s, start)
  PROVE  TypedIn(chars, s, start)
<1>0. /\ DOMAIN s = 1..Len(s) /\ Len(s) \in Nat
      /\ DOMAIN chars = 1..Len(chars) /\ \A m \in DOMAIN chars : chars[m] \in Nat
  OBVIOUS
<1> DEFINE typed == {m \in DOMAIN s : s[m] = "text" /\ StaysIn(s, m)}
<1>2. ASSUME NEW m \in DOMAIN chars PROVE chars[m] \in {start + n : n \in typed}
  <2>1. chars[m] - start \in 1..Len(s) /\ s[chars[m] - start] = "text" /\ StaysIn(s, chars[m] - start)
    BY DEF Tracks
  <2>2. PICK i \in 1..Len(s) : i = chars[m] - start
    BY <2>1
  <2>3. i \in typed
    BY <1>0, <2>1, <2>2
  <2>4. chars[m] = start + i
    BY <1>0, <2>2
  <2> QED
    BY <2>3, <2>4
<1>3. ASSUME NEW n \in typed PROVE \E m \in DOMAIN chars : chars[m] = start + n
  BY <1>0 DEF Tracks
<1>4. Range(chars) = {start + n : n \in typed}
  <2> HIDE DEF typed
  <2> QED
    BY <1>2, <1>3 DEF Range
<1> QED
  BY <1>4 DEF TypedIn, Tracks

-----------------------------------------------------------------------------
(* The calls. *)

TermTypes ==
  /\ TerminalTypeOK
  /\ call \in [kind : Kinds \cup {"none"}, timed : BOOLEAN, text : Seq(Nat)]
  /\ listeners \subseteq [owner : 1..asked, chars : Seq(1..MaxKeys)]
  /\ keys \in Seq(Presses) /\ replies \in Seq({"yes", "no", "other"}) /\ handed \in Seq(Nat)

\* What the running call has of the terminal.
CallShape ==
  /\ call.kind = "none" => call = NoCall
  /\ call.kind = "password" => tty
  /\ call.kind = "readAll" => ~tty
  /\ call.kind \in {"line", "confirm"} => asked \in interfaces
  /\ call.kind # "readAll" => call.text = <<>>

LEMMA KindsDiffer ==
  /\ NoCall.kind = "none" /\ NoCall.text = <<>> /\ NoCall \in [kind : Kinds \cup {"none"}, timed : BOOLEAN, text : Seq(Nat)]
  /\ Kinds = {"line", "password", "confirm", "readAll"}
BY DEF NoCall, Kinds

LEMMA SettlesIs ==
  ASSUME NEW answer, Settles(answer)
  PROVE  /\ call' = NoCall /\ readTimer' = FALSE /\ told' = [kind |-> call.kind, answer |-> answer]
         /\ handed' = IF call.kind \in {"line", "readAll"} /\ ~tty THEN handed \o answer.text ELSE handed
BY DEF Settles, Tells


LEMMA TermBegins == TerminalInit => TermTypes /\ CallShape
<1> SUFFICES ASSUME TerminalInit PROVE TermTypes /\ CallShape
  OBVIOUS
<1>0. MaxAsked \in Nat /\ MaxKeys \in Nat /\ MaxLines \in Nat
  BY TerminalAssumption
<1>1. TerminalTypeOK
  <2>1. {tty, rawMode, flowing, inputEnded, readTimer} \subseteq BOOLEAN
    BY DEF TerminalInit
  <2>2. asked \in 0..MaxAsked /\ pressed \in 0..MaxKeys /\ nextLine \in 1..MaxLines + 1
    BY <1>0 DEF TerminalInit
  <2>3. call.kind \in Kinds \cup {"none"} /\ interfaces \subseteq 1..asked /\ listeners = {}
    BY KindsDiffer DEF TerminalInit
  <2> QED
    BY <2>1, <2>2, <2>3 DEF TerminalTypeOK
<1>2. TermTypes
  BY <1>1, KindsDiffer DEF TerminalInit, TermTypes
<1>3. CallShape
  BY KindsDiffer DEF TerminalInit, CallShape
<1> QED
  BY <1>2, <1>3

\* What a listener has after a key.
LEMMA FrontType == ASSUME NEW S, NEW s \in Seq(S), s # <<>> PROVE Front(s) \in Seq(S)
<1>1. Len(s) - 1 \in Nat /\ Len(s) \in Nat
  OBVIOUS
<1>2. \A i \in 1..Len(s) - 1 : s[i] \in S
  OBVIOUS
<1> QED
  BY <1>1, <1>2 DEF Front

LEMMA StruckType ==
  ASSUME TermTypes, pressed < MaxKeys, pressed' = pressed + 1, NEW l \in listeners, NEW key
  PROVE  Struck(l.chars, key) \in Seq(1..MaxKeys)
<1>1. l.chars \in Seq(1..MaxKeys) /\ pressed' \in 1..MaxKeys
  BY TerminalAssumption DEF TermTypes, TerminalTypeOK
<1>3. Append(l.chars, pressed') \in Seq(1..MaxKeys)
  BY <1>1
<1>4. l.chars # <<>> => Front(l.chars) \in Seq(1..MaxKeys)
  BY <1>1, FrontType
<1> QED
  BY <1>1, <1>3, <1>4 DEF Struck

LEMMA ReadPasswordShape == ASSUME TermTypes, CallShape, NEW timed \in BOOLEAN, ReadPassword(timed) PROVE TermTypes' /\ CallShape'
<1>1. /\ asked < MaxAsked /\ call = NoCall /\ asked' = asked + 1 /\ keys' = <<>> /\ replies' = <<>>
      /\ UNCHANGED <<tty, inputEnded, interfaces, pressed, nextLine, lost>>
  BY DEF ReadPassword, Begins
<1>2. asked \in Nat /\ asked' \in 1..MaxAsked /\ asked \in 0..MaxAsked /\ 1..asked \subseteq 1..asked'
  BY <1>1, TerminalAssumption DEF TermTypes, TerminalTypeOK
<1>3. \/ call' = call /\ handed' = handed /\ UNCHANGED <<readTimer, rawMode, flowing, listeners>>
      \/ /\ tty /\ call' = [kind |-> "password", timed |-> timed, text |-> <<>>] /\ handed' = handed
         /\ readTimer' = timed /\ flowing' = TRUE /\ rawMode' = TRUE
         /\ listeners' = listeners \cup {[owner |-> asked', chars |-> <<>>]}
  BY DEF ReadPassword, Tells, ReadBegins
<1>4. listeners' \subseteq [owner : 1..asked', chars : Seq(1..MaxKeys)]
  <2>1. listeners \subseteq [owner : 1..asked', chars : Seq(1..MaxKeys)]
    BY <1>2 DEF TermTypes
  <2>2. [owner |-> asked', chars |-> <<>>] \in [owner : 1..asked', chars : Seq(1..MaxKeys)]
    BY <1>2
  <2> QED
    BY <1>3, <2>1, <2>2
<1>5. /\ call' \in [kind : Kinds \cup {"none"}, timed : BOOLEAN, text : Seq(Nat)]
      /\ handed' \in Seq(Nat)
  BY <1>3, KindsDiffer DEF TermTypes
<1>6. {tty, rawMode, flowing, inputEnded, readTimer}' \subseteq BOOLEAN
  BY <1>1, <1>3 DEF TermTypes, TerminalTypeOK
<1>7. TerminalTypeOK'
  BY <1>1, <1>2, <1>4, <1>5, <1>6 DEF TermTypes, TerminalTypeOK
<1>8. TermTypes'
  BY <1>1, <1>4, <1>5, <1>7 DEF TermTypes
<1>9. CallShape'
  <2>1. CASE call' = call /\ UNCHANGED rawMode
    BY <1>1, <2>1, KindsDiffer DEF CallShape
  <2>2. CASE tty /\ call' = [kind |-> "password", timed |-> timed, text |-> <<>>] /\ rawMode' = TRUE
    BY <1>1, <2>2 DEF CallShape
  <2> QED
    BY <1>3, <2>1, <2>2
<1> QED
  BY <1>8, <1>9

LEMMA ReadLineShape ==
  ASSUME TermTypes, CallShape, NEW kind \in {"line", "confirm"}, NEW timed \in BOOLEAN, ReadTerminalLine(kind, timed)
  PROVE  TermTypes' /\ CallShape'
<1>1. /\ asked < MaxAsked /\ asked' = asked + 1 /\ keys' = <<>> /\ replies' = <<>>
      /\ call' = [kind |-> kind, timed |-> timed, text |-> <<>>] /\ readTimer' = timed /\ flowing' = TRUE
      /\ interfaces' = interfaces \cup {asked'} /\ call = NoCall
      /\ UNCHANGED <<handed, tty, inputEnded, listeners, pressed, nextLine, lost>> /\ rawMode' = tty
  BY DEF ReadTerminalLine, Begins, ReadBegins
<1>2. asked \in Nat /\ asked' \in 1..MaxAsked /\ asked' \in 0..MaxAsked /\ 1..asked \subseteq 1..asked'
  BY <1>1, TerminalAssumption DEF TermTypes, TerminalTypeOK
<1>3. /\ call' \in [kind : Kinds \cup {"none"}, timed : BOOLEAN, text : Seq(Nat)]
      /\ call'.kind = kind /\ call'.text = <<>>
  BY <1>1, KindsDiffer
<1>4. listeners' \subseteq [owner : 1..asked', chars : Seq(1..MaxKeys)]
  BY <1>1, <1>2 DEF TermTypes
<1>5. interfaces' \subseteq 1..asked'
  BY <1>1, <1>2 DEF TermTypes, TerminalTypeOK
<1>6. {tty, rawMode, flowing, inputEnded, readTimer}' \subseteq BOOLEAN
  BY <1>1 DEF TermTypes, TerminalTypeOK
<1>7. TerminalTypeOK'
  BY <1>1, <1>2, <1>3, <1>4, <1>5, <1>6 DEF TermTypes, TerminalTypeOK
<1>8. TermTypes'
  BY <1>1, <1>3, <1>4, <1>7 DEF TermTypes
<1>9. CallShape'
  BY <1>1, <1>3, KindsDiffer DEF CallShape
<1> QED
  BY <1>8, <1>9

LEMMA ReadAllShape == ASSUME TermTypes, CallShape, ReadAll PROVE TermTypes' /\ CallShape'
<1>1. /\ asked < MaxAsked /\ call = NoCall /\ asked' = asked + 1 /\ keys' = <<>> /\ replies' = <<>>
      /\ UNCHANGED <<tty, rawMode, inputEnded, listeners, interfaces, pressed, nextLine, stars, lost>>
  BY DEF ReadAll, Begins
<1>2. asked \in Nat /\ asked' \in 1..MaxAsked /\ asked \in 0..MaxAsked /\ 1..asked \subseteq 1..asked'
  BY <1>1, TerminalAssumption DEF TermTypes, TerminalTypeOK
<1>3. \/ call' = call /\ handed' = handed /\ UNCHANGED <<readTimer, flowing>>
      \/ /\ ~tty /\ call' = [kind |-> "readAll", timed |-> FALSE, text |-> <<>>] /\ handed' = handed
         /\ readTimer' = FALSE /\ flowing' = TRUE
  BY DEF ReadAll, Tells, ReadBegins
<1>4. listeners' \subseteq [owner : 1..asked', chars : Seq(1..MaxKeys)]
  BY <1>1, <1>2 DEF TermTypes
<1>5. /\ call' \in [kind : Kinds \cup {"none"}, timed : BOOLEAN, text : Seq(Nat)]
      /\ handed' \in Seq(Nat)
  <2>1. [kind |-> "readAll", timed |-> FALSE, text |-> <<>>] \in [kind : Kinds \cup {"none"}, timed : BOOLEAN, text : Seq(Nat)]
    BY KindsDiffer
  <2> QED
    BY <1>3, <2>1 DEF TermTypes
<1>6. {tty, rawMode, flowing, inputEnded, readTimer}' \subseteq BOOLEAN
  BY <1>1, <1>3 DEF TermTypes, TerminalTypeOK
<1>7. TerminalTypeOK'
  BY <1>1, <1>2, <1>4, <1>5, <1>6 DEF TermTypes, TerminalTypeOK
<1>8. TermTypes'
  BY <1>1, <1>4, <1>5, <1>7 DEF TermTypes
<1>9. CallShape'
  BY <1>1, <1>3, KindsDiffer DEF CallShape
<1> QED
  BY <1>8, <1>9

LEMMA NoLineIs ==
  ASSUME TermTypes, NoLine
  PROVE  /\ call' = NoCall /\ readTimer' = FALSE /\ handed' = handed
         /\ told' = [kind |-> call.kind, answer |-> IF call.kind = "confirm" THEN Got("false", <<>>) ELSE Nobody]
<1> DEFINE answer == IF call.kind = "confirm" THEN Got("false", <<>>) ELSE Nobody
<1>1. Settles(answer)
  BY DEF NoLine
<1>2. answer.text = <<>>
  BY DEF Got, Nobody
<1> HIDE DEF answer
<1>3. handed \o answer.text = handed
  BY <1>2 DEF TermTypes
<1>4. call' = NoCall /\ readTimer' = FALSE /\ told' = [kind |-> call.kind, answer |-> answer] /\ handed' = handed
  BY <1>1, <1>3, SettlesIs
<1> QED
  BY <1>4 DEF answer

LEMMA QuestionIs ==
  ASSUME TermTypes, NEW reply, NEW n \in Nat, Question(reply, n)
  PROVE  \/ /\ call.kind = "line" /\ interfaces' = {} /\ call' = NoCall /\ readTimer' = FALSE
            /\ told' = [kind |-> "line", answer |-> Got("some", <<n>>)]
            /\ handed' = IF ~tty THEN handed \o <<n>> ELSE handed
         \/ /\ call.kind = "confirm" /\ (reply # "other" \/ ~tty) /\ interfaces' = {} /\ call' = NoCall
            /\ readTimer' = FALSE /\ handed' = handed
            /\ told' = [kind |-> "confirm", answer |-> Got(IF reply = "yes" THEN "true" ELSE "false", <<>>)]
         \/ /\ call.kind = "confirm" /\ reply = "other" /\ tty /\ interfaces' = {asked}
            /\ readTimer' = call.timed /\ UNCHANGED <<told, handed, call>>
         \/ call.kind \notin {"line", "confirm"} /\ interfaces' = {} /\ UNCHANGED <<told, handed, call, readTimer>>
<1>1. CASE call.kind = "line" /\ interfaces' = {} /\ Settles(Got("some", <<n>>))
  <2>1. PICK answer : answer = Got("some", <<n>>)
    OBVIOUS
  <2>2. Settles(answer) /\ answer.text = <<n>>
    BY <1>1, <2>1 DEF Got
  <2>3. call' = NoCall /\ readTimer' = FALSE /\ told' = [kind |-> call.kind, answer |-> answer]
        /\ handed' = IF call.kind \in {"line", "readAll"} /\ ~tty THEN handed \o answer.text ELSE handed
    BY <2>2, SettlesIs
  <2> QED
    BY <1>1, <2>1, <2>2, <2>3
<1>2. CASE /\ call.kind = "confirm" /\ (reply # "other" \/ ~tty) /\ interfaces' = {}
           /\ Settles(Got(IF reply = "yes" THEN "true" ELSE "false", <<>>))
  <2>1. PICK answer : answer = Got(IF reply = "yes" THEN "true" ELSE "false", <<>>)
    OBVIOUS
  <2>2. Settles(answer)
    BY <1>2, <2>1
  <2>3. call' = NoCall /\ readTimer' = FALSE /\ told' = [kind |-> call.kind, answer |-> answer]
        /\ handed' = IF call.kind \in {"line", "readAll"} /\ ~tty THEN handed \o answer.text ELSE handed
    BY <2>2, SettlesIs
  <2> QED
    BY <1>2, <2>1, <2>3
<1> QED
  BY <1>1, <1>2 DEF Question, Goes

\* What a key leaves of the listeners.
LEMMA KeyListeners ==
  ASSUME TermTypes, pressed < MaxKeys, pressed' = pressed + 1, UNCHANGED asked, NEW key,
         listeners' = IF Ends(key) THEN {} ELSE {[l EXCEPT !.chars = Struck(l.chars, key)] : l \in listeners}
  PROVE  listeners' \subseteq [owner : 1..asked', chars : Seq(1..MaxKeys)]
<1>1. ASSUME NEW l \in listeners
      PROVE  [l EXCEPT !.chars = Struck(l.chars, key)] \in [owner : 1..asked, chars : Seq(1..MaxKeys)]
  <2>1. l \in [owner : 1..asked, chars : Seq(1..MaxKeys)] /\ Struck(l.chars, key) \in Seq(1..MaxKeys)
    BY StruckType DEF TermTypes
  <2> QED
    BY <2>1
<1> QED
  BY <1>1

LEMMA StillOpenIs == ASSUME NEW key, NEW open \in StillOpen(key) PROVE open \subseteq interfaces
BY DEF StillOpen

\* A key, and what it does to the call.
LEMMA PressedShape == ASSUME TermTypes, CallShape, NEW key \in Presses, Pressed(key) PROVE TermTypes' /\ CallShape'
<1>0. /\ tty /\ flowing /\ pressed < MaxKeys /\ pressed' = pressed + 1
      /\ keys' = (IF call = NoCall THEN keys ELSE Append(keys, key))
      /\ UNCHANGED <<tty, inputEnded, asked, nextLine, lost>>
      /\ listeners' = IF Ends(key) THEN {} ELSE {[l EXCEPT !.chars = Struck(l.chars, key)] : l \in listeners}
  BY DEF Pressed, PasswordKey, LineKey
<1>1. pressed' \in 0..MaxKeys /\ pressed' \in Nat /\ asked' \in 0..MaxAsked
  BY <1>0, TerminalAssumption DEF TermTypes, TerminalTypeOK
<1>2. /\ interfaces' \subseteq 1..asked'
      /\ call' \in {call, NoCall} /\ handed' = handed /\ {readTimer, rawMode, flowing}' \subseteq BOOLEAN
      /\ replies' \in Seq({"yes", "no", "other"})
      /\ call'.kind \in {"line", "confirm"} => asked \in interfaces'
  <2>0. /\ interfaces \subseteq 1..asked' /\ {readTimer, rawMode, flowing, call.timed} \subseteq BOOLEAN
        /\ replies \in Seq({"yes", "no", "other"})
        /\ (call.kind \in {"line", "confirm"} => asked \in interfaces)
    BY <1>0 DEF TermTypes, TerminalTypeOK, CallShape
  <2>1. CASE PasswordKey(key)
    <3>1. call.kind = "password" /\ interfaces' \subseteq interfaces /\ replies' = replies
      BY <2>1, StillOpenIs DEF PasswordKey
    <3>2. CASE Ends(key)
      <4>1. PICK l \in listeners : Settles(Password(l.chars, key))
        BY <2>1, <3>2 DEF PasswordKey
      <4>2. call' = NoCall /\ readTimer' = FALSE /\ handed' = handed
        BY <3>1, <4>1, SettlesIs
      <4>3. rawMode' = FALSE /\ flowing' = FALSE
        BY <2>1, <3>2 DEF PasswordKey
      <4> QED
        BY <2>0, <3>1, <4>2, <4>3, KindsDiffer
    <3>3. CASE ~Ends(key)
      <4>1. UNCHANGED <<told, handed, call, readTimer, rawMode, flowing>>
        BY <2>1, <3>3 DEF PasswordKey, Goes
      <4> QED
        BY <2>0, <3>1, <4>1
    <3> QED
      BY <3>2, <3>3
  <2>2. CASE LineKey(key)
    <3> DEFINE Listens == flowing' = (interfaces' # {}) /\ rawMode' = flowing'
               Stops(open) == IF open = interfaces THEN UNCHANGED <<rawMode, flowing>> ELSE rawMode' = FALSE /\ flowing' = FALSE
    <3>1. call.kind # "password" /\ interfaces # {}
      BY <2>2 DEF LineKey
    <3>2. CASE \E reply \in {"yes", "no", "other"} :
                 replies' = Append(replies, reply) /\ Question(reply, pressed') /\ Listens
      <4>1. PICK reply \in {"yes", "no", "other"} :
              replies' = Append(replies, reply) /\ Question(reply, pressed') /\ Listens
        BY <3>2
      <4>2. replies' \in Seq({"yes", "no", "other"})
        BY <2>0, <4>1
      <4>3. asked = asked' /\ (interfaces # {} => asked \in 1..asked')
        BY <1>0, <2>0 DEF TermTypes, TerminalTypeOK
      <4>4. PICK m \in Nat : m = pressed'
        BY <1>1
      <4>5. \/ call.kind = "line" /\ interfaces' = {} /\ call' = NoCall /\ readTimer' = FALSE /\ handed' = handed
            \/ call.kind = "confirm" /\ interfaces' = {} /\ call' = NoCall /\ readTimer' = FALSE /\ handed' = handed
            \/ call.kind = "confirm" /\ interfaces' = {asked} /\ readTimer' = call.timed /\ UNCHANGED <<handed, call>>
            \/ call.kind \notin {"line", "confirm"} /\ interfaces' = {} /\ UNCHANGED <<handed, call, readTimer>>
        <5>1. Question(reply, m)
          BY <4>1, <4>4
        <5> QED
          BY <1>0, <5>1, QuestionIs
      <4> QED
        BY <2>0, <3>1, <4>1, <4>2, <4>3, <4>5, KindsDiffer
    <3>3. CASE /\ UNCHANGED replies
               /\ \E open \in StillOpen(key) :
                    /\ interfaces' = open
                    /\ Stops(open)
                    /\ IF asked \in interfaces \ open /\ call # NoCall THEN NoLine ELSE Goes
      <4>1. PICK open \in StillOpen(key) :
                    /\ interfaces' = open
                    /\ Stops(open)
                    /\ IF asked \in interfaces \ open /\ call # NoCall THEN NoLine ELSE Goes
        BY <3>3
      <4>2. open \subseteq interfaces
        BY StillOpenIs
      <4>3. \/ call' = NoCall /\ readTimer' = FALSE /\ handed' = handed
            \/ (asked \notin interfaces \/ asked \in open \/ call = NoCall) /\ UNCHANGED <<handed, call, readTimer>>
        BY <4>1, NoLineIs DEF Goes
      <4>4. flowing' \in BOOLEAN /\ rawMode' \in BOOLEAN
        BY <2>0, <4>1
      <4> QED
        BY <2>0, <3>1, <3>3, <4>1, <4>2, <4>3, <4>4, KindsDiffer
    <3>4. CASE Goes /\ UNCHANGED <<interfaces, replies, rawMode, flowing>>
      BY <2>0, <3>1, <3>4 DEF Goes
    <3> QED
      BY <2>2, <3>2, <3>3, <3>4 DEF LineKey
  <2> QED
    BY <2>1, <2>2 DEF Pressed
<1>3. listeners' \subseteq [owner : 1..asked', chars : Seq(1..MaxKeys)]
  BY <1>0, KeyListeners
<1>4. keys' \in Seq(Presses)
  BY <1>0 DEF TermTypes
<1>5. call' \in [kind : Kinds \cup {"none"}, timed : BOOLEAN, text : Seq(Nat)]
  BY <1>2, KindsDiffer DEF TermTypes
<1>6. TerminalTypeOK'
  <2>1. call'.kind \in Kinds \cup {"none"}
    BY <1>5
  <2>2. \A l \in listeners' : l.owner \in 1..asked' /\ l.chars \in Seq(1..MaxKeys)
    BY <1>3
  <2> QED
    BY <1>0, <1>1, <1>2, <2>1, <2>2 DEF TermTypes, TerminalTypeOK
<1>7. TermTypes'
  BY <1>2, <1>3, <1>4, <1>5, <1>6 DEF TermTypes
<1>8. CallShape'
  BY <1>0, <1>2, KindsDiffer DEF CallShape
<1> QED
  BY <1>7, <1>8

LEMMA LinesComeShape ==
  ASSUME TermTypes, CallShape, NEW k \in 1..MaxLines, LinesCome(k)
  PROVE  TermTypes' /\ CallShape'
<1>0. /\ ~tty /\ flowing /\ nextLine + k <= MaxLines + 1 /\ nextLine' = nextLine + k
      /\ UNCHANGED <<tty, rawMode, inputEnded, asked, listeners, pressed, keys>>
  BY DEF LinesCome
<1>1. nextLine' \in 1..MaxLines + 1 /\ nextLine \in Nat /\ k \in Nat
  BY <1>0, TerminalAssumption DEF TermTypes, TerminalTypeOK
<1>2. /\ interfaces' \subseteq 1..asked'
      /\ call' \in [kind : Kinds \cup {"none"}, timed : BOOLEAN, text : Seq(Nat)]
      /\ handed' \in Seq(Nat) /\ {readTimer, flowing}' \subseteq BOOLEAN
      /\ replies' \in Seq({"yes", "no", "other"})
      /\ call'.kind \in {"line", "confirm"} => asked \in interfaces'
      /\ call'.kind # "readAll" => call'.text = <<>>
      /\ call'.kind = "none" => call' = NoCall
      /\ call'.kind # "password"
  <2>0. /\ interfaces \subseteq 1..asked' /\ {readTimer, rawMode, flowing, call.timed} \subseteq BOOLEAN
        /\ replies \in Seq({"yes", "no", "other"}) /\ handed \in Seq(Nat)
        /\ call.kind # "password"
    BY <1>0 DEF TermTypes, TerminalTypeOK, CallShape
  <2>1. CASE call.kind = "readAll"
    <3>1. /\ call' = [call EXCEPT !.text = @ \o [i \in 1..k |-> nextLine + i - 1]]
          /\ interfaces' = {} /\ flowing' = (interfaces = {})
          /\ UNCHANGED <<told, handed, readTimer, replies>>
      BY <2>1 DEF LinesCome
    <3>2. [i \in 1..k |-> nextLine + i - 1] \in Seq(Nat)
      BY <1>1
    <3>3. /\ call' \in [kind : Kinds \cup {"none"}, timed : BOOLEAN, text : Seq(Nat)]
          /\ call'.kind = "readAll"
      <4>1. PICK chunk \in Seq(Nat) : chunk = [i \in 1..k |-> nextLine + i - 1]
        BY <3>2
      <4>2. call \in [kind : Kinds \cup {"none"}, timed : BOOLEAN, text : Seq(Nat)]
        BY DEF TermTypes
      <4>3. call.text \o chunk \in Seq(Nat)
        BY <4>2
      <4>4. PICK text \in Seq(Nat) : text = call.text \o chunk
        BY <4>3
      <4>5. call' = [call EXCEPT !.text = text]
        BY <3>1, <4>1, <4>4
      <4> QED
        BY <2>1, <4>2, <4>5
    <3> QED
      BY <2>0, <3>1, <3>3
  <2>2. CASE call.kind # "readAll"
    <3>1. PICK reply \in {"yes", "no", "other"} :
            replies' = Append(replies, reply) /\ Question(reply, nextLine) /\ interfaces # {} /\ flowing' = FALSE
      BY <2>2 DEF LinesCome
    <3>2. \/ /\ interfaces' = {} /\ call' = NoCall /\ readTimer' = FALSE
             /\ handed' = handed \o <<nextLine>> \/ handed' = handed
          \/ call.kind \notin {"line", "confirm"} /\ interfaces' = {} /\ UNCHANGED <<handed, call, readTimer>>
      BY <1>0, <1>1, <3>1, QuestionIs
    <3>3. handed \o <<nextLine>> \in Seq(Nat)
      BY <1>1, <2>0
    <3>4. replies' \in Seq({"yes", "no", "other"})
      BY <2>0, <3>1
    <3>5. CASE call' = NoCall /\ readTimer' = FALSE
      BY <2>0, <3>1, <3>2, <3>3, <3>4, <3>5, KindsDiffer
    <3>6. CASE call.kind \notin {"line", "confirm"} /\ UNCHANGED <<handed, call, readTimer>>
      BY <2>0, <2>2, <3>1, <3>2, <3>4, <3>6 DEF TermTypes, CallShape
    <3> QED
      BY <3>2, <3>5, <3>6
  <2> QED
    BY <2>1, <2>2
<1>3. TerminalTypeOK'
  BY <1>0, <1>1, <1>2 DEF TermTypes, TerminalTypeOK
<1>4. TermTypes'
  BY <1>0, <1>2, <1>3 DEF TermTypes
<1>5. CallShape'
  BY <1>0, <1>2 DEF CallShape
<1> QED
  BY <1>4, <1>5

\* A call of which nothing is left has the shape of none.
LEMMA NothingLeft ==
  ASSUME TermTypes, CallShape, call' = NoCall, rawMode' \in BOOLEAN, handed' \in Seq(Nat),
         UNCHANGED <<tty, asked, listeners, pressed, nextLine, keys, replies>>,
         interfaces' \subseteq interfaces, {flowing, inputEnded, readTimer}' \subseteq BOOLEAN
  PROVE  TermTypes' /\ CallShape'
<1>1. TerminalTypeOK'
  BY KindsDiffer DEF TermTypes, TerminalTypeOK
<1>2. TermTypes'
  BY <1>1, KindsDiffer DEF TermTypes
<1>3. CallShape'
  BY KindsDiffer DEF CallShape
<1> QED
  BY <1>2, <1>3

\* What the end of a pipe does to the call.
LEMMA InputEndsIs ==
  ASSUME TermTypes, CallShape, InputEnds
  PROVE  /\ call' = NoCall
         /\ \/ call.kind = "readAll" /\ handed' = handed \o call.text
            \/ call = NoCall /\ UNCHANGED <<told, handed>>
            \/ /\ call.kind # "readAll" /\ handed' = handed
               /\ told' = [kind |-> call.kind, answer |-> IF call.kind = "confirm" THEN Got("false", <<>>) ELSE Nobody]
         /\ call.kind = "readAll" => told'.kind = "readAll"
         /\ readTimer' \in BOOLEAN
<1>1. CASE call.kind = "readAll" /\ Settles(Got("some", call.text))
  <2>1. PICK answer : answer = Got("some", call.text)
    OBVIOUS
  <2>2. Settles(answer) /\ answer.text = call.text
    BY <1>1, <2>1 DEF Got
  <2>3. call' = NoCall /\ readTimer' = FALSE /\ told' = [kind |-> call.kind, answer |-> answer]
        /\ handed' = IF call.kind \in {"line", "readAll"} /\ ~tty THEN handed \o answer.text ELSE handed
    BY <2>2, SettlesIs
  <2> QED
    BY <1>1, <2>2, <2>3 DEF CallShape
<1>2. CASE call = NoCall /\ Goes
  BY <1>2, KindsDiffer DEF Goes, TermTypes, TerminalTypeOK
<1>3. CASE call.kind \notin {"readAll", "none"} /\ NoLine
  BY <1>3, NoLineIs
<1> QED
  BY <1>1, <1>2, <1>3 DEF InputEnds

LEMMA InputEndsShape == ASSUME TermTypes, CallShape, InputEnds PROVE TermTypes' /\ CallShape'
<1>1. /\ ~tty /\ inputEnded' = TRUE /\ flowing' = FALSE /\ interfaces' = {}
      /\ UNCHANGED <<keys, replies, tty, rawMode, asked, listeners, pressed, nextLine>>
  BY DEF InputEnds
<1>2. call' = NoCall /\ handed' \in Seq(Nat) /\ readTimer' \in BOOLEAN
  <2>1. call.text \in Seq(Nat) /\ handed \in Seq(Nat)
    BY DEF TermTypes
  <2>2. handed \o call.text \in Seq(Nat)
    BY <2>1
  <2> QED
    BY <2>1, <2>2, InputEndsIs
<1>3. rawMode' \in BOOLEAN
  BY <1>1 DEF TermTypes, TerminalTypeOK
<1> QED
  BY <1>1, <1>2, <1>3, NothingLeft

LEMMA InputFailsIs ==
  ASSUME TermTypes, InputFails
  PROVE  call' = NoCall /\ readTimer' = FALSE /\ handed' = handed /\ told'.kind = "readAll"
<1>1. PICK answer : answer = Got("error", <<>>)
  OBVIOUS
<1>2. Settles(answer) /\ answer.text = <<>> /\ call.kind = "readAll"
  BY <1>1 DEF InputFails, Got
<1>3. call' = NoCall /\ readTimer' = FALSE /\ told' = [kind |-> call.kind, answer |-> answer]
      /\ handed' = IF call.kind \in {"line", "readAll"} /\ ~tty THEN handed \o answer.text ELSE handed
  BY <1>2, SettlesIs
<1>4. handed \o answer.text = handed
  BY <1>2 DEF TermTypes
<1> QED
  BY <1>2, <1>3, <1>4

LEMMA InputFailsShape == ASSUME TermTypes, CallShape, InputFails PROVE TermTypes' /\ CallShape'
<1>1. /\ ~tty /\ inputEnded' = TRUE /\ flowing' = FALSE
      /\ UNCHANGED <<keys, replies, tty, rawMode, asked, listeners, interfaces, pressed, nextLine>>
  BY DEF InputFails
<1>2. call' = NoCall /\ handed' \in Seq(Nat) /\ readTimer' \in BOOLEAN
  BY InputFailsIs DEF TermTypes
<1>3. rawMode' \in BOOLEAN
  BY <1>1 DEF TermTypes, TerminalTypeOK
<1> QED
  BY <1>1, <1>2, <1>3, NothingLeft

LEMMA ReadTimesOutShape == ASSUME TermTypes, CallShape, ReadTimesOut PROVE TermTypes' /\ CallShape'
<1>1. UNCHANGED <<keys, replies, tty, inputEnded, asked, listeners, interfaces, pressed, nextLine>>
  BY DEF ReadTimesOut
<1>2. call' = NoCall /\ handed' \in Seq(Nat) /\ readTimer' \in BOOLEAN
  BY NoLineIs DEF ReadTimesOut, TermTypes
<1>3. {rawMode, flowing, inputEnded}' \subseteq BOOLEAN
  BY <1>1 DEF ReadTimesOut, TermTypes, TerminalTypeOK
<1> QED
  BY <1>1, <1>2, <1>3, NothingLeft

LEMMA TerminalStays == ASSUME TermTypes, CallShape, UNCHANGED terminalVars PROVE TermTypes' /\ CallShape'
BY DEF terminalVars, TermTypes, TerminalTypeOK, CallShape

\* Every step keeps the shape of a call.
LEMMA ShapeStep == ASSUME TermTypes, CallShape, [TerminalNext]_terminalVars PROVE TermTypes' /\ CallShape'
BY ReadPasswordShape, ReadLineShape, ReadAllShape, PressedShape, LinesComeShape, InputEndsShape, InputFailsShape,
   ReadTimesOutShape, TerminalStays DEF TerminalNext

-----------------------------------------------------------------------------
(* The lines of a pipe. *)

\* In their order, none of them lost, and none from next on.
Once(answered, gone, next) ==
  /\ answered \in Seq(Nat) /\ next \in Nat
  /\ \A i, j \in DOMAIN answered : i < j => answered[i] < answered[j]
  /\ Range(answered) \cap gone = {} /\ Range(answered) \cup gone \subseteq 1..next - 1

OnceInv == ~tty => Once(handed \o call.text, lost, nextLine)

\* The next lines are answered.
Chunk(next, k) == [i \in 1..k |-> next + i - 1]

LEMMA OnceMore ==
  ASSUME NEW a, NEW gone, NEW next \in Nat \ {0}, NEW k \in Nat, Once(a, gone, next)
  PROVE  Once(a \o Chunk(next, k), gone, next + k)
<1> DEFINE b == a \o Chunk(next, k)
<1>0. Chunk(next, k) \in Seq(Nat) /\ Len(Chunk(next, k)) = k
  BY DEF Chunk
<1>1. /\ a \in Seq(Nat) /\ Len(a) \in Nat /\ DOMAIN a = 1..Len(a)
      /\ \A i \in DOMAIN a : a[i] \in 1..next - 1 /\ a[i] \notin gone
      /\ \A i, j \in DOMAIN a : i < j => a[i] < a[j]
      /\ gone \subseteq 1..next - 1
  BY DEF Once, Range
<1>2. /\ b \in Seq(Nat) /\ DOMAIN b = 1..Len(a) + k
      /\ \A i \in 1..Len(a) : b[i] = a[i]
      /\ \A i \in 1..Len(a) + k : i > Len(a) => b[i] = next + (i - Len(a)) - 1
  BY <1>0, <1>1 DEF Chunk
<1> HIDE DEF b
<1>3. ASSUME NEW i \in DOMAIN b PROVE b[i] \in 1..next + k - 1 /\ b[i] \notin gone
  <2>1. CASE i \in 1..Len(a)
    BY <1>1, <1>2, <2>1
  <2>2. CASE i > Len(a)
    <3>1. b[i] = next + (i - Len(a)) - 1 /\ i \in 1..Len(a) + k
      BY <1>2, <2>2
    <3> QED
      BY <1>1, <2>2, <3>1
  <2> QED
    BY <1>1, <1>2, <2>1, <2>2
<1>4. ASSUME NEW i \in DOMAIN b, NEW j \in DOMAIN b, i < j PROVE b[i] < b[j]
  <2>1. CASE j \in 1..Len(a)
    <3>1. i \in DOMAIN a /\ j \in DOMAIN a
      BY <1>1, <1>2, <1>4, <2>1
    <3> QED
      BY <1>1, <1>2, <1>4, <2>1, <3>1
  <2>2. CASE j > Len(a) /\ i \in 1..Len(a)
    <3>1. b[j] = next + (j - Len(a)) - 1 /\ b[i] = a[i] /\ a[i] \in 1..next - 1 /\ j \in 1..Len(a) + k
      BY <1>1, <1>2, <2>2
    <3> QED
      BY <1>1, <2>2, <3>1
  <2>3. CASE j > Len(a) /\ i > Len(a)
    <3>1. b[j] = next + (j - Len(a)) - 1 /\ b[i] = next + (i - Len(a)) - 1 /\ i \in Nat /\ j \in Nat
      BY <1>1, <1>2, <2>3, SMTT(30)
    <3> QED
      BY <1>1, <1>4, <3>1
  <2> QED
    BY <1>1, <1>2, <2>1, <2>2, <2>3
<1>5. gone \subseteq 1..next + k - 1 /\ next + k \in Nat
  BY <1>1
<1>6. Once(b, gone, next + k)
  BY <1>2, <1>3, <1>4, <1>5 DEF Once, Range
<1> QED
  BY <1>6 DEF b

\* The next lines are lost.
LEMMA OnceLost ==
  ASSUME NEW a, NEW gone, NEW next \in Nat \ {0}, NEW k \in Nat, NEW from \in Nat, from >= next, Once(a, gone, next)
  PROVE  Once(a, gone \cup (from..next + k - 1), next + k)
<1>1. /\ a \in Seq(Nat) /\ \A i, j \in DOMAIN a : i < j => a[i] < a[j]
      /\ Range(a) \cap gone = {} /\ Range(a) \subseteq 1..next - 1 /\ gone \subseteq 1..next - 1
  BY DEF Once
<1>2. \A n \in 1..next - 1 : n \notin from..next + k - 1 /\ n \in 1..next + k - 1
  OBVIOUS
<1>3. from..next + k - 1 \subseteq 1..next + k - 1 /\ next + k \in Nat
  OBVIOUS
<1>4. Range(a) \cap (gone \cup (from..next + k - 1)) = {}
  BY <1>1, <1>2
<1>5. Range(a) \cup (gone \cup (from..next + k - 1)) \subseteq 1..next + k - 1
  BY <1>1, <1>2, <1>3
<1> QED
  BY <1>1, <1>3, <1>4, <1>5 DEF Once

\* What is not answered after all.
LEMMA OncePrefix ==
  ASSUME NEW a \in Seq(Nat), NEW b \in Seq(Nat), NEW gone, NEW next, Once(a \o b, gone, next)
  PROVE  Once(a, gone, next)
<1> DEFINE c == a \o b
<1>1. /\ DOMAIN a = 1..Len(a) /\ DOMAIN c = 1..Len(a) + Len(b) /\ Len(a) \in Nat /\ Len(b) \in Nat
      /\ \A i \in DOMAIN a : i \in DOMAIN c /\ c[i] = a[i]
  OBVIOUS
<1> HIDE DEF c
<1>2. Once(c, gone, next)
  BY DEF c
<1>3. Range(a) \subseteq Range(c)
  BY <1>1 DEF Range
<1>4. \A i, j \in DOMAIN a : i < j => a[i] < a[j]
  BY <1>1, <1>2 DEF Once
<1> QED
  BY <1>2, <1>3, <1>4 DEF Once

\* Between two calls what is answered is what was handed.
LEMMA NothingPending == ASSUME TermTypes, call.text = <<>> PROVE handed \o call.text = handed
BY DEF TermTypes

LEMMA OnceBegins == TerminalInit => OnceInv
BY KindsDiffer DEF TerminalInit, OnceInv, Once, Range, NoCall

LEMMA OnceLines ==
  ASSUME TermTypes, CallShape, OnceInv, NEW k \in 1..MaxLines, LinesCome(k), ~tty
  PROVE  Once(handed' \o call'.text, lost', nextLine')
<1>0. /\ nextLine' = nextLine + k /\ nextLine \in Nat \ {0} /\ k \in Nat \ {0} /\ k - 1 \in Nat
      /\ handed \in Seq(Nat) /\ call.text \in Seq(Nat) /\ Once(handed \o call.text, lost, nextLine)
  <2>1. nextLine' = nextLine + k
    BY DEF LinesCome
  <2>2. nextLine \in Nat \ {0} /\ k \in Nat \ {0} /\ k - 1 \in Nat
    BY TerminalAssumption DEF TermTypes, TerminalTypeOK
  <2>3. handed \in Seq(Nat) /\ call.text \in Seq(Nat)
    BY DEF TermTypes
  <2> QED
    BY <2>1, <2>2, <2>3 DEF OnceInv
<1>1. CASE call.kind = "readAll"
  <2>1. call' = [call EXCEPT !.text = @ \o Chunk(nextLine, k)] /\ lost' = lost /\ handed' = handed
    BY <1>1 DEF LinesCome, Chunk
  <2>2. call'.text = call.text \o Chunk(nextLine, k)
    BY <2>1 DEF TermTypes
  <2>3. Chunk(nextLine, k) \in Seq(Nat)
    BY <1>0 DEF Chunk
  <2>4. handed \o (call.text \o Chunk(nextLine, k)) = (handed \o call.text) \o Chunk(nextLine, k)
    <3>1. PICK c \in Seq(Nat) : c = Chunk(nextLine, k)
      BY <2>3
    <3>2. handed \o (call.text \o c) = (handed \o call.text) \o c
      <4>1. PICK t \in Seq(Nat) : t = call.text
        BY <1>0
      <4>2. handed \o (t \o c) = (handed \o t) \o c
        <5>1. PICK h \in Seq(Nat) : h = handed
          BY <1>0
        <5>2. (h \o t) \o c = h \o (t \o c)
          BY ConcatAssociative, SMTT(30)
        <5> QED
          BY <5>1, <5>2
      <4> QED
        BY <4>1, <4>2
    <3> QED
      BY <3>1, <3>2
  <2>5. Once((handed \o call.text) \o Chunk(nextLine, k), lost, nextLine + k)
    <3>1. PICK a : a = handed \o call.text
      OBVIOUS
    <3>2. Once(a, lost, nextLine)
      BY <1>0, <3>1
    <3>3. Once(a \o Chunk(nextLine, k), lost, nextLine + k)
      BY <1>0, <3>2, OnceMore
    <3> QED
      BY <3>1, <3>3
  <2> QED
    BY <1>0, <2>1, <2>2, <2>4, <2>5
<1>2. CASE call.kind # "readAll"
  <2>1. PICK reply : Question(reply, nextLine)
    BY <1>2 DEF LinesCome
  <2>2. lost' = lost \cup ((nextLine + (IF call = NoCall THEN 0 ELSE 1))..(nextLine + k - 1))
    BY <1>2 DEF LinesCome
  <2>3. Once(handed, lost, nextLine) /\ call.text = <<>>
    BY <1>0, <1>2, NothingPending DEF CallShape
  <2>4. call'.text = <<>>
    BY <1>0, <2>1, <2>3, QuestionIs, KindsDiffer
  <2>5. handed' = handed \/ (handed' = handed \o <<nextLine>> /\ call # NoCall)
    BY <1>0, <2>1, QuestionIs, KindsDiffer
  <2>6. handed' \o call'.text = handed'
    <3>1. handed' \in Seq(Nat)
      BY LinesComeShape DEF TermTypes
    <3> QED
      BY <2>4, <3>1
  <2>7. CASE handed' = handed
    <3>1. PICK from \in Nat : from = nextLine + (IF call = NoCall THEN 0 ELSE 1)
      BY <1>0
    <3>2. from >= nextLine
      BY <1>0, <3>1
    <3>3. Once(handed, lost \cup (from..nextLine + k - 1), nextLine + k)
      BY <1>0, <2>3, <3>2, OnceLost
    <3> QED
      BY <1>0, <2>2, <2>6, <2>7, <3>1, <3>3
  <2>8. CASE handed' = handed \o <<nextLine>> /\ call # NoCall
    <3>1. Chunk(nextLine, 1) = <<nextLine>>
      BY <1>0 DEF Chunk
    <3>2. Once(handed \o Chunk(nextLine, 1), lost, nextLine + 1)
      BY <1>0, <2>3, OnceMore
    <3>0. PICK a : a = handed \o <<nextLine>>
      OBVIOUS
    <3>9. PICK next \in Nat \ {0} : next = nextLine + 1
      BY <1>0
    <3>8. PICK j \in Nat : j = k - 1
      BY <1>0
    <3>3. a = handed \o <<nextLine>> /\ next = nextLine + 1 /\ j = k - 1
      BY <3>0, <3>8, <3>9
    <3>4. Once(a, lost, next)
      BY <3>1, <3>2, <3>3
    <3>5. Once(a, lost \cup (next..next + j - 1), next + j)
      <4>1. next >= next
        OBVIOUS
      <4>2. next \in Nat
        OBVIOUS
      <4> QED
        BY <3>4, <4>1, <4>2, OnceLost
    <3>6. next + j = nextLine + k /\ next + j - 1 = nextLine + k - 1
      BY <1>0, <3>3
    <3>7. lost' = lost \cup (next..nextLine + k - 1)
      BY <2>2, <2>8, <3>3
    <3> QED
      BY <1>0, <2>6, <2>8, <3>3, <3>5, <3>6, <3>7
  <2> QED
    BY <2>5, <2>7, <2>8
<1> QED
  BY <1>1, <1>2

\* Every step keeps the lines in order.
LEMMA OnceStep == ASSUME TermTypes, CallShape, OnceInv, [TerminalNext]_terminalVars PROVE OnceInv'
<1> SUFFICES ASSUME ~tty' PROVE Once(handed' \o call'.text, lost', nextLine')
  BY DEF OnceInv
<1>0. tty' = tty
  BY DEF TerminalNext, ReadPassword, ReadTerminalLine, ReadAll, Pressed, LinesCome, InputEnds, InputFails,
         ReadTimesOut, terminalVars
<1>1. ~tty /\ Once(handed \o call.text, lost, nextLine)
  BY <1>0 DEF OnceInv
<1>2. handed \in Seq(Nat) /\ call.text \in Seq(Nat)
  BY DEF TermTypes
<1>3. Once(handed, lost, nextLine)
  BY <1>1, <1>2, OncePrefix
\* A call begins, or is over with nothing that it read.
<1>4. ASSUME call'.text = <<>>, handed' = handed, UNCHANGED <<lost, nextLine>>
      PROVE  Once(handed' \o call'.text, lost', nextLine')
  <2>1. handed' \o call'.text = handed
    BY <1>2, <1>4
  <2> QED
    BY <1>3, <1>4, <2>1
<1>5. ASSUME NEW timed \in BOOLEAN, ReadPassword(timed) PROVE Once(handed' \o call'.text, lost', nextLine')
  BY <1>1, <1>4, <1>5, KindsDiffer DEF ReadPassword, Begins, Tells
<1>6. ASSUME NEW timed \in BOOLEAN, NEW kind \in {"line", "confirm"}, ReadTerminalLine(kind, timed)
      PROVE Once(handed' \o call'.text, lost', nextLine')
  BY <1>4, <1>6 DEF ReadTerminalLine, ReadBegins
<1>7. ASSUME ReadAll PROVE Once(handed' \o call'.text, lost', nextLine')
  BY <1>1, <1>4, <1>7 DEF ReadAll, ReadBegins
<1>8. ASSUME NEW key \in Presses, Pressed(key) PROVE FALSE
  BY <1>1, <1>8 DEF Pressed
<1>9. ASSUME NEW k \in 1..MaxLines, LinesCome(k) PROVE Once(handed' \o call'.text, lost', nextLine')
  BY <1>1, <1>9, OnceLines
<1>10. ASSUME InputEnds PROVE Once(handed' \o call'.text, lost', nextLine')
  <2>1. call' = NoCall /\ UNCHANGED <<lost, nextLine>>
    BY <1>10, InputEndsIs DEF InputEnds
  <2>2. CASE handed' = handed
    BY <1>4, <2>1, <2>2, KindsDiffer
  <2>3. CASE handed' = handed \o call.text
    <3>1. handed' \in Seq(Nat)
      BY <1>2, <2>3
    <3>2. handed' \o call'.text = handed'
      BY <2>1, <3>1, KindsDiffer
    <3> QED
      BY <1>1, <2>1, <2>3, <3>2
  <2> QED
    BY <1>10, <2>2, <2>3, InputEndsIs
<1>11. ASSUME InputFails PROVE Once(handed' \o call'.text, lost', nextLine')
  BY <1>4, <1>11, InputFailsIs, KindsDiffer DEF InputFails
<1>12. ASSUME ReadTimesOut PROVE Once(handed' \o call'.text, lost', nextLine')
  BY <1>4, <1>12, NoLineIs, KindsDiffer DEF ReadTimesOut
<1>13. ASSUME UNCHANGED terminalVars PROVE Once(handed' \o call'.text, lost', nextLine')
  BY <1>1, <1>13 DEF terminalVars
<1> QED
  BY <1>5, <1>6, <1>7, <1>8, <1>9, <1>10, <1>11, <1>12, <1>13 DEF TerminalNext

-----------------------------------------------------------------------------
(* The replies to a question. *)

\* Nobody said yes or no, and a pipe nothing.
Unsettled == (\A n \in DOMAIN replies : replies[n] = "other") /\ (~tty => replies = <<>>)

\* The last reply alone may say yes or no, and it alone of a pipe.
LastAlone == (\A n \in 1..Len(replies) - 1 : replies[n] = "other") /\ (~tty => Len(replies) <= 1)

ConfirmInv ==
  /\ call.kind = "confirm" => Unsettled
  /\ call = NoCall /\ told.kind = "confirm" =>
       /\ LastAlone /\ (told.answer.form = "true" => Last(replies) = "yes")
       /\ interfaces # {} => told.answer.form # "true" /\ Unsettled

LEMMA UnsettledIsLast == ASSUME TermTypes, Unsettled PROVE LastAlone
<1>1. replies \in Seq({"yes", "no", "other"})
  BY DEF TermTypes
<1> QED
  BY <1>1 DEF Unsettled, LastAlone

LEMMA OneMoreReply ==
  ASSUME TermTypes, Unsettled, NEW reply, replies' = Append(replies, reply), tty' = tty
  PROVE  LastAlone' /\ Last(replies') = reply /\ (reply = "other" /\ tty => Unsettled')
<1>1. replies \in Seq({"yes", "no", "other"}) /\ Len(replies) \in Nat /\ DOMAIN replies = 1..Len(replies)
  BY DEF TermTypes
<1>2. /\ Len(replies') = Len(replies) + 1 /\ replies'[Len(replies) + 1] = reply
      /\ DOMAIN replies' = 1..Len(replies) + 1 /\ \A n \in 1..Len(replies) : replies'[n] = replies[n]
  BY <1>1
<1>3. LastAlone'
  <2>1. \A n \in 1..Len(replies') - 1 : replies'[n] = "other"
    BY <1>1, <1>2 DEF Unsettled
  <2>2. ~tty => Len(replies') <= 1
    BY <1>1, <1>2 DEF Unsettled
  <2> QED
    BY <2>1, <2>2 DEF LastAlone
<1>4. Last(replies') = reply
  BY <1>2 DEF Last
<1>5. ASSUME reply = "other", tty PROVE Unsettled'
  <2>1. \A n \in DOMAIN replies' : replies'[n] = "other"
    BY <1>1, <1>2, <1>5 DEF Unsettled
  <2> QED
    BY <1>5, <2>1 DEF Unsettled
<1> QED
  BY <1>3, <1>4, <1>5

\* The call stays as it is, or is over with an answer that is not a yes.
LEMMA ConfirmQuiet ==
  ASSUME TermTypes, ConfirmInv, UNCHANGED <<tty, replies>>,
         \/ UNCHANGED <<call, told>> /\ interfaces' \subseteq interfaces
         \/ /\ call' = NoCall
            /\ told'.kind = "confirm" => call.kind = "confirm" /\ told'.answer.form # "true"
  PROVE  ConfirmInv'
<1>0. Unsettled' = Unsettled /\ LastAlone' = LastAlone
  BY DEF Unsettled, LastAlone
<1>1. CASE UNCHANGED <<call, told>> /\ interfaces' \subseteq interfaces
  BY <1>0, <1>1 DEF ConfirmInv
<1>2. CASE call' = NoCall /\ (told'.kind = "confirm" => call.kind = "confirm" /\ told'.answer.form # "true")
  BY <1>0, <1>2, UnsettledIsLast, KindsDiffer DEF ConfirmInv
<1> QED
  BY <1>1, <1>2

\* A line, or an enter: it is the reply to the question, if there is one.
LEMMA ConfirmReply ==
  ASSUME TermTypes, CallShape, ConfirmInv, tty' = tty, asked' = asked, interfaces # {}, NEW n \in Nat,
         NEW reply \in {"yes", "no", "other"}, replies' = Append(replies, reply), Question(reply, n)
  PROVE  ConfirmInv'
<1>1. CASE /\ call.kind = "line" /\ interfaces' = {} /\ call' = NoCall
           /\ told' = [kind |-> "line", answer |-> Got("some", <<n>>)]
  BY <1>1, KindsDiffer DEF ConfirmInv
<1>2. CASE /\ call.kind = "confirm" /\ interfaces' = {} /\ call' = NoCall
           /\ told' = [kind |-> "confirm", answer |-> Got(IF reply = "yes" THEN "true" ELSE "false", <<>>)]
  <2>1. Unsettled
    BY <1>2 DEF ConfirmInv
  <2>2. LastAlone' /\ Last(replies') = reply
    BY <2>1, OneMoreReply
  <2>3. told'.answer.form = IF reply = "yes" THEN "true" ELSE "false"
    BY <1>2 DEF Got
  <2>4. told'.answer.form = "true" => reply = "yes"
    BY <2>3
  <2> QED
    BY <1>2, <2>2, <2>4, KindsDiffer DEF ConfirmInv
<1>3. CASE call.kind = "confirm" /\ reply = "other" /\ tty /\ UNCHANGED <<told, call>>
  <2>1. Unsettled
    BY <1>3 DEF ConfirmInv
  <2>2. Unsettled'
    BY <1>3, <2>1, OneMoreReply
  <2> QED
    BY <1>3, <2>2, KindsDiffer DEF ConfirmInv
<1>4. CASE call.kind \notin {"line", "confirm"} /\ interfaces' = {} /\ UNCHANGED <<told, call>>
  <2>1. CASE call = NoCall /\ told.kind = "confirm"
    <3>1. Unsettled /\ told.answer.form # "true"
      BY <2>1 DEF ConfirmInv
    <3>2. LastAlone'
      BY <3>1, OneMoreReply
    <3> QED
      BY <1>4, <3>1, <3>2 DEF ConfirmInv
  <2>2. CASE ~(call = NoCall /\ told.kind = "confirm")
    BY <1>4, <2>2 DEF ConfirmInv
  <2> QED
    BY <2>1, <2>2
<1> QED
  BY <1>1, <1>2, <1>3, <1>4, QuestionIs

LEMMA ConfirmBegins == TerminalInit => ConfirmInv
BY KindsDiffer DEF TerminalInit, ConfirmInv

\* Every step keeps what a question was told.
LEMMA ConfirmStep == ASSUME TermTypes, CallShape, ConfirmInv, [TerminalNext]_terminalVars PROVE ConfirmInv'
<1>1. ASSUME NEW timed \in BOOLEAN, ReadPassword(timed) PROVE ConfirmInv'
  <2>1. \/ call' = NoCall /\ told'.kind = "password"
        \/ call' = [kind |-> "password", timed |-> timed, text |-> <<>>]
    BY <1>1 DEF ReadPassword, Begins, Tells, ReadBegins
  <2>2. CASE call' = NoCall /\ told'.kind = "password"
    BY <2>2, KindsDiffer DEF ConfirmInv
  <2>3. CASE call' = [kind |-> "password", timed |-> timed, text |-> <<>>]
    <3>1. call'.kind = "password"
      BY <2>3
    <3> QED
      BY <3>1, KindsDiffer DEF ConfirmInv
  <2> QED
    BY <2>1, <2>2, <2>3
<1>2. ASSUME NEW timed \in BOOLEAN, NEW kind \in {"line", "confirm"}, ReadTerminalLine(kind, timed) PROVE ConfirmInv'
  <2>1. call'.kind = kind /\ replies' = <<>>
    BY <1>2 DEF ReadTerminalLine, Begins, ReadBegins
  <2>2. Unsettled'
    BY <2>1 DEF Unsettled
  <2> QED
    BY <2>1, <2>2, KindsDiffer DEF ConfirmInv
<1>3. ASSUME ReadAll PROVE ConfirmInv'
  <2>1. \/ call' = NoCall /\ told'.kind = "readAll"
        \/ call'.kind = "readAll"
    BY <1>3 DEF ReadAll, Begins, Tells, ReadBegins
  <2> QED
    BY <2>1, KindsDiffer DEF ConfirmInv
<1>4. ASSUME NEW key \in Presses, Pressed(key) PROVE ConfirmInv'
  <2>0. tty' = tty /\ asked' = asked /\ pressed' \in Nat
    BY <1>4, TerminalAssumption DEF Pressed, TermTypes, TerminalTypeOK
  <2>1. CASE PasswordKey(key)
    <3>1. call.kind = "password" /\ replies' = replies /\ interfaces' \subseteq interfaces
      BY <2>1, StillOpenIs DEF PasswordKey
    <3>2. CASE Ends(key)
      <4>1. PICK l \in listeners : Settles(Password(l.chars, key))
        BY <2>1, <3>2 DEF PasswordKey
      <4>2. call' = NoCall /\ told'.kind = "password"
        <5>1. PICK answer : answer = Password(l.chars, key)
          OBVIOUS
        <5>2. call' = NoCall /\ told' = [kind |-> call.kind, answer |-> answer]
          BY <4>1, <5>1, SettlesIs
        <5> QED
          BY <3>1, <5>2
      <4> QED
        BY <2>0, <3>1, <4>2, ConfirmQuiet
    <3>3. CASE ~Ends(key)
      BY <2>0, <2>1, <3>1, <3>3, ConfirmQuiet DEF PasswordKey, Goes
    <3> QED
      BY <3>2, <3>3
  <2>2. CASE LineKey(key)
    <3>1. interfaces # {}
      BY <2>2 DEF LineKey
    <3>2. CASE \E reply \in {"yes", "no", "other"} : replies' = Append(replies, reply) /\ Question(reply, pressed')
      BY <2>0, <3>1, <3>2, ConfirmReply
    <3>3. CASE UNCHANGED replies /\ NoLine
      <4>1. call' = NoCall /\ told'.kind = call.kind
            /\ told'.answer = IF call.kind = "confirm" THEN Got("false", <<>>) ELSE Nobody
        BY <3>3, NoLineIs
      <4>2. call.kind = "confirm" => told'.answer.form = "false"
        BY <4>1 DEF Got
      <4> QED
        BY <2>0, <3>3, <4>1, <4>2, ConfirmQuiet
    <3>4. CASE UNCHANGED replies /\ Goes /\ interfaces' \subseteq interfaces
      BY <2>0, <3>4, ConfirmQuiet DEF Goes
    <3>5. \/ \E reply \in {"yes", "no", "other"} : replies' = Append(replies, reply) /\ Question(reply, pressed')
          \/ UNCHANGED replies /\ NoLine
          \/ UNCHANGED replies /\ Goes /\ interfaces' \subseteq interfaces
      <4>1. CASE \E reply \in {"yes", "no", "other"} : replies' = Append(replies, reply) /\ Question(reply, pressed')
        BY <4>1
      <4>2. CASE /\ UNCHANGED replies
                 /\ \E open \in StillOpen(key) :
                      /\ interfaces' = open
                      /\ IF asked \in interfaces \ open /\ call # NoCall THEN NoLine ELSE Goes
        BY <4>2, StillOpenIs
      <4>3. CASE Goes /\ UNCHANGED <<interfaces, replies>>
        BY <4>3
      <4> QED
        BY <2>2, <4>1, <4>2, <4>3 DEF LineKey
    <3> QED
      BY <3>2, <3>3, <3>4, <3>5
  <2> QED
    BY <1>4, <2>1, <2>2 DEF Pressed
<1>5. ASSUME NEW k \in 1..MaxLines, LinesCome(k) PROVE ConfirmInv'
  <2>0. tty' = tty /\ asked' = asked /\ nextLine \in Nat
    BY <1>5, TerminalAssumption DEF LinesCome, TermTypes, TerminalTypeOK
  <2>1. CASE call.kind = "readAll"
    <3>1. call'.kind = "readAll"
      <4>1. PICK text : call' = [call EXCEPT !.text = text]
        BY <1>5, <2>1 DEF LinesCome
      <4> QED
        BY <2>1, <4>1 DEF TermTypes
    <3> QED
      BY <3>1, KindsDiffer DEF ConfirmInv
  <2>2. CASE call.kind # "readAll"
    BY <1>5, <2>0, <2>2, ConfirmReply DEF LinesCome
  <2> QED
    BY <2>1, <2>2
<1>6. ASSUME InputEnds PROVE ConfirmInv'
  <2>1. UNCHANGED <<tty, replies>> /\ interfaces' = {}
    BY <1>6 DEF InputEnds
  <2>2. \/ UNCHANGED <<call, told>>
        \/ call' = NoCall /\ told'.kind = "readAll"
        \/ call' = NoCall /\ told' = [kind |-> call.kind, answer |-> IF call.kind = "confirm" THEN Got("false", <<>>) ELSE Nobody]
    BY <1>6, InputEndsIs, KindsDiffer
  <2>3. told' = [kind |-> call.kind, answer |-> IF call.kind = "confirm" THEN Got("false", <<>>) ELSE Nobody]
          => (told'.kind = "confirm" => call.kind = "confirm" /\ told'.answer.form # "true")
    BY DEF Got
  <2> QED
    BY <2>1, <2>2, <2>3, ConfirmQuiet
<1>7. ASSUME InputFails PROVE ConfirmInv'
  BY <1>7, InputFailsIs, KindsDiffer DEF ConfirmInv
<1>8. ASSUME ReadTimesOut PROVE ConfirmInv'
  <2>1. UNCHANGED <<tty, replies>> /\ NoLine
    BY <1>8 DEF ReadTimesOut
  <2>2. call' = NoCall /\ told' = [kind |-> call.kind, answer |-> IF call.kind = "confirm" THEN Got("false", <<>>) ELSE Nobody]
    BY <2>1, NoLineIs
  <2>3. told'.kind = "confirm" => call.kind = "confirm" /\ told'.answer.form # "true"
    BY <2>2 DEF Got
  <2> QED
    BY <2>1, <2>2, <2>3, ConfirmQuiet
<1>9. ASSUME UNCHANGED terminalVars PROVE ConfirmInv'
  BY <1>9, ConfirmQuiet DEF terminalVars
<1> QED
  BY <1>1, <1>2, <1>3, <1>4, <1>5, <1>6, <1>7, <1>8, <1>9 DEF TerminalNext

-----------------------------------------------------------------------------
(* The password. *)

\* No call has two listeners.
OwnListeners == \A l, m \in listeners : l.owner = m.owner => l = m

\* The listener of the call that runs has the characters of its keys, and alone it has their asterisks.
Listening ==
  call.kind = "password" =>
    /\ Len(keys) <= pressed
    /\ \A l \in listeners :
         l.owner = asked => /\ Tracks(l.chars, keys, pressed - Len(keys))
                            /\ listeners = {l} => stars = Len(l.chars)

PasswordTold ==
  call = NoCall /\ told.kind = "password" /\ told.answer.form = "some" =>
    /\ Last(keys) = "enter" \/ (Last(keys) = "eof" /\ told.answer.text # <<>>)
    /\ \E start \in 0..pressed : AreTyped(told.answer.text, start)

PasswordInv == OwnListeners /\ Listening /\ PasswordTold

LEMMA PasswordBegins == TerminalInit => PasswordInv
BY KindsDiffer DEF TerminalInit, PasswordInv, OwnListeners, Listening, PasswordTold

\* The listeners stay, and the call is over with another answer than a password, or it is as before.
LEMMA PasswordQuiet ==
  ASSUME TermTypes, PasswordInv, UNCHANGED <<keys, pressed, asked, listeners>>,
         \/ UNCHANGED <<call, told, stars>>
         \/ /\ call'.kind # "password" 
            /\ call' = NoCall => told'.kind # "password" \/ told'.answer.form # "some"
  PROVE  PasswordInv'
<1>1. CASE UNCHANGED <<call, told, stars>>
  <2>1. \A chars, start : AreTyped(chars, start)' <=> AreTyped(chars, start)
    BY DEF AreTyped, Stays
  <2>2. OwnListeners' /\ Listening'
    BY <1>1 DEF PasswordInv, OwnListeners, Listening
  <2>3. PasswordTold'
    BY <1>1, <2>1 DEF PasswordInv, PasswordTold
  <2> QED
    BY <2>2, <2>3 DEF PasswordInv
<1>2. CASE call'.kind # "password" /\ (call' = NoCall => told'.kind # "password" \/ told'.answer.form # "some")
  BY <1>2 DEF PasswordInv, OwnListeners, Listening, PasswordTold
<1> QED
  BY <1>1, <1>2

LEMMA PasswordRead == ASSUME TermTypes, PasswordInv, NEW timed \in BOOLEAN, ReadPassword(timed) PROVE PasswordInv'
<1>1. asked' = asked + 1 /\ asked \in Nat /\ keys' = <<>> /\ pressed' = pressed /\ pressed \in Nat /\ call = NoCall
  BY TerminalAssumption DEF ReadPassword, Begins, TermTypes, TerminalTypeOK
<1>2. CASE Tells("password", Got("error", <<>>)) /\ UNCHANGED <<call, listeners>>
  <2>1. told'.answer.form = "error"
    BY <1>2 DEF Tells, Got
  <2> QED
    BY <1>1, <1>2, <2>1, KindsDiffer DEF PasswordInv, OwnListeners, Listening, PasswordTold
<1>3. CASE ReadBegins("password", timed) /\ stars' = 0 /\ listeners' = listeners \cup {[owner |-> asked', chars |-> <<>>]}
  <2>1. PICK new : new = [owner |-> asked', chars |-> <<>>]
    OBVIOUS
  <2>2. listeners' = listeners \cup {new} /\ new.owner = asked' /\ new.chars = <<>>
    BY <1>3, <2>1
  <2>3. \A l \in listeners : l.owner # asked'
    BY <1>1 DEF TermTypes, TerminalTypeOK
  <2>4. OwnListeners'
    BY <2>2, <2>3 DEF PasswordInv, OwnListeners
  <2>5. Tracks(new.chars, keys', pressed' - Len(keys')) /\ Len(keys') = 0
    <3>1. Len(keys') = 0 /\ pressed' - Len(keys') = pressed
      BY <1>1
    <3>2. Tracks(<<>>, <<>>, pressed)
      BY <1>1, TracksNothing
    <3> QED
      BY <1>1, <2>2, <3>1, <3>2
  <2>6. Listening'
    <3>1. \A l \in listeners' : l.owner = asked' => l = new
      BY <2>2, <2>3
    <3>2. stars' = Len(new.chars)
      BY <1>3, <2>2
    <3> QED
      BY <1>1, <2>5, <3>1, <3>2 DEF Listening
  <2>7. call'.kind = "password"
    BY <1>3 DEF ReadBegins
  <2>8. PasswordTold'
    BY <2>7, KindsDiffer DEF PasswordTold
  <2> QED
    BY <2>4, <2>6, <2>8 DEF PasswordInv
<1> QED
  BY <1>2, <1>3 DEF ReadPassword

\* Another call that begins has no listener.
LEMMA PasswordOther ==
  ASSUME TermTypes, PasswordInv, listeners' = listeners, call'.kind # "password",
         call' = NoCall => told'.kind # "password"
  PROVE  PasswordInv'
BY DEF PasswordInv, OwnListeners, Listening, PasswordTold

LEMMA TypedNext == \A chars, start : AreTyped(chars, start)' <=> TypedIn(chars, keys', start)
<1>1. \A i : Stays(i)' <=> StaysIn(keys', i)
  BY DEF Stays, StaysIn, CountIn
<1> QED
  BY <1>1 DEF AreTyped, TypedIn

\* What a key does to a listener.
KeyOf(l, key) == [l EXCEPT !.chars = Struck(l.chars, key)]

LEMMA KeyOfIs ==
  ASSUME TermTypes, NEW l \in listeners, NEW key
  PROVE  KeyOf(l, key).owner = l.owner /\ KeyOf(l, key).chars = Struck(l.chars, key)
<1>1. l \in [owner : 1..asked, chars : Seq(1..MaxKeys)]
  BY DEF TermTypes
<1> QED
  BY <1>1 DEF KeyOf

LEMMA OwnersStay ==
  ASSUME TermTypes, OwnListeners, NEW key, listeners' = {KeyOf(l, key) : l \in listeners}
  PROVE  OwnListeners'
<1> SUFFICES ASSUME NEW l \in listeners', NEW m \in listeners', l.owner = m.owner PROVE l = m
  BY DEF OwnListeners
<1>1. PICK k \in listeners : l = KeyOf(k, key)
  OBVIOUS
<1>2. PICK n \in listeners : m = KeyOf(n, key)
  OBVIOUS
<1>3. k.owner = n.owner
  BY <1>1, <1>2, KeyOfIs
<1> QED
  BY <1>1, <1>2, <1>3 DEF OwnListeners

LEMMA SeqWider == ASSUME NEW S, NEW T, S \subseteq T, NEW s \in Seq(S) PROVE s \in Seq(T)
<1>1. Len(s) \in Nat /\ DOMAIN s = 1..Len(s) /\ \A i \in 1..Len(s) : s[i] \in S
  OBVIOUS
<1>2. \A i \in 1..Len(s) : s[i] \in T
  BY <1>1
<1>3. s = [i \in 1..Len(s) |-> s[i]]
  OBVIOUS
<1>4. [i \in 1..Len(s) |-> s[i]] \in Seq(T)
  BY <1>1, <1>2
<1> QED
  BY <1>3, <1>4

LEMMA CharsType == ASSUME TermTypes, NEW l \in listeners PROVE l.chars \in Seq(1..MaxKeys) /\ l.chars \in Seq(Nat)
<1>1. l.chars \in Seq(1..MaxKeys) /\ 1..MaxKeys \subseteq Nat
  BY TerminalAssumption DEF TermTypes, TerminalTypeOK
<1>2. PICK c \in Seq(1..MaxKeys) : c = l.chars
  BY <1>1
<1>3. c \in Seq(Nat)
  BY <1>1, SeqWider
<1> QED
  BY <1>1, <1>2, <1>3

\* An enter or a line tells something of the call that it ends, of no password.
LEMMA QuestionTells ==
  ASSUME TermTypes, NEW reply, NEW n \in Nat, Question(reply, n)
  PROVE  UNCHANGED <<call, told>> \/ (call' = NoCall /\ told'.kind # "password")
<1>1. CASE call' = NoCall /\ told' = [kind |-> "line", answer |-> Got("some", <<n>>)]
  BY <1>1
<1>2. CASE call' = NoCall /\ told' = [kind |-> "confirm", answer |-> Got(IF reply = "yes" THEN "true" ELSE "false", <<>>)]
  <2>1. told'.kind = "confirm"
    BY <1>2
  <2> QED
    BY <1>2, <2>1
<1>3. CASE UNCHANGED <<call, told>>
  BY <1>3
<1> QED
  BY <1>1, <1>2, <1>3, QuestionIs

\* The key of a password, for the listener of its call.
LEMMA PasswordTyped ==
  ASSUME TermTypes, PasswordInv, NEW key \in Presses, Pressed(key), call.kind = "password",
         NEW l \in listeners, l.owner = asked
  PROVE  Len(keys') <= pressed' /\ Tracks(Struck(l.chars, key), keys', pressed' - Len(keys'))
<1>0. /\ pressed < MaxKeys /\ pressed' = pressed + 1 /\ pressed \in Nat
      /\ keys' = Append(keys, key) /\ keys \in Seq(Presses)
  BY KindsDiffer, TerminalAssumption DEF Pressed, TermTypes, TerminalTypeOK
<1>1. Len(keys) <= pressed /\ Tracks(l.chars, keys, pressed - Len(keys))
  BY DEF PasswordInv, Listening
<1>2. PICK start \in Nat : start = pressed - Len(keys)
  BY <1>0, <1>1
<1>3. l.chars \in Seq(Nat)
  BY CharsType
<1>4. pressed' = start + Len(keys) + 1
  BY <1>0, <1>2
<1>5. PICK chars \in Seq(Nat) : chars = l.chars
  BY <1>3
<1>6. PICK at : at = pressed'
  OBVIOUS
<1>7. Tracks(IF key = "text" THEN Append(chars, at)
             ELSE IF key = "delete" /\ chars # <<>> THEN Front(chars) ELSE chars, Append(keys, key), start)
  BY <1>0, <1>1, <1>2, <1>4, <1>5, <1>6, TracksKey
<1>8. Tracks(Struck(l.chars, key), keys', start)
  BY <1>0, <1>5, <1>6, <1>7 DEF Struck
<1>9. Len(keys') = Len(keys) + 1 /\ Len(keys) \in Nat
  BY <1>0
<1>10. pressed' - Len(keys') = start /\ Len(keys') <= pressed'
  BY <1>0, <1>1, <1>2, <1>9
<1> QED
  BY <1>8, <1>10

\* The asterisks of one listener.
LEMMA OneShows ==
  ASSUME TermTypes, NEW key, ~Ends(key), NEW l, listeners = {l}, stars = Len(l.chars)
  PROVE  Shown(key) = Len(Struck(l.chars, key))
<1>0. l.chars \in Seq(1..MaxKeys) /\ Len(l.chars) \in Nat
  BY DEF TermTypes, TerminalTypeOK
<1>1. PICK T, D : /\ T = {m \in listeners : key = "text"} /\ D = {m \in listeners : key = "delete" /\ m.chars # <<>>}
                  /\ Shown(key) = stars + Cardinality(T) - Cardinality(D)
  BY DEF Shown
<1>2. Cardinality({l}) = 1 /\ Cardinality({}) = 0
  BY FS_Singleton, FS_EmptySet
<1>3. CASE key = "text"
  <2>1. T = {l} /\ D = {}
    BY <1>1, <1>3
  <2>2. Len(Struck(l.chars, key)) = Len(l.chars) + 1
    BY <1>0, <1>3 DEF Struck
  <2>3. Shown(key) = Len(l.chars) + 1 - 0
    BY <1>1, <1>2, <2>1
  <2> QED
    BY <1>0, <2>2, <2>3
<1>4. CASE key = "delete" /\ l.chars # <<>>
  <2>1. T = {} /\ D = {l}
    BY <1>1, <1>4
  <2>2. Len(Struck(l.chars, key)) = Len(l.chars) - 1
    BY <1>0, <1>4 DEF Struck, Front
  <2>3. Shown(key) = Len(l.chars) + 0 - 1
    BY <1>1, <1>2, <2>1
  <2> QED
    BY <1>0, <2>2, <2>3
<1>5. CASE key # "text" /\ ~(key = "delete" /\ l.chars # <<>>)
  <2>1. T = {} /\ D = {}
    BY <1>1, <1>5
  <2>2. Struck(l.chars, key) = l.chars
    BY <1>5 DEF Struck
  <2>3. Shown(key) = Len(l.chars) + 0 - 0
    BY <1>1, <1>2, <2>1
  <2> QED
    BY <1>0, <2>2, <2>3
<1> QED
  BY <1>3, <1>4, <1>5

LEMMA PasswordPressed ==
  ASSUME TermTypes, CallShape, PasswordInv, NEW key \in Presses, Pressed(key)
  PROVE  PasswordInv'
<1>0. /\ pressed' = pressed + 1 /\ pressed \in Nat /\ asked' = asked /\ stars' = Shown(key)
      /\ keys' = (IF call = NoCall THEN keys ELSE Append(keys, key)) /\ keys \in Seq(Presses)
      /\ listeners' = IF Ends(key) THEN {} ELSE {KeyOf(l, key) : l \in listeners}
  <2>1. pressed \in Nat /\ keys \in Seq(Presses)
    BY TerminalAssumption DEF TermTypes, TerminalTypeOK
  <2>2. listeners' = IF Ends(key) THEN {} ELSE {KeyOf(l, key) : l \in listeners}
    BY DEF Pressed, PasswordKey, LineKey, KeyOf
  <2>3. /\ pressed' = pressed + 1 /\ asked' = asked /\ stars' = Shown(key)
        /\ keys' = (IF call = NoCall THEN keys ELSE Append(keys, key))
    BY DEF Pressed
  <2> QED
    BY <2>1, <2>2, <2>3
<1>1. OwnListeners'
  <2>1. CASE Ends(key)
    BY <1>0, <2>1 DEF OwnListeners
  <2>2. CASE ~Ends(key)
    BY <1>0, <2>2, OwnersStay DEF PasswordInv
  <2> QED
    BY <2>1, <2>2
<1>2. CASE PasswordKey(key) /\ Ends(key)
  <2>1. call.kind = "password"
    BY <1>2 DEF PasswordKey
  <2>2. PICK l \in listeners : l.owner = asked /\ Settles(Password(l.chars, key))
    BY <1>2 DEF PasswordKey
  <2>3. PICK answer : answer = Password(l.chars, key)
    OBVIOUS
  <2>4. call' = NoCall /\ told' = [kind |-> call.kind, answer |-> answer]
    BY <2>2, <2>3, SettlesIs
  <2>5. Listening'
    BY <2>4, KindsDiffer DEF Listening
  <2>6. PasswordTold'
    <3> SUFFICES ASSUME answer.form = "some"
                 PROVE  /\ Last(keys') = "enter" \/ (Last(keys') = "eof" /\ answer.text # <<>>)
                        /\ \E start \in 0..pressed' : AreTyped(answer.text, start)'
      BY <2>4 DEF PasswordTold, AreTyped, Stays
    <3>1. (key = "enter" \/ (key = "eof" /\ l.chars # <<>>)) /\ answer = Got("some", l.chars)
      BY <2>3 DEF Password, Nobody, Got
    <3>2. answer.text = l.chars
      BY <3>1 DEF Got
    <3>3. Last(keys') = key
      BY <1>0, <2>1, KindsDiffer DEF Last
    <3>4. Struck(l.chars, key) = l.chars
      BY <3>1 DEF Struck
    <3>5. Len(keys') <= pressed' /\ Tracks(l.chars, keys', pressed' - Len(keys'))
      BY <2>1, <2>2, <3>4, PasswordTyped
    <3>6. l.chars \in Seq(Nat) /\ pressed + 1 \in Nat
      BY <1>0, CharsType
    <3>7. keys' = Append(keys, key) /\ Append(keys, key) \in Seq(Presses) /\ Len(Append(keys, key)) \in Nat
      BY <1>0, <2>1, KindsDiffer
    <3>8. pressed' - Len(keys') \in 0..pressed'
      <4>1. PICK p \in Nat, n \in Nat : p = pressed' /\ n = Len(keys')
        BY <1>0, <3>6, <3>7
      <4> QED
        BY <3>5, <4>1
    <3>9. PICK start \in Nat : start = pressed' - Len(keys') /\ start \in 0..pressed'
      BY <3>8
    <3>10. PICK chars \in Seq(Nat) : chars = l.chars
      BY <3>6
    <3>11. PICK s \in Seq(Presses) : s = keys'
      BY <3>7
    <3>12. TypedIn(chars, s, start)
      BY <3>5, <3>9, <3>10, <3>11, TracksTyped
    <3>13. AreTyped(chars, start)'
      BY <3>11, <3>12, TypedNext
    <3>14. AreTyped(answer.text, start)'
      BY <3>2, <3>10, <3>13
    <3> QED
      BY <3>1, <3>2, <3>3, <3>9, <3>14
  <2> QED
    BY <1>1, <2>5, <2>6 DEF PasswordInv
<1>3. CASE PasswordKey(key) /\ ~Ends(key)
  <2>1. call.kind = "password" /\ call' = call
    BY <1>3 DEF PasswordKey, Goes
  <2>2. ASSUME NEW m \in listeners', m.owner = asked'
        PROVE  /\ Len(keys') <= pressed' /\ Tracks(m.chars, keys', pressed' - Len(keys'))
               /\ listeners' = {m} => stars' = Len(m.chars)
    <3>1. PICK l \in listeners : m = KeyOf(l, key)
      BY <1>0, <1>3
    <3>2. m.owner = l.owner /\ m.chars = Struck(l.chars, key)
      BY <3>1, KeyOfIs
    <3>3. l.owner = asked
      BY <1>0, <2>2, <3>2
    <3>4. Len(keys') <= pressed' /\ Tracks(m.chars, keys', pressed' - Len(keys'))
      BY <2>1, <3>2, <3>3, PasswordTyped
    <3>5. ASSUME listeners' = {m} PROVE stars' = Len(m.chars)
      <4>1. \A n \in listeners : KeyOf(n, key) = m
        BY <1>0, <1>3, <3>5
      <4>2. \A n \in listeners : n.owner = l.owner
        BY <3>1, <4>1, KeyOfIs
      <4>3. listeners = {l}
        BY <4>2 DEF PasswordInv, OwnListeners
      <4>4. stars = Len(l.chars)
        BY <2>1, <3>3, <4>3 DEF PasswordInv, Listening
      <4> QED
        BY <1>0, <1>3, <3>2, <4>3, <4>4, OneShows
    <3> QED
      BY <3>4, <3>5
  <2>3. Len(keys') <= pressed'
    <3>1. Len(keys) <= pressed /\ keys' = Append(keys, key)
      BY <1>0, <2>1, KindsDiffer DEF PasswordInv, Listening
    <3>2. Len(keys') = Len(keys) + 1 /\ Len(keys) \in Nat
      BY <1>0, <3>1
    <3> QED
      BY <1>0, <3>1, <3>2
  <2>4. Listening'
    BY <2>2, <2>3 DEF Listening
  <2>5. PasswordTold'
    BY <2>1, KindsDiffer DEF PasswordTold
  <2> QED
    BY <1>1, <2>4, <2>5 DEF PasswordInv
<1>4. CASE LineKey(key)
  <2>1. \/ UNCHANGED <<call, told>> /\ call.kind # "password"
        \/ call' = NoCall /\ told'.kind # "password"
    <3>1. call.kind # "password" /\ interfaces # {}
      BY <1>4 DEF LineKey
    <3>2. CASE \E reply \in {"yes", "no", "other"} : Question(reply, pressed')
      <4>1. PICK reply : Question(reply, pressed')
        BY <3>2
      <4>2. PICK n \in Nat : n = pressed'
        BY <1>0
      <4>3. Question(reply, n)
        BY <4>1, <4>2
      <4> QED
        BY <3>1, <4>3, QuestionTells
    <3>3. CASE NoLine
      BY <3>1, <3>3, NoLineIs
    <3>4. CASE Goes
      BY <3>1, <3>4 DEF Goes
    <3> QED
      BY <1>4, <3>2, <3>3, <3>4 DEF LineKey
  <2>2. CASE call' = NoCall /\ told'.kind # "password"
    BY <1>1, <2>2, KindsDiffer DEF PasswordInv, Listening, PasswordTold
  <2>3. CASE UNCHANGED <<call, told>> /\ call.kind # "password"
    <3>1. Listening'
      BY <2>3 DEF Listening
    <3>2. CASE call = NoCall
      <4>1. keys' = keys
        BY <1>0, <3>2
      <4>2. \A chars, start : AreTyped(chars, start)' <=> AreTyped(chars, start)
        BY <4>1 DEF AreTyped, Stays
      <4>3. 0..pressed \subseteq 0..pressed'
        BY <1>0
      <4>4. PasswordTold'
        BY <2>3, <4>1, <4>2, <4>3 DEF PasswordInv, PasswordTold
      <4> QED
        BY <1>1, <3>1, <4>4 DEF PasswordInv
    <3>3. CASE call # NoCall
      BY <1>1, <2>3, <3>1, <3>3 DEF PasswordInv, PasswordTold
    <3> QED
      BY <3>2, <3>3
  <2> QED
    BY <2>1, <2>2, <2>3
<1> QED
  BY <1>2, <1>3, <1>4 DEF Pressed

\* Every step keeps what a password was told.
LEMMA PasswordStep == ASSUME TermTypes, CallShape, PasswordInv, [TerminalNext]_terminalVars PROVE PasswordInv'
<1>1. ASSUME NEW timed \in BOOLEAN, ReadPassword(timed) PROVE PasswordInv'
  BY <1>1, PasswordRead
<1>2. ASSUME NEW timed \in BOOLEAN, NEW kind \in {"line", "confirm"}, ReadTerminalLine(kind, timed) PROVE PasswordInv'
  BY <1>2, PasswordOther, KindsDiffer DEF ReadTerminalLine, ReadBegins
<1>3. ASSUME ReadAll PROVE PasswordInv'
  BY <1>3, PasswordOther, KindsDiffer DEF ReadAll, Begins, Tells, ReadBegins
<1>4. ASSUME NEW key \in Presses, Pressed(key) PROVE PasswordInv'
  BY <1>4, PasswordPressed
<1>5. ASSUME NEW k \in 1..MaxLines, LinesCome(k) PROVE PasswordInv'
  <2>0. UNCHANGED <<keys, pressed, asked, listeners, stars>> /\ call.kind # "password" /\ nextLine \in Nat
    BY <1>5, TerminalAssumption DEF LinesCome, CallShape, TermTypes, TerminalTypeOK
  <2>1. CASE call.kind = "readAll"
    <3>1. call'.kind = "readAll"
      <4>1. PICK text : call' = [call EXCEPT !.text = text]
        BY <1>5, <2>1 DEF LinesCome
      <4> QED
        BY <2>1, <4>1 DEF TermTypes
    <3> QED
      BY <2>0, <3>1, PasswordQuiet, KindsDiffer
  <2>2. CASE call.kind # "readAll"
    <3>1. PICK reply : Question(reply, nextLine)
      BY <1>5, <2>2 DEF LinesCome
    <3>2. \/ UNCHANGED <<call, told>>
          \/ call' = NoCall /\ told'.kind # "password"
      BY <2>0, <3>1, QuestionTells
    <3> QED
      BY <2>0, <3>2, PasswordQuiet, KindsDiffer
  <2> QED
    BY <2>1, <2>2
<1>6. ASSUME InputEnds PROVE PasswordInv'
  <2>0. UNCHANGED <<keys, pressed, asked, listeners, stars>> /\ call.kind # "password"
    BY <1>6 DEF InputEnds, CallShape
  <2>1. \/ UNCHANGED <<call, told>>
        \/ call' = NoCall /\ told'.kind # "password"
    BY <1>6, <2>0, InputEndsIs, KindsDiffer
  <2> QED
    BY <2>0, <2>1, PasswordQuiet, KindsDiffer
<1>7. ASSUME InputFails PROVE PasswordInv'
  BY <1>7, InputFailsIs, PasswordOther, KindsDiffer DEF InputFails
<1>8. ASSUME ReadTimesOut PROVE PasswordInv'
  <2>1. UNCHANGED <<keys, pressed, asked, listeners>> /\ NoLine
    BY <1>8 DEF ReadTimesOut
  <2>2. call' = NoCall /\ told' = [kind |-> call.kind, answer |-> IF call.kind = "confirm" THEN Got("false", <<>>) ELSE Nobody]
    BY <2>1, NoLineIs
  <2>3. told'.kind # "password" \/ told'.answer.form # "some"
    BY <2>2 DEF Nobody, Got
  <2> QED
    BY <2>1, <2>2, <2>3, PasswordQuiet, KindsDiffer
<1>9. ASSUME UNCHANGED terminalVars PROVE PasswordInv'
  BY <1>9, PasswordQuiet DEF terminalVars
<1> QED
  BY <1>1, <1>2, <1>3, <1>4, <1>5, <1>6, <1>7, <1>8, <1>9 DEF TerminalNext

-----------------------------------------------------------------------------

(* Raw mode. *)

\* A terminal is raw while keys are listened to, and a password is echoed by interfaces only.
RawInv ==
  /\ IF tty THEN rawMode = flowing ELSE ~rawMode
  /\ call.kind = "password" => rawMode
  /\ rawMode => call.kind = "password" \/ interfaces # {}
  /\ call.kind = "password" /\ interfaces = {} => echoed = {}

LEMMA RawBegins == TerminalInit => RawInv
BY KindsDiffer DEF TerminalInit, RawInv

\* Nothing is listened to any more.
LEMMA RawEnds ==
  ASSUME TermTypes, rawMode' = FALSE, flowing' = FALSE, UNCHANGED tty, call'.kind # "password"
  PROVE  RawInv'
BY DEF RawInv

\* A key for a password, and one for interfaces.
LEMMA RawPasswordKey ==
  ASSUME TermTypes, CallShape, RawInv, NEW key \in Presses, UNCHANGED tty, PasswordKey(key)
  PROVE  RawInv'
<1>1. CASE Ends(key)
  <2>1. PICK l \in listeners : Settles(Password(l.chars, key))
    BY <1>1 DEF PasswordKey
  <2>2. call'.kind # "password"
    BY <2>1, KindsDiffer DEF Settles
  <2> QED
    BY <1>1, <2>2, RawEnds DEF PasswordKey
<1>2. CASE ~Ends(key)
  <2>1. interfaces' = interfaces /\ UNCHANGED <<call, rawMode, flowing>> /\ (interfaces = {} => echoed' = echoed)
    BY <1>2 DEF PasswordKey, Goes, StillOpen, Ends, Echoed
  <2> QED
    BY <2>1 DEF RawInv
<1> QED
  BY <1>1, <1>2

LEMMA RawLineKey ==
  ASSUME TermTypes, CallShape, RawInv, NEW key \in Presses, UNCHANGED tty, tty, LineKey(key)
  PROVE  RawInv'
<1>1. call.kind # "password"
  BY DEF LineKey
<1>2. CASE \E reply \in {"yes", "no", "other"} :
             Question(reply, pressed') /\ flowing' = (interfaces' # {}) /\ rawMode' = flowing'
  <2>1. call' = call \/ call' = NoCall
    BY <1>2 DEF Question, Settles, Goes
  <2>2. call'.kind # "password"
    BY <1>1, <2>1, KindsDiffer
  <2>3. flowing' = (interfaces' # {}) /\ rawMode' = flowing'
    BY <1>2, Zenon
  <2>4. rawMode' => interfaces' # {}
    BY <2>3
  <2> QED
    BY <2>2, <2>3, <2>4 DEF RawInv
<1>3. CASE \E open \in StillOpen(key) :
             /\ interfaces' = open
             /\ IF open = interfaces THEN UNCHANGED <<rawMode, flowing>> ELSE rawMode' = FALSE /\ flowing' = FALSE
             /\ IF asked \in interfaces \ open /\ call # NoCall THEN NoLine ELSE Goes
  <2>1. call' = call \/ call' = NoCall
    BY <1>3 DEF NoLine, Settles, Goes
  <2>2. call'.kind # "password"
    BY <1>1, <2>1, KindsDiffer
  <2>3. \/ interfaces' = interfaces /\ UNCHANGED <<rawMode, flowing>>
        \/ rawMode' = FALSE /\ flowing' = FALSE
    BY <1>3
  <2>4. CASE interfaces' = interfaces /\ UNCHANGED <<rawMode, flowing>>
    BY <1>1, <2>2, <2>4 DEF RawInv
  <2>5. CASE rawMode' = FALSE /\ flowing' = FALSE
    BY <2>2, <2>5, RawEnds
  <2> QED
    BY <2>3, <2>4, <2>5
<1>4. CASE Goes /\ UNCHANGED <<interfaces, rawMode, flowing>>
  BY <1>1, <1>4 DEF Goes, RawInv
<1> QED
  BY <1>2, <1>3, <1>4 DEF LineKey

\* Every step keeps the terminal raw while keys are listened to.
LEMMA RawStep == ASSUME TermTypes, CallShape, RawInv, [TerminalNext]_terminalVars PROVE RawInv'
<1>1. ASSUME NEW timed \in BOOLEAN, ReadPassword(timed) PROVE RawInv'
  <2>1. CASE Tells("password", Got("error", <<>>)) /\ UNCHANGED <<tty, call, rawMode, flowing, interfaces, echoed>>
    BY <2>1 DEF RawInv
  <2>2. CASE tty /\ UNCHANGED tty /\ ReadBegins("password", timed) /\ rawMode' = TRUE /\ echoed' = {}
    BY <2>2 DEF ReadBegins, RawInv
  <2> QED
    BY <1>1, <2>1, <2>2 DEF ReadPassword
<1>2. ASSUME NEW timed \in BOOLEAN, NEW kind \in {"line", "confirm"}, ReadTerminalLine(kind, timed) PROVE RawInv'
  <2>1. call'.kind = kind /\ flowing' = TRUE /\ rawMode' = tty /\ tty' = tty /\ interfaces' # {}
    BY <1>2 DEF ReadTerminalLine, ReadBegins
  <2> QED
    BY <2>1 DEF RawInv, TermTypes, TerminalTypeOK
<1>3. ASSUME ReadAll PROVE RawInv'
  <2>1. CASE tty /\ call' = call /\ flowing' = flowing
    BY <1>3, <2>1 DEF ReadAll, RawInv
  <2>2. CASE ~tty /\ call'.kind = "readAll"
    BY <1>3, <2>2 DEF ReadAll, RawInv
  <2> QED
    BY <1>3, <2>1, <2>2 DEF ReadAll, ReadBegins
<1>4. ASSUME NEW key \in Presses, Pressed(key) PROVE RawInv'
  BY <1>4, RawPasswordKey, RawLineKey DEF Pressed
\* No terminal.
<1>5. ASSUME ~tty, UNCHANGED <<tty, rawMode>>, call'.kind # "password" PROVE RawInv'
  BY <1>5 DEF RawInv
<1>6. ASSUME NEW k \in 1..MaxLines, LinesCome(k) PROVE RawInv'
  <2>1. ~tty /\ UNCHANGED <<tty, rawMode>>
    BY <1>6 DEF LinesCome
  <2>2. call'.kind # "password"
    BY <1>6, <2>1, LinesComeShape DEF CallShape
  <2> QED
    BY <1>5, <2>1, <2>2
<1>7. ASSUME InputEnds PROVE RawInv'
  BY <1>5, <1>7, InputEndsIs, KindsDiffer DEF InputEnds
<1>8. ASSUME InputFails PROVE RawInv'
  BY <1>5, <1>8, InputFailsIs, KindsDiffer DEF InputFails
<1>9. ASSUME ReadTimesOut PROVE RawInv'
  <2>1. call' = NoCall /\ UNCHANGED <<tty, interfaces>>
    BY <1>9, NoLineIs DEF ReadTimesOut
  <2>2. CASE call.kind = "password"
    BY <1>9, <2>1, <2>2, RawEnds, KindsDiffer DEF ReadTimesOut
  <2>3. CASE call.kind # "password"
    BY <1>9, <2>1, <2>3, KindsDiffer DEF ReadTimesOut, RawInv
  <2> QED
    BY <2>2, <2>3
<1>10. ASSUME UNCHANGED terminalVars PROVE RawInv'
  BY <1>10 DEF terminalVars, RawInv
<1> QED
  BY <1>1, <1>2, <1>3, <1>4, <1>6, <1>7, <1>8, <1>9, <1>10 DEF TerminalNext

-----------------------------------------------------------------------------

TerminalInv == TermTypes /\ CallShape /\ OnceInv /\ ConfirmInv /\ PasswordInv /\ RawInv

LEMMA TerminalInvStep == TerminalInv /\ [TerminalNext]_terminalVars => TerminalInv'
BY ShapeStep, OnceStep, ConfirmStep, PasswordStep, RawStep DEF TerminalInv

LEMMA TerminalInvHolds == TerminalInv => TerminalTypeOK /\ TerminalSound
<1> SUFFICES ASSUME TerminalInv PROVE TerminalTypeOK /\ TerminalSound
  OBVIOUS
<1>1. TerminalTypeOK /\ RawInv
  BY DEF TerminalInv, TermTypes
<1>2. ASSUME NEW l \in listeners, l.owner = asked, call.kind = "password"
      PROVE  AreTyped(l.chars, pressed - Len(keys)) /\ (listeners = {l} => stars = Len(l.chars))
  <2>1. /\ Len(keys) <= pressed /\ Tracks(l.chars, keys, pressed - Len(keys))
        /\ listeners = {l} => stars = Len(l.chars)
    BY <1>2 DEF TerminalInv, PasswordInv, Listening
  <2>2. keys \in Seq(Presses) /\ l.chars \in Seq(Nat) /\ pressed \in Nat
    BY TerminalAssumption DEF TerminalInv, TermTypes, TerminalTypeOK
  <2>3. PICK start \in Nat, chars \in Seq(Nat) : start = pressed - Len(keys) /\ chars = l.chars
    BY <2>1, <2>2, SMTT(30)
  <2>4. TypedIn(chars, keys, start)
    BY <2>1, <2>2, <2>3, TracksTyped
  <2> QED
    BY <2>1, <2>3, <2>4, TypedIs
<1>3. PasswordTold
  BY DEF TerminalInv, PasswordInv
<1>4. call = NoCall /\ told.kind = "confirm" =>
        /\ told.answer.form = "true" => Last(replies) = "yes"
        /\ \A n \in 1..Len(replies) - 1 : replies[n] \notin {"yes", "no"}
        /\ ~tty => Len(replies) <= 1
  BY DEF TerminalInv, ConfirmInv, LastAlone
<1>5. LinesOnce
  BY DEF TerminalInv, OnceInv, Once, LinesOnce
<1> QED
  BY <1>1, <1>2, <1>3, <1>4, <1>5 DEF TerminalSound, TypedAnswers, PasswordTold, RawInv

\* For any number of calls, keys and lines, however calls time out and leave their listeners
\* and interfaces behind: a password is the keys of its call that were not taken back, and is
\* shown as asterisks alone unless a listener or an interface was left; a terminal is raw
\* while keys are listened to; the first yes or no answers a question; and no line of a pipe
\* is answered twice or late (terminal.ts, stdin.ts).
THEOREM TerminalIsSound == TerminalSpec => [](TerminalTypeOK /\ TerminalSound)
<1>1. TerminalInit => TerminalInv
  BY TermBegins, OnceBegins, ConfirmBegins, PasswordBegins, RawBegins DEF TerminalInv
<1> QED
  BY <1>1, TerminalInvStep, TerminalInvHolds, PTL DEF TerminalSpec
=============================================================================
