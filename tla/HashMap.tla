------------------------------ MODULE HashMap ------------------------------
(***************************************************************************)
(* The persistent hash map of src/data/hash-map.ts: a trie over the parts  *)
(* of a hash (hash >>> shift & MASK).                                      *)
(*                                                                         *)
(* HashOf gives a key's parts, one for each level; keys with the same      *)
(* parts collide.  The bitmap and the sparse array of an internal node are *)
(* a function on all positions, NoNode where the bit is not set.  Nodes    *)
(* are values and are never changed, so an older map cannot be affected by *)
(* what becomes of a newer.                                                *)
(***************************************************************************)
EXTENDS Integers, FiniteSets, SequencesExt, Filter

CONSTANTS MapKey, MapValue,
          Width,    \* WIDTH, the branching of a node
          Levels,   \* how many parts a hash has
          HashOf    \* per key, its hash: the part for the root last

Part  == 0..Width - 1
Entry == [key : MapKey, value : MapValue]

ASSUME HashMapAssumption ==
  Width \in Nat \ {0} /\ Levels \in Nat /\ HashOf \in [MapKey -> [1..Levels -> Part]]

VARIABLES root, size,
          contents  \* history: the map as a function

hashMapVars == <<root, size, contents>>

NoNode             == [kind |-> "none"]  \* undefined
Leaf(entries)      == [kind |-> "leaf", entries |-> entries]
Internal(children) == [kind |-> "internal", children |-> children]
EntryOf(k, v)      == [key |-> k, value |-> v]

LeafNode         == [kind : {"leaf"}, entries : Seq(Entry)]
InternalNode(ns) == [kind : {"internal"}, children : [Part -> ns]]

\* The nodes with n levels below them.
TrieNode[n \in 0..Levels] == {NoNode} \cup LeafNode \cup IF n = 0 THEN {} ELSE InternalNode(TrieNode[n - 1])

HashMapInit == root = NoNode /\ size = 0 /\ contents = [k \in {} |-> 0]

Occupied(node) == {pos \in Part : node.children[pos] # NoNode}
WithChild(node, pos, child) == Internal([node.children EXCEPT ![pos] = child])

\* The place of the first entry in S, or 0.
FirstIn(entries, S) == SelectInSeq(entries, LAMBDA e : e \in S)
IndexOf(entries, k) == FirstIn(entries, [key : {k}, value : MapValue])

\* One entry after the other is put in, by the operation set.
InsertEach(set, node, entries) ==
  LET after[i \in 0..Len(entries)] == IF i = 0 THEN node ELSE set[after[i - 1]][entries[i]].node
  IN  after[Len(entries)]

-----------------------------------------------------------------------------
(* Trie operations, where n levels are left: shift is BITS times Levels -  *)
(* n, and deeper is the operation one level down.                          *)

GetFrom(deeper, n, node, k) ==
  CASE node.kind = "none" -> {}
    [] node.kind = "leaf" -> {e.value : e \in {f \in ToSet(node.entries) : f.key = k}}
    [] node.kind = "internal" -> deeper[node.children[HashOf[k][n]]][k]

TrieGet[n \in 0..Levels] == [node \in TrieNode[n] |-> [k \in MapKey |-> GetFrom(TrieGet[n - 1], n, node, k)]]

SetBelow(deeper, n, node, entry) ==
  LET pos == HashOf[entry.key][n]
      set == deeper[node.children[pos]][entry]
  IN  [node |-> WithChild(node, pos, set.node), added |-> set.added]

\* The entries, put one after the other under a new internal node.
Split(deeper, n, entries) ==
  InsertEach([node \in InternalNode(TrieNode[n - 1]) |-> [entry \in Entry |-> SetBelow(deeper, n, node, entry)]],
             Internal([pos \in Part |-> NoNode]), entries)

\* Seeded fault: of a chain of entries that is split, only the first one is kept.
SplitLeafFirst(deeper, n, leaf, entry) == Split(deeper, n, <<Head(leaf.entries), entry>>)

\* A leaf and an entry with another hash.
SplitLeaf(deeper, n, leaf, entry) == Split(deeper, n, Append(leaf.entries, entry))

SetInLeaf(deeper, n, leaf, entry) ==
  LET i == IndexOf(leaf.entries, entry.key)
  IN  IF i # 0 THEN [node |-> Leaf([leaf.entries EXCEPT ![i] = entry]), added |-> FALSE]
      ELSE IF HashOf[Head(leaf.entries).key] = HashOf[entry.key]
           THEN [node |-> Leaf(Append(leaf.entries, entry)), added |-> TRUE]
      ELSE [node |-> SplitLeaf(deeper, n, leaf, entry), added |-> TRUE]

SetIn(deeper, n, node, entry) ==
  CASE node.kind = "none" -> [node |-> Leaf(<<entry>>), added |-> TRUE]
    [] node.kind = "leaf" -> SetInLeaf(deeper, n, node, entry)
    [] node.kind = "internal" -> SetBelow(deeper, n, node, entry)

\* Without a level left all hashes are the same, and nothing is split.
TrieSet[n \in 0..Levels] ==
  LET deeper == IF n = 0 THEN <<>> ELSE TrieSet[n - 1]
  IN  [node \in TrieNode[n] |-> [entry \in Entry |-> SetIn(deeper, n, node, entry)]]

DeleteFromLeaf(leaf, k) ==
  LET i == IndexOf(leaf.entries, k)
  IN  IF i = 0 THEN [node |-> leaf, removed |-> FALSE]
      ELSE IF Len(leaf.entries) = 1 THEN [node |-> NoNode, removed |-> TRUE]
      ELSE [node |-> Leaf(RemoveAt(leaf.entries, i)), removed |-> TRUE]

DeleteBelow(deeper, n, node, k) ==
  LET pos    == HashOf[k][n]
      result == deeper[node.children[pos]][k]
  IN  IF ~result.removed THEN [node |-> node, removed |-> FALSE]
      ELSE IF result.node = NoNode /\ Cardinality(Occupied(node)) = 1 THEN [node |-> NoNode, removed |-> TRUE]
      ELSE [node |-> WithChild(node, pos, result.node), removed |-> TRUE]

DeleteFrom(deeper, n, node, k) ==
  CASE node.kind = "none" -> [node |-> NoNode, removed |-> FALSE]
    [] node.kind = "leaf" -> DeleteFromLeaf(node, k)
    [] node.kind = "internal" -> DeleteBelow(deeper, n, node, k)

TrieDelete[n \in 0..Levels] == [node \in TrieNode[n] |-> [k \in MapKey |-> DeleteFrom(TrieDelete[n - 1], n, node, k)]]

\* The entries in the order of their positions.
EntriesIn(deeper, node) ==
  CASE node.kind = "none" -> <<>>
    [] node.kind = "leaf" -> node.entries
    [] node.kind = "internal" -> FlattenSeq([i \in 1..Width |-> deeper[node.children[i - 1]]])

TrieEntries[n \in 0..Levels] == [node \in TrieNode[n] |-> EntriesIn(TrieEntries[n - 1], node)]

-----------------------------------------------------------------------------
(* Operations on whole maps, as loops over the entries of a node. *)

Lookup(node, k)         == TrieGet[Levels][node][k]
EntriesOf(node)         == TrieEntries[Levels][node]
EntryCount(node)        == Len(EntriesOf(node))
SetAll(node, entries)   == InsertEach(TrieSet[Levels], node, entries)

OfEntries(entries)  == SetAll(NoNode, entries)
MergeMaps(a, b)     == SetAll(a, EntriesOf(b))

\* map by a function on values, and filter by the set of values it keeps.
Valued(keep)          == [key : MapKey, value : keep]
MapValues(node, fn)   == OfEntries([i \in 1..EntryCount(node) |->
                           EntryOf(EntriesOf(node)[i].key, fn[EntriesOf(node)[i].value])])
FilterMap(node, keep) == OfEntries(Remaining(EntriesOf(node), Valued(MapValue \ keep)))

\* What asks about the entries stops at the first that decides; keep is the set of values
\* that satisfy the predicate.
FindEntry(node, keep)  == LET i == FirstIn(EntriesOf(node), Valued(keep))
                          IN  IF i = 0 THEN {} ELSE {EntriesOf(node)[i]}
EveryEntry(node, keep) == FirstIn(EntriesOf(node), Valued(MapValue \ keep)) = 0
SomeEntry(node, keep)  == FindEntry(node, keep) # {}
HasKey(node, k)        == Lookup(node, k) # {}
MapKeys(node)          == [i \in 1..EntryCount(node) |-> EntriesOf(node)[i].key]

EqualMaps(a, b) ==
  /\ EntryCount(a) = EntryCount(b)
  /\ \A e \in ToSet(EntriesOf(a)) : Lookup(b, e.key) = {e.value}

-----------------------------------------------------------------------------

SetEntry(k, v) ==
  LET set == TrieSet[Levels][root][EntryOf(k, v)]
  IN  /\ root' = set.node
      /\ size' = IF set.added THEN size + 1 ELSE size
      /\ contents' = [x \in DOMAIN contents \cup {k} |-> IF x = k THEN v ELSE contents[x]]

DeleteEntry(k) ==
  LET result == TrieDelete[Levels][root][k]
  IN  /\ root' = result.node
      /\ size' = IF result.removed THEN size - 1 ELSE size
      /\ contents' = [x \in DOMAIN contents \ {k} |-> contents[x]]

HashMapNext == \E k \in MapKey : DeleteEntry(k) \/ \E v \in MapValue : SetEntry(k, v)

HashMapSpec == HashMapInit /\ [][HashMapNext]_hashMapVars

-----------------------------------------------------------------------------

\* A trie that n levels are left for, where the path p leads: no node is empty, a leaf's
\* keys differ and have one hash, and every key lies where its hash leads.
Path == [1..Levels -> Part]

OnPath(k, n, p) == \A m \in n + 1..Levels : HashOf[k][m] = p[m]

LeafFits(n, p, entries) ==
  /\ entries # <<>> /\ \A i \in DOMAIN entries : OnPath(entries[i].key, n, p)
  /\ \A i, j \in DOMAIN entries :
       HashOf[entries[i].key] = HashOf[entries[j].key] /\ (entries[i].key = entries[j].key => i = j)

ChildrenFit(deeper, n, p, node) == \A pos \in Occupied(node) : node.children[pos] \in deeper[[p EXCEPT ![n] = pos]]

NodeFits(deeper, n, p, node) ==
  CASE node.kind = "none" -> FALSE
    [] node.kind = "leaf" -> LeafFits(n, p, node.entries)
    [] node.kind = "internal" -> Occupied(node) # {} /\ ChildrenFit(deeper, n, p, node)

Tries[n \in 0..Levels] == [p \in Path |-> {node \in TrieNode[n] : NodeFits(Tries[n - 1], n, p, node)}]

WellFormed(node) == node = NoNode \/ \E p \in Path : node \in Tries[Levels][p]

FunctionOf(node) == [k \in {e.key : e \in ToSet(EntriesOf(node))} |->
                       (CHOOSE e \in ToSet(EntriesOf(node)) : e.key = k).value]

\* The map behaves as a function whatever was set and deleted, with collisions and
\* splits: get finds each key's last value and no deleted key, size and iteration
\* count each key once, and the trie stays well-formed (trieSet, trieDelete).  What
\* filter, map, merge and produce build anew is that function's restriction, image and
\* override, and equals does not see by which way a trie came to be what it is.
MapIsFunction ==
  /\ \A k \in MapKey : Lookup(root, k) = IF k \in DOMAIN contents THEN {contents[k]} ELSE {}
  /\ size = Cardinality(DOMAIN contents) /\ EntryCount(root) = size
  /\ ToSet(MapKeys(root)) = {k \in MapKey : HasKey(root, k)}
  /\ WellFormed(root)
  /\ LET rebuilt == OfEntries(Reverse(EntriesOf(root)))
     IN  /\ FunctionOf(rebuilt) = contents /\ EqualMaps(rebuilt, root) /\ EqualMaps(root, rebuilt)
         /\ WellFormed(rebuilt)
  /\ \A v \in MapValue :
       LET kept == FilterMap(root, {v})
           set  == MapValues(root, [x \in MapValue |-> v])
       IN  /\ SomeEntry(root, {v}) <=> v \in {contents[k] : k \in DOMAIN contents}
           /\ EveryEntry(root, {v}) <=> EqualMaps(kept, root)
           /\ FunctionOf(kept) = [k \in {k \in DOMAIN contents : contents[k] = v} |-> v]
           /\ FunctionOf(MergeMaps(kept, root)) = contents
           /\ FunctionOf(MergeMaps(root, set)) = [k \in DOMAIN contents |-> v]
           /\ EqualMaps(kept, root) <=> (DOMAIN contents = {k \in DOMAIN contents : contents[k] = v})
=============================================================================
