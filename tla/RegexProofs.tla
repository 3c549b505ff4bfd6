----------------------------- MODULE RegexProofs -----------------------------
(***************************************************************************)
(* Theorems about Regex, for any expressions, texts, keys and limits.      *)
(***************************************************************************)
EXTENDS Regex, GlobProofs

-----------------------------------------------------------------------------
(* The operators of the cache: what they keep. *)

Links == Nodes \union {null}
Handles == [re : Keys, deglob : BOOLEAN, id : Nat]
Caches == [hash : [Keys -> Links], data : [Nodes -> Handles \union {null}],
           next : [Nodes -> Links], prev : [Nodes -> Links],
           begin : Links, end : Links, ok : BOOLEAN, freed : SUBSET (Handles \union {null})]

\* The same nodes with the same data.
SameData(c, r) == r.hash = c.hash /\ r.data = c.data /\ r.freed = c.freed

\* Writing a link keeps the data, and the other link.
LEMMA LinksSet ==
  ASSUME NEW c \in Caches, NEW n \in Links, NEW to \in Links
  PROVE  /\ SetNext(c, n, to) \in Caches /\ SameData(c, SetNext(c, n, to))
         /\ SetPrev(c, n, to) \in Caches /\ SameData(c, SetPrev(c, n, to))
         /\ SetNext(c, n, to).begin = c.begin /\ SetNext(c, n, to).end = c.end
         /\ SetPrev(c, n, to).begin = c.begin /\ SetPrev(c, n, to).end = c.end
         /\ SetNext(c, n, to).prev = c.prev /\ SetPrev(c, n, to).next = c.next
         /\ SetNext(c, n, to).ok => c.ok
         /\ SetPrev(c, n, to).ok => c.ok
<1>1. CASE n = null
  BY <1>1 DEF SetNext, SetPrev, Fails, SameData, Caches
<1>2. CASE n # null
  BY <1>2 DEF SetNext, SetPrev, SameData, Caches, Links
<1> QED BY <1>1, <1>2

\* A hit writes links and the head, nothing else.
LEMMA UpdateKeepsData ==
  ASSUME NEW c \in Caches, NEW n \in Nodes
  PROVE  m_update(c, n) \in Caches /\ SameData(c, m_update(c, n))
<1>0. n \in Links /\ c.prev[n] \in Links /\ c.next[n] \in Links /\ c.begin \in Links /\ null \in Links
  BY DEF Caches, Links
<1> DEFINE out == SetNext(c, c.prev[n], c.next[n])
           unlinked == IfNode(c.next[n], SetPrev(out, c.next[n], c.prev[n]), out)
           front == SetPrev(SetNext(unlinked, n, c.begin), c.begin, n)
           last == SetPrev(front, n, null)
<1>1. out \in Caches /\ SameData(c, out)
  BY <1>0, LinksSet
<1> HIDE DEF out
<1>2. unlinked \in Caches /\ SameData(c, unlinked)
  BY <1>0, <1>1, LinksSet DEF IfNode, SameData
<1> HIDE DEF unlinked
<1>3. front \in Caches /\ SameData(c, front)
  <2> DEFINE second == SetNext(unlinked, n, c.begin)
  <2>1. second \in Caches /\ SameData(unlinked, second)
    BY <1>0, <1>2, LinksSet
  <2>2. SameData(c, second)
    BY <1>2, <2>1 DEF SameData
  <2> HIDE DEF second
  <2>3. SetPrev(second, c.begin, n) \in Caches /\ SameData(second, SetPrev(second, c.begin, n))
    BY <1>0, <2>1, LinksSet
  <2>4. front = SetPrev(second, c.begin, n)
    BY DEF second
  <2> HIDE DEF front
  <2> QED BY <2>2, <2>3, <2>4 DEF SameData
<1> HIDE DEF front
<1>4. last \in Caches /\ SameData(c, last)
  BY <1>0, <1>3, LinksSet DEF SameData
<1> HIDE DEF last
<1>5. [last EXCEPT !.begin = n] \in Caches /\ SameData(c, [last EXCEPT !.begin = n])
  BY <1>0, <1>4 DEF Caches, SameData
<1>6. m_update(c, n) = IF c.begin = n THEN c ELSE [last EXCEPT !.begin = n]
  BY DEF m_update, out, unlinked, front, last
<1> QED BY <1>5, <1>6 DEF SameData

\* Tidy keeps the data of the nodes of the hash.
LEMMA TidyKeepsData ==
  ASSUME NEW c \in Caches
  PROVE  /\ Tidy(c) \in Caches /\ Tidy(c).hash = c.hash /\ Tidy(c).freed = c.freed
         /\ Tidy(c).ok = c.ok
         /\ \A n \in Live(c) \intersect Nodes : Tidy(c).data[n] = c.data[n]
<1> DEFINE kept(f) == [n \in Nodes |-> IF n \in Live(c) THEN f[n] ELSE null]
           data == kept(c.data)  next == kept(c.next)  prev == kept(c.prev)
<1>1. data \in [Nodes -> Handles \union {null}] /\ next \in [Nodes -> Links] /\ prev \in [Nodes -> Links]
  BY DEF Caches, Links
<1>2. \A n \in Live(c) \intersect Nodes : data[n] = c.data[n]
  OBVIOUS
<1>3. Tidy(c) = [c EXCEPT !.data = data, !.next = next, !.prev = prev]
  BY DEF Tidy
<1> HIDE DEF data, next, prev
<1> QED BY <1>1, <1>2, <1>3 DEF Caches

\* What is known by its key, and which memory it is.
HoldsKeys(c) == \A k \in Cached(c) : c.hash[k] \in Nodes /\ KeyOf(c.hash[k]) = k

\* A node that leaves loses its hash entry; all data stays.
LEMMA UnlinkedKeepsData ==
  ASSUME NEW c \in Caches, NEW n \in Nodes, KeyOf(n) \in Keys
  PROVE  /\ Unlinked(c, n) \in Caches
         /\ Unlinked(c, n).hash = [c.hash EXCEPT ![KeyOf(n)] = null]
         /\ Unlinked(c, n).data = c.data /\ Unlinked(c, n).freed = c.freed
         /\ Unlinked(c, n).ok => c.ok
<1>0. /\ n \in Links /\ c.prev[n] \in Links /\ c.next[n] \in Links /\ c.begin \in Links
      /\ null \in Links
  BY DEF Caches, Links
<1> DEFINE out == [c EXCEPT !.hash[KeyOf(n)] = null]
           front == IF c.begin = n THEN [out EXCEPT !.begin = c.next[n]]
                    ELSE SetNext(out, c.prev[n], c.next[n])
           last == IF c.end = n THEN [front EXCEPT !.end = c.prev[n]]
                   ELSE SetPrev(front, c.next[n], c.prev[n])
           Kept(r) == /\ r \in Caches /\ r.hash = [c.hash EXCEPT ![KeyOf(n)] = null]
                      /\ r.data = c.data /\ r.freed = c.freed /\ (r.ok => c.ok)
<1>1. Kept(out)
  BY <1>0 DEF Caches
<1> HIDE DEF out
<1>2. Kept([out EXCEPT !.begin = c.next[n]])
  BY <1>0, <1>1 DEF Caches
<1>3. Kept(SetNext(out, c.prev[n], c.next[n]))
  BY <1>0, <1>1, LinksSet DEF SameData
<1>4. Kept(front)
  BY <1>2, <1>3
<1> HIDE DEF front
<1>5. Kept([front EXCEPT !.end = c.prev[n]])
  BY <1>0, <1>4 DEF Caches
<1>6. Kept(SetPrev(front, c.next[n], c.prev[n]))
  BY <1>0, <1>4, LinksSet DEF SameData
<1>7. Unlinked(c, n) = last
  BY DEF Unlinked, out, front
<1> QED BY <1>5, <1>6, <1>7

\* There is a node for a new key: more than the links can name.
LEMMA NewIsNode ==
  ASSUME NEW c \in Caches, HoldsKeys(c), NEW k \in Keys, k \notin Cached(c)
  PROVE  new(c, k) \in Nodes /\ KeyOf(new(c, k)) = k
<1> DEFINE N == Cardinality(Keys)
           Slots == Keys \X (1..2)
           Olds == 0..MaxOld
           target(s) == IF s[2] = 1 THEN (IF s[1] = k THEN c.begin ELSE c.next[c.hash[s[1]]])
                        ELSE (IF s[1] = k THEN c.end ELSE c.prev[c.hash[s[1]]])
           Free == {i \in 0..MaxOld : <<k, i>> \notin Named(c)}
<1>1. N \in Nat /\ MaxOld = 2 * N /\ MaxOld \in Nat
  BY FS_CardinalityType, CacheAssumption DEF MaxOld
<1>2. IsFiniteSet(Slots) /\ Cardinality(Slots) = N * 2
  <2>1. IsFiniteSet(1..2) /\ Cardinality(1..2) = 2
    <3> DEFINE One == {1}
    <3>1. IsFiniteSet(One) /\ Cardinality(One) = 1
      BY FS_Singleton
    <3>2. 2 \notin One /\ One \union {2} = 1..2
      OBVIOUS
    <3> HIDE DEF One
    <3>3. IsFiniteSet(One \union {2}) /\ Cardinality(One \union {2}) = 2
      BY <3>1, <3>2, FS_AddElement
    <3> QED BY <3>2, <3>3
  <2> QED BY <2>1, FS_Product, CacheAssumption
<1>3. IsFiniteSet(Olds) /\ Cardinality(Olds) = MaxOld + 1
  BY <1>1, FS_Interval
<1>4. ASSUME NEW i \in 0..MaxOld, <<k, i>> \in Named(c)
      PROVE  \E s \in Slots : target(s) = <<k, i>>
  <2>1. <<k, i>> \notin Live(c)
    BY <1>4 DEF Live, HoldsKeys, KeyOf
  <2>2. CASE <<k, i>> = c.begin
    <3>1. <<k, 1>> \in Slots /\ target(<<k, 1>>) = c.begin
      OBVIOUS
    <3> QED BY <3>1, <2>2
  <2>3. CASE <<k, i>> = c.end
    <3>1. <<k, 2>> \in Slots /\ target(<<k, 2>>) = c.end
      OBVIOUS
    <3> QED BY <3>1, <2>3
  <2>4. CASE \E n \in Live(c) : <<k, i>> = c.next[n]
    <3>1. PICK j \in Cached(c) : <<k, i>> = c.next[c.hash[j]]
      BY <2>4 DEF Live
    <3>2. j \in Keys /\ j # k
      BY <3>1 DEF Cached
    <3>3. <<j, 1>> \in Slots /\ target(<<j, 1>>) = c.next[c.hash[j]]
      BY <3>2
    <3> QED BY <3>1, <3>3
  <2>5. CASE \E n \in Live(c) : <<k, i>> = c.prev[n]
    <3>1. PICK j \in Cached(c) : <<k, i>> = c.prev[c.hash[j]]
      BY <2>5 DEF Live
    <3>2. j \in Keys /\ j # k
      BY <3>1 DEF Cached
    <3>3. <<j, 2>> \in Slots /\ target(<<j, 2>>) = c.prev[c.hash[j]]
      BY <3>2
    <3> QED BY <3>1, <3>3
  <2> QED BY <1>4, <2>1, <2>2, <2>3, <2>4, <2>5 DEF Named
<1>5. Free # {}
  <2> SUFFICES ASSUME Free = {} PROVE FALSE
    OBVIOUS
  <2> DEFINE slot == [i \in 0..MaxOld |-> CHOOSE s \in Slots : target(s) = <<k, i>>]
  <2>1. \A i \in 0..MaxOld : slot[i] \in Slots /\ target(slot[i]) = <<k, i>>
    <3> HIDE DEF target, Slots
    <3> QED BY <1>4
  <2>2. slot \in [Olds -> Slots]
    <3> HIDE DEF target, Slots
    <3> QED BY <2>1
  <2>3. Cardinality(Slots) < Cardinality(Olds)
    BY <1>1, <1>2, <1>3
  <2> HIDE DEF target, Slots, slot, Olds
  <2>4. \E i, j \in Olds : i # j /\ slot[i] = slot[j]
    BY <1>2, <1>3, <2>2, <2>3, FS_PigeonHole
  <2>5. PICK i, j \in 0..MaxOld : i # j /\ slot[i] = slot[j]
    BY <2>4 DEF Olds
  <2>6. <<k, i>> = <<k, j>>
    BY <2>1, <2>5
  <2> QED BY <2>5, <2>6
<1>6. PICK i \in Free : \A j \in Free : i <= j
  <2>1. Free \subseteq Nat
    BY <1>1
  <2> HIDE DEF Free
  <2> QED BY <1>5, <2>1, NatMin
<1>7. /\ i \in 0..MaxOld /\ <<k, i>> \notin Named(c)
      /\ \A j \in 0..(i - 1) : <<k, j>> \in Named(c)
  BY <1>1, <1>6
<1>8. \E m \in 0..MaxOld : new(c, k) = <<k, m>>
  BY <1>7 DEF new
<1> QED BY <1>8 DEF Nodes, KeyOf

\* What putting data d under key k in node n has made of c.
IsPut(c, k, d, n, r) ==
  /\ r \in Caches /\ r.freed = {} /\ (r.ok => c.ok)
  /\ n \in Nodes /\ KeyOf(n) = k
  /\ r.hash = [c.hash EXCEPT ![k] = n]
  /\ r.data = [c.data EXCEPT ![n] = d]

\* A miss adds its node and its data.
LEMMA PutKeepsData ==
  ASSUME NEW c \in Caches, HoldsKeys(c), NEW k \in Keys, k \notin Cached(c), NEW d \in Handles,
         c.freed = {}
  PROVE  IsPut(c, k, d, new(c, k), put(c, k, d))
<1> DEFINE n == new(c, k)
           node == [c EXCEPT !.data[n] = d, !.next[n] = c.begin, !.prev[n] = null,
                             !.begin = n, !.hash[k] = n]
           Kept(r) == IsPut(c, k, d, n, r)
<1>1. n \in Nodes /\ KeyOf(n) = k
  BY NewIsNode
<1>2. n \in Links /\ null \in Links /\ c.begin \in Links
  BY <1>1 DEF Links, Caches
<1>3. c.hash[k] = null
  BY DEF Cached
<1>4. put(c, k, d) = IF c.begin = null THEN [node EXCEPT !.end = n] ELSE SetPrev(node, c.begin, n)
  BY <1>3 DEF put
<1> HIDE DEF n
<1>5. Kept(node)
  BY <1>1, <1>2 DEF Caches, IsPut
<1> HIDE DEF node
<1>6. Kept([node EXCEPT !.end = n])
  BY <1>2, <1>5 DEF Caches, IsPut
<1>7. Kept(SetPrev(node, c.begin, n))
  <2> DEFINE last == SetPrev(node, c.begin, n)
  <2>1. last \in Caches /\ SameData(node, last) /\ (last.ok => node.ok)
    BY <1>2, <1>5, LinksSet DEF IsPut
  <2> HIDE DEF last
  <2>2. Kept(last)
    BY <1>5, <2>1 DEF SameData, IsPut
  <2> QED BY <2>2 DEF last
<1>8. Kept(put(c, k, d))
  BY <1>4, <1>6, <1>7
<1> QED BY <1>8 DEF n

\* What evicting has made of c: keys are gone, and if nothing failed their data is freed.
Shrunk(c, d) ==
  /\ d \in Caches /\ d.data = c.data /\ (d.ok => c.ok)
  /\ \A k \in Keys : d.hash[k] \in {c.hash[k], null}
  /\ d.ok => d.freed = c.freed \union {c.data[c.hash[k]] : k \in Cached(c) \ Cached(d)}

\* An eviction takes one key, and frees what it had.
LEMMA EvictShrinks ==
  ASSUME NEW c \in Caches, HoldsKeys(c), NEW d, Shrunk(c, d), NEW k \in Keys
  PROVE  Shrunk(c, evict(d, k))
<1>1. CASE d.hash[k] = null
  BY <1>1 DEF evict
<1>2. CASE d.hash[k] # null
  <2> DEFINE n == d.hash[k]
             e == Unlinked(d, n)
             f == [e EXCEPT !.freed = @ \union {d.data[n]}]
  <2>1. d \in Caches /\ k \in Cached(d) /\ n = c.hash[k] /\ k \in Cached(c)
    BY <1>2 DEF Shrunk, Cached
  <2>2. n \in Nodes /\ KeyOf(n) = k
    BY <2>1 DEF HoldsKeys
  <2>3. evict(d, k) = IF e.ok THEN f ELSE e
    BY <1>2 DEF evict
  <2> HIDE DEF n
  <2>4. /\ e \in Caches /\ e.hash = [d.hash EXCEPT ![k] = null]
        /\ e.data = d.data /\ e.freed = d.freed /\ (e.ok => d.ok)
    BY <2>1, <2>2, UnlinkedKeepsData
  <2> HIDE DEF e
  <2>5. d.data[n] \in Handles \union {null}
    BY <2>1, <2>2 DEF Caches
  <2>6. /\ f \in Caches /\ f.hash = e.hash /\ f.data = e.data /\ f.ok = e.ok
        /\ f.freed = e.freed \union {d.data[n]}
    BY <2>4, <2>5 DEF Caches
  <2> HIDE DEF f
  <2>7. e.hash[k] = null /\ \A j \in Keys \ {k} : e.hash[j] = d.hash[j]
    BY <2>1, <2>4 DEF Caches
  <2>8. \A j \in Keys : e.hash[j] \in {c.hash[j], null}
    BY <2>7 DEF Shrunk
  <2>9. Cached(c) \ Cached(e) = (Cached(c) \ Cached(d)) \union {k}
    BY <2>1, <2>7 DEF Cached
  <2>10. Cached(f) = Cached(e)
    BY <2>6 DEF Cached
  <2>11. e.ok => f.freed = c.freed \union {c.data[c.hash[j]] : j \in Cached(c) \ Cached(f)}
    <3>1. SUFFICES ASSUME e.ok
                   PROVE  f.freed = c.freed \union {c.data[c.hash[j]] : j \in Cached(c) \ Cached(f)}
      OBVIOUS
    <3>2. d.freed = c.freed \union {c.data[c.hash[j]] : j \in Cached(c) \ Cached(d)}
      BY <2>4, <3>1 DEF Shrunk
    <3>3. f.freed = d.freed \union {c.data[c.hash[k]]}
      BY <2>1, <2>4, <2>6 DEF Shrunk
    <3> QED BY <3>2, <3>3, <2>9, <2>10
  <2>12. Shrunk(c, f) \/ ~e.ok
    BY <2>4, <2>6, <2>8, <2>11 DEF Shrunk
  <2>13. Shrunk(c, e) \/ e.ok
    BY <2>4, <2>8 DEF Shrunk
  <2> QED BY <2>3, <2>12, <2>13
<1> QED BY <1>1, <1>2

\* A null handle takes nothing.
LEMMA FailsShrinks ==
  ASSUME NEW c, NEW d, Shrunk(c, d)
  PROVE  Shrunk(c, Fails(d))
<1> DEFINE f == Fails(d)
<1>1. f \in Caches /\ f.hash = d.hash /\ f.data = d.data /\ ~f.ok
  BY DEF Shrunk, Fails, Caches
<1> HIDE DEF f
<1>2. Shrunk(c, f)
  BY <1>1 DEF Shrunk
<1> QED BY <1>2 DEF f

\* No eviction yet.
LEMMA NothingShrunk ==
  ASSUME NEW c \in Caches
  PROVE  Shrunk(c, c)
BY DEF Shrunk

\* A turn of evict_to_max.
LEMMA EvictLastShrinks ==
  ASSUME NEW c \in Caches, HoldsKeys(c), NEW d, Shrunk(c, d), NEW max_size
  PROVE  Shrunk(c, EvictLast(d, max_size))
<1>1. KeyOf(d.end) \in Cached(d) => Shrunk(c, evict(d, KeyOf(d.end)))
  BY EvictShrinks DEF Cached
<1> QED BY <1>1, FailsShrinks DEF EvictLast

\* A turn of flush.
LEMMA EvictAnyShrinks ==
  ASSUME NEW c \in Caches, HoldsKeys(c), NEW d, Shrunk(c, d)
  PROVE  Shrunk(c, EvictAny(d))
<1> DEFINE k == CHOOSE k \in Cached(d) : TRUE
<1>1. Cached(d) # {} => k \in Keys
  BY DEF Cached
<1> HIDE DEF k
<1>2. Cached(d) # {} => Shrunk(c, evict(d, k))
  BY <1>1, EvictShrinks
<1> QED BY <1>2 DEF EvictAny, k

\* The loop of evict_to_max takes its turns.
LEMMA EvictToMaxTurns ==
  ASSUME NEW c \in Caches, HoldsKeys(c), NEW max_size
  PROVE  \E g : /\ g[0] = c
                /\ \A n \in 1..Cardinality(Keys) : g[n] = EvictLast(g[n - 1], max_size)
                /\ evict_to_max(c, max_size) = g[Cardinality(Keys)]
<1> DEFINE N == Cardinality(Keys)
           D == {d \in Caches : Shrunk(c, d)}
           turn == [x \in D \X (1..N) |-> EvictLast(x[1], max_size)]
           after[n \in 0..N] == IF n = 0 THEN c ELSE EvictLast(after[n - 1], max_size)
<1>1. N \in Nat
  BY FS_CardinalityType, CacheAssumption
<1>2. c \in D
  BY NothingShrunk
<1>3. turn \in [D \X (1..N) -> D]
  <2>1. \A d \in D : EvictLast(d, max_size) \in D
    BY EvictLastShrinks DEF Shrunk
  <2> HIDE DEF D, N
  <2> QED BY <2>1
<1>4. \E g : IsTurns(g, D, turn, c, N)
  <2> HIDE DEF D, turn, N
  <2> QED BY <1>1, <1>2, <1>3, Iterated
<1>5. PICK g : IsTurns(g, D, turn, c, N)
  BY <1>4
<1>6. g \in [0..N -> D] /\ \A n \in 0..N : g[n] = IF n = 0 THEN c ELSE EvictLast(g[n - 1], max_size)
  <2>1. ASSUME NEW n \in 1..N PROVE g[n] = EvictLast(g[n - 1], max_size)
    <3>1. n - 1 \in 0..N
      BY <1>1
    <3>2. g[n] = turn[<<g[n - 1], n>>] /\ g[n - 1] \in D
      <4> HIDE DEF D, turn
      <4> QED BY <1>5, <3>1 DEF IsTurns
    <3> HIDE DEF D
    <3> QED BY <3>2
  <2> HIDE DEF turn, D
  <2>2. g \in [0..N -> D] /\ g[0] = c
    BY <1>5 DEF IsTurns
  <2>3. \A n \in 0..N : n # 0 => n \in 1..N
    BY <1>1
  <2> QED BY <2>1, <2>2, <2>3
<1>7. \E a : a = [n \in 0..N |-> IF n = 0 THEN c ELSE EvictLast(a[n - 1], max_size)]
  <2> DEFINE h == [n \in 0..N |-> IF n = 0 THEN c ELSE EvictLast(g[n - 1], max_size)]
  <2>1. g = h
    BY <1>6
  <2> QED BY <2>1
<1>8. after = [n \in 0..N |-> IF n = 0 THEN c ELSE EvictLast(after[n - 1], max_size)]
  BY <1>7
<1>9. evict_to_max(c, max_size) = after[N]
  BY DEF evict_to_max
<1> HIDE DEF after
<1>10. after[0] = c /\ \A n \in 1..N : after[n] = EvictLast(after[n - 1], max_size)
  BY <1>1, <1>8
<1> QED BY <1>9, <1>10

\* All turns of evict_to_max.
LEMMA EvictToMaxShrinks ==
  ASSUME NEW c \in Caches, HoldsKeys(c), NEW max_size
  PROVE  Shrunk(c, evict_to_max(c, max_size))
<1> DEFINE N == Cardinality(Keys)
<1>1. N \in Nat
  BY FS_CardinalityType, CacheAssumption
<1>2. PICK g : /\ g[0] = c
               /\ \A n \in 1..N : g[n] = EvictLast(g[n - 1], max_size)
               /\ evict_to_max(c, max_size) = g[N]
  BY EvictToMaxTurns
<1> HIDE DEF N
<1> DEFINE S == {n \in Nat : n <= N => Shrunk(c, g[n])}
<1>3. 0 \in S
  BY <1>2, NothingShrunk
<1>4. ASSUME NEW n \in Nat, n \in S PROVE n + 1 \in S
  <2>1. SUFFICES ASSUME n + 1 <= N PROVE Shrunk(c, g[n + 1])
    OBVIOUS
  <2>2. Shrunk(c, g[n]) /\ n + 1 \in 1..N /\ (n + 1) - 1 = n
    BY <1>1, <1>4, <2>1
  <2>3. g[n + 1] = EvictLast(g[n], max_size)
    BY <1>2, <2>2
  <2> QED BY <2>2, <2>3, EvictLastShrinks
<1>5. N \in S
  <2> HIDE DEF S
  <2> QED BY <1>1, <1>3, <1>4, SetInduction
<1> QED BY <1>1, <1>2, <1>5

\* And the one of flush.
LEMMA FlushTurns ==
  ASSUME NEW c \in Caches, HoldsKeys(c)
  PROVE  \E g : /\ g[0] = c
                /\ \A n \in 1..Cardinality(Keys) : g[n] = EvictAny(g[n - 1])
                /\ flush(c) = g[Cardinality(Keys)]
<1> DEFINE N == Cardinality(Keys)
           D == {d \in Caches : Shrunk(c, d)}
           turn == [x \in D \X (1..N) |-> EvictAny(x[1])]
           after[n \in 0..N] == IF n = 0 THEN c ELSE EvictAny(after[n - 1])
<1>1. N \in Nat
  BY FS_CardinalityType, CacheAssumption
<1>2. c \in D
  BY NothingShrunk
<1>3. turn \in [D \X (1..N) -> D]
  <2>1. \A d \in D : EvictAny(d) \in D
    BY EvictAnyShrinks DEF Shrunk
  <2> HIDE DEF D, N
  <2> QED BY <2>1
<1>4. \E g : IsTurns(g, D, turn, c, N)
  <2> HIDE DEF D, turn, N
  <2> QED BY <1>1, <1>2, <1>3, Iterated
<1>5. PICK g : IsTurns(g, D, turn, c, N)
  BY <1>4
<1>6. g \in [0..N -> D] /\ \A n \in 0..N : g[n] = IF n = 0 THEN c ELSE EvictAny(g[n - 1])
  <2>1. ASSUME NEW n \in 1..N PROVE g[n] = EvictAny(g[n - 1])
    <3>1. n - 1 \in 0..N
      BY <1>1
    <3>2. g[n] = turn[<<g[n - 1], n>>] /\ g[n - 1] \in D
      <4> HIDE DEF D, turn
      <4> QED BY <1>5, <3>1 DEF IsTurns
    <3> HIDE DEF D
    <3> QED BY <3>2
  <2> HIDE DEF turn, D
  <2>2. g \in [0..N -> D] /\ g[0] = c
    BY <1>5 DEF IsTurns
  <2>3. \A n \in 0..N : n # 0 => n \in 1..N
    BY <1>1
  <2> QED BY <2>1, <2>2, <2>3
<1>7. \E a : a = [n \in 0..N |-> IF n = 0 THEN c ELSE EvictAny(a[n - 1])]
  <2> DEFINE h == [n \in 0..N |-> IF n = 0 THEN c ELSE EvictAny(g[n - 1])]
  <2>1. g = h
    BY <1>6
  <2> QED BY <2>1
<1>8. after = [n \in 0..N |-> IF n = 0 THEN c ELSE EvictAny(after[n - 1])]
  BY <1>7
<1>9. flush(c) = after[N]
  BY DEF flush
<1> HIDE DEF after
<1>10. after[0] = c /\ \A n \in 1..N : after[n] = EvictAny(after[n - 1])
  BY <1>1, <1>8
<1> QED BY <1>9, <1>10

\* All turns of flush.
LEMMA FlushShrinks ==
  ASSUME NEW c \in Caches, HoldsKeys(c)
  PROVE  Shrunk(c, flush(c))
<1> DEFINE N == Cardinality(Keys)
<1>1. N \in Nat
  BY FS_CardinalityType, CacheAssumption
<1>2. PICK g : /\ g[0] = c
               /\ \A n \in 1..N : g[n] = EvictAny(g[n - 1])
               /\ flush(c) = g[N]
  BY FlushTurns
<1> HIDE DEF N
<1> DEFINE S == {n \in Nat : n <= N => Shrunk(c, g[n])}
<1>3. 0 \in S
  BY <1>2, NothingShrunk
<1>4. ASSUME NEW n \in Nat, n \in S PROVE n + 1 \in S
  <2>1. SUFFICES ASSUME n + 1 <= N PROVE Shrunk(c, g[n + 1])
    OBVIOUS
  <2>2. Shrunk(c, g[n]) /\ n + 1 \in 1..N /\ (n + 1) - 1 = n
    BY <1>1, <1>4, <2>1
  <2>3. g[n + 1] = EvictAny(g[n])
    BY <1>2, <2>2
  <2> QED BY <2>2, <2>3, EvictAnyShrinks
<1>5. N \in S
  <2> HIDE DEF S
  <2> QED BY <1>1, <1>3, <1>4, SetInduction
<1> QED BY <1>1, <1>2, <1>5
-----------------------------------------------------------------------------
(* What the cache holds for its keys. *)

\* For every key, what that key was compiled to.
Sound(c) ==
  /\ c \in Caches /\ HoldsKeys(c)
  /\ \A k \in Cached(c) : LET h == c.data[c.hash[k]]
                          IN  h \in Handles /\ h.re = k /\ Compiled(k, h.deglob)

\* What is known is known by the same nodes, with the same data.
SameKnown(c, d) ==
  Cached(d) = Cached(c) /\ \A k \in Cached(c) : d.hash[k] = c.hash[k] /\ d.data[d.hash[k]] = c.data[c.hash[k]]

\* A cache that knows the same keeps what Sound says of it.
LEMMA SameKnownSound ==
  ASSUME NEW c, Sound(c), NEW d \in Caches, SameKnown(c, d)
  PROVE  Sound(d)
<1>1. HoldsKeys(d)
  BY DEF HoldsKeys, SameKnown, Sound
<1>2. \A k \in Cached(d) : LET h == d.data[d.hash[k]]
                           IN  h \in Handles /\ h.re = k /\ Compiled(k, h.deglob)
  BY DEF SameKnown, Sound
<1> QED BY <1>1, <1>2 DEF Sound

\* Tidy keeps what is known.
LEMMA TidySound ==
  ASSUME NEW c, Sound(c)
  PROVE  /\ Sound(Tidy(c)) /\ SameKnown(c, Tidy(c))
         /\ Tidy(c).freed = c.freed /\ Tidy(c).ok = c.ok
<1>1. /\ c \in Caches /\ Tidy(c) \in Caches /\ Tidy(c).hash = c.hash
      /\ Tidy(c).freed = c.freed /\ Tidy(c).ok = c.ok
      /\ \A n \in Live(c) \intersect Nodes : Tidy(c).data[n] = c.data[n]
  BY TidyKeepsData DEF Sound
<1>2. \A k \in Cached(c) : c.hash[k] \in Live(c) \intersect Nodes
  BY DEF Sound, HoldsKeys, Live
<1>3. SameKnown(c, Tidy(c))
  BY <1>1, <1>2 DEF SameKnown, Cached
<1> QED BY <1>1, <1>3, SameKnownSound

\* So does a hit.
LEMMA UpdateSound ==
  ASSUME NEW c, Sound(c), NEW k \in Cached(c)
  PROVE  /\ Sound(m_update(c, c.hash[k])) /\ SameKnown(c, m_update(c, c.hash[k]))
         /\ m_update(c, c.hash[k]).freed = c.freed
<1>1. c \in Caches /\ c.hash[k] \in Nodes
  BY DEF Sound, HoldsKeys
<1>2. /\ m_update(c, c.hash[k]) \in Caches /\ SameData(c, m_update(c, c.hash[k]))
  BY <1>1, UpdateKeepsData
<1>3. SameKnown(c, m_update(c, c.hash[k]))
  BY <1>2 DEF SameKnown, SameData, Cached
<1> QED BY <1>2, <1>3, SameKnownSound DEF SameData

\* A miss adds one key to what is known.
LEMMA PutSound ==
  ASSUME NEW c, Sound(c), c.freed = {}, NEW k \in Keys, k \notin Cached(c), NEW h \in Handles,
         h.re = k, Compiled(k, h.deglob)
  PROVE  LET r == put(c, k, h)
         IN  /\ Sound(r) /\ r.freed = {} /\ Cached(r) = Cached(c) \union {k}
             /\ r.data[r.hash[k]] = h
             /\ \A j \in Cached(c) : r.data[r.hash[j]] = c.data[c.hash[j]]
<1> DEFINE r == put(c, k, h)
           n == new(c, k)
<1>1. c \in Caches /\ HoldsKeys(c)
  BY DEF Sound
<1>2. /\ r \in Caches /\ r.freed = {} /\ n \in Nodes /\ KeyOf(n) = k
      /\ r.hash = [c.hash EXCEPT ![k] = n] /\ r.data = [c.data EXCEPT ![n] = h]
  BY <1>1, PutKeepsData DEF IsPut
<1>3. n # null
  BY <1>2, CacheAssumption DEF Nodes
<1> HIDE DEF r, n
<1>4. r.hash[k] = n /\ r.data[n] = h
  BY <1>1, <1>2 DEF Caches
<1>5. ASSUME NEW j \in Cached(c)
      PROVE  j # k /\ r.hash[j] = c.hash[j] /\ r.data[r.hash[j]] = c.data[c.hash[j]]
  <2>1. j \in Keys /\ j # k /\ c.hash[j] \in Nodes /\ KeyOf(c.hash[j]) = j
    BY <1>1, <1>5 DEF Cached, HoldsKeys
  <2>2. c.hash[j] # n
    BY <1>2, <2>1
  <2> QED BY <1>1, <1>2, <2>1, <2>2 DEF Caches
<1>6. Cached(r) = Cached(c) \union {k}
  <2>1. \A j \in Keys \ {k} : r.hash[j] = c.hash[j]
    BY <1>1, <1>2 DEF Caches
  <2> QED BY <1>3, <1>4, <2>1 DEF Cached
<1>7. HoldsKeys(r)
  BY <1>1, <1>2, <1>4, <1>5, <1>6 DEF HoldsKeys
<1>8. \A j \in Cached(r) : LET g == r.data[r.hash[j]]
                           IN  g \in Handles /\ g.re = j /\ Compiled(j, g.deglob)
  BY <1>4, <1>5, <1>6 DEF Sound
<1>9. Sound(r)
  BY <1>2, <1>7, <1>8 DEF Sound
<1> QED BY <1>2, <1>4, <1>5, <1>6, <1>9 DEF r

\* Evictions only take from it.
LEMMA ShrunkSound ==
  ASSUME NEW c, Sound(c), NEW d, Shrunk(c, d)
  PROVE  /\ Sound(d) /\ Cached(d) \subseteq Cached(c)
         /\ \A k \in Cached(d) : d.data[d.hash[k]] = c.data[c.hash[k]]
<1>1. \A k \in Cached(d) : k \in Cached(c) /\ d.hash[k] = c.hash[k] /\ d.data = c.data
  BY DEF Shrunk, Cached
<1>2. HoldsKeys(d)
  BY <1>1 DEF HoldsKeys, Sound
<1>3. \A k \in Cached(d) : LET h == d.data[d.hash[k]]
                           IN  h \in Handles /\ h.re = k /\ Compiled(k, h.deglob)
  BY <1>1 DEF Sound
<1>4. Sound(d)
  BY <1>2, <1>3 DEF Sound, Shrunk
<1> QED BY <1>1, <1>4
-----------------------------------------------------------------------------
(* The three builds. *)

\* What holds between two calls, of the cache and the memory together.
RInv ==
  /\ build \in {"free", "cache", "verilog"}
  /\ alive \in BOOLEAN
  /\ Sound(cache) /\ cache.freed = {}
  /\ alive => cache.ok
  /\ heap \subseteq Handles /\ IsFiniteSet(heap)
  /\ HeapIsCache
  /\ CachedAsUncached

\* The type invariant is part of it.
LEMMA RInvType == RInv => TypeOK
BY DEF RInv, TypeOK, Sound, HoldsKeys, Handles

\* Which memory a compiled expression is makes no difference to a match.
LEMMA SamePatternSameMatch ==
  ASSUME NEW h, NEW str, NEW re, NEW deglob, h.re = re, h.deglob = deglob
  PROVE  uvm_re_exec(h, str) = uvm_re_exec(NewHandle(re, deglob), str)
BY DEF uvm_re_exec, NewHandle

\* New memory is numbered by the memory in use.
LEMMA NewHandleType ==
  ASSUME IsFiniteSet(heap), NEW re \in Keys, NEW deglob \in BOOLEAN
  PROVE  /\ NewHandle(re, deglob) \in Handles
         /\ NewHandle(re, deglob).re = re /\ NewHandle(re, deglob).deglob = deglob
<1>1. Cardinality({h \in heap : h.re = re /\ h.deglob = deglob}) \in Nat
  <2> DEFINE T == {h \in heap : h.re = re /\ h.deglob = deglob}
  <2>1. T \in SUBSET heap
    OBVIOUS
  <2> HIDE DEF T
  <2>2. IsFiniteSet(T)
    BY <2>1, FS_Subset
  <2>3. Cardinality(T) \in Nat
    BY <2>2, FS_CardinalityType
  <2> QED BY <2>3 DEF T
<1> QED BY <1>1 DEF NewHandle, Handles

\* An empty cache.
LEMMA CacheStart == Sound(Empty) /\ Cached(Empty) = {} /\ Empty.freed = {} /\ Empty.ok
<1>1. Empty \in Caches
  BY DEF Empty, Caches, Blank, Links
<1>2. Cached(Empty) = {} /\ Empty.freed = {} /\ Empty.ok
  BY DEF Cached, Empty
<1> QED BY <1>1, <1>2 DEF Sound, HoldsKeys

\* The invariant holds at the start.
LEMMA InitInvariant == Init => RInv
<1> SUFFICES ASSUME Init PROVE RInv
  OBVIOUS
<1>1. cache = Empty /\ heap = {} /\ call.op # "match"
  BY DEF Init, NoCall
<1>2. IsFiniteSet(heap) /\ heap \subseteq Handles
  BY <1>1, FS_EmptySet
<1>3. HeapIsCache
  BY <1>1, CacheStart DEF HeapIsCache
<1>4. CachedAsUncached
  BY <1>1 DEF CachedAsUncached
<1>5. build \in {"free", "cache", "verilog"} /\ alive \in BOOLEAN
  BY DEF Init
<1> QED BY <1>1, <1>2, <1>3, <1>4, <1>5, CacheStart DEF RInv

\* A step that leaves the cache and the heap alone, in a build without a cache or
\* with another call than a match.
LEMMA CacheUntouched ==
  ASSUME RInv, UNCHANGED <<build, cache, heap>>, alive' \in BOOLEAN, alive' => alive,
         build # "cache" \/ call'.op # "match"
  PROVE  RInv'
<1>1. Sound(cache)' /\ (cache.freed = {})' /\ (alive => cache.ok)'
  BY DEF RInv
<1>2. HeapIsCache'
  BY DEF RInv, HeapIsCache, Cache
<1>3. CachedAsUncached'
  BY DEF RInv, CachedAsUncached
<1>4. (heap \subseteq Handles /\ IsFiniteSet(heap))'
  BY DEF RInv
<1>5. (build \in {"free", "cache", "verilog"})'
  BY DEF RInv
<1> QED BY <1>1, <1>2, <1>3, <1>4, <1>5 DEF RInv

\* A match that finds its expression.
LEMMA HitKeepsInvariant ==
  ASSUME RInv, Ready("cache"), NEW re \in Cached(cache), NEW str, NEW deglob,
         cache' = Tidy(m_update(cache, cache.hash[re])),
         Matched(re, str, deglob, uvm_re_exec(Cache(re), str), FALSE),
         UNCHANGED <<heap, build>>, alive' = cache'.ok
  PROVE  RInv'
<1> DEFINE d == m_update(cache, cache.hash[re])
<1>1. Sound(d) /\ SameKnown(cache, d) /\ d.freed = {}
  BY UpdateSound DEF RInv
<1>2. cache' = Tidy(d)
  OBVIOUS
<1> HIDE DEF d
<1>3. Sound(cache') /\ SameKnown(d, cache') /\ cache'.freed = {}
  BY <1>1, <1>2, TidySound
<1>4. /\ Cached(cache)' = Cached(cache)
      /\ \A k \in Cached(cache) : Cache(k)' = Cache(k)
  BY <1>1, <1>3 DEF SameKnown, Cache
<1>5. HeapIsCache'
  BY <1>4 DEF RInv, HeapIsCache, Ready
<1>6. CachedAsUncached'
  <2>1. Cache(re).re = re /\ Compiled(re, Cache(re).deglob) /\ Cache(re)' = Cache(re)
    BY <1>4 DEF RInv, Sound, Cache
  <2>2. call'.re = re /\ call'.str = str /\ call'.deglob = deglob
        /\ call'.ret = uvm_re_exec(Cache(re), str)
    BY DEF Matched
  <2>3. CASE Cache(re).deglob # deglob
    BY <1>4, <2>1, <2>2, <2>3 DEF CachedAsUncached
  <2>4. CASE Cache(re).deglob = deglob
    <3>1. Compiled(re, deglob) /\ call'.ret = (regexec(regcomp(Pattern(re, deglob).re).pieces, str))
      BY <2>1, <2>2, <2>4 DEF uvm_re_exec
    <3>2. regexec(regcomp(Pattern(re, deglob).re).pieces, str) \in BOOLEAN
      BY DEF regexec
    <3>3. call'.ret = uvm_re_compexec(call.re, call.str, call.deglob)'
      BY <2>2, <3>1, <3>2 DEF uvm_re_compexec, uvm_re_exec, NewHandle
    <3> QED BY <3>3 DEF CachedAsUncached
  <2> QED BY <2>3, <2>4
<1>7. alive' \in BOOLEAN /\ (alive => cache.ok)'
  BY <1>3 DEF Sound, Caches
<1> QED BY <1>3, <1>5, <1>6, <1>7 DEF RInv

\* What uvm_re_compexec says does not depend on the memory in use.
LEMMA CompexecValue ==
  ASSUME NEW re, NEW str, NEW deglob
  PROVE  uvm_re_compexec(re, str, deglob)
           = (Compiled(re, deglob) /\ regexec(regcomp(Pattern(re, deglob).re).pieces, str))
BY DEF uvm_re_compexec, uvm_re_exec, NewHandle

\* A match that compiles.
LEMMA MissKeepsInvariant ==
  ASSUME RInv, Ready("cache"), NEW re \in Keys, re \notin Cached(cache), NEW str,
         NEW deglob \in BOOLEAN,
         Matched(re, str, deglob, uvm_re_compexec(re, str, deglob), ~Compiled(re, deglob)),
         IF Compiled(re, deglob)
         THEN /\ cache' = Tidy(put(cache, re, NewHandle(re, deglob)))
              /\ heap' = heap \union {NewHandle(re, deglob)}
         ELSE UNCHANGED <<cache, heap>>,
         UNCHANGED build, alive' = cache'.ok
  PROVE  RInv'
<1>1. CachedAsUncached'
  <2>1. call'.re = re /\ call'.str = str /\ call'.deglob = deglob
        /\ call'.ret = uvm_re_compexec(re, str, deglob)
    BY DEF Matched
  <2>2. call'.ret = uvm_re_compexec(call.re, call.str, call.deglob)'
    BY <2>1 DEF uvm_re_compexec, uvm_re_exec, NewHandle
  <2> QED BY <2>2 DEF CachedAsUncached
<1>2. CASE ~Compiled(re, deglob)
  <2>1. UNCHANGED <<cache, heap>> /\ alive
    BY <1>2 DEF Ready
  <2>2. HeapIsCache'
    BY <2>1 DEF RInv, HeapIsCache, Cache
  <2>3. alive' \in BOOLEAN /\ (alive => cache.ok)'
    BY <2>1 DEF RInv, Sound, Caches
  <2> QED BY <1>1, <2>1, <2>2, <2>3 DEF RInv
<1>3. CASE Compiled(re, deglob)
  <2> DEFINE h == NewHandle(re, deglob)
             d == put(cache, re, h)
  <2>1. h \in Handles /\ h.re = re /\ h.deglob = deglob
    BY NewHandleType DEF RInv
  <2>2. cache' = Tidy(d) /\ heap' = heap \union {h}
    BY <1>3
  <2> HIDE DEF h
  <2>3. /\ Sound(d) /\ d.freed = {} /\ Cached(d) = Cached(cache) \union {re}
        /\ d.data[d.hash[re]] = h
        /\ \A j \in Cached(cache) : d.data[d.hash[j]] = cache.data[cache.hash[j]]
    BY <1>3, <2>1, PutSound DEF RInv
  <2> HIDE DEF d
  <2>4. Sound(cache') /\ SameKnown(d, cache') /\ cache'.freed = {}
    BY <2>2, <2>3, TidySound
  <2>5. /\ Cached(cache)' = Cached(cache) \union {re} /\ Cache(re)' = h
        /\ \A j \in Cached(cache) : Cache(j)' = Cache(j)
    BY <2>3, <2>4 DEF SameKnown, Cache
  <2>6. HeapIsCache'
    <3>1. heap = {Cache(k) : k \in Cached(cache)}
      BY DEF RInv, HeapIsCache, Ready
    <3>2. {Cache(k)' : k \in Cached(cache)'} = {Cache(k) : k \in Cached(cache)} \union {h}
      BY <2>5
    <3>3. heap' = {Cache(k)' : k \in Cached(cache)'}
      BY <2>2, <3>1, <3>2
    <3> QED BY <3>3 DEF HeapIsCache, Cache
  <2>7. heap' \subseteq Handles /\ IsFiniteSet(heap')
    BY <2>1, <2>2, FS_AddElement DEF RInv
  <2>8. alive' \in BOOLEAN /\ (alive => cache.ok)'
    BY <2>4 DEF Sound, Caches
  <2> QED BY <1>1, <2>4, <2>6, <2>7, <2>8 DEF RInv
<1> QED BY <1>2, <1>3

\* An operation that evicts.
LEMMA EvictedKeepsInvariant ==
  ASSUME RInv, NEW c, Shrunk(cache, c), NEW op, op # "match", NEW n, Leaves(op, n, c)
  PROVE  RInv'
<1> DEFINE d == Tidy(c)
<1>1. Ready("cache") /\ cache' = [d EXCEPT !.freed = {}] /\ heap' = heap \ c.freed /\ alive' = c.ok
  BY DEF Leaves
<1>2. /\ Sound(c) /\ Cached(c) \subseteq Cached(cache)
      /\ \A k \in Cached(c) : c.data[c.hash[k]] = cache.data[cache.hash[k]]
  BY ShrunkSound DEF RInv
<1>3. Sound(d) /\ SameKnown(c, d) /\ d.ok = c.ok
  BY <1>2, TidySound
<1> HIDE DEF d
<1>4. cache' \in Caches /\ SameKnown(d, cache') /\ cache'.freed = {} /\ cache'.ok = c.ok
  <2>1. cache' \in Caches /\ cache'.freed = {} /\ cache'.ok = c.ok
    BY <1>1, <1>3 DEF Sound, Caches
  <2>2. cache'.hash = d.hash /\ cache'.data = d.data
    BY <1>1, <1>3 DEF Sound, Caches
  <2> QED BY <2>1, <2>2 DEF SameKnown, Cached
<1>5. Sound(cache')
  BY <1>3, <1>4, SameKnownSound
<1>6. Cached(cache)' = Cached(c) /\ \A k \in Cached(c) : Cache(k)' = Cache(k)
  BY <1>2, <1>3, <1>4 DEF SameKnown, Cache
<1>7. c.ok => heap' = {Cache(k)' : k \in Cached(cache)'}
  <2> SUFFICES ASSUME c.ok PROVE heap' = {Cache(k)' : k \in Cached(cache)'}
    OBVIOUS
  <2>1. heap = {Cache(k) : k \in Cached(cache)}
    BY <1>1 DEF RInv, HeapIsCache, Ready
  <2>2. c.freed = {Cache(k) : k \in Cached(cache) \ Cached(c)}
    BY DEF Shrunk, RInv, Cache
  <2>3. \A k \in Cached(cache) : Cache(k).re = k
    BY DEF RInv, Sound, Cache
  <2>4. heap \ c.freed = {Cache(k) : k \in Cached(c)}
    BY <1>2, <2>1, <2>2, <2>3
  <2> QED BY <1>1, <1>6, <2>4
<1>8. HeapIsCache'
  BY <1>1, <1>7 DEF HeapIsCache, Cache
<1>9. CachedAsUncached'
  BY DEF Leaves, CachedAsUncached
<1>10. heap' \subseteq Handles /\ IsFiniteSet(heap')
  <2>1. heap' \in SUBSET heap
    BY <1>1
  <2> QED BY <2>1, FS_Subset DEF RInv
<1>11. alive' \in BOOLEAN /\ (alive => cache.ok)'
  BY <1>1, <1>4 DEF Caches
<1> QED BY <1>4, <1>5, <1>8, <1>9, <1>10, <1>11 DEF RInv, Leaves

\* Every step keeps the invariant.
LEMMA NextInvariant == RInv /\ [Next]_vars => RInv'
<1> SUFFICES ASSUME RInv, [Next]_vars PROVE RInv'
  OBVIOUS
<1>1. CASE MatchFree
  <2>1. build # "cache"
    BY <1>1 DEF MatchFree, Ready
  <2>2. UNCHANGED <<build, cache, heap, alive>>
    BY <1>1 DEF MatchFree, uvm_re_compexecfree
  <2> QED BY <2>1, <2>2, CacheUntouched DEF RInv
<1>2. ASSUME NEW re \in Keys, NEW str \in CachedStrings, NEW deglob \in BOOLEAN,
             MatchCached(re, str, deglob)
      PROVE  RInv'
  <2>1. CASE re \in Cached(cache)
    BY <1>2, <2>1, HitKeepsInvariant DEF MatchCached
  <2>2. CASE re \notin Cached(cache)
    BY <1>2, <2>2, MissKeepsInvariant DEF MatchCached
  <2> QED BY <2>1, <2>2
<1>3. CASE MatchVerilog
  <2>1. build # "cache" /\ UNCHANGED <<build, cache, heap, alive>>
    BY <1>3 DEF MatchVerilog, Ready
  <2> QED BY <2>1, CacheUntouched DEF RInv
<1>4. ASSUME NEW re \in Regexes, MatchBracket(re) PROVE RInv'
  <2>1. UNCHANGED <<build, cache, heap>> /\ alive' = FALSE /\ call'.op # "match"
    BY <1>4 DEF MatchBracket, NoCall
  <2> QED BY <2>1, CacheUntouched
<1>5. ASSUME NEW n \in Sizes, SetMaxSize(n) PROVE RInv'
  <2>1. Shrunk(cache, evict_to_max(cache, n))
    BY EvictToMaxShrinks DEF RInv, Sound
  <2> QED BY <1>5, <2>1, EvictedKeepsInvariant DEF SetMaxSize
<1>6. CASE Flush
  <2>1. Shrunk(cache, flush(cache))
    BY FlushShrinks DEF RInv, Sound
  <2> QED BY <1>6, <2>1, EvictedKeepsInvariant DEF Flush
<1>7. CASE Return
  <2>1. UNCHANGED <<build, cache, heap, alive>> /\ call'.op # "match"
    BY <1>7 DEF Return, NoCall
  <2> QED BY <2>1, CacheUntouched DEF RInv
<1>8. CASE UNCHANGED vars
  <2>1. UNCHANGED <<build, cache, heap, call, alive>>
    BY <1>8 DEF vars
  <2>2. CachedAsUncached'
    BY <2>1 DEF RInv, CachedAsUncached, uvm_re_compexec, uvm_re_exec, NewHandle, Cache
  <2>3. HeapIsCache'
    BY <2>1 DEF RInv, HeapIsCache, Cache
  <2> QED BY <2>1, <2>2, <2>3 DEF RInv
<1> QED BY <1>1, <1>2, <1>3, <1>4, <1>5, <1>6, <1>7, <1>8 DEF Next

-----------------------------------------------------------------------------
(* The call, until its result is taken. *)

\* What a match did: without a cache it compiled the expression, with one it
\* found it there or put it there, unless it did not compile.
CallInv ==
  call.op = "match" =>
    /\ call.re \in Seq(STRING) /\ Len(call.str) \in Nat /\ call.deglob \in BOOLEAN
    /\ build = "free" =>
         /\ call.error = ~Compiled(call.re, call.deglob)
         /\ call.ret = (Compiled(call.re, call.deglob)
                         /\ regexec(regcomp(Pattern(call.re, call.deglob).re).pieces, call.str))
    /\ build = "cache" /\ ~call.error => call.re \in Cached(cache)
    /\ build = "verilog" =>
         /\ call.ret = VerilogMatch(call.re, call.str)
         /\ \A i \in 1..Len(call.str) : call.str[i] # "none"

\* No call at the start.
LEMMA InitCall == Init => CallInv
BY DEF Init, NoCall, CallInv

\* Every call is recorded as CallInv says.
LEMMA NextCall == RInv /\ CallInv /\ [Next]_vars => CallInv'
<1> SUFFICES ASSUME RInv, CallInv, [Next]_vars PROVE CallInv'
  OBVIOUS
<1>1. CASE MatchFree
  <2>1. PICK re \in Globs \union Regexes, deglob \in BOOLEAN, str \in Strings :
          Matched(re, str, deglob, uvm_re_compexec(re, str, deglob), ~Compiled(re, deglob))
    BY <1>1 DEF MatchFree, uvm_re_compexecfree
  <2>2. build' = "free" /\ re \in Seq(STRING) /\ Len(str) \in Nat
    BY <1>1, TextAssumption DEF MatchFree, Ready
  <2>3. uvm_re_compexec(re, str, deglob)
          = (Compiled(re, deglob) /\ regexec(regcomp(Pattern(re, deglob).re).pieces, str))
    BY CompexecValue
  <2>4. /\ call'.re = re /\ call'.str = str /\ call'.deglob = deglob
        /\ call'.ret = uvm_re_compexec(re, str, deglob) /\ call'.error = ~Compiled(re, deglob)
    BY <2>1 DEF Matched
  <2> QED BY <2>2, <2>3, <2>4 DEF CallInv
<1>2. ASSUME NEW re \in Keys, NEW str \in CachedStrings, NEW deglob \in BOOLEAN,
             MatchCached(re, str, deglob)
      PROVE  CallInv'
  <2>1. build' = "cache" /\ re \in Seq(STRING) /\ Len(str) \in Nat
    BY <1>2, TextAssumption DEF MatchCached, Ready
  <2>2. call'.re = re /\ call'.str = str /\ call'.deglob = deglob
    BY <1>2 DEF MatchCached, Matched
  <2>3. CASE re \in Cached(cache)
    <3> DEFINE d == m_update(cache, cache.hash[re])
    <3>1. Sound(d) /\ Cached(d) = Cached(cache)
      BY <2>3, UpdateSound DEF RInv, SameKnown
    <3>2. cache' = Tidy(d)
      BY <1>2, <2>3 DEF MatchCached
    <3> HIDE DEF d
    <3>3. Cached(cache') = Cached(cache)
      BY <3>1, <3>2, TidySound DEF SameKnown
    <3>4. re \in Cached(cache)'
      BY <2>3, <3>3
    <3> QED BY <2>1, <2>2, <3>4 DEF CallInv
  <2>4. CASE re \notin Cached(cache) /\ Compiled(re, deglob)
    <3> DEFINE h == NewHandle(re, deglob)
               d == put(cache, re, h)
    <3>1. h \in Handles /\ h.re = re /\ h.deglob = deglob
      BY NewHandleType DEF RInv
    <3>2. cache' = Tidy(d)
      BY <1>2, <2>4 DEF MatchCached
    <3> HIDE DEF h
    <3>3. Sound(d) /\ Cached(d) = Cached(cache) \union {re}
      BY <2>4, <3>1, PutSound DEF RInv
    <3> HIDE DEF d
    <3>4. Cached(cache') = Cached(d)
      BY <3>2, <3>3, TidySound DEF SameKnown
    <3>5. re \in Cached(cache)'
      BY <3>3, <3>4
    <3> QED BY <2>1, <2>2, <3>5 DEF CallInv
  <2>5. CASE re \notin Cached(cache) /\ ~Compiled(re, deglob)
    <3>1. call'.error = ~Compiled(re, deglob)
      BY <1>2, <2>5 DEF MatchCached, Matched
    <3> QED BY <2>1, <2>2, <2>5, <3>1 DEF CallInv
  <2> QED BY <2>3, <2>4, <2>5
<1>3. CASE MatchVerilog
  <2>1. PICK re \in Globs, str \in Strings : Matched(re, str, TRUE, VerilogMatch(re, str), FALSE)
    BY <1>3 DEF MatchVerilog
  <2>2. build' = "verilog" /\ re \in Seq(STRING) /\ str \in Seq(STRING) /\ Len(str) \in Nat
    BY <1>3, TextAssumption DEF MatchVerilog, Ready
  <2>3. \A i \in 1..Len(str) : str[i] # "none"
    <3>1. \A i \in 1..Len(str) : str[i] \in ToSet(str)
      BY <2>2 DEF ToSet
    <3> QED BY <3>1, TextAssumption
  <2>4. /\ call'.re = re /\ call'.str = str /\ call'.deglob = TRUE
        /\ call'.ret = VerilogMatch(re, str)
    BY <2>1 DEF Matched
  <2> QED BY <2>2, <2>3, <2>4 DEF CallInv
<1>4. ASSUME call'.op # "match" PROVE CallInv'
  BY <1>4 DEF CallInv
<1>5. ASSUME NEW re \in Regexes, MatchBracket(re) PROVE CallInv'
  BY <1>4, <1>5 DEF MatchBracket, NoCall
<1>6. ASSUME NEW n \in Sizes, SetMaxSize(n) PROVE CallInv'
  <2>1. call'.op = "set_max_size"
    BY <1>6 DEF SetMaxSize, Leaves
  <2> QED BY <1>4, <2>1
<1>7. CASE Flush
  <2>1. call'.op = "flush"
    BY <1>7 DEF Flush, Leaves
  <2> QED BY <1>4, <2>1
<1>8. CASE Return
  BY <1>4, <1>8 DEF Return, NoCall
<1>9. CASE UNCHANGED vars
  BY <1>9 DEF vars, CallInv
<1> QED BY <1>1, <1>2, <1>3, <1>5, <1>6, <1>7, <1>8, <1>9 DEF Next

\* A match of a glob of literals that was compiled has the glob's meaning.
LEMMA CompiledGlobMatches ==
  ASSUME NEW re \in Seq(STRING), Plain(re), NEW str, Len(str) \in Nat, Compiled(re, TRUE)
  PROVE  regexec(regcomp(Pattern(re, TRUE).re).pieces, str) = GlobMatches(re, str)
<1>1. re \in Seq(Chars) /\ re # <<>>
  BY StringsAreChars DEF Plain
<1>2. \A i \in 1..Len(re) : re[i] \in Literal
  <2>1. \A i \in 1..Len(re) : re[i] \in ToSet(re) /\ re[i] \in Chars
    BY <1>1 DEF ToSet
  <2> QED BY <2>1 DEF Plain, Literal
<1>3. Pattern(re, TRUE).ok
  BY DEF Compiled
<1>4. Pattern(re, TRUE).re = <<"^">> \o Body(re) \o <<"$">>
  BY <1>1, <1>2, <1>3, PlainPattern
<1>5. LET r == regcomp(<<"^">> \o Body(re) \o <<"$">>)
      IN  r.ok = TRUE /\ regexec(r.pieces, str) = GlobMatches(re, str)
  BY <1>1, <1>2, GlobIsMatched
<1> QED BY <1>4, <1>5

\* A recorded match is what the glob means.
LEMMA CallIsGlob == RInv /\ CallInv => MatchIsGlob
<1> SUFFICES ASSUME RInv, CallInv, call.op = "match", build # "verilog", call.deglob,
                    Plain(call.re), ~call.error, build = "cache" => Cache(call.re).deglob
             PROVE  call.ret <=> GlobMatches(call.re, call.str)
  BY DEF MatchIsGlob
<1> DEFINE re == call.re
           str == call.str
           matched == regexec(regcomp(Pattern(re, TRUE).re).pieces, str)
<1>1. re \in Seq(STRING) /\ Len(str) \in Nat /\ call.deglob = TRUE
  BY DEF CallInv
<1>2. Compiled(re, TRUE) /\ call.ret = (Compiled(re, TRUE) /\ matched)
  <2>1. CASE build = "free"
    <3>1. call.error = ~Compiled(re, TRUE) /\ call.ret = (Compiled(re, TRUE) /\ matched)
      BY <1>1, <2>1 DEF CallInv
    <3> QED BY <3>1
  <2>2. CASE build = "cache"
    <3>1. re \in Cached(cache) /\ Cache(re).deglob
      BY <2>2 DEF CallInv
    <3>2. Cache(re).deglob \in BOOLEAN /\ Compiled(re, Cache(re).deglob)
      BY <3>1 DEF RInv, Sound, Cache, Handles
    <3>3. Cache(re).deglob = TRUE
      BY <3>1, <3>2
    <3>4. call.ret = uvm_re_compexec(re, str, TRUE)
      BY <1>1, <2>2, <3>3 DEF RInv, CachedAsUncached
    <3>5. uvm_re_compexec(re, str, TRUE) = (Compiled(re, TRUE) /\ matched)
      BY CompexecValue
    <3> QED BY <3>2, <3>3, <3>4, <3>5
  <2> QED BY <2>1, <2>2 DEF RInv
<1>3. matched = GlobMatches(re, str)
  BY <1>1, <1>2, CompiledGlobMatches
<1> QED BY <1>2, <1>3

\* The Verilog only version says what the C code does of a glob without "+".
LEMMA CallAgrees == CallInv => VerilogAgrees
<1> SUFFICES ASSUME CallInv, call.op = "match", build = "verilog", Plain(call.re),
                    "+" \notin ToSet(call.re), Compiled(call.re, TRUE)
             PROVE  call.ret <=> uvm_re_compexec(call.re, call.str, TRUE)
  BY DEF VerilogAgrees
<1> DEFINE re == call.re
           str == call.str
           matched == regexec(regcomp(Pattern(re, TRUE).re).pieces, str)
<1>1. /\ re \in Seq(STRING) /\ Len(str) \in Nat /\ call.ret = VerilogMatch(re, str)
      /\ \A i \in 1..Len(str) : str[i] # "none"
  BY DEF CallInv
<1>2. re # <<>> /\ re[1] # "^" /\ Len(re) \in Nat /\ \A i \in 1..Len(re) : re[i] # "+"
  <2>1. \A i \in 1..Len(re) : re[i] \in ToSet(re)
    BY <1>1 DEF ToSet
  <2>2. re # <<>> /\ "^" \notin ToSet(re)
    BY DEF Plain
  <2>3. Len(re) \in Nat /\ 1 \in 1..Len(re)
    BY <1>1, <2>2
  <2> QED BY <2>1, <2>2, <2>3
<1>3. Sane(re, str)
  BY <1>1, <1>2 DEF Sane
<1>4. VerilogMatch(re, str) <=> GlobMatches(re, str)
  BY <1>2, <1>3, VerilogMatchesGlob
<1>5. matched = GlobMatches(re, str)
  BY <1>1, CompiledGlobMatches
<1>6. uvm_re_compexec(re, str, TRUE) = (Compiled(re, TRUE) /\ matched)
  BY CompexecValue
<1> QED BY <1>1, <1>4, <1>5, <1>6

\* The expression of a recorded match is converted as it should be.
LEMMA CallConverts == CallInv => GlobToRe /\ BufferFits
<1> SUFFICES ASSUME CallInv, call.op = "match" PROVE GlobToRe /\ BufferFits
  BY DEF GlobToRe, BufferFits
<1>1. call.re \in Seq(Chars)
  BY StringsAreChars DEF CallInv
<1>2. GlobToRe
  BY <1>1, ConvertedAsBefore DEF GlobToRe
<1>3. BufferFits
  BY <1>1, WrittenFits DEF BufferFits
<1> QED BY <1>2, <1>3
-----------------------------------------------------------------------------
(* The theorems. *)

\* Both inductive invariants hold in every state: the cache knows for every key
\* memory that is not freed, compiled from that key, and a call that waits to
\* be taken was made with texts and has what compiling or the cache gave.
THEOREM InvariantHolds == Spec => [](RInv /\ CallInv)
<1>1. Init => RInv /\ CallInv
  BY InitInvariant, InitCall
<1>2. RInv /\ CallInv /\ [Next]_vars => (RInv /\ CallInv)'
  BY NextInvariant, NextCall
<1> QED BY <1>1, <1>2, PTL DEF Spec

\* The state keeps its types: a hash entry is a node of its own key, nothing
\* waits to be freed between two calls, and a null handle ends the simulation.
THEOREM RegexTypeCorrect == Spec => []TypeOK
BY InvariantHolds, RInvType, PTL

\* The compiled expressions that are not freed are the ones the cache holds,
\* after every match, eviction and flush: no leak, no use after a free, no
\* double free, for any keys, limits and order of calls.
THEOREM CompiledMemoryIsCached == Spec => []HeapIsCache
<1>1. RInv => HeapIsCache
  BY DEF RInv
<1> QED BY <1>1, InvariantHolds, PTL

\* A match through the cache has the result of compiling there and then,
\* unless the key was compiled the other way: deglob is not in the key.
THEOREM CacheChangesNoResult == Spec => []CachedAsUncached
<1>1. RInv => CachedAsUncached
  BY DEF RInv
<1> QED BY <1>1, InvariantHolds, PTL

\* A glob without brackets, anchors, escapes, "|" and "{", of any length, matches
\* a text if and only if it means to: uvm_re_deglobbed, regcomp and regexec together
\* do what the glob says, with and without the cache.
THEOREM GlobsMatchWhatTheyMean == Spec => []MatchIsGlob
BY InvariantHolds, CallIsGlob, PTL

\* The loop of the Verilog only build decides of every glob without "+", "^" and
\* the other characters that are not plain what the C code does, for every text.
THEOREM VerilogMatchesAsC == Spec => []VerilogAgrees
BY InvariantHolds, CallAgrees, PTL

\* uvm_glob_to_re returns what uvm_re_match takes for the same expression, with
\* and without deglob.
THEOREM ConversionIsKept == Spec => []GlobToRe
<1>1. CallInv => GlobToRe
  BY CallConverts
<1> QED BY <1>1, InvariantHolds, PTL

\* uvm_re_deglobbed stays in its buffer for every glob without a "^" of its own,
\* and between brackets for every glob.
THEOREM ConversionStaysInBuffer == Spec => []BufferFits
<1>1. CallInv => BufferFits
  BY CallConverts
<1> QED BY <1>1, InvariantHolds, PTL

-----------------------------------------------------------------------------
(* The doubly linked list: what the links say, and what each operation makes of it. *)

\* The first n of p.
Among(n, p) == {p[i] : i \in 1..n}

\* The links of c lead through the n nodes of p, which are those of the hash.
Forward(c, n, p) ==
  /\ n \in Nat /\ p \in [1..n -> Nodes]
  /\ Live(c) = Among(n, p)
  /\ \A i, j \in 1..n : p[i] = p[j] => i = j
  /\ n = 0 => c.begin = null
  /\ n > 0 => c.begin = p[1]
  /\ \A i \in 1..n : /\ i = n => c.next[p[i]] = null
                     /\ i < n => c.next[p[i]] = p[i + 1]

\* And back, from the end.
Backward(c, n, p) ==
  /\ \A i \in 1..n : /\ i = 1 => c.prev[p[i]] = null
                     /\ i > 1 => c.prev[p[i]] = p[i - 1]
  /\ n = 0 => c.end = null
  /\ n > 0 => c.end = p[n]

\* The nodes of the hash are finitely many, each of its own key.
LEMMA LiveNodes ==
  ASSUME NEW c \in Caches, HoldsKeys(c)
  PROVE  /\ IsFiniteSet(Live(c)) /\ Cardinality(Live(c)) \in Nat /\ Live(c) \subseteq Nodes
         /\ null \notin Nodes
         /\ \A m \in Live(c) : KeyOf(m) \in Cached(c) /\ c.hash[KeyOf(m)] = m
         /\ \A k \in Cached(c) : c.hash[k] \in Live(c)
<1>1. \A m \in Live(c) : m \in Nodes /\ KeyOf(m) \in Cached(c) /\ c.hash[KeyOf(m)] = m
  BY DEF Live, HoldsKeys
<1>2. \A k \in Cached(c) : c.hash[k] \in Live(c)
  BY DEF Live
<1>3. null \notin Nodes
  BY CacheAssumption DEF Nodes
<1>4. Cached(c) \subseteq Keys
  BY DEF Cached
<1> DEFINE L == Live(c)
           f == [m \in L |-> KeyOf(m)]
<1>5. f \in [L -> Keys] /\ \A a, b \in L : f[a] = f[b] => a = b
  BY <1>1, <1>4
<1> HIDE DEF f, L
<1>6. f \in Injection(L, Keys)
  BY <1>5, Fun_IsInj
<1>7. IsFiniteSet(L) /\ Cardinality(L) \in Nat
  BY <1>6, CacheAssumption, FS_Injection, FS_CardinalityType
<1> QED BY <1>1, <1>2, <1>3, <1>7 DEF L

\* A list has as many nodes as the hash.
LEMMA ListLength ==
  ASSUME NEW c \in Caches, NEW n, NEW p, Forward(c, n, p)
  PROVE  Cardinality(Live(c)) = n /\ n \in Nat /\ IsFiniteSet(Live(c))
<1> DEFINE S == 1..n
           L == Live(c)
<1>1. n \in Nat /\ p \in [S -> L] /\ (\A i, j \in S : p[i] = p[j] => i = j)
      /\ \A m \in L : \E i \in S : p[i] = m
  BY DEF Forward, Among
<1>2. IsFiniteSet(S) /\ Cardinality(S) = n
  <2>1. IsFiniteSet(1..n) /\ Cardinality(1..n) = IF 1 > n THEN 0 ELSE n - 1 + 1
    BY <1>1, FS_Interval
  <2> QED BY <1>1, <2>1
<1> HIDE DEF S, L
<1>3. p \in Bijection(S, L)
  BY <1>1, Fun_IsBij
<1>4. ExistsBijection(S, L)
  BY <1>3 DEF ExistsBijection
<1>5. IsFiniteSet(L) /\ Cardinality(L) = Cardinality(S)
  BY <1>2, <1>4, FS_Bijection
<1> QED BY <1>1, <1>2, <1>5 DEF L

\* A function on 1..n is a sequence of length n.
LEMMA FunctionLength ==
  ASSUME NEW n \in Nat, NEW S, NEW p \in [1..n -> S]
  PROVE  p \in Seq(S) /\ Len(p) = n
<1>1. p \in Seq(S)
  OBVIOUS
<1>2. Len(p) \in Nat /\ DOMAIN p = 1..Len(p)
  BY <1>1, LenProperties
<1> QED BY <1>1, <1>2

\* There is one path.
LEMMA ForwardIsPath ==
  ASSUME NEW c \in Caches, HoldsKeys(c), NEW n, NEW p, Forward(c, n, p)
  PROVE  Paths(c) # {} /\ Path(c) = p /\ Len(p) = n
<1>1. Cardinality(Live(c)) = n /\ n \in Nat
  BY ListLength
<1>2. p \in [1..n -> Live(c)] /\ Len(p) = n
  <2>1. p \in [1..n -> Live(c)]
    BY DEF Forward, Among
  <2> QED BY <1>1, <2>1, FunctionLength
<1>3. Leads(c, p)
  BY <1>1, <1>2 DEF Forward, Leads, Among
<1>4. ASSUME NEW q \in Paths(c) PROVE q = p
  <2>1. q \in [1..n -> Live(c)] /\ Leads(c, q)
    BY <1>1 DEF Paths
  <2>2. Len(q) = n
    BY <1>1, <2>1, FunctionLength
  <2> DEFINE T == {i \in Nat : i + 1 \in 1..n => q[i + 1] = p[i + 1]}
  <2>3. 0 \in T
    <3>1. SUFFICES ASSUME 1 \in 1..n PROVE q[1] = p[1]
      OBVIOUS
    <3> QED BY <1>1, <2>1, <2>2, <3>1 DEF Leads, Forward
  <2>4. ASSUME NEW i \in Nat, i \in T PROVE i + 1 \in T
    <3>1. SUFFICES ASSUME (i + 1) + 1 \in 1..n PROVE q[(i + 1) + 1] = p[(i + 1) + 1]
      OBVIOUS
    <3> DEFINE m == i + 1
    <3>2. m \in 1..n /\ m < n /\ m # n /\ q[m] = p[m]
      BY <1>1, <2>4, <3>1
    <3> HIDE DEF m
    <3>3. c.next[q[m]] = q[m + 1]
      BY <1>1, <2>1, <2>2, <3>2 DEF Leads
    <3>4. c.next[p[m]] = p[m + 1]
      BY <3>2 DEF Forward
    <3> QED BY <3>2, <3>3, <3>4 DEF m
  <2> HIDE DEF T
  <2>5. Nat \subseteq T
    BY <2>3, <2>4, SetInduction
  <2>6. ASSUME NEW i \in 1..n PROVE q[i] = p[i]
    <3>1. i - 1 \in Nat /\ (i - 1) + 1 = i
      BY <1>1
    <3>2. i - 1 \in T
      BY <2>5, <3>1
    <3> QED BY <3>1, <3>2 DEF T
  <2> QED BY <1>2, <2>1, <2>6
<1>5. p \in Paths(c)
  BY <1>1, <1>2, <1>3 DEF Paths
<1> QED BY <1>2, <1>4, <1>5 DEF Path

\* The path that Path chooses is the forward list.
LEMMA PathIsForward ==
  ASSUME NEW c \in Caches, HoldsKeys(c), Paths(c) # {}
  PROVE  Forward(c, Len(Path(c)), Path(c))
<1> DEFINE L == Live(c)
           n == Cardinality(L)
           p == Path(c)
           S == 1..n
<1>1. L \subseteq Nodes /\ IsFiniteSet(L) /\ n \in Nat
  BY LiveNodes
<1>2. p \in [S -> L] /\ Leads(c, p)
  BY DEF Path, Paths
<1>3. Len(p) = n
  <2> HIDE DEF n, p, L
  <2> QED BY <1>1, <1>2, FunctionLength
<1>4. /\ {p[i] : i \in 1..n} = L
      /\ c.begin = IF n = 0 THEN null ELSE p[1]
      /\ \A i \in 1..n : c.next[p[i]] = IF i = n THEN null ELSE p[i + 1]
  <2> HIDE DEF n, p
  <2> QED BY <1>2, <1>3 DEF Leads
<1>5. IsFiniteSet(S) /\ Cardinality(S) = n
  <2>1. IsFiniteSet(1..n) /\ Cardinality(1..n) = IF 1 > n THEN 0 ELSE n - 1 + 1
    BY <1>1, FS_Interval
  <2> QED BY <1>1, <2>1
<1>6. \A i, j \in S : p[i] = p[j] => i = j
  <2>1. \A m \in L : \E i \in S : p[i] = m
    BY <1>4
  <2> HIDE DEF p, S
  <2>2. p \in Surjection(S, L)
    BY <1>2, <2>1, Fun_IsSurj
  <2>3. p \in Injection(S, L)
    BY <1>5, <2>2, FS_Surjection
  <2> QED BY <2>3, Fun_IsInj DEF Injection, IsInjective
<1> HIDE DEF p, n
<1>7. p \in [1..n -> Nodes]
  BY <1>1, <1>2
<1>8. n = 0 => c.begin = null
  BY <1>4
<1>9. n > 0 => c.begin = p[1]
  BY <1>1, <1>4
<1>10. \A i \in 1..n : (i = n => c.next[p[i]] = null) /\ (i < n => c.next[p[i]] = p[i + 1])
  BY <1>1, <1>4
<1>11. Forward(c, n, p)
  BY <1>1, <1>4, <1>6, <1>7, <1>8, <1>9, <1>10 DEF Forward, Among
<1> QED BY <1>3, <1>11 DEF p

\* A cache is Linked if its path is a list in both directions.
LEMMA LinkedIsList ==
  ASSUME NEW c \in Caches, HoldsKeys(c), Linked(c)
  PROVE  Forward(c, Len(Path(c)), Path(c)) /\ Backward(c, Len(Path(c)), Path(c))
<1> DEFINE p == Path(c)
           n == Len(p)
<1>1. Forward(c, n, p)
  BY PathIsForward DEF Linked
<1>2. n \in Nat
  BY <1>1 DEF Forward
<1>3. /\ \A i \in 1..n : c.prev[p[i]] = IF i = 1 THEN null ELSE p[i - 1]
      /\ c.end = IF n = 0 THEN null ELSE p[n]
  BY DEF Linked
<1> HIDE DEF p, n
<1>4. Backward(c, n, p)
  BY <1>2, <1>3 DEF Backward
<1> QED BY <1>1, <1>4 DEF p, n

\* The keys of the first n of p.
KeysOf(n, p) == [i \in 1..n |-> KeyOf(p[i])]

\* And the other way round; Order is the keys of the list.
LEMMA ListIsLinked ==
  ASSUME NEW c \in Caches, HoldsKeys(c), NEW n, NEW p, Forward(c, n, p)
  PROVE  /\ Order(c) = KeysOf(n, p) /\ Paths(c) # {}
         /\ Backward(c, n, p) => Linked(c)
<1>1. Paths(c) # {} /\ Path(c) = p /\ Len(p) = n
  BY ForwardIsPath
<1>2. Order(c) = KeysOf(n, p)
  BY <1>1 DEF Order, KeysOf
<1>3. ASSUME Backward(c, n, p) PROVE Linked(c)
  <2>1. n \in Nat
    BY DEF Forward
  <2>2. \A i \in 1..n : c.prev[p[i]] = IF i = 1 THEN null ELSE p[i - 1]
    BY <1>3, <2>1 DEF Backward
  <2>3. c.end = IF n = 0 THEN null ELSE p[n]
    BY <1>3, <2>1 DEF Backward
  <2> QED BY <1>1, <2>2, <2>3 DEF Linked
<1> QED BY <1>1, <1>2, <1>3

\* r is c, but for one link.
NextSet(c, r, m, to) ==
  /\ r \in Caches /\ r.next = [c.next EXCEPT ![m] = to] /\ r.prev = c.prev
  /\ r.hash = c.hash /\ r.begin = c.begin /\ r.end = c.end /\ r.ok = c.ok
PrevSet(c, r, m, to) ==
  /\ r \in Caches /\ r.prev = [c.prev EXCEPT ![m] = to] /\ r.next = c.next
  /\ r.hash = c.hash /\ r.begin = c.begin /\ r.end = c.end /\ r.ok = c.ok

\* The link of a node is written as SetNext and SetPrev say.
LEMMA NodeSet ==
  ASSUME NEW c \in Caches, NEW m \in Nodes, NEW to \in Links
  PROVE  NextSet(c, SetNext(c, m, to), m, to) /\ PrevSet(c, SetPrev(c, m, to), m, to)
<1>1. m # null
  BY CacheAssumption DEF Nodes
<1> QED BY <1>1 DEF SetNext, SetPrev, Caches, NextSet, PrevSet

\* What a hit does to the links, if the node has one before it.
LEMMA UpdateLinks ==
  ASSUME NEW c \in Caches, NEW x \in Nodes, c.prev[x] \in Nodes, c.begin \in Nodes, c.begin # x
  PROVE  LET d == m_update(c, x)
             w == c.prev[x]  y == c.next[x]  h == c.begin
         IN  /\ d \in Caches /\ d.hash = c.hash /\ d.begin = x /\ d.end = c.end /\ d.ok = c.ok
             /\ \A m \in Nodes :
                  /\ d.next[m] = IF m = x THEN h ELSE IF m = w THEN y ELSE c.next[m]
                  /\ d.prev[m] = IF m = x THEN null ELSE IF m = h THEN x
                                 ELSE IF m = y THEN w ELSE c.prev[m]
<1> DEFINE d == m_update(c, x)
           w == c.prev[x]  y == c.next[x]  h == c.begin
           out == SetNext(c, w, y)
           unlinked == IfNode(y, SetPrev(out, y, w), out)
           second == SetNext(unlinked, x, h)
           front == SetPrev(second, h, x)
           last == SetPrev(front, x, null)
           Kept(r) == /\ r \in Caches /\ r.hash = c.hash /\ r.begin = h /\ r.end = c.end /\ r.ok = c.ok
<1>0. /\ null \in Links /\ x \in Links /\ w \in Links /\ h \in Links /\ y \in Links
      /\ null \notin Nodes /\ w \in Nodes /\ h \in Nodes /\ h # x
  BY CacheAssumption DEF Links, Caches, Nodes
<1>1. d = [last EXCEPT !.begin = x]
  BY DEF m_update
<1> HIDE DEF w, h, y, d
<1>2. Kept(out) /\ out.next = [c.next EXCEPT ![w] = y] /\ out.prev = c.prev
  <2>1. NextSet(c, out, w, y)
    BY <1>0, NodeSet
  <2> HIDE DEF out
  <2> QED BY <2>1 DEF NextSet, h
<1> HIDE DEF out
<1>3. Kept(unlinked) /\ unlinked.next = out.next
      /\ \A m \in Nodes : unlinked.prev[m] = IF m = y THEN w ELSE c.prev[m]
  <2>1. CASE y = null
    BY <1>0, <1>2, <2>1 DEF IfNode
  <2>2. CASE y # null
    <3>1. y \in Nodes
      BY <1>0, <2>2 DEF Links
    <3> DEFINE b == SetPrev(out, y, w)
    <3>2. Kept(b) /\ b.next = out.next /\ b.prev = [out.prev EXCEPT ![y] = w]
      <4>1. PrevSet(out, b, y, w)
        BY <1>0, <1>2, <3>1, NodeSet
      <4> HIDE DEF b
      <4> QED BY <1>2, <4>1 DEF PrevSet
    <3>3. unlinked = b
      BY <2>2 DEF IfNode
    <3> HIDE DEF b, unlinked
    <3> QED BY <1>2, <3>2, <3>3 DEF Caches
  <2> QED BY <2>1, <2>2
<1> HIDE DEF unlinked
<1>4. Kept(second) /\ second.prev = unlinked.prev /\ second.next = [unlinked.next EXCEPT ![x] = h]
  <2>1. NextSet(unlinked, second, x, h)
    BY <1>0, <1>3, NodeSet
  <2> HIDE DEF second
  <2> QED BY <1>3, <2>1 DEF NextSet
<1> HIDE DEF second
<1>5. Kept(front) /\ front.next = second.next /\ front.prev = [second.prev EXCEPT ![h] = x]
  <2>1. PrevSet(second, front, h, x)
    BY <1>0, <1>4, NodeSet
  <2> HIDE DEF front
  <2> QED BY <1>4, <2>1 DEF PrevSet
<1> HIDE DEF front
<1>6. Kept(last) /\ last.next = front.next /\ last.prev = [front.prev EXCEPT ![x] = null]
  <2>1. PrevSet(front, last, x, null)
    BY <1>0, <1>5, NodeSet
  <2> HIDE DEF last
  <2> QED BY <1>5, <2>1 DEF PrevSet
<1> HIDE DEF last
<1>7. /\ d \in Caches /\ d.hash = c.hash /\ d.begin = x /\ d.end = c.end /\ d.ok = c.ok
      /\ d.next = last.next /\ d.prev = last.prev
  BY <1>0, <1>1, <1>6 DEF Caches
<1>8. /\ c.next \in [Nodes -> Links] /\ out.next \in [Nodes -> Links]
      /\ unlinked.prev \in [Nodes -> Links] /\ front.prev \in [Nodes -> Links]
  BY <1>2, <1>3, <1>5 DEF Caches
<1>9. ASSUME NEW m \in Nodes
      PROVE  d.next[m] = IF m = x THEN h ELSE IF m = w THEN y ELSE c.next[m]
  BY <1>0, <1>2, <1>3, <1>4, <1>5, <1>6, <1>7, <1>8
<1>10. ASSUME NEW m \in Nodes
       PROVE  d.prev[m] = IF m = x THEN null ELSE IF m = h THEN x ELSE IF m = y THEN w ELSE c.prev[m]
  BY <1>0, <1>3, <1>4, <1>5, <1>6, <1>7, <1>8
<1> QED BY <1>7, <1>9, <1>10 DEF d, w, y, h

\* The i-th of n comes to the front.
MovedUp(n, p, i) == [j \in 1..n |-> IF j = 1 THEN p[i] ELSE IF j <= i THEN p[j - 1] ELSE p[j]]

\* Moving a node up permutes the list.
LEMMA MovedUpNodes ==
  ASSUME NEW n \in Nat, NEW p, p \in [1..n -> Nodes], NEW i \in 1..n,
         \A a, b \in 1..n : p[a] = p[b] => a = b
  PROVE  LET q == MovedUp(n, p, i)
         IN  /\ q \in [1..n -> Nodes] /\ Among(n, q) = Among(n, p)
             /\ \A a, b \in 1..n : q[a] = q[b] => a = b
             /\ q[1] = p[i] /\ \A j \in 2..i : q[j] = p[j - 1]
             /\ \A j \in (i + 1)..n : q[j] = p[j]
<1> DEFINE q == MovedUp(n, p, i)
           from == [j \in 1..n |-> IF j = 1 THEN i ELSE IF j <= i THEN j - 1 ELSE j]
<1>1. ASSUME NEW j \in 1..n
      PROVE  from[j] \in 1..n /\ q[j] = p[from[j]]
  <2>1. CASE j = 1
    BY <2>1 DEF MovedUp
  <2>2. CASE j # 1 /\ j <= i
    <3>1. j - 1 \in 1..n
      BY <2>2
    <3> QED BY <2>2, <3>1 DEF MovedUp
  <2>3. CASE j # 1 /\ ~(j <= i)
    BY <2>3 DEF MovedUp
  <2> QED BY <2>1, <2>2, <2>3
<1>2. \A a, b \in 1..n : from[a] = from[b] => a = b
  OBVIOUS
<1>3. \A k \in 1..n : \E j \in 1..n : from[j] = k
  <2> SUFFICES ASSUME NEW k \in 1..n PROVE \E j \in 1..n : from[j] = k
    OBVIOUS
  <2>1. CASE k = i
    BY <2>1
  <2>2. CASE k < i
    <3>1. k + 1 \in 1..n /\ from[k + 1] = k
      BY <2>2
    <3> QED BY <3>1
  <2>3. CASE k > i
    <3>1. from[k] = k
      BY <2>3
    <3> QED BY <3>1
  <2> QED BY <2>1, <2>2, <2>3
<1>4. q[1] = p[i] /\ (\A j \in 2..i : q[j] = p[j - 1]) /\ (\A j \in (i + 1)..n : q[j] = p[j])
  BY DEF MovedUp
<1>5. DOMAIN q = 1..n /\ q = [j \in 1..n |-> q[j]]
  BY DEF MovedUp
<1> HIDE DEF q, from
<1>6. q \in [1..n -> Nodes]
  <2>1. \A j \in 1..n : q[j] \in Nodes
    BY <1>1
  <2> QED BY <1>5, <2>1
<1>7. Among(n, q) = Among(n, p)
  <2>1. ASSUME NEW k \in 1..n PROVE p[k] \in {q[j] : j \in 1..n}
    <3>1. PICK j \in 1..n : from[j] = k
      BY <1>3
    <3>2. q[j] = p[k]
      BY <1>1, <3>1
    <3> QED BY <3>2
  <2>2. ASSUME NEW j \in 1..n PROVE q[j] \in {p[k] : k \in 1..n}
    <3>1. from[j] \in 1..n /\ q[j] = p[from[j]]
      BY <1>1
    <3> QED BY <3>1
  <2>3. {p[k] : k \in 1..n} \subseteq {q[j] : j \in 1..n}
    BY <2>1
  <2>4. {q[j] : j \in 1..n} \subseteq {p[k] : k \in 1..n}
    BY <2>2
  <2> QED BY <2>3, <2>4 DEF Among
<1>8. \A a, b \in 1..n : q[a] = q[b] => a = b
  BY <1>1, <1>2
<1> QED BY <1>4, <1>6, <1>7, <1>8 DEF q

\* The nodes of the hash depend on the hash alone.
LEMMA SameLive ==
  ASSUME NEW c, NEW d, d.hash = c.hash
  PROVE  Live(d) = Live(c) /\ Cached(d) = Cached(c)
BY DEF Live, Cached

\* A member of the list is a node of the hash.
LEMMA ListNode ==
  ASSUME NEW c \in Caches, NEW n, NEW p, Forward(c, n, p), NEW i \in 1..n
  PROVE  p[i] \in Nodes /\ p[i] \in Live(c) /\ p[i] # null
BY CacheAssumption DEF Forward, Nodes, Among

\* A hit moves a node of the list to the front, and leaves the end alone.
LEMMA UpdateMoves ==
  ASSUME NEW c \in Caches, NEW n, NEW p, Forward(c, n, p), Backward(c, n, p), NEW i \in 1..n
  PROVE  /\ Forward(m_update(c, p[i]), n, MovedUp(n, p, i))
         /\ m_update(c, p[i]).ok = c.ok /\ m_update(c, p[i]) \in Caches
         /\ m_update(c, p[i]).hash = c.hash
         /\ i < n \/ n = 1 => Backward(m_update(c, p[i]), n, MovedUp(n, p, i))
<1> DEFINE d == m_update(c, p[i])
           q == MovedUp(n, p, i)
<1>1. /\ n \in Nat /\ p \in [1..n -> Nodes] /\ n > 0 /\ c.begin = p[1]
      /\ \A a, b \in 1..n : p[a] = p[b] => a = b
      /\ \A j \in 1..n : p[j] # null
  <2>1. \A j \in 1..n : p[j] # null
    BY ListNode
  <2> QED BY <2>1 DEF Forward
<1>2. /\ q \in [1..n -> Nodes] /\ Among(n, q) = Among(n, p)
      /\ \A a, b \in 1..n : q[a] = q[b] => a = b
      /\ q[1] = p[i] /\ \A j \in 2..i : q[j] = p[j - 1]
      /\ \A j \in (i + 1)..n : q[j] = p[j]
  BY <1>1, MovedUpNodes
<1>3. /\ \A j \in 1..n : /\ j = n => c.next[p[j]] = null
                         /\ j < n => c.next[p[j]] = p[j + 1]
      /\ \A j \in 1..n : /\ j = 1 => c.prev[p[j]] = null
                         /\ j > 1 => c.prev[p[j]] = p[j - 1]
      /\ c.end = p[n] /\ Live(c) = Among(n, p)
  BY <1>1 DEF Forward, Backward
<1>4. CASE i = 1
  <2>1. d = c
    BY <1>1, <1>4 DEF m_update
  <2>2. q = p
    BY <1>1, <1>2, <1>4
  <2> HIDE DEF d, q
  <2> QED BY <2>1, <2>2 DEF d, q
<1>5. CASE i > 1
  <2> DEFINE x == p[i]  w == p[i - 1]  h == p[1]  y == c.next[x]
  <2>1. /\ x \in Nodes /\ w \in Nodes /\ h \in Nodes /\ h # x /\ c.prev[x] = w /\ i - 1 \in 1..n
        /\ c.begin = h /\ x # w
    <3>1. i - 1 \in 1..n /\ 1 \in 1..n /\ i # 1 /\ i # i - 1
      BY <1>1, <1>5
    <3>2. c.prev[p[i]] = p[i - 1]
      BY <1>3, <1>5
    <3>3. p[i] # p[1] /\ p[i] # p[i - 1]
      BY <1>1, <3>1
    <3> QED BY <1>1, <3>1, <3>2, <3>3
  <2>2. /\ d \in Caches /\ d.hash = c.hash /\ d.begin = x /\ d.end = c.end /\ d.ok = c.ok
        /\ \A m \in Nodes :
             /\ d.next[m] = IF m = x THEN h ELSE IF m = w THEN y ELSE c.next[m]
             /\ d.prev[m] = IF m = x THEN null ELSE IF m = h THEN x
                            ELSE IF m = y THEN w ELSE c.prev[m]
    <3> HIDE DEF x, w, h
    <3>1. c.prev[x] \in Nodes /\ c.begin \in Nodes /\ c.begin # x
      BY <2>1
    <3> QED BY <2>1, <3>1, UpdateLinks DEF x
  <2> HIDE DEF d, q
  <2>3. \A m \in Nodes : /\ m = x => d.next[m] = h
                         /\ m = w => d.next[m] = y
                         /\ m # x /\ m # w => d.next[m] = c.next[m]
    BY <2>1, <2>2
  <2>4. \A m \in Nodes : /\ m = x => d.prev[m] = null
                         /\ m = h => d.prev[m] = x
                         /\ m # x /\ m # h /\ m = y => d.prev[m] = w
                         /\ m # x /\ m # h /\ m # y => d.prev[m] = c.prev[m]
    BY <2>1, <2>2
  <2>5. ASSUME NEW j \in 1..n
        PROVE  (j = n => d.next[q[j]] = null) /\ (j < n => d.next[q[j]] = q[j + 1])
    <3>1. CASE j = 1
      <4>1. 2 \in 2..i /\ j < n
        BY <1>1, <1>5, <3>1
      <4>2. q[2] = h
        BY <1>2, <4>1
      <4>3. q[j] = x /\ d.next[x] = h
        BY <1>2, <2>1, <2>3, <3>1
      <4> QED BY <3>1, <4>1, <4>2, <4>3
    <3>2. CASE 1 < j /\ j < i
      <4>1. j \in 2..i /\ j + 1 \in 2..i /\ j - 1 \in 1..n /\ j < n /\ j - 1 < n /\ (j + 1) - 1 = j
            /\ (j - 1) + 1 = j /\ j - 1 # i /\ j - 1 # i - 1
        BY <1>1, <3>2
      <4>2. q[j] = p[j - 1] /\ q[j + 1] = p[j]
        BY <1>2, <4>1
      <4>3. p[j - 1] # x /\ p[j - 1] # w /\ p[j - 1] \in Nodes
        BY <1>1, <2>1, <4>1
      <4>4. c.next[p[j - 1]] = p[j]
        BY <1>3, <4>1
      <4> QED BY <2>3, <4>1, <4>2, <4>3, <4>4
    <3>3. CASE j = i
      <4>1. q[j] = w /\ d.next[w] = y
        <5>1. j \in 2..i
          BY <1>5, <3>3
        <5> QED BY <1>2, <2>1, <2>3, <3>3, <5>1
      <4>2. j = n => y = null
        <5>1. j = n => c.next[p[j]] = null
          BY <1>3
        <5> QED BY <3>3, <5>1
      <4>3. j < n => y = p[j + 1] /\ q[j + 1] = p[j + 1]
        <5>1. j < n => j + 1 \in (i + 1)..n
          BY <1>1, <3>3
        <5> QED BY <1>2, <1>3, <3>3, <5>1
      <4> QED BY <4>1, <4>2, <4>3
    <3>4. CASE j > i
      <4>1. j \in (i + 1)..n /\ (j < n => j + 1 \in (i + 1)..n) /\ j # i /\ j # i - 1
        BY <1>1, <3>4
      <4>2. q[j] = p[j] /\ (j < n => q[j + 1] = p[j + 1])
        BY <1>2, <4>1
      <4>3. p[j] # x /\ p[j] # w /\ p[j] \in Nodes
        BY <1>1, <2>1, <4>1
      <4> QED BY <1>3, <2>3, <4>2, <4>3
    <3> QED BY <3>1, <3>2, <3>3, <3>4
  <2>6. Forward(d, n, q)
    <3>1. Live(d) = Among(n, q)
      BY <1>2, <1>3, <2>2, SameLive
    <3>2. d.begin = q[1]
      BY <1>2, <2>2
    <3> QED BY <1>1, <1>2, <2>5, <3>1, <3>2 DEF Forward
  <2>7. ASSUME i < n, NEW j \in 1..n
        PROVE  (j = 1 => d.prev[q[j]] = null) /\ (j > 1 => d.prev[q[j]] = q[j - 1])
    <3>0. y = p[i + 1] /\ i + 1 \in 1..n
      BY <1>1, <1>3, <2>7
    <3>1. CASE j = 1
      BY <1>2, <2>1, <2>4, <3>1
    <3>2. CASE j = 2
      <4>1. j \in 2..i
        BY <1>5, <3>2
      <4>2. q[j] = h /\ q[1] = x /\ d.prev[h] = x
        BY <1>2, <2>1, <2>4, <3>2, <4>1
      <4> QED BY <3>2, <4>2
    <3>3. CASE 2 < j /\ j <= i
      <4>1. j \in 2..i /\ j - 1 \in 2..i /\ j - 1 \in 1..n /\ j - 1 # 1 /\ j - 1 # i /\ j - 1 # i + 1
            /\ j - 1 > 1 /\ 1 \in 1..n
        BY <1>1, <3>3
      <4>2. q[j] = p[j - 1] /\ q[j - 1] = p[(j - 1) - 1]
        BY <1>2, <4>1
      <4>3. p[j - 1] # x /\ p[j - 1] # h /\ p[j - 1] # y /\ p[j - 1] \in Nodes
        BY <1>1, <3>0, <4>1
      <4>4. c.prev[p[j - 1]] = p[(j - 1) - 1]
        BY <1>3, <4>1
      <4> QED BY <2>4, <3>3, <4>2, <4>3, <4>4
    <3>4. CASE j = i + 1
      <4>1. j \in (i + 1)..n /\ i \in 2..i /\ j # i /\ j # 1 /\ j - 1 = i /\ 1 \in 1..n
        BY <1>1, <1>5, <3>4
      <4>2. q[j] = y /\ q[i] = w
        BY <1>2, <3>0, <3>4, <4>1
      <4>3. y # x /\ y # h /\ y \in Nodes
        BY <1>1, <3>0, <3>4, <4>1
      <4> QED BY <2>4, <4>1, <4>2, <4>3
    <3>5. CASE j > i + 1
      <4>1. j \in (i + 1)..n /\ j - 1 \in (i + 1)..n /\ j # i /\ j # 1 /\ j # i + 1 /\ j > 1 /\ 1 \in 1..n
        BY <1>1, <3>5
      <4>2. q[j] = p[j] /\ q[j - 1] = p[j - 1]
        BY <1>2, <4>1
      <4>3. p[j] # x /\ p[j] # h /\ p[j] # y /\ p[j] \in Nodes
        BY <1>1, <3>0, <4>1
      <4>4. c.prev[p[j]] = p[j - 1]
        BY <1>3, <4>1
      <4> QED BY <2>4, <4>1, <4>2, <4>3, <4>4
    <3> QED BY <3>1, <3>2, <3>3, <3>4, <3>5
  <2>8. ASSUME i < n PROVE Backward(d, n, q)
    <3>1. n \in (i + 1)..n
      BY <1>1, <2>8
    <3>2. d.end = q[n]
      BY <1>2, <1>3, <2>2, <3>1
    <3> QED BY <1>1, <2>7, <2>8, <3>2 DEF Backward
  <2> QED BY <1>1, <1>5, <2>2, <2>6, <2>8 DEF d, q
<1> QED BY <1>1, <1>4, <1>5

\* What an eviction does to the links, if the list goes on where x is not an end.
LEMMA UnlinkLinks ==
  ASSUME NEW c \in Caches, NEW x \in Nodes, KeyOf(x) \in Keys,
         c.begin # x => c.prev[x] \in Nodes, c.end # x => c.next[x] \in Nodes
  PROVE  LET d == Unlinked(c, x)
         IN  /\ d.ok = c.ok /\ d.hash = [c.hash EXCEPT ![KeyOf(x)] = null] /\ d \in Caches
             /\ c.begin = x => d.begin = c.next[x] /\ d.next = c.next
             /\ c.begin # x => /\ d.begin = c.begin
                               /\ d.next = [c.next EXCEPT ![c.prev[x]] = c.next[x]]
             /\ c.end = x => d.end = c.prev[x] /\ d.prev = c.prev
             /\ c.end # x => /\ d.end = c.end
                             /\ d.prev = [c.prev EXCEPT ![c.next[x]] = c.prev[x]]
<1> DEFINE d == Unlinked(c, x)
           out == [c EXCEPT !.hash[KeyOf(x)] = null]
           cut == [out EXCEPT !.begin = c.next[x]]
           past == SetNext(out, c.prev[x], c.next[x])
           front == IF c.begin = x THEN cut ELSE past
           last == SetPrev(front, c.next[x], c.prev[x])
           Same(r) == r \in Caches /\ r.ok = c.ok /\ r.hash = [c.hash EXCEPT ![KeyOf(x)] = null]
<1>1. x \in Links /\ c.prev[x] \in Links /\ c.next[x] \in Links /\ c.begin \in Links /\ null \in Links
  BY DEF Caches, Links
<1>2. Same(out) /\ out.begin = c.begin /\ out.end = c.end /\ out.next = c.next /\ out.prev = c.prev
  BY <1>1 DEF Caches
<1> HIDE DEF out
<1>3. Same(cut) /\ cut.begin = c.next[x] /\ cut.end = c.end /\ cut.next = c.next /\ cut.prev = c.prev
  BY <1>1, <1>2 DEF Caches
<1>4. c.begin # x => /\ Same(past) /\ past.begin = c.begin /\ past.end = c.end /\ past.prev = c.prev
                     /\ past.next = [c.next EXCEPT ![c.prev[x]] = c.next[x]]
  <2> SUFFICES ASSUME c.begin # x
               PROVE  /\ Same(past) /\ past.begin = c.begin /\ past.end = c.end /\ past.prev = c.prev
                      /\ past.next = [c.next EXCEPT ![c.prev[x]] = c.next[x]]
    OBVIOUS
  <2>1. NextSet(out, past, c.prev[x], c.next[x])
    BY <1>1, <1>2, NodeSet
  <2> HIDE DEF past
  <2> QED BY <1>2, <2>1 DEF NextSet
<1> HIDE DEF cut, past
<1>5. /\ Same(front) /\ front.end = c.end /\ front.prev = c.prev
      /\ c.begin = x => front.begin = c.next[x] /\ front.next = c.next
      /\ c.begin # x => /\ front.begin = c.begin
                        /\ front.next = [c.next EXCEPT ![c.prev[x]] = c.next[x]]
  <2>1. CASE c.begin = x
    BY <1>3, <2>1
  <2>2. CASE c.begin # x
    BY <1>4, <2>2
  <2> QED BY <2>1, <2>2
<1>6. d = IF c.end = x THEN [front EXCEPT !.end = c.prev[x]] ELSE last
  BY DEF Unlinked, out, cut, past
<1> HIDE DEF front, d
<1>7. CASE c.end = x
  <2>1. d = [front EXCEPT !.end = c.prev[x]]
    BY <1>6, <1>7
  <2>2. Same(d) /\ d.end = c.prev[x] /\ d.begin = front.begin /\ d.next = front.next /\ d.prev = front.prev
    BY <1>1, <1>5, <2>1 DEF Caches
  <2> QED BY <1>5, <1>7, <2>2 DEF d
<1>8. CASE c.end # x
  <2>1. PrevSet(front, last, c.next[x], c.prev[x])
    BY <1>1, <1>5, <1>8, NodeSet
  <2>2. d = last
    BY <1>6, <1>8
  <2> HIDE DEF last
  <2>3. Same(d) /\ d.end = c.end /\ d.begin = front.begin /\ d.next = front.next
        /\ d.prev = [c.prev EXCEPT ![c.next[x]] = c.prev[x]]
    BY <1>5, <2>1, <2>2 DEF PrevSet
  <2> QED BY <1>5, <1>8, <2>3 DEF d
<1> QED BY <1>7, <1>8

\* The i-th of n is gone.
Without(n, p, i) == [j \in 1..(n - 1) |-> IF j < i THEN p[j] ELSE p[j + 1]]

\* A list without one of its nodes.
LEMMA WithoutNodes ==
  ASSUME NEW n \in Nat, NEW p, p \in [1..n -> Nodes], NEW i \in 1..n,
         \A a, b \in 1..n : p[a] = p[b] => a = b
  PROVE  LET q == Without(n, p, i)
         IN  /\ q \in [1..(n - 1) -> Nodes] /\ Among(n - 1, q) = Among(n, p) \ {p[i]}
             /\ \A a, b \in 1..(n - 1) : q[a] = q[b] => a = b
             /\ \A j \in 1..(n - 1) : /\ j < i => q[j] = p[j]
                                      /\ j >= i => q[j] = p[j + 1]
<1> DEFINE q == Without(n, p, i)
           from == [j \in 1..(n - 1) |-> IF j < i THEN j ELSE j + 1]
<1>1. ASSUME NEW j \in 1..(n - 1)
      PROVE  /\ from[j] \in 1..n /\ from[j] # i /\ q[j] = p[from[j]]
             /\ j < i => q[j] = p[j]
             /\ j >= i => q[j] = p[j + 1]
  <2>1. CASE j < i
    BY <2>1 DEF Without
  <2>2. CASE ~(j < i)
    <3>1. j + 1 \in 1..n
      OBVIOUS
    <3> QED BY <2>2, <3>1 DEF Without
  <2> QED BY <2>1, <2>2
<1>2. \A a, b \in 1..(n - 1) : from[a] = from[b] => a = b
  OBVIOUS
<1>3. \A k \in (1..n) \ {i} : \E j \in 1..(n - 1) : from[j] = k
  <2> SUFFICES ASSUME NEW k \in 1..n, k # i PROVE \E j \in 1..(n - 1) : from[j] = k
    OBVIOUS
  <2>1. CASE k < i
    <3>1. k \in 1..(n - 1) /\ from[k] = k
      BY <2>1
    <3> QED BY <3>1
  <2>2. CASE k > i
    <3>1. k - 1 \in 1..(n - 1) /\ from[k - 1] = k
      BY <2>2
    <3> QED BY <3>1
  <2> QED BY <2>1, <2>2
<1>4. DOMAIN q = 1..(n - 1) /\ q = [j \in 1..(n - 1) |-> q[j]]
  BY DEF Without
<1> HIDE DEF q, from
<1>5. q \in [1..(n - 1) -> Nodes]
  <2>1. \A j \in 1..(n - 1) : q[j] \in Nodes
    BY <1>1
  <2> QED BY <1>4, <2>1
<1>6. Among(n - 1, q) = Among(n, p) \ {p[i]}
  <2>1. ASSUME NEW k \in 1..n, p[k] # p[i] PROVE p[k] \in Among(n - 1, q)
    <3>1. k \in (1..n) \ {i}
      BY <2>1
    <3>2. PICK j \in 1..(n - 1) : from[j] = k
      BY <1>3, <3>1
    <3>3. q[j] = p[k]
      BY <1>1, <3>2
    <3> QED BY <3>3 DEF Among
  <2>2. ASSUME NEW j \in 1..(n - 1) PROVE q[j] \in Among(n, p) /\ q[j] # p[i]
    <3>1. from[j] \in 1..n /\ from[j] # i /\ q[j] = p[from[j]]
      BY <1>1
    <3> QED BY <3>1 DEF Among
  <2>3. \A m \in Among(n, p) \ {p[i]} : m \in Among(n - 1, q)
    <3> SUFFICES ASSUME NEW m \in Among(n, p), m # p[i] PROVE m \in Among(n - 1, q)
      OBVIOUS
    <3>1. PICK k \in 1..n : m = p[k]
      BY DEF Among
    <3> QED BY <2>1, <3>1
  <2>4. \A m \in Among(n - 1, q) : m \in Among(n, p) \ {p[i]}
    <3> SUFFICES ASSUME NEW m \in Among(n - 1, q) PROVE m \in Among(n, p) \ {p[i]}
      OBVIOUS
    <3>1. PICK j \in 1..(n - 1) : m = q[j]
      BY DEF Among
    <3> QED BY <2>2, <3>1
  <2> QED BY <2>3, <2>4
<1>7. \A a, b \in 1..(n - 1) : q[a] = q[b] => a = b
  BY <1>1, <1>2
<1> QED BY <1>1, <1>5, <1>6, <1>7 DEF q

\* The hash without a key has one node less.
LEMMA LiveWithout ==
  ASSUME NEW c \in Caches, HoldsKeys(c), NEW x \in Live(c), NEW d,
         d.hash = [c.hash EXCEPT ![KeyOf(x)] = null]
  PROVE  Live(d) = Live(c) \ {x}
<1>1. x \in Nodes /\ KeyOf(x) \in Cached(c) /\ c.hash[KeyOf(x)] = x
  BY LiveNodes
<1>2. Cached(d) = Cached(c) \ {KeyOf(x)}
  BY <1>1 DEF Cached, Caches
<1>3. \A k \in Cached(d) : d.hash[k] = c.hash[k] /\ c.hash[k] # x
  BY <1>1, <1>2 DEF Cached, Caches, HoldsKeys
<1>4. \A m \in Live(d) : m \in Live(c) \ {x}
  BY <1>2, <1>3 DEF Live
<1>5. ASSUME NEW m \in Live(c), m # x PROVE m \in Live(d)
  <2>1. KeyOf(m) \in Cached(c) /\ c.hash[KeyOf(m)] = m
    BY LiveNodes
  <2>2. KeyOf(m) # KeyOf(x)
    BY <1>1, <1>5, <2>1
  <2>3. KeyOf(m) \in Cached(d) /\ d.hash[KeyOf(m)] = m
    BY <1>2, <1>3, <2>1, <2>2
  <2> QED BY <2>3 DEF Live
<1> QED BY <1>4, <1>5

\* An eviction takes a node out of the list, wherever it is.
LEMMA UnlinkRemoves ==
  ASSUME NEW c \in Caches, HoldsKeys(c), NEW n, NEW p, Forward(c, n, p), Backward(c, n, p),
         NEW i \in 1..n
  PROVE  /\ Forward(Unlinked(c, p[i]), n - 1, Without(n, p, i))
         /\ Backward(Unlinked(c, p[i]), n - 1, Without(n, p, i))
         /\ Unlinked(c, p[i]).ok = c.ok
<1> DEFINE x == p[i]
           d == Unlinked(c, x)
           q == Without(n, p, i)
<1>1. /\ n \in Nat /\ p \in [1..n -> Nodes] /\ n > 0 /\ c.begin = p[1] /\ c.end = p[n]
      /\ \A a, b \in 1..n : p[a] = p[b] => a = b
      /\ Live(c) = Among(n, p) /\ n \in 1..n /\ 1 \in 1..n
  BY DEF Forward, Backward
<1>2. /\ \A j \in 1..n : /\ j = n => c.next[p[j]] = null
                         /\ j < n => c.next[p[j]] = p[j + 1]
      /\ \A j \in 1..n : /\ j = 1 => c.prev[p[j]] = null
                         /\ j > 1 => c.prev[p[j]] = p[j - 1]
  BY <1>1 DEF Forward, Backward
<1>3. /\ q \in [1..(n - 1) -> Nodes] /\ Among(n - 1, q) = Among(n, p) \ {x}
      /\ \A a, b \in 1..(n - 1) : q[a] = q[b] => a = b
      /\ \A j \in 1..(n - 1) : /\ j < i => q[j] = p[j]
                               /\ j >= i => q[j] = p[j + 1]
  BY <1>1, WithoutNodes
<1>4. x \in Nodes /\ x \in Live(c) /\ KeyOf(x) \in Keys
  BY ListNode, LiveNodes DEF Cached
<1>5. /\ (c.begin = x <=> i = 1) /\ (c.end = x <=> i = n)
  BY <1>1
<1>6. /\ i = 1 => c.prev[x] = null
      /\ i > 1 => c.prev[x] = p[i - 1] /\ p[i - 1] \in Nodes
      /\ i = n => c.next[x] = null
      /\ i < n => c.next[x] = p[i + 1] /\ p[i + 1] \in Nodes
  BY <1>1, <1>2
<1> HIDE DEF x, q
<1>7. /\ d.ok = c.ok /\ d.hash = [c.hash EXCEPT ![KeyOf(x)] = null] /\ d \in Caches
      /\ c.begin = x => d.begin = c.next[x] /\ d.next = c.next
      /\ c.begin # x => /\ d.begin = c.begin
                        /\ d.next = [c.next EXCEPT ![c.prev[x]] = c.next[x]]
      /\ c.end = x => d.end = c.prev[x] /\ d.prev = c.prev
      /\ c.end # x => /\ d.end = c.end
                      /\ d.prev = [c.prev EXCEPT ![c.next[x]] = c.prev[x]]
  <2>1. (c.begin # x => c.prev[x] \in Nodes) /\ (c.end # x => c.next[x] \in Nodes)
    BY <1>1, <1>5, <1>6
  <2> QED BY <1>4, <2>1, UnlinkLinks
<1> HIDE DEF d
<1>8. c.next \in [Nodes -> Links] /\ c.prev \in [Nodes -> Links]
  BY DEF Caches
<1>9. \A j \in 1..n : /\ i > 1 /\ j = i - 1 => d.next[p[j]] = c.next[x]
                      /\ j # i - 1 => d.next[p[j]] = c.next[p[j]]
                      /\ i < n /\ j = i + 1 => d.prev[p[j]] = c.prev[x]
                      /\ j # i + 1 => d.prev[p[j]] = c.prev[p[j]]
  <2> SUFFICES ASSUME NEW j \in 1..n
               PROVE  /\ i > 1 /\ j = i - 1 => d.next[p[j]] = c.next[x]
                      /\ j # i - 1 => d.next[p[j]] = c.next[p[j]]
                      /\ i < n /\ j = i + 1 => d.prev[p[j]] = c.prev[x]
                      /\ j # i + 1 => d.prev[p[j]] = c.prev[p[j]]
    OBVIOUS
  <2>1. p[j] \in Nodes
    BY <1>1
  <2>2. i > 1 => i - 1 \in 1..n /\ d.next = [c.next EXCEPT ![p[i - 1]] = c.next[x]]
    BY <1>1, <1>5, <1>6, <1>7
  <2>3. i > 1 /\ j # i - 1 => p[j] # p[i - 1]
    BY <1>1, <2>2
  <2>4. ~(i > 1) => i = 1 /\ d.next = c.next
    BY <1>1, <1>5, <1>7
  <2>5. i < n => i + 1 \in 1..n /\ d.prev = [c.prev EXCEPT ![p[i + 1]] = c.prev[x]]
    BY <1>1, <1>5, <1>6, <1>7
  <2>6. i < n /\ j # i + 1 => p[j] # p[i + 1]
    BY <1>1, <2>5
  <2>7. ~(i < n) => d.prev = c.prev
    BY <1>1, <1>5, <1>7
  <2>8. i > 1 /\ j = i - 1 => d.next[p[j]] = c.next[x]
    BY <1>8, <2>1, <2>2
  <2>9. j # i - 1 => d.next[p[j]] = c.next[p[j]]
    BY <1>8, <2>1, <2>2, <2>3, <2>4
  <2>10. i < n /\ j = i + 1 => d.prev[p[j]] = c.prev[x]
    BY <1>8, <2>1, <2>5
  <2>11. j # i + 1 => d.prev[p[j]] = c.prev[p[j]]
    BY <1>8, <2>1, <2>5, <2>6, <2>7
  <2> QED BY <2>8, <2>9, <2>10, <2>11
<1>10. ASSUME NEW j \in 1..(n - 1)
       PROVE  (j = n - 1 => d.next[q[j]] = null) /\ (j < n - 1 => d.next[q[j]] = q[j + 1])
  <2>0. j \in 1..n /\ j + 1 \in 1..n /\ j < n /\ (j < n - 1 => j + 1 \in 1..(n - 1) /\ (j + 1) + 1 \in 1..n)
    BY <1>1
  <2>1. CASE j < i - 1
    <3>1. q[j] = p[j] /\ q[j + 1] = p[j + 1] /\ j < n - 1
      BY <1>1, <1>3, <2>0, <2>1
    <3>2. d.next[p[j]] = p[j + 1]
      BY <1>1, <1>2, <1>9, <2>0, <2>1
    <3> QED BY <1>1, <3>1, <3>2
  <2>2. CASE j = i - 1
    <3>1. q[j] = p[j] /\ d.next[p[j]] = c.next[x]
      BY <1>1, <1>3, <1>9, <2>0, <2>2
    <3>2. j = n - 1 => c.next[x] = null
      BY <1>1, <1>6, <2>2
    <3>3. j < n - 1 => q[j + 1] = p[(j + 1) + 1] /\ c.next[x] = p[(j + 1) + 1]
      BY <1>1, <1>3, <1>6, <2>0, <2>2
    <3> QED BY <3>1, <3>2, <3>3
  <2>3. CASE j >= i
    <3>1. q[j] = p[j + 1] /\ (j < n - 1 => q[j + 1] = p[(j + 1) + 1])
      BY <1>1, <1>3, <2>0, <2>3
    <3>2. d.next[p[j + 1]] = c.next[p[j + 1]]
      BY <1>1, <1>9, <2>0, <2>3
    <3>3. /\ j + 1 = n => c.next[p[j + 1]] = null
          /\ j + 1 < n => c.next[p[j + 1]] = p[(j + 1) + 1]
      BY <1>2, <2>0
    <3> QED BY <1>1, <3>1, <3>2, <3>3
  <2> QED BY <1>1, <2>0, <2>1, <2>2, <2>3
<1>11. ASSUME NEW j \in 1..(n - 1)
       PROVE  (j = 1 => d.prev[q[j]] = null) /\ (j > 1 => d.prev[q[j]] = q[j - 1])
  <2>0. j \in 1..n /\ j + 1 \in 1..n /\ j < n /\ (j > 1 => j - 1 \in 1..(n - 1) /\ (j - 1) + 1 = j)
    BY <1>1
  <2>1. CASE j < i
    <3>1. q[j] = p[j] /\ (j > 1 => q[j - 1] = p[j - 1])
      BY <1>1, <1>3, <2>0, <2>1
    <3>2. d.prev[p[j]] = c.prev[p[j]]
      BY <1>1, <1>9, <2>0, <2>1
    <3> QED BY <1>2, <2>0, <3>1, <3>2
  <2>2. CASE j = i
    <3>1. q[j] = p[j + 1] /\ d.prev[p[j + 1]] = c.prev[x]
      BY <1>1, <1>3, <1>9, <2>0, <2>2
    <3>2. j > 1 => q[j - 1] = p[j - 1] /\ c.prev[x] = p[j - 1]
      BY <1>1, <1>3, <1>6, <2>0, <2>2
    <3> QED BY <1>6, <2>2, <3>1, <3>2
  <2>3. CASE j > i
    <3>1. q[j] = p[j + 1] /\ j > 1 /\ q[j - 1] = p[j]
      BY <1>1, <1>3, <2>0, <2>3
    <3>2. d.prev[p[j + 1]] = c.prev[p[j + 1]]
      BY <1>1, <1>9, <2>0, <2>3
    <3>3. c.prev[p[j + 1]] = p[j]
      <4>1. j + 1 > 1 /\ (j + 1) - 1 = j
        BY <2>0
      <4>2. c.prev[p[j + 1]] = p[(j + 1) - 1]
        BY <1>2, <2>0, <4>1
      <4> QED BY <4>1, <4>2
    <3> QED BY <3>1, <3>2, <3>3
  <2> QED BY <1>1, <2>0, <2>1, <2>2, <2>3
<1>12. /\ n - 1 = 0 => d.begin = null /\ d.end = null
       /\ n - 1 > 0 => d.begin = q[1] /\ d.end = q[n - 1]
  <2>1. n - 1 = 0 => i = 1 /\ i = n
    BY <1>1
  <2>2. n - 1 = 0 => d.begin = null /\ d.end = null
    BY <1>5, <1>6, <1>7, <2>1
  <2>3. n - 1 > 0 => d.begin = q[1]
    <3>1. n - 1 > 0 => 1 \in 1..(n - 1) /\ (i = 1 => i < n /\ 1 >= i) /\ (i # 1 => 1 < i)
      BY <1>1
    <3> QED BY <1>1, <1>3, <1>5, <1>6, <1>7, <3>1
  <2>4. n - 1 > 0 => d.end = q[n - 1]
    <3>1. n - 1 > 0 => /\ n - 1 \in 1..(n - 1) /\ (n - 1) + 1 = n
                       /\ (i = n => i > 1 /\ n - 1 < i) /\ (i # n => n - 1 >= i)
      BY <1>1
    <3> QED BY <1>1, <1>3, <1>5, <1>6, <1>7, <3>1
  <2> QED BY <2>2, <2>3, <2>4
<1>13. Live(d) = Among(n - 1, q)
  <2>1. Live(d) = Live(c) \ {x}
    BY <1>4, <1>7, LiveWithout
  <2> QED BY <1>1, <1>3, <2>1
<1>14. n - 1 \in Nat
  BY <1>1
<1>15. Forward(d, n - 1, q)
  BY <1>3, <1>10, <1>12, <1>13, <1>14 DEF Forward
<1>16. Backward(d, n - 1, q)
  BY <1>11, <1>12, <1>14 DEF Backward
<1> QED BY <1>7, <1>15, <1>16 DEF d, q, x

\* A new node, in front of the others.
Added(n, p, x) == [j \in 1..(n + 1) |-> IF j = 1 THEN x ELSE p[j - 1]]

\* A list with a node in front of it.
LEMMA AddedNodes ==
  ASSUME NEW n \in Nat, NEW p, p \in [1..n -> Nodes], NEW x \in Nodes, x \notin Among(n, p),
         \A a, b \in 1..n : p[a] = p[b] => a = b
  PROVE  LET q == Added(n, p, x)
         IN  /\ q \in [1..(n + 1) -> Nodes] /\ Among(n + 1, q) = Among(n, p) \union {x}
             /\ \A a, b \in 1..(n + 1) : q[a] = q[b] => a = b
             /\ q[1] = x
             /\ \A j \in 1..n : q[j + 1] = p[j]
<1> DEFINE q == Added(n, p, x)
<1>1. q[1] = x /\ \A j \in 1..n : q[j + 1] = p[j]
  <2>1. 1 \in 1..(n + 1)
    OBVIOUS
  <2>2. ASSUME NEW j \in 1..n PROVE q[j + 1] = p[j]
    <3>1. j + 1 \in 1..(n + 1) /\ j + 1 # 1 /\ (j + 1) - 1 = j
      OBVIOUS
    <3> QED BY <3>1 DEF Added
  <2> QED BY <2>1, <2>2 DEF Added
<1>2. DOMAIN q = 1..(n + 1) /\ q = [j \in 1..(n + 1) |-> q[j]]
  BY DEF Added
<1> HIDE DEF q
<1>3. ASSUME NEW j \in 1..(n + 1), j # 1 PROVE j - 1 \in 1..n /\ q[j] = p[j - 1]
  <2>1. j - 1 \in 1..n /\ (j - 1) + 1 = j
    BY <1>3
  <2> QED BY <1>1, <2>1
<1>4. q \in [1..(n + 1) -> Nodes]
  <2>1. \A j \in 1..(n + 1) : q[j] \in Nodes
    BY <1>1, <1>3
  <2> QED BY <1>2, <2>1
<1>5. Among(n + 1, q) = Among(n, p) \union {x}
  <2>1. ASSUME NEW m \in Among(n + 1, q) PROVE m \in Among(n, p) \union {x}
    <3>1. PICK j \in 1..(n + 1) : m = q[j]
      BY DEF Among
    <3>2. j # 1 => m \in Among(n, p)
      BY <1>3, <3>1 DEF Among
    <3> QED BY <1>1, <3>1, <3>2
  <2>2. ASSUME NEW m \in Among(n, p) PROVE m \in Among(n + 1, q)
    <3>1. PICK j \in 1..n : m = p[j]
      BY DEF Among
    <3>2. j + 1 \in 1..(n + 1) /\ q[j + 1] = m
      BY <1>1, <3>1
    <3> QED BY <3>2 DEF Among
  <2>3. x \in Among(n + 1, q)
    <3>1. 1 \in 1..(n + 1)
      OBVIOUS
    <3> QED BY <1>1, <3>1 DEF Among
  <2> QED BY <2>1, <2>2, <2>3
<1>6. ASSUME NEW a \in 1..(n + 1), NEW b \in 1..(n + 1), q[a] = q[b] PROVE a = b
  <2>1. a # 1 => q[a] \in Among(n, p)
    BY <1>3 DEF Among
  <2>2. b # 1 => q[b] \in Among(n, p)
    BY <1>3 DEF Among
  <2>3. a = 1 <=> b = 1
    BY <1>1, <1>6, <2>1, <2>2
  <2>4. a # 1 => a - 1 = b - 1
    BY <1>3, <1>6, <2>3
  <2> QED BY <2>3, <2>4
<1> QED BY <1>1, <1>4, <1>5, <1>6 DEF q

\* An expression that is not in the cache is put in front of the list.
LEMMA PutAdds ==
  ASSUME NEW c \in Caches, HoldsKeys(c), c.freed = {}, NEW k \in Keys, k \notin Cached(c),
         NEW h \in Handles, NEW n, NEW p, Forward(c, n, p), Backward(c, n, p)
  PROVE  /\ Forward(put(c, k, h), n + 1, Added(n, p, new(c, k)))
         /\ Backward(put(c, k, h), n + 1, Added(n, p, new(c, k)))
         /\ put(c, k, h).ok = c.ok
<1> DEFINE x == new(c, k)
           d == put(c, k, h)
           q == Added(n, p, x)
           node == [c EXCEPT !.data[x] = h, !.next[x] = c.begin, !.prev[x] = null,
                             !.begin = x, !.hash[k] = x]
           only == [node EXCEPT !.end = x]
           more == SetPrev(node, c.begin, x)
<1>1. x \in Nodes /\ KeyOf(x) = k
  BY NewIsNode
<1>2. /\ n \in Nat /\ p \in [1..n -> Nodes] /\ Live(c) = Among(n, p)
      /\ \A a, b \in 1..n : p[a] = p[b] => a = b
  BY DEF Forward
<1>3. x \notin Live(c) /\ x # null
  BY <1>1, LiveNodes
<1>4. d = IF c.begin = null THEN only ELSE more
  BY DEF put, Cached
<1> HIDE DEF x
<1>5. /\ node \in Caches /\ node.hash = [c.hash EXCEPT ![k] = x] /\ node.next = [c.next EXCEPT ![x] = c.begin]
      /\ node.prev = [c.prev EXCEPT ![x] = null] /\ node.begin = x /\ node.end = c.end
      /\ node.ok = c.ok
  BY <1>1 DEF Caches, Links
<1> HIDE DEF node, d
<1>6. /\ q \in [1..(n + 1) -> Nodes] /\ Among(n + 1, q) = Among(n, p) \union {x}
      /\ \A a, b \in 1..(n + 1) : q[a] = q[b] => a = b
      /\ q[1] = x
      /\ \A j \in 1..n : q[j + 1] = p[j]
  BY <1>1, <1>2, <1>3, AddedNodes
<1> HIDE DEF q
<1>7. /\ d \in Caches /\ d.hash = node.hash /\ d.next = node.next /\ d.begin = x /\ d.ok = c.ok
      /\ n = 0 => d.prev = node.prev /\ d.end = x
      /\ n > 0 => d.prev = [node.prev EXCEPT ![p[1]] = x] /\ d.end = p[n]
  <2>1. CASE n = 0
    <3>1. d = only
      BY <1>4, <2>1 DEF Forward
    <3> QED BY <1>1, <1>5, <2>1, <3>1 DEF Caches, Links
  <2>2. CASE n > 0
    <3>1. c.begin = p[1] /\ c.end = p[n] /\ p[1] \in Nodes /\ p[1] # null
      <4>1. 1 \in 1..n
        BY <1>2, <2>2
      <4> QED BY <2>2, <4>1, ListNode DEF Forward, Backward
    <3>2. d = more
      BY <1>4, <3>1
    <3>3. x \in Links
      BY <1>1 DEF Links
    <3>4. PrevSet(node, more, c.begin, x)
      BY <1>5, <3>1, <3>3, NodeSet
    <3> HIDE DEF more
    <3> QED BY <1>5, <2>2, <3>1, <3>2, <3>4 DEF PrevSet
  <2> QED BY <1>2, <2>1, <2>2
<1>8. Live(d) = Among(n + 1, q)
  <2>1. d.hash[k] = x /\ \A j \in Keys \ {k} : d.hash[j] = c.hash[j]
    BY <1>5, <1>7 DEF Caches
  <2>2. Cached(d) = Cached(c) \union {k}
    BY <1>3, <2>1 DEF Cached
  <2>3. \A m \in Live(d) : m \in Live(c) \union {x}
    BY <2>1, <2>2 DEF Live, Cached
  <2>4. \A m \in Live(c) \union {x} : m \in Live(d)
    BY <2>1, <2>2 DEF Live, Cached
  <2>5. Live(d) = Live(c) \union {x}
    BY <2>3, <2>4
  <2> QED BY <1>2, <1>6, <2>5
<1>9. /\ c.next \in [Nodes -> Links] /\ c.prev \in [Nodes -> Links]
      /\ node.next \in [Nodes -> Links] /\ node.prev \in [Nodes -> Links]
  BY <1>5 DEF Caches
<1>10. ASSUME NEW j \in 1..n
       PROVE  /\ p[j] \in Nodes /\ p[j] # x /\ d.next[p[j]] = c.next[p[j]]
              /\ j = 1 => d.prev[p[j]] = x
              /\ j > 1 => d.prev[p[j]] = c.prev[p[j]]
  <2>1. p[j] \in Nodes /\ p[j] # x
    BY <1>2, <1>3, ListNode
  <2>2. d.next[p[j]] = c.next[p[j]] /\ node.prev[p[j]] = c.prev[p[j]]
    BY <1>1, <1>5, <1>7, <1>9, <2>1
  <2>3. n > 0 /\ 1 \in 1..n /\ p[1] \in Nodes
    BY <1>2
  <2>4. d.prev = [node.prev EXCEPT ![p[1]] = x]
    BY <1>7, <2>3
  <2>5. j = 1 => d.prev[p[j]] = x
    BY <1>9, <2>3, <2>4
  <2>6. j > 1 => p[j] # p[1]
    BY <1>2, <2>3
  <2>7. j > 1 => d.prev[p[j]] = c.prev[p[j]]
    BY <1>9, <2>1, <2>2, <2>4, <2>6
  <2> QED BY <2>1, <2>2, <2>5, <2>7
<1>11. d.next[x] = c.begin /\ d.prev[x] = null
  <2>1. d.next[x] = c.begin /\ node.prev[x] = null
    BY <1>1, <1>5, <1>7, <1>9
  <2>2. CASE n = 0
    BY <1>7, <2>1, <2>2
  <2>3. CASE n > 0
    <3>1. 1 \in 1..n
      BY <1>2, <2>3
    <3>2. p[1] # x /\ p[1] \in Nodes
      BY <1>10, <3>1
    <3> QED BY <1>1, <1>7, <1>9, <2>1, <2>3, <3>2
  <2> QED BY <1>2, <2>1, <2>2, <2>3
<1>12. ASSUME NEW j \in 1..(n + 1)
       PROVE  /\ j = n + 1 => d.next[q[j]] = null
              /\ j < n + 1 => d.next[q[j]] = q[j + 1]
              /\ j = 1 => d.prev[q[j]] = null
              /\ j > 1 => d.prev[q[j]] = q[j - 1]
  <2>1. CASE j = 1
    <3>1. q[j] = x
      BY <1>6, <2>1
    <3>2. j = n + 1 => c.begin = null
      BY <1>2, <2>1 DEF Forward
    <3>3. j < n + 1 => c.begin = q[j + 1]
      <4>1. j < n + 1 => 1 \in 1..n /\ n > 0 /\ c.begin = p[1]
        BY <1>2, <2>1 DEF Forward
      <4> QED BY <1>6, <2>1, <4>1
    <3> QED BY <1>11, <2>1, <3>1, <3>2, <3>3
  <2>2. CASE j > 1
    <3> DEFINE i == j - 1
    <3>1. i \in 1..n /\ i + 1 = j /\ (j = n + 1 <=> i = n) /\ (j < n + 1 <=> i < n)
      BY <1>2, <2>2
    <3> HIDE DEF i
    <3>2. q[j] = p[i] /\ (i < n => q[j + 1] = p[i + 1])
      <4>1. q[i + 1] = p[i]
        BY <1>6, <3>1
      <4>2. i < n => i + 1 \in 1..n
        BY <1>2, <3>1
      <4> QED BY <1>6, <3>1, <4>1, <4>2
    <3>3. (i = n => d.next[p[i]] = null) /\ (i < n => d.next[p[i]] = p[i + 1])
      BY <1>10, <3>1 DEF Forward
    <3>4. i = 1 => d.prev[p[i]] = x /\ q[i] = x
      BY <1>6, <1>10, <3>1
    <3>5. i > 1 => d.prev[p[i]] = q[i]
      <4>1. i > 1 => d.prev[p[i]] = p[i - 1]
        BY <1>10, <3>1 DEF Backward
      <4>2. i > 1 => i - 1 \in 1..n /\ (i - 1) + 1 = i
        BY <1>2, <3>1
      <4>3. i > 1 => q[(i - 1) + 1] = p[i - 1]
        BY <1>6, <4>2
      <4> QED BY <4>1, <4>2, <4>3
    <3>6. d.prev[q[j]] = q[i] /\ i = j - 1
      BY <3>1, <3>2, <3>4, <3>5 DEF i
    <3> QED BY <2>2, <3>1, <3>2, <3>3, <3>6
  <2> QED BY <1>2, <2>1, <2>2
<1>13. n + 1 \in Nat /\ n + 1 > 0 /\ d.begin = q[1] /\ d.end = q[n + 1]
  <2>1. CASE n = 0
    BY <1>6, <1>7, <2>1
  <2>2. CASE n > 0
    <3>1. n \in 1..n
      BY <1>2, <2>2
    <3> QED BY <1>2, <1>6, <1>7, <2>2, <3>1
  <2> QED BY <1>2, <2>1, <2>2
<1>14. Forward(d, n + 1, q)
  BY <1>6, <1>8, <1>12, <1>13 DEF Forward
<1>15. Backward(d, n + 1, q)
  BY <1>12, <1>13 DEF Backward
<1> QED BY <1>7, <1>14, <1>15 DEF d, q, x

\* The links of the nodes in the hash stay.
LEMMA TidyKeepsList ==
  ASSUME NEW c \in Caches, HoldsKeys(c), NEW n, NEW p, Forward(c, n, p)
  PROVE  /\ Forward(Tidy(c), n, p) /\ Tidy(c).ok = c.ok
         /\ Backward(c, n, p) => Backward(Tidy(c), n, p)
<1> DEFINE d == Tidy(c)
           kept(f) == [m \in Nodes |-> IF m \in Live(c) THEN f[m] ELSE null]
           nx == kept(c.next)
           pv == kept(c.prev)
           dt == kept(c.data)
<1>1. d = [c EXCEPT !.data = dt, !.next = nx, !.prev = pv]
  BY DEF Tidy
<1>2. \A m \in Live(c) : m \in Nodes
  BY LiveNodes
<1>3. \A m \in Live(c) : nx[m] = c.next[m] /\ pv[m] = c.prev[m]
  BY <1>2
<1> HIDE DEF nx, pv, dt, d
<1>4. /\ d.next = nx /\ d.prev = pv /\ d.begin = c.begin /\ d.end = c.end /\ d.hash = c.hash
      /\ d.ok = c.ok
  BY <1>1 DEF Caches
<1>5. Live(d) = Live(c)
  BY <1>4, SameLive
<1>6. \A i \in 1..n : d.next[p[i]] = c.next[p[i]] /\ d.prev[p[i]] = c.prev[p[i]]
  BY <1>3, <1>4, ListNode
<1>7. Forward(d, n, p)
  BY <1>4, <1>5, <1>6 DEF Forward
<1>8. Backward(c, n, p) => Backward(d, n, p)
  BY <1>4, <1>6 DEF Backward
<1> QED BY <1>4, <1>7, <1>8 DEF d
-----------------------------------------------------------------------------
(* Evictions. *)

\* A cache whose list is whole and runs through p.
ListOf(c, n, p) ==
  c \in Caches /\ HoldsKeys(c) /\ c.ok = TRUE /\ Forward(c, n, p) /\ Backward(c, n, p)

\* A list names every cached key once.
LEMMA ListCached ==
  ASSUME NEW c, NEW n, NEW p, ListOf(c, n, p)
  PROVE  /\ n \in Nat /\ Cardinality(Cached(c)) = n /\ n <= Cardinality(Keys)
         /\ \A i \in 1..n : /\ p[i] \in Nodes /\ KeyOf(p[i]) \in Cached(c)
                            /\ c.hash[KeyOf(p[i])] = p[i]
         /\ \A k \in Cached(c) : \E i \in 1..n : p[i] = c.hash[k] /\ KeyOf(p[i]) = k
<1> DEFINE S == 1..n
           K == Cached(c)
           f == [i \in S |-> KeyOf(p[i])]
<1>1. c \in Caches /\ HoldsKeys(c) /\ Forward(c, n, p) /\ n \in Nat
  BY DEF ListOf, Forward
<1>2. ASSUME NEW i \in S
      PROVE  p[i] \in Nodes /\ KeyOf(p[i]) \in K /\ c.hash[KeyOf(p[i])] = p[i]
  <2>1. p[i] \in Live(c) /\ p[i] \in Nodes
    BY <1>1, ListNode
  <2> QED BY <1>1, <2>1, LiveNodes
<1>3. ASSUME NEW k \in K PROVE \E i \in S : p[i] = c.hash[k] /\ KeyOf(p[i]) = k
  <2>1. c.hash[k] \in Live(c) /\ KeyOf(c.hash[k]) = k
    BY <1>1, LiveNodes DEF HoldsKeys
  <2>2. c.hash[k] \in Among(n, p)
    BY <1>1, <2>1 DEF Forward
  <2>3. PICK i \in S : c.hash[k] = p[i]
    BY <2>2 DEF Among
  <2> QED BY <2>1, <2>3
<1>4. IsFiniteSet(S) /\ Cardinality(S) = n
  <2>1. IsFiniteSet(1..n) /\ Cardinality(1..n) = IF 1 > n THEN 0 ELSE n - 1 + 1
    BY <1>1, FS_Interval
  <2> QED BY <1>1, <2>1
<1>5. \A i, j \in S : p[i] = p[j] => i = j
  BY <1>1 DEF Forward
<1>6. f \in [S -> K]
  BY <1>2
<1>7. \A i, j \in S : f[i] = f[j] => i = j
  <2> SUFFICES ASSUME NEW i \in S, NEW j \in S, f[i] = f[j] PROVE i = j
    OBVIOUS
  <2>1. KeyOf(p[i]) = KeyOf(p[j])
    OBVIOUS
  <2>2. p[i] = p[j]
    BY <1>2, <2>1
  <2> QED BY <1>5, <2>2
<1>8. \A k \in K : \E i \in S : f[i] = k
  BY <1>3
<1>9. K \subseteq Keys
  BY DEF Cached
<1> HIDE DEF f, S, K
<1>10. f \in Bijection(S, K)
  BY <1>6, <1>7, <1>8, Fun_IsBij
<1>11. ExistsBijection(S, K)
  BY <1>10 DEF ExistsBijection
<1>12. Cardinality(K) = Cardinality(S)
  BY <1>4, <1>11, FS_Bijection
<1>13. Cardinality(K) <= Cardinality(Keys)
  BY <1>9, CacheAssumption, FS_Subset
<1> QED BY <1>1, <1>2, <1>3, <1>4, <1>12, <1>13 DEF K, S

\* evict takes the node of its key out of the list.
LEMMA EvictRemoves ==
  ASSUME NEW c, NEW n, NEW p, ListOf(c, n, p), NEW i \in 1..n
  PROVE  ListOf(evict(c, KeyOf(p[i])), n - 1, Without(n, p, i))
<1> DEFINE x == p[i]
           k == KeyOf(x)
           q == Without(n, p, i)
           e == Unlinked(c, x)
           d == [e EXCEPT !.freed = @ \union {c.data[x]}]
<1>1. c \in Caches /\ HoldsKeys(c) /\ Forward(c, n, p) /\ Backward(c, n, p) /\ c.ok = TRUE
  BY DEF ListOf
<1>2. x \in Nodes /\ k \in Cached(c) /\ c.hash[k] = x /\ k \in Keys
  <2>1. x \in Nodes /\ k \in Cached(c) /\ c.hash[k] = x
    BY ListCached
  <2> QED BY <2>1 DEF Cached
<1>3. /\ e \in Caches /\ e.hash = [c.hash EXCEPT ![k] = null] /\ e.data = c.data
      /\ e.freed = c.freed
  BY <1>1, <1>2, UnlinkedKeepsData
<1>4. Forward(e, n - 1, q) /\ Backward(e, n - 1, q) /\ e.ok = c.ok
  BY <1>1, UnlinkRemoves
<1>5. evict(c, k) = d
  <2>1. c.hash[k] # null
    BY <1>2, LiveNodes DEF Cached
  <2>2. evict(c, k) = IF e.ok THEN d ELSE e
    BY <1>2, <2>1 DEF evict
  <2> HIDE DEF d, e
  <2> QED BY <1>1, <1>4, <2>2
<1> HIDE DEF q, x, k, e
<1>6. c.data[x] \in Handles \union {null}
  BY <1>1, <1>2 DEF Caches
<1>7. /\ d \in Caches /\ d.hash = e.hash /\ d.next = e.next /\ d.prev = e.prev
      /\ d.begin = e.begin /\ d.end = e.end /\ d.ok = e.ok
  BY <1>3, <1>6 DEF Caches
<1> HIDE DEF d
<1>8. HoldsKeys(d)
  <2> SUFFICES ASSUME NEW j \in Cached(d) PROVE d.hash[j] \in Nodes /\ KeyOf(d.hash[j]) = j
    BY DEF HoldsKeys
  <2>1. j \in Keys /\ d.hash[j] # null
    BY DEF Cached
  <2>2. j # k /\ d.hash[j] = c.hash[j]
    BY <1>1, <1>2, <1>3, <1>7, <2>1 DEF Caches
  <2> QED BY <1>1, <2>1, <2>2 DEF HoldsKeys, Cached
<1>9. Forward(d, n - 1, q) /\ Backward(d, n - 1, q)
  <2>1. Live(d) = Live(e)
    BY <1>7, SameLive
  <2> QED BY <1>4, <1>7, <2>1 DEF Forward, Backward
<1>10. ListOf(d, n - 1, q)
  BY <1>1, <1>4, <1>7, <1>8, <1>9 DEF ListOf
<1> QED BY <1>5, <1>10 DEF q, x, k

\* The first m of n.
First(m, p) == [j \in 1..m |-> p[j]]

\* A turn of evict_to_max takes the last of a list, if it is too long.
LEMMA EvictLastCuts ==
  ASSUME NEW c, NEW n, NEW p, ListOf(c, n, First(n, p)), NEW max_size \in Nat
  PROVE  /\ max_size = 0 \/ n <= max_size => EvictLast(c, max_size) = c
         /\ ~(max_size = 0 \/ n <= max_size) =>
              ListOf(EvictLast(c, max_size), n - 1, First(n - 1, p))
<1> DEFINE f == First(n, p)
<1>1. n \in Nat /\ Cardinality(Cached(c)) = n /\ c.ok = TRUE
  BY ListCached DEF ListOf
<1>2. Fits(c, max_size) <=> max_size = 0 \/ n <= max_size
  BY <1>1 DEF Fits
<1>3. max_size = 0 \/ n <= max_size => EvictLast(c, max_size) = c
  BY <1>2 DEF EvictLast
<1>4. ASSUME ~(max_size = 0 \/ n <= max_size)
      PROVE  ListOf(EvictLast(c, max_size), n - 1, First(n - 1, p))
  <2>1. n > 0 /\ n \in 1..n
    BY <1>1, <1>4
  <2> HIDE DEF f
  <2>2. c.end = f[n] /\ f[n] \in Nodes /\ KeyOf(f[n]) \in Cached(c)
    <3>1. Backward(c, n, f)
      BY DEF ListOf, f
    <3>2. f[n] \in Nodes /\ KeyOf(f[n]) \in Cached(c)
      BY <2>1, ListCached DEF f
    <3> QED BY <2>1, <3>1, <3>2 DEF Backward
  <2>3. f[n] # null
    BY <2>2, CacheAssumption DEF Nodes
  <2>4. EvictLast(c, max_size) = evict(c, KeyOf(f[n]))
    BY <1>1, <1>2, <1>4, <2>2, <2>3 DEF EvictLast
  <2>5. ListOf(evict(c, KeyOf(f[n])), n - 1, Without(n, f, n))
    BY <2>1, EvictRemoves DEF f
  <2>6. Without(n, f, n) = First(n - 1, p)
    <3>1. \A j \in 1..(n - 1) : j < n /\ j \in 1..n
      BY <1>1
    <3>2. \A j \in 1..(n - 1) : (IF j < n THEN f[j] ELSE f[j + 1]) = p[j]
      BY <3>1 DEF f, First
    <3> QED BY <3>2 DEF Without, First
  <2> QED BY <2>4, <2>5, <2>6
<1> QED BY <1>3, <1>4

\* evict_to_max leaves the first ones.
LEMMA EvictToMaxCuts ==
  ASSUME NEW c, NEW n, NEW p, ListOf(c, n, p), NEW max_size \in Nat
  PROVE  LET m == IF max_size \in 1..n THEN max_size ELSE n
         IN  ListOf(evict_to_max(c, max_size), m, First(m, p))
<1> DEFINE N == Cardinality(Keys)
           m == IF max_size \in 1..n THEN max_size ELSE n
           left(t) == IF n - t >= m THEN n - t ELSE m
<1>1. /\ N \in Nat /\ n \in Nat /\ n <= N /\ c \in Caches /\ HoldsKeys(c)
      /\ p \in [1..n -> Nodes]
  BY ListCached, FS_CardinalityType, CacheAssumption DEF ListOf, Forward
<1>2. PICK g : /\ g[0] = c
               /\ \A t \in 1..N : g[t] = EvictLast(g[t - 1], max_size)
               /\ evict_to_max(c, max_size) = g[N]
  BY <1>1, EvictToMaxTurns
<1> HIDE DEF N
<1>3. m \in Nat /\ m <= n /\ (m # n => max_size = m /\ m > 0) /\ (m = n => max_size = 0 \/ n <= max_size)
  BY <1>1
<1> HIDE DEF m
<1> DEFINE S == {t \in Nat : t <= N => ListOf(g[t], left(t), First(left(t), p))}
<1>4. 0 \in S
  <2>1. left(0) = n
    BY <1>1, <1>3
  <2>2. First(n, p) = p
    BY <1>1 DEF First
  <2> QED BY <1>2, <2>1, <2>2
<1>5. ASSUME NEW t \in Nat, t \in S PROVE t + 1 \in S
  <2>1. SUFFICES ASSUME t + 1 <= N
                 PROVE  ListOf(g[t + 1], left(t + 1), First(left(t + 1), p))
    OBVIOUS
  <2> DEFINE l == left(t)
  <2>2. ListOf(g[t], l, First(l, p)) /\ t + 1 \in 1..N /\ (t + 1) - 1 = t
    BY <1>1, <1>5, <2>1
  <2>3. g[t + 1] = EvictLast(g[t], max_size)
    BY <1>2, <2>2
  <2>4. l \in Nat /\ l >= m /\ left(t + 1) = IF l > m THEN l - 1 ELSE l
    BY <1>1, <1>3
  <2>5. max_size = 0 \/ l <= max_size <=> l = m
    <3>1. m = n => l = n
      BY <1>1, <1>3
    <3> HIDE DEF l
    <3> QED BY <1>1, <1>3, <2>4, <3>1
  <2> HIDE DEF l, left
  <2>6. CASE l = m
    BY <2>2, <2>3, <2>4, <2>5, <2>6, EvictLastCuts
  <2>7. CASE l # m
    <3>1. l > m
      BY <1>3, <2>4, <2>7
    <3> QED BY <2>2, <2>3, <2>4, <2>5, <2>7, <3>1, EvictLastCuts
  <2> QED BY <2>6, <2>7
<1>6. N \in S
  <2> HIDE DEF S
  <2> QED BY <1>1, <1>4, <1>5, SetInduction
<1>7. left(N) = m
  BY <1>1, <1>3
<1> QED BY <1>1, <1>2, <1>6, <1>7 DEF m

\* flush takes one after the other, until none is left.
LEMMA FlushEmpties ==
  ASSUME NEW c, NEW n, NEW p, ListOf(c, n, p)
  PROVE  \E q : ListOf(flush(c), 0, q)
<1> DEFINE N == Cardinality(Keys)
           left(t) == IF t <= n THEN n - t ELSE 0
<1>1. N \in Nat /\ n \in Nat /\ n <= N /\ c \in Caches /\ HoldsKeys(c)
  BY ListCached, FS_CardinalityType, CacheAssumption DEF ListOf
<1>2. PICK g : /\ g[0] = c
               /\ \A t \in 1..N : g[t] = EvictAny(g[t - 1])
               /\ flush(c) = g[N]
  BY <1>1, FlushTurns
<1> HIDE DEF N
<1> DEFINE S == {t \in Nat : t <= N => \E q : ListOf(g[t], left(t), q)}
<1>3. 0 \in S
  BY <1>1, <1>2
<1>4. ASSUME NEW t \in Nat, t \in S PROVE t + 1 \in S
  <2>1. SUFFICES ASSUME t + 1 <= N PROVE \E q : ListOf(g[t + 1], left(t + 1), q)
    OBVIOUS
  <2>2. t + 1 \in 1..N /\ (t + 1) - 1 = t /\ t <= N
    BY <1>1, <2>1
  <2> DEFINE l == left(t)
             d == g[t]
             k == CHOOSE k \in Cached(d) : TRUE
  <2>3. PICK q : ListOf(d, l, q)
    BY <1>4, <2>2
  <2>4. g[t + 1] = EvictAny(d)
    BY <1>2, <2>2
  <2>5. l \in Nat /\ left(t + 1) = IF l = 0 THEN 0 ELSE l - 1
    BY <1>1
  <2> HIDE DEF l, left, d
  <2>6. d.ok = TRUE /\ EvictAny(d) = IF Cached(d) = {} THEN d ELSE evict(d, k)
    BY <2>3 DEF ListOf, EvictAny
  <2>7. CASE l = 0
    <3>1. Cached(d) = {}
      <4>1. \A j \in Cached(d) : \E i \in 1..l : q[i] = d.hash[j]
        BY <2>3, ListCached
      <4> QED BY <2>7, <4>1
    <3> QED BY <2>3, <2>4, <2>5, <2>6, <2>7, <3>1
  <2>8. CASE l # 0
    <3>1. 1 \in 1..l
      BY <2>5, <2>8
    <3>2. Cached(d) # {}
      BY <2>3, <3>1, ListCached
    <3>3. k \in Cached(d)
      BY <3>2
    <3> HIDE DEF k
    <3>4. PICK i \in 1..l : KeyOf(q[i]) = k
      BY <2>3, <3>3, ListCached
    <3>5. ListOf(evict(d, k), l - 1, Without(l, q, i))
      BY <2>3, <3>4, EvictRemoves
    <3> QED BY <2>4, <2>5, <2>6, <2>8, <3>2, <3>5
  <2> QED BY <2>7, <2>8
<1>5. N \in S
  <2> HIDE DEF S
  <2> QED BY <1>1, <1>3, <1>4, SetInduction
<1>6. left(N) = 0
  BY <1>1
<1> QED BY <1>1, <1>2, <1>5, <1>6
-----------------------------------------------------------------------------
(* The order of the keys. *)

\* The keys of a list are a sequence of keys.
LEMMA KeysSequence ==
  ASSUME NEW n \in Nat, NEW p, p \in [1..n -> Nodes]
  PROVE  /\ KeysOf(n, p) \in Seq(Keys) /\ Len(KeysOf(n, p)) = n
         /\ \A i \in 1..n : KeysOf(n, p)[i] = KeyOf(p[i])
<1>1. \A i \in 1..n : KeyOf(p[i]) \in Keys
  BY DEF Nodes, KeyOf
<1>2. KeysOf(n, p) \in [1..n -> Keys]
  BY <1>1 DEF KeysOf
<1> QED BY <1>2, FunctionLength DEF KeysOf

\* Two sequences that are the same in each place.
LEMMA SameKeys ==
  ASSUME NEW s \in Seq(Keys), NEW t \in Seq(Keys), Len(s) = Len(t),
         \A i \in 1..Len(s) : s[i] = t[i]
  PROVE  s = t
BY SeqEqual

\* The keys of a list with one more node.
LEMMA KeysAdded ==
  ASSUME NEW n \in Nat, NEW p \in [1..n -> Nodes], NEW x \in Nodes
  PROVE  KeysOf(n + 1, Added(n, p, x)) = <<KeyOf(x)>> \o KeysOf(n, p)
<1> DEFINE q == Added(n, p, x)
           s == KeysOf(n + 1, q)
           one == <<KeyOf(x)>>
           o == KeysOf(n, p)
           t == one \o o
<1>0. q \in [1..(n + 1) -> Nodes] /\ q[1] = x /\ \A j \in 1..n : q[j + 1] = p[j]
  BY DEF Added
<1> HIDE DEF q
<1>1. s \in Seq(Keys) /\ Len(s) = n + 1 /\ \A i \in 1..(n + 1) : s[i] = KeyOf(q[i])
  BY <1>0, KeysSequence
<1>2. o \in Seq(Keys) /\ Len(o) = n /\ \A i \in 1..n : o[i] = KeyOf(p[i])
  BY KeysSequence
<1>3. one \in Seq(Keys) /\ Len(one) = 1 /\ one[1] = KeyOf(x)
  <2>1. KeyOf(x) \in Keys
    BY DEF Nodes, KeyOf
  <2> QED BY <2>1
<1> HIDE DEF s, one, o
<1>4. /\ t \in Seq(Keys) /\ Len(t) = 1 + n /\ t[1] = one[1]
      /\ \A i \in 1..n : t[1 + i] = o[i]
  <2>1. one \in Seq(Keys) /\ o \in Seq(Keys)
    BY <1>2, <1>3
  <2>2. /\ one \o o \in Seq(Keys) /\ Len(one \o o) = Len(one) + Len(o)
        /\ \A i \in 1..Len(one) : (one \o o)[i] = one[i]
        /\ \A i \in 1..Len(o) : (one \o o)[Len(one) + i] = o[i]
    BY <2>1, Joined
  <2> HIDE DEF t
  <2> QED BY <1>2, <1>3, <2>2 DEF t
<1> HIDE DEF t
<1>5. ASSUME NEW i \in 1..(n + 1) PROVE s[i] = t[i]
  <2>1. CASE i = 1
    BY <1>0, <1>1, <1>3, <1>4, <2>1
  <2>2. CASE i # 1
    <3>1. i - 1 \in 1..n /\ (i - 1) + 1 = i /\ 1 + (i - 1) = i
      BY <2>2
    <3>2. t[1 + (i - 1)] = KeyOf(p[i - 1]) /\ q[(i - 1) + 1] = p[i - 1]
      BY <1>0, <1>2, <1>4, <3>1
    <3> QED BY <1>1, <3>1, <3>2
  <2> QED BY <2>1, <2>2
<1>6. s = t
  BY <1>1, <1>4, <1>5, SameKeys
<1> QED BY <1>6 DEF s, t, one, o, q

\* The keys of the first nodes of a list.
LEMMA KeysFirst ==
  ASSUME NEW n \in Nat, NEW p, p \in [1..n -> Nodes], NEW m \in 0..n
  PROVE  KeysOf(m, First(m, p)) = SubSeq(KeysOf(n, p), 1, m)
<1> DEFINE f == First(m, p)
           s == KeysOf(m, f)
           o == KeysOf(n, p)
           t == SubSeq(o, 1, m)
<1>1. f \in [1..m -> Nodes] /\ \A j \in 1..m : f[j] = p[j]
  BY DEF First
<1> HIDE DEF f
<1>2. s \in Seq(Keys) /\ Len(s) = m /\ \A i \in 1..m : s[i] = KeyOf(f[i])
  BY <1>1, KeysSequence
<1>3. o \in Seq(Keys) /\ Len(o) = n /\ \A i \in 1..n : o[i] = KeyOf(p[i])
  BY KeysSequence
<1> HIDE DEF s, o
<1>4. t \in Seq(Keys) /\ Len(t) = m /\ \A i \in 1..m : t[i] = o[i]
  <2>1. m \in Nat /\ m <= Len(o)
    BY <1>3
  <2> QED BY <1>3, <2>1, FirstOnes
<1> HIDE DEF t
<1>5. \A i \in 1..m : s[i] = t[i]
  BY <1>1, <1>2, <1>3, <1>4
<1>6. s = t
  BY <1>2, <1>4, <1>5, SameKeys
<1> QED BY <1>6 DEF s, t, o, f

\* The keys of a list with a node moved to the front.
LEMMA KeysMoved ==
  ASSUME NEW n \in Nat, NEW p \in [1..n -> Nodes], NEW i \in 1..n
  PROVE  KeysOf(n, MovedUp(n, p, i)) = <<KeysOf(n, p)[i]>> \o RemoveAt(KeysOf(n, p), i)
<1> DEFINE q == MovedUp(n, p, i)
           s == KeysOf(n, q)
           o == KeysOf(n, p)
           one == <<o[i]>>
           low == SubSeq(o, 1, i - 1)
           high == SubSeq(o, i + 1, n)
           rest == low \o high
           t == one \o rest
<1>0. /\ q \in [1..n -> Nodes] /\ q[1] = p[i] /\ \A j \in 2..i : q[j] = p[j - 1]
      /\ \A j \in (i + 1)..n : q[j] = p[j]
  BY DEF MovedUp
<1> HIDE DEF q
<1>1. s \in Seq(Keys) /\ Len(s) = n /\ \A j \in 1..n : s[j] = KeyOf(q[j])
  BY <1>0, KeysSequence
<1>2. o \in Seq(Keys) /\ Len(o) = n /\ \A j \in 1..n : o[j] = KeyOf(p[j]) /\ o[j] \in Keys
  <2>1. o \in Seq(Keys) /\ Len(o) = n /\ \A j \in 1..n : o[j] = KeyOf(p[j])
    BY KeysSequence
  <2>2. \A j \in 1..n : KeyOf(p[j]) \in Keys
    BY DEF Nodes, KeyOf
  <2> QED BY <2>1, <2>2
<1> HIDE DEF s, o
<1>3. one \in Seq(Keys) /\ Len(one) = 1 /\ one[1] = o[i]
  BY <1>2
<1>4. low \in Seq(Keys) /\ Len(low) = i - 1 /\ \A j \in 1..(i - 1) : low[j] = o[j]
  <2>1. i - 1 \in Nat /\ i - 1 <= Len(o)
    BY <1>2
  <2> QED BY <1>2, <2>1, FirstOnes
<1>5. high \in Seq(Keys) /\ Len(high) = n - i /\ \A j \in 1..(n - i) : high[j] = o[i + j]
  <2>1. \A j \in (i + 1)..n : o[j] \in Keys
    BY <1>2
  <2>2. /\ high \in Seq(Keys)
        /\ Len(high) = IF i + 1 <= n THEN n - (i + 1) + 1 ELSE 0
        /\ \A j \in 1..(n - (i + 1) + 1) : high[j] = o[(i + 1) + j - 1]
    BY <2>1, SubSeqProperties
  <2> HIDE DEF high
  <2>3. Len(high) = n - i
    BY <2>2
  <2>4. ASSUME NEW j \in 1..(n - i) PROVE high[j] = o[i + j]
    <3>1. j \in 1..(n - (i + 1) + 1) /\ (i + 1) + j - 1 = i + j
      OBVIOUS
    <3> QED BY <2>2, <3>1
  <2> QED BY <2>2, <2>3, <2>4
<1> HIDE DEF one, low, high
<1>6. /\ rest \in Seq(Keys) /\ Len(rest) = n - 1
      /\ \A j \in 1..(i - 1) : rest[j] = o[j]
      /\ \A j \in i..(n - 1) : rest[j] = o[j + 1]
  <2>0. low \in Seq(Keys) /\ high \in Seq(Keys)
    BY <1>4, <1>5
  <2>5. /\ low \o high \in Seq(Keys) /\ Len(low \o high) = Len(low) + Len(high)
        /\ \A j \in 1..Len(low) : (low \o high)[j] = low[j]
        /\ \A j \in 1..Len(high) : (low \o high)[Len(low) + j] = high[j]
    BY <2>0, Joined
  <2>1. /\ rest \in Seq(Keys) /\ Len(rest) = Len(low) + Len(high)
        /\ \A j \in 1..Len(low) : rest[j] = low[j]
        /\ \A j \in 1..Len(high) : rest[Len(low) + j] = high[j]
    BY <2>5 DEF rest
  <2> HIDE DEF rest
  <2>2. Len(rest) = n - 1 /\ \A j \in 1..(i - 1) : rest[j] = o[j]
    BY <1>4, <1>5, <2>1
  <2>3. ASSUME NEW j \in i..(n - 1) PROVE rest[j] = o[j + 1]
    <3>1. j - i + 1 \in 1..(n - i) /\ (i - 1) + (j - i + 1) = j /\ i + (j - i + 1) = j + 1
      OBVIOUS
    <3>2. rest[(i - 1) + (j - i + 1)] = o[i + (j - i + 1)]
      BY <1>4, <1>5, <2>1, <3>1
    <3> QED BY <3>1, <3>2
  <2> QED BY <2>1, <2>2, <2>3
<1> HIDE DEF rest
<1>7. t \in Seq(Keys) /\ Len(t) = n /\ t[1] = o[i] /\ \A j \in 1..(n - 1) : t[j + 1] = rest[j]
  <2>0. one \in Seq(Keys) /\ rest \in Seq(Keys)
    BY <1>3, <1>6
  <2>5. /\ one \o rest \in Seq(Keys) /\ Len(one \o rest) = Len(one) + Len(rest)
        /\ \A j \in 1..Len(one) : (one \o rest)[j] = one[j]
        /\ \A j \in 1..Len(rest) : (one \o rest)[Len(one) + j] = rest[j]
    BY <2>0, Joined
  <2>1. /\ t \in Seq(Keys) /\ Len(t) = Len(one) + Len(rest)
        /\ \A j \in 1..Len(one) : t[j] = one[j]
        /\ \A j \in 1..Len(rest) : t[Len(one) + j] = rest[j]
    BY <2>5 DEF t
  <2> HIDE DEF t
  <2>2. Len(t) = n /\ t[1] = o[i]
    BY <1>3, <1>6, <2>1
  <2>3. ASSUME NEW j \in 1..(n - 1) PROVE t[j + 1] = rest[j]
    <3>1. 1 + j = j + 1
      OBVIOUS
    <3> QED BY <1>3, <1>6, <2>1, <3>1
  <2> QED BY <2>1, <2>2, <2>3
<1> HIDE DEF t
<1>8. ASSUME NEW j \in 1..n PROVE s[j] = t[j]
  <2>1. CASE j = 1
    BY <1>0, <1>1, <1>2, <1>7, <2>1
  <2>2. CASE j # 1 /\ j <= i
    <3>1. j \in 2..i /\ j - 1 \in 1..(n - 1) /\ j - 1 \in 1..(i - 1) /\ j - 1 \in 1..n /\ (j - 1) + 1 = j
      BY <2>2
    <3>2. t[(j - 1) + 1] = o[j - 1] /\ q[j] = p[j - 1]
      BY <1>0, <1>6, <1>7, <3>1
    <3> QED BY <1>1, <1>2, <3>1, <3>2
  <2>3. CASE j > i
    <3>1. j \in (i + 1)..n /\ j - 1 \in 1..(n - 1) /\ j - 1 \in i..(n - 1) /\ (j - 1) + 1 = j
      BY <2>3
    <3>2. t[(j - 1) + 1] = o[(j - 1) + 1] /\ q[j] = p[j]
      BY <1>0, <1>6, <1>7, <3>1
    <3> QED BY <1>1, <1>2, <3>1, <3>2
  <2> QED BY <2>1, <2>2, <2>3
<1>9. s = t
  BY <1>1, <1>7, <1>8, SameKeys
<1>10. RemoveAt(o, i) = rest
  BY <1>2 DEF RemoveAt, rest, low, high
<1> QED BY <1>9, <1>10 DEF s, t, one, o, q

\* Order gives the keys of the list.
LEMMA ListOrder ==
  ASSUME NEW c, NEW n, NEW p, ListOf(c, n, p)
  PROVE  /\ Order(c) = KeysOf(n, p) /\ Linked(c) /\ Paths(c) # {}
         /\ n \in Nat /\ p \in [1..n -> Nodes]
         /\ Order(c) \in Seq(Keys) /\ Len(Order(c)) = n
         /\ \A i \in 1..n : Order(c)[i] = KeyOf(p[i])
<1>1. Order(c) = KeysOf(n, p) /\ Linked(c) /\ Paths(c) # {}
  BY ListIsLinked DEF ListOf
<1>2. n \in Nat /\ p \in [1..n -> Nodes]
  BY DEF ListOf, Forward
<1>3. /\ KeysOf(n, p) \in Seq(Keys) /\ Len(KeysOf(n, p)) = n
      /\ \A i \in 1..n : KeysOf(n, p)[i] = KeyOf(p[i])
  BY <1>2, KeysSequence
<1> QED BY <1>1, <1>2, <1>3

\* Nothing waits to be freed after an operation; the list is the same.
LEMMA FreedKeepsList ==
  ASSUME NEW c, NEW n, NEW p, ListOf(c, n, p)
  PROVE  ListOf([Tidy(c) EXCEPT !.freed = {}], n, p)
<1> DEFINE t == Tidy(c)
           d == [t EXCEPT !.freed = {}]
<1>1. /\ t \in Caches /\ t.hash = c.hash /\ t.ok = TRUE
      /\ Forward(t, n, p) /\ Backward(t, n, p)
  BY TidyKeepsData, TidyKeepsList DEF ListOf
<1> HIDE DEF t
<1>2. /\ d \in Caches /\ d.hash = t.hash /\ d.next = t.next /\ d.prev = t.prev
      /\ d.begin = t.begin /\ d.end = t.end /\ d.ok = t.ok
  BY <1>1 DEF Caches
<1> HIDE DEF d
<1>3. Live(d) = Live(t) /\ Cached(d) = Cached(t) /\ Cached(d) = Cached(c)
  BY <1>1, <1>2, SameLive DEF Cached
<1>4. HoldsKeys(d)
  BY <1>1, <1>2, <1>3 DEF HoldsKeys, ListOf
<1>5. Forward(d, n, p)
  BY <1>1, <1>2, <1>3 DEF Forward
<1>6. Backward(d, n, p)
  BY <1>1, <1>2 DEF Backward
<1>7. ListOf(d, n, p)
  BY <1>1, <1>2, <1>4, <1>5, <1>6 DEF ListOf
<1> QED BY <1>7 DEF d, t

\* What a hit on k does to the order, and to a list of n nodes that is whole.
Moved(c, n, k, d) ==
  \E i \in 1..n : /\ Order(c)[i] = k /\ d.ok = TRUE /\ Paths(d) # {}
                  /\ Order(d) = <<Order(c)[i]>> \o RemoveAt(Order(c), i)
                  /\ i < n \/ n = 1 => Linked(d)

\* A hit moves its key to the front.
LEMMA HitMoves ==
  ASSUME NEW c, NEW n, NEW p, ListOf(c, n, p), NEW k \in Cached(c)
  PROVE  Moved(c, n, k, Tidy(m_update(c, c.hash[k])))
<1>1. PICK i \in 1..n : p[i] = c.hash[k] /\ KeyOf(p[i]) = k
  BY ListCached
<1> DEFINE d == Tidy(m_update(c, c.hash[k]))
           u == m_update(c, p[i])
           q == MovedUp(n, p, i)
<1>2. /\ Forward(u, n, q) /\ u.ok = c.ok /\ u \in Caches /\ u.hash = c.hash
      /\ i < n \/ n = 1 => Backward(u, n, q)
  BY UpdateMoves DEF ListOf
<1>3. n \in Nat /\ p \in [1..n -> Nodes] /\ \A a, b \in 1..n : p[a] = p[b] => a = b
  BY DEF ListOf, Forward
<1>4. d = Tidy(u)
  BY <1>1
<1> HIDE DEF d, u, q
<1>5. HoldsKeys(u)
  <2>1. Cached(u) = Cached(c)
    BY <1>2, SameLive
  <2> QED BY <1>2, <2>1 DEF HoldsKeys, ListOf
<1>6. /\ Forward(d, n, q) /\ d.ok = TRUE /\ d \in Caches /\ d.hash = u.hash
      /\ i < n \/ n = 1 => Backward(d, n, q)
  BY <1>2, <1>4, <1>5, TidyKeepsList, TidyKeepsData DEF ListOf
<1>7. HoldsKeys(d)
  <2>1. Cached(d) = Cached(u)
    BY <1>6, SameLive
  <2> QED BY <1>5, <1>6, <2>1 DEF HoldsKeys
<1>8. /\ Order(d) = KeysOf(n, q) /\ Paths(d) # {}
      /\ i < n \/ n = 1 => Linked(d)
  BY <1>6, <1>7, ListIsLinked
<1>9. KeysOf(n, q) = <<KeysOf(n, p)[i]>> \o RemoveAt(KeysOf(n, p), i)
  BY <1>3, KeysMoved DEF q
<1>10. Order(c) = KeysOf(n, p) /\ Order(c)[i] = k
  BY <1>1, ListOrder
<1> QED BY <1>6, <1>8, <1>9, <1>10 DEF Moved, d

\* A miss puts the key in front, where it was not.
LEMMA MissAdds ==
  ASSUME NEW c, NEW n, NEW p, ListOf(c, n, p), c.freed = {},
         NEW k \in Keys, k \notin Cached(c), NEW h \in Handles, NEW d, d = Tidy(put(c, k, h))
  PROVE  /\ d.ok = TRUE /\ Linked(d) /\ Paths(d) # {}
         /\ Order(d) = <<k>> \o Order(c) /\ k \notin ToSet(Order(c))
<1> DEFINE r == put(c, k, h)
           x == new(c, k)
           q == Added(n, p, x)
<1>1. /\ r \in Caches /\ x \in Nodes /\ KeyOf(x) = k /\ r.hash = [c.hash EXCEPT ![k] = x]
  <2>1. c \in Caches /\ HoldsKeys(c)
    BY DEF ListOf
  <2>2. IsPut(c, k, h, x, r)
    BY <2>1, PutKeepsData
  <2> QED BY <2>2 DEF IsPut
<1>2. Forward(r, n + 1, q) /\ Backward(r, n + 1, q) /\ r.ok = TRUE
  BY PutAdds DEF ListOf
<1>3. /\ n \in Nat /\ p \in [1..n -> Nodes] /\ \A a, b \in 1..n : p[a] = p[b] => a = b
      /\ \A i \in 1..n : KeyOf(p[i]) \in Cached(c)
  BY ListCached DEF ListOf, Forward
<1>4. d = Tidy(r)
  OBVIOUS
<1> HIDE DEF r, x, q
<1>5. HoldsKeys(r)
  BY <1>1 DEF HoldsKeys, ListOf, Cached, Caches
<1>6. ListOf(r, n + 1, q)
  BY <1>1, <1>2, <1>5 DEF ListOf
<1>7. /\ d \in Caches /\ d.hash = r.hash /\ d.ok = TRUE
      /\ Forward(d, n + 1, q) /\ Backward(d, n + 1, q)
  BY <1>1, <1>2, <1>4, <1>5, TidyKeepsList, TidyKeepsData
<1>8. HoldsKeys(d)
  <2>1. Cached(d) = Cached(r)
    BY <1>7, SameLive
  <2> QED BY <1>5, <1>7, <2>1 DEF HoldsKeys
<1>9. ListOf(d, n + 1, q)
  BY <1>7, <1>8 DEF ListOf
<1>10. Order(d) = KeysOf(n + 1, q) /\ Linked(d) /\ Paths(d) # {}
  BY <1>9, ListOrder
<1>11. KeysOf(n + 1, q) = <<KeyOf(x)>> \o KeysOf(n, p)
  BY <1>1, <1>3, KeysAdded DEF q
<1>12. /\ Order(c) = KeysOf(n, p) /\ Len(Order(c)) = n
       /\ \A i \in 1..n : Order(c)[i] = KeyOf(p[i])
  BY ListOrder
<1>13. k \notin ToSet(Order(c))
  BY <1>3, <1>12 DEF ToSet
<1> QED BY <1>1, <1>7, <1>10, <1>11, <1>12, <1>13

\* set_max_size leaves the front of the list.
LEMMA SetMaxSizeCuts ==
  ASSUME NEW c, NEW n, NEW p, ListOf(c, n, p), NEW max_size \in Nat,
         NEW d, d = [Tidy(evict_to_max(c, max_size)) EXCEPT !.freed = {}]
  PROVE  LET m == IF max_size \in 1..n THEN max_size ELSE n
         IN  /\ d.ok = TRUE /\ Linked(d) /\ Paths(d) # {} /\ m \in 0..n
             /\ Order(d) = SubSeq(Order(c), 1, m)
<1> DEFINE m == IF max_size \in 1..n THEN max_size ELSE n
<1>0. n \in Nat /\ p \in [1..n -> Nodes] /\ Order(c) = KeysOf(n, p)
  BY ListOrder
<1>1. m \in 0..n
  BY <1>0
<1>2. ListOf(evict_to_max(c, max_size), m, First(m, p))
  BY EvictToMaxCuts
<1> HIDE DEF m
<1>3. ListOf(d, m, First(m, p))
  BY <1>2, FreedKeepsList
<1>4. Order(d) = KeysOf(m, First(m, p)) /\ Linked(d) /\ Paths(d) # {}
  BY <1>3, ListOrder
<1>5. KeysOf(m, First(m, p)) = SubSeq(KeysOf(n, p), 1, m)
  BY <1>0, <1>1, KeysFirst
<1>6. d.ok = TRUE
  BY <1>3 DEF ListOf
<1> QED BY <1>0, <1>1, <1>4, <1>5, <1>6 DEF m

\* flush leaves nothing.
LEMMA FlushDropsAll ==
  ASSUME NEW c, NEW n, NEW p, ListOf(c, n, p), NEW d, d = [Tidy(flush(c)) EXCEPT !.freed = {}]
  PROVE  d.ok = TRUE /\ Linked(d) /\ Paths(d) # {} /\ Order(d) = SubSeq(Order(c), 1, 0)
<1>1. PICK q : ListOf(flush(c), 0, q)
  BY FlushEmpties
<1>2. ListOf(d, 0, q)
  BY <1>1, FreedKeepsList
<1>3. Order(d) \in Seq(Keys) /\ Len(Order(d)) = 0 /\ Linked(d) /\ Paths(d) # {}
  BY <1>2, ListOrder
<1>4. Order(c) \in Seq(Keys) /\ Len(Order(c)) \in Nat
  BY ListOrder
<1>5. SubSeq(Order(c), 1, 0) \in Seq(Keys) /\ Len(SubSeq(Order(c), 1, 0)) = 0
  <2>1. 0 \in Nat /\ 0 <= Len(Order(c))
    BY <1>4
  <2> QED BY <1>4, <2>1, FirstOnes
<1>6. Order(d) = SubSeq(Order(c), 1, 0)
  BY <1>3, <1>5, SameKeys
<1> QED BY <1>2, <1>3, <1>6 DEF ListOf

\* The library's operators are the same for the instance.
LEMMA RecencySame ==
  ASSUME NEW s, NEW i
  PROVE  Recency!ToSet(s) = ToSet(s) /\ Recency!RemoveAt(s, i) = RemoveAt(s, i)
BY DEF Recency!ToSet, ToSet, Recency!RemoveAt, RemoveAt

\* Between two calls a linked cache is a list.
LEMMA WholeList ==
  ASSUME RInv, alive, Linked(cache)
  PROVE  ListOf(cache, Len(Path(cache)), Path(cache))
<1>1. cache \in Caches /\ HoldsKeys(cache) /\ cache.ok = TRUE
  BY DEF RInv, Sound, Caches
<1>2. Forward(cache, Len(Path(cache)), Path(cache)) /\ Backward(cache, Len(Path(cache)), Path(cache))
  BY <1>1, LinkedIsList
<1> QED BY <1>1, <1>2 DEF ListOf

\* What the three properties say of one step from a list that is whole.
OrderStep == Paths(cache') # {} /\ (Recency!Next \/ Order(cache') = Order(cache))
WholeStep ==
  build = "cache" => \/ cache'.ok /\ Linked(cache')
                     \/ /\ cache'.ok /\ Len(Order(cache)) > 1
                        /\ call'.op = "match" /\ call'.re = Last(Order(cache))
CutStep ==
  call = NoCall /\ call'.op = "set_max_size" =>
    LET n == Len(Order(cache))
    IN  Order(cache') = SubSeq(Order(cache), 1, IF call'.size \in 1..n THEN call'.size ELSE n)

\* A step that leaves the cache alone.
LEMMA SameList ==
  ASSUME Linked(cache), cache' = cache, build = "cache" => cache.ok,
         call = NoCall => call'.op # "set_max_size"
  PROVE  OrderStep /\ WholeStep /\ CutStep
<1>1. Paths(cache) # {}
  BY DEF Linked
<1> QED BY <1>1 DEF OrderStep, WholeStep, CutStep

\* A hit uses its key: Recency!Use.
LEMMA HitSteps ==
  ASSUME RInv, Linked(cache), Ready("cache"), NEW re \in Cached(cache), NEW str, NEW deglob,
         NEW ret, NEW error,
         cache' = Tidy(m_update(cache, cache.hash[re])), Matched(re, str, deglob, ret, error)
  PROVE  OrderStep /\ WholeStep /\ CutStep
<1> DEFINE n == Len(Path(cache))
           p == Path(cache)
<1>1. ListOf(cache, n, p)
  BY WholeList DEF Ready
<1>2. n \in Nat /\ Order(cache) \in Seq(Keys) /\ Len(Order(cache)) = n
  BY <1>1, ListOrder
<1> HIDE DEF n, p
<1>3. PICK i \in 1..n :
        /\ Order(cache)[i] = re /\ cache'.ok = TRUE /\ Paths(cache') # {}
        /\ Order(cache') = <<Order(cache)[i]>> \o RemoveAt(Order(cache), i)
        /\ i < n \/ n = 1 => Linked(cache')
  <2>1. Moved(cache, n, re, cache')
    BY <1>1, HitMoves
  <2> QED BY <2>1 DEF Moved
<1>4. i \in DOMAIN Order(cache)
  BY <1>2
<1>5. Recency!Use(i)
  BY <1>3, RecencySame DEF Recency!Use
<1>6. OrderStep
  BY <1>3, <1>4, <1>5 DEF OrderStep, Recency!Next
<1>7. call'.op = "match" /\ call'.re = re
  BY DEF Matched
<1>8. ASSUME ~(i < n \/ n = 1) PROVE Len(Order(cache)) > 1 /\ re = Last(Order(cache))
  BY <1>2, <1>3, <1>8 DEF Last
<1>9. WholeStep
  BY <1>3, <1>7, <1>8 DEF WholeStep
<1> QED BY <1>6, <1>7, <1>9 DEF CutStep

\* A miss adds it: Recency!Add.
LEMMA MissSteps ==
  ASSUME RInv, Linked(cache), Ready("cache"), NEW re \in Keys, re \notin Cached(cache), NEW str,
         NEW deglob \in BOOLEAN, NEW ret, NEW error,
         cache' = Tidy(put(cache, re, NewHandle(re, deglob))), Matched(re, str, deglob, ret, error)
  PROVE  OrderStep /\ WholeStep /\ CutStep
<1>1. ListOf(cache, Len(Path(cache)), Path(cache)) /\ cache.freed = {}
  BY WholeList DEF Ready, RInv
<1>2. NewHandle(re, deglob) \in Handles
  BY NewHandleType DEF RInv
<1>3. /\ cache'.ok = TRUE /\ Linked(cache') /\ Paths(cache') # {}
      /\ Order(cache') = <<re>> \o Order(cache) /\ re \notin ToSet(Order(cache))
  BY <1>1, <1>2, MissAdds
<1>4. Recency!Add(re)
  BY <1>3, RecencySame DEF Recency!Add
<1>5. OrderStep
  BY <1>3, <1>4 DEF OrderStep, Recency!Next
<1> QED BY <1>3, <1>5 DEF WholeStep, CutStep, Matched

\* set_max_size drops the keys used least lately: Recency!Drop.
LEMMA SetMaxSizeSteps ==
  ASSUME RInv, Linked(cache), NEW m \in Nat, SetMaxSize(m)
  PROVE  OrderStep /\ WholeStep /\ CutStep
<1> DEFINE n == Len(Path(cache))
           cut == IF m \in 1..n THEN m ELSE n
<1>1. ListOf(cache, n, Path(cache))
  BY WholeList DEF SetMaxSize, Leaves, Ready
<1>2. n \in Nat /\ Len(Order(cache)) = n
  BY <1>1, ListOrder
<1>3. cache' = [Tidy(evict_to_max(cache, m)) EXCEPT !.freed = {}] /\ call'.size = m
  BY DEF SetMaxSize, Leaves
<1> HIDE DEF n
<1>4. /\ cache'.ok = TRUE /\ Linked(cache') /\ Paths(cache') # {} /\ cut \in 0..n
      /\ Order(cache') = SubSeq(Order(cache), 1, cut)
  BY <1>1, <1>3, SetMaxSizeCuts
<1>5. Recency!Drop(cut)
  BY <1>4 DEF Recency!Drop
<1> HIDE DEF cut
<1>6. OrderStep
  BY <1>2, <1>4, <1>5 DEF OrderStep, Recency!Next
<1>7. CutStep
  BY <1>2, <1>3, <1>4 DEF CutStep, cut
<1> QED BY <1>4, <1>6, <1>7 DEF WholeStep

\* flush drops all keys: Recency!Drop(0).
LEMMA FlushSteps ==
  ASSUME RInv, Linked(cache), Flush
  PROVE  OrderStep /\ WholeStep /\ CutStep
<1>1. ListOf(cache, Len(Path(cache)), Path(cache))
  BY WholeList DEF Flush, Leaves, Ready
<1>2. Len(Order(cache)) \in Nat
  BY <1>1, ListOrder
<1>3. cache' = [Tidy(flush(cache)) EXCEPT !.freed = {}] /\ call'.op = "flush"
  BY DEF Flush, Leaves
<1>4. /\ cache'.ok = TRUE /\ Linked(cache') /\ Paths(cache') # {}
      /\ Order(cache') = SubSeq(Order(cache), 1, 0)
  BY <1>1, <1>3, FlushDropsAll
<1>5. Recency!Drop(0) /\ 0 \in 0..Len(Order(cache))
  BY <1>2, <1>4 DEF Recency!Drop
<1>6. OrderStep
  BY <1>4, <1>5 DEF OrderStep, Recency!Next
<1> QED BY <1>3, <1>4, <1>6 DEF WholeStep, CutStep

\* Every step, from a list that is whole.
LEMMA ListSteps ==
  ASSUME RInv, Next, Linked(cache)
  PROVE  OrderStep /\ WholeStep /\ CutStep
<1>0. alive => cache.ok
  BY DEF RInv
<1>1. CASE MatchFree
  <2>1. build # "cache" /\ cache' = cache
    BY <1>1 DEF MatchFree, Ready
  <2>2. call'.op = "match"
    BY <1>1 DEF MatchFree, uvm_re_compexecfree, Matched
  <2> QED BY <2>1, <2>2, SameList
<1>2. ASSUME NEW re \in Keys, NEW str \in CachedStrings, NEW deglob \in BOOLEAN,
             MatchCached(re, str, deglob)
      PROVE  OrderStep /\ WholeStep /\ CutStep
  <2>1. Ready("cache") /\ alive
    BY <1>2 DEF MatchCached, Ready
  <2>2. CASE re \in Cached(cache)
    BY <1>2, <2>1, <2>2, HitSteps DEF MatchCached
  <2>3. CASE re \notin Cached(cache) /\ Compiled(re, deglob)
    BY <1>2, <2>1, <2>3, MissSteps DEF MatchCached
  <2>4. CASE re \notin Cached(cache) /\ ~Compiled(re, deglob)
    <3>1. cache' = cache /\ call'.op = "match"
      BY <1>2, <2>4 DEF MatchCached, Matched
    <3> QED BY <1>0, <2>1, <3>1, SameList
  <2> QED BY <2>2, <2>3, <2>4
<1>3. CASE MatchVerilog
  <2>1. build # "cache" /\ cache' = cache /\ call'.op = "match"
    BY <1>3 DEF MatchVerilog, Ready, Matched
  <2> QED BY <2>1, SameList
<1>4. ASSUME NEW re \in Regexes, MatchBracket(re) PROVE OrderStep /\ WholeStep /\ CutStep
  <2>1. alive /\ cache' = cache /\ call'.op # "set_max_size"
    BY <1>4 DEF MatchBracket, Ready, NoCall
  <2> QED BY <1>0, <2>1, SameList
<1>5. ASSUME NEW m \in Sizes, SetMaxSize(m) PROVE OrderStep /\ WholeStep /\ CutStep
  BY <1>5, SizesAssumption, SetMaxSizeSteps
<1>6. CASE Flush
  BY <1>6, FlushSteps
<1>7. CASE Return
  <2>1. alive /\ cache' = cache /\ call # NoCall
    BY <1>7 DEF Return
  <2> QED BY <1>0, <2>1, SameList
<1> QED BY <1>1, <1>2, <1>3, <1>4, <1>5, <1>6, <1>7 DEF Next

\* As long as m_end has not been left behind, the cache is a list of its keys in
\* the order of their last use: a match brings its key to the front, the rest
\* keeps its order, and only the end is dropped.
THEOREM UseKeepsOrder == Spec => OrderedByUse
<1>1. RInv /\ [Next]_vars =>
        [Linked(cache) => Paths(cache') # {} /\ (Recency!Next \/ Order(cache)' = Order(cache))]_vars
  BY ListSteps DEF OrderStep, vars
<1> QED BY <1>1, InvariantHolds, PTL DEF Spec, OrderedByUse

\* No operation fails on a whole list or breaks it, but a hit on the last of
\* several nodes: m_update moves it to the front and m_end stays behind with it.
THEOREM ListStaysWhole == Spec => OnlyOldestHitBreaksList
<1>1. RInv /\ [Next]_vars =>
        [build = "cache" /\ Linked(cache) =>
           \/ cache'.ok /\ Linked(cache')
           \/ /\ cache'.ok /\ Len(Order(cache)) > 1
              /\ call'.op = "match" /\ call'.re = Last(Order(cache))]_vars
  BY ListSteps DEF WholeStep
<1> QED BY <1>1, InvariantHolds, PTL DEF Spec, OnlyOldestHitBreaksList

\* What set_max_size leaves of a whole list are the keys used last, as many as
\* the limit allows.
THEOREM OldestAreEvicted == Spec => EvictsOldest
<1>1. RInv /\ [Next]_vars =>
        [Linked(cache) /\ call = NoCall /\ call'.op = "set_max_size" =>
           LET n == Len(Order(cache))
           IN  Order(cache') = SubSeq(Order(cache), 1, IF call'.size \in 1..n THEN call'.size ELSE n)]_vars
  BY ListSteps DEF CutStep
<1> QED BY <1>1, InvariantHolds, PTL DEF Spec, EvictsOldest
=============================================================================
