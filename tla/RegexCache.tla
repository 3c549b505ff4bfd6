----------------------------- MODULE RegexCache -----------------------------
(***************************************************************************)
(* base/uvm_lru_cache.svh and base/uvm_regex_cache.svh: a doubly linked    *)
(* list of nodes and a hash that finds them.  A node that has left the     *)
(* hash is only known by the links and the end that still point to it, and *)
(* of what it holds only its key is read again.                            *)
(*                                                                         *)
(* "ok" is lowered when a null handle is dereferenced or a loop does not   *)
(* end; "freed" collects the data given to uvm_re_free.                    *)
(*                                                                         *)
(* A definition marked "mutant" is a wrong version of the one below it,    *)
(* kept to show that the properties tell them apart; nothing uses it.      *)
(***************************************************************************)
EXTENDS Integers, FiniteSets, Sequences

CONSTANTS Keys, null

ASSUME CacheAssumption == IsFiniteSet(Keys) /\ null \notin Keys \X Nat

\* The nodes a key may have had: one more than the links of the other keys' nodes
\* and the two ends can name.
MaxOld == 2 * Cardinality(Keys)
Nodes == Keys \X (0..MaxOld)

Blank == [n \in Nodes |-> null]
KeyOf(n) == n[1]
Empty == [hash |-> [k \in Keys |-> null], data |-> Blank, next |-> Blank, prev |-> Blank,
          begin |-> null, end |-> null, ok |-> TRUE, freed |-> {}]

Cached(c) == {k \in Keys : c.hash[k] # null}
Live(c) == {c.hash[k] : k \in Cached(c)}
Named(c) == Live(c) \union {c.begin, c.end} \union {c.next[n] : n \in Live(c)}
                    \union {c.prev[n] : n \in Live(c)}
new(c, k) == <<k, CHOOSE i \in 0..MaxOld : /\ <<k, i>> \notin Named(c)
                                         /\ \A j \in 0..(i - 1) : <<k, j>> \in Named(c)>>
\* Nobody reads the links of a node that has left the hash.
Tidy(c) ==
  LET kept(f) == [n \in Nodes |-> IF n \in Live(c) THEN f[n] ELSE null]
  IN  [c EXCEPT !.data = kept(@), !.next = kept(@), !.prev = kept(@)]

Fails(c) == [c EXCEPT !.ok = FALSE]
SetNext(c, n, to) == IF n = null THEN Fails(c) ELSE [c EXCEPT !.next[n] = to]
SetPrev(c, n, to) == IF n = null THEN Fails(c) ELSE [c EXCEPT !.prev[n] = to]
IfNode(n, changed, c) == IF n = null THEN c ELSE changed

\* mutant: forgets to take the node out of where it was
UpdateKeepsLink(c, n) ==
  IF c.begin = n THEN c
  ELSE LET front == SetPrev(SetNext(c, n, c.begin), c.begin, n)
       IN  [SetPrev(front, n, null) EXCEPT !.begin = n]

\* The node leaves its place and becomes the head.  The end is not moved.
m_update(c, n) ==
  IF c.begin = n THEN c
  ELSE LET out == SetNext(c, c.prev[n], c.next[n])
           unlinked == IfNode(c.next[n], SetPrev(out, c.next[n], c.prev[n]), out)
           front == SetPrev(SetNext(unlinked, n, c.begin), c.begin, n)
       IN  [SetPrev(front, n, null) EXCEPT !.begin = n]

\* mutant: a first node is not the last
PutKeepsEnd(c, k, d) ==
  IF c.hash[k] # null THEN [m_update(c, c.hash[k]) EXCEPT !.data[c.hash[k]] = d]
  ELSE LET n == new(c, k)
           node == [c EXCEPT !.data[n] = d, !.next[n] = c.begin, !.prev[n] = null,
                             !.begin = n, !.hash[k] = n]
       IN  IF c.begin = null THEN node ELSE SetPrev(node, c.begin, n)

\* Nothing is evicted here.
put(c, k, d) ==
  IF c.hash[k] # null THEN [m_update(c, c.hash[k]) EXCEPT !.data[c.hash[k]] = d]
  ELSE LET n == new(c, k)
           node == [c EXCEPT !.data[n] = d, !.next[n] = c.begin, !.prev[n] = null,
                             !.begin = n, !.hash[k] = n]
       IN  IF c.begin = null THEN [node EXCEPT !.end = n] ELSE SetPrev(node, c.begin, n)

\* A node that is last in the list but not m_end has no next to write to.
Unlinked(c, n) ==
  LET out == [c EXCEPT !.hash[KeyOf(n)] = null]
      front == IF c.begin = n THEN [out EXCEPT !.begin = c.next[n]]
               ELSE SetNext(out, c.prev[n], c.next[n])
  IN  IF c.end = n THEN [front EXCEPT !.end = c.prev[n]]
      ELSE SetPrev(front, c.next[n], c.prev[n])

\* mutant: forgets the memory on the C side
EvictKeepsData(c, k) == IF c.hash[k] = null THEN c ELSE Unlinked(c, c.hash[k])

\* The data is freed by the derived class, if the base class returns.
evict(c, k) ==
  IF c.hash[k] = null THEN c
  ELSE LET e == Unlinked(c, c.hash[k])
       IN  IF e.ok THEN [e EXCEPT !.freed = @ \union {c.data[c.hash[k]]}] ELSE e

\* mutant: one key less than the limit
FitsBelow(c, max_size) == max_size = 0 \/ Cardinality(Cached(c)) < max_size

\* 0 means no limit.
Fits(c, max_size) == max_size = 0 \/ Cardinality(Cached(c)) <= max_size

\* evict(m_end.key) until the rest fits.  If m_end has left the hash, and its key
\* with it, this goes on for ever.  Each turn takes a key, so there are no more
\* turns than keys.
EvictLast(c, max_size) ==
  IF ~c.ok \/ Fits(c, max_size) THEN c
  ELSE IF c.end = null \/ KeyOf(c.end) \notin Cached(c) THEN Fails(c)
  ELSE evict(c, KeyOf(c.end))
evict_to_max(c, max_size) ==
  LET after[n \in 0..Cardinality(Keys)] == IF n = 0 THEN c ELSE EvictLast(after[n - 1], max_size)
  IN  after[Cardinality(Keys)]

\* Evicts the keys one by one, in the order the hash gives them.
EvictAny(c) ==
  IF ~c.ok \/ Cached(c) = {} THEN c ELSE evict(c, CHOOSE k \in Cached(c) : TRUE)
flush(c) ==
  LET after[n \in 0..Cardinality(Keys)] == IF n = 0 THEN c ELSE EvictAny(after[n - 1])
  IN  after[Cardinality(Keys)]

-----------------------------------------------------------------------------
\* The links lead from the head through p, and no further.
Leads(c, p) ==
  LET n == Len(p)
  IN  /\ {p[i] : i \in 1..n} = Live(c)
      /\ c.begin = IF n = 0 THEN null ELSE p[1]
      /\ \A i \in 1..n : c.next[p[i]] = IF i = n THEN null ELSE p[i + 1]

\* Through the nodes of the hash, each once.
Paths(c) == {p \in [1..Cardinality(Live(c)) -> Live(c)] : Leads(c, p)}
Path(c) == CHOOSE p \in Paths(c) : TRUE

\* The keys in the order of the links, if they lead through all nodes.
Order(c) == [i \in 1..Len(Path(c)) |-> KeyOf(Path(c)[i])]

\* The links lead through all nodes, in both directions, and m_end is the last.
Linked(c) ==
  LET p == Path(c)
      n == Len(p)
  IN  /\ Paths(c) # {}
      /\ \A i \in 1..n : c.prev[p[i]] = IF i = 1 THEN null ELSE p[i - 1]
      /\ c.end = IF n = 0 THEN null ELSE p[n]
=============================================================================
