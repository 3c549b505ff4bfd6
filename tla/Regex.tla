-------------------------------- MODULE Regex --------------------------------
(***************************************************************************)
(* Matching with uvm_re_match (dpi/uvm_regex.svh, dpi/uvm_regex.cc) in the *)
(* three builds of the library: through the C code, compiling an           *)
(* expression for each match; the same with the cache of compiled          *)
(* expressions; and the Verilog only version.  The compiled expressions    *)
(* are memory of the C side that must be freed there.                      *)
(***************************************************************************)
EXTENDS Glob, RegexCache

CONSTANTS
  Globs,        \* expressions matched as globs
  Regexes,      \* expressions matched as they are
  Strings,      \* what they are matched with
  CachedStrings,  \* and with the cache
  Sizes         \* arguments of set_max_size

ASSUME SizesAssumption == Sizes \subseteq Nat

\* Expressions and texts are strings, taken as sequences of their characters,
\* none of which is what getc gives beyond the end; what regcomp is given is
\* within what is modelled of it.
ASSUME TextAssumption ==
  /\ Keys \union Globs \union Regexes \union Strings \union CachedStrings \subseteq Seq(STRING)
  /\ \A str \in Strings : "none" \notin ToSet(str)
  /\ \A deglob \in BOOLEAN : \A re \in IF deglob THEN Globs ELSE Regexes :
       Pattern(re, deglob).ok => Understood(Pattern(re, deglob).re)

VARIABLES
  build,        \* "free", "cache" or "verilog"
  cache,        \* uvm_regex_cache
  heap,         \* the compiled expressions that are not freed
  call,         \* the call that has been made, and its result, until it is taken
  alive         \* the simulation runs

vars == <<build, cache, heap, call, alive>>

NoCall == [op |-> "none"]
Ready(b) == alive /\ call = NoCall /\ build = b

Init ==
  /\ build \in {"free", "cache", "verilog"}
  /\ cache = Empty /\ heap = {} /\ call = NoCall /\ alive = TRUE

Matched(re, str, deglob, ret, error) ==
  call' = [op |-> "match", re |-> re, str |-> str, deglob |-> deglob, ret |-> ret,
           error |-> error]
-----------------------------------------------------------------------------
\* A compiled expression: what it was compiled from, and which memory it is.
Compiled(re, deglob) == Pattern(re, deglob).ok /\ regcomp(Pattern(re, deglob).re).ok
NewHandle(re, deglob) ==
  [re |-> re, deglob |-> deglob,
   id |-> Cardinality({h \in heap : h.re = re /\ h.deglob = deglob})]

uvm_re_exec(rexp, str) == regexec(regcomp(Pattern(rexp.re, rexp.deglob).re).pieces, str)

\* The result of compiling and matching in one go; none without an expression.
uvm_re_compexec(re, str, deglob) ==
  Compiled(re, deglob) /\ uvm_re_exec(NewHandle(re, deglob), str)

\* mutant: not freed
CompexecKeep(re, str, deglob) ==
  /\ heap' = IF Compiled(re, deglob) THEN heap \union {NewHandle(re, deglob)} ELSE heap
  /\ Matched(re, str, deglob, uvm_re_compexec(re, str, deglob), ~Compiled(re, deglob))

uvm_re_compexecfree(re, str, deglob) ==
  /\ Matched(re, str, deglob, uvm_re_compexec(re, str, deglob), ~Compiled(re, deglob))
  /\ UNCHANGED heap

Asked(re, deglob) == re \in (IF deglob THEN Globs ELSE Regexes) /\ ~CopiesTooMuch(re, deglob)

MatchFree ==
  /\ Ready("free")
  /\ \E re \in Globs \union Regexes, deglob \in BOOLEAN :
       /\ Asked(re, deglob)
       /\ \E str \in Strings : uvm_re_compexecfree(re, str, deglob)
  /\ UNCHANGED <<build, cache, alive>>

\* mutant: what was used last
CacheFront(re) == cache.data[cache.begin]

\* What the cache holds for an expression.
Cache(re) == cache.data[cache.hash[re]]

\* The cache is asked for the expression alone.
MatchCached(re, str, deglob) ==
  /\ Ready("cache") /\ re \in (IF deglob THEN Globs ELSE Regexes)
  /\ \/ /\ re \in Cached(cache)
        /\ cache' = Tidy(m_update(cache, cache.hash[re]))
        /\ Matched(re, str, deglob, uvm_re_exec(Cache(re), str), FALSE)
        /\ UNCHANGED heap
     \/ /\ re \notin Cached(cache) /\ ~CopiesTooMuch(re, deglob)
        /\ Matched(re, str, deglob, uvm_re_compexec(re, str, deglob), ~Compiled(re, deglob))
        /\ IF Compiled(re, deglob)
           THEN /\ cache' = Tidy(put(cache, re, NewHandle(re, deglob)))
                /\ heap' = heap \union {NewHandle(re, deglob)}
           ELSE UNCHANGED <<cache, heap>>
  /\ alive' = cache'.ok
  /\ UNCHANGED build

MatchVerilog ==
  /\ Ready("verilog")
  /\ \E re \in Globs, str \in Strings : Matched(re, str, TRUE, VerilogMatch(re, str), FALSE)
  /\ UNCHANGED <<build, cache, heap, alive>>

\* "/" as a regular expression takes the buffer and all that lies behind it.
MatchBracket(re) ==
  /\ Ready("free") \/ Ready("cache")
  /\ CopiesTooMuch(re, FALSE)
  /\ build = "cache" => re \in Keys /\ re \notin Cached(cache)
  /\ alive' = FALSE /\ call' = NoCall
  /\ UNCHANGED <<build, cache, heap>>

\* What an operation on the cache leaves: what it evicted is freed, and a
\* null handle that was dereferenced ends the simulation.
Leaves(op, n, c) ==
  /\ Ready("cache")
  /\ cache' = [Tidy(c) EXCEPT !.freed = {}]
  /\ heap' = heap \ c.freed
  /\ alive' = c.ok
  /\ call' = [op |-> op, size |-> n]
  /\ UNCHANGED build

\* m_max_size is read by this call and by no other.
SetMaxSize(n) == Leaves("set_max_size", n, evict_to_max(cache, n))

Flush == Leaves("flush", 0, flush(cache))

\* The caller has its result.
Return == alive /\ call # NoCall /\ call' = NoCall /\ UNCHANGED <<build, cache, heap, alive>>

Next ==
  \/ MatchFree
  \/ \E re \in Keys, str \in CachedStrings, deglob \in BOOLEAN : MatchCached(re, str, deglob)
  \/ MatchVerilog
  \/ \E re \in Regexes : MatchBracket(re)
  \/ \E n \in Sizes : SetMaxSize(n)
  \/ Flush
  \/ Return

Spec == Init /\ [][Next]_vars
-----------------------------------------------------------------------------
TypeOK ==
  /\ build \in {"free", "cache", "verilog"} 
  /\ alive \in BOOLEAN /\ cache.freed = {} /\ (alive => cache.ok)
  /\ \A k \in Cached(cache) : KeyOf(cache.hash[k]) = k
  /\ \A h \in heap : h.re \in Keys /\ h.deglob \in BOOLEAN

\* The memory of every compiled expression is known to the cache, and the
\* cache knows no memory that was freed, also when its list is broken: nothing
\* leaks, nothing is used after it is freed or freed twice.
HeapIsCache == alive => heap = {Cache(k) : k \in Cached(cache)}

\* A match has the result that compiling the expression then and there gives,
\* unless the cache has it compiled the other way: deglob is not in the key.
CachedAsUncached ==
  call.op = "match" /\ build = "cache" =>
    \/ call.ret = uvm_re_compexec(call.re, call.str, call.deglob)
    \/ call.re \in Cached(cache) /\ Cache(call.re).deglob # call.deglob

\* Converted, compiled and executed, a glob matches what it means: without
\* brackets, anchors of its own and escapes, and without "|" and "{", which the
\* conversion leaves as they are and REG_EXTENDED takes for an alternation and
\* an interval (uvm_regex.cc:154-176, 290).
Plain(re) == re # <<>> /\ ToSet(re) \intersect {"/", "^", "$", "\\", "|", "{"} = {}
MatchIsGlob ==
  call.op = "match" /\ build # "verilog" /\ call.deglob /\ Plain(call.re) /\ ~call.error
    /\ (build = "cache" => Cache(call.re).deglob)
  => (call.ret <=> GlobMatches(call.re, call.str))

\* The Verilog only version agrees with the C code on every plain glob of
\* characters, "*" and "?"; it does not know "+", and the empty glob matches
\* everything.
VerilogAgrees ==
  call.op = "match" /\ build = "verilog" /\ Plain(call.re) /\ "+" \notin ToSet(call.re)
    /\ Compiled(call.re, TRUE)
  => (call.ret <=> uvm_re_compexec(call.re, call.str, TRUE))

\* What uvm_glob_to_re returns means to uvm_re_match, with and without deglob,
\* what the glob means with it.
GlobToRe ==
  call.op = "match" /\ build = "free" /\ uvm_re_deglobbed(call.re, TRUE).ok =>
    LET re == uvm_re_deglobbed(call.re, TRUE).re
    IN  /\ Pattern(re, FALSE) = Pattern(call.re, TRUE)
        /\ Pattern(re, TRUE) = Pattern(call.re, TRUE)

\* No conversion writes past the buffer (char buffer[UVM_REGEX_MAX_LENGTH+4]),
\* if the glob has no "^" of its own: with one, and without brackets, the
\* length is first compared when a character becomes two.
BufferFits ==
  call.op = "match" /\ build = "free" => \A b \in BOOLEAN :
    \/ Written(call.re, b) <= BufferSize
    \/ ~b /\ call.re[1] = "^"

\* The cache is a list of the expressions in the order of their last use, as
\* long as the list is whole; the links from the head still lead through it
\* when m_end has been left behind.
Recency == INSTANCE RecencyList WITH keys <- Order(cache)
OrderedByUse ==
  [][Linked(cache) => /\ Paths(cache') # {}
                      /\ Recency!Next \/ Order(cache)' = Order(cache)]_vars

\* No operation fails on a list that is whole, and it stays whole until a hit
\* on the last of several nodes moves it to the front, where m_end follows it.
OnlyOldestHitBreaksList ==
  [][build = "cache" /\ Linked(cache) =>
       \/ cache'.ok /\ Linked(cache')
       \/ /\ cache'.ok /\ Len(Order(cache)) > 1
          /\ call'.op = "match" /\ call'.re = Last(Order(cache))]_vars

\* A whole list is cut from its end: what set_max_size leaves are the
\* expressions used last.
EvictsOldest ==
  [][Linked(cache) /\ call = NoCall /\ call'.op = "set_max_size" =>
       LET n == Len(Order(cache))
       IN  Order(cache') = SubSeq(Order(cache), 1, IF call'.size \in 1..n THEN call'.size ELSE n)]_vars
=============================================================================
