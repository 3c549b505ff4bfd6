------------------------------ MODULE HdlObject ------------------------------
(***************************************************************************)
(* What the C code of the UVM library's HDL access (dpi/uvm_hdl_*.c) sees  *)
(* of the simulator: one object, the paths that select all or some of its  *)
(* bits, vectors of words, and the put and get routines of VPI, FLI and    *)
(* VHPI.  Bit i of an object is its bit [i], of a vector bit i MOD 32 of   *)
(* word i DIV 32; a word has WordBits bits here.                           *)
(*                                                                         *)
(* "?" is a bit nobody has written: the output argument of a DPI function  *)
(* starts with it.  "u" is the value a VHDL signal starts with, which      *)
(* stands for the ones besides 0, 1, X and Z.                              *)
(***************************************************************************)
EXTENDS Integers

CONSTANTS
  WordBits,     \* 32
  MaxWidth,     \* UVM_HDL_MAX_WIDTH, here a multiple of WordBits
  ValueChars,   \* 128, the size of vector_val in uvm_hdl_questa.c
  SliceChars,   \* 256, the size of its reduced_vector
  Sizes,        \* widths of objects
  Paths,        \* the paths calls are made with
  Arguments     \* the vectors written

Kinds == {"vlog", "locked", "unpacked", "vhdl"}
  \* A packed Verilog variable, one the PLI may not write, an unpacked one,
  \* and a VHDL signal.

ASSUME HdlAssumption ==
  /\ WordBits \in Nat \ {0} /\ MaxWidth \in Nat \ {0}
  /\ MaxWidth % WordBits = 0
  /\ ValueChars \in Nat \ {0} /\ SliceChars \in Nat \ {0}
  /\ Sizes \subseteq Nat \ {0}
  /\ Arguments \subseteq [0..(MaxWidth - 1) -> {"0", "1", "x", "z"}]
  /\ Paths \subseteq [known : BOOLEAN, sel : {"whole", "bit", "slice"},
                      lhs : Nat, rhs : Nat]
  /\ \A p \in Paths : p.sel = "bit" => p.lhs = p.rhs

VecBits == 0..(MaxWidth - 1)
Untouched == [i \in VecBits |-> "?"]
Words(n) == (n + WordBits - 1) \div WordBits

\* "[lhs:rhs]" counts from rhs to lhs, in either direction; "[i]" is "[i:i]".
Down(p) == p.lhs > p.rhs
Width(o, p) == IF p.sel = "whole" THEN o.size
               ELSE IF Down(p) THEN p.lhs - p.rhs + 1 ELSE p.rhs - p.lhs + 1
\* mutant: counts up whichever way the slice is written
UpIndex(p, j) == IF p.sel = "whole" THEN j ELSE p.rhs + j

\* Bit j of the vector is bit Index of the object; Position is its inverse.
Index(p, j) == IF p.sel = "whole" THEN j ELSE IF Down(p) THEN p.rhs + j ELSE p.rhs - j
Position(p, i) == IF p.sel = "whole" THEN i ELSE IF Down(p) THEN i - p.rhs ELSE p.rhs - i

Steps(o, p) == 0..(Width(o, p) - 1)
Selected(o, p) == IF p.sel = "whole" THEN 0..(o.size - 1) ELSE (p.rhs..p.lhs) \union (p.lhs..p.rhs)
Exists(o, p) == p.known /\ Selected(o, p) \subseteq DOMAIN o.val
BitPath(p, i) == [p EXCEPT !.sel = "bit", !.lhs = i, !.rhs = i]

\* Beyond the vector lies memory of somebody else: no set routine compares
\* the width of the object with it.
ArgBit(arg, j) == IF j \in VecBits THEN arg[j] ELSE "?"
\* What a vector has for the bits S of an object.
BitsFor(S, p, arg) == [i \in S |-> ArgBit(arg, Position(p, i))]

\* What a call returns: the object afterwards, its result, its output vector.
Failed(o, buf) == [o |-> o, ret |-> 0, out |-> buf]
Wrote(o)       == [o |-> o, ret |-> 1, out |-> Untouched]
Gave(o, vec)   == [o |-> o, ret |-> 1, out |-> vec]

\* The bits S of an object get the values b: a deposit leaves the ones that
\* are forced, a release leaves every value.
PutAt(o, S, b, flag) ==
  LET written == IF flag = "deposit" THEN S \ o.forced
                 ELSE IF flag = "force" THEN S ELSE {}
  IN  [o EXCEPT !.val = [i \in DOMAIN @ |-> IF i \in written THEN b[i] ELSE @[i]],
                !.forced = IF flag = "force" THEN @ \union S
                           ELSE IF flag = "release" THEN @ \ S ELSE @]

\* vpi_put_value has no effect on an object the PLI may not write and on an
\* unpacked one.
VpiPut(o, S, b, flag) == IF o.kind = "vlog" THEN PutAt(o, S, b, flag) ELSE o

\* vpi_get_value: a vector of w bits, the rest of its last word 0; the words
\* beyond are those of the buffer.
VpiGet(o, p, buf) ==
  [i \in VecBits |->
     IF i < Width(o, p)
     THEN IF o.kind = "unpacked" THEN "?" ELSE o.val[Index(p, i)]
     ELSE IF i < WordBits * Words(Width(o, p)) THEN "0" ELSE buf[i]]

\* Where VPI knows no slices it finds whole objects and bits, and a slice is
\* taken apart by a loop that stops at the first bit it does not find.
FoundWithoutSlices(o, p) == o.kind # "vhdl" /\ p.sel # "slice" /\ Exists(o, p)
FoundPrefix(o, p) ==
  {j \in Steps(o, p) : \A k \in 0..j : FoundWithoutSlices(o, BitPath(p, Index(p, k)))}
AllFound(o, p) == FoundPrefix(o, p) = Steps(o, p)

\* A string or an enum vector of w values, the most significant one first,
\* as words: its first 32 values go into word 0, the next ones into word 1.
FromString(buf, w, b) ==
  [i \in VecBits |->
     LET before == (i \div WordBits) * WordBits
         here == IF w - before < WordBits THEN w - before ELSE WordBits
     IN  IF before >= w THEN buf[i]
         ELSE IF i - before >= here THEN "0"
         ELSE b[w - before - here + (i - before)]]

\* The 4-state value of a VHDL value.
FourState(b) == IF b = "u" THEN "x" ELSE b
-----------------------------------------------------------------------------
(* uvm_polling_getValue32: word "chunk" of an object, extended. *)

top_msb(size) == (size - 1) % WordBits
\* The unsigned 2 * 2^msb - 1, which wraps to all ones for a full word.
top_mask(size) == (2 * 2^top_msb(size) - 1) % 2^WordBits

\* mutant: the - 1 forgotten
WrongMask(size, k) == (((2 * 2^top_msb(size)) % 2^WordBits) \div 2^k) % 2 = 1

InMask(size, k) == (top_mask(size) \div 2^k) % 2 = 1

\* Bits above the mask repeat the sign bit or are 0.  A chunk beyond the end
\* gives the last word.
GetValue32(o, signed, chunk) ==
  LET lsb == chunk * WordBits
      c == IF lsb >= o.size THEN (o.size - 1) \div WordBits ELSE chunk
  IN  [k \in 0..(WordBits - 1) |->
         IF lsb + WordBits <= o.size \/ InMask(o.size, k)
         THEN o.val[c * WordBits + k]
         ELSE IF signed THEN o.val[o.size - 1] ELSE "0"]
=============================================================================
