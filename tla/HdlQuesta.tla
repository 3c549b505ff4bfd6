------------------------------ MODULE HdlQuesta ------------------------------
(***************************************************************************)
(* dpi/uvm_hdl_questa.c.  VHDL signals are reached through the FLI; a      *)
(* slice of a Verilog object is taken apart into bits, and the path, which *)
(* is rewritten for each of them, keeps the last one.  "partsel" is the    *)
(* static flag that tells uvm_hdl_get_vlog not to clear the vector.        *)
(*                                                                         *)
(* A definition marked "mutant" is a wrong version of the one below it,    *)
(* kept to show that the properties tell them apart; nothing uses it.      *)
(***************************************************************************)
EXTENDS HdlObject

\* The select is stripped before the lookup: any select of a signal passes.
uvm_is_vhdl_path(o, p) == o.kind = "vhdl" /\ p.known

\* U, W, L and H become '-', and that counts as 0.
vhdl2string(b) == IF b = "u" THEN "0" ELSE b

\* Arrays on the stack whose size nobody compares: for a write to selected bits
\* vector_val takes the digits of the whole signal and a last character, for a
\* read of a slice reduced_vector takes its digits.  What a call that overruns
\* them does is undefined; it is no call of the model.
Overruns(o, p, op) ==
  /\ uvm_is_vhdl_path(o, p) /\ p.sel # "whole"
  /\ \/ op \in {"deposit", "force", "release", "release_and_read"} /\ o.size + 1 > ValueChars
     \/ op \in {"read", "release_and_read"} /\ Width(o, p) > SliceChars

\* A bit that does not exist is read from beside the string.
register_get_vhdl(o, p) ==
  LET char == [j \in Steps(o, p) |-> IF Index(p, j) \in DOMAIN o.val
                                     THEN vhdl2string(o.val[Index(p, j)]) ELSE "?"]
  IN  Gave(o, FromString(Untouched, Width(o, p), char))

\* The whole signal takes its string.  Selected bits take 1 or 0, and always
\* by a deposit; a single bit takes the one of its own index.
register_set_vhdl(o, p, arg, flag) ==
  LET ours == Selected(o, p) \intersect DOMAIN o.val
      digit == [i \in ours |-> IF ArgBit(arg, IF p.sel = "bit" THEN i ELSE Position(p, i)) = "1"
                               THEN "1" ELSE "0"]
  IN  IF p.sel = "whole" THEN Wrote(PutAt(o, ours, [i \in ours |-> ArgBit(arg, i)], flag))
      ELSE Wrote(PutAt(o, ours, digit, IF flag = "release" THEN flag ELSE "deposit"))
-----------------------------------------------------------------------------
\* mutant: counts the wrong way through the slice
BackwardPartsel(o, p, arg, flag) ==
  LET done == {Index(p, j) : j \in FoundPrefix(o, p)}
      put == VpiPut(o, done, [i \in done |-> ArgBit(arg, Width(o, p) - 1 - Position(p, i))], flag)
  IN  IF AllFound(o, p) THEN Wrote(put) ELSE Failed(put, Untouched)

\* mutant: does not ask whether the bit was found
BlindPartsel(o, p, arg, flag) ==
  Wrote(VpiPut(o, Selected(o, p), BitsFor(Selected(o, p), p, arg), flag))

set_vlog_partsel(o, p, arg, flag) ==
  LET done == {Index(p, j) : j \in FoundPrefix(o, p)}
      put == VpiPut(o, done, BitsFor(done, p, arg), flag)
  IN  IF AllFound(o, p) THEN Wrote(put) ELSE Failed(put, Untouched)

\* mutant: one word fewer
ClearsLess(partsel) ==
  [i \in VecBits |-> IF ~partsel /\ i < MaxWidth - 2 * WordBits THEN "0" ELSE "?"]

\* Every word but the last is cleared, unless the flag is up.
Cleared(partsel) ==
  [i \in VecBits |-> IF ~partsel /\ i < MaxWidth - WordBits THEN "0" ELSE "?"]

\* For the bit it does not find it stores the one before it once more.
get_vlog_partsel(o, p, buf) ==
  LET found == FoundPrefix(o, p)
      vec == [i \in VecBits |->
                IF i \in found THEN o.val[Index(p, i)]
                ELSE IF i \notin Steps(o, p) \/ (i > 0 /\ i - 1 \notin found) THEN buf[i]
                ELSE IF i = 0 THEN "0" ELSE o.val[Index(p, i - 1)]]
  IN  IF AllFound(o, p) THEN Gave(o, vec) ELSE Failed(o, vec)

\* The flag after a read: a slice that is not all there leaves it up.
partsel_after(o, p, partsel) ==
  IF p.sel = "slice" /\ o.kind # "vhdl" THEN ~AllFound(o, p) ELSE partsel

\* Whether the put was refused is not asked.
set_vlog(o, p, arg, flag) ==
  IF p.sel = "slice" THEN set_vlog_partsel(o, p, arg, flag)
  ELSE IF ~FoundWithoutSlices(o, p) THEN Failed(o, Untouched)
  ELSE Wrote(VpiPut(o, Selected(o, p), BitsFor(Selected(o, p), p, arg), flag))

get_vlog(o, p, partsel) ==
  IF p.sel = "slice" THEN get_vlog_partsel(o, p, Cleared(partsel))
  ELSE IF ~FoundWithoutSlices(o, p) \/ Width(o, p) > MaxWidth
  THEN Failed(o, Cleared(partsel))
  ELSE Gave(o, VpiGet(o, p, Cleared(partsel)))
-----------------------------------------------------------------------------
check_path(o, p) ==
  IF uvm_is_vhdl_path(o, p) \/ FoundWithoutSlices(o, p)
  THEN Gave(o, Untouched) ELSE Failed(o, Untouched)

read(o, p, partsel) ==
  IF uvm_is_vhdl_path(o, p) THEN register_get_vhdl(o, p) ELSE get_vlog(o, p, partsel)

Set(o, p, arg, flag) ==
  IF uvm_is_vhdl_path(o, p) THEN register_set_vhdl(o, p, arg, flag)
  ELSE set_vlog(o, p, arg, flag)

deposit(o, p, arg) == Set(o, p, arg, "deposit")

force(o, p, arg) == Set(o, p, arg, "force")

release(o, p) == Set(o, p, Untouched, "release")

\* The release has rewritten the path of a slice to its last bit.
PathAfterSet(o, p) ==
  IF p.sel = "slice" /\ o.kind # "vhdl" THEN BitPath(p, p.lhs) ELSE p

release_and_read(o, p, partsel) ==
  IF release(o, p).ret = 0 THEN release(o, p)
  ELSE read(release(o, p).o, PathAfterSet(o, p), partsel)
=============================================================================
