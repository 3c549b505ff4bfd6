----------------------------- MODULE HdlXcelium -----------------------------
(***************************************************************************)
(* dpi/uvm_hdl_xcelium.c: VPI for Verilog, VHPI for VHDL, chosen by the    *)
(* language of the object; a slice is taken apart into bits, always by     *)
(* VPI.  "Dies" and "MayDie" say when a call stops the simulator.          *)
(*                                                                         *)
(* A definition marked "mutant" is a wrong version of the one below it,    *)
(* kept to show that the properties tell them apart; nothing uses it.      *)
(***************************************************************************)
EXTENDS HdlObject

IsVhdl(o, p) == o.kind = "vhdl" /\ Exists(o, p)

\* mutant: writes every bit it finds, past the one it does not
HolesPartsel(o, p, arg, flag) ==
  LET done == Selected(o, p) \intersect DOMAIN o.val
      put == VpiPut(o, done, BitsFor(done, p, arg), flag)
  IN  IF AllFound(o, p) THEN Wrote(put) ELSE Failed(put, Untouched)

set_vlog_partsel(o, p, arg, flag) ==
  LET done == {Index(p, j) : j \in FoundPrefix(o, p)}
      put == VpiPut(o, done, BitsFor(done, p, arg), flag)
  IN  IF AllFound(o, p) THEN Wrote(put) ELSE Failed(put, Untouched)

get_vlog_partsel(o, p, buf) ==
  LET vec == [i \in VecBits |-> IF i \in FoundPrefix(o, p) THEN o.val[Index(p, i)]
                                                           ELSE buf[i]]
  IN  IF AllFound(o, p) THEN Gave(o, vec) ELSE Failed(o, vec)

\* Every word but the last.
clear_value == [i \in VecBits |-> IF i < MaxWidth - WordBits THEN "0" ELSE "?"]

set_vlog(o, p, arg, flag) ==
  IF ~FoundWithoutSlices(o, p) THEN Failed(o, Untouched)
  ELSE Wrote(VpiPut(o, Selected(o, p), BitsFor(Selected(o, p), p, arg), flag))

\* mutant: an object that just fits is refused
TightVlog(o, p) ==
  IF ~FoundWithoutSlices(o, p) \/ Width(o, p) >= MaxWidth THEN Failed(o, Untouched)
  ELSE Gave(o, VpiGet(o, p, Untouched))

get_vlog(o, p) ==
  IF ~FoundWithoutSlices(o, p) \/ Width(o, p) > MaxWidth THEN Failed(o, Untouched)
  ELSE Gave(o, VpiGet(o, p, Untouched))

set_vhdl(o, p, arg, flag) ==
  Wrote(PutAt(o, Selected(o, p), BitsFor(Selected(o, p), p, arg), flag))

\* A scalar fills word 0; a vector fills the words from its left end, after
\* all of them have been cleared.
get_vhdl(o, p) ==
  LET bit == [j \in Steps(o, p) |-> FourState(o.val[Index(p, j)])]
      clear == [i \in VecBits |-> IF p.sel = "whole" THEN "0" ELSE "?"]
  IN  Gave(o, FromString(clear, Width(o, p), bit))
-----------------------------------------------------------------------------
\* tf_dofinish on a VHDL object that is too wide.
Dies(o, p, op) == IsVhdl(o, p) /\ p.sel = "whole" /\ op # "check_path" /\ o.size > MaxWidth

\* The vector of a VHDL object is freed once per word.  The language of a
\* name that is not found is whatever the stack holds: it may be VHDL.
MayDie(o, p, op) ==
  \/ Dies(o, p, op)
  \/ IsVhdl(o, p) /\ p.sel = "whole" /\ op \in {"read", "release_and_read"} /\ Words(o.size) > 1
  \/ ~Exists(o, p) /\ p.sel # "slice" /\ op # "check_path"

check_path(o, p) ==
  IF (IsVhdl(o, p) /\ p.sel # "slice") \/ FoundWithoutSlices(o, p)
  THEN Gave(o, Untouched) ELSE Failed(o, Untouched)

read(o, p) ==
  IF p.sel = "slice" THEN get_vlog_partsel(o, p, clear_value)
  ELSE IF IsVhdl(o, p) THEN get_vhdl(o, p) ELSE get_vlog(o, p)

Set(o, p, arg, flag) ==
  IF p.sel = "slice" THEN set_vlog_partsel(o, p, arg, flag)
  ELSE IF IsVhdl(o, p) THEN set_vhdl(o, p, arg, flag) ELSE set_vlog(o, p, arg, flag)

deposit(o, p, arg) == Set(o, p, arg, "deposit")

force(o, p, arg) == Set(o, p, arg, "force")

release(o, p) == Set(o, p, Untouched, "release")

\* The release has rewritten the path of a slice to a bit, which the read of
\* a slice refuses.
release_and_read(o, p) ==
  IF p.sel = "slice" THEN Failed(release(o, p).o, clear_value)
  ELSE read(release(o, p).o, p)
=============================================================================
