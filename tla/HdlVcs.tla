------------------------------- MODULE HdlVcs -------------------------------
(***************************************************************************)
(* dpi/uvm_hdl_vcs.c, without VCSMX_FAST_UVM: the simulator resolves every *)
(* select of a path itself.  "mixed" is the build with VCSMX, where VHDL   *)
(* objects are reached through MHPI.                                       *)
(*                                                                         *)
(* A definition marked "mutant" is a wrong version of the one below it,    *)
(* kept to show that the properties tell them apart; nothing uses it.      *)
(***************************************************************************)
EXTENDS HdlObject

Found(o, p, mixed) ==
  /\ Exists(o, p)
  /\ p.sel = "slice" => p.lhs >= p.rhs
  /\ o.kind = "vhdl" => mixed

\* vpi_chk_error tells a put that was refused, check_type an unpacked object.
set_vlog(o, p, arg, flag) ==
  IF o.kind = "vlog"
  THEN Wrote(VpiPut(o, Selected(o, p), BitsFor(Selected(o, p), p, arg), flag))
  ELSE Failed(o, Untouched)

get_vlog(o, p) ==
  IF Width(o, p) <= MaxWidth /\ o.kind # "unpacked"
  THEN Gave(o, VpiGet(o, p, Untouched)) ELSE Failed(o, Untouched)

\* mutant: the first digits go into word 0
FirstWordFirst(o, p) ==
  IF Width(o, p) <= MaxWidth
  THEN Gave(o, FromString(Untouched, Width(o, p), [j \in Steps(o, p) |-> FourState(o.val[Index(p, j)])]))
  ELSE Failed(o, Untouched)

\* The digits are shifted into words that nobody has cleared.
get_mhdl(o, p) ==
  IF Width(o, p) <= MaxWidth
  THEN Gave(o, [i \in VecBits |-> IF i < Width(o, p)
                                  THEN FourState(o.val[Index(p, i)]) ELSE "?"])
  ELSE Failed(o, Untouched)

\* The binary digits of a word are those of aval: X counts as 1, Z as 0.
btoi(b) == IF b \in {"1", "x"} THEN "1" ELSE "0"

\* The top word is written without leading zeros and cut to the bits the
\* object has there, from the left: with higher bits set, the wrong ones.
set_mhdl(o, p, arg, flag) ==
  LET w == Width(o, p)
      top == (Words(w) - 1) * WordBits
      excess == {i - w + 1 : i \in {k \in w..(top + WordBits - 1) : btoi(ArgBit(arg, k)) = "1"}}
      shift == IF excess = {} THEN 0 ELSE CHOOSE s \in excess : \A t \in excess : t <= s
      digit == [i \in Selected(o, p) |->
                  LET j == Position(p, i)
                  IN  btoi(ArgBit(arg, IF j >= top THEN j + shift ELSE j))]
  IN  Wrote(PutAt(o, Selected(o, p), digit, flag))

Set(o, p, arg, flag, mixed) ==
  IF ~Found(o, p, mixed) THEN Failed(o, Untouched)
  ELSE IF o.kind = "vhdl" THEN set_mhdl(o, p, arg, flag)
  ELSE set_vlog(o, p, arg, flag)
-----------------------------------------------------------------------------
check_path(o, p, mixed) ==
  IF Found(o, p, mixed) THEN Gave(o, Untouched) ELSE Failed(o, Untouched)

read(o, p, mixed) ==
  IF ~Found(o, p, mixed) THEN Failed(o, Untouched)
  ELSE IF o.kind = "vhdl" THEN get_mhdl(o, p) ELSE get_vlog(o, p)

deposit(o, p, arg, mixed) == Set(o, p, arg, "deposit", mixed)

force(o, p, arg, mixed) == Set(o, p, arg, "force", mixed)

mhpi_release_force(o, p) ==
  Wrote(PutAt(o, Selected(o, p), Untouched, "release"))

release(o, p, mixed) ==
  IF Found(o, p, mixed) /\ o.kind = "vhdl" THEN mhpi_release_force(o, p)
  ELSE Set(o, p, Untouched, "release", mixed)

\* Nothing is read: the output is whatever the put routine may store there.
release_and_read(o, p, mixed) ==
  IF mixed /\ Found(o, p, mixed) THEN mhpi_release_force(o, p)
  ELSE Set(o, p, Untouched, "release", mixed)
=============================================================================
