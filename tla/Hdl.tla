--------------------------------- MODULE Hdl ---------------------------------
(***************************************************************************)
(* Backdoor access to one object of the simulation (dpi/uvm_hdl.svh): the  *)
(* SystemVerilog side calls the C functions, which the backend of one of   *)
(* the three simulators implements.  "VCSMX" is VCS with VHDL.             *)
(***************************************************************************)
EXTENDS HdlObject

VARIABLES
  backend,   \* which C file was compiled
  obj,       \* the object: its kind, size, value and the bits that are forced
  partsel,   \* the static flag of uvm_hdl_questa.c
  call,      \* the call that has been made, and its results, until they are taken
  alive      \* the simulator runs

vars == <<backend, obj, partsel, call, alive>>

V == INSTANCE HdlVcs
Q == INSTANCE HdlQuesta
X == INSTANCE HdlXcelium

Mixed == backend = "VCSMX"
Idle == [op |-> "none"]
Bits == {"0", "1", "x", "z", "u", "?"}

Init ==
  /\ backend \in {"VCS", "VCSMX", "Questa", "Xcelium"}
  /\ \E k \in Kinds, n \in Sizes :
       obj = [kind |-> k, size |-> n, forced |-> {},
              val |-> [i \in 0..(n - 1) |-> IF k = "vhdl" THEN "u" ELSE "x"]]
  /\ partsel = FALSE /\ call = Idle /\ alive = TRUE
-----------------------------------------------------------------------------
\* The functions of uvm_hdl.svh, each by the backend there is.
uvm_hdl_check_path(p) ==
  CASE backend = "Questa"  -> Q!check_path(obj, p)
    [] backend = "Xcelium" -> X!check_path(obj, p)
    [] OTHER               -> V!check_path(obj, p, Mixed)

uvm_hdl_read(p) ==
  CASE backend = "Questa"  -> Q!read(obj, p, partsel)
    [] backend = "Xcelium" -> X!read(obj, p)
    [] OTHER               -> V!read(obj, p, Mixed)

uvm_hdl_deposit(p, arg) ==
  CASE backend = "Questa"  -> Q!deposit(obj, p, arg)
    [] backend = "Xcelium" -> X!deposit(obj, p, arg)
    [] OTHER               -> V!deposit(obj, p, arg, Mixed)

uvm_hdl_force(p, arg) ==
  CASE backend = "Questa"  -> Q!force(obj, p, arg)
    [] backend = "Xcelium" -> X!force(obj, p, arg)
    [] OTHER               -> V!force(obj, p, arg, Mixed)

uvm_hdl_release(p) ==
  CASE backend = "Questa"  -> Q!release(obj, p)
    [] backend = "Xcelium" -> X!release(obj, p)
    [] OTHER               -> V!release(obj, p, Mixed)

uvm_hdl_release_and_read(p) ==
  CASE backend = "Questa"  -> Q!release_and_read(obj, p, partsel)
    [] backend = "Xcelium" -> X!release_and_read(obj, p)
    [] OTHER               -> V!release_and_read(obj, p, Mixed)
-----------------------------------------------------------------------------
\* An unpacked object has no bits to select.
Callable(p) == obj.kind = "unpacked" => p.sel = "whole"

\* Questa's VHDL access writes beyond an array on the stack.
Overrun(op, p) == backend = "Questa" /\ Q!Overruns(obj, p, op)

Returns(op, p, arg, r) ==
  /\ alive /\ call = Idle /\ Callable(p) /\ ~Overrun(op, p)
  /\ backend = "Xcelium" => ~X!Dies(obj, p, op)
  /\ obj' = r.o
  /\ call' = [op |-> op, path |-> p, arg |-> arg, ret |-> r.ret, out |-> r.out]
  /\ UNCHANGED <<backend, alive>>

CallCheckPath == \E p \in Paths :
  Returns("check_path", p, Untouched, uvm_hdl_check_path(p)) /\ UNCHANGED partsel

CallRead == \E p \in Paths :
  /\ Returns("read", p, Untouched, uvm_hdl_read(p))
  /\ partsel' = IF backend = "Questa" THEN Q!partsel_after(obj, p, partsel) ELSE partsel

CallDeposit == \E p \in Paths, arg \in Arguments :
  Returns("deposit", p, arg, uvm_hdl_deposit(p, arg)) /\ UNCHANGED partsel

CallForce == \E p \in Paths, arg \in Arguments :
  Returns("force", p, arg, uvm_hdl_force(p, arg)) /\ UNCHANGED partsel

CallRelease == \E p \in Paths :
  Returns("release", p, Untouched, uvm_hdl_release(p)) /\ UNCHANGED partsel

CallReleaseAndRead == \E p \in Paths :
  Returns("release_and_read", p, Untouched, uvm_hdl_release_and_read(p)) /\ UNCHANGED partsel

\* The caller has its results.
Take == alive /\ call # Idle /\ call' = Idle /\ UNCHANGED <<backend, obj, partsel, alive>>

\* The simulator stops, or runs on with its stack overwritten: of what follows
\* nothing is known.
Stop ==
  /\ alive /\ call = Idle
  /\ \E p \in Paths, op \in {"read", "deposit", "force", "release", "release_and_read"} :
       /\ Callable(p)
       /\ \/ backend = "Xcelium" /\ X!MayDie(obj, p, op)
          \/ Overrun(op, p)
  /\ alive' = FALSE
  /\ UNCHANGED <<backend, obj, partsel, call>>

Next ==
  \/ CallCheckPath \/ CallRead \/ CallDeposit \/ CallForce \/ CallRelease
  \/ CallReleaseAndRead
  \/ Take \/ Stop

Spec == Init /\ [][Next]_vars
-----------------------------------------------------------------------------
\* The object keeps its kind and its width, and only bits it has are forced.
TypeOK ==
  /\ backend \in {"VCS", "VCSMX", "Questa", "Xcelium"}
  /\ obj.kind \in Kinds /\ obj.size \in Sizes
  /\ obj.val \in [0..(obj.size - 1) -> Bits] /\ obj.forced \subseteq 0..(obj.size - 1)
  /\ partsel \in BOOLEAN /\ alive \in BOOLEAN
  /\ call # Idle =>
       /\ call.path \in Paths /\ call.ret \in {0, 1}
       /\ call.out \in [VecBits -> Bits] /\ call.arg \in Arguments \union {Untouched}

\* What the code of a backend is known not to do; the properties say that it
\* does everything else.
Digital(p, arg) == \A j \in VecBits : arg[j] \in IF j < Width(obj, p) THEN {"0", "1"} ELSE {"0"}
TooWide(p) == Width(obj, p) > MaxWidth
BitByBit == backend \in {"Questa", "Xcelium"}
\* Nobody asks whether the put or the get worked.
Unchecked == BitByBit /\ obj.kind \in {"locked", "unpacked"}
\* X and Z get lost, and digits above the width; Questa only deposits into
\* the bits it selects, and a single one from the position it has in the
\* object; it says yes to bits that do not exist.
VhdlWriteLoses(p, op, arg) ==
  /\ obj.kind = "vhdl"
  /\ \/ backend = "VCSMX" /\ ~Digital(p, arg)
     \/ /\ backend = "Questa" /\ p.sel # "whole"
        /\ p.sel = "bit" \/ op = "force" \/ ~Digital(p, arg) \/ ~Exists(obj, p)
\* The words of a wide VHDL vector are the wrong way round, and Questa turns
\* U into 0.
VhdlReadLoses(p) ==
  /\ obj.kind = "vhdl" /\ BitByBit
  /\ \/ Width(obj, p) > WordBits
     \/ backend = "Questa" /\ (~Exists(obj, p) \/ \E i \in Selected(obj, p) : obj.val[i] = "u")
\* release_and_read does not read at all, or the last bit of a slice.
ReleaseReadsNot(p) == ~BitByBit \/ (p.sel = "slice" /\ obj.kind # "vhdl")

Made(ops) == call = Idle /\ call'.op \in ops

\* A call touches no bit that its path does not select, in either direction
\* of a slice, and only a deposit or a force changes a value
\* (uvm_hdl_set_vlog_partsel, uvm_register_set_vhdl, uvm_hdl_set_mhdl).
OnlySelectedBits ==
  [][\A i \in DOMAIN obj.val :
       /\ obj'.val[i] # obj.val[i] =>
            Made({"deposit", "force"}) /\ i \in Selected(obj, call'.path)
       /\ (i \in obj'.forced) # (i \in obj.forced) =>
            /\ Made({"force", "release", "release_and_read"})
            /\ i \in Selected(obj, call'.path)]_vars

\* "Returns 1 if the call succeeded": every selected bit of the object has
\* the value the vector has for it, unless it is forced and only deposited;
\* after a force it is forced.  Not so, for no call returns, where Questa
\* writes to selected bits of a VHDL signal of ValueChars bits or more: the
\* string of the signal overruns vector_val (uvm_hdl_questa.c:535-537, 563-565).
DoneWhenTold ==
  [][Made({"deposit", "force"}) /\ call'.ret = 1 =>
       LET p == call'.path
       IN  \/ TooWide(p) \/ Unchecked \/ VhdlWriteLoses(p, call'.op, call'.arg)
           \/ \A j \in Steps(obj, p) :
                /\ Index(p, j) \in DOMAIN obj.val
                /\ \/ obj'.val[Index(p, j)] = call'.arg[j]
                   \/ call'.op = "deposit" /\ Index(p, j) \in obj.forced
                /\ call'.op = "force" => Index(p, j) \in obj'.forced]_vars

\* A write that fails has written the bits up to one that the object does
\* not have, and none beyond it; a slice that is all there does not fail half way.
PartialWriteIsPrefix ==
  [][Made({"deposit", "force"}) /\ call'.ret = 0 =>
       LET p == call'.path
       IN  \E n \in Steps(obj, p) :
             /\ n > 0 => Index(p, n) \notin DOMAIN obj.val
             /\ \A i \in DOMAIN obj.val :
                  \/ i \in {Index(p, j) : j \in 0..(n - 1)}
                  \/ obj'.val[i] = obj.val[i] /\ (i \in obj'.forced <=> i \in obj.forced)]_vars

\* A read that succeeds gives the selected bits of the object, the ones that
\* fit the vector (nobody compares the width of a slice with it); a VHDL slice
\* wider than SliceChars overruns reduced_vector in Questa instead
\* (uvm_hdl_questa.c:425-429).
ReadIsTrue ==
  [][Made({"read", "release_and_read"}) /\ call'.ret = 1 =>
       LET p == call'.path
       IN  \/ obj.kind = "unpacked" /\ BitByBit
           \/ VhdlReadLoses(p)
           \/ call'.op = "release_and_read" /\ ReleaseReadsNot(p)
           \/ \A j \in Steps(obj, p) \intersect VecBits :
                call'.out[j] = FourState(obj'.val[Index(p, j)])]_vars

\* Where the vector is cleared first, what a read does not fill is 0, but for
\* the last word: Questa's Verilog reads while no slice has failed, and
\* Xcelium's slices.
ClearedBeforeRead ==
  [][/\ Made({"read"}) /\ call'.ret = 1 /\ obj.kind \in {"vlog", "locked"}
     /\ \/ backend = "Questa" /\ ~partsel
        \/ backend = "Xcelium" /\ call'.path.sel = "slice"
     =>
       \A i \in VecBits : i >= Width(obj, call'.path) /\ i < MaxWidth - WordBits =>
         call'.out[i] = "0"]_vars

\* A path that check_path has found can be read, if it fits the vector and
\* Questa's reduced_vector; a path that can be read is found, unless it is a
\* slice that is taken apart.
CheckedPathReads ==
  call.op = "check_path" =>
    LET p == call.path
        reads == ~Overrun("read", p) /\ uvm_hdl_read(p).ret = 1
    IN  /\ call.ret = 1 => reads \/ TooWide(p) \/ Overrun("read", p) \/ obj.kind = "unpacked"
        /\ reads => call.ret = 1 \/ (BitByBit /\ p.sel = "slice")

\* The words uvm_polling_getValue32 gives are the value, with the bits above
\* its width 0 or, signed, the sign bit (uvm_hdl_polling.c:90-101).
ChunksExtend ==
  call = Idle => \A chunk \in 0..(Words(obj.size) - 1), signed \in BOOLEAN, k \in 0..(WordBits - 1) :
    LET i == chunk * WordBits + k
    IN  GetValue32(obj, signed, chunk)[k] =
          IF i < obj.size THEN obj.val[i] ELSE IF signed THEN obj.val[obj.size - 1] ELSE "0"
=============================================================================
