------------------------------ MODULE HdlProofs ------------------------------
(***************************************************************************)
(* Theorems about Hdl, for any widths, objects, paths and vectors: which   *)
(* bits a call touches, what a write that is said to be done has done,     *)
(* where one that fails has stopped, what a read gives, and how            *)
(* uvm_polling_getValue32 fills the words above an object.                 *)
(***************************************************************************)
EXTENDS Hdl, Induction

Flags == {"deposit", "force", "release"}
Vectors == Arguments \union {Untouched}

Values == UNION {[0..(n - 1) -> Bits] : n \in Sizes}
Objects == [kind : Kinds, size : Sizes, forced : SUBSET Int, val : Values]

\* Only a VHDL signal has a value besides 0, 1, X and Z.
IsObject(o) ==
  /\ o \in Objects
  /\ o.val \in [0..(o.size - 1) -> Bits] /\ o.forced \subseteq 0..(o.size - 1)
  /\ o.kind # "vhdl" => \A i \in 0..(o.size - 1) : o.val[i] # "u"

\* What is written is never "u".
Digits == Bits \ {"u"}

\* A path as the calls take one; release_and_read reads with one it has made.
WellFormed(p) ==
  /\ p \in [known : BOOLEAN, sel : {"whole", "bit", "slice"}, lhs : Nat, rhs : Nat]
  /\ p.sel = "bit" => p.lhs = p.rhs

\* A path to one bit has equal bounds.
LEMMA PathsWellFormed ==
  ASSUME NEW p \in Paths PROVE WellFormed(p)
BY HdlAssumption DEF WellFormed

\* n is o but for its bits S, and those have changed as the flag allows.
Within(o, S, flag, n) ==
  /\ IsObject(n) /\ n.kind = o.kind /\ n.size = o.size
  /\ \A i \in DOMAIN o.val :
       /\ n.val[i] # o.val[i] => flag \in {"deposit", "force"} /\ i \in S
       /\ (i \in n.forced) # (i \in o.forced) => flag \in {"force", "release"} /\ i \in S

\* An object that is left alone has changed nowhere.
LEMMA SameIsWithin ==
  ASSUME NEW o, IsObject(o), NEW S, NEW flag
  PROVE  Within(o, S, flag, o)
BY DEF Within

\* What has changed within some bits has changed within more.
LEMMA WiderIsWithin ==
  ASSUME NEW o, NEW n, NEW S, NEW T, S \subseteq T, NEW flag, Within(o, S, flag, n)
  PROVE  Within(o, T, flag, n)
BY DEF Within

\* The put routine changes the bits it is given.
LEMMA PutAtWithin ==
  ASSUME NEW o, IsObject(o), NEW S \in SUBSET DOMAIN o.val, NEW flag \in Flags, NEW b,
         flag # "release" => \A i \in S : b[i] \in Digits
  PROVE  Within(o, S, flag, PutAt(o, S, b, flag))
<1> DEFINE written == IF flag = "deposit" THEN S \ o.forced ELSE IF flag = "force" THEN S ELSE {}
           val == [i \in DOMAIN o.val |-> IF i \in written THEN b[i] ELSE o.val[i]]
           forced == IF flag = "force" THEN o.forced \union S
                     ELSE IF flag = "release" THEN o.forced \ S ELSE o.forced
<1> SUFFICES ASSUME NEW n, n = [o EXCEPT !.val = val, !.forced = forced]
             PROVE  Within(o, S, flag, n)
  BY DEF PutAt
<1>1. DOMAIN o.val = 0..(o.size - 1) /\ o.size \in Sizes /\ Sizes \subseteq Int
  BY HdlAssumption DEF IsObject, Objects
<1>2. val \in [0..(o.size - 1) -> Bits]
  <2>1. written # {} => flag # "release"
    BY DEF Flags
  <2> QED BY <1>1, <2>1 DEF IsObject, Flags, Digits
<1>6. o.kind # "vhdl" => \A i \in 0..(o.size - 1) : val[i] # "u"
  <2>1. written # {} => flag # "release"
    BY DEF Flags
  <2> QED BY <1>1, <2>1 DEF IsObject, Flags, Digits
<1>3. forced \subseteq 0..(o.size - 1)
  BY <1>1 DEF IsObject
<1>4. ASSUME NEW i \in DOMAIN o.val
      PROVE  /\ val[i] # o.val[i] => flag \in {"deposit", "force"} /\ i \in S
             /\ (i \in forced) # (i \in o.forced) => flag \in {"force", "release"} /\ i \in S
  BY DEF Flags
<1> HIDE DEF val, forced
<1>5. n \in Objects /\ n.kind = o.kind /\ n.size = o.size /\ n.val = val /\ n.forced = forced
  <2>1. val \in Values /\ forced \in SUBSET Int
    BY <1>1, <1>2, <1>3 DEF Values
  <2> QED BY <2>1 DEF IsObject, Objects
<1> QED BY <1>2, <1>3, <1>4, <1>5, <1>6 DEF Within, IsObject

\* vpi_put_value changes the bits it is given.
LEMMA VpiPutWithin ==
  ASSUME NEW o, IsObject(o), NEW S \in SUBSET DOMAIN o.val, NEW flag \in Flags, NEW b,
         flag # "release" => \A i \in S : b[i] \in Digits
  PROVE  Within(o, S, flag, VpiPut(o, S, b, flag))
BY PutAtWithin, SameIsWithin DEF VpiPut

\* A vector has a bit everywhere.
LEMMA VectorsHaveBits ==
  ASSUME NEW arg \in Vectors, NEW S, NEW p
  PROVE  /\ \A i \in S : BitsFor(S, p, arg)[i] \in Digits
         /\ \A j : ArgBit(arg, j) \in Digits
<1>1. arg \in [VecBits -> Digits]
  BY HdlAssumption DEF Vectors, Untouched, Digits, Bits, VecBits
<1>2. \A j : ArgBit(arg, j) \in Digits
  BY <1>1 DEF ArgBit, Digits, Bits
<1> QED BY <1>2 DEF BitsFor
-----------------------------------------------------------------------------
\* The loop over a slice touches bits of the object that are in the slice.
LEMMA PrefixIsSelected ==
  ASSUME NEW o, IsObject(o), NEW p, WellFormed(p)
  PROVE  {Index(p, j) : j \in FoundPrefix(o, p)} \in SUBSET (Selected(o, p) \intersect DOMAIN o.val)
<1> SUFFICES ASSUME NEW j \in FoundPrefix(o, p)
             PROVE  Index(p, j) \in Selected(o, p) /\ Index(p, j) \in DOMAIN o.val
  OBVIOUS
<1>1. /\ p.lhs \in Int /\ p.rhs \in Int /\ o.size \in Int
      /\ p \in [known : BOOLEAN, sel : {"whole", "bit", "slice"}, lhs : Nat, rhs : Nat]
  <2>1. o.size \in Sizes
    BY DEF IsObject, Objects
  <2>2. p \in [known : BOOLEAN, sel : {"whole", "bit", "slice"}, lhs : Nat, rhs : Nat]
    BY DEF WellFormed
  <2>3. o.size \in Int
    <3>1. Sizes \subseteq Int
      BY HdlAssumption
    <3> QED BY <2>1, <3>1
  <2>4. p.lhs \in Int /\ p.rhs \in Int
    BY <2>2
  <2> QED BY <2>2, <2>3, <2>4
<1>2. j \in Steps(o, p) /\ j \in 0..j
  BY <1>1 DEF FoundPrefix, Steps, Width, Down
<1>3. Index(p, j) \in Selected(o, p)
  BY <1>1, <1>2 DEF Index, Selected, Steps, Width, Down
<1>4. Index(p, j) \in Int
  BY <1>1, <1>2 DEF Index, Steps, Down
<1> DEFINE b == BitPath(p, Index(p, j))
<1>5. Exists(o, b)
  BY <1>2 DEF FoundPrefix, FoundWithoutSlices
<1>6. b.sel = "bit" /\ b.lhs = Index(p, j) /\ b.rhs = Index(p, j)
  BY <1>1 DEF BitPath
<1>7. Index(p, j) \in Selected(o, b)
  <2> HIDE DEF b
  <2> QED BY <1>4, <1>6 DEF Selected
<1> QED BY <1>3, <1>5, <1>7 DEF Exists

\* What a deposit may change, a force may.
LEMMA DepositIsForce ==
  ASSUME NEW o, NEW n, NEW S, Within(o, S, "deposit", n)
  PROVE  Within(o, S, "force", n)
BY DEF Within
-----------------------------------------------------------------------------
(* The three backends. *)

\* A write through MHPI or VPI of VCS changes the bits its path selects.
LEMMA VcsSet ==
  ASSUME NEW o, IsObject(o), NEW p \in Paths, NEW arg \in Vectors, NEW flag \in Flags, NEW mixed
  PROVE  Within(o, Selected(o, p), flag, V!Set(o, p, arg, flag, mixed).o)
<1> DEFINE S == Selected(o, p)
<1>1. CASE ~V!Found(o, p, mixed)
  <2>1. V!Set(o, p, arg, flag, mixed).o = o
    BY <1>1 DEF V!Set, V!Failed
  <2> QED BY <2>1, SameIsWithin
<1>2. CASE V!Found(o, p, mixed)
  <2>1. S \in SUBSET DOMAIN o.val
    BY <1>2 DEF V!Found, V!Exists, V!Selected, Selected
  <2>2. CASE o.kind = "vhdl"
    <3>1. PICK digit : /\ V!set_mhdl(o, p, arg, flag).o = PutAt(o, S, digit, flag)
                       /\ \A i \in S : digit[i] \in Digits
      <4>1. \A b : V!btoi(b) \in Digits
        BY DEF V!btoi, Digits, Bits
      <4> DEFINE top == (V!Words(V!Width(o, p)) - 1) * WordBits
                 excess == {i - V!Width(o, p) + 1 : i \in {k \in V!Width(o, p)..(top + WordBits - 1) :
                                                     V!btoi(V!ArgBit(arg, k)) = "1"}}
                 shift == IF excess = {} THEN 0 ELSE CHOOSE s \in excess : \A t \in excess : t <= s
                 digit == [i \in S |->
                             LET j == V!Position(p, i)
                             IN  V!btoi(V!ArgBit(arg, IF j >= top THEN j + shift ELSE j))]
      <4>2. V!set_mhdl(o, p, arg, flag).o = PutAt(o, S, digit, flag)
        BY DEF V!set_mhdl, V!Wrote, V!PutAt, PutAt, V!Selected, Selected
      <4>3. \A i \in S : digit[i] \in Digits
        BY <4>1
      <4> QED BY <4>2, <4>3
    <3>2. V!Set(o, p, arg, flag, mixed).o = PutAt(o, S, digit, flag)
      BY <1>2, <2>2, <3>1 DEF V!Set
    <3> QED BY <2>1, <3>1, <3>2, PutAtWithin
  <2>3. CASE o.kind # "vhdl"
    <3>1. V!set_vlog(o, p, arg, flag).o \in {o, VpiPut(o, S, BitsFor(S, p, arg), flag)}
      BY DEF V!set_vlog, V!Wrote, V!Failed, V!VpiPut, VpiPut, V!PutAt, PutAt, V!Selected,
             Selected, V!BitsFor, BitsFor, V!ArgBit, ArgBit, V!Position, Position, V!VecBits, VecBits,
             V!Down, Down
    <3>2. V!Set(o, p, arg, flag, mixed).o = V!set_vlog(o, p, arg, flag).o
      BY <1>2, <2>3 DEF V!Set
    <3> QED BY <2>1, <3>1, <3>2, VpiPutWithin, SameIsWithin, VectorsHaveBits
  <2> QED BY <2>2, <2>3
<1> QED BY <1>1, <1>2

\* A read and a check there change nothing.
LEMMA VcsReadKeeps ==
  ASSUME NEW o, NEW p, NEW mixed
  PROVE  V!read(o, p, mixed).o = o /\ V!check_path(o, p, mixed).o = o
BY DEF V!read, V!check_path, V!Failed, V!Gave, V!get_mhdl, V!get_vlog

\* A release there changes the bits its path selects.
LEMMA VcsRelease ==
  ASSUME NEW o, IsObject(o), NEW p \in Paths, NEW mixed
  PROVE  /\ Within(o, Selected(o, p), "release", V!release(o, p, mixed).o)
         /\ Within(o, Selected(o, p), "release", V!release_and_read(o, p, mixed).o)
<1>1. Within(o, Selected(o, p), "release", V!Set(o, p, V!Untouched, "release", mixed).o)
  BY VcsSet DEF Vectors, Flags, V!Untouched, Untouched, V!VecBits, VecBits
<1>2. ASSUME V!Found(o, p, mixed)
      PROVE  Within(o, Selected(o, p), "release", V!mhpi_release_force(o, p).o)
  <2>1. Selected(o, p) \in SUBSET DOMAIN o.val
    BY <1>2 DEF V!Found, V!Exists, V!Selected, Selected
  <2>2. V!mhpi_release_force(o, p).o = PutAt(o, Selected(o, p), V!Untouched, "release")
    BY DEF V!mhpi_release_force, V!Wrote, V!PutAt, PutAt, V!Selected, Selected
  <2> QED BY <2>1, <2>2, PutAtWithin DEF Flags
<1> QED BY <1>1, <1>2 DEF V!release, V!release_and_read

\* A write through VPI or FLI of Questa changes the bits its path selects.
LEMMA QuestaSet ==
  ASSUME NEW o, IsObject(o), NEW p \in Paths, NEW arg \in Vectors, NEW flag \in Flags
  PROVE  Within(o, Selected(o, p), flag, Q!Set(o, p, arg, flag).o)
<1> DEFINE S == Selected(o, p)
           ours == S \intersect DOMAIN o.val
           done == {Index(p, j) : j \in FoundPrefix(o, p)}
<1>1. CASE Q!uvm_is_vhdl_path(o, p)
  <2> DEFINE bit(i) == ArgBit(arg, IF p.sel = "bit" THEN i ELSE Position(p, i))
             digit == [i \in ours |-> IF bit(i) = "1" THEN "1" ELSE "0"]
             whole == [i \in ours |-> ArgBit(arg, i)]
             kept == IF flag = "release" THEN flag ELSE "deposit"
  <2>1. Q!register_set_vhdl(o, p, arg, flag).o \in
          {PutAt(o, ours, whole, flag), PutAt(o, ours, digit, kept)}
    BY DEF Q!register_set_vhdl, Q!Wrote, Q!PutAt, PutAt, Q!Selected, Selected, Q!ArgBit, ArgBit,
           Q!Position, Position, Q!VecBits, VecBits, Q!Down, Down
  <2>2. Within(o, ours, flag, PutAt(o, ours, whole, flag))
    <3>1. \A i \in ours : whole[i] \in Digits
      BY VectorsHaveBits
    <3> QED BY <3>1, PutAtWithin
  <2>3. Within(o, ours, flag, PutAt(o, ours, digit, kept))
    <3>1. \A i \in ours : digit[i] \in Digits
      BY DEF Digits, Bits
    <3>2. kept \in Flags
      BY DEF Flags
    <3>3. Within(o, ours, kept, PutAt(o, ours, digit, kept))
      BY <3>1, <3>2, PutAtWithin
    <3> QED BY <3>3, DepositIsForce DEF Flags
  <2>4. Q!Set(o, p, arg, flag).o = Q!register_set_vhdl(o, p, arg, flag).o
    BY <1>1 DEF Q!Set
  <2> QED BY <2>1, <2>2, <2>3, <2>4, WiderIsWithin
<1>2. CASE ~Q!uvm_is_vhdl_path(o, p)
  <2>1. Q!Set(o, p, arg, flag).o = Q!set_vlog(o, p, arg, flag).o
    BY <1>2 DEF Q!Set
  <2>2. CASE p.sel = "slice"
    <3>1. Q!set_vlog_partsel(o, p, arg, flag).o = VpiPut(o, done, BitsFor(done, p, arg), flag)
      BY DEF Q!set_vlog_partsel, Q!Wrote, Q!Failed, Q!VpiPut, VpiPut, Q!PutAt, PutAt,
             Q!BitsFor, BitsFor, Q!ArgBit, ArgBit, Q!Position, Position, Q!VecBits, VecBits,
             Q!Down, Down, Q!Index, Index, Q!FoundPrefix, FoundPrefix, Q!Steps, Steps,
             Q!Width, Width, Q!FoundWithoutSlices, FoundWithoutSlices, Q!Exists, Exists,
             Q!BitPath, BitPath, Q!Selected, Selected
    <3>2. done \in SUBSET DOMAIN o.val /\ done \subseteq S
      BY PrefixIsSelected, PathsWellFormed
    <3> QED BY <2>1, <2>2, <3>1, <3>2, VpiPutWithin, VectorsHaveBits, WiderIsWithin DEF Q!set_vlog
  <2>3. CASE p.sel # "slice" /\ Q!FoundWithoutSlices(o, p)
    <3>1. S \in SUBSET DOMAIN o.val
      BY <2>3 DEF Q!FoundWithoutSlices, Q!Exists, Q!Selected, Selected
    <3>2. Q!set_vlog(o, p, arg, flag).o = VpiPut(o, S, BitsFor(S, p, arg), flag)
      BY <2>3 DEF Q!set_vlog, Q!Wrote, Q!VpiPut, VpiPut, Q!PutAt, PutAt, Q!Selected,
             Selected, Q!BitsFor, BitsFor, Q!ArgBit, ArgBit, Q!Position, Position, Q!VecBits,
             VecBits, Q!Down, Down
    <3> QED BY <2>1, <3>1, <3>2, VpiPutWithin, VectorsHaveBits
  <2>4. CASE p.sel # "slice" /\ ~Q!FoundWithoutSlices(o, p)
    <3>1. Q!set_vlog(o, p, arg, flag).o = o
      BY <2>4 DEF Q!set_vlog, Q!Failed
    <3> QED BY <2>1, <3>1, SameIsWithin
  <2> QED BY <2>2, <2>3, <2>4
<1> QED BY <1>1, <1>2

\* A read and a check there change nothing.
LEMMA QuestaReadKeeps ==
  ASSUME NEW o, NEW p, NEW flag
  PROVE  Q!read(o, p, flag).o = o /\ Q!check_path(o, p).o = o
BY DEF Q!read, Q!check_path, Q!Failed, Q!Gave, Q!register_get_vhdl, Q!get_vlog,
       Q!get_vlog_partsel

\* A release there changes the bits its path selects.
LEMMA QuestaRelease ==
  ASSUME NEW o, IsObject(o), NEW p \in Paths, NEW up
  PROVE  /\ Within(o, Selected(o, p), "release", Q!release(o, p).o)
         /\ Within(o, Selected(o, p), "release", Q!release_and_read(o, p, up).o)
<1>1. Within(o, Selected(o, p), "release", Q!release(o, p).o)
  BY QuestaSet DEF Q!release, Vectors, Flags, Q!Untouched, Untouched, Q!VecBits, VecBits
<1>2. Q!release_and_read(o, p, up).o = Q!release(o, p).o
  BY QuestaReadKeeps DEF Q!release_and_read
<1> QED BY <1>1, <1>2

\* A write through VPI or VHPI of Xcelium changes the bits its path selects.
LEMMA XceliumSet ==
  ASSUME NEW o, IsObject(o), NEW p \in Paths, NEW arg \in Vectors, NEW flag \in Flags
  PROVE  Within(o, Selected(o, p), flag, X!Set(o, p, arg, flag).o)
<1> DEFINE S == Selected(o, p)
           done == {Index(p, j) : j \in FoundPrefix(o, p)}
<1>1. CASE p.sel = "slice"
  <2>1. X!set_vlog_partsel(o, p, arg, flag).o = VpiPut(o, done, BitsFor(done, p, arg), flag)
    BY DEF X!set_vlog_partsel, X!Wrote, X!Failed, X!VpiPut, VpiPut, X!PutAt, PutAt,
           X!BitsFor, BitsFor, X!ArgBit, ArgBit, X!Position, Position, X!VecBits, VecBits,
           X!Down, Down, X!Index, Index, X!FoundPrefix, FoundPrefix, X!Steps, Steps,
           X!Width, Width, X!FoundWithoutSlices, FoundWithoutSlices, X!Exists, Exists,
           X!BitPath, BitPath, X!Selected, Selected
  <2>2. done \in SUBSET DOMAIN o.val /\ done \subseteq S
    BY PrefixIsSelected, PathsWellFormed
  <2> QED BY <1>1, <2>1, <2>2, VpiPutWithin, VectorsHaveBits, WiderIsWithin DEF X!Set
<1>2. CASE p.sel # "slice" /\ X!IsVhdl(o, p)
  <2>1. S \in SUBSET DOMAIN o.val
    BY <1>2 DEF X!IsVhdl, X!Exists, X!Selected, Selected
  <2>2. X!Set(o, p, arg, flag).o = PutAt(o, S, BitsFor(S, p, arg), flag)
    BY <1>2 DEF X!Set, X!set_vhdl, X!Wrote, X!PutAt, PutAt, X!Selected,
           Selected, X!BitsFor, BitsFor, X!ArgBit, ArgBit, X!Position, Position, X!VecBits,
           VecBits, X!Down, Down
  <2> QED BY <2>1, <2>2, PutAtWithin, VectorsHaveBits
<1>3. CASE p.sel # "slice" /\ ~X!IsVhdl(o, p) /\ X!FoundWithoutSlices(o, p)
  <2>1. S \in SUBSET DOMAIN o.val
    BY <1>3 DEF X!FoundWithoutSlices, X!Exists, X!Selected, Selected
  <2>2. X!Set(o, p, arg, flag).o = VpiPut(o, S, BitsFor(S, p, arg), flag)
    BY <1>3 DEF X!Set, X!set_vlog, X!Wrote, X!VpiPut, VpiPut, X!PutAt, PutAt, X!Selected,
           Selected, X!BitsFor, BitsFor, X!ArgBit, ArgBit, X!Position, Position, X!VecBits,
           VecBits, X!Down, Down
  <2> QED BY <2>1, <2>2, VpiPutWithin, VectorsHaveBits
<1>4. CASE p.sel # "slice" /\ ~X!IsVhdl(o, p) /\ ~X!FoundWithoutSlices(o, p)
  <2>1. X!Set(o, p, arg, flag).o = o
    BY <1>4 DEF X!Set, X!set_vlog, X!Failed
  <2> QED BY <2>1, SameIsWithin
<1> QED BY <1>1, <1>2, <1>3, <1>4

\* A read and a check there change nothing.
LEMMA XceliumReadKeeps ==
  ASSUME NEW o, NEW p
  PROVE  X!read(o, p).o = o /\ X!check_path(o, p).o = o
BY DEF X!read, X!check_path, X!Failed, X!Gave, X!get_vhdl, X!get_vlog, X!get_vlog_partsel

\* A release there changes the bits its path selects.
LEMMA XceliumRelease ==
  ASSUME NEW o, IsObject(o), NEW p \in Paths
  PROVE  /\ Within(o, Selected(o, p), "release", X!release(o, p).o)
         /\ Within(o, Selected(o, p), "release", X!release_and_read(o, p).o)
<1>1. Within(o, Selected(o, p), "release", X!release(o, p).o)
  BY XceliumSet DEF X!release, Vectors, Flags, X!Untouched, Untouched, X!VecBits, VecBits
<1>2. X!release_and_read(o, p).o = X!release(o, p).o
  BY XceliumReadKeeps DEF X!release_and_read, X!Failed
<1> QED BY <1>1, <1>2
-----------------------------------------------------------------------------
(* The calls of Hdl. *)

IsObj == IsObject(obj)

\* What an action does to the object.
ChangesOnlySelected ==
  \A i \in DOMAIN obj.val :
    /\ obj'.val[i] # obj.val[i] =>
         Made({"deposit", "force"}) /\ i \in Selected(obj, call'.path)
    /\ (i \in obj'.forced) # (i \in obj.forced) =>
         /\ Made({"force", "release", "release_and_read"})
         /\ i \in Selected(obj, call'.path)

\* The object is one at the start.
LEMMA InitIsObj == Init => IsObj
<1> SUFFICES ASSUME Init PROVE IsObject(obj)
  BY DEF IsObj
<1>1. PICK k \in Kinds, n \in Sizes :
        obj = [kind |-> k, size |-> n, forced |-> {},
               val |-> [i \in 0..(n - 1) |-> IF k = "vhdl" THEN "u" ELSE "x"]]
  BY DEF Init
<1> DEFINE v == [i \in 0..(n - 1) |-> IF k = "vhdl" THEN "u" ELSE "x"]
<1>2. /\ v \in [0..(n - 1) -> Bits]
      /\ k # "vhdl" => \A i \in 0..(n - 1) : v[i] # "u"
  BY DEF Bits
<1> HIDE DEF v
<1>3. obj = [kind |-> k, size |-> n, forced |-> {}, val |-> v]
  BY <1>1 DEF v
<1>4. v \in Values
  BY <1>2 DEF Values
<1> QED BY <1>2, <1>3, <1>4 DEF IsObject, Objects

\* A call that changes the object within its selected bits, as its operation
\* allows.
LEMMA CallWithin ==
  ASSUME NEW op, NEW p, NEW arg, NEW r, NEW flag, Returns(op, p, arg, r),
         Within(obj, Selected(obj, p), flag, r.o),
         \/ op \in {"deposit", "force"} /\ flag = op
         \/ op \in {"release", "release_and_read"} /\ flag = "release"
  PROVE  IsObj' /\ ChangesOnlySelected
<1>1. /\ obj' = r.o /\ call = Idle /\ call'.op = op /\ call'.path = p
  BY DEF Returns
<1> QED BY <1>1 DEF IsObj, ChangesOnlySelected, Within, Made

\* A call that leaves the object alone changes what is selected only.
LEMMA NoChange ==
  ASSUME IsObj, obj' = obj
  PROVE  IsObj' /\ ChangesOnlySelected
BY DEF IsObj, ChangesOnlySelected

\* Every call leaves an object, changed only where its path selects.
LEMMA NextOnlySelected ==
  ASSUME IsObj, [Next]_vars
  PROVE  IsObj' /\ ChangesOnlySelected
<1> USE DEF IsObj
<1>1. CASE CallCheckPath
  <2>1. \A p : uvm_hdl_check_path(p).o = obj
    BY VcsReadKeeps, QuestaReadKeeps, XceliumReadKeeps DEF uvm_hdl_check_path
  <2>2. obj' = obj
    BY <1>1, <2>1 DEF CallCheckPath, Returns
  <2> QED BY <2>2, NoChange
<1>2. CASE CallRead
  <2>1. \A p : uvm_hdl_read(p).o = obj
    BY VcsReadKeeps, QuestaReadKeeps, XceliumReadKeeps DEF uvm_hdl_read
  <2>2. obj' = obj
    BY <1>2, <2>1 DEF CallRead, Returns
  <2> QED BY <2>2, NoChange
<1>3. CASE CallDeposit
  <2>1. PICK p \in Paths, arg \in Arguments : Returns("deposit", p, arg, uvm_hdl_deposit(p, arg))
    BY <1>3 DEF CallDeposit
  <2>2. Within(obj, Selected(obj, p), "deposit", uvm_hdl_deposit(p, arg).o)
    BY VcsSet, QuestaSet, XceliumSet DEF uvm_hdl_deposit, V!deposit, Q!deposit, X!deposit, Vectors, Flags
  <2> QED BY <2>1, <2>2, CallWithin
<1>4. CASE CallForce
  <2>1. PICK p \in Paths, arg \in Arguments : Returns("force", p, arg, uvm_hdl_force(p, arg))
    BY <1>4 DEF CallForce
  <2>2. Within(obj, Selected(obj, p), "force", uvm_hdl_force(p, arg).o)
    BY VcsSet, QuestaSet, XceliumSet DEF uvm_hdl_force, V!force, Q!force, X!force, Vectors, Flags
  <2> QED BY <2>1, <2>2, CallWithin
<1>5. CASE CallRelease
  <2>1. PICK p \in Paths : Returns("release", p, Untouched, uvm_hdl_release(p))
    BY <1>5 DEF CallRelease
  <2>2. Within(obj, Selected(obj, p), "release", uvm_hdl_release(p).o)
    BY VcsRelease, QuestaRelease, XceliumRelease DEF uvm_hdl_release
  <2> QED BY <2>1, <2>2, CallWithin
<1>6. CASE CallReleaseAndRead
  <2>1. PICK p \in Paths : Returns("release_and_read", p, Untouched, uvm_hdl_release_and_read(p))
    BY <1>6 DEF CallReleaseAndRead
  <2>2. Within(obj, Selected(obj, p), "release", uvm_hdl_release_and_read(p).o)
    BY VcsRelease, QuestaRelease, XceliumRelease DEF uvm_hdl_release_and_read
  <2> QED BY <2>1, <2>2, CallWithin
<1>7. CASE Take \/ Stop \/ UNCHANGED vars
  BY <1>7, NoChange DEF Take, Stop, vars
<1> QED BY <1>1, <1>2, <1>3, <1>4, <1>5, <1>6, <1>7 DEF Next

\* The object keeps its kind and width, its bits are values ("u" in a VHDL signal
\* only), and only bits it has are forced.
THEOREM ObjectTypeCorrect == Spec => []IsObj
BY InitIsObj, NextOnlySelected, PTL DEF Spec

\* A call touches no bit that its path does not select, whatever the backend,
\* the width, the path and the vector (uvm_hdl_set_vlog_partsel,
\* uvm_register_set_vhdl, uvm_hdl_set_mhdl).
THEOREM OnlySelected == Spec => OnlySelectedBits
<1>1. IsObj /\ [Next]_vars => [ChangesOnlySelected]_vars
  BY NextOnlySelected
<1>2. Spec => [][ChangesOnlySelected]_vars
  BY <1>1, ObjectTypeCorrect, PTL DEF Spec
<1> QED BY <1>2 DEF OnlySelectedBits, ChangesOnlySelected

-----------------------------------------------------------------------------
(* What the calls return. *)

\* An object has bits, numbered from 0.
LEMMA SizeTyped ==
  ASSUME NEW o, IsObject(o)
  PROVE  o.size \in Nat \ {0} /\ DOMAIN o.val = 0..(o.size - 1)
<1>1. o.size \in Sizes
  BY DEF IsObject, Objects
<1> QED BY <1>1, HdlAssumption DEF IsObject

\* A vector has bits, numbered from 0, in words.
LEMMA VectorTyped ==
  /\ MaxWidth \in Nat \ {0} /\ WordBits \in Nat \ {0} /\ WordBits <= MaxWidth
  /\ VecBits = 0..(MaxWidth - 1)
<1>1. MaxWidth \in Nat \ {0} /\ WordBits \in Nat \ {0} /\ MaxWidth % WordBits = 0
  BY HdlAssumption
<1>2. \A m \in Nat \ {0}, w \in Nat \ {0} : m < w => m % w = m
  OBVIOUS
<1>3. WordBits <= MaxWidth
  BY <1>1, <1>2
<1> QED BY <1>1, <1>3 DEF VecBits

\* Bit j of the vector is bit Index of the object, whichever way a slice is
\* written, and Position is its inverse.
LEMMA StepsAndBits ==
  ASSUME NEW o, IsObject(o), NEW p, WellFormed(p)
  PROVE  /\ Width(o, p) \in Nat \ {0} /\ Steps(o, p) = 0..(Width(o, p) - 1)
         /\ \A j \in Steps(o, p) :
              /\ Index(p, j) \in Nat /\ Index(p, j) \in Selected(o, p)
              /\ Position(p, Index(p, j)) = j
         /\ \A i \in Selected(o, p) : Position(p, i) \in Steps(o, p) /\ Index(p, Position(p, i)) = i
         /\ p.sel = "bit" => Selected(o, p) = {p.lhs} /\ Width(o, p) = 1
<1>1. p.lhs \in Nat /\ p.rhs \in Nat /\ (p.sel = "bit" => p.lhs = p.rhs)
  BY DEF WellFormed
<1>2. o.size \in Nat \ {0}
  BY SizeTyped
<1>3. Width(o, p) \in Nat \ {0} /\ Steps(o, p) = 0..(Width(o, p) - 1)
  BY <1>1, <1>2 DEF Width, Steps, Down
<1>4. ASSUME NEW j \in Steps(o, p)
      PROVE  /\ Index(p, j) \in Nat /\ Index(p, j) \in Selected(o, p)
             /\ Position(p, Index(p, j)) = j
  <2>1. CASE p.sel = "whole"
    BY <1>1, <1>2, <2>1 DEF Index, Position, Selected, Steps, Width, Down
  <2>2. CASE p.sel # "whole" /\ Down(p)
    BY <1>1, <1>2, <2>2 DEF Index, Position, Selected, Steps, Width, Down
  <2>3. CASE p.sel # "whole" /\ ~Down(p)
    BY <1>1, <1>2, <2>3 DEF Index, Position, Selected, Steps, Width, Down
  <2> QED BY <2>1, <2>2, <2>3
<1>5. ASSUME NEW i \in Selected(o, p)
      PROVE  Position(p, i) \in Steps(o, p) /\ Index(p, Position(p, i)) = i
  BY <1>1, <1>2 DEF Index, Position, Selected, Steps, Width, Down
<1>6. p.sel = "bit" => Selected(o, p) = {p.lhs} /\ Width(o, p) = 1
  BY <1>1 DEF Selected, Width, Down
<1> QED BY <1>3, <1>4, <1>5, <1>6

\* The loop over a slice stops at the first bit the object does not have.
LEMMA LoopStops ==
  ASSUME NEW o, IsObject(o), NEW p, WellFormed(p), p.sel = "slice"
  PROVE  /\ AllFound(o, p) =>
              o.kind # "vhdl" /\ \A j \in Steps(o, p) : Index(p, j) \in DOMAIN o.val
         /\ ~AllFound(o, p) =>
              \E n \in Steps(o, p) :
                /\ n > 0 => Index(p, n) \notin DOMAIN o.val
                /\ FoundPrefix(o, p) = 0..(n - 1)
<1> DEFINE Has(j) == p.known /\ o.kind # "vhdl" /\ Index(p, j) \in DOMAIN o.val
<1>1. /\ p.lhs \in Nat /\ p.rhs \in Nat /\ p.known \in BOOLEAN
      /\ p \in [known : BOOLEAN, sel : {"whole", "bit", "slice"}, lhs : Nat, rhs : Nat]
  BY DEF WellFormed
<1>2. o.size \in Nat \ {0} /\ DOMAIN o.val = 0..(o.size - 1)
  BY SizeTyped
<1>3. ASSUME NEW j \in Steps(o, p)
      PROVE  FoundWithoutSlices(o, BitPath(p, Index(p, j))) <=> Has(j)
  <2> DEFINE b == BitPath(p, Index(p, j))
  <2>1. Index(p, j) \in Nat
    BY StepsAndBits
  <2>2. b.sel = "bit" /\ b.lhs = Index(p, j) /\ b.rhs = Index(p, j) /\ b.known = p.known
    BY <1>1 DEF BitPath
  <2>3. Selected(o, b) = {Index(p, j)}
    <3> HIDE DEF b
    <3> QED BY <2>1, <2>2 DEF Selected
  <2>4. FoundWithoutSlices(o, b) <=> o.kind # "vhdl" /\ b.known /\ Index(p, j) \in DOMAIN o.val
    <3> HIDE DEF b
    <3> QED BY <2>2, <2>3 DEF FoundWithoutSlices, Exists
  <2> QED BY <2>2, <2>4
<1>4. Steps(o, p) = 0..(Width(o, p) - 1) /\ Width(o, p) \in Nat \ {0}
  BY StepsAndBits
<1>5. FoundPrefix(o, p) = {j \in Steps(o, p) : \A k \in 0..j : Has(k)}
  <2>1. \A j \in Steps(o, p) : 0..j \subseteq Steps(o, p)
    BY <1>4
  <2> HIDE DEF Has
  <2> QED BY <1>3, <2>1 DEF FoundPrefix
<1>6. ASSUME AllFound(o, p)
      PROVE  o.kind # "vhdl" /\ \A j \in Steps(o, p) : Index(p, j) \in DOMAIN o.val
  <2>1. \A j \in Steps(o, p) : j \in 0..j
    BY <1>4
  <2>2. \A j \in Steps(o, p) : Has(j)
    BY <1>5, <1>6, <2>1 DEF AllFound
  <2>3. 0 \in Steps(o, p)
    BY <1>4
  <2> QED BY <2>2, <2>3
<1>7. ASSUME ~AllFound(o, p)
      PROVE  \E n \in Steps(o, p) : /\ n > 0 => Index(p, n) \notin DOMAIN o.val
                                    /\ FoundPrefix(o, p) = 0..(n - 1)
  <2>1. CASE ~Has(0)
    <3>1. \A j \in Steps(o, p) : 0 \in 0..j
      BY <1>4
    <3>2. FoundPrefix(o, p) = {}
      BY <1>5, <2>1, <3>1
    <3>3. 0 \in Steps(o, p) /\ 0..(0 - 1) = {}
      BY <1>4
    <3> QED BY <3>2, <3>3
  <2>2. CASE Has(0) /\ Down(p)
    <3> DEFINE n == o.size - p.rhs
    <3>1. \A j \in Nat : Has(j) <=> j < n
      BY <1>1, <1>2, <2>2 DEF Index, Down
    <3>2. FoundPrefix(o, p) = {j \in Steps(o, p) : j < n}
      <4>1. \A j \in Steps(o, p) : j \in Nat /\ ((\A k \in 0..j : k < n) <=> j < n)
        BY <1>1, <1>2, <1>4
      <4> HIDE DEF Has, n
      <4> QED BY <1>4, <1>5, <3>1, <4>1
    <3>3. n \in Int /\ n > 0
      BY <1>1, <1>2, <2>2, <3>1
    <3>4. n \in Steps(o, p)
      <4> HIDE DEF n
      <4> QED BY <1>4, <1>7, <3>2, <3>3 DEF AllFound
    <3>5. Index(p, n) \notin DOMAIN o.val
      BY <1>1, <1>2, <2>2 DEF Index, Down
    <3>6. FoundPrefix(o, p) = 0..(n - 1)
      <4> HIDE DEF n
      <4> QED BY <1>4, <3>2, <3>3, <3>4
    <3> QED BY <3>4, <3>5, <3>6
  <2>3. CASE Has(0) /\ ~Down(p)
    <3>1. \A j \in Steps(o, p) : \A k \in 0..j : Has(k)
      BY <1>1, <1>2, <2>3 DEF Index, Steps, Width, Down
    <3> QED BY <1>5, <1>7, <3>1 DEF AllFound
  <2> QED BY <2>1, <2>2, <2>3
<1> QED BY <1>6, <1>7
-----------------------------------------------------------------------------
(* Writes. *)

Writes == {"deposit", "force"}

\* Every selected bit has the value the vector has for it, or is forced and was
\* only deposited; after a force it is forced.
Done(o, p, arg, flag, n) ==
  \A j \in Steps(o, p) :
    /\ Index(p, j) \in DOMAIN o.val
    /\ n.val[Index(p, j)] = arg[j] \/ (flag = "deposit" /\ Index(p, j) \in o.forced)
    /\ flag = "force" => Index(p, j) \in n.forced

\* The bits up to one that the object does not have may have changed.
Stopped(o, p, n) ==
  \E m \in Steps(o, p) :
    /\ m > 0 => Index(p, m) \notin DOMAIN o.val
    /\ \A i \in DOMAIN o.val :
         \/ i \in {Index(p, j) : j \in 0..(m - 1)}
         \/ n.val[i] = o.val[i] /\ (i \in n.forced <=> i \in o.forced)

DigitalFor(o, p, arg) ==
  \A j \in VecBits : arg[j] \in IF j < Width(o, p) THEN {"0", "1"} ELSE {"0"}

\* After a write the bits it is given have their values, but for a deposit on
\* bits that are forced.
LEMMA PutAtWrites ==
  ASSUME NEW o, IsObject(o), NEW S \in SUBSET DOMAIN o.val, NEW flag \in Writes, NEW b
  PROVE  \A i \in S : /\ PutAt(o, S, b, flag).val[i] = b[i] \/ (flag = "deposit" /\ i \in o.forced)
                      /\ flag = "force" => i \in PutAt(o, S, b, flag).forced
<1> DEFINE written == IF flag = "deposit" THEN S \ o.forced ELSE IF flag = "force" THEN S ELSE {}
           val == [i \in DOMAIN o.val |-> IF i \in written THEN b[i] ELSE o.val[i]]
           forced == IF flag = "force" THEN o.forced \union S
                     ELSE IF flag = "release" THEN o.forced \ S ELSE o.forced
<1> SUFFICES ASSUME NEW n, n = [o EXCEPT !.val = val, !.forced = forced], NEW i \in S
             PROVE  /\ n.val[i] = b[i] \/ (flag = "deposit" /\ i \in o.forced)
                    /\ flag = "force" => i \in n.forced
  BY DEF PutAt
<1>1. /\ val[i] = b[i] \/ (flag = "deposit" /\ i \in o.forced)
      /\ flag = "force" => i \in forced
  BY DEF Writes
<1> HIDE DEF val, forced
<1>2. n.val = val /\ n.forced = forced
  BY DEF IsObject, Objects
<1> QED BY <1>1, <1>2

\* A put of bits that say what the vector says does what it is told.
LEMMA PutDoes ==
  ASSUME NEW o, IsObject(o), NEW p, WellFormed(p), NEW arg, NEW flag \in Writes,
         NEW S, S = Selected(o, p), S \subseteq DOMAIN o.val,
         NEW b, \A i \in S : b[i] = arg[Position(p, i)]
  PROVE  Done(o, p, arg, flag, PutAt(o, S, b, flag))
<1> SUFFICES ASSUME NEW j \in Steps(o, p)
             PROVE  LET i == Index(p, j)  n == PutAt(o, S, b, flag)
                    IN  /\ i \in DOMAIN o.val
                        /\ n.val[i] = arg[j] \/ (flag = "deposit" /\ i \in o.forced)
                        /\ flag = "force" => i \in n.forced
  BY DEF Done
<1>1. Index(p, j) \in S /\ Position(p, Index(p, j)) = j
  BY StepsAndBits
<1> QED BY <1>1, PutAtWrites

\* The bits of a vector are in it while the object fits.
LEMMA BitsFit ==
  ASSUME NEW o, IsObject(o), NEW p, WellFormed(p), Width(o, p) <= MaxWidth, NEW arg
  PROVE  /\ \A j \in Steps(o, p) : ArgBit(arg, j) = arg[j]
         /\ \A i \in Selected(o, p) : BitsFor(Selected(o, p), p, arg)[i] = arg[Position(p, i)]
<1>1. \A j \in Steps(o, p) : j \in VecBits
  BY StepsAndBits, VectorTyped
<1>2. \A i \in Selected(o, p) : Position(p, i) \in Steps(o, p)
  BY StepsAndBits
<1> QED BY <1>1, <1>2 DEF ArgBit, BitsFor

\* A write that changes nothing has stopped at once.
LEMMA SameIsStopped ==
  ASSUME NEW o, IsObject(o), NEW p, WellFormed(p)
  PROVE  Stopped(o, p, o)
<1>1. 0 \in Steps(o, p) /\ 0..(0 - 1) = {}
  BY StepsAndBits
<1> QED BY <1>1 DEF Stopped

\* The loop over a slice: all of it is written, or the bits before one that is
\* not there.
LEMMA SliceWrites ==
  ASSUME NEW o, IsObject(o), NEW p \in Paths, p.sel = "slice", NEW arg \in Vectors,
         NEW flag \in Writes, NEW done, done = {Index(p, j) : j \in FoundPrefix(o, p)},
         NEW n, n = VpiPut(o, done, BitsFor(done, p, arg), flag)
  PROVE  /\ AllFound(o, p) /\ o.kind = "vlog" /\ Width(o, p) <= MaxWidth
              => Done(o, p, arg, flag, n)
         /\ AllFound(o, p) => o.kind # "vhdl"
         /\ ~AllFound(o, p) => Stopped(o, p, n)
<1>0. WellFormed(p)
  BY PathsWellFormed
<1>1. CASE AllFound(o, p)
  <2>1. done = Selected(o, p)
    BY <1>0, <1>1, StepsAndBits DEF AllFound
  <2>2. done \subseteq DOMAIN o.val
    BY PrefixIsSelected, PathsWellFormed
  <2>3. ASSUME o.kind = "vlog", Width(o, p) <= MaxWidth PROVE Done(o, p, arg, flag, n)
    <3>1. n = PutAt(o, done, BitsFor(done, p, arg), flag)
      BY <2>3 DEF VpiPut
    <3> DEFINE S == Selected(o, p)
    <3>2. \A i \in S : BitsFor(S, p, arg)[i] = arg[Position(p, i)]
      BY <1>0, <2>3, BitsFit
    <3>3. S \subseteq DOMAIN o.val
      BY <2>1, <2>2
    <3>4. Done(o, p, arg, flag, PutAt(o, S, BitsFor(S, p, arg), flag))
      BY <1>0, <3>2, <3>3, PutDoes
    <3> QED BY <2>1, <3>1, <3>4
  <2> QED BY <1>0, <1>1, <2>3, LoopStops
<1>2. CASE ~AllFound(o, p)
  <2>1. Within(o, done, flag, n)
    <3>1. done \in SUBSET DOMAIN o.val
      BY PrefixIsSelected, PathsWellFormed
    <3>2. \A i \in done : BitsFor(done, p, arg)[i] \in Digits
      BY VectorsHaveBits
    <3>3. flag \in Flags
      BY DEF Writes, Flags
    <3> QED BY <3>1, <3>2, <3>3, VpiPutWithin
  <2>2. PICK m \in Steps(o, p) : /\ m > 0 => Index(p, m) \notin DOMAIN o.val
                                 /\ FoundPrefix(o, p) = 0..(m - 1)
    BY <1>0, <1>2, LoopStops
  <2>3. \A i \in DOMAIN o.val :
          i \in done \/ (n.val[i] = o.val[i] /\ (i \in n.forced <=> i \in o.forced))
    BY <2>1 DEF Within
  <2>4. done = {Index(p, j) : j \in 0..(m - 1)}
    BY <2>2
  <2>5. Stopped(o, p, n)
    BY <2>2, <2>3, <2>4 DEF Stopped
  <2> QED BY <1>2, <2>5
<1> QED BY <1>1, <1>2

\* A write of VCS is done when it says so, and a prefix when it fails.
LEMMA VcsSetTells ==
  ASSUME NEW o, IsObject(o), NEW p \in Paths, NEW arg \in Arguments, NEW flag \in Writes, NEW mixed,
         NEW r, r = V!Set(o, p, arg, flag, mixed)
  PROVE  /\ r.ret \in {0, 1} /\ r.out = Untouched
         /\ r.ret = 1 /\ Width(o, p) <= MaxWidth /\ (o.kind = "vhdl" => DigitalFor(o, p, arg))
              => Done(o, p, arg, flag, r.o)
         /\ r.ret = 0 => Stopped(o, p, r.o)
<1> DEFINE S == Selected(o, p)
<1>0. WellFormed(p) /\ V!Untouched = Untouched
  BY PathsWellFormed DEF V!Untouched, Untouched, V!VecBits, VecBits
<1>1. CASE ~V!Found(o, p, mixed) \/ (o.kind # "vhdl" /\ o.kind # "vlog")
  <2>1. r.ret = 0 /\ r.o = o /\ r.out = Untouched
    BY <1>0, <1>1 DEF V!Set, V!set_vlog, V!Failed
  <2> QED BY <1>0, <2>1, SameIsStopped
<1>2. CASE V!Found(o, p, mixed) /\ o.kind = "vlog"
  <2>1. S \subseteq DOMAIN o.val
    BY <1>2 DEF V!Found, V!Exists, V!Selected, Selected
  <2>2. r.o = PutAt(o, S, BitsFor(S, p, arg), flag) /\ r.ret = 1 /\ r.out = Untouched
    BY <1>0, <1>2 DEF V!Set, V!set_vlog, V!Wrote, V!VpiPut, V!PutAt, PutAt, V!Selected,
           Selected, V!BitsFor, BitsFor, V!ArgBit, ArgBit, V!Position, Position, V!VecBits, VecBits,
           V!Down, Down
  <2>3. Width(o, p) <= MaxWidth => \A i \in S : BitsFor(S, p, arg)[i] = arg[Position(p, i)]
    BY <1>0, BitsFit
  <2>4. Width(o, p) <= MaxWidth => Done(o, p, arg, flag, r.o)
    BY <1>0, <2>1, <2>2, <2>3, PutDoes
  <2> QED BY <2>2, <2>4
<1>3. CASE V!Found(o, p, mixed) /\ o.kind = "vhdl"
  <2> DEFINE w == V!Width(o, p)
             top == (V!Words(w) - 1) * WordBits
             excess == {i - w + 1 : i \in {k \in w..(top + WordBits - 1) :
                                             V!btoi(V!ArgBit(arg, k)) = "1"}}
             shift == IF excess = {} THEN 0 ELSE CHOOSE s \in excess : \A t \in excess : t <= s
             digit == [i \in S |->
                         LET j == V!Position(p, i)
                         IN  V!btoi(V!ArgBit(arg, IF j >= top THEN j + shift ELSE j))]
  <2>1. S \subseteq DOMAIN o.val
    BY <1>3 DEF V!Found, V!Exists, V!Selected, Selected
  <2>2. r.o = PutAt(o, S, digit, flag) /\ r.ret = 1 /\ r.out = Untouched
    BY <1>0, <1>3 DEF V!Set, V!set_mhdl, V!Wrote, V!PutAt, PutAt, V!Selected, Selected
  <2>3. w = Width(o, p) /\ \A i : V!Position(p, i) = Position(p, i)
    BY DEF V!Width, Width, V!Down, Down, V!Position, Position
  <2>4. ASSUME Width(o, p) <= MaxWidth, DigitalFor(o, p, arg)
        PROVE  \A i \in S : digit[i] = arg[Position(p, i)]
    <3>1. \A k : V!ArgBit(arg, k) = ArgBit(arg, k)
      BY DEF V!ArgBit, ArgBit, V!VecBits, VecBits
    <3>2. \A k \in Int : k >= w => V!btoi(V!ArgBit(arg, k)) # "1"
      <4> SUFFICES ASSUME NEW k \in Int, k >= w PROVE V!btoi(ArgBit(arg, k)) # "1"
        BY <3>1
      <4>1. ~(k < Width(o, p))
        BY <1>0, <2>3, StepsAndBits
      <4>2. k \in VecBits => arg[k] = "0"
        BY <2>4, <4>1 DEF DigitalFor
      <4> QED BY <4>2 DEF ArgBit, V!btoi
    <3>3. excess = {}
      <4>1. w \in Int
        BY <1>0, <2>3, StepsAndBits
      <4>2. \A k \in w..(top + WordBits - 1) : k \in Int /\ k >= w
        BY <4>1
      <4> HIDE DEF w, top
      <4> QED BY <3>2, <4>2
    <3>4. shift = 0
      BY <3>3
    <3>5. ASSUME NEW i \in S PROVE digit[i] = arg[Position(p, i)]
      <4>1. Position(p, i) \in Steps(o, p) /\ Position(p, i) \in Int /\ Position(p, i) < Width(o, p)
        BY <1>0, StepsAndBits
      <4>2. ArgBit(arg, Position(p, i)) = arg[Position(p, i)] /\ Position(p, i) \in VecBits
        <5>1. Width(o, p) \in Nat /\ Steps(o, p) = 0..(Width(o, p) - 1)
          BY <1>0, StepsAndBits
        <5>2. Position(p, i) \in VecBits
          BY <2>4, <4>1, <5>1, VectorTyped
        <5> QED BY <5>2 DEF ArgBit
      <4>3. V!btoi(ArgBit(arg, Position(p, i))) = arg[Position(p, i)]
        BY <2>4, <4>1, <4>2 DEF DigitalFor, V!btoi
      <4> HIDE DEF shift, top
      <4>4. digit[i] = V!btoi(ArgBit(arg, Position(p, i)))
        BY <2>3, <3>1, <3>4, <4>1
      <4> QED BY <4>3, <4>4
    <3> QED BY <3>5
  <2> HIDE DEF digit
  <2>5. ASSUME Width(o, p) <= MaxWidth, DigitalFor(o, p, arg) PROVE Done(o, p, arg, flag, r.o)
    BY <1>0, <2>1, <2>2, <2>4, <2>5, PutDoes
  <2> QED BY <1>3, <2>2, <2>5
<1> QED BY <1>1, <1>2, <1>3

\* What Questa shares with the others is the same, for writing.
LEMMA QuestaSame ==
  /\ Q!VecBits = VecBits /\ Q!Untouched = Untouched
  /\ \A p, j : Q!Index(p, j) = Index(p, j) /\ Q!Position(p, j) = Position(p, j)
  /\ \A o, p : /\ Q!Width(o, p) = Width(o, p) /\ Q!Steps(o, p) = Steps(o, p)
               /\ Q!Selected(o, p) = Selected(o, p) /\ (Q!Exists(o, p) <=> Exists(o, p))
  /\ \A arg, j : Q!ArgBit(arg, j) = ArgBit(arg, j)
  /\ \A S, p, arg : Q!BitsFor(S, p, arg) = BitsFor(S, p, arg)
  /\ \A o, S, b, flag : /\ Q!PutAt(o, S, b, flag) = PutAt(o, S, b, flag)
                        /\ Q!VpiPut(o, S, b, flag) = VpiPut(o, S, b, flag)
<1>1. Q!VecBits = VecBits /\ Q!Untouched = Untouched
  BY DEF Q!VecBits, VecBits, Q!Untouched, Untouched
<1>2. \A p, j : Q!Index(p, j) = Index(p, j) /\ Q!Position(p, j) = Position(p, j)
  BY DEF Q!Index, Index, Q!Position, Position, Q!Down, Down
<1>3. \A o, p : /\ Q!Width(o, p) = Width(o, p) /\ Q!Steps(o, p) = Steps(o, p)
                /\ Q!Selected(o, p) = Selected(o, p) /\ (Q!Exists(o, p) <=> Exists(o, p))
  BY DEF Q!Width, Width, Q!Down, Down, Q!Steps, Steps, Q!Selected, Selected, Q!Exists, Exists
<1>4. \A arg, j : Q!ArgBit(arg, j) = ArgBit(arg, j)
  BY <1>1 DEF Q!ArgBit, ArgBit
<1>5. \A S, p, arg : Q!BitsFor(S, p, arg) = BitsFor(S, p, arg)
  BY <1>2, <1>4 DEF Q!BitsFor, BitsFor
<1>6. \A o, S, b, flag : /\ Q!PutAt(o, S, b, flag) = PutAt(o, S, b, flag)
                         /\ Q!VpiPut(o, S, b, flag) = VpiPut(o, S, b, flag)
  BY DEF Q!PutAt, PutAt, Q!VpiPut, VpiPut
<1> QED BY <1>1, <1>2, <1>3, <1>4, <1>5, <1>6

\* So is what it finds.
LEMMA QuestaFinds ==
  \A o, p : /\ Q!FoundWithoutSlices(o, p) <=> FoundWithoutSlices(o, p)
            /\ Q!FoundPrefix(o, p) = FoundPrefix(o, p)
            /\ Q!AllFound(o, p) <=> AllFound(o, p)
<1>1. \A o, p : Q!FoundWithoutSlices(o, p) <=> FoundWithoutSlices(o, p)
  BY QuestaSame DEF Q!FoundWithoutSlices, FoundWithoutSlices
<1>2. \A p, i : Q!BitPath(p, i) = BitPath(p, i)
  BY DEF Q!BitPath, BitPath
<1>3. \A o, p : Q!FoundPrefix(o, p) = FoundPrefix(o, p)
  BY <1>1, <1>2, QuestaSame DEF Q!FoundPrefix, FoundPrefix
<1> QED BY <1>1, <1>3, QuestaSame DEF Q!AllFound, AllFound

\* What register_set_vhdl is known not to do.
QuestaVhdlWrites(o, p, arg, flag) ==
  \/ p.sel = "whole"
  \/ p.sel = "slice" /\ flag # "force" /\ DigitalFor(o, p, arg) /\ Exists(o, p)

\* A write of Questa is done when it says so, and a prefix when it fails.
LEMMA QuestaSetTells ==
  ASSUME NEW o, IsObject(o), NEW p \in Paths, NEW arg \in Arguments, NEW flag \in Writes,
         NEW r, r = Q!Set(o, p, arg, flag)
  PROVE  /\ r.ret \in {0, 1} /\ r.out = Untouched
         /\ /\ r.ret = 1 /\ Width(o, p) <= MaxWidth /\ o.kind \in {"vlog", "vhdl"}
            /\ o.kind = "vhdl" => QuestaVhdlWrites(o, p, arg, flag)
            => Done(o, p, arg, flag, r.o)
         /\ r.ret = 0 => Stopped(o, p, r.o)
<1> DEFINE S == Selected(o, p)
<1>0. WellFormed(p) /\ p.sel \in {"whole", "bit", "slice"} /\ arg \in Vectors
  BY PathsWellFormed DEF WellFormed, Vectors
<1>1. CASE Q!uvm_is_vhdl_path(o, p)
  <2> DEFINE ours == S \intersect DOMAIN o.val
             digit == [i \in ours |-> IF ArgBit(arg, IF p.sel = "bit" THEN i ELSE Position(p, i)) = "1"
                                      THEN "1" ELSE "0"]
             whole == [i \in ours |-> ArgBit(arg, i)]
  <2>1. o.kind = "vhdl" /\ r.ret = 1 /\ r.out = Untouched
    BY <1>1, QuestaSame DEF Q!Set, Q!register_set_vhdl, Q!Wrote, Q!uvm_is_vhdl_path
  <2>2. r.o = IF p.sel = "whole" THEN PutAt(o, ours, whole, flag)
              ELSE PutAt(o, ours, digit, IF flag = "release" THEN flag ELSE "deposit")
    BY <1>1, QuestaSame DEF Q!Set, Q!register_set_vhdl, Q!Wrote
  <2>3. ASSUME p.sel = "whole", Width(o, p) <= MaxWidth PROVE Done(o, p, arg, flag, r.o)
    <3>1. ours = S /\ S \subseteq DOMAIN o.val
      BY <2>3, SizeTyped DEF Selected
    <3>2. \A i \in S : whole[i] = arg[Position(p, i)]
      <4>1. \A i \in S : Position(p, i) = i
        BY <2>3 DEF Position
      <4>2. \A i \in S : ArgBit(arg, i) = arg[i]
        <5>1. \A j \in Steps(o, p) : ArgBit(arg, j) = arg[j]
          BY <1>0, <2>3, BitsFit
        <5>2. S = Steps(o, p)
          BY <2>3 DEF Selected, Steps, Width
        <5> QED BY <5>1, <5>2
      <4> QED BY <3>1, <4>1, <4>2
    <3>3. r.o = PutAt(o, S, whole, flag)
      BY <2>2, <2>3, <3>1
    <3> HIDE DEF whole
    <3> QED BY <1>0, <3>1, <3>2, <3>3, PutDoes
  <2>4. ASSUME p.sel = "slice", flag # "force", DigitalFor(o, p, arg), Exists(o, p),
               Width(o, p) <= MaxWidth
        PROVE  Done(o, p, arg, flag, r.o)
    <3>1. ours = S /\ S \subseteq DOMAIN o.val
      BY <2>4 DEF Exists
    <3>2. flag = "deposit"
      BY <2>4 DEF Writes
    <3>3. ASSUME NEW i \in S PROVE digit[i] = arg[Position(p, i)]
      <4>1. Position(p, i) \in Steps(o, p) /\ Position(p, i) \in VecBits
            /\ Position(p, i) < Width(o, p)
        BY <1>0, <2>4, StepsAndBits, VectorTyped
      <4>2. arg[Position(p, i)] \in {"0", "1"}
        BY <2>4, <4>1 DEF DigitalFor
      <4>3. ArgBit(arg, Position(p, i)) = arg[Position(p, i)]
        BY <4>1 DEF ArgBit
      <4> QED BY <2>4, <3>1, <4>2, <4>3
    <3>4. r.o = PutAt(o, S, digit, flag)
      BY <2>2, <2>4, <3>1, <3>2
    <3> HIDE DEF digit
    <3> QED BY <1>0, <3>1, <3>3, <3>4, PutDoes
  <2> QED BY <2>1, <2>3, <2>4 DEF QuestaVhdlWrites
<1>2. CASE ~Q!uvm_is_vhdl_path(o, p) /\ p.sel = "slice"
  <2> DEFINE done == {Index(p, j) : j \in FoundPrefix(o, p)}
             n == VpiPut(o, done, BitsFor(done, p, arg), flag)
  <2>1. /\ r.o = n /\ r.out = Untouched
        /\ r.ret = IF AllFound(o, p) THEN 1 ELSE 0
    BY <1>2, QuestaSame, QuestaFinds DEF Q!Set, Q!set_vlog, Q!set_vlog_partsel, Q!Wrote, Q!Failed
  <2>2. /\ AllFound(o, p) /\ o.kind = "vlog" /\ Width(o, p) <= MaxWidth
             => Done(o, p, arg, flag, n)
        /\ AllFound(o, p) => o.kind # "vhdl"
        /\ ~AllFound(o, p) => Stopped(o, p, n)
    BY <1>0, <1>2, SliceWrites
  <2> HIDE DEF n
  <2> QED BY <2>1, <2>2
<1>3. CASE /\ ~Q!uvm_is_vhdl_path(o, p) /\ p.sel # "slice" /\ ~FoundWithoutSlices(o, p)
  <2>1. r.ret = 0 /\ r.o = o /\ r.out = Untouched
    BY <1>3, QuestaSame, QuestaFinds DEF Q!Set, Q!set_vlog, Q!Failed
  <2> QED BY <1>0, <2>1, SameIsStopped
<1>4. CASE ~Q!uvm_is_vhdl_path(o, p) /\ p.sel # "slice" /\ FoundWithoutSlices(o, p)
  <2>1. /\ r.ret = 1 /\ r.out = Untouched /\ r.o = VpiPut(o, S, BitsFor(S, p, arg), flag)
    BY <1>4, QuestaSame, QuestaFinds DEF Q!Set, Q!set_vlog, Q!Wrote
  <2>2. S \subseteq DOMAIN o.val /\ o.kind # "vhdl"
    BY <1>4 DEF FoundWithoutSlices, Exists
  <2>3. ASSUME o.kind = "vlog", Width(o, p) <= MaxWidth PROVE Done(o, p, arg, flag, r.o)
    <3>1. r.o = PutAt(o, S, BitsFor(S, p, arg), flag)
      BY <2>1, <2>3 DEF VpiPut
    <3>2. \A i \in S : BitsFor(S, p, arg)[i] = arg[Position(p, i)]
      BY <1>0, <2>3, BitsFit
    <3> QED BY <1>0, <2>2, <3>1, <3>2, PutDoes
  <2> QED BY <2>1, <2>2, <2>3
<1> QED BY <1>1, <1>2, <1>3, <1>4

\* What Xcelium shares with the others is the same, for writing.
LEMMA XceliumSame ==
  /\ X!VecBits = VecBits /\ X!Untouched = Untouched
  /\ \A p, j : X!Index(p, j) = Index(p, j) /\ X!Position(p, j) = Position(p, j)
  /\ \A o, p : /\ X!Width(o, p) = Width(o, p) /\ X!Steps(o, p) = Steps(o, p)
               /\ X!Selected(o, p) = Selected(o, p) /\ (X!Exists(o, p) <=> Exists(o, p))
  /\ \A arg, j : X!ArgBit(arg, j) = ArgBit(arg, j)
  /\ \A S, p, arg : X!BitsFor(S, p, arg) = BitsFor(S, p, arg)
  /\ \A o, S, b, flag : /\ X!PutAt(o, S, b, flag) = PutAt(o, S, b, flag)
                        /\ X!VpiPut(o, S, b, flag) = VpiPut(o, S, b, flag)
<1>1. X!VecBits = VecBits /\ X!Untouched = Untouched
  BY DEF X!VecBits, VecBits, X!Untouched, Untouched
<1>2. \A p, j : X!Index(p, j) = Index(p, j) /\ X!Position(p, j) = Position(p, j)
  BY DEF X!Index, Index, X!Position, Position, X!Down, Down
<1>3. \A o, p : /\ X!Width(o, p) = Width(o, p) /\ X!Steps(o, p) = Steps(o, p)
                /\ X!Selected(o, p) = Selected(o, p) /\ (X!Exists(o, p) <=> Exists(o, p))
  BY DEF X!Width, Width, X!Down, Down, X!Steps, Steps, X!Selected, Selected, X!Exists, Exists
<1>4. \A arg, j : X!ArgBit(arg, j) = ArgBit(arg, j)
  BY <1>1 DEF X!ArgBit, ArgBit
<1>5. \A S, p, arg : X!BitsFor(S, p, arg) = BitsFor(S, p, arg)
  BY <1>2, <1>4 DEF X!BitsFor, BitsFor
<1>6. \A o, S, b, flag : /\ X!PutAt(o, S, b, flag) = PutAt(o, S, b, flag)
                         /\ X!VpiPut(o, S, b, flag) = VpiPut(o, S, b, flag)
  BY DEF X!PutAt, PutAt, X!VpiPut, VpiPut
<1> QED BY <1>1, <1>2, <1>3, <1>4, <1>5, <1>6

\* So is what it finds.
LEMMA XceliumFinds ==
  \A o, p : /\ X!FoundWithoutSlices(o, p) <=> FoundWithoutSlices(o, p)
            /\ X!FoundPrefix(o, p) = FoundPrefix(o, p)
            /\ X!AllFound(o, p) <=> AllFound(o, p)
            /\ X!IsVhdl(o, p) <=> o.kind = "vhdl" /\ Exists(o, p)
<1>1. \A o, p : X!FoundWithoutSlices(o, p) <=> FoundWithoutSlices(o, p)
  BY XceliumSame DEF X!FoundWithoutSlices, FoundWithoutSlices
<1>2. \A p, i : X!BitPath(p, i) = BitPath(p, i)
  BY DEF X!BitPath, BitPath
<1>3. \A o, p : X!FoundPrefix(o, p) = FoundPrefix(o, p)
  BY <1>1, <1>2, XceliumSame DEF X!FoundPrefix, FoundPrefix
<1> QED BY <1>1, <1>3, XceliumSame DEF X!AllFound, AllFound, X!IsVhdl

\* A write of Xcelium is done when it says so, and a prefix when it fails.
LEMMA XceliumSetTells ==
  ASSUME NEW o, IsObject(o), NEW p \in Paths, NEW arg \in Arguments, NEW flag \in Writes,
         NEW r, r = X!Set(o, p, arg, flag)
  PROVE  /\ r.ret \in {0, 1} /\ r.out = Untouched
         /\ r.ret = 1 /\ Width(o, p) <= MaxWidth /\ o.kind \in {"vlog", "vhdl"}
              => Done(o, p, arg, flag, r.o)
         /\ r.ret = 0 => Stopped(o, p, r.o)
<1> DEFINE S == Selected(o, p)
<1>0. WellFormed(p) /\ arg \in Vectors
  BY PathsWellFormed DEF Vectors
<1>1. CASE p.sel = "slice"
  <2> DEFINE done == {Index(p, j) : j \in FoundPrefix(o, p)}
             n == VpiPut(o, done, BitsFor(done, p, arg), flag)
  <2>1. /\ r.o = n /\ r.out = Untouched
        /\ r.ret = IF AllFound(o, p) THEN 1 ELSE 0
    BY <1>1, XceliumSame, XceliumFinds DEF X!Set, X!set_vlog_partsel, X!Wrote, X!Failed
  <2>2. /\ AllFound(o, p) /\ o.kind = "vlog" /\ Width(o, p) <= MaxWidth
             => Done(o, p, arg, flag, n)
        /\ AllFound(o, p) => o.kind # "vhdl"
        /\ ~AllFound(o, p) => Stopped(o, p, n)
    BY <1>0, <1>1, SliceWrites
  <2> HIDE DEF n
  <2> QED BY <2>1, <2>2
<1>2. CASE p.sel # "slice" /\ (X!IsVhdl(o, p) \/ FoundWithoutSlices(o, p))
  <2>1. /\ r.ret = 1 /\ r.out = Untouched
        /\ o.kind \in {"vlog", "vhdl"} => r.o = PutAt(o, S, BitsFor(S, p, arg), flag)
    BY <1>2, XceliumSame, XceliumFinds
       DEF X!Set, X!set_vhdl, X!set_vlog, X!Wrote, VpiPut, FoundWithoutSlices
  <2>2. S \subseteq DOMAIN o.val
    BY <1>2, XceliumFinds DEF FoundWithoutSlices, Exists
  <2>3. ASSUME o.kind \in {"vlog", "vhdl"}, Width(o, p) <= MaxWidth
        PROVE  Done(o, p, arg, flag, r.o)
    <3>1. \A i \in S : BitsFor(S, p, arg)[i] = arg[Position(p, i)]
      BY <1>0, <2>3, BitsFit
    <3> QED BY <1>0, <2>1, <2>2, <2>3, <3>1, PutDoes
  <2> QED BY <2>1, <2>3
<1>3. CASE p.sel # "slice" /\ ~X!IsVhdl(o, p) /\ ~FoundWithoutSlices(o, p)
  <2>1. r.ret = 0 /\ r.o = o /\ r.out = Untouched
    BY <1>3, XceliumSame, XceliumFinds DEF X!Set, X!set_vlog, X!Failed
  <2> QED BY <1>0, <2>1, SameIsStopped
<1> QED BY <1>1, <1>2, <1>3
-----------------------------------------------------------------------------
(* Reads. *)

Buffers == [VecBits -> Bits]

\* The vector has the bits of the object that fit it.
Gives(o, p, vec) ==
  \A j \in Steps(o, p) \intersect VecBits : vec[j] = FourState(o.val[Index(p, j)])

\* The vector is 0 above the object, but for its last word.
IsCleared(o, p, vec) ==
  \A i \in VecBits : i >= Width(o, p) /\ i < MaxWidth - WordBits => vec[i] = "0"

\* The bits of an object are bits, in Verilog as they are.
LEMMA VerilogValues ==
  ASSUME NEW o, IsObject(o), NEW i \in DOMAIN o.val
  PROVE  /\ o.val[i] \in Bits /\ FourState(o.val[i]) \in Bits
         /\ o.kind # "vhdl" => FourState(o.val[i]) = o.val[i]
<1>1. o.val[i] \in Bits
  BY DEF IsObject
<1>2. o.kind # "vhdl" => o.val[i] # "u"
  BY SizeTyped DEF IsObject
<1> QED BY <1>1, <1>2 DEF FourState, Bits

\* vpi_get_value gives the bits, and clears the rest of their last word.
LEMMA VpiGives ==
  ASSUME NEW o, IsObject(o), NEW p, WellFormed(p), Selected(o, p) \subseteq DOMAIN o.val,
         NEW buf \in Buffers
  PROVE  /\ VpiGet(o, p, buf) \in Buffers
         /\ o.kind \notin {"unpacked", "vhdl"} => Gives(o, p, VpiGet(o, p, buf))
         /\ \A i \in VecBits : i >= Width(o, p) /\ buf[i] = "0" => VpiGet(o, p, buf)[i] = "0"
<1>1. \A i \in VecBits : i < Width(o, p) => i \in Steps(o, p)
  BY StepsAndBits, VectorTyped
<1>2. \A j \in Steps(o, p) : Index(p, j) \in DOMAIN o.val /\ j < Width(o, p)
  BY StepsAndBits
<1>3. \A j \in Steps(o, p) :
        /\ o.val[Index(p, j)] \in Bits
        /\ o.kind # "vhdl" => FourState(o.val[Index(p, j)]) = o.val[Index(p, j)]
  BY <1>2, VerilogValues
<1>4. VpiGet(o, p, buf) \in Buffers
  <2>1. ASSUME NEW i \in VecBits PROVE VpiGet(o, p, buf)[i] \in Bits
    <3>1. buf[i] \in Bits /\ "0" \in Bits /\ "?" \in Bits
      BY DEF Buffers, Bits
    <3>2. CASE i < Width(o, p)
      <4>1. o.val[Index(p, i)] \in Bits
        BY <1>1, <1>3, <3>2
      <4> QED BY <3>1, <3>2, <4>1 DEF VpiGet
    <3>3. CASE ~(i < Width(o, p))
      BY <3>1, <3>3 DEF VpiGet
    <3> QED BY <3>2, <3>3
  <2> QED BY <2>1 DEF VpiGet, Buffers
<1>5. ASSUME o.kind \notin {"unpacked", "vhdl"} PROVE Gives(o, p, VpiGet(o, p, buf))
  BY <1>2, <1>3, <1>5 DEF Gives, VpiGet
<1>6. ASSUME NEW i \in VecBits, i >= Width(o, p), buf[i] = "0"
      PROVE  VpiGet(o, p, buf)[i] = "0"
  <2>1. ~(i < Width(o, p))
    BY <1>6, StepsAndBits, VectorTyped
  <2> QED BY <1>6, <2>1 DEF VpiGet
<1> QED BY <1>4, <1>5, <1>6

\* A string that fits one word is put the right way round.
LEMMA StringsGive ==
  ASSUME NEW w \in Nat \ {0}, NEW buf \in Buffers, NEW b, \A j \in 0..(w - 1) : b[j] \in Bits
  PROVE  /\ FromString(buf, w, b) \in Buffers
         /\ w <= WordBits => \A i \in VecBits : i < w => FromString(buf, w, b)[i] = b[i]
<1> DEFINE before(i) == (i \div WordBits) * WordBits
           here(i) == IF w - before(i) < WordBits THEN w - before(i) ELSE WordBits
           value(i) == IF before(i) >= w THEN buf[i]
                       ELSE IF i - before(i) >= here(i) THEN "0"
                       ELSE b[w - before(i) - here(i) + (i - before(i))]
<1>1. FromString(buf, w, b) = [i \in VecBits |-> value(i)]
  BY DEF FromString
<1>2. ASSUME NEW i \in VecBits PROVE before(i) \in Nat /\ before(i) <= i /\ (i < WordBits => before(i) = 0)
  <2>1. WordBits \in Nat \ {0} /\ i \in Nat
    BY VectorTyped
  <2>2. \A n \in Nat, s \in Nat \ {0} : /\ (n \div s) * s \in Nat /\ (n \div s) * s <= n
                                        /\ n < s => n \div s = 0
    OBVIOUS
  <2> QED BY <2>1, <2>2
<1>3. ASSUME NEW i \in VecBits PROVE value(i) \in Bits
  <2>1. i \in Nat /\ WordBits \in Nat \ {0} /\ buf[i] \in Bits
    BY VectorTyped DEF Buffers
  <2> DEFINE k == w - before(i) - here(i) + (i - before(i))
  <2>2. before(i) < w /\ i - before(i) < here(i) => k \in 0..(w - 1)
    <3>1. before(i) \in Nat /\ before(i) <= i
      BY <1>2
    <3> HIDE DEF before
    <3> QED BY <2>1, <3>1
  <2>3. before(i) < w /\ i - before(i) < here(i) => b[k] \in Bits
    <3> HIDE DEF k
    <3> QED BY <2>2
  <2>4. before(i) \in Int /\ here(i) \in Int
    <3>1. before(i) \in Nat
      BY <1>2
    <3> HIDE DEF before
    <3> QED BY <2>1, <3>1
  <2>5. value(i) \in {buf[i], "0", b[k]}
    OBVIOUS
  <2>6. CASE before(i) < w /\ i - before(i) < here(i)
    BY <2>1, <2>3, <2>5, <2>6 DEF Bits
  <2>7. CASE ~(before(i) < w /\ i - before(i) < here(i))
    <3>1. before(i) >= w \/ i - before(i) >= here(i)
      <4> HIDE DEF before, here
      <4> QED BY <2>1, <2>4, <2>7
    <3> HIDE DEF before, here
    <3> QED BY <2>1, <3>1 DEF Bits
  <2> QED BY <2>6, <2>7
<1>4. ASSUME w <= WordBits, NEW i \in VecBits, i < w PROVE value(i) = b[i]
  <2>1. i \in Nat /\ WordBits \in Nat \ {0} /\ before(i) = 0
    BY <1>2, <1>4, VectorTyped
  <2>2. here(i) = w
    <3> HIDE DEF before
    <3> QED BY <1>4, <2>1
  <2> HIDE DEF before, here
  <2>3. w - before(i) - here(i) + (i - before(i)) = i
    BY <2>1, <2>2
  <2> QED BY <1>4, <2>1, <2>2, <2>3
<1> HIDE DEF value
<1> QED BY <1>1, <1>3, <1>4 DEF Buffers

\* An output that nothing was written to is one.
LEMMA UntouchedIsBuffer == Untouched \in Buffers
BY DEF Untouched, Buffers, Bits

\* What VCS shares with the others is the same, for reading.
LEMMA VcsReadsSame ==
  /\ V!VecBits = VecBits /\ V!Untouched = Untouched
  /\ \A p, j : V!Index(p, j) = Index(p, j)
  /\ \A o, p : /\ V!Width(o, p) = Width(o, p) /\ V!Steps(o, p) = Steps(o, p)
               /\ V!Selected(o, p) = Selected(o, p) /\ (V!Exists(o, p) <=> Exists(o, p))
  /\ \A o, p, buf : V!VpiGet(o, p, buf) = VpiGet(o, p, buf)
  /\ \A buf, w, b : V!FromString(buf, w, b) = FromString(buf, w, b)
  /\ \A b : V!FourState(b) = FourState(b)
<1>1. V!VecBits = VecBits /\ V!Untouched = Untouched
  BY DEF V!VecBits, VecBits, V!Untouched, Untouched
<1>2. \A p, j : V!Index(p, j) = Index(p, j)
  BY DEF V!Index, Index, V!Down, Down
<1>3. \A o, p : /\ V!Width(o, p) = Width(o, p) /\ V!Steps(o, p) = Steps(o, p)
                /\ V!Selected(o, p) = Selected(o, p) /\ (V!Exists(o, p) <=> Exists(o, p))
  BY DEF V!Width, Width, V!Down, Down, V!Steps, Steps, V!Selected, Selected,
         V!Exists, Exists
<1>4. \A o, p, buf : V!VpiGet(o, p, buf) = VpiGet(o, p, buf)
  BY <1>1, <1>2, <1>3 DEF V!VpiGet, VpiGet, V!Words, Words
<1>5. \A buf, w, b : V!FromString(buf, w, b) = FromString(buf, w, b)
  BY <1>1 DEF V!FromString, FromString
<1>6. \A b : V!FourState(b) = FourState(b)
  BY DEF V!FourState, FourState
<1> QED BY <1>1, <1>2, <1>3, <1>4, <1>5, <1>6

\* A read of VCS that succeeds gives the value.
LEMMA VcsReadTells ==
  ASSUME NEW o, IsObject(o), NEW p, WellFormed(p), NEW mixed,
         NEW r, r = V!read(o, p, mixed)
  PROVE  /\ r.ret \in {0, 1} /\ r.out \in Buffers
         /\ r.ret = 1 <=> V!Found(o, p, mixed) /\ Width(o, p) <= MaxWidth /\ o.kind # "unpacked"
         /\ r.ret = 1 => Gives(o, p, r.out)
<1> DEFINE fits == Width(o, p) <= MaxWidth
<1>0. V!Found(o, p, mixed) => Selected(o, p) \subseteq DOMAIN o.val
  BY VcsReadsSame DEF V!Found, Exists
<1>1. CASE V!Found(o, p, mixed) /\ fits /\ o.kind \notin {"vhdl", "unpacked"}
  <2>1. r.ret = 1 /\ r.out = VpiGet(o, p, Untouched)
    BY <1>1, VcsReadsSame DEF V!read, V!get_vlog, V!Gave
  <2> QED BY <1>0, <1>1, <2>1, VpiGives, UntouchedIsBuffer
<1>2. CASE V!Found(o, p, mixed) /\ fits /\ o.kind = "vhdl"
  <2> DEFINE vec == [i \in VecBits |-> IF i < Width(o, p) THEN FourState(o.val[Index(p, i)]) ELSE "?"]
  <2>1. r.ret = 1 /\ r.out = vec
    BY <1>2, VcsReadsSame DEF V!read, V!get_mhdl, V!Gave
  <2>2. \A j \in Steps(o, p) : Index(p, j) \in DOMAIN o.val /\ j < Width(o, p)
    BY <1>0, <1>2, StepsAndBits
  <2>3. \A i \in VecBits : i < Width(o, p) => i \in Steps(o, p)
    BY StepsAndBits, VectorTyped
  <2>4. \A i \in VecBits : vec[i] \in Bits
    <3>1. \A j \in Steps(o, p) : FourState(o.val[Index(p, j)]) \in Bits
      BY <2>2, VerilogValues
    <3>2. "?" \in Bits
      BY DEF Bits
    <3> QED BY <2>3, <3>1, <3>2
  <2>5. vec \in Buffers
    BY <2>4 DEF Buffers
  <2>6. Gives(o, p, vec)
    BY <2>2 DEF Gives
  <2> HIDE DEF vec
  <2> QED BY <1>2, <2>1, <2>5, <2>6
<1>3. CASE ~(V!Found(o, p, mixed) /\ fits /\ o.kind # "unpacked")
  <2>1. r.ret = 0 /\ r.out = Untouched
    BY <1>3, VcsReadsSame DEF V!read, V!get_vlog, V!get_mhdl, V!Failed
  <2> QED BY <1>3, <2>1, UntouchedIsBuffer
<1> QED BY <1>1, <1>2, <1>3

\* What Questa shares with the others is the same, for reading.
LEMMA QuestaReadsSame ==
  /\ Q!VecBits = VecBits /\ Q!Untouched = Untouched
  /\ \A p, j : Q!Index(p, j) = Index(p, j)
  /\ \A o, p : /\ Q!Width(o, p) = Width(o, p) /\ Q!Steps(o, p) = Steps(o, p)
               /\ Q!Selected(o, p) = Selected(o, p) /\ (Q!Exists(o, p) <=> Exists(o, p))
  /\ \A o, p, buf : Q!VpiGet(o, p, buf) = VpiGet(o, p, buf)
  /\ \A buf, w, b : Q!FromString(buf, w, b) = FromString(buf, w, b)
  /\ \A b : Q!FourState(b) = FourState(b)
<1>1. Q!VecBits = VecBits /\ Q!Untouched = Untouched
  BY DEF Q!VecBits, VecBits, Q!Untouched, Untouched
<1>2. \A p, j : Q!Index(p, j) = Index(p, j)
  BY DEF Q!Index, Index, Q!Down, Down
<1>3. \A o, p : /\ Q!Width(o, p) = Width(o, p) /\ Q!Steps(o, p) = Steps(o, p)
                /\ Q!Selected(o, p) = Selected(o, p) /\ (Q!Exists(o, p) <=> Exists(o, p))
  BY DEF Q!Width, Width, Q!Down, Down, Q!Steps, Steps, Q!Selected, Selected,
         Q!Exists, Exists
<1>4. \A o, p, buf : Q!VpiGet(o, p, buf) = VpiGet(o, p, buf)
  BY <1>1, <1>2, <1>3 DEF Q!VpiGet, VpiGet, Q!Words, Words
<1>5. \A buf, w, b : Q!FromString(buf, w, b) = FromString(buf, w, b)
  BY <1>1 DEF Q!FromString, FromString
<1>6. \A b : Q!FourState(b) = FourState(b)
  BY DEF Q!FourState, FourState
<1> QED BY <1>1, <1>2, <1>3, <1>4, <1>5, <1>6

\* What register_get_vhdl is known not to do.
QuestaVhdlReadLoses(o, p) ==
  /\ o.kind = "vhdl"
  /\ Width(o, p) > WordBits \/ ~Exists(o, p) \/ \E i \in Selected(o, p) : o.val[i] = "u"

\* A read of Questa that succeeds gives the value, but for the VHDL it loses.
LEMMA QuestaReadTells ==
  ASSUME NEW o, IsObject(o), NEW p, WellFormed(p), NEW up, NEW r, r = Q!read(o, p, up)
  PROVE  /\ r.ret \in {0, 1} /\ r.out \in Buffers
         /\ r.ret = 1 /\ o.kind # "unpacked" /\ ~QuestaVhdlReadLoses(o, p) => Gives(o, p, r.out)
         /\ r.ret = 1 /\ o.kind # "vhdl" /\ ~up => IsCleared(o, p, r.out)
<1> DEFINE buf == [i \in VecBits |-> IF ~up /\ i < MaxWidth - WordBits THEN "0" ELSE "?"]
<1>0. /\ buf \in Buffers /\ Q!Cleared(up) = buf
      /\ ~up => \A i \in VecBits : i < MaxWidth - WordBits => buf[i] = "0"
      /\ {"0", "?"} \subseteq Bits
  BY QuestaReadsSame DEF Buffers, Bits, Q!Cleared
<1> HIDE DEF buf
<1>1. CASE Q!uvm_is_vhdl_path(o, p)
  <2> DEFINE char == [j \in Steps(o, p) |-> IF Index(p, j) \in DOMAIN o.val
                                            THEN Q!vhdl2string(o.val[Index(p, j)]) ELSE "?"]
  <2>1. o.kind = "vhdl" /\ r.ret = 1 /\ r.out = FromString(Untouched, Width(o, p), char)
    BY <1>1, QuestaReadsSame DEF Q!read, Q!register_get_vhdl, Q!Gave, Q!uvm_is_vhdl_path
  <2>2. Width(o, p) \in Nat \ {0} /\ Steps(o, p) = 0..(Width(o, p) - 1)
    BY StepsAndBits
  <2>3. \A j \in Steps(o, p) : char[j] \in Bits
    <3>1. \A b \in Bits : Q!vhdl2string(b) \in Bits
      BY DEF Q!vhdl2string, Bits
    <3>2. \A i \in DOMAIN o.val : o.val[i] \in Bits
      BY VerilogValues
    <3> QED BY <1>0, <3>1, <3>2
  <2>4. r.out \in Buffers
    <3> HIDE DEF char
    <3> QED BY <2>1, <2>2, <2>3, StringsGive, UntouchedIsBuffer
  <2>5. ASSUME ~QuestaVhdlReadLoses(o, p) PROVE Gives(o, p, r.out)
    <3>1. /\ Width(o, p) <= WordBits /\ Exists(o, p)
          /\ \A i \in Selected(o, p) : o.val[i] # "u"
      BY <2>1, <2>2, <2>5, VectorTyped DEF QuestaVhdlReadLoses
    <3>2. \A j \in Steps(o, p) : Index(p, j) \in Selected(o, p) /\ Index(p, j) \in DOMAIN o.val
      BY <3>1, StepsAndBits DEF Exists
    <3>3. \A j \in Steps(o, p) : char[j] = FourState(o.val[Index(p, j)])
      BY <3>1, <3>2 DEF Q!vhdl2string, FourState
    <3> HIDE DEF char
    <3>4. \A i \in VecBits : i < Width(o, p) => r.out[i] = char[i]
      BY <2>1, <2>2, <2>3, <3>1, StringsGive, UntouchedIsBuffer
    <3> QED BY <2>2, <3>3, <3>4 DEF Gives
  <2> QED BY <2>1, <2>4, <2>5
<1>2. CASE ~Q!uvm_is_vhdl_path(o, p) /\ p.sel = "slice"
  <2> DEFINE found == FoundPrefix(o, p)
             vec == [i \in VecBits |->
                       IF i \in found THEN o.val[Index(p, i)]
                       ELSE IF i \notin Steps(o, p) \/ (i > 0 /\ i - 1 \notin found) THEN buf[i]
                       ELSE IF i = 0 THEN "0" ELSE o.val[Index(p, i - 1)]]
  <2>1. r.out = vec /\ r.ret = IF AllFound(o, p) THEN 1 ELSE 0
    BY <1>0, <1>2, QuestaReadsSame, QuestaFinds
       DEF Q!read, Q!get_vlog, Q!get_vlog_partsel, Q!Gave, Q!Failed
  <2>2. \A j \in found : Index(p, j) \in DOMAIN o.val
    BY PrefixIsSelected
  <2>3. \A j \in found : o.val[Index(p, j)] \in Bits
    BY <2>2, VerilogValues
  <2>4. ASSUME NEW i \in VecBits PROVE vec[i] \in Bits
    <3>1. buf[i] \in Bits /\ i \in Nat
      BY <1>0, VectorTyped DEF Buffers
    <3> QED BY <1>0, <2>3, <3>1
  <2>5. vec \in Buffers
    BY <2>4 DEF Buffers
  <2>6. ASSUME AllFound(o, p)
        PROVE  Gives(o, p, vec) /\ (~up => IsCleared(o, p, vec))
    <3>1. found = Steps(o, p) /\ o.kind # "vhdl"
      BY <1>2, <2>6, LoopStops DEF AllFound
    <3>2. \A j \in Steps(o, p) : FourState(o.val[Index(p, j)]) = o.val[Index(p, j)]
      BY <2>2, <3>1, VerilogValues
    <3>3. Gives(o, p, vec)
      BY <3>1, <3>2 DEF Gives
    <3>4. \A i \in VecBits : i >= Width(o, p) => i \notin Steps(o, p)
      BY StepsAndBits, VectorTyped
    <3>5. ~up => IsCleared(o, p, vec)
      BY <1>0, <3>1, <3>4 DEF IsCleared
    <3> QED BY <3>3, <3>5
  <2> HIDE DEF vec
  <2> QED BY <2>1, <2>5, <2>6
<1>3. CASE /\ ~Q!uvm_is_vhdl_path(o, p) /\ p.sel # "slice"
           /\ ~FoundWithoutSlices(o, p) \/ Width(o, p) > MaxWidth
  <2>1. r.ret = 0 /\ r.out = buf
    BY <1>0, <1>3, QuestaReadsSame, QuestaFinds DEF Q!read, Q!get_vlog, Q!Failed
  <2> QED BY <1>0, <2>1
<1>4. CASE /\ ~Q!uvm_is_vhdl_path(o, p) /\ p.sel # "slice"
           /\ FoundWithoutSlices(o, p) /\ ~(Width(o, p) > MaxWidth)
  <2>1. r.ret = 1 /\ r.out = VpiGet(o, p, buf)
    BY <1>0, <1>4, QuestaReadsSame, QuestaFinds DEF Q!read, Q!get_vlog, Q!Gave
  <2>2. Selected(o, p) \subseteq DOMAIN o.val /\ o.kind # "vhdl"
    BY <1>4 DEF FoundWithoutSlices, Exists
  <2>3. /\ r.out \in Buffers
        /\ o.kind # "unpacked" => Gives(o, p, r.out)
        /\ \A i \in VecBits : i >= Width(o, p) /\ buf[i] = "0" => r.out[i] = "0"
    BY <1>0, <2>1, <2>2, VpiGives
  <2>4. ~up => IsCleared(o, p, r.out)
    BY <1>0, <2>3 DEF IsCleared
  <2> QED BY <2>1, <2>3, <2>4
<1> QED BY <1>1, <1>2, <1>3, <1>4

\* What Xcelium shares with the others is the same, for reading.
LEMMA XceliumReadsSame ==
  /\ X!VecBits = VecBits /\ X!Untouched = Untouched
  /\ \A p, j : X!Index(p, j) = Index(p, j)
  /\ \A o, p : /\ X!Width(o, p) = Width(o, p) /\ X!Steps(o, p) = Steps(o, p)
               /\ X!Selected(o, p) = Selected(o, p) /\ (X!Exists(o, p) <=> Exists(o, p))
  /\ \A o, p, buf : X!VpiGet(o, p, buf) = VpiGet(o, p, buf)
  /\ \A buf, w, b : X!FromString(buf, w, b) = FromString(buf, w, b)
  /\ \A b : X!FourState(b) = FourState(b)
<1>1. X!VecBits = VecBits /\ X!Untouched = Untouched
  BY DEF X!VecBits, VecBits, X!Untouched, Untouched
<1>2. \A p, j : X!Index(p, j) = Index(p, j)
  BY DEF X!Index, Index, X!Down, Down
<1>3. \A o, p : /\ X!Width(o, p) = Width(o, p) /\ X!Steps(o, p) = Steps(o, p)
                /\ X!Selected(o, p) = Selected(o, p) /\ (X!Exists(o, p) <=> Exists(o, p))
  BY DEF X!Width, Width, X!Down, Down, X!Steps, Steps, X!Selected, Selected,
         X!Exists, Exists
<1>4. \A o, p, buf : X!VpiGet(o, p, buf) = VpiGet(o, p, buf)
  BY <1>1, <1>2, <1>3 DEF X!VpiGet, VpiGet, X!Words, Words
<1>5. \A buf, w, b : X!FromString(buf, w, b) = FromString(buf, w, b)
  BY <1>1 DEF X!FromString, FromString
<1>6. \A b : X!FourState(b) = FourState(b)
  BY DEF X!FourState, FourState
<1> QED BY <1>1, <1>2, <1>3, <1>4, <1>5, <1>6

\* A read of Xcelium that succeeds gives the value, but for wide VHDL.
LEMMA XceliumReadTells ==
  ASSUME NEW o, IsObject(o), NEW p, WellFormed(p), NEW r, r = X!read(o, p)
  PROVE  /\ r.ret \in {0, 1} /\ r.out \in Buffers /\ X!clear_value \in Buffers
         /\ r.ret = 1 /\ o.kind # "unpacked" /\ ~(o.kind = "vhdl" /\ Width(o, p) > WordBits)
              => Gives(o, p, r.out)
         /\ r.ret = 1 /\ p.sel = "slice" => IsCleared(o, p, r.out)
<1>0. /\ X!clear_value \in Buffers
      /\ \A i \in VecBits : i < MaxWidth - WordBits => X!clear_value[i] = "0"
  BY XceliumReadsSame DEF X!clear_value, Buffers, Bits
<1>1. CASE p.sel = "slice"
  <2> DEFINE found == FoundPrefix(o, p)
             vec == [i \in VecBits |-> IF i \in found THEN o.val[Index(p, i)]
                                                      ELSE X!clear_value[i]]
  <2>1. r.out = vec /\ r.ret = IF AllFound(o, p) THEN 1 ELSE 0
    BY <1>1, XceliumReadsSame, XceliumFinds DEF X!read, X!get_vlog_partsel, X!Gave, X!Failed
  <2>2. \A j \in found : Index(p, j) \in DOMAIN o.val
    BY PrefixIsSelected
  <2>3. \A j \in found : o.val[Index(p, j)] \in Bits
    BY <2>2, VerilogValues
  <2>4. vec \in Buffers
    BY <1>0, <2>3 DEF Buffers
  <2>5. ASSUME AllFound(o, p) PROVE Gives(o, p, vec) /\ IsCleared(o, p, vec)
    <3>1. found = Steps(o, p) /\ o.kind # "vhdl"
      BY <1>1, <2>5, LoopStops DEF AllFound
    <3>2. \A j \in Steps(o, p) : FourState(o.val[Index(p, j)]) = o.val[Index(p, j)]
      BY <2>2, <3>1, VerilogValues
    <3>3. Gives(o, p, vec)
      BY <3>1, <3>2 DEF Gives
    <3>4. \A i \in VecBits : i >= Width(o, p) => i \notin Steps(o, p)
      BY StepsAndBits, VectorTyped
    <3> QED BY <1>0, <3>1, <3>3, <3>4 DEF IsCleared
  <2> HIDE DEF vec
  <2> QED BY <1>0, <2>1, <2>4, <2>5
<1>2. CASE p.sel # "slice" /\ X!IsVhdl(o, p)
  <2> DEFINE bit == [j \in Steps(o, p) |-> FourState(o.val[Index(p, j)])]
             clear == [i \in VecBits |-> IF p.sel = "whole" THEN "0" ELSE "?"]
  <2>1. r.ret = 1 /\ r.out = FromString(clear, Width(o, p), bit)
    BY <1>2, XceliumReadsSame DEF X!read, X!get_vhdl, X!Gave
  <2>2. Width(o, p) \in Nat \ {0} /\ Steps(o, p) = 0..(Width(o, p) - 1) /\ clear \in Buffers
    BY StepsAndBits DEF Buffers, Bits
  <2>3. \A j \in Steps(o, p) : bit[j] \in Bits
    <3>1. \A j \in Steps(o, p) : Index(p, j) \in DOMAIN o.val
      BY <1>2, XceliumFinds, StepsAndBits DEF Exists
    <3> QED BY <3>1, VerilogValues
  <2>4. \A j \in Steps(o, p) : bit[j] = FourState(o.val[Index(p, j)])
    OBVIOUS
  <2> HIDE DEF bit, clear
  <2>5. /\ r.out \in Buffers
        /\ Width(o, p) <= WordBits => \A i \in VecBits : i < Width(o, p) => r.out[i] = bit[i]
    BY <2>1, <2>2, <2>3, StringsGive
  <2>6. Width(o, p) <= WordBits => Gives(o, p, r.out)
    BY <2>2, <2>4, <2>5 DEF Gives
  <2>7. o.kind = "vhdl" /\ (~(Width(o, p) > WordBits) => Width(o, p) <= WordBits)
    BY <1>2, <2>2, XceliumFinds, VectorTyped
  <2> QED BY <1>0, <1>2, <2>1, <2>5, <2>6, <2>7
<1>3. CASE /\ p.sel # "slice" /\ ~X!IsVhdl(o, p)
           /\ ~FoundWithoutSlices(o, p) \/ Width(o, p) > MaxWidth
  <2>1. r.ret = 0 /\ r.out = Untouched
    BY <1>3, XceliumReadsSame, XceliumFinds DEF X!read, X!get_vlog, X!Failed
  <2> QED BY <1>0, <2>1, UntouchedIsBuffer
<1>4. CASE /\ p.sel # "slice" /\ ~X!IsVhdl(o, p)
           /\ FoundWithoutSlices(o, p) /\ ~(Width(o, p) > MaxWidth)
  <2>1. r.ret = 1 /\ r.out = VpiGet(o, p, Untouched)
    BY <1>4, XceliumReadsSame, XceliumFinds DEF X!read, X!get_vlog, X!Gave
  <2>2. Selected(o, p) \subseteq DOMAIN o.val /\ o.kind # "vhdl"
    BY <1>4 DEF FoundWithoutSlices, Exists
  <2> QED BY <1>0, <1>4, <2>1, <2>2, VpiGives, UntouchedIsBuffer
<1> QED BY <1>1, <1>2, <1>3, <1>4
-----------------------------------------------------------------------------
(* Releases. *)

\* A put says whether it is done, and gives nothing back.
LEMMA SetsReturn ==
  ASSUME NEW o, NEW p, NEW arg, NEW flag, NEW mixed
  PROVE  /\ V!Set(o, p, arg, flag, mixed).ret \in {0, 1}
         /\ V!Set(o, p, arg, flag, mixed).out = Untouched
         /\ Q!Set(o, p, arg, flag).ret \in {0, 1} /\ Q!Set(o, p, arg, flag).out = Untouched
         /\ X!Set(o, p, arg, flag).ret \in {0, 1} /\ X!Set(o, p, arg, flag).out = Untouched
<1>1. /\ V!Set(o, p, arg, flag, mixed).ret \in {0, 1}
      /\ V!Set(o, p, arg, flag, mixed).out = Untouched
  BY VcsReadsSame DEF V!Set, V!set_mhdl, V!set_vlog, V!Wrote, V!Failed
<1>2. Q!Set(o, p, arg, flag).ret \in {0, 1} /\ Q!Set(o, p, arg, flag).out = Untouched
  BY QuestaSame DEF Q!Set, Q!register_set_vhdl, Q!set_vlog, Q!set_vlog_partsel, Q!Wrote, Q!Failed
<1>3. X!Set(o, p, arg, flag).ret \in {0, 1} /\ X!Set(o, p, arg, flag).out = Untouched
  BY XceliumSame DEF X!Set, X!set_vhdl, X!set_vlog, X!set_vlog_partsel, X!Wrote, X!Failed
<1> QED BY <1>1, <1>2, <1>3

\* A release leaves every value, so that a read after it gives what a read
\* before it would have given.
LEMMA ReleaseKeepsValues ==
  ASSUME NEW o, IsObject(o), NEW S, NEW n, Within(o, S, "release", n)
  PROVE  IsObject(n) /\ n.val = o.val /\ n.kind = o.kind /\ n.size = o.size
<1>1. IsObject(n) /\ n.kind = o.kind /\ n.size = o.size /\ \A i \in DOMAIN o.val : n.val[i] = o.val[i]
  BY DEF Within
<1>2. o.val \in [0..(o.size - 1) -> Bits] /\ n.val \in [0..(o.size - 1) -> Bits]
  BY <1>1 DEF IsObject
<1> QED BY <1>1, <1>2

\* A release that reads gives the value after it, but for slices of Verilog in
\* Questa.
LEMMA QuestaReleaseAndReadTells ==
  ASSUME NEW o, IsObject(o), NEW p \in Paths, NEW up, NEW r, r = Q!release_and_read(o, p, up)
  PROVE  /\ r.ret \in {0, 1} /\ r.out \in Buffers
         /\ /\ r.ret = 1 /\ o.kind # "unpacked" /\ ~QuestaVhdlReadLoses(o, p)
            /\ ~(p.sel = "slice" /\ o.kind # "vhdl")
            => Gives(r.o, p, r.out)
<1> DEFINE n == Q!release(o, p).o  q == Q!PathAfterSet(o, p)
<1>1. WellFormed(p) /\ IsObject(n) /\ n.val = o.val /\ n.kind = o.kind /\ n.size = o.size
  BY PathsWellFormed, QuestaRelease, ReleaseKeepsValues
<1>2. WellFormed(q) /\ (q # p => p.sel = "slice" /\ o.kind # "vhdl")
  <2>1. p.lhs \in Nat /\ p \in [known : BOOLEAN, sel : {"whole", "bit", "slice"}, lhs : Nat, rhs : Nat]
    BY <1>1 DEF WellFormed
  <2> DEFINE b == [p EXCEPT !.sel = "bit", !.lhs = p.lhs, !.rhs = p.lhs]
  <2>2. WellFormed(b)
    BY <2>1 DEF WellFormed
  <2>3. q = IF p.sel = "slice" /\ o.kind # "vhdl" THEN b ELSE p
    BY DEF Q!PathAfterSet, Q!BitPath
  <2> HIDE DEF b, q
  <2> QED BY <1>1, <2>2, <2>3
<1>3. CASE Q!release(o, p).ret = 0
  <2>1. r.ret = 0 /\ r.out = Untouched
    BY <1>3, SetsReturn DEF Q!release_and_read, Q!release
  <2> QED BY <2>1, UntouchedIsBuffer
<1>4. CASE Q!release(o, p).ret # 0
  <2>1. r = Q!read(n, q, up)
    BY <1>4 DEF Q!release_and_read
  <2>2. r.o = n
    BY <2>1, QuestaReadKeeps
  <2>3. QuestaVhdlReadLoses(n, p) <=> QuestaVhdlReadLoses(o, p)
    BY <1>1 DEF QuestaVhdlReadLoses, Width, Exists, Selected
  <2> HIDE DEF n, q
  <2>4. /\ r.ret \in {0, 1} /\ r.out \in Buffers
        /\ r.ret = 1 /\ n.kind # "unpacked" /\ ~QuestaVhdlReadLoses(n, q) => Gives(n, q, r.out)
    BY <1>1, <1>2, <2>1, QuestaReadTells
  <2> QED BY <1>1, <1>2, <2>2, <2>3, <2>4
<1> QED BY <1>3, <1>4

\* A release that reads gives the value after it, in Xcelium.
LEMMA XceliumReleaseAndReadTells ==
  ASSUME NEW o, IsObject(o), NEW p \in Paths, NEW r, r = X!release_and_read(o, p)
  PROVE  /\ r.ret \in {0, 1} /\ r.out \in Buffers
         /\ r.ret = 1 /\ o.kind # "unpacked" /\ ~(o.kind = "vhdl" /\ Width(o, p) > WordBits)
              => Gives(r.o, p, r.out)
<1> DEFINE n == X!release(o, p).o
<1>1. WellFormed(p) /\ IsObject(n) /\ n.val = o.val /\ n.kind = o.kind /\ n.size = o.size
  BY PathsWellFormed, XceliumRelease, ReleaseKeepsValues
<1>2. CASE p.sel = "slice"
  <2>1. r.ret = 0 /\ r.out = X!clear_value
    BY <1>2 DEF X!release_and_read, X!Failed
  <2>2. X!clear_value \in Buffers
    BY <1>1, XceliumReadTells
  <2> QED BY <2>1, <2>2
<1>3. CASE p.sel # "slice"
  <2>1. r = X!read(n, p) /\ r.o = n
    BY <1>3, XceliumReadKeeps DEF X!release_and_read
  <2>2. Width(n, p) = Width(o, p)
    BY <1>1 DEF Width
  <2> HIDE DEF n
  <2> QED BY <1>1, <2>1, <2>2, XceliumReadTells
<1> QED BY <1>2, <1>3

\* A release of VCS writes nothing to the output, reading or not.
LEMMA VcsReleaseReturns ==
  ASSUME NEW o, NEW p, NEW mixed
  PROVE  /\ V!release(o, p, mixed).ret \in {0, 1} /\ V!release(o, p, mixed).out = Untouched
         /\ V!release_and_read(o, p, mixed).ret \in {0, 1}
         /\ V!release_and_read(o, p, mixed).out = Untouched
<1>1. V!mhpi_release_force(o, p).ret \in {0, 1} /\ V!mhpi_release_force(o, p).out = Untouched
  BY VcsReadsSame DEF V!mhpi_release_force, V!Wrote
<1> QED BY <1>1, SetsReturn DEF V!release, V!release_and_read
-----------------------------------------------------------------------------
(* The calls of uvm_hdl.svh, whichever backend there is. *)

\* What a result is, whatever was called.
IsResult(r) == r.ret \in {0, 1} /\ r.out \in Buffers

\* A check has a result.
LEMMA CheckPathTells ==
  ASSUME NEW p PROVE IsResult(uvm_hdl_check_path(p))
<1>1. /\ V!check_path(obj, p, Mixed).ret \in {0, 1} /\ V!check_path(obj, p, Mixed).out = Untouched
  BY VcsReadsSame DEF V!check_path, V!Gave, V!Failed
<1>2. Q!check_path(obj, p).ret \in {0, 1} /\ Q!check_path(obj, p).out = Untouched
  BY QuestaSame DEF Q!check_path, Q!Gave, Q!Failed
<1>3. X!check_path(obj, p).ret \in {0, 1} /\ X!check_path(obj, p).out = Untouched
  BY XceliumSame DEF X!check_path, X!Gave, X!Failed
<1> QED BY <1>1, <1>2, <1>3, UntouchedIsBuffer DEF uvm_hdl_check_path, IsResult

\* A write that succeeds is done, in every backend, but for the exceptions.
LEMMA WritesTell ==
  ASSUME IsObj, NEW p \in Paths, NEW arg \in Arguments, NEW flag \in Writes,
         NEW r, r = IF flag = "force" THEN uvm_hdl_force(p, arg) ELSE uvm_hdl_deposit(p, arg)
  PROVE  /\ IsResult(r)
         /\ r.ret = 1 => \/ TooWide(p) \/ Unchecked \/ VhdlWriteLoses(p, flag, arg)
                         \/ Done(obj, p, arg, flag, r.o)
         /\ r.ret = 0 => Stopped(obj, p, r.o)
<1>0. /\ IsObject(obj) /\ obj.kind \in Kinds /\ flag \in {"deposit", "force"}
      /\ p.sel \in {"whole", "bit", "slice"} /\ WellFormed(p)
  BY PathsWellFormed DEF IsObj, IsObject, Objects, WellFormed, Writes
<1>1. /\ Digital(p, arg) <=> DigitalFor(obj, p, arg)
      /\ ~TooWide(p) <=> Width(obj, p) <= MaxWidth
  <2>1. Width(obj, p) \in Int /\ MaxWidth \in Int
    BY <1>0, StepsAndBits, VectorTyped
  <2> QED BY <2>1 DEF Digital, DigitalFor, TooWide
<1>2. CASE backend = "Questa"
  <2>1. r = Q!Set(obj, p, arg, flag)
    BY <1>0, <1>2 DEF uvm_hdl_force, uvm_hdl_deposit, Q!force, Q!deposit
  <2>2. ASSUME ~Unchecked, ~VhdlWriteLoses(p, flag, arg)
        PROVE  obj.kind \in {"vlog", "vhdl"} /\ (obj.kind = "vhdl" => QuestaVhdlWrites(obj, p, arg, flag))
    BY <1>0, <1>1, <1>2, <2>2 DEF Unchecked, BitByBit, VhdlWriteLoses, QuestaVhdlWrites, Kinds
  <2> QED BY <1>0, <1>1, <2>1, <2>2, QuestaSetTells, UntouchedIsBuffer DEF IsResult
<1>3. CASE backend = "Xcelium"
  <2>1. r = X!Set(obj, p, arg, flag)
    BY <1>0, <1>3 DEF uvm_hdl_force, uvm_hdl_deposit, X!force, X!deposit
  <2>2. ~Unchecked => obj.kind \in {"vlog", "vhdl"}
    BY <1>0, <1>3 DEF Unchecked, BitByBit, Kinds
  <2> QED BY <1>0, <1>1, <2>1, <2>2, XceliumSetTells, UntouchedIsBuffer DEF IsResult
<1>4. CASE backend \notin {"Questa", "Xcelium"}
  <2>1. r = V!Set(obj, p, arg, flag, Mixed)
    BY <1>0, <1>4 DEF uvm_hdl_force, uvm_hdl_deposit, V!force, V!deposit
  <2>2. ASSUME obj.kind = "vhdl", r.ret = 1, ~VhdlWriteLoses(p, flag, arg)
        PROVE  DigitalFor(obj, p, arg)
    <3>1. Mixed
      BY <2>1, <2>2 DEF V!Set, V!Failed, V!Found
    <3> QED BY <1>1, <2>2, <3>1 DEF Mixed, VhdlWriteLoses
  <2> QED BY <1>0, <1>1, <2>1, <2>2, VcsSetTells, UntouchedIsBuffer DEF IsResult
<1> QED BY <1>2, <1>3, <1>4

\* A read that succeeds gives the value, in every backend, but for the exceptions.
LEMMA ReadTells ==
  ASSUME IsObj, NEW p \in Paths, NEW r, r = uvm_hdl_read(p)
  PROVE  /\ IsResult(r) /\ r.o = obj
         /\ r.ret = 1 => \/ obj.kind = "unpacked" /\ BitByBit
                         \/ VhdlReadLoses(p) \/ Gives(obj, p, r.out)
         /\ /\ r.ret = 1 /\ obj.kind \in {"vlog", "locked"}
            /\ \/ backend = "Questa" /\ ~partsel
               \/ backend = "Xcelium" /\ p.sel = "slice"
            => IsCleared(obj, p, r.out)
<1>0. IsObject(obj) /\ WellFormed(p)
  BY PathsWellFormed DEF IsObj
<1>1. CASE backend = "Questa"
  <2>1. r = Q!read(obj, p, partsel)
    BY <1>1 DEF uvm_hdl_read
  <2>2. QuestaVhdlReadLoses(obj, p) => VhdlReadLoses(p)
    BY <1>1 DEF QuestaVhdlReadLoses, VhdlReadLoses, BitByBit
  <2>3. r.o = obj
    BY <2>1, QuestaReadKeeps
  <2> QED BY <1>0, <1>1, <2>1, <2>2, <2>3, QuestaReadTells DEF IsResult, BitByBit
<1>2. CASE backend = "Xcelium"
  <2>1. r = X!read(obj, p)
    BY <1>2 DEF uvm_hdl_read
  <2>2. obj.kind = "vhdl" /\ Width(obj, p) > WordBits => VhdlReadLoses(p)
    BY <1>2 DEF VhdlReadLoses, BitByBit
  <2>3. r.o = obj
    BY <2>1, XceliumReadKeeps
  <2> QED BY <1>0, <1>2, <2>1, <2>2, <2>3, XceliumReadTells DEF IsResult, BitByBit
<1>3. CASE backend \notin {"Questa", "Xcelium"}
  <2>1. r = V!read(obj, p, Mixed)
    BY <1>3 DEF uvm_hdl_read
  <2>2. r.o = obj
    BY <2>1, VcsReadKeeps
  <2> QED BY <1>0, <1>3, <2>1, <2>2, VcsReadTells DEF IsResult
<1> QED BY <1>1, <1>2, <1>3

\* A release has a result.
LEMMA ReleaseTells ==
  ASSUME NEW p PROVE IsResult(uvm_hdl_release(p))
BY SetsReturn, VcsReleaseReturns, UntouchedIsBuffer
   DEF uvm_hdl_release, Q!release, X!release, IsResult

\* A release that reads gives the value, in every backend, but for the exceptions.
LEMMA ReleaseAndReadTells ==
  ASSUME IsObj, NEW p \in Paths, NEW r, r = uvm_hdl_release_and_read(p)
  PROVE  /\ IsResult(r)
         /\ r.ret = 1 => \/ obj.kind = "unpacked" /\ BitByBit
                         \/ VhdlReadLoses(p) \/ ReleaseReadsNot(p)
                         \/ Gives(r.o, p, r.out)
<1>0. IsObject(obj)
  BY DEF IsObj
<1>1. CASE backend = "Questa"
  <2>1. r = Q!release_and_read(obj, p, partsel)
    BY <1>1 DEF uvm_hdl_release_and_read
  <2>2. QuestaVhdlReadLoses(obj, p) => VhdlReadLoses(p)
    BY <1>1 DEF QuestaVhdlReadLoses, VhdlReadLoses, BitByBit
  <2> QED BY <1>0, <1>1, <2>1, <2>2, QuestaReleaseAndReadTells DEF IsResult, BitByBit, ReleaseReadsNot
<1>2. CASE backend = "Xcelium"
  <2>1. r = X!release_and_read(obj, p)
    BY <1>2 DEF uvm_hdl_release_and_read
  <2>2. obj.kind = "vhdl" /\ Width(obj, p) > WordBits => VhdlReadLoses(p)
    BY <1>2 DEF VhdlReadLoses, BitByBit
  <2> QED BY <1>0, <1>2, <2>1, <2>2, XceliumReleaseAndReadTells DEF IsResult, BitByBit
<1>3. CASE backend \notin {"Questa", "Xcelium"}
  <2>1. r = V!release_and_read(obj, p, Mixed)
    BY <1>3 DEF uvm_hdl_release_and_read
  <2>2. ReleaseReadsNot(p)
    BY <1>3 DEF ReleaseReadsNot, BitByBit
  <2> QED BY <2>1, <2>2, VcsReleaseReturns, UntouchedIsBuffer DEF IsResult
<1> QED BY <1>1, <1>2, <1>3
-----------------------------------------------------------------------------
(* The theorems. *)

\* A call with a result keeps the types.
LEMMA CallTyped ==
  ASSUME TypeOK, IsObj', NEW op, NEW p \in Paths, NEW arg \in Vectors, NEW r, IsResult(r),
         Returns(op, p, arg, r), partsel' \in BOOLEAN
  PROVE  TypeOK'
<1>1. /\ obj'.kind \in Kinds /\ obj'.size \in Sizes
      /\ obj'.val \in [0..(obj'.size - 1) -> Bits] /\ obj'.forced \subseteq 0..(obj'.size - 1)
  BY DEF IsObj, IsObject, Objects
<1>2. /\ call'.path \in Paths /\ call'.ret \in {0, 1} /\ call'.out \in [VecBits -> Bits]
      /\ call'.arg \in Arguments \union {Untouched}
  BY DEF Returns, IsResult, Buffers, Vectors
<1>3. backend' = backend /\ alive' = alive /\ alive \in BOOLEAN
  BY DEF Returns, TypeOK
<1> QED BY <1>1, <1>2, <1>3 DEF TypeOK

\* Every step keeps the types.
LEMMA NextTyped ==
  ASSUME TypeOK, IsObj, [Next]_vars
  PROVE  TypeOK'
<1>0. IsObj' /\ partsel \in BOOLEAN /\ Untouched \in Vectors /\ Arguments \subseteq Vectors
  BY NextOnlySelected DEF TypeOK, Vectors
<1>1. CASE CallCheckPath
  <2>1. PICK p \in Paths : Returns("check_path", p, Untouched, uvm_hdl_check_path(p)) /\ UNCHANGED partsel
    BY <1>1 DEF CallCheckPath
  <2> QED BY <1>0, <2>1, CheckPathTells, CallTyped
<1>2. CASE CallRead
  <2>1. PICK p \in Paths :
          /\ Returns("read", p, Untouched, uvm_hdl_read(p))
          /\ partsel' = IF backend = "Questa" THEN Q!partsel_after(obj, p, partsel) ELSE partsel
    BY <1>2 DEF CallRead
  <2>2. Q!partsel_after(obj, p, partsel) \in {partsel, ~Q!AllFound(obj, p)}
    BY DEF Q!partsel_after
  <2>3. (~Q!AllFound(obj, p)) \in BOOLEAN
    BY DEF Q!AllFound
  <2>4. partsel' \in BOOLEAN
    BY <1>0, <2>1, <2>2, <2>3
  <2> QED BY <1>0, <2>1, <2>4, ReadTells, CallTyped
<1>3. CASE CallDeposit
  <2>1. PICK p \in Paths, arg \in Arguments :
          Returns("deposit", p, arg, uvm_hdl_deposit(p, arg)) /\ UNCHANGED partsel
    BY <1>3 DEF CallDeposit
  <2>2. IsResult(uvm_hdl_deposit(p, arg))
    BY WritesTell DEF Writes
  <2> QED BY <1>0, <2>1, <2>2, CallTyped
<1>4. CASE CallForce
  <2>1. PICK p \in Paths, arg \in Arguments :
          Returns("force", p, arg, uvm_hdl_force(p, arg)) /\ UNCHANGED partsel
    BY <1>4 DEF CallForce
  <2>2. IsResult(uvm_hdl_force(p, arg))
    BY WritesTell DEF Writes
  <2> QED BY <1>0, <2>1, <2>2, CallTyped
<1>5. CASE CallRelease
  <2>1. PICK p \in Paths : Returns("release", p, Untouched, uvm_hdl_release(p)) /\ UNCHANGED partsel
    BY <1>5 DEF CallRelease
  <2> QED BY <1>0, <2>1, ReleaseTells, CallTyped
<1>6. CASE CallReleaseAndRead
  <2>1. PICK p \in Paths :
          Returns("release_and_read", p, Untouched, uvm_hdl_release_and_read(p)) /\ UNCHANGED partsel
    BY <1>6 DEF CallReleaseAndRead
  <2> QED BY <1>0, <2>1, ReleaseAndReadTells, CallTyped
<1>7. CASE Take
  <2>1. call' = Idle /\ backend' = backend /\ obj' = obj /\ partsel' = partsel /\ alive' = alive
    BY <1>7 DEF Take
  <2> QED BY <2>1 DEF TypeOK
<1>8. CASE Stop
  <2>1. call' = call /\ backend' = backend /\ obj' = obj /\ partsel' = partsel /\ alive' \in BOOLEAN
    BY <1>8 DEF Stop
  <2> QED BY <2>1 DEF TypeOK
<1>9. CASE UNCHANGED vars
  BY <1>9 DEF TypeOK, vars
<1> QED BY <1>1, <1>2, <1>3, <1>4, <1>5, <1>6, <1>7, <1>8, <1>9 DEF Next

\* They hold at the start.
LEMMA InitTyped == Init => TypeOK
<1> SUFFICES ASSUME Init PROVE TypeOK
  OBVIOUS
<1>1. /\ obj.kind \in Kinds /\ obj.size \in Sizes
      /\ obj.val \in [0..(obj.size - 1) -> Bits] /\ obj.forced \subseteq 0..(obj.size - 1)
  BY InitIsObj DEF IsObj, IsObject, Objects
<1>2. /\ backend \in {"VCS", "VCSMX", "Questa", "Xcelium"}
      /\ partsel = FALSE /\ call = Idle /\ alive = TRUE
  BY DEF Init
<1> QED BY <1>1, <1>2 DEF TypeOK

\* Every call returns 0 or 1 and a vector with a value in every bit, and the object
\* keeps its kind and its width, whatever the backend and the calls before.
THEOREM HdlTypeCorrect == Spec => []TypeOK
BY InitTyped, NextTyped, ObjectTypeCorrect, PTL DEF Spec

\* Which call an action has made.
LEMMA CallsMade ==
  ASSUME IsObj, Next, Made({"read", "deposit", "force", "release_and_read"})
  PROVE  \/ \E p \in Paths : Returns("read", p, Untouched, uvm_hdl_read(p))
         \/ \E p \in Paths, arg \in Arguments : Returns("deposit", p, arg, uvm_hdl_deposit(p, arg))
         \/ \E p \in Paths, arg \in Arguments : Returns("force", p, arg, uvm_hdl_force(p, arg))
         \/ \E p \in Paths : Returns("release_and_read", p, Untouched, uvm_hdl_release_and_read(p))
<1>1. CASE CallCheckPath \/ CallRelease
  <2>1. call'.op \in {"check_path", "release"}
    BY <1>1 DEF CallCheckPath, CallRelease, Returns
  <2> QED BY <2>1 DEF Made
<1>2. CASE Take
  BY <1>2 DEF Take, Made
<1>3. CASE Stop
  <2>1. call' = Idle
    BY <1>3 DEF Stop
  <2> QED BY <2>1 DEF Made, Idle
<1> QED BY <1>1, <1>2, <1>3 DEF Next, CallRead, CallDeposit, CallForce, CallReleaseAndRead

\* What a step that writes has written.
WriteTold ==
  Made(Writes) =>
    LET p == call'.path
    IN  /\ p \in Paths
        /\ call'.ret = 1 => \/ TooWide(p) \/ Unchecked \/ VhdlWriteLoses(p, call'.op, call'.arg)
                            \/ Done(obj, p, call'.arg, call'.op, obj')
        /\ call'.ret = 0 => Stopped(obj, p, obj')

\* Every step of a write is told as it is.
LEMMA NextWrites ==
  ASSUME IsObj, [Next]_vars
  PROVE  WriteTold
<1> SUFFICES ASSUME Next, Made(Writes) PROVE WriteTold
  <2>1. CASE UNCHANGED vars
    <3>1. call' = call /\ (call = Idle => call.op \notin Writes)
      BY <2>1 DEF vars, Idle, Writes
    <3> QED BY <3>1 DEF WriteTold, Made
  <2> QED BY <2>1 DEF WriteTold
<1>1. Made({"read", "deposit", "force", "release_and_read"})
  BY DEF Made, Writes
<1>2. PICK p \in Paths, arg \in Arguments, flag \in Writes :
        Returns(flag, p, arg, IF flag = "force" THEN uvm_hdl_force(p, arg) ELSE uvm_hdl_deposit(p, arg))
  <2>1. call'.op \in {"deposit", "force"}
    BY DEF Made, Writes
  <2>2. \/ \E p \in Paths, arg \in Arguments : Returns("deposit", p, arg, uvm_hdl_deposit(p, arg))
        \/ \E p \in Paths, arg \in Arguments : Returns("force", p, arg, uvm_hdl_force(p, arg))
    BY <1>1, <2>1, CallsMade DEF Returns
  <2>3. "deposit" \in Writes /\ "force" \in Writes /\ "deposit" # "force"
    BY DEF Writes
  <2> QED BY <2>2, <2>3
<1> DEFINE r == IF flag = "force" THEN uvm_hdl_force(p, arg) ELSE uvm_hdl_deposit(p, arg)
<1>3. /\ call'.op = flag /\ call'.path = p /\ call'.arg = arg /\ call'.ret = r.ret /\ obj' = r.o
  BY <1>2 DEF Returns
<1>4. /\ r.ret = 1 => \/ TooWide(p) \/ Unchecked \/ VhdlWriteLoses(p, flag, arg)
                      \/ Done(obj, p, arg, flag, r.o)
      /\ r.ret = 0 => Stopped(obj, p, r.o)
  BY WritesTell
<1> HIDE DEF r
<1> QED BY <1>3, <1>4 DEF WriteTold

\* A deposit or a force that says 1 has written every bit its path selects, up to
\* what the backends are known to lose (uvm_hdl_set_vlog, uvm_register_set_vhdl,
\* uvm_hdl_set_mhdl, uvm_hdl_set_vlog_partsel).
THEOREM WritesDoneWhenTold == Spec => DoneWhenTold
<1> DEFINE A == Made({"deposit", "force"}) /\ call'.ret = 1 =>
       LET p == call'.path
       IN  \/ TooWide(p) \/ Unchecked \/ VhdlWriteLoses(p, call'.op, call'.arg)
           \/ \A j \in Steps(obj, p) :
                /\ Index(p, j) \in DOMAIN obj.val
                /\ \/ obj'.val[Index(p, j)] = call'.arg[j]
                   \/ call'.op = "deposit" /\ Index(p, j) \in obj.forced
                /\ call'.op = "force" => Index(p, j) \in obj'.forced
<1>1. IsObj /\ [Next]_vars => [A]_vars
  BY NextWrites DEF WriteTold, Writes, Done
<1>2. Spec => [][A]_vars
  BY <1>1, ObjectTypeCorrect, PTL DEF Spec
<1> QED BY <1>2 DEF DoneWhenTold

\* A deposit or a force that says 0 has stopped at a bit the object does not have,
\* and has touched none beyond it (uvm_hdl_set_vlog_partsel).
THEOREM FailedWritesArePrefixes == Spec => PartialWriteIsPrefix
<1> DEFINE A == Made({"deposit", "force"}) /\ call'.ret = 0 =>
       LET p == call'.path
       IN  \E n \in Steps(obj, p) :
             /\ n > 0 => Index(p, n) \notin DOMAIN obj.val
             /\ \A i \in DOMAIN obj.val :
                  \/ i \in {Index(p, j) : j \in 0..(n - 1)}
                  \/ obj'.val[i] = obj.val[i] /\ (i \in obj'.forced <=> i \in obj.forced)
<1>1. IsObj /\ [Next]_vars => [A]_vars
  BY NextWrites DEF WriteTold, Writes, Stopped
<1>2. Spec => [][A]_vars
  BY <1>1, ObjectTypeCorrect, PTL DEF Spec
<1> QED BY <1>2 DEF PartialWriteIsPrefix

\* What a step that reads has read.
ReadTold ==
  Made({"read", "release_and_read"}) /\ call'.ret = 1 =>
    LET p == call'.path
    IN  /\ \/ obj.kind = "unpacked" /\ BitByBit
           \/ VhdlReadLoses(p)
           \/ call'.op = "release_and_read" /\ ReleaseReadsNot(p)
           \/ Gives(obj', p, call'.out) /\ Steps(obj', p) = Steps(obj, p)
        /\ /\ call'.op = "read" /\ obj.kind \in {"vlog", "locked"}
           /\ \/ backend = "Questa" /\ ~partsel
              \/ backend = "Xcelium" /\ p.sel = "slice"
           => IsCleared(obj, p, call'.out)

\* Every step of a read is told as it is.
LEMMA NextReads ==
  ASSUME IsObj, [Next]_vars
  PROVE  ReadTold
<1> SUFFICES ASSUME Next, Made({"read", "release_and_read"}) PROVE ReadTold
  <2>1. CASE UNCHANGED vars
    <3>1. call' = call /\ (call = Idle => call.op \notin {"read", "release_and_read"})
      BY <2>1 DEF vars, Idle
    <3> QED BY <3>1 DEF ReadTold, Made
  <2> QED BY <2>1 DEF ReadTold
<1>1. \/ \E p \in Paths : Returns("read", p, Untouched, uvm_hdl_read(p))
      \/ \E p \in Paths : Returns("release_and_read", p, Untouched, uvm_hdl_release_and_read(p))
  <2>1. Made({"read", "deposit", "force", "release_and_read"})
    BY DEF Made
  <2>2. call'.op \in {"read", "release_and_read"}
    BY DEF Made
  <2> QED BY <2>1, <2>2, CallsMade DEF Returns
<1>2. ASSUME NEW p \in Paths, Returns("read", p, Untouched, uvm_hdl_read(p))
      PROVE  ReadTold
  <2> DEFINE r == uvm_hdl_read(p)
  <2>1. /\ call'.op = "read" /\ call'.path = p /\ call'.ret = r.ret /\ call'.out = r.out /\ obj' = r.o
    BY <1>2 DEF Returns
  <2>2. /\ r.o = obj
        /\ r.ret = 1 => \/ obj.kind = "unpacked" /\ BitByBit
                        \/ VhdlReadLoses(p) \/ Gives(obj, p, r.out)
        /\ /\ r.ret = 1 /\ obj.kind \in {"vlog", "locked"}
           /\ \/ backend = "Questa" /\ ~partsel
              \/ backend = "Xcelium" /\ p.sel = "slice"
           => IsCleared(obj, p, r.out)
    BY ReadTells
  <2> HIDE DEF r
  <2> QED BY <2>1, <2>2 DEF ReadTold
<1>3. ASSUME NEW p \in Paths,
             Returns("release_and_read", p, Untouched, uvm_hdl_release_and_read(p))
      PROVE  ReadTold
  <2> DEFINE r == uvm_hdl_release_and_read(p)
  <2>1. /\ call'.op = "release_and_read" /\ call'.path = p /\ call'.ret = r.ret
        /\ call'.out = r.out /\ obj' = r.o
    BY <1>3 DEF Returns
  <2>2. r.ret = 1 => \/ obj.kind = "unpacked" /\ BitByBit
                     \/ VhdlReadLoses(p) \/ ReleaseReadsNot(p)
                     \/ Gives(r.o, p, r.out)
    BY ReleaseAndReadTells
  <2>3. Steps(r.o, p) = Steps(obj, p)
    <3>1. Within(obj, Selected(obj, p), "release", r.o)
      BY VcsRelease, QuestaRelease, XceliumRelease DEF uvm_hdl_release_and_read, IsObj
    <3>2. r.o.size = obj.size
      BY <3>1 DEF Within
    <3> QED BY <3>2 DEF Steps, Width
  <2> HIDE DEF r
  <2> QED BY <2>1, <2>2, <2>3 DEF ReadTold
<1> QED BY <1>1, <1>2, <1>3

\* A read that says 1 has given the bits of the object that fit the vector, up to
\* what the backends are known to lose, and after a release they are those of the
\* object as it is then (uvm_hdl_get_vlog, uvm_hdl_get_mhdl, uvm_register_get_vhdl).
THEOREM ReadsAreTrue == Spec => ReadIsTrue
<1> DEFINE A == Made({"read", "release_and_read"}) /\ call'.ret = 1 =>
       LET p == call'.path
       IN  \/ obj.kind = "unpacked" /\ BitByBit
           \/ VhdlReadLoses(p)
           \/ call'.op = "release_and_read" /\ ReleaseReadsNot(p)
           \/ \A j \in Steps(obj, p) \intersect VecBits :
                call'.out[j] = FourState(obj'.val[Index(p, j)])
<1>1. IsObj /\ [Next]_vars => [A]_vars
  BY NextReads DEF ReadTold, Gives
<1>2. Spec => [][A]_vars
  BY <1>1, ObjectTypeCorrect, PTL DEF Spec
<1> QED BY <1>2 DEF ReadIsTrue

\* The bits above the object are 0 wherever the code clears the vector first, but for
\* its last word (the loops of uvm_hdl_get_vlog and clear_value).
THEOREM ReadsAreCleared == Spec => ClearedBeforeRead
<1> DEFINE A ==
       /\ Made({"read"}) /\ call'.ret = 1 /\ obj.kind \in {"vlog", "locked"}
       /\ \/ backend = "Questa" /\ ~partsel
          \/ backend = "Xcelium" /\ call'.path.sel = "slice"
       =>
       \A i \in VecBits : i >= Width(obj, call'.path) /\ i < MaxWidth - WordBits =>
         call'.out[i] = "0"
<1>1. IsObj /\ [Next]_vars => [A]_vars
  BY NextReads DEF ReadTold, IsCleared, Made
<1>2. Spec => [][A]_vars
  BY <1>1, ObjectTypeCorrect, PTL DEF Spec
<1> QED BY <1>2 DEF ClearedBeforeRead

\* check_path and read look for an object in the same way.
LEMMA FoundIsRead ==
  ASSUME IsObj, NEW p \in Paths
  PROVE  LET found == uvm_hdl_check_path(p).ret = 1
             reads == uvm_hdl_read(p).ret = 1
         IN  /\ found => reads \/ TooWide(p) \/ obj.kind = "unpacked"
             /\ reads => found \/ (BitByBit /\ p.sel = "slice")
<1> DEFINE found == uvm_hdl_check_path(p).ret = 1
           reads == uvm_hdl_read(p).ret = 1
<1>0. /\ IsObject(obj) /\ WellFormed(p)
      /\ Width(obj, p) > MaxWidth <=> TooWide(p)
      /\ ~TooWide(p) <=> Width(obj, p) <= MaxWidth
  <2>1. IsObject(obj) /\ WellFormed(p)
    BY PathsWellFormed DEF IsObj
  <2>2. Width(obj, p) \in Int /\ MaxWidth \in Int
    BY <2>1, StepsAndBits, VectorTyped
  <2> QED BY <2>1, <2>2 DEF TooWide
<1>1. CASE backend = "Questa"
  <2>1. found <=> Q!uvm_is_vhdl_path(obj, p) \/ FoundWithoutSlices(obj, p)
    BY <1>1, QuestaFinds DEF uvm_hdl_check_path, Q!check_path, Q!Gave, Q!Failed
  <2>2. Q!uvm_is_vhdl_path(obj, p) => reads
    BY <1>1 DEF uvm_hdl_read, Q!read, Q!register_get_vhdl, Q!Gave
  <2>3. ~Q!uvm_is_vhdl_path(obj, p) /\ p.sel # "slice"
          => (reads <=> FoundWithoutSlices(obj, p) /\ ~TooWide(p))
    BY <1>0, <1>1, QuestaFinds, QuestaSame
       DEF uvm_hdl_read, Q!read, Q!get_vlog, Q!Gave, Q!Failed
  <2>4. FoundWithoutSlices(obj, p) => p.sel # "slice"
    BY DEF FoundWithoutSlices
  <2> QED BY <1>1, <2>1, <2>2, <2>3, <2>4 DEF BitByBit
<1>2. CASE backend = "Xcelium"
  <2>1. found <=> (X!IsVhdl(obj, p) /\ p.sel # "slice") \/ FoundWithoutSlices(obj, p)
    BY <1>2, XceliumFinds DEF uvm_hdl_check_path, X!check_path, X!Gave, X!Failed
  <2>2. X!IsVhdl(obj, p) /\ p.sel # "slice" => reads
    BY <1>2 DEF uvm_hdl_read, X!read, X!get_vhdl, X!Gave
  <2>3. ~X!IsVhdl(obj, p) /\ p.sel # "slice"
          => (reads <=> FoundWithoutSlices(obj, p) /\ ~TooWide(p))
    BY <1>0, <1>2, XceliumFinds, XceliumSame
       DEF uvm_hdl_read, X!read, X!get_vlog, X!Gave, X!Failed
  <2>4. FoundWithoutSlices(obj, p) => p.sel # "slice"
    BY DEF FoundWithoutSlices
  <2> QED BY <1>2, <2>1, <2>2, <2>3, <2>4 DEF BitByBit
<1>3. CASE backend \notin {"Questa", "Xcelium"}
  <2>1. found <=> V!Found(obj, p, Mixed)
    BY <1>3 DEF uvm_hdl_check_path, V!check_path, V!Gave, V!Failed
  <2>2. uvm_hdl_read(p) = V!read(obj, p, Mixed)
    BY <1>3 DEF uvm_hdl_read
  <2>3. reads <=> V!Found(obj, p, Mixed) /\ Width(obj, p) <= MaxWidth /\ obj.kind # "unpacked"
    BY <1>0, <2>2, VcsReadTells
  <2> QED BY <1>0, <2>1, <2>3
<1> QED BY <1>1, <1>2, <1>3

\* The answer of check_path is still the one it would give: nothing changes the
\* object before the caller has it.
CheckHolds ==
  call.op = "check_path" =>
    call.path \in Paths /\ call.ret = uvm_hdl_check_path(call.path).ret

\* Every step keeps what a check has looked up: no call changes what there is.
LEMMA NextCheckHolds ==
  ASSUME IsObj, CheckHolds, [Next]_vars
  PROVE  CheckHolds'
<1>1. CASE CallCheckPath
  <2>1. PICK p \in Paths : Returns("check_path", p, Untouched, uvm_hdl_check_path(p))
    BY <1>1 DEF CallCheckPath
  <2>2. uvm_hdl_check_path(p).o = obj
    BY VcsReadKeeps, QuestaReadKeeps, XceliumReadKeeps DEF uvm_hdl_check_path
  <2>3. /\ obj' = obj /\ backend' = backend /\ call'.path = p
        /\ call'.ret = uvm_hdl_check_path(p).ret
    BY <2>1, <2>2 DEF Returns
  <2> QED BY <2>3 DEF CheckHolds, uvm_hdl_check_path, Mixed
<1>2. CASE CallRead \/ CallDeposit \/ CallForce \/ CallRelease \/ CallReleaseAndRead \/ Take
  <2>1. call'.op # "check_path"
    BY <1>2 DEF CallRead, CallDeposit, CallForce, CallRelease, CallReleaseAndRead, Take,
                Returns, Idle
  <2> QED BY <2>1 DEF CheckHolds
<1>3. CASE Stop \/ UNCHANGED vars
  <2>1. obj' = obj /\ backend' = backend /\ call' = call
    BY <1>3 DEF Stop, vars
  <2> QED BY <2>1 DEF CheckHolds, uvm_hdl_check_path, Mixed
<1> QED BY <1>1, <1>2, <1>3 DEF Next

\* A path that check_path has found can be read unless it is too wide, and a path that
\* can be read is found unless it is a slice, whichever of the three C files is linked.
THEOREM FoundPathsRead == Spec => []CheckedPathReads
<1>1. Init => CheckHolds
  BY DEF Init, Idle, CheckHolds
<1>2. IsObj /\ CheckHolds => CheckedPathReads
  BY FoundIsRead DEF CheckedPathReads, CheckHolds
<1> QED BY <1>1, <1>2, NextCheckHolds, ObjectTypeCorrect, PTL DEF Spec

-----------------------------------------------------------------------------
(* uvm_polling_getValue32. *)

\* The mask has the bits up to the sign bit, although 2 * 2^msb may wrap.
LEMMA MaskBits ==
  ASSUME NEW size \in Nat \ {0}, NEW k \in 0..(WordBits - 1)
  PROVE  InMask(size, k) <=> k <= top_msb(size)
<1> DEFINE W == WordBits
           m == top_msb(size)
           p == 2^k
           a == 2^m
           w == 2^W
           mask == 2 * a - 1
<1>1. W \in Nat /\ W >= 1 /\ m \in 0..(W - 1) /\ k \in Nat /\ k < W
  <2>1. W \in Nat /\ W >= 1 /\ k \in Nat /\ k < W
    BY HdlAssumption
  <2>2. (size - 1) % W \in 0..(W - 1)
    <3> HIDE DEF W
    <3> QED BY <2>1
  <2> QED BY <2>1, <2>2 DEF top_msb
<1> HIDE DEF m, W
<1>2. /\ p \in Nat /\ p >= 1 /\ a \in Nat /\ a >= 1 /\ w \in Nat /\ w >= 1
      /\ 2 * a = 2^(m + 1) /\ 2 * a <= w
  <2>1. p \in Nat /\ p >= 1 /\ a \in Nat /\ a >= 1 /\ w \in Nat /\ w >= 1
    BY <1>1, PowerPositive
  <2>2. 2^(m + 1) = 2 * 2^m
    BY <1>1, PowerTurns
  <2>3. 2^(m + 1) <= 2^W
    <3>1. m + 1 \in Nat /\ m + 1 <= W
      BY <1>1
    <3> QED BY <1>1, <3>1, PowerGrows
  <2> QED BY <2>1, <2>2, <2>3
<1>3. mask % w = mask
  <2> HIDE DEF a, w
  <2>1. mask \in 0..(w - 1) /\ w * 0 + mask = mask
    BY <1>2
  <2> HIDE DEF mask
  <2>2. (w * 0 + mask) % w = mask
    BY <1>2, <2>1, Divides
  <2> QED BY <2>1, <2>2
<1>4. InMask(size, k) = ((mask \div p) % 2 = 1)
  <2>1. top_mask(size) = mask % w
    BY DEF top_mask, m, W
  <2> QED BY <1>3, <2>1 DEF InMask
<1>5. ASSUME k <= m PROVE (mask \div p) % 2 = 1
  <2> DEFINE d == m - k
             q == 2^d
  <2>1. d \in Nat /\ k + d = m
    BY <1>1, <1>5
  <2> HIDE DEF d
  <2>2. q \in Nat /\ q >= 1
    BY <2>1, PowerPositive
  <2>3. a = p * q
    BY <1>1, <2>1, PowerSum
  <2> HIDE DEF a, p, q, w
  <2>4. p - 1 \in 0..(p - 1) /\ 2 * q - 1 \in Nat
    BY <1>2, <2>2
  <2>5. p * (2 * q - 1) + (p - 1) = mask
    BY <1>2, <2>2, <2>3
  <2>6. (p * (2 * q - 1) + (p - 1)) \div p = 2 * q - 1
    BY <1>2, <2>4, Divides
  <2>7. (2 * q - 1) % 2 = 1
    BY <2>2
  <2> HIDE DEF mask
  <2> QED BY <2>5, <2>6, <2>7
<1>6. ASSUME ~(k <= m) PROVE (mask \div p) % 2 = 0
  <2>1. 2 * a <= p
    <3>1. 2^(m + 1) <= 2^k
      <4>1. m + 1 \in Nat /\ m + 1 <= k
        BY <1>1, <1>6
      <4> QED BY <1>1, <4>1, PowerGrows
    <3> QED BY <1>2, <3>1
  <2> HIDE DEF a, p, w
  <2>2. mask \in 0..(p - 1) /\ p * 0 + mask = mask
    BY <1>2, <2>1
  <2> HIDE DEF mask
  <2>3. (p * 0 + mask) \div p = 0
    BY <1>2, <2>2, Divides
  <2>4. 0 % 2 = 0
    OBVIOUS
  <2> QED BY <2>2, <2>3, <2>4
<1> HIDE DEF mask, p
<1>7. InMask(size, k) <=> k <= m
  <2> DEFINE odd == (mask \div p) % 2
  <2>1. InMask(size, k) <=> odd = 1
    BY <1>4
  <2>2. k <= m => odd = 1
    BY <1>5
  <2>3. ~(k <= m) => odd = 0
    BY <1>6
  <2> HIDE DEF odd
  <2> QED BY <2>1, <2>2, <2>3
<1> QED BY <1>7 DEF m

\* A bit of a word is the bit of the value there, and the sign or 0 beyond it.
LEMMA ChunkBits ==
  ASSUME NEW o, NEW size, size = o.size, size \in Nat \ {0},
         NEW chunk \in 0..(Words(size) - 1), NEW signed, NEW k \in 0..(WordBits - 1)
  PROVE  LET i == chunk * WordBits + k
         IN  GetValue32(o, signed, chunk)[k] =
               IF i < size THEN o.val[i] ELSE IF signed THEN o.val[size - 1] ELSE "0"
<1> DEFINE W == WordBits
           lsb == chunk * W
           msb == top_msb(size)
           words == Words(size)
<1>1. W \in Nat /\ W >= 1 /\ k \in Nat /\ k < W /\ chunk \in Nat /\ size \in Nat /\ size >= 1
  <2>1. W \in Nat /\ W >= 1 /\ k \in Nat /\ k < W
    BY HdlAssumption
  <2>2. chunk \in Nat
    <3>1. (size + W - 1) \div W \in Int
      <4> HIDE DEF W
      <4> QED BY <2>1
    <3> QED BY <3>1 DEF Words
  <2> QED BY <2>1, <2>2
<1> HIDE DEF W
<1>2. lsb \in Nat /\ lsb < size
  <2>1. words = (size + W - 1) \div W
    BY DEF Words, W
  <2>2. words \in Int /\ W * words <= size + W - 1
    <3> DEFINE n == size + W - 1
    <3>1. n \in Nat
      BY <1>1
    <3> HIDE DEF n
    <3>2. n \div W \in Int /\ W * (n \div W) <= n
      BY <1>1, <3>1
    <3> HIDE DEF words
    <3> QED BY <2>1, <3>2 DEF n
  <2>3. chunk + 1 <= words
    BY <1>1, <2>2
  <2> HIDE DEF words
  <2>4. W * (chunk + 1) <= W * words
    BY <1>1, <2>2, <2>3
  <2>5. W * (chunk + 1) = chunk * W + W /\ chunk * W \in Nat
    BY <1>1
  <2> DEFINE u == W * words
  <2> HIDE DEF u
  <2>6. u \in Int /\ chunk * W + W <= u /\ u <= size + W - 1
    <3>1. W * words \in Int
      BY <1>1, <2>2
    <3> QED BY <2>2, <2>4, <2>5, <3>1 DEF u
  <2> QED BY <1>1, <2>5, <2>6
<1> HIDE DEF lsb
<1>3. lsb + W <= size \/ InMask(size, k) <=> lsb + k < size
  <2>1. InMask(size, k) <=> k <= msb
    BY MaskBits
  <2>2. CASE lsb + W <= size
    BY <1>1, <1>2, <2>2
  <2>3. CASE ~(lsb + W <= size)
    <3> DEFINE r == size - 1 - lsb
    <3>1. r \in 0..(W - 1) /\ W * chunk + r = size - 1
      <4>1. W * chunk = lsb
        BY <1>1 DEF lsb
      <4> QED BY <1>1, <1>2, <2>3, <4>1
    <3> HIDE DEF r
    <3>2. (W * chunk + r) % W = r
      BY <1>1, <3>1, Divides
    <3>3. msb = r
      BY <3>1, <3>2 DEF top_msb, W
    <3>4. k <= r <=> lsb + k < size
      BY <1>1, <1>2 DEF r
    <3> QED BY <2>1, <2>3, <3>3, <3>4
  <2> QED BY <2>2, <2>3
<1>4. GetValue32(o, signed, chunk)[k] =
        IF lsb + W <= size \/ InMask(size, k) THEN o.val[lsb + k]
        ELSE IF signed THEN o.val[size - 1] ELSE "0"
  <2>1. ~(lsb >= size)
    BY <1>1, <1>2
  <2> QED BY <2>1 DEF GetValue32, lsb, W
<1> QED BY <1>3, <1>4 DEF lsb, W

\* Every word uvm_polling_getValue32 gives has the object's bits, and above
\* them its sign bit or 0, for every width and also where the mask wraps.
THEOREM ChunksAreExtended == Spec => []ChunksExtend
<1>1. IsObj => ChunksExtend
  <2> SUFFICES ASSUME IsObj PROVE ChunksExtend
    OBVIOUS
  <2> DEFINE size == obj.size
  <2>1. size \in Nat \ {0}
    BY HdlAssumption DEF IsObj, IsObject, Objects
  <2> HIDE DEF size
  <2>2. ASSUME NEW chunk \in 0..(Words(size) - 1), NEW signed \in BOOLEAN,
               NEW k \in 0..(WordBits - 1)
        PROVE  LET i == chunk * WordBits + k
               IN  GetValue32(obj, signed, chunk)[k] =
                     IF i < size THEN obj.val[i] ELSE IF signed THEN obj.val[size - 1] ELSE "0"
    BY <2>1, ChunkBits DEF size
  <2> QED BY <2>2 DEF ChunksExtend, size
<1> QED BY <1>1, ObjectTypeCorrect, PTL
=============================================================================
