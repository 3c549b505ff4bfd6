----------------------------- MODULE GlobProofs -----------------------------
(***************************************************************************)
(* Theorems about Glob, for expressions of any characters and any length.  *)
(* Induction is a fact about a set of numbers here, and what a recursive   *)
(* function is, is shown from the turns it takes.                          *)
(***************************************************************************)
EXTENDS Glob, SequenceTheorems, Induction

\* Two sequences, one behind the other.
LEMMA Joined ==
  ASSUME NEW S, NEW s \in Seq(S), NEW t \in Seq(S)
  PROVE  /\ s \o t \in Seq(S) /\ Len(s \o t) = Len(s) + Len(t)
         /\ Len(s) \in Nat /\ Len(t) \in Nat
         /\ \A i \in 1..Len(s) : (s \o t)[i] = s[i]
         /\ \A i \in 1..Len(t) : (s \o t)[Len(s) + i] = t[i]
<1>1. s \o t \in Seq(S) /\ Len(s \o t) = Len(s) + Len(t) /\ Len(s) \in Nat /\ Len(t) \in Nat
  BY ConcatProperties, LenProperties
<1>2. \A i \in 1..(Len(s) + Len(t)) : (s \o t)[i] = IF i <= Len(s) THEN s[i] ELSE t[i - Len(s)]
  BY ConcatProperties
<1>3. ASSUME NEW i \in 1..Len(s) PROVE (s \o t)[i] = s[i]
  <2>1. i \in 1..(Len(s) + Len(t)) /\ i <= Len(s)
    BY <1>1
  <2> QED BY <1>2, <2>1
<1>4. ASSUME NEW i \in 1..Len(t) PROVE (s \o t)[Len(s) + i] = t[i]
  <2>1. Len(s) + i \in 1..(Len(s) + Len(t)) /\ ~(Len(s) + i <= Len(s)) /\ (Len(s) + i) - Len(s) = i
    BY <1>1
  <2> QED BY <1>2, <2>1
<1> QED BY <1>1, <1>3, <1>4

\* The first n of a sequence.
LEMMA FirstOnes ==
  ASSUME NEW S, NEW s \in Seq(S), NEW n \in Nat, n <= Len(s)
  PROVE  /\ SubSeq(s, 1, n) \in Seq(S) /\ Len(SubSeq(s, 1, n)) = n
         /\ \A i \in 1..n : SubSeq(s, 1, n)[i] = s[i]
<1>1. \A i \in 1..n : s[i] \in S
  BY LenProperties
<1>2. /\ SubSeq(s, 1, n) \in Seq(S)
      /\ Len(SubSeq(s, 1, n)) = IF 1 <= n THEN n - 1 + 1 ELSE 0
      /\ \A i \in 1..(n - 1 + 1) : SubSeq(s, 1, n)[i] = s[1 + i - 1]
  BY <1>1, SubSeqProperties
<1> QED BY <1>2
-----------------------------------------------------------------------------
(* The body of a converted glob. *)

\* The characters of expressions and of what they become.
Chars == STRING \union {"*", "+", "?", ".", "[", "]", "(", ")", "^", "$", "/", "\\"}

\* A text is a sequence of the characters that the conversion tells apart.
LEMMA StringsAreChars == ASSUME NEW s \in Seq(STRING) PROVE s \in Seq(Chars)
<1>1. STRING \subseteq Chars
  BY DEF Chars
<1> QED BY <1>1, SeqMonotonic

Special == Repeats \union Escaped
Doubled(glob, n) == Cardinality({i \in 1..n : glob[i] \in Special})

\* One more character that becomes two, or not.
LEMMA DoubledTurns ==
  ASSUME NEW glob, NEW n \in Nat
  PROVE  /\ Doubled(glob, 0) = 0
         /\ Doubled(glob, n) \in Nat
         /\ glob[n + 1] \in Special => Doubled(glob, n + 1) = Doubled(glob, n) + 1
         /\ glob[n + 1] \notin Special => Doubled(glob, n + 1) = Doubled(glob, n)
<1> DEFINE T(m) == {i \in 1..m : glob[i] \in Special}
<1>1. T(0) = {}
  OBVIOUS
<1>2. IsFiniteSet(T(n))
  <2>1. IsFiniteSet(1..n)
    BY FS_Interval
  <2>2. T(n) \in SUBSET (1..n)
    OBVIOUS
  <2> HIDE DEF T
  <2> QED BY <2>1, <2>2, FS_Subset
<1>3. T(n + 1) = IF glob[n + 1] \in Special THEN T(n) \union {n + 1} ELSE T(n)
  OBVIOUS
<1>4. n + 1 \notin T(n)
  OBVIOUS
<1>5. Doubled(glob, 0) = Cardinality(T(0)) /\ Doubled(glob, n) = Cardinality(T(n))
      /\ Doubled(glob, n + 1) = Cardinality(T(n + 1))
  BY DEF Doubled
<1> HIDE DEF T
<1>6. Cardinality(T(n) \union {n + 1}) = Cardinality(T(n)) + 1
  BY <1>2, <1>4, FS_AddElement
<1>7. Cardinality(T(n)) \in Nat /\ Cardinality(T(0)) = 0
  BY <1>1, <1>2, FS_EmptySet, FS_CardinalityType
<1> QED BY <1>3, <1>5, <1>6, <1>7

\* More characters hold no fewer that become two.
LEMMA DoubledGrows ==
  ASSUME NEW glob, NEW m \in Nat, NEW n \in Nat, m <= n
  PROVE  Doubled(glob, m) <= Doubled(glob, n)
<1>1. IsFiniteSet({i \in 1..n : glob[i] \in Special})
  <2>1. IsFiniteSet(1..n)
    BY FS_Interval
  <2>2. {i \in 1..n : glob[i] \in Special} \in SUBSET (1..n)
    OBVIOUS
  <2> QED BY <2>1, <2>2, FS_Subset
<1>2. {i \in 1..m : glob[i] \in Special} \in SUBSET {i \in 1..n : glob[i] \in Special}
  OBVIOUS
<1> QED BY <1>1, <1>2, FS_Subset DEF Doubled

\* What each character becomes.
LEMMA ExpansionShape ==
  ASSUME NEW c \in Chars
  PROVE  /\ Expansion(c) \in Seq(Chars)
         /\ c \in Special => Len(Expansion(c)) = 2
         /\ c \notin Special => Len(Expansion(c)) = 1
         /\ c \in Repeats => Expansion(c)[1] = "." /\ Expansion(c)[2] = c
         /\ c \in Escaped => Expansion(c)[1] = "\\" /\ Expansion(c)[2] = c
         /\ c = "?" => Expansion(c)[1] = "."
         /\ c \notin Special \union {"?"} => Expansion(c)[1] = c
<1>1. CASE c \in Repeats
  <2>1. c \notin Escaped /\ c # "?"
    BY <1>1 DEF Repeats, Escaped
  <2>2. Expansion(c) = <<".", c>>
    BY <1>1, <2>1 DEF Expansion
  <2> QED BY <1>1, <2>1, <2>2 DEF Special, Chars
<1>2. CASE c \in Escaped
  <2>1. c \notin Repeats /\ c # "?"
    BY <1>2 DEF Repeats, Escaped
  <2>2. Expansion(c) = <<"\\", c>>
    BY <1>2, <2>1 DEF Expansion
  <2> QED BY <1>2, <2>1, <2>2 DEF Special, Chars
<1>3. CASE c = "?"
  <2>1. c \notin Repeats /\ c \notin Escaped
    BY <1>3 DEF Repeats, Escaped
  <2>2. Expansion(c) = <<".">>
    BY <1>3, <2>1 DEF Expansion
  <2>3. "." \in Chars
    BY DEF Chars
  <2>4. Expansion(c) \in Seq(Chars) /\ Len(Expansion(c)) = 1 /\ Expansion(c)[1] = "."
    BY <2>2, <2>3
  <2> QED BY <1>3, <2>1, <2>4 DEF Special
<1>4. CASE c \notin Repeats /\ c \notin Escaped /\ c # "?"
  <2>1. Expansion(c) = <<c>>
    BY <1>4 DEF Expansion
  <2> QED BY <1>4, <2>1 DEF Special, Chars
<1> QED BY <1>1, <1>2, <1>3, <1>4

\* Where the n-th character of a glob ends in its body.
At(glob, n) == n + Doubled(glob, n)

\* One more character ends behind the ones before it.
LEMMA AtTurns ==
  ASSUME NEW glob \in Seq(Chars), NEW n \in Nat, n < Len(glob)
  PROVE  /\ At(glob, n) \in Nat
         /\ At(glob, n + 1) = At(glob, n) + Len(Expansion(glob[n + 1]))
<1> DEFINE e == Expansion(glob[n + 1])
<1>1. glob[n + 1] \in Chars
  OBVIOUS
<1>2. /\ glob[n + 1] \in Special => Len(e) = 2
      /\ glob[n + 1] \notin Special => Len(e) = 1
  BY <1>1, ExpansionShape
<1> HIDE DEF e
<1>3. /\ Doubled(glob, n) \in Nat
      /\ glob[n + 1] \in Special => Doubled(glob, n + 1) = Doubled(glob, n) + 1
      /\ glob[n + 1] \notin Special => Doubled(glob, n + 1) = Doubled(glob, n)
  BY DoubledTurns
<1>4. At(glob, n) = n + Doubled(glob, n) /\ At(glob, n + 1) = n + 1 + Doubled(glob, n + 1)
  BY DEF At
<1>5. At(glob, n) \in Nat /\ At(glob, n + 1) = At(glob, n) + Len(e)
  <2>1. CASE glob[n + 1] \in Special
    <3>1. Doubled(glob, n + 1) = Doubled(glob, n) + 1 /\ Len(e) = 2
      BY <1>2, <1>3, <2>1
    <3> QED BY <1>3, <1>4, <3>1
  <2>2. CASE glob[n + 1] \notin Special
    <3>1. Doubled(glob, n + 1) = Doubled(glob, n) /\ Len(e) = 1
      BY <1>2, <1>3, <2>2
    <3> QED BY <1>3, <1>4, <3>1
  <2> QED BY <2>1, <2>2
<1> QED BY <1>5 DEF e

\* A later character does not end before an earlier one.
LEMMA AtGrows ==
  ASSUME NEW glob, NEW m \in Nat, NEW n \in Nat, m <= n
  PROVE  At(glob, m) <= At(glob, n)
<1>1. Doubled(glob, m) <= Doubled(glob, n) /\ Doubled(glob, m) \in Nat /\ Doubled(glob, n) \in Nat
  BY DoubledGrows, DoubledTurns
<1> QED BY <1>1 DEF At

\* The first n characters of a glob are in the body s, each where it belongs.
IsBody(s, glob, n) ==
  /\ s \in Seq(Chars) /\ Len(s) = At(glob, n)
  /\ \A i \in 1..n : /\ s[At(glob, i - 1) + 1] = Expansion(glob[i])[1]
                     /\ glob[i] \in Special => s[At(glob, i - 1) + 2] = Expansion(glob[i])[2]

\* A body with the expansion of one more character is the body of one more.
LEMMA IsBodyTurns ==
  ASSUME NEW glob \in Seq(Chars), NEW n \in Nat, n < Len(glob), NEW s, IsBody(s, glob, n)
  PROVE  IsBody(s \o Expansion(glob[n + 1]), glob, n + 1)
<1> DEFINE e == Expansion(glob[n + 1])
           t == s \o e
<1>1. glob[n + 1] \in Chars
  OBVIOUS
<1>2. /\ e \in Seq(Chars)
      /\ glob[n + 1] \in Special => Len(e) = 2
      /\ glob[n + 1] \notin Special => Len(e) = 1
  BY <1>1, ExpansionShape
<1> HIDE DEF e
<1>3. At(glob, n) \in Nat /\ At(glob, n + 1) = At(glob, n) + Len(e)
  BY AtTurns DEF e
<1>4. t \in Seq(Chars) /\ Len(t) = At(glob, n + 1)
  <2>1. s \in Seq(Chars) /\ Len(s) = At(glob, n)
    BY DEF IsBody
  <2>2. t \in Seq(Chars) /\ Len(t) = Len(s) + Len(e)
    BY <1>2, <2>1, Joined
  <2> QED BY <1>3, <2>1, <2>2
<1>5. ASSUME NEW i \in 1..n
      PROVE  /\ t[At(glob, i - 1) + 1] = Expansion(glob[i])[1]
             /\ glob[i] \in Special => t[At(glob, i - 1) + 2] = Expansion(glob[i])[2]
  <2> DEFINE m == i - 1
             w == Len(Expansion(glob[m + 1]))
  <2>0. m \in Nat /\ m < Len(glob) /\ m + 1 = i /\ m + 1 \in Nat /\ m + 1 <= n /\ glob[m + 1] \in Chars
    OBVIOUS
  <2> HIDE DEF m
  <2>1. At(glob, m) \in Nat /\ At(glob, m) + w <= At(glob, n) /\ w \in {1, 2}
        /\ (glob[m + 1] \in Special => w = 2)
    <3>1. At(glob, m) \in Nat /\ At(glob, m + 1) = At(glob, m) + w
      BY <2>0, AtTurns
    <3>2. At(glob, m + 1) <= At(glob, n)
      BY <2>0, AtGrows
    <3>3. w \in {1, 2} /\ (glob[m + 1] \in Special => w = 2)
      BY <2>0, ExpansionShape
    <3> QED BY <3>1, <3>2, <3>3
  <2> HIDE DEF w
  <2>2. \A j \in 1..At(glob, n) : t[j] = s[j]
    BY <1>2 DEF IsBody
  <2>3. t[At(glob, m) + 1] = s[At(glob, m) + 1]
        /\ (glob[m + 1] \in Special => t[At(glob, m) + 2] = s[At(glob, m) + 2])
    <3> DEFINE p == At(glob, m)
               q == At(glob, n)
    <3>1. p \in Nat /\ q \in Nat /\ p + w <= q /\ w \in {1, 2}
      BY <1>3, <2>1
    <3> HIDE DEF p, q
    <3>2. p + 1 \in 1..q /\ (w = 2 => p + 2 \in 1..q)
      BY <3>1
    <3>3. \A j \in 1..q : t[j] = s[j]
      BY <2>2 DEF q
    <3>4. t[p + 1] = s[p + 1] /\ (w = 2 => t[p + 2] = s[p + 2])
      BY <3>2, <3>3
    <3> QED BY <2>1, <3>4 DEF p
  <2>4. /\ s[At(glob, i - 1) + 1] = Expansion(glob[i])[1]
        /\ glob[i] \in Special => s[At(glob, i - 1) + 2] = Expansion(glob[i])[2]
    BY DEF IsBody
  <2> QED BY <2>0, <2>3, <2>4 DEF m
<1>6. t[At(glob, n) + 1] = e[1] /\ (glob[n + 1] \in Special => t[At(glob, n) + 2] = e[2])
  BY <1>2, <1>3 DEF IsBody
<1> HIDE DEF t
<1>7. IsBody(t, glob, n + 1)
  BY <1>4, <1>5, <1>6 DEF IsBody, e
<1> QED BY <1>7 DEF t, e

\* The body of a glob is the expansions of its characters, each at its place.
LEMMA BodyShape ==
  ASSUME NEW glob \in Seq(Chars)
  PROVE  IsBody(Body(glob), glob, Len(glob))
<1> DEFINE L == Len(glob)
           E == [i \in 1..L |-> Expansion(glob[i])]
           f == [x \in Seq(Chars) \X (1..L) |-> x[1] \o E[x[2]]]
           flatten[i \in 1..L] == IF i = 1 THEN E[i] ELSE flatten[i - 1] \o E[i]
<1>1. L \in Nat /\ \A i \in 1..L : E[i] \in Seq(Chars)
  BY ExpansionShape
<1>2. E \in Seq(Seq(Chars)) /\ Len(E) = L
  BY <1>1
<1>3. CASE L = 0
  <2>1. Body(glob) = E
    BY <1>2, <1>3 DEF Body, FlattenSeq
  <2>2. E \in Seq(Chars)
    BY <1>3
  <2> QED BY <1>2, <1>3, <2>1, <2>2, DoubledTurns DEF IsBody, At
<1>4. CASE L # 0
  <2>1. \E g : IsTurns(g, Seq(Chars), f, <<>>, L)
    <3>1. f \in [Seq(Chars) \X (1..L) -> Seq(Chars)]
      BY <1>1
    <3>2. <<>> \in Seq(Chars)
      OBVIOUS
    <3> HIDE DEF f, L
    <3> QED BY <1>1, <3>1, <3>2, Iterated
  <2>2. PICK g : IsTurns(g, Seq(Chars), f, <<>>, L)
    BY <2>1
  <2> DEFINE h == [i \in 1..L |-> IF i = 1 THEN E[i] ELSE g[i - 1] \o E[i]]
  <2>3. ASSUME NEW i \in 1..L PROVE g[i] \in Seq(Chars) /\ g[i] = h[i]
    <3>1. i \in 0..L /\ i - 1 \in 0..L /\ i # 0
      BY <1>1
    <3>2. g[i] = g[i - 1] \o E[i] /\ g[i] \in Seq(Chars) /\ g[i - 1] \in Seq(Chars)
      BY <1>1, <2>2, <3>1 DEF IsTurns
    <3>3. E[i] \in Seq(Chars)
      BY <1>1
    <3> HIDE DEF E, f
    <3>4. 0 \in 0..L /\ g[0] = <<>>
      BY <1>1, <2>2 DEF IsTurns
    <3>5. CASE i = 1
      <4>1. i - 1 = 0
        BY <3>5
      <4>2. g[i] = <<>> \o E[i]
        BY <3>2, <3>4, <4>1
      <4>3. g[i] = E[i]
        BY <3>3, <4>2
      <4> QED BY <3>2, <3>5, <4>3
    <3> QED BY <3>2, <3>5
  <2>4. [i \in 1..L |-> g[i]] = [i \in 1..L |-> IF i = 1 THEN E[i] ELSE [j \in 1..L |-> g[j]][i - 1] \o E[i]]
    <3> DEFINE k == [i \in 1..L |-> g[i]]
    <3>1. ASSUME NEW i \in 1..L PROVE k[i] = IF i = 1 THEN E[i] ELSE k[i - 1] \o E[i]
      <4>1. k[i] = h[i] /\ (i # 1 => k[i - 1] = g[i - 1])
        BY <2>3
      <4> HIDE DEF k, E
      <4> QED BY <4>1
    <3> HIDE DEF E
    <3> QED BY <3>1
  <2>5. \E k : k = [i \in 1..L |-> IF i = 1 THEN E[i] ELSE k[i - 1] \o E[i]]
    <3> HIDE DEF E
    <3> QED BY <2>4
  <2>6. flatten = [i \in 1..L |-> IF i = 1 THEN E[i] ELSE flatten[i - 1] \o E[i]]
    <3> HIDE DEF E
    <3> QED BY <2>5
  <2>7. Body(glob) = flatten[L]
    BY <1>2, <1>4 DEF Body, FlattenSeq
  <2> HIDE DEF flatten
  <2> DEFINE S == {n \in Nat : n + 1 <= L => IsBody(flatten[n + 1], glob, n + 1)}
  <2>8. IsBody(<<>>, glob, 0)
    BY DoubledTurns DEF IsBody, At
  <2>9. 0 \in S
    <3> HIDE DEF S
    <3>1. \A n \in Nat : n < Len(glob) /\ IsBody(<<>>, glob, n) =>
            IsBody(<<>> \o Expansion(glob[n + 1]), glob, n + 1)
      BY IsBodyTurns
    <3>2. 0 \in Nat /\ 0 < Len(glob) /\ 0 + 1 = 1
      BY <1>1, <1>4
    <3>4. IsBody(<<>> \o Expansion(glob[1]), glob, 1)
      BY <2>8, <3>1, <3>2
    <3>5. <<>> \o Expansion(glob[1]) = Expansion(glob[1])
      BY <1>1, <1>4
    <3>6. flatten[1] = Expansion(glob[1])
      BY <1>1, <1>4, <2>6
    <3> QED BY <3>4, <3>5, <3>6 DEF S
  <2>10. ASSUME NEW n \in Nat, n \in S PROVE n + 1 \in S
    <3> SUFFICES ASSUME (n + 1) + 1 <= L PROVE IsBody(flatten[(n + 1) + 1], glob, (n + 1) + 1)
      OBVIOUS
    <3> DEFINE m == n + 1
    <3>1. m + 1 \in 1..L /\ m + 1 # 1 /\ (m + 1) - 1 = m /\ E[m + 1] = Expansion(glob[m + 1])
      BY <1>1
    <3>2. IsBody(flatten[m], glob, m) /\ m \in Nat /\ m < Len(glob)
      BY <1>1, <2>10
    <3> HIDE DEF E, m
    <3>3. flatten[m + 1] = flatten[m] \o Expansion(glob[m + 1])
      BY <2>6, <3>1
    <3>4. IsBody(flatten[m + 1], glob, m + 1)
      BY <3>2, <3>3, IsBodyTurns
    <3> QED BY <3>4 DEF m
  <2>11. L - 1 \in S
    <3> HIDE DEF S
    <3> QED BY <1>1, <1>4, <2>9, <2>10, SetInduction
  <2> QED BY <1>1, <1>4, <2>7, <2>11
<1> QED BY <1>3, <1>4
-----------------------------------------------------------------------------
(* What regcomp makes of a converted glob. *)

Pieces == [kind : {"any", "char", "anchor", "or"}, c : Chars, rep : {"once", "*", "+", "?"}]
States == [pieces : Seq(Pieces), escape : BOOLEAN, ok : BOOLEAN]

\* A piece is a piece.
LEMMA PieceType ==
  ASSUME NEW kind \in {"any", "char", "anchor", "or"}, NEW c \in Chars
  PROVE  Piece(kind, c) \in Pieces
BY DEF Piece, Pieces

\* What regcomp knows after one more piece.
LEMMA AddState ==
  ASSUME NEW st \in States, NEW piece \in Pieces
  PROVE  /\ Add(st, piece) \in States
         /\ Add(st, piece).pieces = Append(st.pieces, piece)
         /\ ~Add(st, piece).escape /\ Add(st, piece).ok = st.ok
<1>1. st.pieces \in Seq(Pieces)
  BY DEF States
<1>2. Append(st.pieces, piece) \in Seq(Pieces)
  BY <1>1, AppendProperties
<1> DEFINE a == Append(st.pieces, piece)
           r == [st EXCEPT !.pieces = a, !.escape = FALSE]
<1>3. Add(st, piece) = r
  BY DEF Add
<1> HIDE DEF a
<1>4. r \in States /\ r.pieces = a /\ r.escape = FALSE /\ r.ok = st.ok
  BY <1>2 DEF States, a
<1> HIDE DEF r
<1> QED BY <1>3, <1>4 DEF a

\* What it knows after a repetition: the last piece is repeated, and no other.
LEMMA RepeatState ==
  ASSUME NEW st \in States, st.pieces # <<>>, NEW rep \in {"*", "+", "?"}
  PROVE  LET r == Repeat(st, rep)
         IN  /\ r \in States /\ Len(r.pieces) = Len(st.pieces)
             /\ \A i \in 1..(Len(st.pieces) - 1) : r.pieces[i] = st.pieces[i]
             /\ r.pieces[Len(st.pieces)] = [st.pieces[Len(st.pieces)] EXCEPT !.rep = rep]
             /\ r.escape = st.escape /\ r.ok = st.ok
<1> DEFINE s == st.pieces
           last == [s[Len(s)] EXCEPT !.rep = rep]
           t == SubSeq(s, 1, Len(s) - 1) \o <<last>>
<1>1. s \in Seq(Pieces) /\ Len(s) \in Nat /\ Len(s) >= 1
  BY DEF States
<1>2. last \in Pieces
  <2>1. s[Len(s)] \in Pieces
    BY <1>1
  <2> QED BY <2>1 DEF Pieces
<1>3. Repeat(st, rep) = [st EXCEPT !.pieces = t]
  BY DEF Repeat, Front, Last
<1> HIDE DEF s, last
<1> DEFINE u == SubSeq(s, 1, Len(s) - 1)
           v == <<last>>
<1>4. /\ u \in Seq(Pieces) /\ Len(u) = Len(s) - 1
      /\ \A i \in 1..(Len(s) - 1) : u[i] = s[i]
  <2>1. Len(s) - 1 \in Nat /\ Len(s) - 1 <= Len(s)
    BY <1>1
  <2> QED BY <1>1, <2>1, FirstOnes
<1>5. v \in Seq(Pieces) /\ Len(v) = 1 /\ v[1] = last
  BY <1>2
<1>6. /\ t \in Seq(Pieces) /\ Len(t) = Len(s)
      /\ \A i \in 1..(Len(s) - 1) : t[i] = s[i]
      /\ t[Len(s)] = last
  <2>1. t = u \o v
    OBVIOUS
  <2> HIDE DEF u, v, t
  <2>2. /\ t \in Seq(Pieces) /\ Len(t) = Len(u) + Len(v)
        /\ \A i \in 1..Len(u) : t[i] = u[i]
        /\ \A i \in 1..Len(v) : t[Len(u) + i] = v[i]
    <3>1. /\ u \o v \in Seq(Pieces) /\ Len(u \o v) = Len(u) + Len(v)
          /\ \A i \in 1..Len(u) : (u \o v)[i] = u[i]
          /\ \A i \in 1..Len(v) : (u \o v)[Len(u) + i] = v[i]
      BY <1>4, <1>5, Joined
    <3> QED BY <2>1, <3>1
  <2>3. 1 \in 1..Len(v) /\ Len(u) + 1 = Len(s)
    BY <1>1, <1>4, <1>5
  <2> QED BY <1>1, <1>4, <1>5, <2>2, <2>3
<1> HIDE DEF t
<1> QED BY <1>3, <1>6 DEF States, s, last

\* Every character leaves regcomp in one of its states.
LEMMA NextPieceType ==
  ASSUME NEW st \in States, NEW c \in Chars
  PROVE  NextPiece(st, c) \in States
<1>1. /\ Piece("char", c) \in Pieces /\ Piece("any", c) \in Pieces
      /\ Piece("anchor", c) \in Pieces /\ Piece("or", c) \in Pieces
  BY PieceType
<1>2. /\ Add(st, Piece("char", c)) \in States /\ Add(st, Piece("any", c)) \in States
      /\ Add(st, Piece("anchor", c)) \in States /\ Add(st, Piece("or", c)) \in States
  BY <1>1, AddState
<1>3. [st EXCEPT !.escape = TRUE] \in States /\ [st EXCEPT !.ok = FALSE] \in States
  BY DEF States
<1>4. c \in Repeats \union {"?"} /\ Repeatable(st.pieces) => Repeat(st, c) \in States
  BY RepeatState DEF Repeats, Repeatable
<1>5. CASE st.escape
  BY <1>2, <1>5 DEF NextPiece
<1>6. CASE ~st.escape /\ c = "\\"
  BY <1>3, <1>6 DEF NextPiece, Repeats
<1>7. CASE ~st.escape /\ c \in Repeats \union {"?"}
  <2>1. NextPiece(st, c) = IF Repeatable(st.pieces) THEN Repeat(st, c) ELSE [st EXCEPT !.ok = FALSE]
    BY <1>7 DEF NextPiece, Repeats
  <2> QED BY <1>3, <1>4, <1>7, <2>1
<1>8. CASE ~st.escape /\ c = "."
  BY <1>2, <1>8 DEF NextPiece, Repeats
<1>9. CASE ~st.escape /\ c \in {"^", "$"}
  BY <1>2, <1>9 DEF NextPiece, Repeats
<1>10. CASE ~st.escape /\ c = "|"
  BY <1>2, <1>10 DEF NextPiece, Repeats
<1>11. CASE ~st.escape /\ c \notin Repeats \union {"?", "\\", ".", "^", "$", "|"}
  BY <1>2, <1>11 DEF NextPiece, Repeats
<1> QED BY <1>5, <1>6, <1>7, <1>8, <1>9, <1>10, <1>11

\* regcomp, character by character.
LEMMA RegcompTurns ==
  ASSUME NEW pattern \in Seq(Chars)
  PROVE  \E after : /\ after[0] = NoPieces
                    /\ \A n \in 1..Len(pattern) : after[n] = NextPiece(after[n - 1], pattern[n])
                    /\ regcomp(pattern) = after[Len(pattern)]
<1> DEFINE N == Len(pattern)
           f == [x \in States \X (1..N) |-> NextPiece(x[1], pattern[x[2]])]
           after[n \in 0..N] == IF n = 0 THEN NoPieces ELSE NextPiece(after[n - 1], pattern[n])
<1>1. N \in Nat /\ \A n \in 1..N : pattern[n] \in Chars
  OBVIOUS
<1>2. f \in [States \X (1..N) -> States]
  BY <1>1, NextPieceType
<1>3. NoPieces \in States
  BY DEF NoPieces, States
<1>4. \E g : IsTurns(g, States, f, NoPieces, N)
  <2> HIDE DEF f, N
  <2> QED BY <1>1, <1>2, <1>3, Iterated
<1>5. PICK g : IsTurns(g, States, f, NoPieces, N)
  BY <1>4
<1> HIDE DEF N
<1>6. ASSUME NEW n \in 1..N PROVE g[n] = NextPiece(g[n - 1], pattern[n])
  <2>1. n - 1 \in 0..N
    BY <1>1
  <2>2. g[n] = f[<<g[n - 1], n>>] /\ g[n - 1] \in States
    <3> HIDE DEF f
    <3> QED BY <2>1, <1>5 DEF IsTurns
  <2> QED BY <2>2
<1>7. g = [n \in 0..N |-> IF n = 0 THEN NoPieces ELSE NextPiece(g[n - 1], pattern[n])]
  <2> HIDE DEF f
  <2> DEFINE h == [n \in 0..N |-> IF n = 0 THEN NoPieces ELSE NextPiece(g[n - 1], pattern[n])]
  <2>1. g \in [0..N -> States] /\ g[0] = NoPieces
    BY <1>5 DEF IsTurns
  <2>2. ASSUME NEW n \in 0..N PROVE g[n] = h[n]
    <3>1. CASE n = 0
      BY <2>1, <3>1
    <3>2. CASE n # 0
      <4>1. n \in 1..N
        BY <1>1, <3>2
      <4> QED BY <1>6, <3>2, <4>1
    <3> QED BY <3>1, <3>2
  <2> QED BY <2>1, <2>2
<1>8. \E a : a = [n \in 0..N |-> IF n = 0 THEN NoPieces ELSE NextPiece(a[n - 1], pattern[n])]
  BY <1>7
<1>9. after = [n \in 0..N |-> IF n = 0 THEN NoPieces ELSE NextPiece(after[n - 1], pattern[n])]
  BY <1>8
<1>10. regcomp(pattern) = after[N]
  BY DEF regcomp, N
<1> HIDE DEF after
<1>11. after[0] = NoPieces /\ \A n \in 1..N : after[n] = NextPiece(after[n - 1], pattern[n])
  BY <1>1, <1>9
<1> QED BY <1>10, <1>11 DEF N
-----------------------------------------------------------------------------
(* regexec and the meaning of a glob, position by position. *)

\* regexec, piece by piece, where there is one alternative.
LEMMA RegexecTurns ==
  ASSUME NEW str, Len(str) \in Nat, NEW pieces, Len(pieces) \in Nat,
         \A n \in 1..Len(pieces) : pieces[n].kind # "or"
  PROVE  \E after : /\ after[0] = 0..Len(str)
                    /\ \A n \in 1..Len(pieces) :
                         /\ after[n - 1] \subseteq 0..Len(str)
                         /\ after[n] = Reached(str, after[n - 1], pieces[n])
                    /\ after[Len(pieces)] \subseteq 0..Len(str)
                    /\ regexec(pieces, str) = (after[Len(pieces)] # {})
<1> DEFINE N == Len(pieces)
           D == SUBSET (0..Len(str))
           start == 0..Len(str)
           f == [x \in D \X (1..N) |-> Reached(str, x[1], pieces[x[2]])]
           after[n \in 0..N] == IF BeginsAlternative(pieces, n) THEN start
                                ELSE Reached(str, after[n - 1], pieces[n])
<1>0. /\ \A n \in 0..N : BeginsAlternative(pieces, n) = (n = 0)
      /\ \A n \in 0..N : EndsAlternative(pieces, n) = (n = N)
  BY DEF BeginsAlternative, EndsAlternative
<1>1. \A P \in D, n \in 1..N : Reached(str, P, pieces[n]) \in D
  BY DEF Reached
<1>2. f \in [D \X (1..N) -> D]
  <2> HIDE DEF D
  <2> QED BY <1>1
<1>3. start \in D
  OBVIOUS
<1>4. \E g : IsTurns(g, D, f, start, N)
  <2> HIDE DEF f, D, start
  <2> QED BY <1>2, <1>3, Iterated
<1>5. PICK g : IsTurns(g, D, f, start, N)
  BY <1>4
<1> HIDE DEF N, D, start
<1>6. ASSUME NEW n \in 1..N PROVE g[n] = Reached(str, g[n - 1], pieces[n])
  <2>1. n - 1 \in 0..N
    BY DEF N
  <2>2. g[n] = f[<<g[n - 1], n>>] /\ g[n - 1] \in D
    <3> HIDE DEF f
    <3> QED BY <2>1, <1>5 DEF IsTurns
  <2> QED BY <2>2
<1>7. g = [n \in 0..N |-> IF BeginsAlternative(pieces, n) THEN start
                              ELSE Reached(str, g[n - 1], pieces[n])]
  <2> HIDE DEF f
  <2> DEFINE h == [n \in 0..N |-> IF BeginsAlternative(pieces, n) THEN start
                                 ELSE Reached(str, g[n - 1], pieces[n])]
  <2>1. g \in [0..N -> D] /\ g[0] = start
    BY <1>5 DEF IsTurns
  <2>2. ASSUME NEW n \in 0..N PROVE g[n] = h[n]
    <3>1. CASE n = 0
      BY <2>1, <3>1, <1>0
    <3>2. CASE n # 0
      <4>1. n \in 1..N
        BY <3>2 DEF N
      <4> QED BY <1>0, <1>6, <3>2, <4>1
    <3> QED BY <3>1, <3>2
  <2> QED BY <2>1, <2>2
<1>8. \E a : a = [n \in 0..N |-> IF BeginsAlternative(pieces, n) THEN start
                                   ELSE Reached(str, a[n - 1], pieces[n])]
  BY <1>7
<1>9. after = [n \in 0..N |-> IF BeginsAlternative(pieces, n) THEN start
                              ELSE Reached(str, after[n - 1], pieces[n])]
  BY <1>8
<1>10. regexec(pieces, str) = (\E n \in 0..N : EndsAlternative(pieces, n) /\ after[n] # {})
  BY DEF regexec, N, start
<1> HIDE DEF after
<1>11. after[0] = start /\ \A n \in 1..N : after[n] = Reached(str, after[n - 1], pieces[n])
  <2>1. \A n \in 0..N : after[n] = IF BeginsAlternative(pieces, n) THEN start
                                  ELSE Reached(str, after[n - 1], pieces[n])
    BY <1>9
  <2>2. 0 \in 0..N /\ \A n \in 1..N : n \in 0..N /\ n # 0
    BY DEF N
  <2>3. after[0] = start
    BY <1>0, <2>1, <2>2
  <2>4. ASSUME NEW n \in 1..N PROVE after[n] = Reached(str, after[n - 1], pieces[n])
    BY <1>0, <2>1, <2>2
  <2> QED BY <2>3, <2>4
<1>12. \A n \in 0..N : after[n] \in D
  <2> DEFINE S == {n \in Nat : n <= N => after[n] \in D}
  <2>1. 0 \in S
    BY <1>3, <1>11
  <2>2. ASSUME NEW n \in Nat, n \in S PROVE n + 1 \in S
    <3> SUFFICES ASSUME n + 1 <= N PROVE after[n + 1] \in D
      OBVIOUS
    <3>1. after[n] \in D /\ n + 1 \in 1..N /\ (n + 1) - 1 = n
      BY <2>2 DEF N
    <3>2. after[n + 1] = Reached(str, after[n], pieces[n + 1])
      BY <1>11, <3>1
    <3> QED BY <1>1, <3>1, <3>2
  <2>3. Nat \subseteq S
    <3> HIDE DEF S
    <3> QED BY <2>1, <2>2, SetInduction
  <2> QED BY <2>3 DEF N
<1>13. N \in 0..N /\ \A n \in 1..N : n - 1 \in 0..N
  BY DEF N
<1>14. regexec(pieces, str) = (after[N] # {})
  BY <1>0, <1>10, <1>13
<1> QED BY <1>11, <1>12, <1>13, <1>14 DEF N, D, start

\* The meaning of a glob, character by character.
LEMMA GlobMatchesTurns ==
  ASSUME NEW str, Len(str) \in Nat, NEW glob, Len(glob) \in Nat
  PROVE  \E after : /\ after[0] = {0}
                    /\ \A n \in 1..Len(glob) :
                         /\ after[n - 1] \subseteq 0..Len(str)
                         /\ after[n] = GlobStep(str, after[n - 1], glob[n])
                    /\ after[Len(glob)] \subseteq 0..Len(str)
                    /\ GlobMatches(glob, str) = (Len(str) \in after[Len(glob)])
<1> DEFINE N == Len(glob)
           D == SUBSET (0..Len(str))
           start == {0}
           f == [x \in D \X (1..N) |-> GlobStep(str, x[1], glob[x[2]])]
           after[n \in 0..N] == IF n = 0 THEN start ELSE GlobStep(str, after[n - 1], glob[n])
<1>1. \A P \in D, n \in 1..N : GlobStep(str, P, glob[n]) \in D
  BY DEF GlobStep
<1>2. f \in [D \X (1..N) -> D]
  <2> HIDE DEF D
  <2> QED BY <1>1
<1>3. start \in D
  OBVIOUS
<1>4. \E g : IsTurns(g, D, f, start, N)
  <2> HIDE DEF f, D, start
  <2> QED BY <1>2, <1>3, Iterated
<1>5. PICK g : IsTurns(g, D, f, start, N)
  BY <1>4
<1> HIDE DEF N, D, start
<1>6. ASSUME NEW n \in 1..N PROVE g[n] = GlobStep(str, g[n - 1], glob[n])
  <2>1. n - 1 \in 0..N
    BY DEF N
  <2>2. g[n] = f[<<g[n - 1], n>>] /\ g[n - 1] \in D
    <3> HIDE DEF f
    <3> QED BY <2>1, <1>5 DEF IsTurns
  <2> QED BY <2>2
<1>7. g = [n \in 0..N |-> IF n = 0 THEN start ELSE GlobStep(str, g[n - 1], glob[n])]
  <2> HIDE DEF f
  <2> DEFINE h == [n \in 0..N |-> IF n = 0 THEN start ELSE GlobStep(str, g[n - 1], glob[n])]
  <2>1. g \in [0..N -> D] /\ g[0] = start
    BY <1>5 DEF IsTurns
  <2>2. ASSUME NEW n \in 0..N PROVE g[n] = h[n]
    <3>1. CASE n = 0
      BY <2>1, <3>1
    <3>2. CASE n # 0
      <4>1. n \in 1..N
        BY <3>2 DEF N
      <4> QED BY <1>6, <3>2, <4>1
    <3> QED BY <3>1, <3>2
  <2> QED BY <2>1, <2>2
<1>8. \E a : a = [n \in 0..N |-> IF n = 0 THEN start ELSE GlobStep(str, a[n - 1], glob[n])]
  BY <1>7
<1>9. after = [n \in 0..N |-> IF n = 0 THEN start ELSE GlobStep(str, after[n - 1], glob[n])]
  BY <1>8
<1>10. GlobMatches(glob, str) = (Len(str) \in after[N])
  BY DEF GlobMatches, N, start
<1> HIDE DEF after
<1>11. after[0] = start /\ \A n \in 1..N : after[n] = GlobStep(str, after[n - 1], glob[n])
  BY <1>9 DEF N
<1>12. \A n \in 0..N : after[n] \in D
  <2> DEFINE S == {n \in Nat : n <= N => after[n] \in D}
  <2>1. 0 \in S
    BY <1>3, <1>11
  <2>2. ASSUME NEW n \in Nat, n \in S PROVE n + 1 \in S
    <3> SUFFICES ASSUME n + 1 <= N PROVE after[n + 1] \in D
      OBVIOUS
    <3>1. after[n] \in D /\ n + 1 \in 1..N /\ (n + 1) - 1 = n
      BY <2>2 DEF N
    <3>2. after[n + 1] = GlobStep(str, after[n], glob[n + 1])
      BY <1>11, <3>1
    <3> QED BY <1>1, <3>1, <3>2
  <2>3. Nat \subseteq S
    <3> HIDE DEF S
    <3> QED BY <2>1, <2>2, SetInduction
  <2> QED BY <2>3 DEF N
<1>13. N \in 0..N /\ \A n \in 1..N : n - 1 \in 0..N
  BY DEF N
<1> QED BY <1>10, <1>11, <1>12, <1>13 DEF N, D, start
-----------------------------------------------------------------------------
(* A glob that is converted, compiled and executed. *)

\* The piece a character of a glob becomes.
PieceOf(c) ==
  IF c \in Repeats THEN [Piece("any", ".") EXCEPT !.rep = c]
  ELSE IF c = "?" THEN Piece("any", ".") ELSE Piece("char", c)

\* The piece of a character reaches what the character means.
LEMMA StepOfPiece ==
  ASSUME NEW str, Len(str) \in Nat, NEW P, P \subseteq 0..Len(str), NEW c
  PROVE  Reached(str, P, PieceOf(c)) = GlobStep(str, P, c)
<1> DEFINE L == Len(str)
<1>1. CASE c = "*"
  <2>1. PieceOf(c) = [kind |-> "any", c |-> ".", rep |-> "*"]
    BY <1>1 DEF PieceOf, Piece, Repeats
  <2>2. Reached(str, P, PieceOf(c)) = {q \in 0..L : \E p \in P : q - p \in 0..L}
    BY <2>1 DEF Reached
  <2>3. GlobStep(str, P, c) = {q \in 0..L : \E p \in P : q >= p}
    BY <1>1 DEF GlobStep
  <2> QED BY <2>2, <2>3
<1>2. CASE c = "+"
  <2>1. PieceOf(c) = [kind |-> "any", c |-> ".", rep |-> "+"]
    BY <1>2 DEF PieceOf, Piece, Repeats
  <2>2. Reached(str, P, PieceOf(c)) = {q \in 0..L : \E p \in P : q - p \in 1..L}
    BY <2>1 DEF Reached
  <2>3. GlobStep(str, P, c) = {q \in 0..L : \E p \in P : q > p}
    BY <1>2 DEF GlobStep
  <2> QED BY <2>2, <2>3
<1>3. CASE c = "?"
  <2>1. PieceOf(c) = [kind |-> "any", c |-> ".", rep |-> "once"]
    BY <1>3 DEF PieceOf, Piece, Repeats
  <2>2. Reached(str, P, PieceOf(c)) = {q \in 0..L : \E p \in P : q - p \in 1..1}
    BY <2>1 DEF Reached
  <2>3. GlobStep(str, P, c) = {q \in 0..L : \E p \in P : q = p + 1}
    BY <1>3 DEF GlobStep
  <2> QED BY <2>2, <2>3
<1>4. CASE c \notin {"*", "+", "?"}
  <2>1. PieceOf(c) = [kind |-> "char", c |-> c, rep |-> "once"]
    BY <1>4 DEF PieceOf, Piece, Repeats
  <2>2. Reached(str, P, PieceOf(c))
          = {q \in 0..L : \E p \in P : q - p \in 1..1 /\ \A i \in (p + 1)..q : str[i] = c}
    BY <2>1 DEF Reached
  <2>3. GlobStep(str, P, c) = {q \in 0..L : \E p \in P : q = p + 1 /\ str[q] = c}
    BY <1>4 DEF GlobStep
  <2>4. ASSUME NEW q \in 0..L, NEW p \in P
        PROVE  (q - p \in 1..1 /\ \A i \in (p + 1)..q : str[i] = c) <=> (q = p + 1 /\ str[q] = c)
    <3>1. p \in Int /\ q \in Int
      OBVIOUS
    <3>2. q - p \in 1..1 <=> q = p + 1
      BY <3>1
    <3>3. q = p + 1 => (p + 1)..q = {q}
      BY <3>1
    <3> QED BY <3>2, <3>3
  <2> QED BY <2>2, <2>3, <2>4
<1> QED BY <1>1, <1>2, <1>3, <1>4

\* The state of regcomp after "^" and the first n characters of a glob.
HasPieces(st, glob, n) ==
  /\ st \in States /\ st.ok = TRUE
  /\ Len(st.pieces) = n + 1 /\ st.pieces[1] = Piece("anchor", "^")
  /\ \A i \in 1..n : st.pieces[i + 1] = PieceOf(glob[i])
Compiles(st, glob, n) == HasPieces(st, glob, n) /\ st.escape = FALSE

\* And after one more piece.
HasNext(st, glob, n, piece) ==
  /\ st \in States /\ st.ok = TRUE /\ st.escape = FALSE
  /\ Len(st.pieces) = n + 2 /\ st.pieces[1] = Piece("anchor", "^")
  /\ \A i \in 1..n : st.pieces[i + 1] = PieceOf(glob[i])
  /\ st.pieces[n + 2] = piece

\* A piece more is behind the pieces there were.
LEMMA CompilesAdd ==
  ASSUME NEW glob, NEW n \in Nat, NEW st, HasPieces(st, glob, n), NEW piece \in Pieces
  PROVE  HasNext(Add(st, piece), glob, n, piece)
<1> DEFINE r == Add(st, piece)
<1>1. st \in States /\ st.ok = TRUE /\ Len(st.pieces) = n + 1 /\ st.pieces \in Seq(Pieces)
  BY DEF HasPieces, States
<1>2. r \in States /\ r.pieces = Append(st.pieces, piece) /\ r.escape = FALSE /\ r.ok = TRUE
  BY <1>1, AddState
<1> HIDE DEF r
<1>3. /\ Len(r.pieces) = n + 2 /\ r.pieces[n + 2] = piece
      /\ \A i \in 1..(n + 1) : r.pieces[i] = st.pieces[i]
  <2>1. /\ Len(Append(st.pieces, piece)) = Len(st.pieces) + 1
        /\ \A i \in 1..Len(st.pieces) : Append(st.pieces, piece)[i] = st.pieces[i]
        /\ Append(st.pieces, piece)[Len(st.pieces) + 1] = piece
    BY <1>1, AppendProperties
  <2>2. (n + 1) + 1 = n + 2
    OBVIOUS
  <2> QED BY <1>1, <1>2, <2>1, <2>2
<1>4. \A i \in 1..n : i + 1 \in 1..(n + 1)
  OBVIOUS
<1>5. 1 \in 1..(n + 1)
  OBVIOUS
<1> QED BY <1>2, <1>3, <1>4, <1>5 DEF r, HasPieces, HasNext

\* With the piece of the next character, one more character is compiled.
LEMMA CompilesPiece ==
  ASSUME NEW glob, NEW n \in Nat, NEW r, HasNext(r, glob, n, PieceOf(glob[n + 1]))
  PROVE  Compiles(r, glob, n + 1)
<1>1. ASSUME NEW i \in 1..(n + 1) PROVE r.pieces[i + 1] = PieceOf(glob[i])
  <2>1. CASE i = n + 1
    <3>1. i + 1 = n + 2
      BY <2>1
    <3> QED BY <2>1, <3>1 DEF HasNext
  <2>2. CASE i # n + 1
    <3>1. i \in 1..n
      BY <2>2
    <3> QED BY <3>1 DEF HasNext
  <2> QED BY <2>1, <2>2
<1>2. n + 2 = (n + 1) + 1
  OBVIOUS
<1> QED BY <1>1, <1>2 DEF Compiles, HasPieces, HasNext

\* Characters without a meaning of their own in a regular expression.
Literal == Chars \ {"^", "$", "\\", "/", "|", "{"}

\* The expansion of the next character compiles to its piece.
LEMMA CompilesTurns ==
  ASSUME NEW glob, NEW n \in Nat, glob[n + 1] \in Literal, NEW st, Compiles(st, glob, n)
  PROVE  LET e == Expansion(glob[n + 1])
         IN  /\ glob[n + 1] \in Special =>
                  Compiles(NextPiece(NextPiece(st, e[1]), e[2]), glob, n + 1)
             /\ glob[n + 1] \notin Special => Compiles(NextPiece(st, e[1]), glob, n + 1)
<1> DEFINE c == glob[n + 1]
           e == Expansion(c)
           Goal == /\ c \in Special => Compiles(NextPiece(NextPiece(st, e[1]), e[2]), glob, n + 1)
                   /\ c \notin Special => Compiles(NextPiece(st, e[1]), glob, n + 1)
<1> SUFFICES Goal
  OBVIOUS
<1>1. c \in Chars /\ st \in States /\ st.escape = FALSE /\ HasPieces(st, glob, n)
  BY DEF Literal, Compiles, HasPieces
<1>2. "." \in Chars
  BY DEF Chars
<1>3. CASE c \in Repeats
  <2> DEFINE r == Add(st, Piece("any", "."))
             t == Repeat(r, c)
  <2>1. e[1] = "." /\ e[2] = c /\ c \in Special
    BY <1>1, <1>3, ExpansionShape DEF Special
  <2>2. Piece("any", ".") \in Pieces
    BY <1>2, PieceType
  <2>3. HasNext(r, glob, n, Piece("any", "."))
    BY <1>1, <2>2, CompilesAdd
  <2>4. NextPiece(st, ".") = r
    BY <1>1 DEF NextPiece, Repeats
  <2> HIDE DEF r
  <2>5. r.pieces # <<>> /\ c \in {"*", "+", "?"}
    BY <1>3, <2>3 DEF Repeats, HasNext
  <2>6. NextPiece(r, c) = t
    <3>1. Len(r.pieces) = n + 2 /\ r.pieces[n + 2].kind = "any"
      BY <2>3 DEF HasNext, Piece
    <3>2. Repeatable(r.pieces)
      BY <2>5, <3>1 DEF Repeatable, Last
    <3> QED BY <1>3, <2>3, <3>2 DEF NextPiece, Repeats, HasNext
  <2>7. /\ t \in States /\ Len(t.pieces) = Len(r.pieces)
        /\ \A i \in 1..(Len(r.pieces) - 1) : t.pieces[i] = r.pieces[i]
        /\ t.pieces[Len(r.pieces)] = [r.pieces[Len(r.pieces)] EXCEPT !.rep = c]
        /\ t.escape = r.escape /\ t.ok = r.ok
    BY <2>3, <2>5, RepeatState DEF HasNext
  <2> HIDE DEF t
  <2>8. t.pieces[1] = Piece("anchor", "^") /\ \A i \in 1..n : t.pieces[i + 1] = PieceOf(glob[i])
    <3>1. \A i \in 1..(n + 1) : t.pieces[i] = r.pieces[i]
      BY <2>3, <2>7 DEF HasNext
    <3>2. 1 \in 1..(n + 1) /\ \A i \in 1..n : i + 1 \in 1..(n + 1)
      OBVIOUS
    <3> QED BY <2>3, <3>1, <3>2 DEF HasNext
  <2>9. t.pieces[n + 2] = PieceOf(c)
    BY <1>3, <2>3, <2>7 DEF PieceOf, HasNext
  <2>10. HasNext(t, glob, n, PieceOf(c))
    BY <2>3, <2>7, <2>8, <2>9 DEF HasNext
  <2> HIDE DEF c
  <2>11. Compiles(t, glob, n + 1)
    BY <2>10, CompilesPiece DEF c
  <2> HIDE DEF e
  <2> QED BY <2>1, <2>4, <2>6, <2>11
<1>4. CASE c \in Escaped
  <2> DEFINE s == [st EXCEPT !.escape = TRUE]
             r == Add(s, Piece("char", c))
  <2>1. e[1] = "\\" /\ e[2] = c /\ c \in Special
    BY <1>1, <1>4, ExpansionShape DEF Special
  <2>2. Piece("char", c) \in Pieces
    BY <1>1, PieceType
  <2>3. NextPiece(st, "\\") = s
    BY <1>1 DEF NextPiece, Repeats
  <2>4. s.escape = TRUE /\ HasPieces(s, glob, n)
    BY <1>1 DEF HasPieces, States
  <2> HIDE DEF s
  <2>5. NextPiece(s, c) = r
    BY <2>4 DEF NextPiece
  <2>6. HasNext(r, glob, n, Piece("char", c))
    BY <2>2, <2>4, CompilesAdd
  <2> HIDE DEF r
  <2>7. PieceOf(c) = Piece("char", c)
    BY <1>4 DEF PieceOf, Repeats, Escaped
  <2> HIDE DEF c
  <2>8. Compiles(r, glob, n + 1)
    BY <2>6, <2>7, CompilesPiece DEF c
  <2> HIDE DEF e
  <2> QED BY <2>1, <2>3, <2>5, <2>8
<1>5. CASE c = "?"
  <2> DEFINE r == Add(st, Piece("any", "."))
  <2>1. e[1] = "." /\ c \notin Special
    BY <1>1, <1>5, ExpansionShape DEF Special, Repeats, Escaped
  <2>2. Piece("any", ".") \in Pieces
    BY <1>2, PieceType
  <2>3. NextPiece(st, ".") = r
    BY <1>1 DEF NextPiece, Repeats
  <2>4. HasNext(r, glob, n, Piece("any", "."))
    BY <1>1, <2>2, CompilesAdd
  <2> HIDE DEF r
  <2>5. PieceOf(c) = Piece("any", ".")
    BY <1>5 DEF PieceOf, Repeats
  <2> HIDE DEF c
  <2>6. Compiles(r, glob, n + 1)
    BY <2>4, <2>5, CompilesPiece DEF c
  <2> HIDE DEF e
  <2> QED BY <2>1, <2>3, <2>6
<1>6. CASE c \notin Special \union {"?"}
  <2> DEFINE r == Add(st, Piece("char", c))
  <2>1. e[1] = c
    BY <1>1, <1>6, ExpansionShape
  <2>2. Piece("char", c) \in Pieces
    BY <1>1, PieceType
  <2>3. NextPiece(st, c) = r
    <3>1. c \notin Repeats \union {"?"} /\ c # "\\" /\ c # "." /\ c \notin {"^", "$"} /\ c # "|"
      BY <1>6 DEF Special, Escaped, Literal
    <3> HIDE DEF c
    <3> QED BY <1>1, <3>1 DEF NextPiece
  <2>4. HasNext(r, glob, n, Piece("char", c))
    BY <1>1, <2>2, CompilesAdd
  <2> HIDE DEF r
  <2>5. PieceOf(c) = Piece("char", c)
    BY <1>6 DEF PieceOf, Special
  <2> HIDE DEF c
  <2>6. Compiles(r, glob, n + 1)
    BY <2>4, <2>5, CompilesPiece DEF c
  <2> HIDE DEF e
  <2> QED BY <1>6, <2>1, <2>3, <2>6
<1> QED BY <1>3, <1>4, <1>5, <1>6 DEF Special

\* The converted glob compiles to the pieces of its characters between anchors.
LEMMA RegcompOfBody ==
  ASSUME NEW glob \in Seq(Chars), \A i \in 1..Len(glob) : glob[i] \in Literal
  PROVE  HasNext(regcomp(<<"^">> \o Body(glob) \o <<"$">>), glob, Len(glob), Piece("anchor", "$"))
<1> DEFINE L == Len(glob)
           B == Body(glob)
           pattern == <<"^">> \o B \o <<"$">>
           end == At(glob, L)
<1>1. "^" \in Chars /\ "$" \in Chars /\ L \in Nat
  BY DEF Chars
<1>2. /\ B \in Seq(Chars) /\ Len(B) = end
      /\ \A i \in 1..L : /\ B[At(glob, i - 1) + 1] = Expansion(glob[i])[1]
                         /\ glob[i] \in Special => B[At(glob, i - 1) + 2] = Expansion(glob[i])[2]
  BY BodyShape DEF IsBody
<1> HIDE DEF B
<1>3. /\ pattern \in Seq(Chars) /\ Len(pattern) = end + 2 /\ end \in Nat
      /\ pattern[1] = "^" /\ pattern[end + 2] = "$"
      /\ \A j \in 1..end : pattern[1 + j] = B[j]
  <2> DEFINE first == <<"^">>
             last == <<"$">>
             front == first \o B
  <2>1. /\ first \in Seq(Chars) /\ Len(first) = 1 /\ first[1] = "^"
        /\ last \in Seq(Chars) /\ Len(last) = 1 /\ last[1] = "$"
    BY <1>1
  <2>2. pattern = front \o last
    OBVIOUS
  <2> HIDE DEF first, last, pattern, end
  <2>3. /\ front \in Seq(Chars) /\ Len(front) = 1 + end /\ end \in Nat
        /\ \A j \in 1..1 : front[j] = first[j]
        /\ \A j \in 1..end : front[1 + j] = B[j]
    <3>1. /\ first \o B \in Seq(Chars) /\ Len(first \o B) = Len(first) + Len(B) /\ Len(B) \in Nat
          /\ \A j \in 1..Len(first) : (first \o B)[j] = first[j]
          /\ \A j \in 1..Len(B) : (first \o B)[Len(first) + j] = B[j]
      BY <1>2, <2>1, Joined
    <3> QED BY <1>2, <2>1, <3>1
  <2> HIDE DEF front
  <2>4. /\ front \o last \in Seq(Chars) /\ Len(front \o last) = (1 + end) + 1
        /\ \A j \in 1..(1 + end) : (front \o last)[j] = front[j]
        /\ \A j \in 1..1 : (front \o last)[(1 + end) + j] = last[j]
    <3>0. front \in Seq(Chars) /\ last \in Seq(Chars)
      BY <2>1, <2>3
    <3>1. /\ front \o last \in Seq(Chars) /\ Len(front \o last) = Len(front) + Len(last)
          /\ \A j \in 1..Len(front) : (front \o last)[j] = front[j]
          /\ \A j \in 1..Len(last) : (front \o last)[Len(front) + j] = last[j]
      BY <3>0, Joined
    <3> QED BY <2>1, <2>3, <3>1
  <2>5. \A j \in 1..end : 1 + j \in 1..(1 + end)
    BY <2>3
  <2>6. 1 \in 1..1 /\ 1 \in 1..(1 + end) /\ (1 + end) + 1 = end + 2
    BY <2>3
  <2> QED BY <2>1, <2>2, <2>3, <2>4, <2>5, <2>6
<1> HIDE DEF pattern
<1>4. PICK after : /\ after[0] = NoPieces
                   /\ \A n \in 1..Len(pattern) : after[n] = NextPiece(after[n - 1], pattern[n])
                   /\ regcomp(pattern) = after[Len(pattern)]
  BY <1>3, RegcompTurns
<1> DEFINE S == {n \in Nat : n <= L => Compiles(after[At(glob, n) + 1], glob, n)}
<1>5. 0 \in S
  <2>1. At(glob, 0) = 0
    BY DoubledTurns DEF At
  <2>2. after[1] = NextPiece(NoPieces, "^")
    <3>1. 1 \in 1..Len(pattern) /\ 1 - 1 = 0
      BY <1>3
    <3> QED BY <1>3, <1>4, <3>1
  <2>3. NextPiece(NoPieces, "^") = Add(NoPieces, Piece("anchor", "^"))
    BY DEF NextPiece, NoPieces, Repeats
  <2>4. NoPieces \in States /\ NoPieces.pieces = <<>> /\ NoPieces.ok = TRUE
    BY DEF NoPieces, States
  <2>5. Piece("anchor", "^") \in Pieces
    BY <1>1, PieceType
  <2>6. /\ after[1] \in States /\ after[1].pieces = Append(<<>>, Piece("anchor", "^"))
        /\ after[1].escape = FALSE /\ after[1].ok = TRUE
    BY <2>2, <2>3, <2>4, <2>5, AddState
  <2>7. Len(after[1].pieces) = 1 /\ after[1].pieces[1] = Piece("anchor", "^")
    BY <2>5, <2>6
  <2>8. Compiles(after[1], glob, 0)
    BY <2>6, <2>7 DEF Compiles, HasPieces
  <2> QED BY <2>1, <2>8
<1>6. ASSUME NEW n \in Nat, n \in S PROVE n + 1 \in S
  <2> SUFFICES ASSUME n + 1 <= L PROVE Compiles(after[At(glob, n + 1) + 1], glob, n + 1)
    OBVIOUS
  <2> DEFINE e == Expansion(glob[n + 1])
             p == At(glob, n)
             q == At(glob, n + 1)
  <2>1. Compiles(after[p + 1], glob, n) /\ n < Len(glob) /\ n + 1 \in 1..L /\ (n + 1) - 1 = n
    BY <1>1, <1>6
  <2>2. glob[n + 1] \in Literal /\ glob[n + 1] \in Chars
    BY <2>1 DEF Literal
  <2>3. /\ glob[n + 1] \in Special =>
             Compiles(NextPiece(NextPiece(after[p + 1], e[1]), e[2]), glob, n + 1)
        /\ glob[n + 1] \notin Special => Compiles(NextPiece(after[p + 1], e[1]), glob, n + 1)
    BY <2>1, <2>2, CompilesTurns
  <2>4. p \in Nat /\ q = p + Len(e) /\ q <= end
    BY <1>1, <2>1, AtTurns, AtGrows
  <2>5. B[p + 1] = e[1] /\ (glob[n + 1] \in Special => B[p + 2] = e[2])
    BY <1>2, <2>1
  <2>6. /\ glob[n + 1] \in Special => Len(e) = 2
        /\ glob[n + 1] \notin Special => Len(e) = 1
    BY <2>2, ExpansionShape
  <2> HIDE DEF e, p, q, end
  <2>7. \A j \in 1..end : after[j + 1] = NextPiece(after[j], B[j])
    <3> SUFFICES ASSUME NEW j \in 1..end PROVE after[j + 1] = NextPiece(after[j], B[j])
      OBVIOUS
    <3>1. j + 1 \in 1..Len(pattern) /\ (j + 1) - 1 = j /\ 1 + j = j + 1
      BY <1>3
    <3>2. pattern[j + 1] = B[j]
      BY <1>3, <3>1
    <3> QED BY <1>4, <3>1, <3>2
  <2>8. CASE glob[n + 1] \in Special
    <3>1. q = p + 2 /\ p + 1 \in 1..end /\ p + 2 \in 1..end /\ (p + 1) + 1 = p + 2 /\ (p + 2) + 1 = q + 1
      <4>1. p \in Nat /\ end \in Nat /\ q = p + 2 /\ q <= end
        BY <1>3, <2>4, <2>6, <2>8
      <4> QED BY <4>1
    <3>2. after[p + 2] = NextPiece(after[p + 1], e[1]) /\ after[q + 1] = NextPiece(after[p + 2], e[2])
      BY <2>5, <2>7, <2>8, <3>1
    <3>3. Compiles(after[q + 1], glob, n + 1)
      BY <2>3, <2>8, <3>2
    <3> QED BY <3>3 DEF q
  <2>9. CASE glob[n + 1] \notin Special
    <3>1. q = p + 1 /\ p + 1 \in 1..end /\ (p + 1) + 1 = q + 1
      <4>1. p \in Nat /\ end \in Nat /\ q = p + 1 /\ q <= end
        BY <1>3, <2>4, <2>6, <2>9
      <4> QED BY <4>1
    <3>2. after[q + 1] = NextPiece(after[p + 1], e[1])
      BY <2>5, <2>7, <3>1
    <3>3. Compiles(after[q + 1], glob, n + 1)
      BY <2>3, <2>9, <3>2
    <3> QED BY <3>3 DEF q
  <2> QED BY <2>8, <2>9
<1>7. L \in S
  <2> HIDE DEF S
  <2> QED BY <1>1, <1>5, <1>6, SetInduction
<1>8. Compiles(after[end + 1], glob, L)
  BY <1>1, <1>7
<1> HIDE DEF S, end
<1>9. regcomp(pattern) = NextPiece(after[end + 1], "$")
  <2>1. end + 2 \in 1..Len(pattern) /\ (end + 2) - 1 = end + 1
    BY <1>3
  <2> QED BY <1>3, <1>4, <2>1
<1>10. NextPiece(after[end + 1], "$") = Add(after[end + 1], Piece("anchor", "$"))
  BY <1>8 DEF NextPiece, Compiles, Repeats
<1>11. HasNext(Add(after[end + 1], Piece("anchor", "$")), glob, L, Piece("anchor", "$"))
  <2>1. Piece("anchor", "$") \in Pieces
    BY <1>1, PieceType
  <2> HIDE DEF L
  <2> QED BY <1>1, <1>8, <2>1, CompilesAdd DEF Compiles
<1> QED BY <1>9, <1>10, <1>11 DEF pattern, B

\* A converted glob compiles, and matches what the glob means.
LEMMA GlobIsMatched ==
  ASSUME NEW glob \in Seq(Chars), \A i \in 1..Len(glob) : glob[i] \in Literal,
         NEW str, Len(str) \in Nat
  PROVE  LET r == regcomp(<<"^">> \o Body(glob) \o <<"$">>)
         IN  r.ok = TRUE /\ regexec(r.pieces, str) = GlobMatches(glob, str)
<1> DEFINE r == regcomp(<<"^">> \o Body(glob) \o <<"$">>)
           L == Len(glob)
           N == Len(str)
<1>1. HasNext(r, glob, L, Piece("anchor", "$"))
  BY RegcompOfBody
<1> HIDE DEF r
<1>2. L \in Nat /\ N \in Nat
  OBVIOUS
<1> DEFINE pieces == r.pieces
<1>3. /\ r.ok = TRUE /\ Len(pieces) = L + 2 /\ Len(pieces) \in Nat
      /\ pieces[1] = Piece("anchor", "^") /\ pieces[L + 2] = Piece("anchor", "$")
      /\ \A i \in 1..L : pieces[i + 1] = PieceOf(glob[i])
  BY <1>1, <1>2 DEF HasNext
<1> HIDE DEF pieces
<1>4. PICK a : /\ a[0] = 0..N
               /\ \A n \in 1..Len(pieces) : /\ a[n - 1] \subseteq 0..N
                                            /\ a[n] = Reached(str, a[n - 1], pieces[n])
               /\ regexec(pieces, str) = (a[Len(pieces)] # {})
  <2>1. \A n \in 1..Len(pieces) : pieces[n].kind # "or"
    <3> SUFFICES ASSUME NEW n \in 1..Len(pieces) PROVE pieces[n].kind # "or"
      OBVIOUS
    <3>1. CASE n = 1 \/ n = L + 2
      BY <1>3, <3>1 DEF Piece
    <3>2. CASE n # 1 /\ n # L + 2
      <4>1. n - 1 \in 1..L /\ (n - 1) + 1 = n
        BY <1>2, <1>3, <3>2
      <4>2. PieceOf(glob[n - 1]).kind # "or"
        BY DEF PieceOf, Piece
      <4> QED BY <1>3, <4>1, <4>2
    <3> QED BY <3>1, <3>2
  <2> QED BY <1>2, <1>3, <2>1, RegexecTurns
<1>5. PICK g : /\ g[0] = {0}
               /\ \A n \in 1..L : /\ g[n - 1] \subseteq 0..N
                                  /\ g[n] = GlobStep(str, g[n - 1], glob[n])
               /\ g[L] \subseteq 0..N
               /\ GlobMatches(glob, str) = (N \in g[L])
  BY <1>2, GlobMatchesTurns
<1> DEFINE S == {n \in Nat : n <= L => a[n + 1] = g[n]}
<1>6. 0 \in S
  <2>1. 1 \in 1..Len(pieces) /\ 1 - 1 = 0
    BY <1>2, <1>3
  <2>2. a[1] = Reached(str, a[0], pieces[1])
    BY <1>4, <2>1
  <2>3. Reached(str, a[0], Piece("anchor", "^")) = (0..N) \intersect {0}
    BY <1>4 DEF Reached, Piece
  <2>4. (0..N) \intersect {0} = {0}
    BY <1>2
  <2>5. a[1] = g[0]
    BY <1>3, <1>5, <2>2, <2>3, <2>4
  <2> QED BY <2>5
<1>7. ASSUME NEW n \in Nat, n \in S PROVE n + 1 \in S
  <2> SUFFICES ASSUME n + 1 <= L PROVE a[(n + 1) + 1] = g[n + 1]
    OBVIOUS
  <2> DEFINE m == n + 1
  <2>1. m \in 1..L /\ m + 1 \in 1..Len(pieces) /\ (m + 1) - 1 = m /\ m - 1 = n /\ a[m] = g[n]
    BY <1>2, <1>3, <1>7
  <2> HIDE DEF m
  <2>2. a[m + 1] = Reached(str, a[m], pieces[m + 1])
    BY <1>4, <2>1
  <2>3. pieces[m + 1] = PieceOf(glob[m])
    BY <1>3, <2>1
  <2>4. g[n] \subseteq 0..N /\ g[m] = GlobStep(str, g[n], glob[m])
    BY <1>5, <2>1
  <2>5. Reached(str, g[n], PieceOf(glob[m])) = GlobStep(str, g[n], glob[m])
    BY <1>2, <2>4, StepOfPiece
  <2>6. a[m + 1] = g[m]
    BY <2>1, <2>2, <2>3, <2>4, <2>5
  <2> QED BY <2>6 DEF m
<1>8. a[L + 1] = g[L]
  <2>1. L \in S
    <3> HIDE DEF S
    <3> QED BY <1>2, <1>6, <1>7, SetInduction
  <2> QED BY <1>2, <2>1
<1> HIDE DEF S
<1>9. a[L + 2] = a[L + 1] \intersect {N}
  <2>1. L + 2 \in 1..Len(pieces) /\ (L + 2) - 1 = L + 1
    BY <1>2, <1>3
  <2>2. a[L + 2] = Reached(str, a[L + 1], pieces[L + 2])
    BY <1>4, <2>1
  <2>3. Reached(str, a[L + 1], Piece("anchor", "$")) = a[L + 1] \intersect {N}
    BY DEF Reached, Piece
  <2> QED BY <1>3, <2>2, <2>3
<1>10. (a[Len(pieces)] # {}) = (N \in g[L])
  BY <1>3, <1>8, <1>9
<1>11. r.ok = TRUE /\ regexec(r.pieces, str) = GlobMatches(glob, str)
  BY <1>3, <1>4, <1>5, <1>10 DEF pieces
<1> QED BY <1>11 DEF r
-----------------------------------------------------------------------------
(* The conversion. *)

\* A text is what it was made of.
LEMMA TextHolds ==
  ASSUME NEW t
  PROVE  Text(t).re = t /\ Text(t).ok = TRUE
BY DEF Text

\* What is put in brackets is what is taken out.
LEMMA BracketsStrip ==
  ASSUME NEW s \in Seq(Chars)
  PROVE  LET t == <<"/">> \o s \o <<"/">>
         IN  Len(t) = Len(s) + 2 /\ ~Short(t) /\ Bracketed(t) /\ Stripped(t) = s
<1> DEFINE b == <<"/">>
           u == b \o s
           t == u \o b
           L == Len(s)
<1>1. b \in Seq(Chars) /\ Len(b) = 1 /\ b[1] = "/" /\ L \in Nat
  BY DEF Chars
<1> HIDE DEF L
<1>2. u \in Seq(Chars) /\ Len(u) = 1 + L /\ u[1] = "/" /\ \A i \in 1..L : u[1 + i] = s[i]
  <2> HIDE DEF b
  <2>0. b \in Seq(Chars)
    BY <1>1
  <2>1. /\ b \o s \in Seq(Chars) /\ Len(b \o s) = Len(b) + Len(s)
        /\ \A i \in 1..Len(b) : (b \o s)[i] = b[i]
        /\ \A i \in 1..Len(s) : (b \o s)[Len(b) + i] = s[i]
    BY <2>0, Joined
  <2>2. 1 \in 1..Len(b)
    BY <1>1
  <2> QED BY <1>1, <2>1, <2>2 DEF L
<1>3. /\ t \in Seq(Chars) /\ Len(t) = L + 2 /\ t[1] = "/" /\ t[L + 2] = "/"
      /\ \A i \in 1..L : t[1 + i] = s[i]
  <2> HIDE DEF b, u
  <2>0. b \in Seq(Chars) /\ u \in Seq(Chars)
    BY <1>1, <1>2
  <2>1. /\ u \o b \in Seq(Chars) /\ Len(u \o b) = Len(u) + Len(b)
        /\ \A i \in 1..Len(u) : (u \o b)[i] = u[i]
        /\ \A i \in 1..Len(b) : (u \o b)[Len(u) + i] = b[i]
    BY <2>0, Joined
  <2>2. 1 \in 1..Len(b) /\ 1 \in 1..Len(u) /\ Len(u) + 1 = L + 2 /\ \A i \in 1..L : 1 + i \in 1..Len(u)
    BY <1>1, <1>2
  <2> QED BY <1>1, <1>2, <2>1, <2>2
<1> HIDE DEF t
<1>4. t # <<>> /\ t # <<"/">>
  <2>1. Len(t) # 0 /\ Len(t) # 1
    BY <1>1, <1>3
  <2> QED BY <2>1
<1>5. Stripped(t) = s
  <2> DEFINE v == SubSeq(t, 2, Len(t) - 1)
  <2>1. Len(t) - 1 = L + 1
    BY <1>1, <1>3
  <2>2. \A i \in 2..(L + 1) : t[i] \in Chars
    BY <1>1, <1>3
  <2>3. /\ v \in Seq(Chars) /\ Len(v) = (IF 2 <= L + 1 THEN L + 1 - 2 + 1 ELSE 0)
        /\ \A i \in 1..(L + 1 - 2 + 1) : v[i] = t[2 + i - 1]
    BY <1>1, <2>1, <2>2, SubSeqProperties
  <2> HIDE DEF v
  <2>4. Len(v) = L
    BY <1>1, <2>3
  <2>5. ASSUME NEW i \in 1..L PROVE v[i] = s[i]
    <3>1. i \in 1..(L + 1 - 2 + 1) /\ 2 + i - 1 = 1 + i
      BY <1>1
    <3> QED BY <1>3, <2>3, <3>1
  <2>6. Len(v) = Len(s) /\ \A i \in 1..Len(v) : v[i] = s[i]
    BY <2>4, <2>5 DEF L
  <2>7. v = s
    BY <2>3, <2>6, SeqEqual
  <2> QED BY <2>7 DEF v, Stripped
<1>6. Len(t) = Len(s) + 2 /\ ~Short(t) /\ Bracketed(t)
  BY <1>3, <1>4 DEF Short, Bracketed, Last, L
<1> QED BY <1>5, <1>6 DEF t, u, b

\* A glob between its anchors.
Anchored(glob) ==
  (IF glob[1] = "^" THEN <<>> ELSE <<"^">>) \o Body(glob)
    \o (IF Last(glob) = "$" THEN <<>> ELSE <<"$">>)

\* With and without brackets, a conversion that fits has the same between them.
LEMMA AnchoredShape ==
  ASSUME NEW glob \in Seq(Chars), ~Short(glob), ~Bracketed(glob)
  PROVE  /\ Anchored(glob) \in Seq(Chars)
         /\ uvm_re_deglobbed(glob, TRUE).ok =>
              /\ uvm_re_deglobbed(glob, TRUE) = Text(<<"/">> \o Anchored(glob) \o <<"/">>)
              /\ Len(Anchored(glob)) + 2 <= MaxLength
              /\ uvm_re_deglobbed(glob, FALSE) = Text(Anchored(glob))
         /\ uvm_re_deglobbed(glob, FALSE) \in {Refused, Text(Anchored(glob))}
<1> DEFINE b == <<"/">>
           o == IF glob[1] = "^" THEN <<>> ELSE <<"^">>
           c == IF Last(glob) = "$" THEN <<>> ELSE <<"$">>
           L == Len(glob)
           B == Body(glob)
           X == o \o B \o c
           D == Doubled(glob, L)
<1>1. /\ b \in Seq(Chars) /\ Len(b) = 1 /\ o \in Seq(Chars) /\ c \in Seq(Chars)
      /\ B \in Seq(Chars) /\ Len(B) = L + D /\ L \in Nat /\ D \in Nat
  <2>1. b \in Seq(Chars) /\ Len(b) = 1 /\ o \in Seq(Chars) /\ c \in Seq(Chars)
    <3>1. "/" \in Chars /\ "^" \in Chars /\ "$" \in Chars
      BY DEF Chars
    <3>2. b \in Seq(Chars) /\ Len(b) = 1
      BY <3>1
    <3>3. <<>> \in Seq(Chars) /\ <<"^">> \in Seq(Chars) /\ <<"$">> \in Seq(Chars)
      BY <3>1
    <3>4. o \in Seq(Chars)
      BY <3>3
    <3>5. c \in Seq(Chars)
      BY <3>3
    <3> QED BY <3>2, <3>4, <3>5
  <2>2. B \in Seq(Chars) /\ Len(B) = At(glob, L)
    BY BodyShape DEF IsBody
  <2>3. L \in Nat /\ D \in Nat
    BY DoubledTurns
  <2> QED BY <2>1, <2>2, <2>3 DEF At
<1>2. /\ Opening(glob, TRUE) = b \o o /\ Opening(glob, FALSE) = <<>> \o o
      /\ Closing(glob, TRUE) = c \o b /\ Closing(glob, FALSE) = c \o <<>>
  BY DEF Opening, Closing, Bracket
<1>3. \A w \in BOOLEAN : glob_len(glob, w, L) = L + Len(Opening(glob, w)) + 2 * D
  BY DEF glob_len, Doubled, Special
<1>4. \A w \in BOOLEAN : uvm_re_deglobbed(glob, w) =
        IF glob_len(glob, w, L) + Len(Closing(glob, w)) + 1 > MaxLength THEN Refused
        ELSE Text(Opening(glob, w) \o B \o Closing(glob, w))
  BY DEF uvm_re_deglobbed
<1>5. Anchored(glob) = X
  BY DEF Anchored
<1> HIDE DEF b, o, c, B, L, D
<1>6. <<>> \o o = o /\ c \o <<>> = c
  BY <1>1, ConcatEmptySeq
<1>7. /\ b \o o \in Seq(Chars) /\ Len(b \o o) = 1 + Len(o) /\ Len(o) \in Nat
      /\ c \o b \in Seq(Chars) /\ Len(c \o b) = Len(c) + 1 /\ Len(c) \in Nat
  <2>1. b \o o \in Seq(Chars) /\ Len(b \o o) = Len(b) + Len(o) /\ Len(o) \in Nat
    BY <1>1, Joined
  <2>2. c \o b \in Seq(Chars) /\ Len(c \o b) = Len(c) + Len(b) /\ Len(c) \in Nat
    BY <1>1, Joined
  <2> QED BY <1>1, <2>1, <2>2
<1>8. o \o B \in Seq(Chars) /\ Len(o \o B) = Len(o) + Len(B)
  BY <1>1, Joined
<1>9. X \in Seq(Chars) /\ Len(X) = Len(o) + Len(B) + Len(c)
  <2>1. (o \o B) \o c \in Seq(Chars) /\ Len((o \o B) \o c) = Len(o \o B) + Len(c)
    BY <1>1, <1>8, Joined
  <2> QED BY <1>8, <2>1
<1>10. (b \o o) \o B \o (c \o b) = b \o X \o b
  <2>0. b \in Seq(Chars) /\ o \in Seq(Chars) /\ c \in Seq(Chars) /\ B \in Seq(Chars)
    BY <1>1
  <2>1. (b \o o) \o B = b \o (o \o B)
    BY <2>0, ConcatAssociative
  <2> DEFINE oB == o \o B
             boB == b \o oB
  <2>2. oB \in Seq(Chars) /\ boB \in Seq(Chars)
    BY <1>8, <2>0, Joined
  <2> HIDE DEF oB, boB, X
  <2>4. (b \o oB) \o c = b \o (oB \o c)
    <3>1. b \in Seq(Chars) /\ oB \in Seq(Chars) /\ c \in Seq(Chars)
      BY <2>0, <2>2
    <3> QED BY <3>1, ConcatAssociative
  <2>3. (boB \o c) \o b = boB \o (c \o b)
    <3>1. boB \in Seq(Chars) /\ c \in Seq(Chars) /\ b \in Seq(Chars)
      BY <2>0, <2>2
    <3> QED BY <3>1, ConcatAssociative
  <2> QED BY <2>1, <2>3, <2>4 DEF oB, boB, X
<1> HIDE DEF X
<1>11. uvm_re_deglobbed(glob, TRUE) =
         IF L + (1 + Len(o)) + 2 * D + (Len(c) + 1) + 1 > MaxLength THEN Refused ELSE Text(b \o X \o b)
  BY <1>2, <1>3, <1>4, <1>7, <1>10
<1>12. (o \o B) \o c = X
  BY DEF X
<1>13. uvm_re_deglobbed(glob, FALSE) =
         IF L + Len(o) + 2 * D + Len(c) + 1 > MaxLength THEN Refused ELSE Text(X)
  BY <1>2, <1>3, <1>4, <1>6, <1>12
<1>14. ASSUME uvm_re_deglobbed(glob, TRUE).ok
       PROVE  /\ uvm_re_deglobbed(glob, TRUE) = Text(b \o X \o b)
              /\ Len(X) + 2 <= MaxLength
              /\ uvm_re_deglobbed(glob, FALSE) = Text(X)
  <2> DEFINE long == L + (1 + Len(o)) + 2 * D + (Len(c) + 1) + 1 > MaxLength
  <2>1. ~long
    <3>1. Refused.ok = FALSE
      BY DEF Refused
    <3> HIDE DEF long
    <3> QED BY <1>11, <1>14, <3>1 DEF long
  <2>2. MaxLength \in Nat /\ Len(o) \in Nat /\ Len(c) \in Nat /\ L \in Nat /\ D \in Nat
        /\ Len(X) = Len(o) + (L + D) + Len(c)
    BY <1>1, <1>7, <1>9, GlobAssumption
  <2>3. Len(X) + 2 <= MaxLength /\ ~(L + Len(o) + 2 * D + Len(c) + 1 > MaxLength)
    BY <2>1, <2>2
  <2> QED BY <1>11, <1>13, <2>1, <2>3
<1> QED BY <1>5, <1>9, <1>13, <1>14 DEF b

\* Converting to a regular expression between brackets first changes nothing.
LEMMA ConvertedAsBefore ==
  ASSUME NEW glob \in Seq(Chars), uvm_re_deglobbed(glob, TRUE).ok
  PROVE  LET re == uvm_re_deglobbed(glob, TRUE).re
         IN  /\ Pattern(re, FALSE) = Pattern(glob, TRUE)
             /\ Pattern(re, TRUE) = Pattern(glob, TRUE)
<1> DEFINE conv == uvm_re_deglobbed(glob, TRUE).re
<1>1. ASSUME NEW t, Bracketed(t), ~Short(t), Len(t) <= MaxLength
      PROVE  Pattern(t, FALSE) = Text(Stripped(t)) /\ Pattern(t, TRUE) = Text(Stripped(t))
  <2>1. ~(Len(t) > MaxLength)
    <3>1. MaxLength \in Nat
      BY GlobAssumption
    <3> QED BY <1>1, <3>1
  <2> QED BY <1>1, <2>1 DEF Pattern, uvm_re_deglobbed
<1>2. Pattern(glob, TRUE) = uvm_re_deglobbed(glob, FALSE)
  BY DEF Pattern
<1>3. CASE Short(glob)
  <2> DEFINE e == <<"^", "$">>
  <2>1. e \in Seq(Chars) /\ Len(e) = 2
    BY DEF Chars
  <2>2. uvm_re_deglobbed(glob, TRUE) = Text(<<"/">> \o e \o <<"/">>)
    BY <1>3 DEF uvm_re_deglobbed, Bracket
  <2>3. uvm_re_deglobbed(glob, FALSE) = Text(<<>> \o e \o <<>>)
    BY <1>3 DEF uvm_re_deglobbed, Bracket
  <2> HIDE DEF e
  <2>4. <<>> \o e \o <<>> = e
    BY <2>1, ConcatEmptySeq
  <2>5. /\ Len(<<"/">> \o e \o <<"/">>) = Len(e) + 2 /\ ~Short(<<"/">> \o e \o <<"/">>)
        /\ Bracketed(<<"/">> \o e \o <<"/">>) /\ Stripped(<<"/">> \o e \o <<"/">>) = e
    BY <2>1, BracketsStrip
  <2>6. conv = <<"/">> \o e \o <<"/">>
    BY <2>2, TextHolds
  <2>7. Len(conv) <= MaxLength
    <3> HIDE DEF conv
    <3>1. Len(conv) = 4 /\ MaxLength \in Nat /\ MaxLength >= 4
      BY <2>1, <2>5, <2>6, GlobAssumption
    <3> QED BY <3>1
  <2> HIDE DEF conv
  <2>8. Pattern(conv, FALSE) = Text(Stripped(conv)) /\ Pattern(conv, TRUE) = Text(Stripped(conv))
    BY <1>1, <2>5, <2>6, <2>7
  <2> QED BY <1>2, <2>3, <2>4, <2>5, <2>6, <2>8 DEF conv
<1>4. CASE ~Short(glob) /\ Bracketed(glob)
  <2>1. Len(glob) <= MaxLength
    <3>1. ~(Len(glob) > MaxLength)
      BY <1>4 DEF uvm_re_deglobbed, Refused
    <3>2. Len(glob) \in Nat /\ MaxLength \in Nat
      BY GlobAssumption
    <3> QED BY <3>1, <3>2
  <2>2. ~(Len(glob) > MaxLength)
    <3>2. Len(glob) \in Nat /\ MaxLength \in Nat
      BY GlobAssumption
    <3> QED BY <2>1, <3>2
  <2>3. conv = glob
    BY <1>4, <2>2 DEF uvm_re_deglobbed, Text
  <2>4. Pattern(glob, FALSE) = Text(Stripped(glob)) /\ Pattern(glob, TRUE) = Text(Stripped(glob))
    BY <1>1, <1>4, <2>1
  <2> QED BY <2>3, <2>4
<1>5. CASE ~Short(glob) /\ ~Bracketed(glob)
  <2> DEFINE X == Anchored(glob)
  <2>1. /\ X \in Seq(Chars) /\ uvm_re_deglobbed(glob, TRUE) = Text(<<"/">> \o X \o <<"/">>)
        /\ Len(X) + 2 <= MaxLength /\ uvm_re_deglobbed(glob, FALSE) = Text(X)
    BY <1>5, AnchoredShape
  <2> HIDE DEF X
  <2>2. /\ Len(<<"/">> \o X \o <<"/">>) = Len(X) + 2 /\ ~Short(<<"/">> \o X \o <<"/">>)
        /\ Bracketed(<<"/">> \o X \o <<"/">>) /\ Stripped(<<"/">> \o X \o <<"/">>) = X
    BY <2>1, BracketsStrip
  <2>3. conv = <<"/">> \o X \o <<"/">>
    BY <2>1, TextHolds
  <2> HIDE DEF conv
  <2>4. Pattern(conv, FALSE) = Text(Stripped(conv)) /\ Pattern(conv, TRUE) = Text(Stripped(conv))
    BY <1>1, <2>1, <2>2, <2>3
  <2> QED BY <1>2, <2>1, <2>2, <2>3, <2>4 DEF conv
<1> QED BY <1>3, <1>4, <1>5

\* A glob of literals between its anchors.
LEMMA PlainPattern ==
  ASSUME NEW glob \in Seq(Chars), glob # <<>>, \A i \in 1..Len(glob) : glob[i] \in Literal,
         Pattern(glob, TRUE).ok
  PROVE  Pattern(glob, TRUE).re = <<"^">> \o Body(glob) \o <<"$">>
<1>1. Len(glob) \in Nat /\ Len(glob) >= 1
  OBVIOUS
<1>2. 1 \in 1..Len(glob) /\ Len(glob) \in 1..Len(glob)
  BY <1>1
<1>3. glob[1] \in Literal /\ glob[Len(glob)] \in Literal
  BY <1>2
<1>4. glob[1] # "^" /\ glob[1] # "/" /\ Last(glob) # "$"
  BY <1>3 DEF Literal, Last
<1>5. ~Short(glob) /\ ~Bracketed(glob)
  <2>1. glob # <<"/">>
    BY <1>4
  <2> QED BY <1>4, <2>1 DEF Short, Bracketed
<1>6. uvm_re_deglobbed(glob, FALSE) \in {Refused, Text(Anchored(glob))}
  BY <1>5, AnchoredShape
<1>7. Pattern(glob, TRUE) = uvm_re_deglobbed(glob, FALSE) /\ Refused.ok = FALSE
  BY DEF Pattern, Refused
<1>8. Pattern(glob, TRUE).re = Anchored(glob)
  BY <1>6, <1>7, TextHolds
<1> QED BY <1>4, <1>8 DEF Anchored
-----------------------------------------------------------------------------
(* The buffer. *)

\* How long the body of the first n characters is.
LEMMA ExpandedLength ==
  ASSUME NEW glob \in Seq(Chars), NEW n \in Nat, n <= Len(glob)
  PROVE  Len(Body(SubSeq(glob, 1, n))) = n + Doubled(glob, n)
<1> DEFINE s == SubSeq(glob, 1, n)
<1>1. s \in Seq(Chars) /\ Len(s) = n /\ \A i \in 1..n : s[i] = glob[i]
  BY FirstOnes
<1> HIDE DEF s
<1>2. Len(Body(s)) = At(s, n)
  BY <1>1, BodyShape DEF IsBody
<1>3. {i \in 1..n : s[i] \in Special} = {i \in 1..n : glob[i] \in Special}
  BY <1>1
<1>4. Doubled(s, n) = Doubled(glob, n)
  BY <1>3 DEF Doubled
<1> QED BY <1>2, <1>4 DEF s, At

\* What the length is counted as never falls behind what is written, from
\* where it was compared first.
LEMMA WrittenFits ==
  ASSUME NEW glob \in Seq(Chars), NEW b \in BOOLEAN, b \/ glob[1] # "^"
  PROVE  Written(glob, b) <= BufferSize
<1> DEFINE L == Len(glob)
           o == Len(Opening(glob, b))
           c == Len(Closing(glob, b))
           D(n) == Doubled(glob, n)
           start(n) == o + Len(Body(SubSeq(glob, 1, n)))
<1>1. MaxLength \in Nat /\ BufferSize = MaxLength + 4 /\ L \in Nat
  BY GlobAssumption DEF BufferSize
<1>2. CASE Short(glob)
  BY <1>1, <1>2 DEF Written
<1>3. CASE ~Short(glob) /\ Bracketed(glob)
  <2>1. L <= MaxLength => L + 1 <= BufferSize /\ L - 1 <= BufferSize
    BY <1>1
  <2>2. ~(L > MaxLength) => L <= MaxLength
    BY <1>1
  <2> QED BY <1>1, <1>3, <2>1, <2>2 DEF Written
<1>4. CASE ~Short(glob) /\ ~Bracketed(glob) /\ 0 \in Refusals(glob, b)
  BY <1>1, <1>4 DEF Written
<1>5. CASE ~Short(glob) /\ ~Bracketed(glob) /\ 0 \notin Refusals(glob, b)
  <2> DEFINE R == Refusals(glob, b)
             n == IF R = {} THEN L ELSE Min(R) - 1
  <2>1. Written(glob, b) =
          IF uvm_re_deglobbed(glob, b).ok THEN start(n) + c + 1 ELSE start(n)
    BY <1>5 DEF Written
  <2>2. o \in Nat /\ Opening(glob, b) # <<>> /\ c \in Nat
    <3>1. /\ <<"^">> # <<>> /\ Len(<<"^">>) = 1 /\ <<"^">> \in Seq(Chars)
          /\ <<"/">> \in Seq(Chars) /\ <<"$">> \in Seq(Chars) /\ <<>> \in Seq(Chars)
      BY DEF Chars
    <3> DEFINE u == IF glob[1] = "^" THEN <<>> ELSE <<"^">>
               v == IF Last(glob) = "$" THEN <<>> ELSE <<"$">>
               w == Bracket(b)
    <3>2. u \in Seq(Chars) /\ v \in Seq(Chars) /\ w \in Seq(Chars)
      BY <3>1 DEF Bracket
    <3>3. Opening(glob, b) = w \o u /\ Closing(glob, b) = v \o w
      BY DEF Opening, Closing
    <3>4. Len(w) = 1 \/ Len(u) = 1
      <4>1. CASE b
        BY <3>1, <4>1 DEF Bracket
      <4>2. CASE ~b
        BY <3>1, <4>2
      <4> QED BY <4>1, <4>2
    <3> HIDE DEF u, v, w
    <3>5. Len(w \o u) = Len(w) + Len(u) /\ w \o u \in Seq(Chars) /\ v \o w \in Seq(Chars)
          /\ Len(w) \in Nat /\ Len(u) \in Nat
      BY <3>2, Joined
    <3>6. Len(w \o u) # 0
      <4> DEFINE p == Len(w)
                 q == Len(u)
                 t == Len(w \o u)
      <4>1. t = p + q /\ p \in Nat /\ q \in Nat /\ (p = 1 \/ q = 1)
        BY <3>4, <3>5
      <4> HIDE DEF p, q, t
      <4>2. t # 0
        BY <4>1
      <4> QED BY <4>2 DEF t
    <3>7. Opening(glob, b) # <<>>
      BY <3>3, <3>6
    <3> QED BY <3>3, <3>5, <3>7
  <2>3. \A m \in Nat : D(m) \in Nat
    BY DoubledTurns
  <2>4. \A m \in Nat : glob_len(glob, b, m) = L + o + 2 * D(m)
    BY DEF glob_len, Doubled, Special
  <2>5. \A m \in R : m \in 0..L /\ glob_len(glob, b, m) > MaxLength /\ m # 0
    BY <1>5 DEF Refusals, Checked
  <2>6. \A m \in 0..L : m \notin R /\ (m = 0 \/ glob[m] \in Special) =>
          ~(glob_len(glob, b, m) > MaxLength)
    BY <1>1, <2>2 DEF Refusals, Checked, Special
  <2> HIDE DEF R
  <2>7. n \in 0..L /\ \A m \in R : n < m
    <3>1. CASE R = {}
      BY <1>1, <3>1
    <3>2. CASE R # {}
      <4>1. R \subseteq Nat
        BY <1>1, <2>5
      <4>2. \E x \in R : \A y \in R : x <= y
        BY <3>2, <4>1, NatMin
      <4>3. Min(R) \in R /\ \A y \in R : Min(R) <= y
        BY <4>2 DEF Min
      <4>4. Min(R) \in 0..L /\ Min(R) # 0
        BY <2>5, <4>3
      <4> QED BY <1>1, <3>2, <4>1, <4>3, <4>4
    <3> QED BY <3>1, <3>2
  <2>8. Written(glob, b) =
          IF uvm_re_deglobbed(glob, b).ok THEN o + (n + D(n)) + c + 1 ELSE o + (n + D(n))
    <3>1. n \in Nat /\ n <= L
      BY <1>1, <2>7
    <3> HIDE DEF n
    <3>2. start(n) = o + (n + D(n))
      BY <3>1, ExpandedLength
    <3> QED BY <2>1, <3>2
  <2> HIDE DEF n, D, o, c, L
  <2> DEFINE S == {m \in Nat : m <= n => L + o + 2 * D(m) <= MaxLength}
  <2>9. 0 \in S
    <3>1. 0 \in 0..L /\ 0 \notin R
      BY <1>1, <2>5
    <3>2. ~(glob_len(glob, b, 0) > MaxLength) /\ glob_len(glob, b, 0) = L + o + 2 * D(0)
      BY <2>4, <2>6, <3>1
    <3> QED BY <1>1, <2>2, <2>3, <3>2
  <2>10. ASSUME NEW m \in Nat, m \in S PROVE m + 1 \in S
    <3> SUFFICES ASSUME m + 1 <= n PROVE L + o + 2 * D(m + 1) <= MaxLength
      OBVIOUS
    <3>1. m + 1 \in 0..L /\ m + 1 \notin R /\ m <= n /\ m + 1 \in Nat
      BY <1>1, <2>7
    <3>2. CASE glob[m + 1] \in Special
      <4>1. ~(glob_len(glob, b, m + 1) > MaxLength) /\ glob_len(glob, b, m + 1) = L + o + 2 * D(m + 1)
        BY <2>4, <2>6, <3>1, <3>2
      <4> QED BY <1>1, <2>2, <2>3, <3>1, <4>1
    <3>3. CASE glob[m + 1] \notin Special
      <4>1. D(m + 1) = D(m)
        BY <3>3, DoubledTurns DEF D
      <4> QED BY <2>10, <3>1, <4>1
    <3> QED BY <3>2, <3>3
  <2>11. L + o + 2 * D(n) <= MaxLength
    <3>1. n \in S
      <4> HIDE DEF S
      <4>1. n \in Nat
        BY <1>1, <2>7
      <4> QED BY <2>9, <2>10, <4>1, SetInduction
    <3> QED BY <1>1, <2>7, <3>1
  <2>12. n <= L /\ n \in Nat /\ D(n) \in Nat
    BY <1>1, <2>3, <2>7
  <2>13. CASE ~uvm_re_deglobbed(glob, b).ok
    BY <1>1, <2>2, <2>8, <2>11, <2>12, <2>13
  <2>14. CASE uvm_re_deglobbed(glob, b).ok
    <3>1. ~(glob_len(glob, b, L) + c + 1 > MaxLength)
      BY <1>5, <2>14 DEF uvm_re_deglobbed, Refused, L, c
    <3>2. L + o + 2 * D(L) + c + 1 <= MaxLength /\ D(n) <= D(L)
      <4>1. glob_len(glob, b, L) = L + o + 2 * D(L)
        BY <1>1, <2>4
      <4>2. D(L) \in Nat
        BY <1>1, <2>3
      <4>3. D(n) <= D(L)
        BY <1>1, <2>12, DoubledGrows DEF D
      <4> QED BY <1>1, <2>2, <3>1, <4>1, <4>2, <4>3
    <3>3. D(L) \in Nat
      BY <1>1, <2>3
    <3>4. n <= L /\ n \in Nat /\ L \in Nat /\ D(n) \in Nat /\ o \in Nat /\ c \in Nat
      BY <1>1, <2>2, <2>12
    <3>5. o + n + D(n) + c + 1 <= MaxLength
      BY <3>2, <3>3, <3>4, GlobAssumption
    <3> QED BY <1>1, <2>2, <2>8, <2>12, <2>14, <3>4, <3>5
  <2> QED BY <2>13, <2>14
<1> QED BY <1>2, <1>3, <1>4, <1>5
-----------------------------------------------------------------------------
(* The Verilog only matcher. *)

\* Positions in the text behind each character of the glob from e on.
IsPath(glob, str, e, p) ==
  /\ p \in [e..Len(glob) -> 0..Len(str)]
  /\ \A n \in (e + 1)..Len(glob) : p[n] \in GlobStep(str, {p[n - 1]}, glob[n])

\* What is left of the glob matches what is left of the text.
Ends(glob, str, e, s) == \E p : IsPath(glob, str, e, p) /\ p[e] = s /\ p[Len(glob)] = Len(str)

\* Nothing is left of the glob.
LEMMA EndsLast ==
  ASSUME NEW str, Len(str) \in Nat, NEW glob, Len(glob) \in Nat, NEW s \in 0..Len(str)
  PROVE  Ends(glob, str, Len(glob), s) <=> s = Len(str)
<1> DEFINE L == Len(glob)
           N == Len(str)
<1>1. ASSUME s = N PROVE Ends(glob, str, L, s)
  <2> DEFINE p == [n \in L..L |-> N]
  <2>1. IsPath(glob, str, L, p) /\ p[L] = N
    BY DEF IsPath
  <2> QED BY <1>1, <2>1 DEF Ends
<1>2. ASSUME Ends(glob, str, L, s) PROVE s = N
  BY <1>2 DEF Ends
<1> QED BY <1>1, <1>2

\* One character of the glob.
LEMMA EndsStep ==
  ASSUME NEW str, Len(str) \in Nat, NEW glob, Len(glob) \in Nat,
         NEW e \in 0..(Len(glob) - 1), NEW s \in 0..Len(str)
  PROVE  Ends(glob, str, e, s)
           <=> \E q \in GlobStep(str, {s}, glob[e + 1]) : Ends(glob, str, e + 1, q)
<1> DEFINE L == Len(glob)
           N == Len(str)
           to(x, n) == GlobStep(str, {x}, glob[n])
<1>0. \A x, n : to(x, n) \subseteq 0..N
  BY DEF GlobStep
<1>1. ASSUME Ends(glob, str, e, s)
      PROVE  \E q \in to(s, e + 1) : Ends(glob, str, e + 1, q)
  <2>1. PICK p : IsPath(glob, str, e, p) /\ p[e] = s /\ p[L] = N
    BY <1>1 DEF Ends
  <2> DEFINE r == [n \in (e + 1)..L |-> p[n]]
  <2>2. p[e + 1] \in to(s, e + 1)
    <3>1. e + 1 \in (e + 1)..L /\ (e + 1) - 1 = e
      OBVIOUS
    <3> QED BY <2>1, <3>1 DEF IsPath
  <2>3. r \in [(e + 1)..L -> 0..N] /\ r[e + 1] = p[e + 1] /\ r[L] = N
    BY <2>1 DEF IsPath
  <2>4. ASSUME NEW n \in ((e + 1) + 1)..L PROVE r[n] \in to(r[n - 1], n)
    <3>1. n \in (e + 1)..L /\ n - 1 \in (e + 1)..L
      OBVIOUS
    <3>2. p[n] \in to(p[n - 1], n)
      BY <2>1, <3>1 DEF IsPath
    <3> QED BY <3>1, <3>2
  <2> HIDE DEF r
  <2>5. IsPath(glob, str, e + 1, r)
    BY <2>3, <2>4 DEF IsPath
  <2> QED BY <2>2, <2>3, <2>5 DEF Ends
<1>2. ASSUME NEW q \in to(s, e + 1), Ends(glob, str, e + 1, q)
      PROVE  Ends(glob, str, e, s)
  <2>1. PICK p : IsPath(glob, str, e + 1, p) /\ p[e + 1] = q /\ p[L] = N
    BY <1>2 DEF Ends
  <2> DEFINE r == [n \in e..L |-> IF n = e THEN s ELSE p[n]]
  <2>2. r \in [e..L -> 0..N] /\ r[e] = s /\ r[e + 1] = q /\ r[L] = N
    BY <2>1 DEF IsPath
  <2>3. ASSUME NEW n \in (e + 1)..L PROVE r[n] \in to(r[n - 1], n)
    <3>1. CASE n = e + 1
      <4>1. n - 1 = e
        BY <3>1
      <4> QED BY <2>2, <3>1, <4>1
    <3>2. CASE n # e + 1
      <4>1. n \in ((e + 1) + 1)..L /\ n - 1 \in (e + 1)..L /\ n - 1 # e /\ n # e
        BY <3>2
      <4>2. p[n] \in to(p[n - 1], n)
        BY <2>1, <4>1 DEF IsPath
      <4> QED BY <4>1, <4>2
    <3> QED BY <3>1, <3>2
  <2> HIDE DEF r
  <2>4. IsPath(glob, str, e, r)
    BY <2>2, <2>3 DEF IsPath
  <2> QED BY <2>2, <2>4 DEF Ends
<1> QED BY <1>1, <1>2

\* A "*" may stand for any text.
LEMMA EndsStar ==
  ASSUME NEW str, Len(str) \in Nat, NEW glob, Len(glob) \in Nat,
         NEW e \in 0..(Len(glob) - 1), NEW s \in 0..Len(str), glob[e + 1] = "*"
  PROVE  Ends(glob, str, e, s) <=> \E q \in s..Len(str) : Ends(glob, str, e + 1, q)
<1>1. GlobStep(str, {s}, glob[e + 1]) = s..Len(str)
  BY DEF GlobStep
<1> QED BY <1>1, EndsStep

\* Any other character but "+" for one.
LEMMA EndsChar ==
  ASSUME NEW str, Len(str) \in Nat, NEW glob, Len(glob) \in Nat,
         NEW e \in 0..(Len(glob) - 1), NEW s \in 0..Len(str), glob[e + 1] \notin {"*", "+"}
  PROVE  Ends(glob, str, e, s)
           <=> /\ s < Len(str) /\ glob[e + 1] \in {str[s + 1], "?"}
               /\ Ends(glob, str, e + 1, s + 1)
<1> DEFINE to == GlobStep(str, {s}, glob[e + 1])
<1>1. ASSUME NEW q PROVE q \in to <=> q = s + 1 /\ s < Len(str) /\ glob[e + 1] \in {str[s + 1], "?"}
  BY DEF GlobStep
<1> HIDE DEF to
<1>2. Ends(glob, str, e, s) <=> \E q \in to : Ends(glob, str, e + 1, q)
  BY EndsStep DEF to
<1> QED BY <1>1, <1>2

\* The glob matches the text.
LEMMA EndsMatches ==
  ASSUME NEW str, Len(str) \in Nat, NEW glob, Len(glob) \in Nat
  PROVE  GlobMatches(glob, str) <=> Ends(glob, str, 0, 0)
<1> DEFINE L == Len(glob)
           N == Len(str)
<1>1. PICK after : /\ after[0] = {0}
                   /\ \A n \in 1..L : /\ after[n - 1] \subseteq 0..N
                                      /\ after[n] = GlobStep(str, after[n - 1], glob[n])
                   /\ after[L] \subseteq 0..N
                   /\ GlobMatches(glob, str) = (N \in after[L])
  BY GlobMatchesTurns
<1>2. ASSUME NEW n \in 1..L, NEW q
      PROVE  q \in after[n] <=> \E x \in after[n - 1] : q \in GlobStep(str, {x}, glob[n])
  <2>1. after[n] = GlobStep(str, after[n - 1], glob[n])
    BY <1>1
  <2> QED BY <2>1 DEF GlobStep
<1>3. ASSUME N \in after[L] PROVE Ends(glob, str, 0, 0)
  <2> DEFINE S == {n \in Nat : n <= L =>
                     \A q \in after[n] : Ends(glob, str, n, q) => Ends(glob, str, 0, 0)}
  <2>1. 0 \in S
    BY <1>1
  <2>2. ASSUME NEW n \in Nat, n \in S PROVE n + 1 \in S
    <3> SUFFICES ASSUME n + 1 <= L, NEW q \in after[n + 1], Ends(glob, str, n + 1, q)
                 PROVE  Ends(glob, str, 0, 0)
      OBVIOUS
    <3>1. n + 1 \in 1..L /\ (n + 1) - 1 = n /\ n \in 0..(L - 1)
      OBVIOUS
    <3>2. PICK x \in after[n] : q \in GlobStep(str, {x}, glob[n + 1])
      BY <1>2, <3>1
    <3>3. x \in 0..N
      BY <1>1, <3>1, <3>2
    <3>4. Ends(glob, str, n, x)
      BY <3>1, <3>2, <3>3, EndsStep
    <3> QED BY <2>2, <3>1, <3>2, <3>4
  <2>3. L \in S
    <3> HIDE DEF S
    <3> QED BY <2>1, <2>2, SetInduction
  <2>4. Ends(glob, str, L, N)
    BY EndsLast
  <2> QED BY <1>3, <2>3, <2>4
<1>4. ASSUME Ends(glob, str, 0, 0) PROVE N \in after[L]
  <2>1. PICK p : IsPath(glob, str, 0, p) /\ p[0] = 0 /\ p[L] = N
    BY <1>4 DEF Ends
  <2> DEFINE S == {n \in Nat : n <= L => p[n] \in after[n]}
  <2>2. 0 \in S
    BY <1>1, <2>1
  <2>3. ASSUME NEW n \in Nat, n \in S PROVE n + 1 \in S
    <3> SUFFICES ASSUME n + 1 <= L PROVE p[n + 1] \in after[n + 1]
      OBVIOUS
    <3>1. n + 1 \in 1..L /\ (n + 1) - 1 = n /\ n + 1 \in (0 + 1)..L
      OBVIOUS
    <3>2. p[n + 1] \in GlobStep(str, {p[n]}, glob[n + 1])
      BY <2>1, <3>1 DEF IsPath
    <3>3. p[n] \in after[n] /\ n <= L
      BY <2>3
    <3>4. ASSUME NEW x \in after[n], p[n + 1] \in GlobStep(str, {x}, glob[n + 1])
          PROVE  p[n + 1] \in after[n + 1]
      BY <1>2, <3>1, <3>4
    <3> QED BY <3>2, <3>3, <3>4
  <2>4. L \in S
    <3> HIDE DEF S
    <3> QED BY <2>2, <2>3, SetInduction
  <2> QED BY <2>1, <2>4
<1> QED BY <1>1, <1>3, <1>4

Loops == [e : Nat, s : Nat, es : Nat, ss : Nat, won : BOOLEAN]

\* Four ways a turn can go.
IsTurn(re, str, l, r) ==
  /\ r \in Loops
  /\ l.s = Len(str) \/ l.won = TRUE => r = l
  /\ ~(l.s = Len(str) \/ l.won = TRUE) =>
       /\ getc(re, l.e) = "*" =>
            /\ r.e = l.e + 1 /\ r.s = l.s /\ r.es = l.e + 1 /\ r.ss = l.s + 1
            /\ r.won = TRUE <=> l.e + 1 = Len(re)
       /\ getc(re, l.e) # "*" /\ CharFits(re, l.e, str, l.s) =>
            r.e = l.e + 1 /\ r.s = l.s + 1 /\ r.es = l.es /\ r.ss = l.ss /\ r.won = FALSE
       /\ getc(re, l.e) # "*" /\ ~CharFits(re, l.e, str, l.s) =>
            r.e = l.es /\ r.s = l.ss /\ r.es = l.es /\ r.ss = l.ss + 1 /\ r.won = FALSE

\* Every turn is one of these.
LEMMA TurnCases ==
  ASSUME NEW re, NEW str, NEW l \in Loops
  PROVE  IsTurn(re, str, l, RestTurn(re, str, l))
<1> DEFINE r == RestTurn(re, str, l)
<1>0. /\ l.e \in Nat /\ l.s \in Nat /\ l.es \in Nat /\ l.ss \in Nat /\ l.won \in BOOLEAN
      /\ l = [e |-> l.e, s |-> l.s, es |-> l.es, ss |-> l.ss, won |-> l.won]
  BY DEF Loops
<1>1. CASE l.s = Len(str) \/ l.won = TRUE
  <2>1. r = l
    BY <1>1 DEF RestTurn
  <2> HIDE DEF r
  <2>2. IsTurn(re, str, l, r)
    BY <1>1, <2>1 DEF IsTurn
  <2> QED BY <2>2 DEF r
<1>2. CASE ~(l.s = Len(str) \/ l.won = TRUE)
  <2>0. l.s # Len(str) /\ l.won = FALSE
    BY <1>0, <1>2
  <2>1. CASE getc(re, l.e) = "*"
    <3>1. r = [e |-> l.e + 1, s |-> l.s, es |-> l.e + 1, ss |-> l.s + 1, won |-> l.e + 1 = Len(re)]
      BY <2>0, <2>1 DEF RestTurn
    <3> DEFINE won == l.e + 1 = Len(re)
    <3>2. won \in BOOLEAN /\ (won = TRUE <=> l.e + 1 = Len(re))
      OBVIOUS
    <3>3. r = [e |-> l.e + 1, s |-> l.s, es |-> l.e + 1, ss |-> l.s + 1, won |-> won]
      BY <3>1
    <3> HIDE DEF r, won
    <3>4. /\ r \in Loops /\ r.e = l.e + 1 /\ r.s = l.s /\ r.es = l.e + 1 /\ r.ss = l.s + 1
          /\ r.won = won
      BY <1>0, <3>2, <3>3 DEF Loops
    <3>5. IsTurn(re, str, l, r)
      BY <1>2, <2>1, <3>2, <3>4 DEF IsTurn
    <3> QED BY <3>5 DEF r
  <2>2. CASE getc(re, l.e) # "*" /\ CharFits(re, l.e, str, l.s)
    <3>1. r = [l EXCEPT !.e = @ + 1, !.s = @ + 1]
      BY <2>0, <2>2 DEF RestTurn
    <3> HIDE DEF r
    <3>2. r = [e |-> l.e + 1, s |-> l.s + 1, es |-> l.es, ss |-> l.ss, won |-> l.won]
      BY <3>1 DEF Loops
    <3>3. /\ r \in Loops /\ r.e = l.e + 1 /\ r.s = l.s + 1 /\ r.es = l.es /\ r.ss = l.ss
          /\ r.won = FALSE
      BY <1>0, <2>0, <3>2 DEF Loops
    <3>4. IsTurn(re, str, l, r)
      BY <1>2, <2>2, <3>3 DEF IsTurn
    <3> QED BY <3>4 DEF r
  <2>3. CASE getc(re, l.e) # "*" /\ ~CharFits(re, l.e, str, l.s)
    <3>1. r = [l EXCEPT !.e = l.es, !.s = l.ss, !.ss = @ + 1]
      BY <2>0, <2>3 DEF RestTurn
    <3> HIDE DEF r
    <3>2. r = [e |-> l.es, s |-> l.ss, es |-> l.es, ss |-> l.ss + 1, won |-> l.won]
      BY <3>1 DEF Loops
    <3>3. /\ r \in Loops /\ r.e = l.es /\ r.s = l.ss /\ r.es = l.es /\ r.ss = l.ss + 1
          /\ r.won = FALSE
      BY <1>0, <2>0, <3>2 DEF Loops
    <3>4. IsTurn(re, str, l, r)
      BY <1>2, <2>3, <3>3 DEF IsTurn
    <3> QED BY <3>4 DEF r
  <2> QED BY <2>1, <2>2, <2>3
<1> QED BY <1>1, <1>2

\* A turn leads to a state of the loop.
LEMMA TurnType == ASSUME NEW re, NEW str, NEW l \in Loops PROVE RestTurn(re, str, l) \in Loops
BY TurnCases DEF IsTurn

StartAt(at) == [e |-> at, s |-> at, es |-> 0, ss |-> 0, won |-> FALSE]

\* The loop, turn by turn.
AreTurns(re, str, at, after) ==
  /\ after[0] = StartAt(at) /\ StartAt(at) \in Loops
  /\ \A n \in 1..MaxTurns(re, str) :
       after[n - 1] \in Loops /\ after[n] = RestTurn(re, str, after[n - 1])
  /\ after[MaxTurns(re, str)] \in Loops
  /\ LET last == after[MaxTurns(re, str)]
     IN  Rest(re, str, at) <=> last.won = TRUE \/ (last.s = Len(str) /\ OnlyStars(re, last.e))

\* The rest of the loop is such turns, and its result what the last one says.
LEMMA RestTurns ==
  ASSUME NEW re, Len(re) \in Nat, NEW str, Len(str) \in Nat, NEW at \in Nat
  PROVE  \E after : AreTurns(re, str, at, after)
<1> DEFINE N == MaxTurns(re, str)
           start == StartAt(at)
           f == [x \in Loops \X (1..N) |-> RestTurn(re, str, x[1])]
           after[n \in 0..N] == IF n = 0 THEN start ELSE RestTurn(re, str, after[n - 1])
<1>1. N \in Nat
  BY DEF MaxTurns
<1>2. f \in [Loops \X (1..N) -> Loops]
  <2> HIDE DEF N
  <2> QED BY TurnType
<1>3. start \in Loops
  BY DEF StartAt, Loops
<1>4. \E g : IsTurns(g, Loops, f, start, N)
  <2> HIDE DEF f, start, N
  <2> QED BY <1>1, <1>2, <1>3, Iterated
<1>5. PICK g : IsTurns(g, Loops, f, start, N)
  BY <1>4
<1> HIDE DEF N, start
<1>6. ASSUME NEW n \in 1..N PROVE g[n] = RestTurn(re, str, g[n - 1])
  <2>1. n - 1 \in 0..N
    BY <1>1
  <2>2. g[n] = f[<<g[n - 1], n>>] /\ g[n - 1] \in Loops
    <3> HIDE DEF f
    <3> QED BY <2>1, <1>5 DEF IsTurns
  <2> QED BY <2>2
<1>7. g = [n \in 0..N |-> IF n = 0 THEN start ELSE RestTurn(re, str, g[n - 1])]
  <2> HIDE DEF f
  <2> DEFINE h == [n \in 0..N |-> IF n = 0 THEN start ELSE RestTurn(re, str, g[n - 1])]
  <2>1. g \in [0..N -> Loops] /\ g[0] = start
    BY <1>5 DEF IsTurns
  <2>2. ASSUME NEW n \in 0..N PROVE g[n] = h[n]
    <3>1. CASE n = 0
      BY <2>1, <3>1
    <3>2. CASE n # 0
      <4>1. n \in 1..N
        BY <1>1, <3>2
      <4> QED BY <1>6, <3>2, <4>1
    <3> QED BY <3>1, <3>2
  <2> QED BY <2>1, <2>2
<1>8. \E a : a = [n \in 0..N |-> IF n = 0 THEN start ELSE RestTurn(re, str, a[n - 1])]
  BY <1>7
<1>9. after = [n \in 0..N |-> IF n = 0 THEN start ELSE RestTurn(re, str, after[n - 1])]
  BY <1>8
<1>10. Rest(re, str, at) <=> after[N].won \/ (after[N].s = Len(str) /\ OnlyStars(re, after[N].e))
  BY DEF Rest, N, start, StartAt
<1> HIDE DEF after
<1>11. after[0] = start /\ \A n \in 1..N : after[n] = RestTurn(re, str, after[n - 1])
  BY <1>1, <1>9
<1>12. \A n \in 0..N : after[n] \in Loops
  <2> DEFINE S == {n \in Nat : n <= N => after[n] \in Loops}
  <2>1. 0 \in S
    BY <1>3, <1>11
  <2>2. ASSUME NEW n \in Nat, n \in S PROVE n + 1 \in S
    <3> SUFFICES ASSUME n + 1 <= N PROVE after[n + 1] \in Loops
      OBVIOUS
    <3>1. after[n] \in Loops /\ n + 1 \in 1..N /\ (n + 1) - 1 = n
      BY <1>1, <2>2
    <3>2. after[n + 1] = RestTurn(re, str, after[n])
      BY <1>11, <3>1
    <3> QED BY <3>1, <3>2, TurnType
  <2>3. Nat \subseteq S
    <3> HIDE DEF S
    <3> QED BY <2>1, <2>2, SetInduction
  <2> QED BY <1>1, <2>3
<1>13. N \in 0..N /\ \A n \in 1..N : n - 1 \in 0..N
  BY <1>1
<1>14. after[N].won \in BOOLEAN
  BY <1>12, <1>13 DEF Loops
<1>15. AreTurns(re, str, at, after)
  BY <1>3, <1>10, <1>11, <1>12, <1>13, <1>14 DEF AreTurns, N, start
<1> QED BY <1>15

\* What a try that resumed at ss - 1 knows of the glob from es on: it stands for
\* what is left, and a match of the whole needs one from there or later.
LoopOk(re, str, l) ==
  LET w == l.e - l.es
      from == l.ss - 1
  IN  /\ l \in Loops
      /\ l.won = TRUE => Ends(re, str, 0, 0)
      /\ l.won = FALSE =>
           /\ l.es <= l.e /\ l.e <= Len(re) /\ l.s <= Len(str) /\ l.ss >= 1 /\ l.s = from + w
           /\ \A q \in from..Len(str) : Ends(re, str, l.es, q) =>
                q + w <= Len(str) /\ Ends(re, str, l.e, q + w)
           /\ Ends(re, str, l.e, l.s) => Ends(re, str, l.es, from)
           /\ Ends(re, str, 0, 0) <=> \E q \in from..Len(str) : Ends(re, str, l.es, q)

\* Texts and globs as the matcher takes them.
Sane(re, str) ==
  /\ Len(re) \in Nat /\ Len(str) \in Nat
  /\ \A i \in 1..Len(re) : re[i] # "+"
  /\ \A i \in 1..Len(str) : str[i] # "none"

\* Where the glob goes on without "*".
LEMMA CharTurn ==
  ASSUME NEW re, NEW str, Sane(re, str), NEW e \in 0..Len(re), NEW s \in 0..(Len(str) - 1),
         getc(re, e) # "*"
  PROVE  /\ CharFits(re, e, str, s) =>
              e < Len(re) /\ (Ends(re, str, e, s) <=> Ends(re, str, e + 1, s + 1))
         /\ ~CharFits(re, e, str, s) => ~Ends(re, str, e, s)
         /\ \A q \in 0..Len(str) : e < Len(re) /\ Ends(re, str, e, q) =>
              q < Len(str) /\ Ends(re, str, e + 1, q + 1)
<1> DEFINE L == Len(re)
           N == Len(str)
<1>1. L \in Nat /\ N \in Nat /\ str[s + 1] # "none" /\ getc(str, s) = str[s + 1]
  BY DEF Sane, getc
<1>2. CASE e = L
  <2>1. getc(re, e) = "none"
    BY <1>2 DEF getc
  <2>2. ~CharFits(re, e, str, s)
    BY <1>1, <2>1 DEF CharFits
  <2>3. ~Ends(re, str, e, s)
    BY <1>1, <1>2, EndsLast
  <2> QED BY <1>2, <2>2, <2>3
<1>3. CASE e # L
  <2>1. e \in 0..(L - 1) /\ getc(re, e) = re[e + 1] /\ re[e + 1] \notin {"*", "+"}
    BY <1>1, <1>3 DEF Sane, getc
  <2>2. ASSUME NEW q \in 0..N
        PROVE  Ends(re, str, e, q) <=> /\ q < N /\ re[e + 1] \in {str[q + 1], "?"}
                                       /\ Ends(re, str, e + 1, q + 1)
    BY <1>1, <2>1, EndsChar
  <2>3. CharFits(re, e, str, s) <=> re[e + 1] \in {str[s + 1], "?"}
    BY <1>1, <2>1 DEF CharFits
  <2> QED BY <1>1, <2>1, <2>2, <2>3
<1> QED BY <1>2, <1>3

\* A turn keeps this: what failed is no match, and what a later "*" leaves out
\* is no loss.
LEMMA TurnKeeps ==
  ASSUME NEW re, NEW str, Sane(re, str), NEW l, LoopOk(re, str, l)
  PROVE  LoopOk(re, str, RestTurn(re, str, l))
<1> DEFINE r == RestTurn(re, str, l)
           L == Len(re)
           N == Len(str)
           E(e, s) == Ends(re, str, e, s)
           e == l.e   s == l.s   es == l.es   ss == l.ss
           w == e - es
           from == ss - 1
<1>1. l \in Loops /\ e \in Nat /\ s \in Nat /\ es \in Nat /\ ss \in Nat /\ L \in Nat /\ N \in Nat
  BY DEF LoopOk, Loops, Sane
<1>2. CASE s = N \/ l.won = TRUE
  <2>1. r = l
    BY <1>1, <1>2, TurnCases DEF IsTurn
  <2> QED BY <2>1
<1>3. CASE s # N /\ l.won = FALSE
  <2>0. s # Len(str) /\ l.won # TRUE
    BY <1>3
  <2>1. /\ r \in Loops
        /\ getc(re, e) = "*" =>
             /\ r.e = e + 1 /\ r.s = s /\ r.es = e + 1 /\ r.ss = s + 1
             /\ r.won = TRUE <=> e + 1 = L
        /\ getc(re, e) # "*" /\ CharFits(re, e, str, s) =>
             r.e = e + 1 /\ r.s = s + 1 /\ r.es = es /\ r.ss = ss /\ r.won = FALSE
        /\ getc(re, e) # "*" /\ ~CharFits(re, e, str, s) =>
             r.e = es /\ r.s = ss /\ r.es = es /\ r.ss = ss + 1 /\ r.won = FALSE
    <3>1. IsTurn(re, str, l, r)
      BY <1>1, TurnCases
    <3> HIDE DEF r
    <3> QED BY <2>0, <3>1 DEF IsTurn
  <2>2. /\ es <= e /\ e <= L /\ s < N /\ ss >= 1 /\ s = from + w
        /\ E(e, s) => E(es, from)
        /\ E(0, 0) <=> \E q \in from..N : E(es, q)
    BY <1>1, <1>3 DEF LoopOk
  <2>3. \A q \in from..N : E(es, q) => q + w <= N /\ E(e, q + w)
    BY <1>3 DEF LoopOk
  <2> HIDE DEF r, e, s, es, ss, L, N
  <2>4. from \in 0..N /\ w \in Nat /\ e \in 0..L /\ s \in 0..(N - 1)
    <3>1. es <= e /\ e <= L /\ s < N /\ ss >= 1 /\ s = from + w
      BY <2>2
    <3> QED BY <1>1, <3>1
  <2>5. CASE getc(re, e) = "*"
    <3>1. e \in 0..(L - 1) /\ re[e + 1] = "*" /\ e + 1 <= L
      BY <1>1, <2>4, <2>5 DEF getc, L
    <3>2. E(e, s) <=> \E q \in s..N : E(e + 1, q)
      BY <1>1, <2>4, <3>1, EndsStar DEF L, N
    <3>3. E(0, 0) <=> \E q \in s..N : E(e + 1, q)
      <4>1. ASSUME E(0, 0) PROVE \E q \in s..N : E(e + 1, q)
        <5>1. PICK q \in from..N : E(es, q)
          BY <2>2, <4>1
        <5>2. q + w \in 0..N /\ q + w >= s /\ E(e, q + w)
          BY <1>1, <2>2, <2>3, <2>4, <5>1
        <5>3. PICK x \in (q + w)..N : E(e + 1, x)
          BY <1>1, <3>1, <5>2, EndsStar DEF L, N
        <5>4. x \in s..N
          BY <1>1, <5>2
        <5> QED BY <5>3, <5>4
      <4>2. ASSUME NEW q \in s..N, E(e + 1, q) PROVE E(0, 0)
        <5>1. E(es, from)
          BY <2>2, <3>2, <4>2
        <5>2. from \in from..N
          BY <2>4, <1>1
        <5> QED BY <2>2, <5>1, <5>2
      <4> QED BY <4>1, <4>2
    <3>4. e + 1 = L => E(0, 0)
      <4>1. E(L, N)
        BY <1>1, EndsLast DEF L, N
      <4>2. N \in s..N
        BY <1>1, <2>4
      <4> QED BY <3>3, <4>1, <4>2
    <3>5. r.e - r.es = 0 /\ r.ss - 1 = s
      BY <1>1, <2>1, <2>5
    <3>6. \A q \in s..N : q + 0 = q
      BY <1>1
    <3>7. s + 0 = s /\ s <= N /\ r.ss >= 1
      BY <1>1, <2>1, <2>2, <2>5
    <3>8. LoopOk(re, str, r)
      <4>1. CASE r.won = TRUE
        BY <2>1, <2>5, <3>4, <4>1 DEF LoopOk, L
      <4>2. CASE r.won = FALSE
        <5>1. r.es <= r.e /\ r.e <= Len(re) /\ r.s <= Len(str) /\ r.ss >= 1
              /\ r.s = (r.ss - 1) + (r.e - r.es)
          BY <1>1, <2>1, <2>2, <2>5, <3>1, <3>5, <3>7 DEF L, N
        <5>2. \A q \in (r.ss - 1)..Len(str) : Ends(re, str, r.es, q) =>
                q + (r.e - r.es) <= Len(str) /\ Ends(re, str, r.e, q + (r.e - r.es))
          BY <1>1, <2>1, <2>4, <2>5, <3>5, <3>6 DEF N
        <5>3. Ends(re, str, r.e, r.s) => Ends(re, str, r.es, r.ss - 1)
          BY <2>1, <2>5, <3>5
        <5>4. Ends(re, str, 0, 0) <=> \E q \in (r.ss - 1)..Len(str) : Ends(re, str, r.es, q)
          BY <2>1, <2>5, <3>3, <3>5 DEF N
        <5> QED BY <2>1, <4>2, <5>1, <5>2, <5>3, <5>4 DEF LoopOk
      <4> QED BY <2>1, <4>1, <4>2 DEF Loops
    <3> QED BY <3>8 DEF r
  <2>6. CASE getc(re, e) # "*" /\ CharFits(re, e, str, s)
    <3>1. /\ e < L /\ (E(e, s) <=> E(e + 1, s + 1))
          /\ \A q \in 0..N : E(e, q) => q < N /\ E(e + 1, q + 1)
      BY <2>4, <2>6, CharTurn DEF L, N
    <3>2. ASSUME NEW q \in from..N, E(es, q)
          PROVE  q + (w + 1) <= N /\ E(e + 1, q + (w + 1))
      <4>1. q + w \in 0..N /\ E(e, q + w) /\ q + (w + 1) = (q + w) + 1
        BY <1>1, <2>3, <2>4, <3>2
      <4>2. q + w < N /\ E(e + 1, (q + w) + 1)
        BY <3>1, <4>1
      <4> QED BY <1>1, <2>4, <4>1, <4>2
    <3>3. r.e - r.es = w + 1 /\ r.ss - 1 = from
      BY <1>1, <2>1, <2>6
    <3>4. r.es <= r.e /\ r.e <= L /\ r.s <= N /\ r.ss >= 1 /\ r.s = from + (w + 1)
      BY <1>1, <2>1, <2>2, <2>4, <2>6, <3>1
    <3>5. \A q \in (r.ss - 1)..Len(str) : Ends(re, str, r.es, q) =>
            q + (r.e - r.es) <= Len(str) /\ Ends(re, str, r.e, q + (r.e - r.es))
      <4> HIDE DEF w, from
      <4> QED BY <2>1, <2>6, <3>2, <3>3 DEF N
    <3>6. Ends(re, str, r.e, r.s) => Ends(re, str, r.es, r.ss - 1)
      BY <2>1, <2>2, <2>6, <3>1, <3>3
    <3>7. Ends(re, str, 0, 0) <=> \E q \in (r.ss - 1)..Len(str) : Ends(re, str, r.es, q)
      BY <2>1, <2>2, <2>6, <3>3 DEF N
    <3>8. r.es <= r.e /\ r.e <= Len(re) /\ r.s <= Len(str) /\ r.ss >= 1
          /\ r.s = (r.ss - 1) + (r.e - r.es)
      BY <3>3, <3>4 DEF L, N
    <3>9. LoopOk(re, str, r)
      BY <2>1, <2>6, <3>5, <3>6, <3>7, <3>8 DEF LoopOk
    <3> QED BY <3>9 DEF r
  <2>7. CASE getc(re, e) # "*" /\ ~CharFits(re, e, str, s)
    <3>1. ~E(e, s)
      BY <2>4, <2>7, CharTurn DEF L, N
    <3>2. ~E(es, from)
      <4>1. from \in from..N
        BY <1>1, <2>4
      <4> QED BY <2>2, <2>3, <3>1, <4>1
    <3>3. E(0, 0) <=> \E q \in ss..N : E(es, q)
      <4>1. \A q \in from..N : q = from \/ q \in ss..N
        BY <1>1, <2>2
      <4>2. \A q \in ss..N : q \in from..N
        BY <1>1, <2>2
      <4> QED BY <2>2, <3>2, <4>1, <4>2
    <3>4. r.e - r.es = 0 /\ r.ss - 1 = ss
      BY <1>1, <2>1, <2>7
    <3>5. r.es <= r.e /\ r.e <= L /\ r.s <= N /\ r.ss >= 1 /\ r.s = ss + 0
      BY <1>1, <2>1, <2>2, <2>4, <2>7
    <3>6. \A q \in ss..N : q + 0 = q /\ q <= N
      BY <1>1
    <3>7. ss + 0 = ss
      BY <1>1
    <3>8. r.es <= r.e /\ r.e <= Len(re) /\ r.s <= Len(str) /\ r.ss >= 1
          /\ r.s = (r.ss - 1) + (r.e - r.es)
      BY <3>4, <3>5 DEF L, N
    <3>9. \A q \in (r.ss - 1)..Len(str) : Ends(re, str, r.es, q) =>
            q + (r.e - r.es) <= Len(str) /\ Ends(re, str, r.e, q + (r.e - r.es))
      BY <2>1, <2>7, <3>4, <3>6 DEF N
    <3>10. Ends(re, str, r.e, r.s) => Ends(re, str, r.es, r.ss - 1)
      BY <2>1, <2>7, <3>4
    <3>11. Ends(re, str, 0, 0) <=> \E q \in (r.ss - 1)..Len(str) : Ends(re, str, r.es, q)
      BY <2>1, <2>7, <3>3, <3>4 DEF N
    <3>12. LoopOk(re, str, r)
      BY <2>1, <2>7, <3>8, <3>9, <3>10, <3>11 DEF LoopOk
    <3> QED BY <3>12 DEF r
  <2> QED BY <2>5, <2>6, <2>7
<1>4. l.won \in BOOLEAN
  BY <1>1 DEF Loops
<1> QED BY <1>2, <1>3, <1>4

\* What is left of the glob where the text has ended.
LEMMA StarsEnd ==
  ASSUME NEW re, NEW str, Sane(re, str), NEW e \in 0..Len(re)
  PROVE  Ends(re, str, e, Len(str)) <=> OnlyStars(re, e)
<1> DEFINE L == Len(re)
           N == Len(str)
           S == {k \in Nat : k <= L => (Ends(re, str, L - k, N) <=> OnlyStars(re, L - k))}
<1>1. L \in Nat /\ N \in Nat /\ N \in 0..N
  BY DEF Sane
<1>2. 0 \in S
  <2>1. L - 0 = L
    BY <1>1
  <2>2. Ends(re, str, L, N)
    BY <1>1, EndsLast
  <2>3. OnlyStars(re, L)
    BY <1>1 DEF OnlyStars
  <2> QED BY <2>1, <2>2, <2>3
<1>3. ASSUME NEW k \in Nat, k \in S PROVE k + 1 \in S
  <2> SUFFICES ASSUME k + 1 <= L
               PROVE  Ends(re, str, L - (k + 1), N) <=> OnlyStars(re, L - (k + 1))
    OBVIOUS
  <2> DEFINE n == L - (k + 1)
  <2>1. n \in 0..(L - 1) /\ n + 1 = L - k /\ k <= L
    BY <1>1
  <2>2. Ends(re, str, n + 1, N) <=> OnlyStars(re, n + 1)
    BY <1>3, <2>1
  <2>3. OnlyStars(re, n) <=> re[n + 1] = "*" /\ OnlyStars(re, n + 1)
    <3> HIDE DEF n, L
    <3>1. \A i \in (n + 1)..L : i = n + 1 \/ i \in ((n + 1) + 1)..L
      BY <1>1, <2>1
    <3>2. n + 1 \in (n + 1)..L /\ \A i \in ((n + 1) + 1)..L : i \in (n + 1)..L
      BY <1>1, <2>1
    <3> QED BY <3>1, <3>2 DEF OnlyStars, L
  <2> HIDE DEF n
  <2>4. CASE re[n + 1] = "*"
    <3>1. Ends(re, str, n, N) <=> \E q \in N..N : Ends(re, str, n + 1, q)
      BY <1>1, <2>1, <2>4, EndsStar
    <3>2. \A q \in N..N : q = N
      BY <1>1
    <3>3. N \in N..N
      BY <1>1
    <3>4. Ends(re, str, n, N) <=> Ends(re, str, n + 1, N)
      BY <3>1, <3>2, <3>3
    <3> QED BY <2>2, <2>3, <2>4, <3>4 DEF n
  <2>5. CASE re[n + 1] # "*"
    <3>1. n + 1 \in 1..L
      BY <1>1, <2>1
    <3>2. re[n + 1] \notin {"*", "+"}
      BY <2>5, <3>1 DEF Sane
    <3>3. ~(N < N)
      BY <1>1
    <3>4. ~Ends(re, str, n, N)
      BY <1>1, <2>1, <3>2, <3>3, EndsChar
    <3> QED BY <2>3, <2>5, <3>4 DEF n
  <2> QED BY <2>4, <2>5
<1>4. Nat \subseteq S
  <2> HIDE DEF S
  <2> QED BY <1>2, <1>3, SetInduction
<1>5. L - e \in Nat /\ L - e <= L /\ L - (L - e) = e
  BY <1>1
<1>6. L - e \in S
  BY <1>4, <1>5
<1> QED BY <1>5, <1>6

\* The least place where the first part of the loop stops.
LEMMA LeadingPlace ==
  ASSUME NEW re, NEW str, Sane(re, str), NEW at, at = Leading(re, str).at
  PROVE  /\ at \in 0..Len(str)
         /\ at = Len(str) \/ getc(re, at) = "*"
         /\ \A i \in 0..(at - 1) : i < Len(str) /\ getc(re, i) # "*"
         /\ Leading(re, str).ok <=> \A i \in 0..(at - 1) : CharFits(re, i, str, i)
<1> DEFINE N == Len(str)
           S == {i \in 0..N : i = N \/ getc(re, i) = "*"}
<1>1. N \in Nat
  BY DEF Sane
<1>2. N \in S /\ S \subseteq Nat
  BY <1>1
<1>3. \E x \in S : \A y \in S : x <= y
  <2> HIDE DEF S
  <2> QED BY <1>2, NatMin
<1>4. Min(S) \in S /\ \A y \in S : Min(S) <= y
  BY <1>3 DEF Min
<1>5. at = Min(S)
  BY DEF Leading
<1>6. Leading(re, str).ok <=> \A i \in 0..(at - 1) : CharFits(re, i, str, i)
  BY <1>5 DEF Leading
<1>7. ASSUME NEW i \in 0..(at - 1) PROVE i < N /\ getc(re, i) # "*"
  <2>1. at \in 0..N /\ i \in 0..N /\ i < at /\ i < N
    BY <1>1, <1>4, <1>5
  <2>2. i \notin S
    BY <1>4, <1>5, <2>1
  <2> QED BY <1>1, <2>1, <2>2
<1> QED BY <1>4, <1>5, <1>6, <1>7

\* The whole matches where the first part fits and the rest does.
LEMMA LeadingGoesOn ==
  ASSUME NEW re, NEW str, Sane(re, str), NEW at, at = Leading(re, str).at
  PROVE  /\ Ends(re, str, 0, 0) => Leading(re, str).ok
         /\ Leading(re, str).ok =>
              at <= Len(re) /\ (Ends(re, str, 0, 0) <=> Ends(re, str, at, at))
<1> DEFINE L == Len(re)
           N == Len(str)
           E(e, s) == Ends(re, str, e, s)
           fits(i) == CharFits(re, i, str, i)
<1>1. L \in Nat /\ N \in Nat
  BY DEF Sane
<1>2. at \in 0..N /\ \A i \in 0..(at - 1) : i < N /\ getc(re, i) # "*"
  BY LeadingPlace
<1>3. Leading(re, str).ok <=> \A i \in 0..(at - 1) : fits(i)
  BY LeadingPlace
<1> HIDE DEF L, N
<1>4. ASSUME NEW i \in 0..(at - 1), i <= L
      PROVE  /\ fits(i) => i < L /\ (E(i, i) <=> E(i + 1, i + 1))
             /\ ~fits(i) => ~E(i, i)
  <2>1. i \in 0..L /\ i \in 0..(N - 1) /\ getc(re, i) # "*"
    BY <1>1, <1>2, <1>4
  <2> QED BY <2>1, CharTurn DEF L, N
<1>5. ASSUME E(0, 0) PROVE Leading(re, str).ok
  <2> DEFINE S == {n \in Nat : n <= at => n <= L /\ E(n, n) /\ \A i \in 0..(n - 1) : fits(i)}
  <2>1. 0 \in S
    BY <1>1, <1>5
  <2>2. ASSUME NEW n \in Nat, n \in S PROVE n + 1 \in S
    <3> SUFFICES ASSUME n + 1 <= at
                 PROVE  n + 1 <= L /\ E(n + 1, n + 1) /\ \A i \in 0..((n + 1) - 1) : fits(i)
      OBVIOUS
    <3>1. n \in 0..(at - 1) /\ n <= L /\ E(n, n) /\ \A i \in 0..(n - 1) : fits(i)
      BY <1>1, <1>2, <2>2
    <3>2. fits(n) /\ n < L /\ E(n + 1, n + 1)
      BY <1>4, <3>1
    <3>3. \A i \in 0..((n + 1) - 1) : i = n \/ i \in 0..(n - 1)
      BY <1>1
    <3>4. n + 1 <= L
      BY <1>1, <3>2
    <3> HIDE DEF E, fits
    <3> QED BY <3>1, <3>2, <3>3, <3>4
  <2>3. at \in S
    <3> HIDE DEF S
    <3> QED BY <1>2, <2>1, <2>2, SetInduction
  <2> QED BY <1>2, <1>3, <2>3
<1>6. ASSUME Leading(re, str).ok PROVE at <= L /\ (E(0, 0) <=> E(at, at))
  <2> DEFINE S == {n \in Nat : n <= at => n <= L /\ (E(0, 0) <=> E(n, n))}
  <2>1. 0 \in S
    BY <1>1
  <2>2. ASSUME NEW n \in Nat, n \in S PROVE n + 1 \in S
    <3> SUFFICES ASSUME n + 1 <= at PROVE n + 1 <= L /\ (E(0, 0) <=> E(n + 1, n + 1))
      OBVIOUS
    <3>1. n \in 0..(at - 1) /\ n <= L /\ (E(0, 0) <=> E(n, n))
      BY <1>1, <1>2, <2>2
    <3>2. fits(n)
      BY <1>3, <1>6, <3>1
    <3>3. n < L /\ (E(n, n) <=> E(n + 1, n + 1))
      BY <1>4, <3>1, <3>2
    <3>4. n + 1 <= L
      BY <1>1, <3>3
    <3> HIDE DEF E, fits
    <3> QED BY <3>1, <3>3, <3>4
  <2>3. at \in S
    <3> HIDE DEF S
    <3> QED BY <1>2, <2>1, <2>2, SetInduction
  <2> QED BY <1>2, <2>3
<1> QED BY <1>5, <1>6 DEF L

\* How far the loop is: it resumes at another character of the text, or passes
\* one of the glob.
Progress(re, l) == (l.ss - 1) * (Len(re) + 1) + l.e
IsOver(str, l) == l.s = Len(str) \/ l.won = TRUE

\* Every turn of a loop that goes on makes progress.
LEMMA TurnProgress ==
  ASSUME NEW re, NEW str, Sane(re, str), NEW l, LoopOk(re, str, l), ~IsOver(str, l)
  PROVE  Progress(re, RestTurn(re, str, l)) >= Progress(re, l) + 1
<1> DEFINE r == RestTurn(re, str, l)
           K == Len(re) + 1
<1>1. l \in Loops /\ l.won = FALSE
  BY DEF LoopOk, IsOver, Loops
<1>2. IsTurn(re, str, l, r)
  BY <1>1, TurnCases
<1>3. /\ l.es <= l.e /\ l.e <= Len(re) /\ l.ss >= 1 /\ l.s >= l.ss - 1
      /\ l.e \in Nat /\ l.s \in Nat /\ l.es \in Nat /\ l.ss \in Nat /\ K \in Nat
      /\ Len(re) \in Nat
  <2>1. /\ l.e \in Nat /\ l.s \in Nat /\ l.es \in Nat /\ l.ss \in Nat /\ K \in Nat
        /\ Len(re) \in Nat
    BY <1>1 DEF Loops, Sane
  <2>2. l.es <= l.e /\ l.e <= Len(re) /\ l.ss >= 1 /\ l.s = (l.ss - 1) + (l.e - l.es)
    BY <1>1 DEF LoopOk
  <2> QED BY <2>1, <2>2
<1> HIDE DEF r
<1>4. \A a \in Nat, b \in Nat : a <= b => a * K <= b * K
  <2> HIDE DEF K
  <2> QED BY <1>3
<1>5. CASE getc(re, l.e) = "*"
  <2>1. r.e = l.e + 1 /\ r.ss - 1 = l.s
    BY <1>2, <1>3, <1>5 DEF IsTurn, IsOver
  <2>2. (l.ss - 1) * K <= l.s * K
    BY <1>3, <1>4
  <2> DEFINE x == (l.ss - 1) * K
             y == l.s * K
  <2>3. x \in Int /\ y \in Int
    BY <1>3
  <2> HIDE DEF x, y
  <2>4. y + (l.e + 1) >= (x + l.e) + 1
    BY <1>3, <2>2, <2>3 DEF x, y
  <2> QED BY <2>1, <2>4 DEF Progress, r, x, y
<1>6. CASE getc(re, l.e) # "*" /\ CharFits(re, l.e, str, l.s)
  <2>1. r.e = l.e + 1 /\ r.ss = l.ss
    BY <1>2, <1>6 DEF IsTurn, IsOver
  <2> DEFINE x == (l.ss - 1) * K
  <2>2. x \in Int
    BY <1>3
  <2> HIDE DEF x
  <2>3. x + (l.e + 1) >= (x + l.e) + 1
    BY <1>3, <2>2
  <2> QED BY <2>1, <2>3 DEF Progress, r, x
<1>7. CASE getc(re, l.e) # "*" /\ ~CharFits(re, l.e, str, l.s)
  <2>1. r.e = l.es /\ r.ss = l.ss + 1
    BY <1>2, <1>7 DEF IsTurn, IsOver
  <2> DEFINE x == (l.ss - 1) * K
             y == (r.ss - 1) * K
  <2>2. y = x + K /\ x \in Int /\ y \in Int
    <3>1. r.ss - 1 = (l.ss - 1) + 1
      BY <1>3, <2>1
    <3>2. \A a \in Nat : (a + 1) * K = a * K + K
      <4> HIDE DEF K
      <4> QED BY <1>3
    <3>3. l.ss - 1 \in Nat
      BY <1>3
    <3>4. x \in Int
      BY <1>3
    <3> HIDE DEF K
    <3> QED BY <1>3, <3>1, <3>2, <3>3, <3>4
  <2> HIDE DEF x, y
  <2>3. y + l.es >= (x + l.e) + 1
    BY <1>3, <2>2
  <2> QED BY <2>1, <2>3 DEF Progress, r, x, y
<1> QED BY <1>5, <1>6, <1>7

\* There is only so much to be made.
LEMMA ProgressBounded ==
  ASSUME NEW re, NEW str, Sane(re, str), NEW l, LoopOk(re, str, l), ~IsOver(str, l)
  PROVE  Progress(re, l) \in Int /\ Progress(re, l) < MaxTurns(re, str)
<1> DEFINE L == Len(re)
           N == Len(str)
<1>1. l \in Loops /\ l.won = FALSE /\ l.s # N
  BY DEF LoopOk, IsOver, Loops
<1>2. /\ l.e \in Nat /\ l.s \in Nat /\ l.es \in Nat /\ l.ss \in Nat /\ L \in Nat /\ N \in Nat
  BY <1>1 DEF Loops, Sane
<1>3. /\ l.es <= l.e /\ l.e <= L /\ l.ss >= 1 /\ l.s = (l.ss - 1) + (l.e - l.es) /\ l.s <= N
  BY <1>1 DEF LoopOk
<1> DEFINE a == l.ss - 1
           K == L + 1
<1>4. a \in Nat /\ a + 1 <= N /\ K \in Nat
  BY <1>1, <1>2, <1>3
<1>5. (a + 1) * K <= N * K /\ (a + 1) * K = a * K + K /\ a * K \in Int /\ N * K \in Int
  <2> HIDE DEF a, K, N
  <2> QED BY <1>2, <1>4
<1>6. a * K + l.e \in Int /\ a * K + l.e < N * K
  <2> DEFINE x == a * K
             y == N * K
             z == (a + 1) * K
  <2>1. z <= y /\ z = x + K /\ x \in Int /\ y \in Int
    BY <1>5
  <2> HIDE DEF x, y, z
  <2>2. x + l.e \in Int /\ x + l.e < y
    BY <1>2, <1>3, <2>1
  <2> QED BY <2>2 DEF x, y
<1> QED BY <1>6 DEF Progress, MaxTurns

\* The first turn behind the leading part, which takes a "*".
LEMMA FirstTurn ==
  ASSUME NEW re, NEW str, Sane(re, str), NEW at \in 0..(Len(str) - 1), getc(re, at) = "*",
         at <= Len(re), Ends(re, str, 0, 0) <=> Ends(re, str, at, at)
  PROVE  LoopOk(re, str, RestTurn(re, str, StartAt(at)))
         /\ Progress(re, RestTurn(re, str, StartAt(at))) >= 1
<1> DEFINE l == StartAt(at)
           r == RestTurn(re, str, l)
           L == Len(re)
           N == Len(str)
<1>1. L \in Nat /\ N \in Nat
  BY DEF Sane
<1>2. /\ l \in Loops /\ l.e = at /\ l.s = at /\ l.won = FALSE
  BY DEF StartAt, Loops
<1>3. IsTurn(re, str, l, r)
  BY <1>2, TurnCases
<1> HIDE DEF l, r
<1>4. /\ r \in Loops /\ r.e = at + 1 /\ r.s = at /\ r.es = at + 1 /\ r.ss = at + 1
      /\ r.won = TRUE <=> at + 1 = L
  <2>1. ~(l.s = Len(str) \/ l.won = TRUE)
    BY <1>1, <1>2
  <2> QED BY <1>2, <1>3, <2>1 DEF IsTurn
<1>5. at \in 0..(L - 1) /\ re[at + 1] = "*" /\ at \in 0..N
  BY <1>1 DEF getc
<1>6. Ends(re, str, 0, 0) <=> \E q \in at..N : Ends(re, str, at + 1, q)
  BY <1>1, <1>5, EndsStar
<1>7. r.ss - 1 = at /\ r.e - r.es = 0
  BY <1>1, <1>4
<1>8. r.won = TRUE => Ends(re, str, 0, 0)
  <2>1. ASSUME at + 1 = L PROVE Ends(re, str, 0, 0)
    <3>1. Ends(re, str, L, N)
      BY <1>1, EndsLast
    <3>2. N \in at..N
      BY <1>1
    <3> HIDE DEF L, N
    <3> QED BY <1>6, <2>1, <3>1, <3>2
  <2> QED BY <1>4, <2>1
<1>9. r.es <= r.e /\ r.e <= Len(re) /\ r.s <= Len(str) /\ r.ss >= 1
      /\ r.s = (r.ss - 1) + (r.e - r.es)
  BY <1>1, <1>4, <1>5
<1>10. \A q \in (r.ss - 1)..Len(str) : Ends(re, str, r.es, q) =>
         q + (r.e - r.es) <= Len(str) /\ Ends(re, str, r.e, q + (r.e - r.es))
  <2>1. \A q \in at..N : q + 0 = q /\ q <= N
    BY <1>1
  <2> QED BY <1>4, <1>7, <2>1
<1>11. Ends(re, str, r.e, r.s) => Ends(re, str, r.es, r.ss - 1)
  BY <1>4, <1>7
<1>12. Ends(re, str, 0, 0) <=> \E q \in (r.ss - 1)..Len(str) : Ends(re, str, r.es, q)
  BY <1>4, <1>6, <1>7
<1>13. LoopOk(re, str, r)
  BY <1>4, <1>8, <1>9, <1>10, <1>11, <1>12 DEF LoopOk
<1>14. Progress(re, r) >= 1
  <2>1. at * (L + 1) \in Nat
    BY <1>1
  <2>2. Progress(re, r) = at * (L + 1) + (at + 1)
    BY <1>4, <1>7 DEF Progress
  <2> DEFINE x == at * (L + 1)
  <2> HIDE DEF x
  <2>3. x \in Nat => x + (at + 1) >= 1
    OBVIOUS
  <2> QED BY <2>1, <2>2, <2>3 DEF x
<1> QED BY <1>13, <1>14 DEF r, l

\* Where the loop is over, what it says is what the whole glob says.
LEMMA OverDecides ==
  ASSUME NEW re, NEW str, Sane(re, str), NEW l, LoopOk(re, str, l), IsOver(str, l)
  PROVE  l.won = TRUE \/ (l.s = Len(str) /\ OnlyStars(re, l.e)) <=> Ends(re, str, 0, 0)
<1> DEFINE N == Len(str)
           w == l.e - l.es
           from == l.ss - 1
<1>1. l \in Loops /\ Len(re) \in Nat /\ N \in Nat
  BY DEF LoopOk, Sane
<1>2. CASE l.won = TRUE
  BY <1>2 DEF LoopOk
<1>3. CASE l.won # TRUE
  <2>1. l.won = FALSE /\ l.s = N
    BY <1>1, <1>3 DEF Loops, IsOver
  <2>2. /\ l.es <= l.e /\ l.e <= Len(re) /\ l.s <= N /\ l.ss >= 1 /\ l.s = from + w
        /\ Ends(re, str, l.e, l.s) => Ends(re, str, l.es, from)
        /\ Ends(re, str, 0, 0) <=> \E q \in from..N : Ends(re, str, l.es, q)
    BY <2>1 DEF LoopOk
  <2>3. \A q \in from..N : Ends(re, str, l.es, q) => q + w <= N /\ Ends(re, str, l.e, q + w)
    BY <2>1 DEF LoopOk
  <2>4. /\ l.e \in Nat /\ l.s \in Nat /\ l.es \in Nat /\ l.ss \in Nat
    BY <1>1 DEF Loops
  <2>5. from \in Nat /\ w \in Nat /\ l.e \in 0..Len(re) /\ from + w = N /\ from \in from..N
    BY <1>1, <2>1, <2>2, <2>4
  <2>6. Ends(re, str, l.e, N) <=> OnlyStars(re, l.e)
    BY <2>5, StarsEnd
  <2> HIDE DEF from, w, N
  <2>7. ASSUME Ends(re, str, 0, 0) PROVE Ends(re, str, l.e, N)
    <3>1. PICK q \in from..N : Ends(re, str, l.es, q)
      BY <2>2, <2>7
    <3>2. q + w <= N /\ Ends(re, str, l.e, q + w)
      BY <2>3, <3>1
    <3>3. q + w = N
      BY <1>1, <2>5, <3>2
    <3> QED BY <3>2, <3>3
  <2>8. ASSUME Ends(re, str, l.e, N) PROVE Ends(re, str, 0, 0)
    BY <2>1, <2>2, <2>5, <2>8
  <2> QED BY <1>3, <2>1, <2>6, <2>7, <2>8 DEF N
<1> QED BY <1>2, <1>3

\* The rest of the loop decides whether the whole matches.
LEMMA RestDecides ==
  ASSUME NEW re, NEW str, Sane(re, str), NEW at \in 0..Len(str), at <= Len(re),
         at = Len(str) \/ getc(re, at) = "*",
         Ends(re, str, 0, 0) <=> Ends(re, str, at, at)
  PROVE  Rest(re, str, at) <=> Ends(re, str, 0, 0)
<1> DEFINE M == MaxTurns(re, str)
           N == Len(str)
<1>1. Len(re) \in Nat /\ N \in Nat /\ M \in Nat
  BY DEF Sane, MaxTurns
<1>2. PICK after : AreTurns(re, str, at, after)
  <2>1. at \in Nat
    OBVIOUS
  <2> QED BY <1>1, <2>1, RestTurns
<1>3. /\ after[0] = StartAt(at) /\ StartAt(at) \in Loops
      /\ \A n \in 1..M : after[n - 1] \in Loops /\ after[n] = RestTurn(re, str, after[n - 1])
      /\ Rest(re, str, at)
           <=> after[M].won = TRUE \/ (after[M].s = N /\ OnlyStars(re, after[M].e))
  BY <1>2 DEF AreTurns
<1>4. StartAt(at).s = at /\ StartAt(at).e = at /\ StartAt(at).won = FALSE
  BY DEF StartAt
<1> HIDE DEF M
<1>5. CASE at = N
  <2> DEFINE S == {n \in Nat : n <= M => after[n] = StartAt(at)}
  <2>1. 0 \in S
    BY <1>3
  <2>2. ASSUME NEW n \in Nat, n \in S PROVE n + 1 \in S
    <3> SUFFICES ASSUME n + 1 <= M PROVE after[n + 1] = StartAt(at)
      OBVIOUS
    <3>1. n + 1 \in 1..M /\ (n + 1) - 1 = n /\ n <= M
      BY <1>1
    <3>2. after[n] = StartAt(at) /\ after[n + 1] = RestTurn(re, str, after[n])
      BY <1>3, <2>2, <3>1
    <3>3. IsTurn(re, str, after[n], after[n + 1])
      BY <1>3, <2>2, <3>1, <3>2, TurnCases
    <3> QED BY <1>4, <1>5, <3>2, <3>3 DEF IsTurn
  <2>3. M \in S
    <3> HIDE DEF S
    <3> QED BY <1>1, <2>1, <2>2, SetInduction
  <2>4. after[M] = StartAt(at)
    BY <2>3
  <2>5. Ends(re, str, at, N) <=> OnlyStars(re, at)
    BY <1>1, StarsEnd
  <2> QED BY <1>3, <1>4, <1>5, <2>4, <2>5
<1>6. CASE at # N
  <2>1. at \in 0..(N - 1) /\ getc(re, at) = "*"
    BY <1>1, <1>6
  <2>2. 1 <= M /\ 1 \in 1..M /\ 1 - 1 = 0
    <3>1. N * (Len(re) + 1) >= 1
      <4>1. N >= 1 /\ Len(re) + 1 >= 1 /\ Len(re) + 1 \in Nat
        BY <1>1, <2>1
      <4> DEFINE K == Len(re) + 1
      <4>2. \A a \in Nat, b \in Nat : a >= 1 /\ b >= 1 => a * b >= 1
        OBVIOUS
      <4> QED BY <1>1, <4>1, <4>2
    <3>2. M >= 1
      BY <3>1 DEF M, MaxTurns
    <3> QED BY <1>1, <3>2
  <2>3. after[1] = RestTurn(re, str, StartAt(at))
    BY <1>3, <2>2
  <2>4. LoopOk(re, str, after[1]) /\ Progress(re, after[1]) >= 1
    BY <2>1, <2>3, FirstTurn
  <2> DEFINE good(n) == LoopOk(re, str, after[n])
             far(n) == ~IsOver(str, after[n]) => Progress(re, after[n]) >= n
             S == {n \in Nat : n + 1 <= M => good(n + 1) /\ far(n + 1)}
  <2>5. 0 \in S
    BY <2>4
  <2>6. ASSUME NEW n \in Nat, n \in S PROVE n + 1 \in S
    <3> DEFINE m == n + 1
    <3> SUFFICES ASSUME m + 1 <= M PROVE good(m + 1) /\ far(m + 1)
      OBVIOUS
    <3>1. m + 1 \in 1..M /\ (m + 1) - 1 = m /\ m <= M /\ m \in Nat
      BY <1>1
    <3>2. good(m) /\ far(m)
      BY <2>6, <3>1
    <3>3. after[m + 1] = RestTurn(re, str, after[m]) /\ after[m] \in Loops
      BY <1>3, <3>1
    <3> HIDE DEF m
    <3>4. good(m + 1)
      BY <3>2, <3>3, TurnKeeps
    <3>5. far(m + 1)
      <4> SUFFICES ASSUME ~IsOver(str, after[m + 1]) PROVE Progress(re, after[m + 1]) >= m + 1
        OBVIOUS
      <4>1. ~IsOver(str, after[m])
        <5>1. IsTurn(re, str, after[m], after[m + 1])
          BY <3>3, TurnCases
        <5>2. IsOver(str, after[m]) => after[m + 1] = after[m]
          BY <5>1 DEF IsTurn, IsOver
        <5> QED BY <5>2
      <4>2. Progress(re, after[m + 1]) >= Progress(re, after[m]) + 1
        BY <3>2, <3>3, <4>1, TurnProgress
      <4>3. Progress(re, after[m]) \in Int /\ Progress(re, after[m + 1]) \in Int
        BY <3>2, <3>4, <4>1, ProgressBounded
      <4>4. Progress(re, after[m]) >= m
        BY <3>2, <4>1
      <4> QED BY <3>1, <4>2, <4>3, <4>4
    <3> QED BY <3>4, <3>5
  <2>7. Nat \subseteq S
    <3> HIDE DEF S
    <3> QED BY <2>5, <2>6, SetInduction
  <2>8. M - 1 \in Nat /\ (M - 1) + 1 = M /\ (M - 1) + 1 <= M
    BY <1>1, <2>2
  <2>9. good(M) /\ far(M)
    <3>1. M - 1 \in S
      BY <2>7, <2>8
    <3> HIDE DEF good, far
    <3> QED BY <2>8, <3>1
  <2>10. IsOver(str, after[M])
    <3> SUFFICES ASSUME ~IsOver(str, after[M]) PROVE FALSE
      OBVIOUS
    <3>1. Progress(re, after[M]) >= M
      BY <2>9
    <3>2. Progress(re, after[M]) \in Int /\ Progress(re, after[M]) < M
      BY <2>9, ProgressBounded DEF M
    <3> QED BY <1>1, <3>1, <3>2
  <2> QED BY <1>3, <2>9, <2>10, OverDecides
<1> QED BY <1>5, <1>6

\* The matcher of the Verilog only build gives a glob without "+" and "^" its
\* meaning, where the text holds nothing that getc gives beyond its end.
LEMMA VerilogMatchesGlob ==
  ASSUME NEW re, NEW str, Sane(re, str), re # <<>>, re[1] # "^"
  PROVE  VerilogMatch(re, str) <=> GlobMatches(re, str)
<1> DEFINE lead == Leading(re, str)
<1>1. VerilogMatch(re, str) <=> lead.ok /\ Rest(re, str, lead.at)
  BY DEF VerilogMatch
<1>2. GlobMatches(re, str) <=> Ends(re, str, 0, 0)
  BY EndsMatches DEF Sane
<1>3. PICK at : at = lead.at
  OBVIOUS
<1>4. /\ at \in 0..Len(str)
      /\ at = Len(str) \/ getc(re, at) = "*"
  BY <1>3, LeadingPlace
<1>5. /\ Ends(re, str, 0, 0) => lead.ok
      /\ lead.ok => at <= Len(re) /\ (Ends(re, str, 0, 0) <=> Ends(re, str, at, at))
  BY <1>3, LeadingGoesOn
<1>6. lead.ok => (Rest(re, str, at) <=> Ends(re, str, 0, 0))
  BY <1>4, <1>5, RestDecides
<1> QED BY <1>1, <1>2, <1>3, <1>5, <1>6
=============================================================================
