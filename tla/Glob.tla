-------------------------------- MODULE Glob --------------------------------
(***************************************************************************)
(* Expressions as sequences of characters: the conversion of a glob to a   *)
(* regular expression (dpi/uvm_regex.cc) and the matching of both.         *)
(*                                                                         *)
(* A definition marked "mutant" is a wrong version of the one below it,    *)
(* kept to show that the properties tell them apart; nothing uses it.      *)
(***************************************************************************)
EXTENDS Integers, SequencesExt

CONSTANT MaxLength   \* UVM_REGEX_MAX_LENGTH

ASSUME GlobAssumption == MaxLength \in Nat /\ MaxLength >= 4

BufferSize == MaxLength + 4

Refused == [ok |-> FALSE]
Text(re) == [ok |-> TRUE, re |-> re]

Bracketed(re) == re # <<>> /\ re[1] = "/" /\ Last(re) = "/"
\* mutant: the closing bracket stays
StrippedLong(re) == SubSeq(re, 2, Len(re))

\* strncpy(buffer, &re[1], re_len - 2)
Stripped(re) == SubSeq(re, 2, Len(re) - 1)

Repeats == {"*", "+"}
Escaped == {".", "[", "]", "(", ")"}

\* mutant: "." stays a metacharacter
DotUnescaped(c) ==
  CASE c \in Repeats -> <<".", c>> [] c \in Escaped \ {"."} -> <<"\\", c>>
    [] c = "?" -> <<".">> [] OTHER -> <<c>>

Expansion(c) ==
  CASE c \in Repeats -> <<".", c>> [] c \in Escaped -> <<"\\", c>>
    [] c = "?" -> <<".">> [] OTHER -> <<c>>

Bracket(b) == IF b THEN <<"/">> ELSE <<>>
Opening(glob, b) == Bracket(b) \o (IF glob[1] = "^" THEN <<>> ELSE <<"^">>)
Body(glob) == FlattenSeq([i \in 1..Len(glob) |-> Expansion(glob[i])])
Closing(glob, b) == (IF Last(glob) = "$" THEN <<>> ELSE <<"$">>) \o Bracket(b)

\* glob_len after n characters: each one counts once for itself, and twice
\* more where it becomes two.
glob_len(glob, b, n) ==
  Len(glob) + Len(Opening(glob, b))
    + 2 * Cardinality({i \in 1..n : glob[i] \in Repeats \union Escaped})

Short(glob) == glob \in {<<>>, <<"/">>}

uvm_re_deglobbed(glob, with_brackets) ==
  IF Short(glob) THEN Text(Bracket(with_brackets) \o <<"^", "$">> \o Bracket(with_brackets))
  ELSE IF Bracketed(glob)
  THEN IF Len(glob) > MaxLength THEN Refused
       ELSE Text(IF with_brackets THEN glob ELSE Stripped(glob))
  ELSE IF glob_len(glob, with_brackets, Len(glob))
            + Len(Closing(glob, with_brackets)) + 1 > MaxLength
  THEN Refused
  ELSE Text(Opening(glob, with_brackets) \o Body(glob) \o Closing(glob, with_brackets))

\* mutant: looked at in the end only
CheckedLast(glob, b) == {}

\* The length is looked at when something is added to it: where the glob's own
\* "^" opens, not before the first character that becomes two, or the end.
Checked(glob, b) ==
  {n \in 0..Len(glob) : \/ n = 0 /\ Opening(glob, b) # <<>>
                        \/ n > 0 /\ glob[n] \in Repeats \union Escaped}
Refusals(glob, b) == {n \in Checked(glob, b) : glob_len(glob, b, n) > MaxLength}

\* How many characters the function has put into the buffer when it returns.
Written(glob, b) ==
  IF Short(glob) THEN 0
  ELSE IF Bracketed(glob)
  THEN IF Len(glob) > MaxLength THEN 0 ELSE IF b THEN Len(glob) + 1 ELSE Len(glob) - 1
  ELSE IF 0 \in Refusals(glob, b) THEN 0
  ELSE LET n == IF Refusals(glob, b) = {} THEN Len(glob) ELSE Min(Refusals(glob, b)) - 1
           start == Len(Opening(glob, b)) + Len(Body(SubSeq(glob, 1, n)))
       IN  IF uvm_re_deglobbed(glob, b).ok THEN start + Len(Closing(glob, b)) + 1 ELSE start

\* What uvm_re_comp gives to regcomp.
Pattern(re, deglob) ==
  IF deglob THEN uvm_re_deglobbed(re, FALSE)
  ELSE IF Len(re) > MaxLength THEN Refused
  ELSE Text(IF Bracketed(re) THEN Stripped(re) ELSE re)

\* "/" alone: the length - 1 of what is to be copied is the largest size_t.
CopiesTooMuch(re, deglob) == ~deglob /\ re = <<"/">>
-----------------------------------------------------------------------------
(* regcomp with REG_EXTENDED and regexec, for the characters above, "\\"    *)
(* and "|".                                                                *)

\* The patterns that are modelled: groups, bracket expressions and intervals
\* are not, so what opens or closes one is escaped; no escape has a meaning of
\* its own ("\w", "\1"), and nothing is repeated twice ("a+?").
Grouping == {"(", ")", "[", "]", "{"}
Metacharacters == Grouping \union Repeats \union {".", "?", "^", "$", "|", "\\"}
Understood(pattern) ==
  \A i \in 1..Len(pattern) :
    /\ pattern[i] \in Grouping =>
         i > 1 /\ pattern[i - 1] = "\\" /\ (i > 2 => pattern[i - 2] # "\\")
    /\ pattern[i] = "\\" => i < Len(pattern) /\ pattern[i + 1] \in Metacharacters
    /\ pattern[i] \in Repeats \union {"?"} => i = 1 \/ pattern[i - 1] \notin Repeats \union {"?"}

\* A pattern as pieces that stand for one character, repeated or not, and "|"
\* between alternatives.  Neither "|" nor an anchor can be repeated.
Piece(kind, c) == [kind |-> kind, c |-> c, rep |-> "once"]
Add(st, piece) == [st EXCEPT !.pieces = Append(@, piece), !.escape = FALSE]
Repeatable(pieces) == pieces # <<>> /\ Last(pieces).kind \in {"any", "char"}
Repeat(st, rep) == [st EXCEPT !.pieces = Front(@) \o <<[Last(@) EXCEPT !.rep = rep]>>]
NextPiece(st, c) ==
  IF st.escape THEN Add(st, Piece("char", c))
  ELSE CASE c = "\\" -> [st EXCEPT !.escape = TRUE]
         [] c \in Repeats \union {"?"} ->
              IF Repeatable(st.pieces) THEN Repeat(st, c) ELSE [st EXCEPT !.ok = FALSE]
         [] c = "."        -> Add(st, Piece("any", c))
         [] c \in {"^", "$"} -> Add(st, Piece("anchor", c))
         [] c = "|"        -> Add(st, Piece("or", c))
         [] OTHER          -> Add(st, Piece("char", c))
NoPieces == [pieces |-> <<>>, escape |-> FALSE, ok |-> TRUE]
regcomp(pattern) ==
  LET after[n \in 0..Len(pattern)] ==
        IF n = 0 THEN NoPieces ELSE NextPiece(after[n - 1], pattern[n])
  IN  after[Len(pattern)]

\* Positions a match can have reached, after one more piece.
Reached(str, P, piece) ==
  LET fits(q) == piece.kind = "any" \/ str[q] = piece.c
      least == IF piece.rep \in {"once", "+"} THEN 1 ELSE 0
      most == IF piece.rep \in {"once", "?"} THEN 1 ELSE Len(str)
  IN  IF piece.kind = "anchor"
      THEN P \intersect {IF piece.c = "^" THEN 0 ELSE Len(str)}
      ELSE {q \in 0..Len(str) : \E p \in P :
              q - p \in least..most /\ \A i \in (p + 1)..q : fits(i)}
BeginsAlternative(pieces, n) == n = 0 \/ pieces[n].kind = "or"
EndsAlternative(pieces, n) == n = Len(pieces) \/ pieces[n + 1].kind = "or"
regexec(pieces, str) ==
  LET after[n \in 0..Len(pieces)] ==
        IF BeginsAlternative(pieces, n) THEN 0..Len(str) ELSE Reached(str, after[n - 1], pieces[n])
  IN  \E n \in 0..Len(pieces) : EndsAlternative(pieces, n) /\ after[n] # {}
-----------------------------------------------------------------------------
(* uvm_re_match of the Verilog only build: no conversion, a backtracking   *)
(* loop over both texts, whose characters are numbered from 0.             *)

\* getc beyond the end gives 0.
getc(s, i) == IF i < Len(s) THEN s[i + 1] ELSE "none"

CharFits(re, e, str, s) == getc(re, e) \in {getc(str, s), "?"}

\* The loop up to the first "*": where it stops, if it does not fail before.
Leading(re, str) ==
  LET at == Min({i \in 0..Len(str) : i = Len(str) \/ getc(re, i) = "*"})
  IN  [at |-> at, ok |-> \A i \in 0..(at - 1) : CharFits(re, i, str, i)]

OnlyStars(re, e) == \A i \in (e + 1)..Len(re) : re[i] = "*"

\* A turn of the loop behind it, over positions e and s, and the ones to resume
\* at: after the last "*", one character on.  A "*" at the end matches the rest.
RestTurn(re, str, l) ==
  IF l.s = Len(str) \/ l.won THEN l
  ELSE IF getc(re, l.e) = "*"
  THEN [e |-> l.e + 1, s |-> l.s, es |-> l.e + 1, ss |-> l.s + 1, won |-> l.e + 1 = Len(re)]
  ELSE IF CharFits(re, l.e, str, l.s) THEN [l EXCEPT !.e = @ + 1, !.s = @ + 1]
  ELSE [l EXCEPT !.e = l.es, !.s = l.ss, !.ss = @ + 1]

\* The loop resumes at most once at each character of the text, and passes
\* those of the expression once in between.
MaxTurns(re, str) == Len(str) * (Len(re) + 1)
Rest(re, str, at) ==
  LET start == [e |-> at, s |-> at, es |-> 0, ss |-> 0, won |-> FALSE]
      after[n \in 0..MaxTurns(re, str)] ==
        IF n = 0 THEN start ELSE RestTurn(re, str, after[n - 1])
      last == after[MaxTurns(re, str)]
  IN  last.won \/ (last.s = Len(str) /\ OnlyStars(re, last.e))

\* mutant: the text resumes where it failed, not one after the last try
NoBacktrack(re, str) ==
  \/ re = <<>>
  \/ LET glob == IF re[1] = "^" THEN Tail(re) ELSE re
         lead == Leading(glob, str)
     IN  lead.ok /\ (lead.at = Len(str) => OnlyStars(glob, lead.at))

VerilogMatch(re, str) ==
  \/ re = <<>>
  \/ LET glob == IF re[1] = "^" THEN Tail(re) ELSE re
         lead == Leading(glob, str)
     IN  lead.ok /\ Rest(glob, str, lead.at)
-----------------------------------------------------------------------------
(* What a glob means: "*" any text, "+" any but the empty one, "?" one      *)
(* character, every other character itself.                                *)
GlobStep(str, P, c) ==
  {q \in 0..Len(str) : \E p \in P :
     CASE c = "*" -> q >= p
       [] c = "+" -> q > p
       [] c = "?" -> q = p + 1
       [] OTHER   -> q = p + 1 /\ str[q] = c}
GlobMatches(glob, str) ==
  LET after[n \in 0..Len(glob)] ==
        IF n = 0 THEN {0} ELSE GlobStep(str, after[n - 1], glob[n])
  IN  Len(str) \in after[Len(glob)]
=============================================================================
