-------------------------------- MODULE MCHdl --------------------------------
EXTENDS Hdl

\* Words of 2 bits and vectors of 2 words: objects of one word, of a word and
\* a part, of two words, and one that does not fit.
MCWordBits == 2
MCMaxWidth == 4
MCSizes == {2, 3, 4, 5}

\* A signal of five bits overruns vector_val, a slice of three reduced_vector.
MCValueChars == 5
MCSliceChars == 2

Select(sel, l, r) == [known |-> TRUE, sel |-> sel, lhs |-> l, rhs |-> r]

\* Both directions, bits and slices some objects do not have, a slice across
\* two words, and a name nobody knows.
MCPaths ==
  {Select("whole", 0, 0), [Select("whole", 0, 0) EXCEPT !.known = FALSE],
   Select("bit", 0, 0), Select("bit", 2, 2),
   Select("slice", 2, 1), Select("slice", 2, 2), Select("slice", 3, 1), Select("slice", 1, 3)}

\* A number, and one with X, Z and bits above a small object.
MCArguments ==
  {[i \in 0..3 |-> IF i = 1 THEN "1" ELSE "0"],
   [i \in 0..3 |-> CASE i = 0 -> "1" [] i = 1 -> "x" [] i = 2 -> "1" [] OTHER -> "z"]}
=============================================================================
