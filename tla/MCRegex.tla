------------------------------- MODULE MCRegex -------------------------------
EXTENDS Regex

\* 2048 becomes 9: expressions of three characters may or may not fit.
MCMaxLength == 9

Of(c, n) == [i \in 1..n |-> c]
Letters == {"a", ".", "*", "?", "+", "^", "$", "/", "|"}
\* All expressions of up to three characters, and long ones on both sides of
\* what fits: plain, anchored, bracketed, with a character that becomes two.
MCGlobs ==
  UNION {[1..n -> Letters] : n \in 0..3}
    \union UNION {{Of("a", n), <<"^">> \o Of("a", n), <<"/">> \o Of("a", n) \o <<"/">>,
                   <<"^">> \o Of("a", n) \o <<"*">>} : n \in 4..15}

MCRegexes == {<<"a", "*">>, <<"a", "|", ".">>, <<"^", "*">>, <<"^", "a">>, <<"/", "a", ".", "/">>, <<"*">>, <<"/">>, <<"/", "/">>,
              Of("a", 9), Of("a", 10)}

MCStrings == UNION {[1..n -> {"a", "."}] : n \in 0..3}

\* Three expressions in the cache; one means different things with deglob.
MCKeys == {<<"a", "*">>, <<".">>, <<"a">>}
MCCachedStrings == {<<".">>}
MCSizes == {1, 2}
=============================================================================
