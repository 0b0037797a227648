------------------------------- MODULE MCTexts -------------------------------
(***************************************************************************)
(* Inputs of Texts for TLC.                                                *)
(***************************************************************************)
EXTENDS Texts

CONSTANTS Longest,      \* characters of a paragraph
          MostLines,    \* lines of a statement
          LongestHeader,
          LongestOutput

UpTo(S, n) == UNION {[1 .. k -> S] : k \in 0 .. n}

\* Every paragraph up to Longest, and every order of lines of all kinds.
Texts1 == UpTo({"a", "*", "<"}, Longest) \ {<<>>}
Simple ==
  [kind : {"blank", "fence"}, text : {<<>>}]
    \cup [kind : {"item", "heading"}, text : {<<"a", "<">>}]
    \cup [kind : {"plain"}, text : {<<"b">>, <<"*", "*", "<">>}]
MCDocuments ==
  {<<[kind |-> "plain", text |-> t]>> : t \in Texts1} \cup UpTo(Simple, MostLines)

\* Texts that hold a placeholder, a part of one, or none.
Around(keys) ==
  {<<>>, <<"x">>} \cup
  {SubSeq(Needle(k), i, j) : k \in keys, i \in 1 .. 3, j \in 1 .. 3}
MCProblems ==
  [title : Around({"TITLE", "BODY", "DESCRIPTION"}),
   content : Around({"TITLE", "NAV", "DESCRIPTION", "CONTENT", "TEMPLATE"}),
   template : {<<>>, Needle("ID"), Needle("TITLE")},
   cases : {<<>>, <<Needle("RESULT"), Needle("TEMPLATE")>>}]
MCUserNames == {<<"x">>, Needle("TITLE"), Needle("BODY")}

MCHeaders == UpTo({"=", "semi", "sp", "k", "n"}, LongestHeader)

\* Outputs, read in one piece or in two.
MCRuns ==
  {<<o, r>> : o \in UpTo({"a", "sp", "nl", "nul"}, LongestOutput),
              r \in UpTo({"a", "sp", "nl", "nul"}, 2)}
MCExpecteds == UpTo({"a", "sp", "nl"}, 3)

=============================================================================
