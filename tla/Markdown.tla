------------------------------- MODULE Markdown -------------------------------
(***************************************************************************)
(* md_to_html (md.cc): the loop over the lines of a problem's statement.   *)
(* A line is known by its kind and its text.  Of the text the letters "a"  *)
(* and "b", the star and "<", which stands for < > and &, are told apart;  *)
(* the entity that escapes "<" ends in a character of its own.             *)
(***************************************************************************)
EXTENDS Integers, SequencesExt

Kinds == {"blank", "fence", "item", "heading", "plain"}
Letters == {"a", "b", "*", "<"}

\* The line as it is written: "- " and "# " are marks.
Written(l) ==
  IF l.kind \in {"item", "heading"} THEN <<"mark">> \o l.text ELSE l.text

Escape(text) ==
  FlattenSeq([i \in DOMAIN text |->
                IF text[i] = "<" THEN <<"&lt", "semi">> ELSE <<text[i]>>])

-----------------------------------------------------------------------------
StarsAt(s, i) == i + 1 <= Len(s) /\ s[i] = "*" /\ s[i + 1] = "*"

\* Where the bold text that starts at i ends: at the next pair of stars or, there
\* being none, at the last character.
Ends(s, i) == {k \in i .. Len(s) : StarsAt(s, k)}
EndOfBold(s, i) == IF Ends(s, i) = {} THEN Len(s) ELSE Min(Ends(s, i))

\* Mutant: the pair that closes is taken for three characters.
BoldTakesThree(s) ==
  LET From[i \in 1 .. Len(s) + 3] ==
        IF i > Len(s) THEN <<>>
        ELSE IF ~StarsAt(s, i) THEN <<s[i]>> \o From[i + 1]
        ELSE LET end == EndOfBold(s, i + 2) IN
          <<"<strong>">> \o SubSeq(s, i + 2, end - 1) \o <<"</strong>">>
            \o From[IF Ends(s, i + 2) = {} THEN Len(s) + 1 ELSE end + 3]
  IN From[1]

\* The line in <p>: what stands between pairs of stars is bold.  The inner loop
\* stops before the last character, which a bold text left open loses.
Bold(s) ==
  LET From[i \in 1 .. Len(s) + 2] ==
        IF i > Len(s) THEN <<>>
        ELSE IF ~StarsAt(s, i) THEN <<s[i]>> \o From[i + 1]
        ELSE LET end == EndOfBold(s, i + 2) IN
          <<"<strong>">> \o SubSeq(s, i + 2, end - 1) \o <<"</strong>">>
            \o From[IF Ends(s, i + 2) = {} THEN Len(s) + 1 ELSE end + 2]
  IN From[1]

-----------------------------------------------------------------------------
\* The state of the loop: what has been written, and what is open.
Begin == [html |-> <<>>, code |-> FALSE, list |-> FALSE]

Write(st, tokens) == [st EXCEPT !.html = @ \o tokens]

\* Mutant: in_list is not reset.
CloseListOnly(st) == IF st.list THEN Write(st, <<"</ul>">>) ELSE st
CloseList(st) == IF st.list THEN [Write(st, <<"</ul>">>) EXCEPT !.list = FALSE] ELSE st
OpenList(st) == IF st.list THEN st ELSE [Write(st, <<"<ul>">>) EXCEPT !.list = TRUE]

CodeBegin(st) == [Write(CloseList(st), <<"<pre>">>) EXCEPT !.code = TRUE]
CodeEnd(st) == [Write(st, <<"</pre>">>) EXCEPT !.code = FALSE]

\* Mutant: code is taken to be harmless.
CodeLineRaw(st, l) == Write(st, Written(l))
CodeLine(st, l) == Write(st, Escape(Written(l)))

Item(st, l) == Write(OpenList(st), <<"<li>">> \o l.text \o <<"</li>">>)
Heading(st, l) == Write(CloseList(st), <<"<h>">> \o l.text \o <<"</h>">>)
Paragraph(st, l) == Write(CloseList(st), <<"<p>">> \o Bold(Escape(l.text)) \o <<"</p>">>)

\* The body of the loop.  An empty line of a code block is dropped.
Line(st, l) ==
  CASE l.kind = "blank" -> CloseList(st)
    [] l.kind = "fence" /\ ~st.code -> CodeBegin(st)
    [] l.kind = "fence" /\ st.code -> CodeEnd(st)
    [] l.kind \notin {"blank", "fence"} /\ st.code -> CodeLine(st, l)
    [] l.kind = "item" /\ ~st.code -> Item(st, l)
    [] l.kind = "heading" /\ ~st.code -> Heading(st, l)
    [] l.kind = "plain" /\ ~st.code -> Paragraph(st, l)

MdToHtml(lines) ==
  LET st == FoldLeft(Line, Begin, lines)
  IN CloseList(IF st.code THEN CodeEnd(st) ELSE st).html

-----------------------------------------------------------------------------
Closes(tag) ==
  CASE tag = "</p>" -> "<p>" [] tag = "</strong>" -> "<strong>" [] tag = "</h>" -> "<h>"
    [] tag = "</ul>" -> "<ul>" [] tag = "</li>" -> "<li>" [] tag = "</pre>" -> "<pre>"
Ending == {"</p>", "</strong>", "</h>", "</ul>", "</li>", "</pre>"}
Opening == {Closes(tag) : tag \in Ending}

\* The tags that are open after a token, innermost last.
OpenAfter(open, token) ==
  IF token \in Opening THEN Append(open, token)
  ELSE IF token \in Ending THEN
    IF open # <<>> /\ Last(open) = Closes(token) THEN Front(open) ELSE <<"mismatch">>
  ELSE open
OpenIn(html) == FoldLeft(OpenAfter, <<>>, html)

\* Whatever the lines, the tags are nested and all closed (md.cc 11-87).
WellNested(html) == OpenIn(html) = <<>>

\* What a reader of the statement wrote reaches the page as text: a "<" that is
\* not escaped stands in a heading or in an item only (md.cc 29-64).
RawOnlyInside(html) ==
  \A i \in DOMAIN html : html[i] = "<" =>
    Last(OpenIn(SubSeq(html, 1, i))) \in {"<li>", "<h>"}

\* Whether a pair of stars of the text is without its partner.
StarsOdd(text) ==
  FoldLeft(LAMBDA s, c :
             [star |-> c = "*" /\ ~s.star,
              open |-> IF c = "*" /\ s.star THEN ~s.open ELSE s.open],
           [star |-> FALSE, open |-> FALSE], text).open

\* The text of line i: that of a paragraph with a pair of stars left open loses
\* its last character, which may be the end of an entity.
InCode(lines, i) ==
  LET fences == {k \in 1 .. i - 1 : lines[k].kind = "fence"} IN Cardinality(fences) % 2 = 1
TextOf(lines, i) ==
  LET l == lines[i] IN
    CASE l.kind \in {"blank", "fence"} -> <<>>
      [] l.kind \in {"item", "heading"} /\ ~InCode(lines, i) -> l.text
      [] l.kind \notin {"blank", "fence"} /\ InCode(lines, i) -> Escape(l.text)
      [] l.kind = "plain" /\ ~InCode(lines, i) ->
           IF StarsOdd(l.text) THEN Front(Escape(l.text)) ELSE Escape(l.text)

\* The characters of the text among what is written, in their order.
Readable(tokens) ==
  FlattenSeq([i \in DOMAIN tokens |->
                IF tokens[i] \in {"a", "b", "<", "&lt", "semi"} THEN <<tokens[i]>> ELSE <<>>])

\* All the text is kept, once and in its order, but for that character
\* (md.cc 29-83).
TextKept(lines, html) ==
  Readable(html) = Readable(FlattenSeq([i \in DOMAIN lines |-> TextOf(lines, i)]))

=============================================================================
