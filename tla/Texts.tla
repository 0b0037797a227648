-------------------------------- MODULE Texts --------------------------------
(***************************************************************************)
(* The functions from texts to texts: get_cookie (auth.cc), the comparison *)
(* of outputs (judge.cc), md_to_html (Markdown) and the pages (Pages).     *)
(* A step calls one of them with one of its inputs.                        *)
(***************************************************************************)
EXTENDS Markdown, Pages

CONSTANTS Documents,    \* statements, sequences of lines
          Problems,     \* rows, as Pages takes them, with the texts of their cases
          UserNames,    \* of users
          Headers,      \* Cookie: sequences of "=", "semi" (;), "sp", "k" and other names
          Runs,         \* what the reads of an output return, each a sequence
          Expecteds     \* the outputs that a test case may expect

\* A text is a sequence of characters; a line's kind is told from its text.
ASSUME TextsAssumption ==
  /\ Documents \subseteq Seq([kind : Kinds, text : Seq(Letters)])
  /\ Problems \subseteq
       [title : Seq(STRING), content : Seq(STRING), template : Seq(STRING),
        cases : Seq(Seq(STRING))]
  /\ UserNames \subseteq Seq(STRING) /\ Headers \subseteq Seq(STRING)
  /\ Runs \subseteq Seq(Seq(STRING)) /\ Expecteds \subseteq Seq(STRING)

VARIABLES of,       \* the function called last
          given,    \* its arguments
          result    \* its value

vars == <<of, given, result>>

Init == of = "none" /\ given = <<>> /\ result = <<>>

Call(f, args, value) == of' = f /\ given' = args /\ result' = value

-----------------------------------------------------------------------------
\* The first c of s from i on; past the end when there is none.
FindFrom(s, c, i) ==
  LET at == {k \in i .. Len(s) : s[k] = c} IN IF at = {} THEN Len(s) + 1 ELSE Min(at)

\* Mutant: blanks before a name are part of it.
NameStartHere(h, i) == IF i > Len(h) THEN Len(h) + 1 ELSE i
NameStart(h, i) == Min({k \in i .. Len(h) : h[k] # "sp"} \cup {Len(h) + 1})

\* The name runs to the next "=", wherever that is.
GetCookie(h, key) ==
  LET From[i \in 1 .. Len(h) + 2] ==
        LET start == NameStart(h, i)
            eq == FindFrom(h, "=", start)
            end == FindFrom(h, "semi", eq + 1)
        IN IF i > Len(h) \/ eq > Len(h) THEN <<>>
           ELSE IF SubSeq(h, start, eq - 1) = key THEN SubSeq(h, eq + 1, end - 1)
           ELSE From[end + 1]
  IN From[1]

\* The parts of the header between the semicolons.
Part(h, i) == SubSeq(h, i, FindFrom(h, "semi", i) - 1)
Starts(h) == {1} \cup {k + 1 : k \in {k \in DOMAIN h : h[k] = "semi"}}
Named(h, i) == FindFrom(Part(h, i), "=", 1) <= Len(Part(h, i))
NameOf(h, i) ==
  LET p == Part(h, i)
      blanks == Max({n \in 0 .. Len(p) : \A k \in 1 .. n : p[k] = "sp"})
  IN SubSeq(p, blanks + 1, FindFrom(p, "=", 1) - 1)
ValueOf(h, i) == LET p == Part(h, i) IN SubSeq(p, FindFrom(p, "=", 1) + 1, Len(p))
Givers(h, key) == {i \in Starts(h) : Named(h, i) /\ NameOf(h, i) = key}

\* The session's cookie is what the first part of that name gives; a part without
\* "=" hides the one after it, and then it is a later one's, or none.  It is never
\* the value of another name (auth.cc 66-81).
CookieRight ==
  of = "GetCookie" =>
    LET h == given[1]  key == given[2]  givers == Givers(h, key) IN
      /\ result = <<>> \/ \E i \in givers : result = ValueOf(h, i)
      /\ \A i \in givers :
           (\A j \in Starts(h) : j <= i => Named(h, j) /\ (j < i => j \notin givers))
             => result = ValueOf(h, i)

-----------------------------------------------------------------------------
Blank == {"sp", "nl"}

\* Mutant: one newline, not all the blanks.
TrimOne(s) == IF s # <<>> /\ Last(s) \in Blank THEN Front(s) ELSE s
TrimTrailing(s) ==
  SubSeq(s, 1, Max({0} \cup {k \in DOMAIN s : s[k] \notin Blank}))

\* actual_out += buf, where buf is a C string: a read is kept up to its first NUL.
ActualOut(reads) ==
  FlattenSeq([i \in DOMAIN reads |->
                SubSeq(reads[i], 1, FindFrom(reads[i], "nul", 1) - 1)])

Compare(reads, expected) ==
  IF TrimTrailing(ActualOut(reads)) = TrimTrailing(expected) THEN "AC" ELSE "WA"

\* s without its last blanks: it is a prefix, blanks follow, and none ends it.
Stripped(s, p) ==
  /\ IsPrefix(p, s)
  /\ \A k \in DOMAIN s : k > Len(p) => s[k] \in Blank
  /\ p = <<>> \/ Last(p) \notin Blank

\* However the reads divide an output without a NUL, it is accepted exactly when it
\* and the expected one are the same text before their last blanks
\* (judge.cc 19-25, 231-239, 261-268).
ComparedWhole ==
  of = "Compare" =>
    LET whole == FlattenSeq(given[1])
        same == \E n \in 0 .. Len(whole) :
          LET p == SubSeq(whole, 1, n) IN Stripped(whole, p) /\ Stripped(given[2], p)
    IN "nul" \notin ToSet(whole) => (result = "AC" <=> same)

-----------------------------------------------------------------------------
Idle == of = "none"

FindCookie ==
  Idle /\ \E h \in Headers : Call("GetCookie", <<h, <<"k">>>>, GetCookie(h, <<"k">>))
CompareOutput ==
  Idle /\ \E r \in Runs, e \in Expecteds : Call("Compare", <<r, e>>, Compare(r, e))
ShowStatement == Idle /\ \E d \in Documents : Call("MdToHtml", <<d>>, MdToHtml(d))
ShowProblem ==
  /\ Idle
  /\ \E p \in Problems, u \in UserNames : Call("DetailPage", <<p, u>>, DetailPage(p, u))
ShowForm ==
  /\ Idle
  /\ \E p \in Problems, u \in UserNames : Call("FormPage", <<p, u>>, FormPage(p, u))
ShowCases ==
  /\ Idle
  /\ \E p \in Problems, u \in UserNames : Call("CasesPage", <<p, u>>, CasesPage(p, u))
ShowList ==
  /\ Idle
  /\ \E t1, t2 \in {p.title : p \in Problems}, u \in UserNames :
       Call("ListPage", <<<<t1, t2>>, u>>, ListPage(<<t1, t2>>, u))
Forget == ~Idle /\ of' = "none" /\ given' = <<>> /\ result' = <<>>

Next ==
  \/ FindCookie \/ CompareOutput \/ ShowStatement
  \/ ShowProblem \/ ShowForm \/ ShowCases \/ ShowList
  \/ Forget

Spec == Init /\ [][Next]_vars

-----------------------------------------------------------------------------
\* Whatever the lines of a statement, its tags are nested and closed (md.cc 11-87).
Nested == of = "MdToHtml" => WellNested(result)

\* Outside headings and items a statement's "<" is escaped (md.cc 29-64).
Escaped == of = "MdToHtml" => RawOnlyInside(result)

\* A statement's text is all there, but for one last character (md.cc 29-83).
Kept == of = "MdToHtml" => TextKept(given[1], result)

\* The values on a problem's page, in its form and in the lists are what is stored,
\* unless they name a placeholder still to be replaced (render.cc 13-30, server.cc
\* 242-271, 319-328, 380-393, 447-454, 505-511).
Placed ==
  LET p == given[1]
      Once(title, t, values) == PlacedOnce(title, t, values, given[2], result) IN
    /\ of = "DetailPage" => Once(p.title, Detail, DetailVars(p))
    /\ of = "FormPage" => Once(<<"x">>, Form, FormVars(p))
    /\ of = "CasesPage" => Once(<<"x">>, Cases, CasesVars(p))
    /\ of = "ListPage" => Once(<<"x">>, List, ListVars(p))

=============================================================================
