-------------------------------- MODULE Pages --------------------------------
(***************************************************************************)
(* The pages that are made of templates (render.cc, and the handlers of    *)
(* server.cc that fill them).  A text is a sequence of "open" and "close", *)
(* which are {{ and }}, names of placeholders and "x", any other text.     *)
(***************************************************************************)
EXTENDS Integers, SequencesExt

Needle(key) == <<"open", key, "close">>
NeedleAt(t, key, i) == i + 2 <= Len(t) /\ SubSeq(t, i, i + 2) = Needle(key)

\* replace: every occurrence, from the left, each search after the value put last.
Replace(t, key, value) ==
  LET From[i \in 1 .. Len(t) + 3] ==
        IF i > Len(t) THEN <<>>
        ELSE IF NeedleAt(t, key, i) THEN value \o From[i + 3]
        ELSE <<t[i]>> \o From[i + 1]
  IN From[1]

\* Mutant: the order of a map that is not sorted.
ReplaceKeysLastFirst(t, vars) ==
  FoldLeft(LAMBDA r, v : Replace(r, v.key, v.value), t, Reverse(vars))

\* replace_all: one key after the other.  vars is the std::map in its order, that
\* of the keys.
ReplaceKeys(t, vars) == FoldLeft(LAMBDA r, v : Replace(r, v.key, v.value), t, vars)

Var(key, value) == [key |-> key, value |-> value]

-----------------------------------------------------------------------------
\* templates/_base.html
Base == Needle("TITLE") \o <<"x">> \o Needle("NAV") \o <<"x">> \o Needle("BODY") \o <<"x">>
BaseVars(title, body, nav) == <<Var("BODY", body), Var("NAV", nav), Var("TITLE", title)>>

RenderPage(title, body, nav) == ReplaceKeys(Base, BaseVars(title, body, nav))

\* The name of the user is part of the navigation.
NavUser(name) == <<"x">> \o name \o <<"x">>

\* The rows of a table: the text of each stands between tags.
TableRows(texts) ==
  IF texts = <<>> THEN <<"x">>
  ELSE FlattenSeq([i \in DOMAIN texts |-> <<"x">> \o texts[i]]) \o <<"x">>

\* The samples of a problem: inputs and outputs.
SampleCases(texts) == IF texts = <<>> THEN <<>> ELSE TableRows(texts)

\* The lists of problems and of users: templates that have their rows only.
List == <<"x">> \o Needle("ROWS") \o <<"x">>
ListVars(texts) == <<Var("ROWS", TableRows(texts))>>

\* templates/admin_testcases.html
Cases ==
  FlattenSeq([i \in 1 .. 3 |-> <<"x">> \o Needle(
    <<"PROBLEM_TITLE", "PROBLEM_ID", "TESTCASE_ROWS">>[i])]) \o <<"x">>
CasesVars(p) ==
  <<Var("PROBLEM_ID", <<"x">>), Var("PROBLEM_TITLE", <<"x">> \o p.title),
    Var("TESTCASE_ROWS", TableRows(p.cases))>>

\* templates/problem_detail.html, filled from the row p; what is not the text of a
\* user is an "x".
Detail ==
  FlattenSeq([i \in 1 .. 8 |-> <<"x">> \o Needle(
    <<"TITLE", "DIFFICULTY", "DESCRIPTION", "SAMPLE_CASES", "TEMPLATE_LABEL", "ID",
      "TEMPLATE", "RESULT">>[i])]) \o <<"x">>
\* md_to_html of a line without Markdown: a paragraph.  Its characters are in Markdown.
Described(content) == IF content = <<>> THEN <<>> ELSE <<"x">> \o content \o <<"x">>
DetailVars(p) ==
  <<Var("DESCRIPTION", Described(p.content)), Var("DIFFICULTY", <<"x">>), Var("ID", <<"x">>),
    Var("RESULT", <<>>), Var("SAMPLE_CASES", SampleCases(p.cases)), Var("TEMPLATE", p.template),
    Var("TEMPLATE_LABEL", IF p.template = <<>> THEN <<>> ELSE <<"x">>),
    Var("TITLE", p.title)>>

\* templates/admin_problem_form.html, for a problem to be edited.
Form ==
  FlattenSeq([i \in 1 .. 8 |-> <<"x">> \o Needle(
    <<"TITLE", "TITLE_VALUE", "DIFFICULTY_OPTIONS", "CONTENT", "TEMPLATE", "SUBMIT_FN",
      "ID", "SUBMIT_LABEL">>[i])]) \o <<"x">>
FormVars(p) ==
  <<Var("CONTENT", p.content), Var("DIFFICULTY_OPTIONS", <<"x">>), Var("ID", <<"x">>),
    Var("SUBMIT_FN", <<"x">>), Var("SUBMIT_LABEL", <<"x">>), Var("TEMPLATE", p.template),
    Var("TITLE", <<"x">>), Var("TITLE_VALUE", p.title)>>

\* GET /problems and the like, GET /admin/problems/:id/testcases, GET /problem/:id
\* and GET /admin/problems/:id/edit.
ListPage(texts, name) == RenderPage(<<"x">>, ReplaceKeys(List, ListVars(texts)), NavUser(name))
CasesPage(p, name) == RenderPage(<<"x">>, ReplaceKeys(Cases, CasesVars(p)), NavUser(name))
DetailPage(p, name) == RenderPage(p.title, ReplaceKeys(Detail, DetailVars(p)), NavUser(name))
FormPage(p, name) == RenderPage(<<"x">>, ReplaceKeys(Form, FormVars(p)), NavUser(name))

-----------------------------------------------------------------------------
\* All the placeholders of the template filled at once, and nothing else touched.
AtOnce(t, vars) ==
  LET At(i) == {v \in ToSet(vars) : NeedleAt(t, v.key, i)}
      From[i \in 1 .. Len(t) + 3] ==
        IF i > Len(t) THEN <<>>
        ELSE IF At(i) = {} THEN <<t[i]>> \o From[i + 1]
        ELSE (CHOOSE v \in At(i) : TRUE).value \o From[i + 3]
  IN From[1]

\* No value names a key that is replaced after it.
NamesNoLater(vars) ==
  \A i, j \in DOMAIN vars : i < j =>
    \A k \in DOMAIN vars[i].value : ~NeedleAt(vars[i].value, vars[j].key, k)

\* A page is its two templates with every value put in its place and left as it is,
\* be there braces in it, its own placeholder or one that is replaced before it:
\* only a value that names a placeholder still to be replaced is changed
\* (render.cc 13-30, server.cc 242-271, 319-328, 380-393, 447-454, 505-511).
PlacedOnce(title, t, vars, name, page) ==
  LET whole == BaseVars(title, AtOnce(t, vars), NavUser(name)) IN
    NamesNoLater(vars) /\ NamesNoLater(whole) => page = AtOnce(Base, whole)

=============================================================================
