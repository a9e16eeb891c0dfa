----------------------------- MODULE QueryEditor -----------------------------
(***************************************************************************)
(* The editor of the advanced query and its suggestions                    *)
(* (src/web/src/features/query-editor/suggestions.ts).                     *)
(*                                                                         *)
(* The list of suggestions is built from the text before the caret and     *)
(* holds the places it will replace; it is used by later events.  A text   *)
(* is a sequence of lexemes, and a place in it is between two of them: a   *)
(* word of the user's counts as one lexeme, what the lists are cut to is   *)
(* left out.                                                               *)
(***************************************************************************)
EXTENDS Places, Sequences, SequencesExt

CONSTANTS
  Words,      \* runs of the characters A-Z a-z 0-9 _ . -
  Fields,     \* the words that are names of fields, in the order of the list
  ValuesOf,   \* the words that are values of a field, in that order
  Quoted,     \* the lexeme of a word in quotes
  Operators,  \* queryOperators
  Keywords,   \* AND, OR and SEARCH(""): the label, and the caret after its lexemes
  Completes,  \* the words that begin with a word
  Typed,      \* lexemes the user types
  QueryTexts, \* queries the page sets: of an address, a filter, the library
  MaxLength   \* bound: lexemes of the text

Blank == " "
Newline == "\n"

ASSUME QueryEditorAssumption ==
  /\ Fields \in Seq(Words) /\ \A field \in DOMAIN ValuesOf : ValuesOf[field] \in Seq(Words)
  /\ Operators \in Seq(Range(Operators)) /\ Keywords \in Seq(Range(Keywords))
  /\ \A k \in Range(Keywords) : k.at \in Nat /\ k.replacement \in Seq(Range(k.replacement))
  /\ MaxLength \in Nat /\ \A t \in QueryTexts : t \in Seq(Range(t)) /\ Len(t) <= MaxLength
  /\ Words \cap ({Blank, Newline} \cup Range(Operators)) = {}

\* A word in quotes is a lexeme of its own, and none of the keywords.
ASSUME QuotedAssumption ==
  \A w \in Words :
    /\ Quoted[w] \notin Words /\ \A other \in Words : Quoted[w] = Quoted[other] => w = other
    /\ \A k \in Range(Keywords) : k.replacement # <<Quoted[w]>>

VARIABLES
  text,     \* the value of the text area
  caret,    \* lexemes before its selectionStart
  draft,    \* state.draftQuery
  focused,  \* is the focus in the text area?
  shown,    \* state.showQuery: is the editor shown?
  visible,  \* visibleQuerySuggestions
  active,   \* querySuggestionIndex, from 1
  replaced  \* history: was the text set from outside under the open list?

editorVars == <<text, caret, draft, focused, shown, visible, active, replaced>>
-----------------------------------------------------------------------------
(* What is suggested. *)

\* How many lexemes at the end of a line are in a set.
Trailing(line, set) ==
  CHOOSE k \in 0 .. Len(line) :
    /\ \A i \in Len(line) - k + 1 .. Len(line) : line[i] \in set
    /\ k < Len(line) => line[Len(line) - k] \notin set

Front0(line, k) == SubSeq(line, 1, Len(line) - k)

\* queryToken: the line before the caret
LineStart(before) ==
  CHOOSE i \in 0 .. Len(before) :
    /\ i > 0 => before[i] = Newline
    /\ \A j \in i + 1 .. Len(before) : before[j] # Newline

Suggestion(replacement, from, to, at) ==
  [replacement |-> replacement, from |-> from, to |-> to, at |-> at]

\* matchingSuggestions: a run of several words begins nothing.
Begins(run, label) ==
  run = <<>> \/ (Len(run) = 1 /\ (run[1] = label \/ label \in Completes[run[1]]))

Matching(labels, run) == Kept(labels, {i \in DOMAIN labels : Begins(run, labels[i])})

Each(list, Op(_)) == [i \in DOMAIN list |-> Op(list[i])]

\* line.lastIndexOf of the value, which is at the end
ValueStart(line, run) == Len(line) - Len(run)

\* Slip: the operator may be missing.
ClauseWithoutOperator(line) ==
  LET value == Trailing(line, Words)
      rest == Front0(line, value)
      name == Front0(rest, Trailing(rest, {Blank}))
      field == Trailing(name, Words)
  IN  [is |-> field > 0 /\ value > 0,
       field |-> SubSeq(name, Len(name) - field + 1, Len(name)),
       value |-> SubSeq(line, Len(line) - value + 1, Len(line))]

\* The pattern "field operator value" of a whole line.
Clause(line) ==
  LET value == Trailing(line, Words)
      upToOp == Front0(line, value + Trailing(Front0(line, value), {Blank}))
      upToField == IF upToOp = <<>> THEN <<>> ELSE Front(upToOp)
      name == Front0(upToField, Trailing(upToField, {Blank}))
      field == Trailing(name, Words)
  IN  [is |-> /\ upToOp # <<>> /\ Last(upToOp) \in Range(Operators)
              /\ field > 0 /\ Trailing(Front0(name, field), {Blank}) = Len(name) - field,
       field |-> SubSeq(name, Len(name) - field + 1, Len(name)),
       value |-> SubSeq(line, Len(line) - value + 1, Len(line))]

\* The pattern of a line that is one word.
Name(line) ==
  LET rest == Front0(line, Trailing(line, {Blank}))
      field == Trailing(rest, Words)
  IN  [is |-> field > 0 /\ Trailing(Front0(rest, field), {Blank}) = Len(rest) - field,
       start |-> Len(rest) - field, field |-> SubSeq(rest, Len(rest) - field + 1, Len(rest))]

Known(run, known) == Len(run) = 1 /\ run[1] \in known

ValueSuggestions(field, run, from, to) ==
  IF ~Known(field, DOMAIN ValuesOf) THEN <<>>
  ELSE Each(Matching(ValuesOf[field[1]], run),
            LAMBDA word : Suggestion(<<Quoted[word]>>, from, to, 1))

OperatorSuggestions(field, from, to) ==
  Each(Operators, LAMBDA op : Suggestion(<<field, Blank, op, Blank>>, from, to, 4))

\* buildQuerySuggestions
BuildQuerySuggestions(value, at) ==
  LET before == SubSeq(value, 1, at)
      lineStart == LineStart(before)
      line == SubSeq(before, lineStart + 1, at)
      run == SubSeq(line, Len(line) - Trailing(line, Words) + 1, Len(line))
      start == at - Len(run)
      clause == Clause(line)
      name == Name(line)
  IN  IF clause.is
      THEN ValueSuggestions(clause.field, clause.value,
                            lineStart + ValueStart(line, clause.value), at)
      ELSE IF name.is /\ Known(name.field, Range(Fields))
      THEN OperatorSuggestions(name.field[1], lineStart + name.start, at)
      ELSE Each(Matching(Fields, run), LAMBDA field : Suggestion(<<field>>, start, at, 1))
           \o Each(Kept(Keywords, {i \in DOMAIN Keywords : Begins(run, Keywords[i].label)}),
                   LAMBDA k : Suggestion(k.replacement, start, at, k.at))
-----------------------------------------------------------------------------
(* The list and the text. *)

CloseQuerySuggestions == visible' = <<>> /\ active' = 1 /\ replaced' = FALSE

\* renderQuerySuggestions: an empty list is closed.
RenderQuerySuggestions(value, at, index) ==
  /\ visible' = BuildQuerySuggestions(value, at) /\ replaced' = FALSE
  /\ active' = IF visible' = <<>> THEN 1
               ELSE IF index > Len(visible') THEN Len(visible') ELSE index

\* Slices of the code stop at the end of the text.
UpTo(value, i) == SubSeq(value, 1, IF i < Len(value) THEN i ELSE Len(value))

Applied(s) == UpTo(text, s.from) \o s.replacement \o SubSeq(text, s.to + 1, Len(text))

\* Slip: the state does not hear of it.
EditedSilently(value, at) == text' = value /\ caret' = at /\ draft' = draft

Edited(value, at) == text' = value /\ caret' = at /\ draft' = value

\* applyQuerySuggestion
ApplyQuerySuggestion(s) ==
  /\ Len(Applied(s)) <= MaxLength
  /\ Edited(Applied(s), Min({s.from + s.at, Len(Applied(s))}))
  /\ focused' = TRUE /\ UNCHANGED shown

Trim(value) ==
  LET blanks == {Blank, Newline}
      rest == Front0(value, Trailing(value, blanks))
      leading == CHOOSE k \in 0 .. Len(rest) :
                   /\ \A i \in 1 .. k : rest[i] \in blanks
                   /\ k < Len(rest) => rest[k + 1] \notin blanks
  IN  SubSeq(rest, leading + 1, Len(rest))

\* renderFilters sets the text, and the caret goes to the end if it changes.
RenderFilters(value) ==
  /\ text' = value /\ caret' = IF value = text THEN caret ELSE Len(value)
  /\ replaced' = (replaced \/ (visible # <<>> /\ value # text))

EditorInit ==
  /\ text \in QueryTexts /\ draft = text /\ caret = Len(text) /\ focused = FALSE
  /\ shown = (text # <<>>) /\ visible = <<>> /\ active = 1 /\ replaced = FALSE
-----------------------------------------------------------------------------
(* Events. *)

\* Slip: the list stays while the user types.
TypeUnderList(lexeme) ==
  /\ focused /\ Len(text) < MaxLength
  /\ Edited(InsertAt(text, caret + 1, lexeme), caret + 1)
  /\ IF visible = <<>> THEN RenderQuerySuggestions(text', caret', active)
     ELSE UNCHANGED <<visible, active, replaced>>
  /\ UNCHANGED <<focused, shown>>

Type(lexeme) ==
  /\ focused /\ Len(text) < MaxLength
  /\ Edited(InsertAt(text, caret + 1, lexeme), caret + 1)
  /\ RenderQuerySuggestions(text', caret', active)
  /\ UNCHANGED <<focused, shown>>

Backspace ==
  /\ focused /\ caret > 0
  /\ Edited(RemoveAt(text, caret), caret - 1)
  /\ RenderQuerySuggestions(text', caret', active)
  /\ UNCHANGED <<focused, shown>>

\* Keys that move the caret do not build the list again.
MoveCursor(at) ==
  /\ focused /\ caret' = at
  /\ UNCHANGED <<text, draft, focused, shown, visible, active, replaced>>

\* A click in the text, or the focus coming to it.
ClickText(at) ==
  /\ shown /\ caret' = at /\ focused' = TRUE
  /\ RenderQuerySuggestions(text, at, active)
  /\ UNCHANGED <<text, draft, shown>>

\* Arrow keys, which go round.
Arrow(down) ==
  /\ focused /\ visible # <<>>
  /\ RenderQuerySuggestions(text, caret,
       IF down THEN (active % Len(visible)) + 1
       ELSE IF active = 1 THEN Len(visible) ELSE active - 1)
  /\ UNCHANGED <<text, caret, draft, focused, shown>>

\* Tab takes the active suggestion and offers the next.
TabKey ==
  /\ focused /\ visible # <<>>
  /\ ApplyQuerySuggestion(visible[active])
  /\ RenderQuerySuggestions(text', caret', 1)

\* A click on a suggestion takes it.  The list drawn next replaces the button,
\* which the listener of the document then takes for one outside the editor.
ClickSuggestion(i) ==
  /\ shown /\ ApplyQuerySuggestion(visible[i]) /\ CloseQuerySuggestions

EscapeKey ==
  /\ focused /\ visible # <<>> /\ CloseQuerySuggestions
  /\ UNCHANGED <<text, caret, draft, focused, shown>>

\* runQuery by the keyboard: the text area keeps its blanks until the answer.
RunQuery ==
  /\ focused /\ draft' = Trim(text) /\ CloseQuerySuggestions
  /\ UNCHANGED <<text, caret, focused, shown>>

\* Any answer, and any change of the filters.
RenderEditor ==
  /\ RenderFilters(draft) /\ UNCHANGED <<draft, focused, shown, visible, active>>

\* A click elsewhere, which may set the query (a field filter, a reset, the
\* library) and show or hide the editor.
ClickElsewhere(value, shows) ==
  /\ value = draft \/ value \in QueryTexts
  /\ draft' = value /\ text' = value /\ caret' = IF value = text THEN caret ELSE Len(value)
  /\ focused' = FALSE /\ shown' = shows
  /\ CloseQuerySuggestions

\* popstate: the query of another address, while the focus stays.
Navigate(value, shows) ==
  /\ value # <<>> => shows
  /\ draft' = value /\ shown' = shows /\ focused' = (focused /\ shows)
  /\ RenderFilters(value) /\ UNCHANGED <<visible, active>>

EditorNext ==
  \/ \E lexeme \in Typed : Type(lexeme)
  \/ Backspace \/ TabKey \/ EscapeKey \/ RunQuery \/ RenderEditor
  \/ \E at \in 0 .. Len(text) : MoveCursor(at) \/ ClickText(at)
  \/ \E down \in BOOLEAN : Arrow(down)
  \/ \E i \in DOMAIN visible : ClickSuggestion(i)
  \/ \E value \in QueryTexts \cup {draft}, shows \in BOOLEAN :
       ClickElsewhere(value, shows) \/ (value \in QueryTexts /\ Navigate(value, shows))

EditorSpec == EditorInit /\ [][EditorNext]_editorVars
-----------------------------------------------------------------------------
(* Properties. *)

\* Type invariant: the active suggestion is one of those offered.
EditorTypeOK ==
  /\ Len(text) <= MaxLength /\ caret \in 0 .. Len(text) /\ Len(draft) <= MaxLength
  /\ focused \in BOOLEAN /\ shown \in BOOLEAN /\ replaced \in BOOLEAN
  /\ active \in IF visible = <<>> THEN {1} ELSE DOMAIN visible

\* What is in the editor is what will be saved and run, up to blanks around it.
DraftIsText == Trim(draft) = Trim(text)

\* A suggestion on offer replaces words and blanks of one line only, wherever
\* the caret went since the list was built, unless the text was set from outside.
TakesOnlyTheWord ==
  \A i \in DOMAIN visible :
    ~replaced => Range(SubSeq(text, visible[i].from + 1, visible[i].to)) \subseteq Words \cup {Blank}

\* A value is only ever put behind the field it is a value of and an operator.
ValueOfItsField ==
  \A i \in DOMAIN visible : \A word \in Words :
    visible[i].replacement = <<Quoted[word]>> /\ ~replaced =>
      \E o \in 1 .. visible[i].from : \E f \in 1 .. o - 1 :
        /\ text[o] \in Range(Operators)
        /\ text[f] \in DOMAIN ValuesOf /\ word \in Range(ValuesOf[text[f]])
        /\ \A j \in f + 1 .. visible[i].from : j = o \/ text[j] = Blank
=============================================================================
