------------------------------- MODULE MCWeb --------------------------------
(***************************************************************************)
(* The parts of the web application for TLC, but for the explorer's search *)
(* (MCExplorer).  Their models share no variable, so one run looks at them *)
(* one after another: in a behaviour only `part' moves, the others rest in *)
(* an initial state, and the states of the parts add up instead of         *)
(* multiplying.  The library is looked at twice: in two tabs that save one *)
(* query, and in one tab that runs two.                                    *)
(***************************************************************************)
EXTENDS WebApp

CONSTANTS r1, r2, a, n1, n2, t1, t2, q1, q2, p1, p2

VARIABLE part

\* An hour in three buckets, the same moved on, and the last third of it.
MCRanges == {[from |-> 0, to |-> 6], [from |-> 3, to |-> 9], [from |-> 4, to |-> 7]}

\* "sev" begins the name of a field, "er" that of a value.
MCWords == {"sev", "severity", "er", "ERROR"}
MCFields == <<"severity">>
MCValuesOf == [field \in {"severity"} |-> <<"ERROR">>]
MCQuoted == [sev |-> "'sev'", severity |-> "'severity'", er |-> "'er'", ERROR |-> "'ERROR'"]
MCOperators == <<"=">>
MCKeywords == <<[label |-> "SEARCH(''", replacement |-> <<"SEARCH('", "')">>, at |-> 1]>>
MCCompletes == [word \in MCWords |-> CASE word = "sev" -> {"severity"} [] word = "er" -> {"ERROR"}
                                      [] OTHER -> {}]
MCTyped == {"sev", " ", "="}
MCTexts == {<<>>, <<"er", "\n", "sev">>}

Parts == {"alerts", "nodes", "overlays", "results", "library", "history", "chart", "editor"}

WebInit ==
  /\ part \in Parts
  /\ Init /\ (part # "alerts" => used = {})
  /\ NodesInit /\ (part # "nodes" => nodesHub = [n \in {n1, n2} |-> "absent"])
  /\ OverlayInit /\ (part # "overlays" => ~mobile /\ page.view = "explorer" /\ page.hidden)
  /\ ListInit /\ (part # "results" => ~expanded.all /\ expanded.ids = {} /\ selected = 0)
  /\ LibraryInit /\ form = [t \in Tabs |-> q1]
  /\ ChartInit
  /\ EditorInit /\ (part # "editor" => text = <<>>)

\* Two tabs have one query and make two items of it, one tab makes more.
LibraryTurn ==
  \/ part = "library" /\ LibraryNext /\ ids' <= 2 /\ form' = form
  \/ part = "history" /\ TabNext(t1)

WebNext ==
  /\ UNCHANGED part
  /\ IF part = "alerts" THEN Next /\ (made' > 2 => hub'[r2] = None) ELSE UNCHANGED vars
  /\ IF part = "nodes" THEN NodesNext ELSE UNCHANGED nodesVars
  /\ IF part = "overlays" THEN OverlayNext ELSE UNCHANGED overlayVars
  /\ IF part = "results" THEN ListNext ELSE UNCHANGED listVars
  /\ IF part \in {"library", "history"} THEN LibraryTurn ELSE UNCHANGED libraryVars
  /\ IF part = "chart" THEN ChartNext ELSE UNCHANGED chartVars
  /\ IF part = "editor" THEN EditorNext ELSE UNCHANGED editorVars

WebSpec ==
  WebInit /\ [][WebNext]_<<part, vars, nodesVars, overlayVars, listVars, libraryVars, chartVars,
                           editorVars>>
=============================================================================
