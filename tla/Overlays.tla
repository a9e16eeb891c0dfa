------------------------------ MODULE Overlays ------------------------------
(***************************************************************************)
(* The navigation drawer, the Fields panel (on a phone a bottom sheet),    *)
(* the backdrop behind them and the focus                                  *)
(* (src/web/src/app/bootstrap.ts).                                         *)
(*                                                                         *)
(* What is open is kept several times over: in the state, in classes of    *)
(* the document, in the panel drawn last, in the backdrop and in the URL.  *)
(* Gestures, history steps and renderings come in any order; callbacks of  *)
(* animation frames come after the gesture that asked for them, and maybe  *)
(* after the next one.                                                     *)
(***************************************************************************)
EXTENDS Naturals, Sequences, SequencesExt

CONSTANTS
  MaxHistory,   \* bound: pages the history remembers
  MaxFrames,    \* gestures come while fewer callbacks than this are waiting
  Rotations,    \* bound: how often the width crosses 800 pixels
  ClickFocuses  \* does a click focus a button? (Safari: no)

ASSUME OverlaysAssumption ==
  /\ MaxHistory \in Nat /\ MaxFrames \in Nat \ {0} /\ Rotations \in Nat
  /\ ClickFocuses \in BOOLEAN

VARIABLES
  mobile,     \* isMobileViewport()
  rotations,  \* how often it changed
  page,       \* see Page
  frames,     \* callbacks of requestAnimationFrame, in order
  past,       \* the URLs Back leads to
  hurried     \* history: did a gesture come while callbacks were waiting?

overlayVars == <<mobile, rotations, page, frames, past, hurried>>

Views == {"explorer", "alerts", "nodes"}

Links == {"logs", "timeline", "fields", "alerts", "nodes"}

Sections == {"explore", "detect", "manage"}

\* Where a link is in the drawer.
SectionOf(link) ==
  CASE link = "alerts" -> "detect" [] link = "nodes" -> "manage" [] OTHER -> "explore"

FocusPlaces == {"body", "menu", "link", "title", "fields", "timeline"}

URL == [view : Views, fields : BOOLEAN]

Page ==
  [view : Views,
   nav : BOOLEAN,                    \* state.navExpanded and class nav-expanded
   sheet : BOOLEAN,                  \* class fields-open
   backdrop : BOOLEAN,               \* the backdrop is not hidden
   hidden : BOOLEAN,                 \* state.fieldsHidden
   drawn : BOOLEAN,                  \* the panel lacks class fields-collapsed
   url : URL,
   active : Links,                   \* the link marked as the current location
   collapsed : SUBSET Sections,
   focus : FocusPlaces, navReturn : FocusPlaces \cup {"none"}]

Frames == {"link", "title", "show timeline", "show fields", "timeline", "fields"}
-----------------------------------------------------------------------------
(* The functions of the page, on the page's state. *)

\* syncURL
SyncURL(p) == [p EXCEPT !.url = [view |-> p.view, fields |-> ~p.hidden]]

\* renderAll
RenderAll(p) == [p EXCEPT !.drawn = ~p.hidden]

\* A link is marked, and its section opened.
SetActiveNavigation(p, link) ==
  [p EXCEPT !.active = link, !.collapsed = @ \ {SectionOf(link)}]

RenderAppView(p) ==
  SetActiveNavigation(p, IF p.view = "explorer" THEN "logs" ELSE p.view)

\* Slip: the backdrop is hidden although the drawer is open.
SyncHidingBackdrop(p) ==
  LET open == mobile /\ ~p.hidden
      q == [p EXCEPT !.sheet = open, !.backdrop = open]
  IN  IF mobile THEN SetActiveNavigation(q, IF open THEN "fields" ELSE "logs") ELSE q

SyncMobileFieldsOverlay(p) ==
  LET open == mobile /\ ~p.hidden
      q == [p EXCEPT !.sheet = open, !.backdrop = open \/ (p.nav /\ p.backdrop)]
  IN  IF mobile THEN SetActiveNavigation(q, IF open THEN "fields" ELSE "logs") ELSE q

\* Slip: the focus stays in the drawer.
CloseKeepingFocus(p) ==
  LET q == [p EXCEPT !.nav = FALSE, !.sheet = FALSE, !.backdrop = FALSE, !.navReturn = "none"]
  IN  IF p.sheet
      THEN SetActiveNavigation(RenderAll(SyncURL([q EXCEPT !.hidden = TRUE])), "logs")
      ELSE q

\* Slip: the address is not updated when the sheet closes.
CloseWithoutURL(p) ==
  LET q == [p EXCEPT !.nav = FALSE, !.sheet = FALSE, !.backdrop = FALSE, !.navReturn = "none",
                     !.focus = IF p.sheet THEN "menu"
                               ELSE IF p.navReturn \in {"none", "body"} THEN @ ELSE p.navReturn]
  IN  IF p.sheet
      THEN SetActiveNavigation(RenderAll([q EXCEPT !.hidden = TRUE]), "logs")
      ELSE q

\* Closing the sheet hides the fields.  The focus goes back to where it was
\* (focusing the body does nothing).
CloseMobileOverlay(p) ==
  LET q == [p EXCEPT !.nav = FALSE, !.sheet = FALSE, !.backdrop = FALSE, !.navReturn = "none",
                     !.focus = IF p.sheet THEN "menu"
                               ELSE IF p.navReturn \in {"none", "body"} THEN @ ELSE p.navReturn]
  IN  IF p.sheet
      THEN SetActiveNavigation(RenderAll(SyncURL([q EXCEPT !.hidden = TRUE])), "logs")
      ELSE q

\* Slip: the navigation is not updated.
SetAppViewUnmarked(p, view) ==
  LET q == CloseMobileOverlay(p)
  IN  IF p.view = view THEN q ELSE SyncURL([q EXCEPT !.view = view])

SetAppView(p, view) ==
  LET q == CloseMobileOverlay(p)
  IN  IF p.view = view THEN RenderAppView(q)
      ELSE RenderAppView(SyncURL([q EXCEPT !.view = view]))

\* A new view asks for its title to be focused.
TitleFrame(p, view) == IF p.view = view THEN <<>> ELSE <<"title">>

\* Slip: the sheet is not opened again after the drawer was closed.
FocusSectionClosed(p, section) ==
  LET q == SyncURL(RenderAll([p EXCEPT !.hidden = IF section = "fields" THEN FALSE ELSE @]))
  IN  SetActiveNavigation(IF mobile THEN CloseMobileOverlay(q) ELSE q, section)

FocusSection(p, section) ==
  LET q == SyncURL(RenderAll([p EXCEPT !.hidden = IF section = "fields" THEN FALSE ELSE @]))
      c == CloseMobileOverlay(q)
  IN  SetActiveNavigation(
        IF ~mobile THEN q
        ELSE IF section = "fields" THEN [c EXCEPT !.sheet = TRUE, !.backdrop = TRUE]
        ELSE c, section)

Clicked(p, place) == IF ClickFocuses THEN [p EXCEPT !.focus = place] ELSE p

\* bootstrap, on a page with the URL `link' (which may come from elsewhere),
\* or with no word of the fields in it.
Opened(view, fields) ==
  SyncMobileFieldsOverlay(RenderAppView(SyncURL(
    [view |-> view, nav |-> FALSE, sheet |-> FALSE, backdrop |-> FALSE, hidden |-> ~fields,
     drawn |-> FALSE, url |-> [view |-> view, fields |-> fields], active |-> "logs",
     collapsed |-> {}, focus |-> "body", navReturn |-> "none"])))

OverlayInit ==
  /\ mobile \in BOOLEAN /\ rotations = 0
  /\ \E view \in Views, fields \in BOOLEAN : page = Opened(view, fields)
  /\ frames = <<>> /\ past = <<>> /\ hurried = FALSE
-----------------------------------------------------------------------------
(* The user. *)

\* A gesture makes the page p and asks for callbacks.
Gesture(p, asked) ==
  /\ Len(frames) < MaxFrames
  /\ page' = p /\ frames' = frames \o asked
  /\ hurried' = (hurried \/ frames # <<>>)
  /\ UNCHANGED <<mobile, rotations>>

ToggleMobileNav ==
  LET p == Clicked(page, "menu")
  IN  /\ IF p.sheet \/ p.nav THEN Gesture(CloseMobileOverlay(p), <<>>)
         ELSE Gesture([p EXCEPT !.nav = TRUE, !.backdrop = TRUE, !.navReturn = p.focus],
                      <<"link">>)
      /\ past' = past

ClickBackdrop ==
  /\ page.backdrop /\ (page.nav \/ mobile)
  /\ Gesture(CloseMobileOverlay(page), <<>>) /\ past' = past

Escape ==
  /\ page.nav \/ page.sheet
  /\ Gesture(CloseMobileOverlay(page), <<>>) /\ past' = past

\* A link of the drawer: reachable with the keyboard while the drawer is off
\* the screen, but not while its section is collapsed.
FollowLink(link) ==
  LET p == Clicked(page, "link")
      view == IF link \in {"alerts", "nodes"} THEN link ELSE "explorer"
  IN  /\ SectionOf(link) \notin page.collapsed
      /\ Gesture(SetAppView(p, view),
                 TitleFrame(p, view) \o CASE link = "timeline" -> <<"show timeline">>
                                          [] link = "fields" -> <<"show fields">>
                                          [] OTHER -> <<>>)
      /\ past' = past

ToggleSection(section) ==
  /\ page.nav
  /\ Gesture([Clicked(page, "menu") EXCEPT
                !.collapsed = IF section \in @ THEN @ \ {section} ELSE @ \cup {section}], <<>>)
  /\ past' = past

\* The button is in the panel, which a phone shows only while it is open.
FieldsToggle ==
  LET p == [Clicked(page, "fields") EXCEPT !.hidden = ~@]
  IN  /\ page.view = "explorer" /\ (mobile => page.drawn)
      /\ Gesture(IF mobile /\ p.hidden THEN CloseMobileOverlay(p)
                 ELSE RenderAll(SyncURL(IF mobile THEN SyncMobileFieldsOverlay(p) ELSE p)),
                 <<>>)
      /\ past' = past

\* commit(), for a search or for the display settings, which may show or hide
\* the fields: an entry of the history.
Commit(hidden) ==
  /\ page.view = "explorer" /\ Len(past) < MaxHistory
  /\ Gesture(SyncMobileFieldsOverlay(RenderAll(SyncURL([page EXCEPT !.hidden = hidden]))), <<>>)
  /\ past' = Append(past, page.url)

\* popstate
Back ==
  /\ past # <<>>
  /\ LET url == Last(past)
         p == [page EXCEPT !.url = url, !.view = url.view, !.hidden = ~url.fields]
     IN  Gesture(SyncMobileFieldsOverlay(RenderAppView(p)), <<>>)
  /\ past' = Front(past)

SwitchLanguage ==
  /\ Gesture(RenderAppView(RenderAll(page)), <<>>) /\ past' = past

Rotate ==
  /\ rotations < Rotations /\ rotations' = rotations + 1
  /\ mobile' = ~mobile
  /\ UNCHANGED <<page, frames, past, hurried>>
-----------------------------------------------------------------------------
(* The browser. *)

\* Loads and live entries render at any time.
RenderAgain ==
  /\ page.drawn = page.hidden
  /\ page' = RenderAll(page)
  /\ UNCHANGED <<mobile, rotations, frames, past, hurried>>

\* A hidden element does not take the focus.
Focused(p, place) ==
  LET visible ==
        CASE place = "link" -> SectionOf(p.active) \notin p.collapsed
          [] place = "fields" -> p.view = "explorer" /\ (mobile => p.drawn)
          [] place = "timeline" -> p.view = "explorer"
          [] OTHER -> TRUE
  IN  IF visible THEN [p EXCEPT !.focus = place] ELSE p

AnimationFrame ==
  /\ frames # <<>>
  /\ CASE Head(frames) = "show timeline" ->
            /\ page' = FocusSection(page, "timeline")
            /\ frames' = Append(Tail(frames), "timeline")
       [] Head(frames) = "show fields" ->
            /\ page' = FocusSection(page, "fields")
            /\ frames' = Append(Tail(frames), "fields")
       [] OTHER ->
            /\ page' = Focused(page, Head(frames))
            /\ frames' = Tail(frames)
  /\ UNCHANGED <<mobile, rotations, past, hurried>>

OverlayNext ==
  \/ ToggleMobileNav \/ ClickBackdrop \/ Escape
  \/ \E link \in Links : FollowLink(link)
  \/ \E section \in Sections : ToggleSection(section)
  \/ FieldsToggle
  \/ Commit(page.hidden) \/ Commit(~page.hidden)
  \/ Back
  \/ SwitchLanguage
  \/ Rotate
  \/ RenderAgain
  \/ AnimationFrame

OverlaySpec == OverlayInit /\ [][OverlayNext]_overlayVars
-----------------------------------------------------------------------------
(* Type invariant. *)
OverlayTypeOK ==
  /\ mobile \in BOOLEAN /\ rotations \in 0 .. Rotations
  /\ page \in Page
  /\ frames \in Seq(Frames) /\ past \in Seq(URL) /\ hurried \in BOOLEAN

\* The backdrop is there exactly while the drawer or the sheet is open: never
\* left behind over the page, never missing under what it should close.
BackdropTellsOverlay == page.backdrop <=> page.nav \/ page.sheet

\* README: "Fields appears as a bottom sheet on mobile": on a phone the fields
\* are shown in a sheet that is open, and an open sheet shows the fields.
SheetShowsFields == page.sheet <=> mobile /\ ~page.hidden

\* ... a sheet of the Logs Explorer, not a backdrop over another page.
SheetOnExplorer == page.sheet => page.view = "explorer"

\* The address says what is shown: reloading it, or sharing it, shows the
\* same view and fields.
AddressTellsPage == page.url = [view |-> page.view, fields |-> ~page.hidden]

\* On a desktop the marked link is one of the page shown.
ActiveTellsView ==
  ~mobile =>
    page.view = IF page.active \in {"alerts", "nodes"} THEN page.active ELSE "explorer"

\* The backdrop follows drawer and sheet whatever happens; panel, sheet, address
\* and marked link agree after each gesture as long as the phone is not turned
\* and every gesture finds the callbacks of the one before it done.
OverlaysAgree ==
  /\ OverlayTypeOK /\ BackdropTellsOverlay
  /\ rotations = 0 /\ ~hurried => SheetShowsFields /\ AddressTellsPage /\ ActiveTellsView

\* However the drawer closes, it gives the focus back: where a click takes the
\* focus, it does not keep it off the screen.
DrawerGivesFocusBack ==
  [][ClickFocuses /\ page.nav /\ ~page'.nav => page'.focus # "link"]_overlayVars
=============================================================================
