----------------------------- MODULE Navigation -----------------------------
(***************************************************************************)
(* screen_manager and content_manager as a navigator: which screen and     *)
(* which content are shown, the linked list that "VOLTAR" goes back along, *)
(* and the label of the button that switches the content.                  *)
(*                                                                         *)
(* screen_manager_go_back pops the screen that is left and then calls      *)
(* screen_manager_set_screen, which pushes the one that is entered, so a   *)
(* visit of the manual screen leaves the list longer than it found it.     *)
(*                                                                         *)
(* A definition marked "Slip" is a plausible mistake in the definition     *)
(* after it. Nothing uses it: it is there to see that a run would notice.  *)
(***************************************************************************)
EXTENDS Naturals, Sequences

CONSTANT MaxVisits  \* bound: visits of the manual screen; the code has none

ASSUME VisitsAssumption == MaxVisits \in Nat

Screen == {"MENU", "MANUAL_MODE"}
Content == {"CHART", "CONTROLS"}

VARIABLES
  navigation,            \* the linked list, its head first
  current_screen,        \* the screen that is drawn
  visits,                \* how often the manual screen was opened
  current_content_type,  \* of the newest content manager
  content_btn_label      \* what its button says

vars == <<navigation, current_screen, visits, current_content_type,
          content_btn_label>>

TypeOK ==
  /\ navigation \in Seq(Screen)
  /\ current_screen \in Screen
  /\ visits \in 0 .. MaxVisits
  /\ current_content_type \in Content
  /\ content_btn_label \in {"GRAFICO", "CONTROLES"}

\* nav_init makes a node for the menu, and setting the menu pushes another.
\* There is no content manager yet; its fields hold what the first will show.
Init ==
  /\ navigation = <<"MENU", "MENU">>
  /\ current_screen = "MENU"
  /\ visits = 0
  /\ current_content_type = "CHART"
  /\ content_btn_label = "CONTROLES"

\* Slip: the screen that is entered is not pushed.
SetScreenUnpushed(nav, screen) ==
  /\ current_screen' = screen
  /\ navigation' = nav

\* screen_manager_set_screen, when the list is nav.
SetScreen(nav, screen) ==
  /\ current_screen' = screen
  /\ navigation' = <<screen>> \o nav

\* btn_content_create reads current_content_type before anything was stored
\* in it: malloc decides what the label says. The chart is shown either way.
CreateContentManager ==
  /\ content_btn_label' \in {"GRAFICO", "CONTROLES"}
  /\ current_content_type' = "CHART"

\* Both small buttons of the menu have btn_manual_event_handler, which passes
\* MANUAL, a controller_mode_t; MANUAL_MODE has the same value.
OpenManual ==
  /\ current_screen = "MENU"
  /\ visits < MaxVisits
  /\ visits' = visits + 1
  /\ SetScreen(navigation, "MANUAL_MODE")
  /\ CreateContentManager

\* nav_pop, and then the screen that has become the head.
GoBack ==
  /\ current_screen = "MANUAL_MODE"
  /\ SetScreen(Tail(navigation), Head(Tail(navigation)))
  /\ UNCHANGED <<visits, current_content_type, content_btn_label>>

\* btn_content_event_handler: the label names the other content.
ToggleContent ==
  /\ current_screen = "MANUAL_MODE"
  /\ \/ /\ current_content_type = "CHART"
        /\ current_content_type' = "CONTROLS"
        /\ content_btn_label' = "GRAFICO"
     \/ /\ current_content_type = "CONTROLS"
        /\ current_content_type' = "CHART"
        /\ content_btn_label' = "CONTROLES"
  /\ UNCHANGED <<navigation, current_screen, visits>>

Next == OpenManual \/ GoBack \/ ToggleContent

Spec == Init /\ [][Next]_vars

-----------------------------------------------------------------------------
\* However long the list has grown, what is drawn is its head, behind it are
\* only menus, and there is at least one: "VOLTAR" always finds a screen to go
\* back to, and it is the menu (screen_manager.c:32-43,76-90).
BackLeadsToMenu ==
  /\ Len(navigation) >= 2
  /\ navigation[1] = current_screen
  /\ \A i \in 2 .. Len(navigation) : navigation[i] = "MENU"

\* content_manager.c:114,117: the button is called "GRAFICO" while the controls
\* are shown and "CONTROLES" while the chart is.
LabelNamesOther ==
  current_screen = "MANUAL_MODE" =>
    ((content_btn_label = "GRAFICO") <=> (current_content_type = "CONTROLS"))
=============================================================================
