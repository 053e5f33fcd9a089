----------------------------- MODULE BootProofs -----------------------------
(***************************************************************************)
(* The screens, for any number of visits of the manual screen; start-up,   *)
(* for any number of power failures, wherever they come, and any flash;    *)
(* and going back on the screens across restarts.                          *)
(***************************************************************************)
EXTENDS Boot, TLAPS

-----------------------------------------------------------------------------
(* Going back: Navigation alone.                                           *)

\* What TypeOK adds to BackLeadsToMenu for it to be inductive.
ListOfScreens == navigation \in Seq(Screen) /\ current_screen \in Screen

NavigationInv == ListOfScreens /\ BackLeadsToMenu

\* The list behind a new head is the list there was.
LEMMA PushFacts ==
  ASSUME NEW nav \in Seq(Screen), NEW screen \in Screen
  PROVE  LET pushed == <<screen>> \o nav
         IN  /\ pushed \in Seq(Screen)
             /\ Len(pushed) = Len(nav) + 1
             /\ pushed[1] = screen
             /\ \A i \in 2 .. Len(pushed) : pushed[i] = nav[i - 1]
  OBVIOUS

\* A screen that is set on a list of menus leaves only menus behind it.
LEMMA SetScreenStep ==
  ASSUME NEW nav \in Seq(Screen), NEW screen \in Screen, nav # << >>,
         \A i \in 1 .. Len(nav) : nav[i] = "MENU",
         SetScreen(nav, screen)
  PROVE  NavigationInv'
<1>1. current_screen' = screen /\ navigation' = <<screen>> \o nav
  BY DEF SetScreen
<1>2. Len(nav) \in Nat /\ Len(nav) >= 1
  OBVIOUS
<1>3. /\ navigation' \in Seq(Screen)
      /\ Len(navigation') = Len(nav) + 1
      /\ navigation'[1] = screen
      /\ \A i \in 2 .. Len(navigation') : navigation'[i] = nav[i - 1]
  BY <1>1, PushFacts
<1>4. \A i \in 2 .. Len(navigation') : navigation'[i] = "MENU"
  <2> TAKE i \in 2 .. Len(navigation')
  <2>1. i - 1 \in 1 .. Len(nav)
    BY <1>2, <1>3
  <2> QED
    BY <1>3, <2>1
<1> QED
  BY <1>1, <1>2, <1>3, <1>4 DEF NavigationInv, ListOfScreens, BackLeadsToMenu

LEMMA NavigationInit == Init => NavigationInv
  BY DEF Init, NavigationInv, ListOfScreens, BackLeadsToMenu, Screen

LEMMA NavigationStep == NavigationInv /\ [Next]_vars => NavigationInv'
<1> SUFFICES ASSUME NavigationInv, [Next]_vars PROVE NavigationInv'
  OBVIOUS
<1> USE DEF NavigationInv
<1>1. /\ navigation \in Seq(Screen) /\ Len(navigation) \in Nat
      /\ Len(navigation) >= 2 /\ navigation[1] = current_screen
      /\ \A i \in 2 .. Len(navigation) : navigation[i] = "MENU"
  BY DEF ListOfScreens, BackLeadsToMenu
<1>2. CASE OpenManual
  <2>1. current_screen = "MENU" /\ SetScreen(navigation, "MANUAL_MODE")
    BY <1>2 DEF OpenManual
  <2>2. \A i \in 1 .. Len(navigation) : navigation[i] = "MENU"
    BY <1>1, <2>1
  <2>3. navigation # << >> /\ "MANUAL_MODE" \in Screen
    BY <1>1 DEF Screen
  <2> QED
    BY <1>1, <2>1, <2>2, <2>3, SetScreenStep
<1>3. CASE GoBack
  <2> DEFINE rest == Tail(navigation)
  <2>1. SetScreen(rest, Head(rest))
    BY <1>3 DEF GoBack
  <2>2. /\ rest \in Seq(Screen) /\ Len(rest) = Len(navigation) - 1
        /\ \A i \in 1 .. Len(rest) : rest[i] = navigation[i + 1]
    BY <1>1
  <2> HIDE DEF rest
  <2>3. rest # << >>
    BY <1>1, <2>2
  <2>4. \A i \in 1 .. Len(rest) : rest[i] = "MENU"
    BY <1>1, <2>2
  <2>5. Head(rest) \in Screen
    BY <2>2, <2>3
  <2> QED
    BY <2>1, <2>2, <2>3, <2>4, <2>5, SetScreenStep
<1>4. CASE ToggleContent \/ UNCHANGED vars
  <2>1. navigation' = navigation /\ current_screen' = current_screen
    BY <1>4 DEF ToggleContent, vars
  <2> QED
    BY <2>1 DEF ListOfScreens, BackLeadsToMenu
<1> QED
  BY <1>2, <1>3, <1>4 DEF Next

\* However often the manual screen is opened and left, and although each visit
\* leaves the list one node longer, "VOLTAR" goes back to the menu and never
\* runs out of the list (screen_manager.c:32-43,76-90).
THEOREM BackAlwaysLeadsToMenu == Spec => []BackLeadsToMenu
<1>1. NavigationInv => BackLeadsToMenu
  BY DEF NavigationInv
<1> QED
  BY <1>1, NavigationInit, NavigationStep, PTL DEF Spec
-----------------------------------------------------------------------------
(* The flash.                                                              *)

Unreadable == {"NO_FREE_PAGES", "NEW_VERSION_FOUND"}

\* What a step of app_main knows of the NVS because of the steps before it: an
\* erasure is called for only by an error, it is left half done only by a power
\* failure or on worn flash, and app_main gets past the NVS only with one that
\* answers OK, whole or not.
NvsInv ==
  /\ cuts \in Nat
  /\ pc \in {"nvs_erase", "nvs_erasing"} => nvs \in Unreadable \cup {"HALF_ERASED"}
  /\ pc \in {"nvs_again", "db_init", "db_format", "create", "running"} =>
       nvs \in {"OK", "HALF_ERASED"}
  /\ nvs = "HALF_ERASED" =>
       "nvs" \notin kept /\ (pc = "nvs_erasing" \/ cuts > 0 \/ "nvs" \in worn)

LEMMA NvsAtStart == BootInit => NvsInv
  BY DEF BootInit, NvsInv

LEMMA NvsStep == NvsInv /\ [BootNext]_allVars => NvsInv'
<1> SUFFICES ASSUME NvsInv, [BootNext]_allVars PROVE NvsInv'
  OBVIOUS
<1>1. CASE NvsInit
  <2>1. PICK ret \in Answers :
          \/ EraseHelps(ret) /\ pc' = "nvs_erase"
          \/ ret = "OK" /\ pc' = "db_init"
          \/ pc' = "nvs_init"
    BY <1>1 DEF NvsInit, GoTo, Restart
  <2>2. /\ ret \in {nvs, "FAIL"} \/ nvs = "HALF_ERASED"
        /\ pc = "nvs_init" /\ UNCHANGED <<nvs, kept, worn, cuts>>
    BY <1>1, <2>1 DEF Answers, NvsInit, flash
  <2> QED
    BY <2>1, <2>2 DEF NvsInv, EraseHelps, Unreadable
<1>2. CASE NvsErase
  BY <1>2 DEF NvsErase, GoTo, NvsInv, Unreadable
<1>3. CASE NvsEraseFails \/ PowerCut
  BY <1>3 DEF NvsEraseFails, PowerCut, Restart, NvsInv, flash
<1>4. CASE NvsInitAgain
  <2>1. /\ pc = "nvs_again" /\ pc' \in {"db_init", "nvs_init"}
        /\ UNCHANGED <<nvs, kept, worn, cuts>>
    BY <1>4 DEF NvsInitAgain, GoTo, Restart, flash
  <2> QED
    BY <2>1 DEF NvsInv
<1>5. CASE DbMount \/ DbFails \/ CreateTasks
  <2>1. /\ pc \in {"db_init", "db_format", "create"}
        /\ pc' \in {"create", "db_format", "running"}
        /\ UNCHANGED <<nvs, worn, cuts>> /\ ("nvs" \in kept' => "nvs" \in kept)
    BY <1>5 DEF DbMount, DbFails, DbFailureIgnored, CreateTasks, GoTo, flash
  <2> QED
    BY <2>1 DEF NvsInv
<1>6. CASE Navigate \/ UNCHANGED allVars
  <2>1. UNCHANGED <<pc, nvs, kept, worn, cuts>>
    BY <1>6 DEF Navigate, allVars, bootVars, flash
  <2> QED
    BY <2>1 DEF NvsInv
<1> QED
  BY <1>1, <1>2, <1>3, <1>4, <1>5, <1>6 DEF BootNext, AppMain

\* What is in the NVS is lost only to an erasure that was called for.
LEMMA EraseStep ==
  NvsInv /\ [BootNext]_allVars =>
    [/\ Loses("nvs") => nvs \in {"NO_FREE_PAGES", "NEW_VERSION_FOUND"}
     /\ (pc # "create" /\ pc' = "create" /\ nvs # "OK") =>
          "nvs" \notin kept /\ (cuts > 0 \/ "nvs" \in worn)]_allVars
<1> DEFINE Careful ==
      /\ Loses("nvs") => nvs \in {"NO_FREE_PAGES", "NEW_VERSION_FOUND"}
      /\ (pc # "create" /\ pc' = "create" /\ nvs # "OK") =>
           "nvs" \notin kept /\ (cuts > 0 \/ "nvs" \in worn)
<1> SUFFICES ASSUME NvsInv, BootNext PROVE Careful
  OBVIOUS
<1>1. ASSUME kept' = kept, pc' = "create" => pc \in {"create", "db_init", "db_format"}
      PROVE  Careful
  BY <1>1 DEF Loses, NvsInv
<1>2. CASE NvsInit \/ NvsEraseFails \/ NvsInitAgain \/ PowerCut
  <2>1. kept' = kept /\ pc' # "create"
    BY <1>2 DEF NvsInit, NvsEraseFails, NvsInitAgain, PowerCut, GoTo, Restart, flash
  <2> QED
    BY <1>1, <2>1
<1>3. CASE NvsErase
  <2>1. /\ pc \in {"nvs_erase", "nvs_erasing"} /\ pc' # "create"
        /\ kept' = kept \ {"nvs"}
    BY <1>3 DEF NvsErase, GoTo
  <2> QED
    BY <2>1 DEF Loses, NvsInv, Unreadable
<1>4. CASE DbMount
  <2>1. /\ pc \in {"db_init", "db_format"}
        /\ kept' \in {kept, kept \ {"database"}}
    BY <1>4 DEF DbMount, GoTo
  <2> QED
    BY <2>1 DEF Loses, NvsInv
<1>5. CASE DbFails \/ CreateTasks \/ Navigate
  <2>1. kept' = kept /\ (pc' = "create" => pc \in {"create", "db_init", "db_format"})
    BY <1>5 DEF DbFails, DbFailureIgnored, CreateTasks, Navigate, GoTo, flash, bootVars
  <2> QED
    BY <1>1, <2>1
<1> QED
  BY <1>2, <1>3, <1>4, <1>5 DEF BootNext, AppMain

\* What was in the NVS at the first start is erased only where it cannot be read
\* as it is, and only a power failure or an erasure that failed on worn flash
\* makes the firmware run on a half-erased one, however often the power fails
\* and between whichever steps (main.c:24-29).
THEOREM FlashIsKept == BootSpec => ErasedOnlyIfUnreadable
  BY NvsAtStart, NvsStep, EraseStep, PTL DEF BootSpec, ErasedOnlyIfUnreadable

-----------------------------------------------------------------------------
LEMMA ScreensStep == NavigationInv /\ [BootNext]_allVars => NavigationInv'
<1> SUFFICES ASSUME NavigationInv, [BootNext]_allVars PROVE NavigationInv'
  OBVIOUS
<1>1. CASE Restart
  BY <1>1 DEF Restart, NavigationInv, ListOfScreens, BackLeadsToMenu, Screen
<1>2. CASE [Next]_vars
  BY <1>2, NavigationStep
<1>3. CASE AppMain
  <2>1. Restart \/ UNCHANGED vars
    BY <1>3 DEF AppMain, NvsInit, NvsErase, NvsEraseFails, NvsInitAgain, DbMount,
       DbFails, DbFailureIgnored, CreateTasks, GoTo
  <2> QED
    BY <1>1, <1>2, <2>1
<1> QED
  BY <1>1, <1>2, <1>3 DEF BootNext, Navigate, PowerCut, allVars

\* A restart takes the screens back to the menu whatever the list had become,
\* and from there, as from everywhere, "VOLTAR" finds the menu behind it
\* (main.c:40, lcd_gui.c:64, screen_manager.c:11-43,76-90).
THEOREM BackLeadsToMenuAfterRestarts == BootSpec => []BackLeadsToMenu
<1>1. BootInit => NavigationInv
  BY NavigationInit DEF BootInit
<1>2. NavigationInv => BackLeadsToMenu
  BY DEF NavigationInv
<1> QED
  BY <1>1, <1>2, ScreensStep, PTL DEF BootSpec
=============================================================================
