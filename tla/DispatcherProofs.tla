---------------------------- MODULE DispatcherProofs ----------------------------
(***************************************************************************)
(* Which task lists one process may start, however deep its pages are      *)
(* nested and whatever the host answers.  The argument follows the place   *)
(* of the main thread: a loop runs only at a page or a list; once the      *)
(* application is quitting and no loop is left, the main thread is on its  *)
(* way out or at a page it will not show; and a page that has been stopped *)
(* has been stopped by the button that leads on from it.  The order of the *)
(* lists follows from the places the main thread passes through: it goes   *)
(* back to select_task only before it has started anything.                *)
(***************************************************************************)
EXTENDS Dispatcher, SequenceTheorems, TLAPS

Leaving == {"again", "quit", "over", "exited", "settings", "cdboot"}
Running == Lists \ {"reboot"}

\* Where the main thread may be.
Place ==
    /\ stack \in Seq(AllPages)
    /\ stack # <<>> => pc \in Pages \cup Running
    /\ quitting /\ stack = <<>> => pc \in Leaving
    /\ wmQuit => quitting
    /\ list = "running" /\ stack = <<>> => pc \in {"over", "exited"}
    /\ list = "running" /\ stack # <<>> => pc \in Running /\ (keep \/ quitting)

\* Which pages have been shown inside that of pc.
Inside(page) ==
    CASE pc = "menu" -> page \in {"menu", "cd_finish"}
      [] pc = "settings" -> page \in {"settings", "accessibility"}
      [] pc \in Running -> page = "progress"
      [] OTHER -> page = pc
InnermostOfPage == Takes => Inside(Here)

\* What the last look for an earlier installation has found: each of the two
\* functions goes by its own question.
LooksClean ==
    /\ pc = "settings" => ~info.found
    /\ pc = "cdboot" => ~info.previous
Clean ==
    /\ info \in Infos
    /\ (~quitting \/ stack # <<>>) => LooksClean
    /\ InstallsOnlyIfClean

\* The answers behind the place of the main thread.
Answered ==
    CASE pc = "settings" -> flag => <<"settings", "install">> \in pressed
      [] pc = "cdboot" -> <<"cdboot", "install">> \in pressed
      [] pc = "fix_page" -> IF fixed THEN <<"fix_page", "fix">> \in pressed
                            ELSE <<"fix_page", "uninstall">> \in pressed
      [] pc = "confirm" -> <<"confirm", "uninstall">> \in pressed
      [] OTHER -> TRUE
Asked ==
    /\ flag \in BOOLEAN /\ fixed \in BOOLEAN /\ runTask \in RunTask \cup {None}
    /\ ~flag => <<"accessibility", "install">> \in pressed
    /\ runTask = "reboot" => AskedFor("reboot")
    /\ pc = "confirm" => <<"fix_page", "uninstall">> \in pressed
    /\ pc \in Lists => AskedFor(pc)
    /\ stack # <<>> /\ ~keep /\ ~quitting => Answered
    /\ started \in Seq(Lists)
    /\ ListsAreAskedFor

DInv == Place /\ InnermostOfPage /\ Clean /\ Asked

-----------------------------------------------------------------------------
(* Stacks                                                                   *)

\* The innermost loop is left.
LEMMA FrontOfStack ==
    ASSUME NEW S, NEW s \in Seq(S), s # <<>>
    PROVE  /\ Front(s) \in Seq(S)
           /\ Len(s) > 1 => Front(s) # <<>>
           /\ ~(Len(s) > 1) => Front(s) = <<>>
<1>1. Len(s) \in Nat \ {0}
    BY EmptySeq
<1>2. \A i \in 1 .. Len(s) - 1 : s[i] \in S
    BY <1>1, LenProperties
<1>3. /\ SubSeq(s, 1, Len(s) - 1) \in Seq(S)
      /\ Len(SubSeq(s, 1, Len(s) - 1)) = IF 1 <= Len(s) - 1 THEN Len(s) - 1 - 1 + 1 ELSE 0
    BY <1>1, <1>2, SubSeqProperties
<1>4. CASE Len(s) > 1
  <2>1. \A n \in Nat : n > 1 => (IF 1 <= n - 1 THEN n - 1 - 1 + 1 ELSE 0) # 0
    OBVIOUS
  <2>2. SubSeq(s, 1, Len(s) - 1) # <<>>
    BY <1>1, <1>3, <1>4, <2>1, EmptySeq, Zenon
  <2> QED
    BY <1>3, <1>4, <2>2 DEF Front
<1>5. CASE ~(Len(s) > 1)
    BY <1>1, <1>3, <1>5, SubSeqEmpty DEF Front
<1> QED
    BY <1>4, <1>5

\* A loop is entered.
LEMMA AppendToStack ==
    ASSUME NEW S, NEW s \in Seq(S), NEW e \in S
    PROVE  Append(s, e) \in Seq(S) /\ Append(s, e) # <<>> /\ Last(Append(s, e)) = e
BY DEF Last

\* The lists started so far, and one more.
LEMMA OneMoreList ==
    ASSUME NEW S, NEW s \in Seq(S), NEW e \in S
    PROVE  ToSet(Append(s, e)) = ToSet(s) \cup {e}
<1>1. /\ Append(s, e) \in Seq(S) /\ Len(Append(s, e)) = Len(s) + 1
      /\ \A i \in 1 .. Len(s) : Append(s, e)[i] = s[i]
      /\ Append(s, e)[Len(s) + 1] = e
    OBVIOUS
<1>2. ToSet(s) = {s[i] : i \in 1 .. Len(s)}
    BY DEF ToSet
<1>3. ToSet(Append(s, e)) = {Append(s, e)[i] : i \in 1 .. Len(s) + 1}
    BY <1>1 DEF ToSet
<1>4. Len(s) \in Nat
    OBVIOUS
<1> QED
    BY <1>1, <1>2, <1>3, <1>4

LEMMA Sets ==
    /\ Running = {"install", "livecd", "cd_boot", "fix", "uninstall"}
    /\ Lists = {"install", "livecd", "cd_boot", "fix", "uninstall", "reboot"}
    /\ Pages = {"menu", "settings", "cdboot", "fix_page", "confirm", "install_finish",
                "fix_finish", "uninstall_finish"}
    /\ AllPages = Pages \cup {"cd_finish", "accessibility", "progress"}
BY DEF Running, Lists, Installing, Pages, AllPages

-----------------------------------------------------------------------------

LEMMA InitHolds == Init => DInv
<1> SUFFICES ASSUME Init PROVE DInv
    OBVIOUS
<1> USE Sets DEF Init
<1>1. Place /\ InnermostOfPage
    BY DEF Place, InnermostOfPage, Takes
<1>2. Clean
    BY DEF Clean, LooksClean, InstallsOnlyIfClean
<1>3. ToSet(started) = {}
    BY DEF ToSet
<1>4. runTask # "reboot"
    BY NoneAssumption DEF RunTask
<1>5. Asked
  <2>1. /\ pc = "select" /\ stack = <<>> /\ flag = TRUE /\ fixed = FALSE /\ started = <<>>
        /\ runTask \in RunTask \cup {None}
    BY DEF RunTask
  <2>2. pc \notin Lists /\ pc # "confirm"
    BY <2>1
  <2>3. started \in Seq(Lists)
    BY <2>1
  <2> HIDE DEF Init
  <2>4. ListsAreAskedFor
    BY <1>3 DEF ListsAreAskedFor
  <2> HIDE Sets
  <2> QED
    BY <1>4, <2>1, <2>2, <2>3, <2>4 DEF Asked
<1> QED
    BY <1>1, <1>2, <1>5 DEF DInv

\* Nothing is started and nothing pressed: what has been asked for stays.
LEMMA AskedStays ==
    ASSUME Asked, UNCHANGED <<pressed, started>>
    PROVE  /\ \A l : AskedFor(l)' <=> AskedFor(l)
           /\ ListsAreAskedFor' /\ started' \in Seq(Lists)
BY DEF Asked, AskedFor, ListsAreAskedFor

Between == \/ SelectTask \/ RunCdMenu \/ NoCd \/ RunInstaller \/ NothingToUninstall
           \/ RunPreviousUninstaller \/ ShowFixSettings \/ Uninstalled \/ LookAgain
           \/ QuitAtEnd \/ NoIsoToFixFrom

\* What such a step leaves of the state the invariant is about.
Quiet ==
    /\ UNCHANGED <<pressed, started, list, flag, fixed, runTask, keep>>
    /\ stack' = <<>>
    /\ quitting => quitting'
    /\ wmQuit' => quitting'
    /\ info' \in Infos

\* No loop runs where the main thread is between pages.
LEMMA NoLoopBetween ==
    ASSUME DInv, pc \notin Pages \cup Running
    PROVE  stack = <<>> /\ (quitting => pc \in Leaving) /\ pc \notin Lists \ {"reboot"}
BY DEF DInv, Place, Running

\* select_task finds one of its cases.
LEMMA SelectTaskLeads ==
    ASSUME DInv, SelectTask
    PROVE  /\ pc' \in {"run_installer", "run_cd_boot", "run_uninstaller", "quit", "reboot", "run_cd_menu"}
           /\ pc' = "reboot" => runTask = "reboot"
<1> USE DEF SelectTask, Goto
<1>1. runTask \in {"install", "cd_boot", "uninstall", "show_info", "reboot", "cd_menu", None}
    BY DEF DInv, Asked, RunTask
<1>2. None \notin {"install", "cd_boot", "uninstall", "show_info", "reboot", "cd_menu"}
    BY NoneAssumption DEF RunTask
<1>3. CASE runTask \in {None, "cd_menu"}
    BY <1>2, <1>3
<1>4. CASE runTask \in {"install", "cd_boot", "uninstall", "show_info", "reboot"}
    BY <1>2, <1>4
<1> QED
    BY <1>1, <1>3, <1>4

BetweenPlaces == {"select", "run_cd_menu", "run_cd_boot", "run_installer", "run_uninstaller",
                  "uninstalled", "again", "quit"}

\* run_uninstaller completes previous_target_dir.
LEMMA SetPrevious ==
    ASSUME NEW i \in Infos, i.there
    PROVE  [i EXCEPT !.previous = TRUE] \in Infos
BY DEF Infos

\* The page an uninstallation is chosen on forgets that there was something to fix.
LEMMA ClearNeedfix ==
    ASSUME NEW i \in Infos
    PROVE  LET j == [i EXCEPT !.needfix = FALSE] IN
           j \in Infos /\ j.found = i.found /\ j.previous = i.previous
BY DEF Infos

\* What the main thread does between two pages, as far as it matters here.
LEMMA BetweenPages ==
    ASSUME DInv, Between
    PROVE  /\ stack = <<>> /\ Quiet
           /\ quitting' => pc' \in Leaving
           /\ pc' \notin {"confirm", "install", "livecd", "cd_boot", "fix", "uninstall"}
           /\ pc' = "reboot" => runTask = "reboot"
           /\ ~quitting' => LooksClean'
           /\ list = "running" => pc' \in {"over", "exited"}
<1>1. info \in Infos /\ (wmQuit => quitting)
    BY DEF DInv, Clean, Place
<1>2. ASSUME pc \in BetweenPlaces
      PROVE  /\ stack = <<>> /\ list # "running"
             /\ quitting => pc \in {"again", "quit"}
    BY <1>2, Sets DEF DInv, Place, BetweenPlaces, Leaving
<1>3. ASSUME NEW place, Goto(place), pc \in BetweenPlaces
      PROVE  /\ pc' = place /\ stack' = <<>> /\ (wmQuit' => quitting')
             /\ UNCHANGED <<keep, quitting, list, started, pressed>>
    BY <1>1, <1>2, <1>3 DEF Goto, shown
<1>4. ASSUME NEW place, Quit(place) \/ Destroy(place), pc \in BetweenPlaces, place \in Leaving
      PROVE  /\ pc' \in {place, "exited"} /\ stack' = <<>> /\ quitting'
             /\ pc' \in Leaving
    BY <1>1, <1>2, <1>4 DEF Quit, Destroy, Leaving
<1>5. CASE SelectTask
  <2>1. pc \in BetweenPlaces /\ ~quitting
    BY <1>2, <1>5 DEF SelectTask, BetweenPlaces
  <2>2. PICK place : Goto(place)
    BY <1>5 DEF SelectTask
  <2>3. UNCHANGED memory
    BY <1>5 DEF SelectTask
  <2> QED
    BY <1>1, <1>2, <1>3, <2>1, <2>2, <2>3, SelectTaskLeads, <1>5 DEF Quiet, LooksClean, memory
<1>6. CASE RunCdMenu
  <2>1. pc \in BetweenPlaces /\ ~quitting
    BY <1>2, <1>6 DEF RunCdMenu, BetweenPlaces
  <2>2. CASE info.cd
    BY <1>1, <1>2, <1>3, <1>6, <2>1, <2>2 DEF RunCdMenu, Quiet, LooksClean
  <2>3. CASE ~info.cd
    BY <1>1, <1>2, <1>4, <1>6, <2>1, <2>3 DEF RunCdMenu, Quiet, Leaving
  <2> QED
    BY <2>2, <2>3
<1>7. CASE NoCd \/ QuitAtEnd
  <2>1. pc \in BetweenPlaces
    BY <1>7 DEF NoCd, QuitAtEnd, BetweenPlaces
  <2>2. Quit("over") /\ UNCHANGED <<keep, memory, list, started, pressed>>
    BY <1>7 DEF NoCd, QuitAtEnd
  <2> QED
    BY <1>1, <1>2, <1>4, <2>1, <2>2 DEF Quiet, Leaving, memory
<1>8. CASE RunInstaller
  <2>1. pc \in BetweenPlaces /\ ~quitting
    BY <1>2, <1>8 DEF RunInstaller, BetweenPlaces
  <2>2. CASE OldFound(info)
    BY <1>1, <1>2, <1>3, <1>8, <2>1, <2>2 DEF RunInstaller, Quiet, LooksClean
  <2>3. CASE ~OldFound(info)
    <3>1. Goto(SettingsPage) /\ UNCHANGED <<runTask, info, fixed, flag>>
      BY <1>8, <2>3 DEF RunInstaller
    <3>2. \/ SettingsPage = "settings" /\ ~info.found
          \/ SettingsPage = "cdboot" /\ ~info.previous
      BY <2>3 DEF OldFound, SettingsPage
    <3> QED
      BY <1>1, <1>2, <1>3, <2>1, <3>1, <3>2 DEF Quiet, LooksClean
  <2> QED
    BY <2>2, <2>3
<1>9. CASE NothingToUninstall
  <2>1. pc \in BetweenPlaces /\ ~quitting
    BY <1>2, <1>9 DEF NothingToUninstall, BetweenPlaces
  <2>2. Return \in {"again", "quit"}
    BY DEF Return
  <2> QED
    BY <1>1, <1>2, <1>3, <1>9, <2>1, <2>2 DEF NothingToUninstall, Quiet, LooksClean, memory
<1>10. CASE RunPreviousUninstaller
  <2>1. pc \in BetweenPlaces
    BY <1>10 DEF RunPreviousUninstaller, BetweenPlaces
  <2>2. Return \in {"again", "quit"}
    BY DEF Return
  <2>3. info' \in Infos
    BY <1>1, <1>10, SetPrevious DEF RunPreviousUninstaller
  <2> QED
    BY <1>1, <1>2, <1>4, <1>10, <2>1, <2>2, <2>3 DEF RunPreviousUninstaller, Quiet, Leaving
<1>11. CASE ShowFixSettings
  <2>1. pc \in BetweenPlaces /\ ~quitting
    BY <1>2, <1>11 DEF ShowFixSettings, BetweenPlaces
  <2>2. info' \in Infos
    BY <1>1, <1>11, SetPrevious DEF ShowFixSettings
  <2> QED
    BY <1>1, <1>2, <1>3, <1>11, <2>1, <2>2 DEF ShowFixSettings, Quiet, LooksClean
<1>12. CASE Uninstalled
  <2>1. pc \in BetweenPlaces /\ ~quitting /\ UNCHANGED memory
    BY <1>2, <1>12 DEF Uninstalled, BetweenPlaces
  <2>2. Return \in {"again", "quit"}
    BY DEF Return
  <2>3. CASE before /\ info.exe
    BY <1>1, <1>2, <1>4, <1>12, <2>1, <2>2, <2>3 DEF Uninstalled, Quiet, Leaving, memory
  <2>4. CASE ~(before /\ info.exe)
    BY <1>1, <1>2, <1>3, <1>12, <2>1, <2>4 DEF Uninstalled, Quiet, LooksClean, memory
  <2> QED
    BY <2>3, <2>4
<1>13. CASE LookAgain
  <2>1. pc \in BetweenPlaces
    BY <1>13 DEF LookAgain, BetweenPlaces
  <2>2. PICK now \in Infos :
           /\ info' = now
           /\ IF OldFound(now) THEN Quit(SettingsPage) /\ UNCHANGED <<keep, frontend, list, started, pressed>>
              ELSE Goto(SettingsPage) /\ frontend' = TRUE
    BY <1>13 DEF LookAgain
  <2>3. UNCHANGED <<runTask, fixed, flag>>
    BY <1>13 DEF LookAgain
  <2> DEFINE page == SettingsPage
  <2>4. /\ page \in Leaving
        /\ page \notin {"confirm", "install", "livecd", "cd_boot", "fix", "uninstall", "reboot"}
        /\ ~OldFound(now) => \/ page = "settings" /\ ~now.found
                             \/ page = "cdboot" /\ ~now.previous
    BY DEF Leaving, SettingsPage, OldFound
  <2> HIDE DEF page
  <2>5. CASE OldFound(now)
    <3>1. Quit(page) /\ UNCHANGED <<keep, frontend, list, started, pressed>>
      BY <2>2, <2>5 DEF page
    <3> QED
      BY <1>1, <1>2, <1>4, <2>1, <2>2, <2>3, <2>4, <3>1 DEF Quiet, Leaving
  <2>6. CASE ~OldFound(now)
    <3>1. Goto(page)
      BY <2>2, <2>6 DEF page
    <3>2. LooksClean'
      BY <1>3, <2>1, <2>2, <2>4, <2>6, <3>1 DEF LooksClean
    <3> QED
      BY <1>1, <1>2, <1>3, <2>1, <2>2, <2>3, <2>4, <3>1, <3>2 DEF Quiet
  <2> QED
    BY <2>5, <2>6
<1>14. CASE NoIsoToFixFrom
  <2>1. ~quitting /\ list # "running" /\ stack = <<>>
    BY <1>14 DEF NoIsoToFixFrom, DInv, Place, Leaving
  <2> QED
    BY <1>1, <1>14, <2>1 DEF NoIsoToFixFrom, Goto, Quiet, LooksClean, memory, shown
<1> QED
    BY <1>5, <1>6, <1>7, <1>8, <1>9, <1>10, <1>11, <1>12, <1>13, <1>14 DEF Between

-----------------------------------------------------------------------------
(* Every step keeps the invariant                                           *)

LEMMA BetweenKeeps ==
    ASSUME DInv, Between
    PROVE  DInv'
<1>1. /\ stack = <<>> /\ Quiet
      /\ quitting' => pc' \in Leaving
      /\ pc' \notin {"confirm", "install", "livecd", "cd_boot", "fix", "uninstall"}
      /\ pc' = "reboot" => runTask = "reboot"
      /\ ~quitting' => LooksClean'
      /\ list = "running" => pc' \in {"over", "exited"}
    BY BetweenPages
<1>2. Place'
    BY <1>1 DEF Place, Quiet
<1>3. InnermostOfPage'
    BY <1>1 DEF InnermostOfPage, Takes, Quiet
<1>4. Clean'
    BY <1>1 DEF Clean, LooksClean, InstallsOnlyIfClean, Quiet
<1>5. Asked'
  <2>1. Asked
    BY DEF DInv
  <2>2. UNCHANGED <<pressed, started>> /\ stack' = <<>>
    BY <1>1 DEF Quiet
  <2>3. /\ flag' \in BOOLEAN /\ fixed' \in BOOLEAN /\ runTask' \in RunTask \cup {None}
        /\ ~flag' => <<"accessibility", "install">> \in pressed'
        /\ runTask' = "reboot" => AskedFor("reboot")
    BY <1>1, <2>1 DEF Asked, Quiet
  <2>4. pc' \in Lists => pc' = "reboot" /\ runTask' = "reboot"
    BY <1>1, Sets DEF Quiet
  <2> QED
    BY <1>1, <2>1, <2>2, <2>3, <2>4, AskedStays DEF Asked
<1> QED
    BY <1>2, <1>3, <1>4, <1>5 DEF DInv

LEMMA RebootKeeps ==
    ASSUME DInv, Reboot
    PROVE  DInv' /\ ~quitting
<1>1. /\ pc = "reboot" /\ stack = <<>> /\ ~quitting /\ list # "running"
    BY Sets DEF DInv, Place, Reboot, Leaving
<1>2. /\ pc' = "quit" /\ started' = Append(started, "reboot")
      /\ UNCHANGED <<stack, keep, quitting, wmQuit, memory, list, pressed>>
    BY DEF Reboot, shown
<1>3. Place' /\ InnermostOfPage' /\ Clean'
    BY <1>1, <1>2 DEF DInv, Place, InnermostOfPage, Takes, Clean, LooksClean, InstallsOnlyIfClean, memory
<1>4. "reboot" \in Lists /\ "quit" \notin Lists
    BY Sets
<1>5. Asked
    BY DEF DInv
<1>6. AskedFor("reboot")
    BY <1>1, <1>4, <1>5 DEF Asked
<1>7. \A l : AskedFor(l)' <=> AskedFor(l)
    BY <1>2 DEF AskedFor
<1>8. started' \in Seq(Lists) /\ ToSet(started') = ToSet(started) \cup {"reboot"}
    BY <1>2, <1>4, <1>5, OneMoreList DEF Asked
<1>9. ListsAreAskedFor'
    BY <1>5, <1>6, <1>7, <1>8 DEF Asked, ListsAreAskedFor
<1>10. Asked'
    BY <1>1, <1>2, <1>4, <1>5, <1>7, <1>8, <1>9 DEF Asked, memory
<1> QED
    BY <1>1, <1>3, <1>10 DEF DInv

LEMMA ShowPageKeeps ==
    ASSUME DInv, ShowPage
    PROVE  DInv'
<1>1. /\ pc \in Pages /\ stack = <<>> /\ list # "running"
      /\ UNCHANGED <<quitting, wmQuit, memory, pressed, list, started>>
      /\ quitting => pc' = "over" /\ UNCHANGED <<stack, keep>>
      /\ ~quitting => pc' = pc /\ stack' = Append(stack, pc) /\ keep' = TRUE
    BY Sets DEF DInv, Place, ShowPage, RunLoop
<1>2. Asked
    BY DEF DInv
<1>3. "over" \notin Lists /\ pc \notin Lists
    BY <1>1, Sets
<1>4. CASE quitting
  <2>1. Place' /\ InnermostOfPage' /\ Clean'
    BY <1>1, <1>4 DEF DInv, Place, InnermostOfPage, Takes, Clean, LooksClean, InstallsOnlyIfClean, memory, Leaving
  <2>2. Asked'
    BY <1>1, <1>2, <1>3, <1>4, AskedStays DEF Asked, memory
  <2> QED
    BY <2>1, <2>2 DEF DInv
<1>5. CASE ~quitting
  <2>1. stack' \in Seq(AllPages) /\ stack' # <<>> /\ Last(stack') = pc
    <3>1. stack \in Seq(AllPages) /\ pc \in AllPages
      BY <1>1, Sets DEF DInv, Place
    <3>2. LET s == Append(stack, pc) IN s \in Seq(AllPages) /\ s # <<>> /\ Last(s) = pc
      BY <3>1, AppendToStack
    <3>3. stack' = Append(stack, pc)
      BY <1>1, <1>5
    <3> QED
      BY <3>2, <3>3
  <2>2. Place'
    BY <1>1, <1>5, <2>1 DEF DInv, Place
  <2>3. Inside(pc)
    BY <1>1, Sets DEF Inside
  <2>4. InnermostOfPage'
    BY <1>1, <1>5, <2>1, <2>3 DEF InnermostOfPage, Inside, Here
  <2>5. Clean'
    BY <1>1, <1>5 DEF DInv, Clean, LooksClean, InstallsOnlyIfClean, memory
  <2>6. Asked'
    <3>1. UNCHANGED <<pressed, started, pc, flag, fixed, runTask>> /\ keep'
      BY <1>1, <1>5 DEF memory
    <3>2. /\ ListsAreAskedFor' /\ started' \in Seq(Lists)
          /\ AskedFor("reboot")' <=> AskedFor("reboot")
      BY <1>2, <3>1, AskedStays
    <3> QED
      BY <1>2, <1>3, <3>1, <3>2 DEF Asked
  <2> QED
    BY <2>2, <2>4, <2>5, <2>6 DEF DInv
<1> QED
    BY <1>4, <1>5

LEMMA RunTasksKeeps ==
    ASSUME DInv, RunTasks
    PROVE  DInv' /\ ~quitting
<1>1. /\ pc \in Running /\ stack = <<>> /\ ~quitting
      /\ UNCHANGED <<quitting, wmQuit, memory, pressed, pc>>
      /\ list' = "running" /\ started' = Append(started, pc)
      /\ stack' = Append(stack, "progress") /\ keep' = TRUE
    BY Sets DEF DInv, Place, RunTasks, RunLoop, Running, Leaving
<1>2. Asked
    BY DEF DInv
<1>3. pc \in Lists /\ pc # "confirm" /\ "progress" \in AllPages
    BY <1>1, Sets
<1>4. stack' \in Seq(AllPages) /\ stack' # <<>> /\ Last(stack') = "progress"
    BY <1>1, <1>3, AppendToStack DEF DInv, Place
<1>5. Place'
    BY <1>1, <1>4 DEF DInv, Place
<1>6. Inside("progress")
    BY <1>1, Sets DEF Inside
<1>7. InnermostOfPage'
    BY <1>1, <1>4, <1>6 DEF InnermostOfPage, Inside, Here
<1>8. Clean'
    BY <1>1 DEF DInv, Clean, LooksClean, InstallsOnlyIfClean, memory
<1>9. \A l : AskedFor(l)' <=> AskedFor(l)
    BY <1>1 DEF AskedFor
<1>10. AskedFor(pc)
    BY <1>2, <1>3 DEF Asked
<1>11. started' \in Seq(Lists) /\ ToSet(started') = ToSet(started) \cup {pc}
    BY <1>1, <1>2, <1>3, OneMoreList DEF Asked
<1>12. ListsAreAskedFor'
    BY <1>2, <1>9, <1>10, <1>11 DEF Asked, ListsAreAskedFor
<1>13. Asked'
    BY <1>1, <1>2, <1>3, <1>9, <1>10, <1>11, <1>12 DEF Asked, memory
<1> QED
    BY <1>1, <1>5, <1>7, <1>8, <1>13 DEF DInv

\* What a page, or a list that has done its work, leads on to.
LEMMA WhatFollows ==
    ASSUME pc \in Pages \cup Running, flag \in BOOLEAN, fixed \in BOOLEAN
    PROVE  /\ After \in {"install", "livecd"} => pc = "settings"
           /\ After = "cd_boot" => pc = "cdboot"
           /\ After \notin {"settings", "cdboot"}
           /\ After = "livecd" => ~flag
           /\ After = "install" => flag
           /\ After = "fix" => pc = "fix_page" /\ fixed
           /\ After = "confirm" => pc = "fix_page" /\ ~fixed
           /\ After = "uninstall" => pc = "confirm"
           /\ After = "reboot" => runTask = "reboot"
<1> USE DEF After, AfterFix, AfterFixPage
<1>1. CASE pc \in {"menu", "cdboot", "confirm", "uninstall_finish"}
    BY <1>1
<1>2. CASE pc = "settings"
  <2>1. CASE flag
    BY <1>2, <2>1
  <2>2. CASE ~flag
    BY <1>2, <2>2
  <2> QED
    BY <2>1, <2>2
<1>3. CASE pc = "fix_page"
  <2>1. CASE fixed
    BY <1>3, <2>1
  <2>2. CASE ~fixed
    BY <1>3, <2>2
  <2> QED
    BY <2>1, <2>2
<1>4. CASE pc \in Running
    BY <1>4, Sets
<1>5. CASE pc \in {"install_finish", "fix_finish"}
  <2>1. CASE runTask = "reboot"
    BY <1>5, <2>1
  <2>2. CASE runTask # "reboot"
    BY <1>5, <2>2
  <2> QED
    BY <2>1, <2>2
<1> QED
    BY <1>1, <1>2, <1>3, <1>4, <1>5, Sets

LEMMA LeaveLoopKeeps ==
    ASSUME DInv, LeaveLoop
    PROVE  DInv'
<1>1. /\ stack # <<>> /\ (~keep \/ wmQuit) /\ (~keep \/ quitting)
      /\ pc \in Pages \cup Running /\ stack \in Seq(AllPages)
      /\ (wmQuit' => quitting)
      /\ stack' = Front(stack) /\ pc' = Left
      /\ UNCHANGED <<keep, quitting, memory, list, started, pressed>>
    BY DEF DInv, Place, LeaveLoop
<1>2. /\ Front(stack) \in Seq(AllPages)
      /\ Len(stack) > 1 => Front(stack) # <<>>
      /\ ~(Len(stack) > 1) => Front(stack) = <<>>
    BY <1>1, FrontOfStack
<1>3. Asked /\ Place /\ Clean
    BY DEF DInv
<1>4. InnermostOfPage'
    BY <1>1 DEF InnermostOfPage, Takes
<1>5. /\ \A l : AskedFor(l)' <=> AskedFor(l)
      /\ ListsAreAskedFor' /\ started' \in Seq(Lists)
    BY <1>1, <1>3, AskedStays
<1>6. CASE Len(stack) > 1
  <2>1. pc' = pc /\ stack' # <<>> /\ stack' \in Seq(AllPages)
    BY <1>1, <1>2, <1>6 DEF Left
  <2>2. Place'
    BY <1>1, <1>3, <2>1 DEF Place
  <2>3. Clean'
    BY <1>1, <1>3, <2>1 DEF Clean, LooksClean, InstallsOnlyIfClean, memory
  <2>4. Answered' <=> Answered
    BY <1>1, <2>1 DEF Answered, memory
  <2>5. Asked'
    BY <1>1, <1>3, <1>5, <2>1, <2>4 DEF Asked, memory
  <2> QED
    BY <1>4, <2>2, <2>3, <2>5 DEF DInv
<1>7. CASE ~(Len(stack) > 1) /\ pc' = "over"
  <2>1. stack' = <<>> /\ "over" \notin Lists
    BY <1>1, <1>2, <1>7, Sets
  <2>2. Place'
    BY <1>1, <1>3, <1>7, <2>1, EmptySeq DEF Place, Leaving
  <2>3. Clean'
    BY <1>1, <1>3, <1>7 DEF Clean, LooksClean, InstallsOnlyIfClean, memory
  <2>4. Asked'
    BY <1>1, <1>3, <1>5, <1>7, <2>1 DEF Asked, memory
  <2> QED
    BY <1>4, <2>2, <2>3, <2>4 DEF DInv
<1>8. CASE ~(Len(stack) > 1) /\ pc' # "over"
  <2>1. stack' = <<>> /\ ~quitting /\ list # "running" /\ ~keep /\ ~wmQuit' /\ pc' = After
    BY <1>1, <1>2, <1>3, <1>8 DEF Left, Place
  <2>2. Place'
    BY <1>1, <2>1, EmptySeq DEF Place
  <2>3. Answered
    BY <1>1, <1>3, <2>1 DEF Asked
  <2>4. /\ pc' \in {"install", "livecd"} => pc = "settings"
        /\ pc' = "cd_boot" => pc = "cdboot"
        /\ pc' \notin {"settings", "cdboot"}
        /\ pc' = "livecd" => ~flag /\ flag' = flag
        /\ pc' = "install" => flag
        /\ pc' = "fix" => pc = "fix_page" /\ fixed
        /\ pc' = "confirm" => pc = "fix_page" /\ ~fixed
        /\ pc' = "uninstall" => pc = "confirm"
        /\ pc' = "reboot" => runTask = "reboot"
    BY <1>1, <1>3, <2>1, WhatFollows DEF Asked, memory
  <2>5. Clean'
    BY <1>1, <1>3, <2>1, <2>4 DEF Clean, LooksClean, InstallsOnlyIfClean, memory
  <2>6. pc' \in Lists => AskedFor(pc')
    BY <1>3, <2>3, <2>4, Sets DEF Asked, Answered, AskedFor
  <2>7. pc' = "confirm" => <<"fix_page", "uninstall">> \in pressed
    BY <2>3, <2>4 DEF Answered
  <2>8. Asked'
    BY <1>1, <1>3, <1>5, <2>1, <2>6, <2>7 DEF Asked, memory
  <2> QED
    BY <1>4, <2>2, <2>5, <2>8 DEF DInv
<1> QED
    BY <1>6, <1>7, <1>8

\* What has been asked for stays so when more is pressed.
LEMMA AskedForMore ==
    ASSUME Asked, UNCHANGED started, pressed \subseteq pressed'
    PROVE  /\ \A l \in Lists : AskedFor(l) => AskedFor(l)'
           /\ ListsAreAskedFor'
<1>1. \A l \in Lists : AskedFor(l) => AskedFor(l)'
    BY Sets DEF AskedFor
<1>2. ToSet(started) \subseteq Lists
    BY LenProperties DEF Asked, ToSet
<1> QED
    BY <1>1, <1>2 DEF ListsAreAskedFor, Asked

\* Only a page, never the progress of a list, has such buttons.
LEMMA PressedOnPage ==
    ASSUME DInv, NEW page, NEW button, Press(page, button), page # "progress"
    PROVE  /\ stack # <<>> /\ keep /\ ~quitting /\ ~wmQuit
           /\ pc \in Pages /\ pc \notin Lists /\ list # "running"
           /\ Here = page /\ Inside(page)
           /\ pressed' = pressed \cup {<<page, button>>}
<1>1. /\ Takes /\ Here = page /\ Inside(page) /\ pressed' = pressed \cup {<<page, button>>}
    BY DEF DInv, Press, InnermostOfPage
<1>2. pc \notin Running
    BY <1>1, Sets DEF Inside
<1>3. pc \in Pages /\ list # "running"
    BY <1>1, <1>2 DEF DInv, Place, Takes
<1>4. pc \notin Lists
    BY <1>3, Sets
<1> QED
    BY <1>1, <1>3, <1>4 DEF Takes, DInv, Place

LEMMA StopKeeps ==
    ASSUME DInv, Stop
    PROVE  DInv'
<1>1. PICK b \in Stops :
         /\ Press(b[1], b[2])
         /\ keep' = FALSE
         /\ runTask' = TaskOf(b)
         /\ flag' = (flag /\ b[1] # "accessibility")
         /\ fixed' = IF b[1] = "fix_page" THEN b[2] = "fix" ELSE fixed
         /\ info' = IF b = <<"fix_page", "uninstall">> THEN [info EXCEPT !.needfix = FALSE] ELSE info
         /\ UNCHANGED <<pc, stack, quitting, wmQuit, frontend, before, list, started>>
    BY DEF Stop
<1>2. b[1] # "progress" /\ b = <<b[1], b[2]>>
    BY DEF Stops
<1>3. /\ stack # <<>> /\ keep /\ ~quitting /\ ~wmQuit
      /\ pc \in Pages /\ pc \notin Lists /\ list # "running"
      /\ Here = b[1] /\ Inside(b[1])
      /\ pressed' = pressed \cup {b}
    BY <1>1, <1>2, PressedOnPage
<1>4. Asked /\ Clean /\ Place
    BY DEF DInv
<1>5. Place'
    BY <1>1, <1>3, <1>4 DEF Place
<1>6. InnermostOfPage'
    BY <1>1 DEF InnermostOfPage, Takes
<1>7. info' \in Infos /\ info'.found = info.found /\ info'.previous = info.previous
    BY <1>1, <1>4, ClearNeedfix DEF Clean
<1>8. Clean'
    BY <1>1, <1>3, <1>4, <1>7 DEF Clean, LooksClean, InstallsOnlyIfClean
<1>9. /\ \A l \in Lists : AskedFor(l) => AskedFor(l)'
      /\ ListsAreAskedFor'
    BY <1>1, <1>3, <1>4, AskedForMore
<1>10. /\ runTask' \in RunTask \cup {None}
       /\ runTask' = "reboot" => AskedFor("reboot")'
  <2>1. TaskOf(b) \in RunTask \cup {None}
    BY <1>4 DEF Asked, TaskOf, RunTask
  <2>2. TaskOf(b) = "reboot" => runTask = "reboot" \/ b \in {<<"install_finish", "reboot">>, <<"fix_finish", "reboot">>}
    BY DEF TaskOf, Stops
  <2>3. CASE runTask = "reboot"
    BY <1>1, <1>4, <1>9, <2>1, <2>3, Sets DEF Asked
  <2>4. CASE b \in {<<"install_finish", "reboot">>, <<"fix_finish", "reboot">>}
    BY <1>1, <1>3, <2>1, <2>4 DEF AskedFor
  <2> QED
    BY <1>1, <2>1, <2>2, <2>3, <2>4
<1>11. Answered'
  <2>1. pc' = pc /\ b \in pressed'
    BY <1>1, <1>3
  <2>2. CASE pc = "settings"
    <3>1. b \in {<<"settings", "install">>, <<"accessibility", "install">>}
      BY <1>3, <2>2, Sets DEF Inside, Stops
    <3>2. CASE b = <<"settings", "install">>
      BY <2>1, <2>2, <3>2 DEF Answered
    <3>3. CASE b = <<"accessibility", "install">>
      <4>1. b[1] = "accessibility"
        BY <3>3
      <4>2. ~flag'
        BY <1>1, <4>1
      <4> QED
        BY <2>1, <2>2, <4>2 DEF Answered
    <3> QED
      BY <3>1, <3>2, <3>3
  <2>3. CASE pc = "cdboot"
    BY <1>3, <2>1, <2>3, Sets DEF Answered, Inside, Stops
  <2>4. CASE pc = "fix_page"
    <3>1. b \in {<<"fix_page", "fix">>, <<"fix_page", "uninstall">>}
      BY <1>3, <2>4, Sets DEF Inside, Stops
    <3>2. CASE b = <<"fix_page", "fix">>
      <4>1. b[1] = "fix_page" /\ b[2] = "fix"
        BY <3>2
      <4>2. fixed'
        BY <1>1, <4>1
      <4> QED
        BY <2>1, <2>4, <3>2, <4>2 DEF Answered
    <3>3. CASE b = <<"fix_page", "uninstall">>
      <4>1. b[1] = "fix_page" /\ b[2] # "fix"
        BY <3>3
      <4>2. ~fixed'
        BY <1>1, <4>1
      <4> QED
        BY <2>1, <2>4, <3>3, <4>2 DEF Answered
    <3> QED
      BY <3>1, <3>2, <3>3
  <2>5. CASE pc = "confirm"
    BY <1>3, <2>1, <2>5, Sets DEF Answered, Inside, Stops
  <2>6. CASE pc \notin {"settings", "cdboot", "fix_page", "confirm"}
    BY <2>1, <2>6 DEF Answered
  <2> QED
    BY <2>2, <2>3, <2>4, <2>5, <2>6
<1>12. Asked'
  <2>1. flag' \in BOOLEAN /\ fixed' \in BOOLEAN
    BY <1>1, <1>4 DEF Asked
  <2>2. ~flag' => <<"accessibility", "install">> \in pressed'
    BY <1>1, <1>3, <1>4 DEF Asked, Stops
  <2> QED
    BY <1>1, <1>3, <1>4, <1>9, <1>10, <1>11, <2>1, <2>2 DEF Asked
<1> QED
    BY <1>5, <1>6, <1>8, <1>12 DEF DInv

LEMMA ShowInsideKeeps ==
    ASSUME DInv, ShowInside
    PROVE  DInv'
<1>1. PICK s \in Shows :
         /\ Press(s[1], s[2])
         /\ stack' = Append(stack, s[3]) /\ keep' = TRUE
         /\ UNCHANGED <<pc, quitting, wmQuit, memory, list, started>>
    BY DEF ShowInside
<1>2. s[1] # "progress" /\ s[3] \in AllPages
    BY Sets DEF Shows
<1>3. /\ stack # <<>> /\ keep /\ ~quitting /\ ~wmQuit
      /\ pc \in Pages /\ pc \notin Lists /\ list # "running"
      /\ Here = s[1] /\ Inside(s[1])
      /\ pressed' = pressed \cup {<<s[1], s[2]>>}
    BY <1>1, <1>2, PressedOnPage
<1>4. Asked /\ Clean /\ Place
    BY DEF DInv
<1>5. stack' \in Seq(AllPages) /\ stack' # <<>> /\ Last(stack') = s[3]
    BY <1>1, <1>2, <1>4, AppendToStack DEF Place
<1>6. Place'
    BY <1>1, <1>3, <1>4, <1>5 DEF Place
<1>7. Inside(s[3])
    BY <1>3, Sets DEF Inside, Shows
<1>8. InnermostOfPage'
    BY <1>1, <1>5, <1>7 DEF InnermostOfPage, Inside, Here
<1>9. Clean'
    BY <1>1, <1>3, <1>4 DEF Clean, LooksClean, InstallsOnlyIfClean, memory
<1>10. /\ \A l \in Lists : AskedFor(l) => AskedFor(l)'
       /\ ListsAreAskedFor'
    BY <1>1, <1>3, <1>4, AskedForMore
<1>11. Asked'
  <2>1. "reboot" \in Lists
    BY Sets
  <2> QED
    BY <1>1, <1>3, <1>4, <1>10, <2>1 DEF Asked, memory
<1> QED
    BY <1>6, <1>8, <1>9, <1>11 DEF DInv

LEMMA CancelKeeps ==
    ASSUME DInv, Cancel
    PROVE  DInv'
<1>1. /\ Takes /\ quitting' = TRUE
      /\ UNCHANGED <<memory, list, started, pressed>>
      /\ \/ pc' = "exited" /\ stack' = <<>> /\ wmQuit' = FALSE
         \/ pc' = pc /\ stack' = stack /\ wmQuit' = TRUE
    BY DEF Cancel, Destroy
<1>2. Asked /\ Clean /\ Place
    BY DEF DInv
<1>3. Place'
    BY <1>1, <1>2, EmptySeq DEF Place, Takes, Leaving
<1>4. InnermostOfPage'
    BY <1>1 DEF InnermostOfPage, Takes
<1>5. Clean'
    BY <1>1, <1>2 DEF Clean, LooksClean, InstallsOnlyIfClean, memory, Takes
<1>6. /\ \A l : AskedFor(l)' <=> AskedFor(l)
      /\ ListsAreAskedFor' /\ started' \in Seq(Lists)
    BY <1>1, <1>2, AskedStays
<1>7. "exited" \notin Lists
    BY Sets
<1>8. Asked'
    BY <1>1, <1>2, <1>6, <1>7 DEF Asked, memory
<1> QED
    BY <1>3, <1>4, <1>5, <1>8 DEF DInv

LEMMA ListEndsKeeps ==
    ASSUME DInv, ListEnds
    PROVE  DInv'
<1>1. /\ list = "running" /\ stack # <<>> /\ list' # "running" /\ keep' = FALSE
      /\ UNCHANGED <<pc, stack, quitting, wmQuit, memory, started, pressed>>
    BY DEF ListEnds
<1>2. Asked /\ Clean /\ Place
    BY DEF DInv
<1>3. pc \in Running
    BY <1>1, <1>2 DEF Place
<1>4. Place' /\ InnermostOfPage' /\ Clean'
    BY <1>1, <1>2 DEF Place, InnermostOfPage, Takes, Clean, LooksClean, InstallsOnlyIfClean, memory
<1>5. /\ \A l : AskedFor(l)' <=> AskedFor(l)
      /\ ListsAreAskedFor' /\ started' \in Seq(Lists)
    BY <1>1, <1>2, AskedStays
<1>6. Answered'
    BY <1>1, <1>3, Sets DEF Answered
<1>7. Asked'
    BY <1>1, <1>2, <1>5, <1>6 DEF Asked, memory
<1> QED
    BY <1>4, <1>7 DEF DInv

LEMMA NothingKeeps ==
    ASSUME DInv, UNCHANGED dvars
    PROVE  DInv'
<1> USE DEF DInv, dvars, shown, memory
<1>1. Place' /\ Clean'
    BY DEF Place, Clean, LooksClean, InstallsOnlyIfClean
<1>2. InnermostOfPage'
    BY DEF InnermostOfPage, Takes, Here, Inside
<1>3. Answered' <=> Answered
    BY DEF Answered
<1>4. Asked'
    BY <1>3, AskedStays DEF Asked
<1> QED
    BY <1>1, <1>2, <1>4

LEMMA StepKeeps == DInv /\ [Next]_dvars => DInv'
<1> SUFFICES ASSUME DInv, [Next]_dvars PROVE DInv'
    OBVIOUS
<1> USE DEF Next, Main, Between
<1>1. CASE Between
    BY <1>1, BetweenKeeps
<1>2. CASE Reboot
    BY <1>2, RebootKeeps
<1>3. CASE ShowPage
    BY <1>3, ShowPageKeeps
<1>4. CASE RunTasks
    BY <1>4, RunTasksKeeps
<1>5. CASE LeaveLoop
    BY <1>5, LeaveLoopKeeps
<1>6. CASE Stop
    BY <1>6, StopKeeps
<1>7. CASE ShowInside
    BY <1>7, ShowInsideKeeps
<1>8. CASE Cancel
    BY <1>8, CancelKeeps
<1>9. CASE ListEnds
    BY <1>9, ListEndsKeeps
<1>10. CASE UNCHANGED dvars
    BY <1>10, NothingKeeps
<1> QED
    BY <1>1, <1>2, <1>3, <1>4, <1>5, <1>6, <1>7, <1>8, <1>9, <1>10

-----------------------------------------------------------------------------

\* The main thread, its loops and the answers given stay together as DInv says.
THEOREM Together == Spec => []DInv
<1>1. Init => DInv
    BY InitHolds
<1>2. DInv /\ [Next]_dvars => DInv'
    BY StepKeeps
<1> QED
    BY <1>1, <1>2, PTL DEF Spec

\* Whatever was nested in whatever, run_installer and run_cd_boot start no
\* installation beside an earlier one that their last look found.
THEOREM InstallsOnCleanHost == Spec => []InstallsOnlyIfClean
<1>1. DInv => InstallsOnlyIfClean
    BY DEF DInv, Clean
<1> QED
    BY <1>1, Together, PTL

\* No list of tasks is started that its page has not been answered for.
THEOREM NothingUnasked == Spec => []ListsAreAskedFor
<1>1. DInv => ListsAreAskedFor
    BY DEF DInv, Asked
<1> QED
    BY <1>1, Together, PTL

\* Nor any after the application has quit, though its exit be swallowed.
THEOREM QuitMeansNoMore == Spec => NothingStartsAfterQuit
<1>1. DInv /\ [Next]_dvars => [started' # started => ~quitting]_dvars
  <2> SUFFICES ASSUME DInv, Next, started' # started
               PROVE  ~quitting
    OBVIOUS
  <2>1. CASE Reboot
    BY <2>1, RebootKeeps
  <2>2. CASE RunTasks
    BY <2>2, RunTasksKeeps
  <2>3. CASE Between
    BY <2>3, BetweenPages DEF Quiet
  <2> QED
    BY <2>1, <2>2, <2>3 DEF Next, Main, Between, ShowPage, LeaveLoop, Stop, ShowInside, Cancel, ListEnds
<1> QED
    BY <1>1, Together, PTL DEF Spec, NothingStartsAfterQuit

-----------------------------------------------------------------------------
(* The order of the lists                                                   *)

\* What one process can have started: an uninstallation or not, then one list
\* that installs or not, then a reboot or not.
Short == {<<>>, <<"uninstall">>}
Long == {Append(s, l) : s \in Short, l \in Installing}
Full == Short \cup Long \cup {Append(s, "reboot") : s \in Short \cup Long}

\* How far the main thread can have come by then.
Early == {"select", "run_cd_menu", "menu", "run_installer", "run_cd_boot",
          "run_uninstaller", "fix_page", "confirm"}
History ==
    /\ started \in Full
    /\ pc \in Early \/ (pc = "uninstall" /\ stack = <<>>) => started = <<>>
    /\ (pc = "uninstall" /\ stack # <<>>) \/ pc \in {"uninstalled", "uninstall_finish"}
          => started = <<"uninstall">>
    /\ pc \in {"again", "settings", "cdboot"} \/ (pc \in Installing /\ stack = <<>>)
          => started \in Short
    /\ pc \in Installing \cup {"install_finish", "fix_finish", "reboot"}
          => started \in Short \cup Long

LEMMA Histories ==
    /\ Short \subseteq Full /\ Long \subseteq Full /\ <<>> \in Short /\ <<"uninstall">> \in Short
    /\ Append(<<>>, "uninstall") = <<"uninstall">>
    /\ \A s \in Short, l \in Installing : Append(s, l) \in Long
    /\ \A s \in Short \cup Long : Append(s, "reboot") \in Full
BY DEF Short, Long, Full

\* One more entry, written out.
LEMMA Written ==
    \A a, b, l \in Lists : /\ Append(<<>>, l) = <<l>>
                           /\ Append(<<a>>, l) = <<a, l>>
                           /\ Append(<<a, b>>, l) = <<a, b, l>>
<1> SUFFICES ASSUME NEW a \in Lists, NEW b \in Lists, NEW l \in Lists
             PROVE  /\ Append(<<>>, l) = <<l>>
                    /\ Append(<<a>>, l) = <<a, l>>
                    /\ Append(<<a, b>>, l) = <<a, b, l>>
    BY Zenon
<1>1. /\ <<>> \in Seq(Lists) /\ <<a>> \in Seq(Lists) /\ <<a, b>> \in Seq(Lists)
      /\ <<l>> \in Seq(Lists) /\ <<a, l>> \in Seq(Lists) /\ <<a, b, l>> \in Seq(Lists)
    OBVIOUS
<1>2. Append(<<>>, l) = <<l>>
    OBVIOUS
<1>3. Append(<<a>>, l) = <<a, l>>
  <2> DEFINE s == Append(<<a>>, l)  t == <<a, l>>
  <2>1. s \in Seq(Lists) /\ Len(s) = 2 /\ s[1] = a /\ s[2] = l
    BY <1>1
  <2>2. t \in Seq(Lists) /\ Len(t) = 2 /\ t[1] = a /\ t[2] = l
    BY <1>1
  <2> HIDE DEF s, t
  <2>3. \A i \in 1 .. Len(s) : s[i] = t[i]
    BY <2>1, <2>2
  <2>4. s = t
    BY <2>1, <2>2, <2>3, SeqEqual
  <2> QED BY <2>4 DEF s, t
<1>4. Append(<<a, b>>, l) = <<a, b, l>>
  <2> DEFINE s == Append(<<a, b>>, l)  t == <<a, b, l>>
  <2>1. s \in Seq(Lists) /\ Len(s) = 3 /\ s[1] = a /\ s[2] = b /\ s[3] = l
    BY <1>1
  <2>2. t \in Seq(Lists) /\ Len(t) = 3 /\ t[1] = a /\ t[2] = b /\ t[3] = l
    BY <1>1
  <2> HIDE DEF s, t
  <2>3. \A i \in 1 .. Len(s) : s[i] = t[i]
    BY <2>1, <2>2
  <2>4. s = t
    BY <2>1, <2>2, <2>3, SeqEqual
  <2> QED BY <2>4 DEF s, t
<1> QED
    BY <1>2, <1>3, <1>4

\* What is started in such an order is one of each.
LEMMA InOrder == started \in Full => OneOfEach
<1> SUFFICES ASSUME started \in Full, NEW i \in DOMAIN started, NEW j \in DOMAIN started, i < j
             PROVE  Rank(started[i]) < Rank(started[j])
    BY DEF OneOfEach
<1>1. /\ Rank("uninstall") = 1 /\ Rank("reboot") = 3 /\ \A l \in Installing : Rank(l) = 2
    BY DEF Rank, Installing
<1>2. ASSUME NEW a, NEW b, started = <<a, b>>, Rank(a) < Rank(b) PROVE Rank(started[i]) < Rank(started[j])
  <2>1. i = 1 /\ j = 2
    BY <1>2
  <2> QED BY <1>2, <2>1
<1>3. ASSUME NEW l \in Installing, started = <<"uninstall", l, "reboot">>
      PROVE  Rank(started[i]) < Rank(started[j])
  <2>1. (i = 1 /\ j = 2) \/ (i = 1 /\ j = 3) \/ (i = 2 /\ j = 3)
    BY <1>3
  <2> QED BY <1>1, <1>3, <2>1
<1>4. CASE started = <<>> \/ \E a : started = <<a>>
    BY <1>4
<1>5. \/ started = <<>> \/ \E a : started = <<a>>
      \/ \E l \in Installing : started \in {<<"uninstall", l>>, <<l, "reboot">>, <<"uninstall", l, "reboot">>}
      \/ started = <<"uninstall", "reboot">>
  <2>0. "uninstall" \in Lists /\ "reboot" \in Lists /\ Installing \subseteq Lists
    BY DEF Lists
  <2>1. ASSUME NEW l \in Lists
        PROVE  Append(<<>>, l) = <<l>> /\ Append(<<"uninstall">>, l) = <<"uninstall", l>>
    BY <2>0, Written
  <2>2. ASSUME NEW l \in Installing
        PROVE  /\ Append(<<l>>, "reboot") = <<l, "reboot">>
               /\ Append(<<"uninstall", l>>, "reboot") = <<"uninstall", l, "reboot">>
    BY <2>0, Written
  <2>3. \A s \in Short : s = <<>> \/ s = <<"uninstall">>
    BY DEF Short
  <2>4. \A s \in Long : \E l \in Installing : s = <<l>> \/ s = <<"uninstall", l>>
    <3>1. \A s \in Short, l \in Installing : Append(s, l) = <<l>> \/ Append(s, l) = <<"uninstall", l>>
      BY <2>1, <2>3, <2>0
    <3>2. \A t \in Long : \E s \in Short, l \in Installing : t = Append(s, l)
      BY DEF Long
    <3> QED BY <3>1, <3>2, Zenon
  <2>5. CASE started \in Short
    BY <2>3, <2>5
  <2>6. CASE started \in Long
    BY <2>4, <2>6
  <2>7. ASSUME NEW s \in Short, started = Append(s, "reboot")
        PROVE  started = <<"reboot">> \/ started = <<"uninstall", "reboot">>
    BY <2>1, <2>3, <2>7, <2>0
  <2>8. ASSUME NEW s \in Long, started = Append(s, "reboot")
        PROVE  \E l \in Installing : started \in {<<l, "reboot">>, <<"uninstall", l, "reboot">>}
    BY <2>2, <2>4, <2>8
  <2> QED
    BY <2>5, <2>6, <2>7, <2>8 DEF Full
<1> QED
    BY <1>1, <1>2, <1>3, <1>4, <1>5

\* A step that starts nothing and goes where the order allows.
LEMMA HistoryStays ==
    ASSUME History, started' = started,
           \/ pc' = pc /\ (stack' = <<>> <=> stack = <<>>)
           \/ pc' \notin Early \cup Lists \cup {"again", "settings", "cdboot", "uninstalled",
                                                "uninstall_finish", "install_finish", "fix_finish"}
    PROVE  History'
BY Histories, Sets DEF History, Early, Installing

LEMMA HistoryBetween == ASSUME DInv, History, Between PROVE History'
<1>1. stack' = <<>> /\ started' = started
    BY BetweenPages DEF Quiet
<1>2. Return \in {"again", "quit"}
    BY DEF Return
<1>3. CASE NoCd \/ QuitAtEnd \/ NoIsoToFixFrom
  <2>1. pc' \in {"over", "exited"}
    BY <1>3 DEF NoCd, QuitAtEnd, NoIsoToFixFrom, Quit, Destroy, Goto
  <2> QED BY <1>1, <2>1, HistoryStays, Sets DEF Early
<1>4. CASE SelectTask
  <2>1. started = <<>> /\ pc' \in {"run_installer", "run_cd_boot", "run_uninstaller", "quit", "reboot", "run_cd_menu"}
    BY <1>4, SelectTaskLeads DEF History, Early, SelectTask
  <2> QED BY <1>1, <2>1, Histories DEF History, Early, Installing
<1>5. CASE RunCdMenu
  <2>1. started = <<>> /\ pc' \in {"menu", "over", "exited"}
    BY <1>5 DEF History, Early, RunCdMenu, Destroy, Goto
  <2> QED BY <1>1, <2>1, Histories DEF History, Early, Installing
<1>6. CASE RunInstaller
  <2>1. started = <<>> /\ pc' \in {"run_uninstaller", "cdboot", "settings"}
    BY <1>6 DEF History, Early, RunInstaller, SettingsPage, Goto
  <2> QED BY <1>1, <2>1, Histories DEF History, Early, Installing
<1>7. CASE NothingToUninstall \/ RunPreviousUninstaller
  <2>1. started = <<>> /\ pc' \in {"again", "quit", "exited"}
    BY <1>2, <1>7 DEF History, Early, NothingToUninstall, RunPreviousUninstaller, Quit, Destroy, Goto
  <2> QED BY <1>1, <2>1, Histories DEF History, Early, Installing
<1>8. CASE ShowFixSettings
  <2>1. started = <<>> /\ pc' = "fix_page"
    BY <1>8 DEF History, Early, ShowFixSettings, Goto
  <2> QED BY <1>1, <2>1, Histories DEF History, Early, Installing
<1>9. CASE Uninstalled
  <2>1. started = <<"uninstall">>
    BY <1>9 DEF History, Uninstalled
  <2>2. pc' \in {"again", "quit", "exited", "uninstall_finish"}
    BY <1>2, <1>9 DEF Uninstalled, Quit, Destroy, Goto
  <2> QED BY <1>1, <2>1, <2>2, Histories DEF History, Early, Installing
<1>10. CASE LookAgain
  <2>1. started \in Short
    BY <1>10 DEF History, LookAgain
  <2>2. pc' \in {"settings", "cdboot", "exited"}
    BY <1>10 DEF LookAgain, SettingsPage, Quit, Destroy, Goto
  <2> QED BY <1>1, <2>1, <2>2, Histories DEF History, Early, Installing
<1> QED
    BY <1>3, <1>4, <1>5, <1>6, <1>7, <1>8, <1>9, <1>10 DEF Between

LEMMA HistoryLeave == ASSUME DInv, History, LeaveLoop PROVE History'
<1>1. /\ stack \in Seq(AllPages) /\ stack # <<>> /\ pc \in Pages \cup Running
      /\ stack' = Front(stack) /\ started' = started /\ pc' = Left
    BY DEF DInv, Place, LeaveLoop
<1>2. CASE Len(stack) > 1
  <2>1. pc' = pc /\ stack' # <<>>
    BY <1>1, <1>2, FrontOfStack DEF Left
  <2> QED BY <1>1, <2>1, HistoryStays
<1>3. CASE ~(Len(stack) > 1) /\ pc' = "over"
    BY <1>1, <1>3, HistoryStays, Sets DEF Early
<1>4. CASE ~(Len(stack) > 1) /\ pc' = After
  <2>1. stack' = <<>>
    BY <1>1, <1>4, FrontOfStack
  <2> USE <1>1, <1>4, <2>1, Histories DEF History, Early, Installing
  <2>2. CASE pc \in {"menu", "fix_page", "confirm"}
    <3>1. started = <<>> /\ pc' \in {"select", "fix", "confirm", "uninstall"}
      BY <2>2 DEF After, AfterFixPage
    <3> QED BY <3>1
  <2>3. CASE pc \in {"settings", "cdboot"}
    <3>1. started \in Short /\ pc' \in {"install", "livecd", "cd_boot"}
      BY <2>3 DEF After
    <3> QED BY <3>1
  <2>4. CASE pc \in {"install", "livecd", "cd_boot", "fix", "install_finish", "fix_finish"}
    <3>1. started \in Short \cup Long
      BY <2>4
    <3>2. pc' \in {"install_finish", "fix_finish", "reboot", "quit"}
      BY <2>4 DEF After, AfterFix
    <3> QED BY <3>1, <3>2
  <2>5. CASE pc \in {"uninstall", "uninstall_finish"}
    <3>1. started = <<"uninstall">> /\ pc' \in {"uninstalled", "quit"}
      BY <2>5 DEF After
    <3> QED BY <3>1
  <2> QED BY <2>2, <2>3, <2>4, <2>5, Sets
<1> QED
    BY <1>1, <1>2, <1>3, <1>4 DEF Left

\* One process uninstalls at most once, then installs or fixes at most once, then
\* reboots, however its pages are nested.
THEOREM OneListOfEach == Spec => []OneOfEach
<1>1. Init => History
  <2> SUFFICES ASSUME Init PROVE History
    OBVIOUS
  <2> QED BY Histories DEF Init, History, Installing
<1>2. DInv /\ History /\ [Next]_dvars => History'
  <2> SUFFICES ASSUME DInv, History, [Next]_dvars PROVE History'
    OBVIOUS
  <2>1. CASE Reboot
    <3>1. started \in Short \cup Long /\ started' = Append(started, "reboot") /\ pc' = "quit"
      BY <2>1 DEF Reboot, History
    <3> QED BY <3>1, Histories DEF History, Early, Installing
  <2>2. CASE ShowPage
    <3>1. pc \in Pages /\ started' = started /\ (pc' = "over" \/ pc' = pc)
      BY <2>2 DEF ShowPage, RunLoop
    <3> QED BY <3>1, Histories, Sets DEF History, Early, Installing
  <2>3. CASE RunTasks
    <3>1. /\ pc \in Installing \cup {"uninstall"} /\ stack = <<>> /\ started' = Append(started, pc)
          /\ pc' = "over" \/ (pc' = pc /\ stack' = Append(stack, "progress"))
      BY <2>3, Sets DEF RunTasks, RunLoop, Installing
    <3>2. Append(<<>>, "progress") # <<>>
      OBVIOUS
    <3>3. CASE pc = "uninstall"
      BY <3>1, <3>2, <3>3, Histories DEF History, Early, Installing
    <3>4. CASE pc \in Installing
      <4>1. started' \in Long
        BY <3>1, <3>4, Histories DEF History
      <4> QED BY <3>1, <3>2, <3>4, <4>1, Histories DEF History, Early, Installing
    <3> QED BY <3>1, <3>3, <3>4
  <2>4. CASE Stop \/ ListEnds \/ UNCHANGED dvars
    BY <2>4, HistoryStays DEF Stop, ListEnds, dvars, shown
  <2>5. CASE ShowInside
    <3>1. stack \in Seq(AllPages) /\ stack # <<>>
      BY <2>5 DEF DInv, Place, ShowInside, Press, Takes
    <3>2. PICK q : stack' = Append(stack, q)
      BY <2>5 DEF ShowInside
    <3>3. stack' # <<>>
      BY <3>1, <3>2
    <3> QED BY <2>5, <3>1, <3>3, HistoryStays DEF ShowInside
  <2>6. CASE Cancel
    <3>1. started' = started /\ (pc' = "exited" \/ (pc' = pc /\ stack' = stack))
      BY <2>6 DEF Cancel, Destroy
    <3> QED BY <3>1, HistoryStays, Sets DEF Early
  <2> QED
    BY <2>1, <2>2, <2>3, <2>4, <2>5, <2>6, HistoryBetween, HistoryLeave DEF Next, Main, Between
<1>3. History => OneOfEach
    BY InOrder DEF History
<1> QED
    BY <1>1, <1>2, <1>3, Together, PTL DEF Spec

-----------------------------------------------------------------------------
(* Types                                                                    *)

\* The loop that is left is the last.
LEMMA FrontIsShorter ==
    ASSUME NEW S, NEW s \in Seq(S), s # <<>>, Len(s) <= MaxDepth
    PROVE  Len(Front(s)) <= MaxDepth
<1>1. Len(s) \in Nat \ {0}
    BY EmptySeq
<1>2. \A i \in 1 .. Len(s) - 1 : s[i] \in S
    BY <1>1, LenProperties
<1>3. Len(SubSeq(s, 1, Len(s) - 1)) = IF 1 <= Len(s) - 1 THEN Len(s) - 1 - 1 + 1 ELSE 0
    BY <1>1, <1>2, SubSeqProperties
<1> QED
    BY <1>1, <1>3, MaxDepthAssumption DEF Front

\* A page and its button.
LEMMA Answers ==
    /\ \A b \in Stops : <<b[1], b[2]>> \in Buttons
    /\ \A x \in Shows : <<x[1], x[2]>> \in Buttons
<1>1. \A b \in Stops : <<b[1], b[2]>> = b
    BY DEF Stops
<1> QED
    BY <1>1 DEF Buttons

\* What an action between two pages does to the types.
LEMMA BetweenTypes == ASSUME DInv, TypeOK, Between PROVE TypeOK'
<1>1. /\ stack' = <<>> /\ stack = <<>> /\ Len(<<>>) <= MaxDepth
      /\ list' = list /\ started' = started /\ pressed' = pressed
      /\ flag' = flag /\ fixed' = fixed /\ runTask' = runTask /\ keep' = keep
    BY BetweenPages, MaxDepthAssumption DEF Quiet
<1>2. ASSUME pc' \in Places \cup Pages \cup Lists, quitting' \in BOOLEAN, wmQuit' \in BOOLEAN,
             frontend' \in BOOLEAN, before' \in BOOLEAN, info' \in Infos
      PROVE  TypeOK'
    BY <1>1, <1>2 DEF TypeOK
<1>3. ASSUME NEW place, Goto(place), place \in Places \cup Pages \cup Lists
      PROVE  pc' \in Places \cup Pages \cup Lists /\ quitting' \in BOOLEAN /\ wmQuit' \in BOOLEAN
    BY <1>3 DEF Goto, TypeOK
<1>4. ASSUME NEW place, Quit(place) \/ Destroy(place), place \in Places \cup Pages \cup Lists
      PROVE  pc' \in Places \cup Pages \cup Lists /\ quitting' \in BOOLEAN /\ wmQuit' \in BOOLEAN
    BY <1>4 DEF Quit, Destroy, TypeOK, Places
<1>5. frontend \in BOOLEAN /\ before \in BOOLEAN /\ info \in Infos
    BY DEF TypeOK
<1>6. info.there => [info EXCEPT !.previous = TRUE] \in Infos
    BY <1>5, SetPrevious
<1>7. {"again", "quit", "over", "settings", "cdboot", "menu", "run_uninstaller", "run_cd_menu",
       "run_installer", "run_cd_boot", "reboot", "fix_page", "uninstall_finish"}
        \subseteq Places \cup Pages \cup Lists /\ Return \in {"again", "quit"}
    BY Sets DEF Places, Return
<1>8. CASE SelectTask
  <2>1. pc' \in Places \cup Pages \cup Lists
    BY <1>7, <1>8, SelectTaskLeads
  <2>2. UNCHANGED <<quitting, wmQuit, memory>>
    BY <1>8 DEF SelectTask, Goto
  <2> QED BY <1>2, <1>5, <2>1, <2>2 DEF memory, TypeOK
<1>9. CASE RunCdMenu
  <2>1. UNCHANGED <<info, before>> /\ frontend' = TRUE /\ (Goto("menu") \/ Destroy("over"))
    BY <1>9 DEF RunCdMenu
  <2> QED BY <1>2, <1>3, <1>4, <1>5, <1>7, <2>1
<1>10. CASE RunInstaller
  <2>1. UNCHANGED info /\ before' = OldFound(info) /\ frontend' = (frontend \/ ~OldFound(info))
        /\ \E p \in {"run_uninstaller", "cdboot", "settings"} : Goto(p)
    BY <1>10 DEF RunInstaller, SettingsPage
  <2>2. OldFound(info) \in BOOLEAN
    BY <1>5 DEF Infos, OldFound
  <2> QED BY <1>2, <1>3, <1>5, <1>7, <2>1, <2>2
<1>11. CASE LookAgain
  <2>1. /\ before' = FALSE /\ (frontend' = frontend \/ frontend' = TRUE)
        /\ info' \in Infos
        /\ \E p \in {"cdboot", "settings"} : Goto(p) \/ Quit(p)
    BY <1>11 DEF LookAgain, SettingsPage
  <2> QED BY <1>2, <1>3, <1>4, <1>5, <1>7, <2>1
<1>12. CASE ShowFixSettings
  <2>1. info' \in Infos /\ before' = before /\ frontend' = TRUE /\ Goto("fix_page")
    BY <1>6, <1>12 DEF ShowFixSettings
  <2> QED BY <1>2, <1>3, <1>5, <1>7, <2>1
<1>13. CASE NoCd \/ NothingToUninstall \/ RunPreviousUninstaller \/ Uninstalled \/ QuitAtEnd \/ NoIsoToFixFrom
  <2>1. /\ info' \in Infos /\ UNCHANGED <<before, frontend>>
        /\ \E p \in {"over", "again", "quit", "uninstall_finish"} : Goto(p) \/ Quit(p)
    BY <1>5, <1>6, <1>7, <1>13 DEF NoCd, NothingToUninstall, RunPreviousUninstaller, Uninstalled, QuitAtEnd,
                       NoIsoToFixFrom, memory
  <2> QED BY <1>2, <1>3, <1>4, <1>5, <1>7, <2>1
<1> QED
    BY <1>8, <1>9, <1>10, <1>11, <1>12, <1>13 DEF Between

\* Every variable keeps its type, and no more loops are nested than the bound
\* allows.
THEOREM DispatcherTypes == Spec => []TypeOK
<1>1. Init => TypeOK
  <2> SUFFICES ASSUME Init PROVE TypeOK
    OBVIOUS
  <2>1. Len(<<>>) <= MaxDepth
    BY MaxDepthAssumption
  <2>2. <<>> \in Seq(AllPages) /\ <<>> \in Seq(Lists)
    OBVIOUS
  <2>3. runTask \in RunTask \cup {None} /\ "select" \in Places
    BY DEF Init, RunTask, Places
  <2> QED BY <2>1, <2>2, <2>3 DEF Init, TypeOK
<1>2. DInv /\ TypeOK /\ [Next]_dvars => TypeOK'
  <2> SUFFICES ASSUME DInv, TypeOK, [Next]_dvars PROVE TypeOK'
    OBVIOUS
  <2> USE Sets DEF TypeOK
  <2>1. CASE Between
    BY <2>1, BetweenTypes
  <2>2. CASE Reboot
    BY <2>2 DEF Reboot, shown, memory, Places
  <2>3. CASE ShowPage \/ RunTasks
    <3>1. PICK page \in Pages \cup {"progress"} : RunLoop(page)
      BY <2>3 DEF ShowPage, RunTasks
    <3>2. stack = <<>> /\ pc \in Pages \cup Lists
      BY <2>3 DEF ShowPage, RunTasks
    <3>3. stack' \in Seq(AllPages) /\ Len(stack') <= MaxDepth
      <4>1. stack' = <<>> \/ stack' = Append(<<>>, page)
        BY <3>1, <3>2 DEF RunLoop
      <4>2. page \in AllPages /\ <<>> \in Seq(AllPages) /\ Len(<<>>) = 0
        OBVIOUS
      <4>3. Append(<<>>, page) \in Seq(AllPages) /\ Len(Append(<<>>, page)) = 1
        BY <4>2
      <4>4. 0 <= MaxDepth /\ 1 <= MaxDepth
        BY MaxDepthAssumption
      <4> QED BY <4>1, <4>2, <4>3, <4>4
    <3>4. started' \in Seq(Lists) /\ list' \in {"none", "running", "done", "failed"}
      <4>1. CASE ShowPage
        BY <4>1 DEF ShowPage
      <4>2. CASE RunTasks
        <5>1. started' = Append(started, pc) /\ pc \in Lists /\ list' = "running"
          BY <4>2 DEF RunTasks
        <5>2. started' \in Seq(Lists)
          BY <5>1, AppendProperties
        <5> QED BY <5>1, <5>2
      <4> QED BY <2>3, <4>1, <4>2
    <3>5. pc' \in Places \cup Pages \cup Lists /\ keep' \in BOOLEAN
      BY <3>1, <3>2 DEF RunLoop, Places
    <3> QED BY <3>1, <3>3, <3>4, <3>5 DEF RunLoop, memory
  <2>5. CASE LeaveLoop
    <3>1. /\ stack # <<>> /\ stack' = Front(stack) /\ wmQuit' = (wmQuit /\ ~keep) /\ pc' = Left
          /\ UNCHANGED <<keep, quitting, memory, list, started, pressed>>
      BY <2>5 DEF LeaveLoop
    <3>2. pc \in Pages \cup Running
      BY <3>1 DEF DInv, Place
    <3>3. After \in Places \cup Pages \cup Lists
      BY <3>2 DEF After, AfterFixPage, AfterFix, Places
    <3>4. pc' \in Places \cup Pages \cup Lists
      BY <3>1, <3>3 DEF Left, Places
    <3>5. Len(stack') <= MaxDepth /\ stack' \in Seq(AllPages)
      BY <3>1, FrontOfStack, FrontIsShorter
    <3> QED BY <3>1, <3>4, <3>5 DEF memory
  <2>6. CASE Stop
    <3>1. PICK b \in Stops : /\ Press(b[1], b[2]) /\ keep' = FALSE /\ runTask' = TaskOf(b)
                             /\ flag' = (flag /\ b[1] # "accessibility")
                             /\ fixed' = IF b[1] = "fix_page" THEN b[2] = "fix" ELSE fixed
                             /\ info' \in {info, [info EXCEPT !.needfix = FALSE]}
      BY <2>6 DEF Stop
    <3>2. runTask' \in RunTask \cup {None}
      BY <3>1 DEF TaskOf, RunTask
    <3>3. info' \in Infos
      BY <3>1, ClearNeedfix
    <3>4. pressed' \subseteq Buttons
      BY <3>1, Answers DEF Press
    <3>5. flag' \in BOOLEAN /\ fixed' \in BOOLEAN
      BY <3>1
    <3> QED BY <2>6, <3>1, <3>2, <3>3, <3>4, <3>5 DEF Stop
  <2>7. CASE ShowInside
    <3>1. PICK x \in Shows : Press(x[1], x[2]) /\ stack' = Append(stack, x[3]) /\ keep' = TRUE
      BY <2>7 DEF ShowInside
    <3>2. Len(stack) < MaxDepth /\ UNCHANGED <<pc, quitting, wmQuit, memory, list, started>>
      BY <2>7 DEF ShowInside
    <3>3. x[3] \in AllPages
      BY DEF Shows
    <3>4. pressed' \subseteq Buttons
      BY <3>1, Answers DEF Press
    <3>5. stack' \in Seq(AllPages) /\ Len(stack') <= MaxDepth
      BY <3>1, <3>2, <3>3, MaxDepthAssumption
    <3> QED BY <3>1, <3>2, <3>4, <3>5 DEF memory
  <2>8. CASE Cancel
    <3>1. /\ quitting' = TRUE /\ wmQuit' \in BOOLEAN /\ keep' \in BOOLEAN
          /\ pc' \in {"exited", pc} /\ stack' \in {<<>>, stack}
          /\ UNCHANGED <<memory, list, started, pressed>>
      BY <2>8 DEF Cancel, Destroy
    <3>2. Len(<<>>) <= MaxDepth /\ <<>> \in Seq(AllPages) /\ "exited" \in Places
      BY MaxDepthAssumption DEF Places
    <3> QED BY <3>1, <3>2 DEF memory
  <2>9. CASE ListEnds
    BY <2>9 DEF ListEnds, memory
  <2>10. CASE UNCHANGED dvars
    BY <2>10 DEF dvars, shown, memory
  <2> QED
    BY <2>1, <2>2, <2>3, <2>5, <2>6, <2>7, <2>8, <2>9, <2>10 DEF Next, Main, Between
<1> QED
    BY <1>1, <1>2, Together, PTL DEF Spec
=============================================================================
