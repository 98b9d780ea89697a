------------------------------- MODULE Dispatcher -------------------------------
(***************************************************************************)
(* application.py and the pages: which task list one process starts, and   *)
(* on whose word.  select_task and what it calls run on the main thread;   *)
(* show_page runs a message loop, and a page that shows another from a     *)
(* handler runs that page's loop inside its own.  All loops share one      *)
(* flag, _keep_running.  Destroying the window calls on_quit, whose        *)
(* sys.exit in a window procedure either ends the process or is swallowed; *)
(* then GetMessage of the innermost loop returns WM_QUIT.  What a list     *)
(* does and how its page ends is the matter of TaskList and RunTasks, what *)
(* an earlier installation is, of Install.                                 *)
(***************************************************************************)
EXTENDS Naturals, Sequences, SequencesExt

CONSTANTS
    MaxDepth,   \* bound: message loops inside each other
    None

\* What --cdboot, --uninstall and the like, or a button, make of info.run_task.
RunTask == {"install", "cd_boot", "uninstall", "cd_menu", "show_info", "reboot"}

ASSUME MaxDepthAssumption == MaxDepth \in Nat \ {0}
ASSUME NoneAssumption == None \notin RunTask

VARIABLES
    pc,        \* where the main thread is
    stack,     \* the pages whose loops run, the innermost last
    keep,      \* frontend._keep_running
    quitting,  \* info.quitting
    wmQuit,    \* WM_QUIT waits in the queue
    frontend,  \* the application has a frontend
    runTask,   \* info.run_task
    info,      \* what fetch_basic_info found
    before,    \* info.uninstall_before_install
    fixed,     \* info.fixed
    flag,      \* info.flag
    list,      \* the running task list: "none", "running", "failed", "done"
    started,   \* the task lists started so far
    pressed    \* the answers given so far: <<page, button>>

shown == <<stack, keep>>
memory == <<frontend, runTask, info, before, fixed, flag>>
dvars == <<pc, shown, quitting, wmQuit, memory, list, started, pressed>>

Installing == {"install", "livecd", "cd_boot", "fix"}
Lists == Installing \cup {"uninstall", "reboot"}
Pages == {"menu", "settings", "cdboot", "fix_page", "confirm", "install_finish",
          "fix_finish", "uninstall_finish"}
AllPages == Pages \cup {"cd_finish", "accessibility", "progress"}
Places == {"select", "run_cd_menu", "run_installer", "run_cd_boot", "run_uninstaller",
           "uninstalled", "again", "quit", "over", "exited"}

\* cd: there is a CD of ours; found: a directory of an earlier installation is on
\* some drive (pre_install_path, pre_install_path2); previous: the key names one
\* or chk_needfix has (previous_target_dir); there: that directory is there, or
\* else the one found; delegates: its uninstaller is another program; needfix: it
\* can be repaired; exe: this is the installed uninstall.exe.
Infos ==
    {i \in [cd : BOOLEAN, found : BOOLEAN, previous : BOOLEAN, there : BOOLEAN,
            delegates : BOOLEAN, needfix : BOOLEAN, exe : BOOLEAN] :
        /\ ~i.previous => i.there = i.found
        /\ i.needfix => i.found /\ i.previous}

Init ==
    /\ pc = "select"
    /\ stack = <<>> /\ keep = FALSE
    /\ quitting = FALSE /\ wmQuit = FALSE
    /\ frontend = FALSE /\ before = FALSE /\ fixed = FALSE /\ flag = TRUE
    /\ runTask \in {None, "install", "cd_boot", "uninstall", "cd_menu"}
    /\ info \in Infos
    /\ list = "none" /\ started = <<>> /\ pressed = {}

-----------------------------------------------------------------------------
(* The window                                                               *)

\* application.on_quit in the window procedure of WM_DESTROY: the process ends,
\* or goes on at the place given.
Destroy(place) ==
    /\ quitting' = TRUE
    /\ \/ pc' = "exited" /\ stack' = <<>> /\ wmQuit' = FALSE
       \/ pc' = place /\ stack' = stack /\ wmQuit' = TRUE

\* Wubi.quit from the main thread: without a frontend it is on_quit, and nothing
\* swallows its sys.exit.
Quit(place) ==
    IF frontend THEN Destroy(place)
    ELSE pc' = "exited" /\ quitting' = TRUE /\ UNCHANGED <<stack, wmQuit>>

-----------------------------------------------------------------------------
(* application.py, between pages                                            *)

Goto(place) == pc' = place /\ UNCHANGED <<shown, quitting, wmQuit, list, started, pressed>>

\* show_info opens a web page.
SelectTask ==
    /\ pc = "select"
    /\ Goto(CASE runTask = "install" -> "run_installer"
              [] runTask = "cd_boot" -> "run_cd_boot"
              [] runTask = "uninstall" -> "run_uninstaller"
              [] runTask = "show_info" -> "quit"
              [] runTask = "reboot" -> "reboot"
              [] runTask \in {None, "cd_menu"} ->
                     IF info.cd \/ runTask = "cd_menu" THEN "run_cd_menu" ELSE "run_installer")
    /\ UNCHANGED memory

RunCdMenu ==
    /\ pc = "run_cd_menu"
    /\ frontend' = TRUE
    /\ IF info.cd THEN Goto("menu")
       ELSE Destroy("over") /\ UNCHANGED <<keep, list, started, pressed>>
    /\ UNCHANGED <<runTask, info, before, fixed, flag>>

NoCd ==
    /\ pc = "run_cd_boot" /\ ~info.cd
    /\ Quit("over")
    /\ UNCHANGED <<keep, memory, list, started, pressed>>

\* run_installer and run_cd_boot do not ask the same question.
OldFound(found) == IF runTask = "cd_boot" THEN found.previous ELSE found.found
SettingsPage == IF runTask = "cd_boot" THEN "cdboot" ELSE "settings"

\* run_installer, run_cd_boot
RunInstaller ==
    /\ pc = "run_installer" \/ (pc = "run_cd_boot" /\ info.cd)
    /\ before' = OldFound(info)
    /\ Goto(IF OldFound(info) THEN "run_uninstaller" ELSE SettingsPage)
    /\ frontend' = (frontend \/ ~OldFound(info))
    /\ UNCHANGED <<runTask, info, fixed, flag>>

\* Where run_uninstaller returns to.
Return == IF before THEN "again" ELSE "quit"

\* A key that names no directory hides the directories found.
NothingToUninstall ==
    /\ pc = "run_uninstaller" /\ ~info.there
    /\ Goto(Return)
    /\ UNCHANGED memory

\* run_previous_uninstaller waits for the other program and quits.
RunPreviousUninstaller ==
    /\ pc = "run_uninstaller" /\ info.there
    /\ info.delegates /\ ~info.needfix /\ ~info.exe
    /\ info' = [info EXCEPT !.previous = TRUE]
    /\ Quit(Return)
    /\ UNCHANGED <<keep, frontend, runTask, before, fixed, flag, list, started, pressed>>

ShowFixSettings ==
    /\ pc = "run_uninstaller" /\ info.there
    /\ ~info.delegates \/ info.needfix \/ info.exe
    /\ info' = [info EXCEPT !.previous = TRUE]
    /\ frontend' = TRUE
    /\ Goto("fix_page")
    /\ UNCHANGED <<runTask, before, fixed, flag>>

\* After the list of an uninstallation; uninstall.exe quits, the finish page is
\* shown if nothing is to be installed.
Uninstalled ==
    /\ pc = "uninstalled"
    /\ IF before /\ info.exe THEN Quit(Return) /\ UNCHANGED <<keep, list, started, pressed>>
       ELSE Goto(IF before THEN "again" ELSE "uninstall_finish")
    /\ UNCHANGED memory

\* slip: what the second look finds is not asked
GoOnAnyhow ==
    /\ pc = "again"
    /\ before' = FALSE /\ frontend' = TRUE
    /\ info' \in {now \in Infos : now.exe = info.exe}
    /\ Goto(SettingsPage)
    /\ UNCHANGED <<runTask, fixed, flag>>

\* fetch_basic_info forgets before; if the earlier installation is still there, a
\* message and quit(), then the page all the same.
LookAgain ==
    /\ pc = "again"
    /\ before' = FALSE
    /\ \E now \in Infos :
          /\ now.exe = info.exe
          /\ info' = now
          /\ IF OldFound(now) THEN Quit(SettingsPage) /\ UNCHANGED <<keep, frontend, list, started, pressed>>
             ELSE Goto(SettingsPage) /\ frontend' = TRUE
    /\ UNCHANGED <<runTask, fixed, flag>>

Reboot ==
    /\ pc = "reboot"
    /\ started' = Append(started, "reboot")
    /\ pc' = "quit"
    /\ UNCHANGED <<shown, quitting, wmQuit, memory, list, pressed>>

\* select_task ends in quit(), run_uninstaller after a fix in on_quit().
QuitAtEnd ==
    /\ pc = "quit"
    /\ Quit("over")
    /\ UNCHANGED <<keep, memory, list, started, pressed>>

-----------------------------------------------------------------------------
(* show_page and Frontend.run                                               *)

\* frontend.run: QuitException if the application is quitting, else the loop.  No
\* page is shown over itself, which show_page would return from at once.
RunLoop(page) ==
    /\ IF quitting THEN pc' = "over" /\ UNCHANGED <<stack, keep>>
       ELSE pc' = pc /\ stack' = Append(stack, page) /\ keep' = TRUE
    /\ UNCHANGED <<quitting, wmQuit, memory, pressed>>

ShowPage ==
    /\ pc \in Pages /\ stack = <<>>
    /\ RunLoop(pc)
    /\ UNCHANGED <<list, started>>

\* run_tasks starts the thread, then shows the progress page.
RunTasks ==
    /\ pc \in Lists \ {"reboot"} /\ stack = <<>>
    /\ list' = "running" /\ started' = Append(started, pc)
    /\ RunLoop("progress")

\* "Could not retrieve the required installation files"
NoIsoToFixFrom ==
    /\ pc = "fix" /\ stack = <<>>
    /\ Goto("over")
    /\ UNCHANGED memory

\* slip: the confirmation is left out
UninstallAtOnce == IF fixed THEN "fix" ELSE "uninstall"
AfterFixPage == IF fixed THEN "fix" ELSE "confirm"
\* slip: a fix returns as an uninstallation does
ReturnAfterFix == IF runTask = "reboot" THEN "reboot" ELSE Return
AfterFix == IF runTask = "reboot" THEN "reboot" ELSE "quit"

\* What the main thread does when a page, or a list that has done its work, is
\* through.
After ==
    CASE pc = "menu" -> "select"
      [] pc = "settings" -> IF flag THEN "install" ELSE "livecd"
      [] pc = "cdboot" -> "cd_boot"
      [] pc = "fix_page" -> AfterFixPage
      [] pc = "confirm" -> "uninstall"
      [] pc \in {"install", "livecd", "cd_boot"} -> "install_finish"
      [] pc = "fix" -> "fix_finish"
      [] pc = "uninstall" -> "uninstalled"
      [] pc = "install_finish" -> IF runTask = "reboot" THEN "reboot" ELSE "quit"
      [] pc = "fix_finish" -> AfterFix
      [] pc = "uninstall_finish" -> "quit"

Left ==
    IF Len(stack) > 1 THEN pc
    ELSE IF quitting \/ list = "failed" THEN "over"
    ELSE After

\* slip: the page behind goes on
LeaveOneLoop ==
    /\ stack # <<>> /\ (~keep \/ wmQuit)
    /\ wmQuit' = (wmQuit /\ ~keep)
    /\ stack' = Front(stack)
    /\ keep' = (Len(stack) > 1)
    /\ pc' = Left
    /\ UNCHANGED <<quitting, memory, list, started, pressed>>
\* slip: whether the application is quitting is not asked
LeaveLoopUnasked ==
    /\ stack # <<>> /\ (~keep \/ wmQuit)
    /\ wmQuit' = (wmQuit /\ ~keep)
    /\ stack' = Front(stack)
    /\ pc' = IF Len(stack) > 1 THEN pc ELSE IF list = "failed" THEN "over" ELSE After
    /\ UNCHANGED <<keep, quitting, memory, list, started, pressed>>

\* slip: GetMessage is asked for an error only
LeaveIfStopped ==
    /\ stack # <<>> /\ ~keep
    /\ stack' = Front(stack)
    /\ pc' = Left
    /\ UNCHANGED <<keep, quitting, wmQuit, memory, list, started, pressed>>

\* The flag is asked first, then GetMessage, which takes WM_QUIT out of the
\* queue.  A QuitException ends up in the handler of the page behind.
LeaveLoop ==
    /\ stack # <<>> /\ (~keep \/ wmQuit)
    /\ wmQuit' = (wmQuit /\ ~keep)
    /\ stack' = Front(stack)
    /\ pc' = Left
    /\ UNCHANGED <<keep, quitting, memory, list, started, pressed>>

-----------------------------------------------------------------------------
(* The pages                                                                *)

Here == Last(stack)
Takes == stack # <<>> /\ keep /\ ~quitting

Press(page, button) ==
    /\ Takes /\ Here = page
    /\ pressed' = pressed \cup {<<page, button>>}

\* Buttons that end the loop with frontend.stop().
Stops == {<<"menu", "wubi">>, <<"menu", "info">>, <<"cd_finish", "cd_boot">>,
          <<"settings", "install">>, <<"accessibility", "install">>, <<"cdboot", "install">>,
          <<"fix_page", "fix">>, <<"fix_page", "uninstall">>, <<"confirm", "uninstall">>,
          <<"install_finish", "later">>, <<"install_finish", "reboot">>,
          <<"fix_finish", "later">>, <<"fix_finish", "reboot">>, <<"uninstall_finish", "finish">>}

\* What they make of info.run_task.
TaskOf(b) ==
    CASE b = <<"menu", "wubi">> -> "install"
      [] b = <<"menu", "info">> -> "show_info"
      [] b = <<"cd_finish", "cd_boot">> -> "cd_boot"
      [] b[2] = "reboot" -> "reboot"
      [] OTHER -> runTask

Stop ==
    \E b \in Stops :
        /\ b = <<"fix_page", "fix">> => info.needfix
        /\ Press(b[1], b[2])
        /\ keep' = FALSE
        /\ runTask' = TaskOf(b)
        /\ flag' = (flag /\ b[1] # "accessibility")
        /\ fixed' = IF b[1] = "fix_page" THEN b[2] = "fix" ELSE fixed
        /\ info' = IF b = <<"fix_page", "uninstall">> THEN [info EXCEPT !.needfix = FALSE] ELSE info
        /\ UNCHANGED <<pc, stack, quitting, wmQuit, frontend, before, list, started>>

\* Buttons that show another page inside this one's loop.
Shows == {<<"menu", "cd_boot", "cd_finish">>, <<"cd_finish", "back", "menu">>,
          <<"settings", "accessibility", "accessibility">>, <<"accessibility", "back", "settings">>}

ShowInside ==
    /\ Len(stack) < MaxDepth
    /\ \E s \in Shows :
          /\ Press(s[1], s[2])
          /\ stack' = Append(stack, s[3]) /\ keep' = TRUE
    /\ UNCHANGED <<pc, quitting, wmQuit, memory, list, started>>

\* Cancel on any page, the close box, and "later" behind the CD menu, which
\* calls stop() besides.
Cancel ==
    /\ Takes
    /\ Destroy(pc)
    /\ keep' = FALSE \/ keep' = keep
    /\ keep' = FALSE => Here = "cd_finish"
    /\ UNCHANGED <<memory, list, started, pressed>>

\* The root of the list is no longer ACTIVE.
ListEnds ==
    /\ list = "running" /\ stack # <<>>
    /\ list' \in {"done", "failed"}
    /\ keep' = FALSE
    /\ UNCHANGED <<pc, stack, quitting, wmQuit, memory, started, pressed>>

Main == \/ SelectTask \/ RunCdMenu \/ NoCd \/ RunInstaller \/ NothingToUninstall
        \/ RunPreviousUninstaller \/ ShowFixSettings \/ Uninstalled \/ LookAgain
        \/ Reboot \/ QuitAtEnd \/ ShowPage \/ RunTasks \/ NoIsoToFixFrom \/ LeaveLoop

Next == Main \/ Stop \/ ShowInside \/ Cancel \/ ListEnds

Spec == Init /\ [][Next]_dvars /\ WF_dvars(Main)

-----------------------------------------------------------------------------

Buttons == Stops \cup {<<s[1], s[2]>> : s \in Shows}

TypeOK ==
    /\ pc \in Places \cup Pages \cup Lists
    /\ stack \in Seq(AllPages) /\ Len(stack) <= MaxDepth
    /\ keep \in BOOLEAN /\ quitting \in BOOLEAN /\ wmQuit \in BOOLEAN
    /\ frontend \in BOOLEAN /\ before \in BOOLEAN /\ fixed \in BOOLEAN /\ flag \in BOOLEAN
    /\ runTask \in RunTask \cup {None}
    /\ info \in Infos
    /\ list \in {"none", "running", "done", "failed"}
    /\ started \in Seq(Lists)
    /\ pressed \subseteq Buttons

\* Once the user has quit, or the program has refused to go on, no list of tasks
\* is started, even if the exit was swallowed on the way: run_tasks starts the
\* thread before anything else, so it must not be reached.
NothingStartsAfterQuit == [][started' # started => ~quitting]_dvars

\* Every list that is started has been asked for, on the page for it: an
\* uninstallation twice, a reboot on a page shown at the end.
AskedFor(l) ==
    CASE l = "uninstall" -> {<<"fix_page", "uninstall">>, <<"confirm", "uninstall">>} \subseteq pressed
      [] l = "fix" -> <<"fix_page", "fix">> \in pressed
      [] l = "install" -> <<"settings", "install">> \in pressed
      [] l = "livecd" -> <<"accessibility", "install">> \in pressed
      [] l = "cd_boot" -> <<"cdboot", "install">> \in pressed
      [] l = "reboot" -> \E p \in {"install_finish", "fix_finish"} : <<p, "reboot">> \in pressed
ListsAreAskedFor == \A l \in ToSet(started) : AskedFor(l)

\* One process uninstalls at most once, then installs or fixes at most once, then
\* reboots: the select_task that runs inside that of the CD menu ends the process.
Rank(l) == CASE l = "uninstall" -> 1 [] l \in Installing -> 2 [] l = "reboot" -> 3
OneOfEach == \A i, j \in DOMAIN started : i < j => Rank(started[i]) < Rank(started[j])

\* The installer installs nothing while its last look has found a directory of an
\* earlier installation on any drive, nor does the CD boot helper while it has
\* found one that the key names or that has a root disk, whatever a swallowed exit
\* left running (run_installer, run_cd_boot).  The helper does not ask for others.
InstallsOnlyIfClean ==
    /\ pc \in {"install", "livecd"} => ~info.found
    /\ pc = "cd_boot" => ~info.previous

\* A stop ends all the loops at once, not the innermost alone.
StopUnwinds == (stack # <<>> /\ ~keep) ~> (stack = <<>>)

\* Quitting ends the process even if its exit was swallowed, provided no other
\* page's loop waits behind that which WM_QUIT ends.
QuitEnds ==
    (quitting /\ (stack = <<>> \/ ~keep \/ (wmQuit /\ Len(stack) = 1))) ~> (pc \in {"over", "exited"})
=============================================================================
