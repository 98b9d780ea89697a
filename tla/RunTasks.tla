------------------------------- MODULE RunTasks -------------------------------
(***************************************************************************)
(* WindowsFrontend.run_tasks: the worker of TaskList beside the interface  *)
(* thread that shows its progress.  Every callback of the worker is        *)
(* ProgressPage.on_progress: it writes to windows of the interface thread, *)
(* which waits until that thread dispatches messages, and it stops the     *)
(* message loop once the root is not ACTIVE.  The user may press Cancel    *)
(* and answer the question, or close the window; on_quit then cancels the  *)
(* list, joins the thread for three seconds and exits.                     *)
(*                                                                         *)
(* What Windows does is external: a message sent to a window waits for a   *)
(* GetMessage or a modal dialog of the thread that owns it, a posted       *)
(* message wakes GetMessage, what was sent is taken before what was        *)
(* posted, WM_QUIT after that and input last, and an exception in a window *)
(* procedure is either swallowed or ends the process.                      *)
(***************************************************************************)
EXTENDS TaskList

VARIABLES
    callback,   \* the worker in on_progress
    loop,       \* the interface thread
    keep,       \* Frontend._keep_running
    posted,     \* messages posted to the interface thread
    quitting,   \* info.quitting
    forceExit,  \* info.force_exit
    outcome     \* how run_tasks ended

local == <<callback, loop, keep, posted, quitting, forceExit, outcome>>
engine == <<status, error, tree, flow, pc, stopped, ui, told>>
rvars == <<engine, local>>

RInit ==
    /\ Init
    /\ callback = "none"
    /\ loop = "show"
    /\ keep = FALSE
    /\ posted = {}
    /\ quitting = FALSE
    /\ forceExit = FALSE
    /\ outcome = "none"

Running == loop # "exited"

-----------------------------------------------------------------------------
(* The worker                                                               *)

WorkerStep ==
    /\ Running
    /\ \E t \in Task : Inside(t)
    /\ UNCHANGED local

SendUnseen ==
    /\ Running
    /\ \E t \in Task : At(t, Notifying)
    /\ callback = "none"
    /\ callback' = "delivered"
    /\ UNCHANGED <<engine, loop, keep, posted, quitting, forceExit, outcome>>

\* on_progress: set_text and set_position send messages to the window thread.
Send ==
    /\ Running
    /\ \E t \in Task : At(t, Notifying)
    /\ callback = "none"
    /\ callback' = "sending"
    /\ UNCHANGED <<engine, loop, keep, posted, quitting, forceExit, outcome>>

\* The root is still ACTIVE: the callback returns.
Seen ==
    /\ Running
    /\ callback = "delivered"
    /\ status[Root] = "ACTIVE"
    /\ \E t \in Task : Notify(t)
    /\ callback' = "none"
    /\ UNCHANGED <<loop, keep, posted, quitting, forceExit, outcome>>

\* It is not: frontend.stop() clears the flag, then posts WM_NULL.
StopLoop ==
    /\ Running
    /\ callback = "delivered"
    /\ status[Root] # "ACTIVE"
    /\ keep' = FALSE
    /\ callback' = "stopping"
    /\ UNCHANGED <<engine, loop, posted, quitting, forceExit, outcome>>

WakeNobody ==
    /\ Running
    /\ callback = "stopping"
    /\ \E t \in Task : Notify(t)
    /\ callback' = "none"
    /\ UNCHANGED <<loop, keep, posted, quitting, forceExit, outcome>>

WakeLoop ==
    /\ Running
    /\ callback = "stopping"
    /\ \E t \in Task : Notify(t)
    /\ posted' = posted \cup {"null"}
    /\ callback' = "none"
    /\ UNCHANGED <<loop, keep, quitting, forceExit, outcome>>

-----------------------------------------------------------------------------
(* The interface thread: show_page and Frontend.run                         *)

GotoUI(place) == loop' = place /\ UNCHANGED <<engine, callback>>

\* show_page has hidden and shown windows; run() sets the flag.
StartLoop ==
    /\ loop = "show"
    /\ keep' = TRUE
    /\ GotoUI("test")
    /\ UNCHANGED <<posted, quitting, forceExit, outcome>>

TestFlag ==
    /\ loop = "test"
    /\ GotoUI(IF keep THEN "wait" ELSE "left")
    /\ UNCHANGED <<keep, posted, quitting, forceExit, outcome>>

\* GetMessage, the modal loop of a message box and, after run_tasks, the loop
\* of the next page or of the error box dispatch what other threads sent.
Pumping == loop \in {"wait", "confirm", "done"}

Deliver ==
    /\ Pumping
    /\ callback = "sending"
    /\ callback' = "delivered"
    /\ UNCHANGED <<engine, loop, keep, posted, quitting, forceExit, outcome>>

GetNull ==
    /\ loop = "wait"
    /\ callback # "sending"
    /\ "null" \in posted
    /\ posted' = posted \ {"null"}
    /\ GotoUI("test")
    /\ UNCHANGED <<keep, quitting, forceExit, outcome>>

GetQuit ==
    /\ loop = "wait"
    /\ callback # "sending"
    /\ posted = {"quit"}
    /\ posted' = {}
    /\ GotoUI("left")
    /\ UNCHANGED <<keep, quitting, forceExit, outcome>>

\* Input is taken when nothing sent or posted is left.
Input == callback # "sending" /\ posted = {}

\* ProgressPage.on_cancel: frontend.cancel(confirm=True) asks in a message box.
PressCancel ==
    /\ loop = "wait"
    /\ Input
    /\ GotoUI("confirm")
    /\ UNCHANGED <<keep, posted, quitting, forceExit, outcome>>

\* The box takes the messages posted to the thread for itself.
BoxTakesNull ==
    /\ loop = "confirm"
    /\ "null" \in posted
    /\ posted' = posted \ {"null"}
    /\ GotoUI("confirm")
    /\ UNCHANGED <<keep, quitting, forceExit, outcome>>

AnswerNo ==
    /\ loop = "confirm"
    /\ Input
    /\ GotoUI("test")
    /\ UNCHANGED <<keep, posted, quitting, forceExit, outcome>>

\* "Yes", or the close box of the main window: DestroyWindow, and Frontend._quit
\* from WM_DESTROY.
Destroy ==
    /\ loop \in {"confirm", "wait"}
    /\ Input
    /\ posted' = {"quit"}
    /\ GotoUI("on_quit")
    /\ UNCHANGED <<keep, quitting, forceExit, outcome>>

\* on_quit: if self.tasklist.isAlive(): self.tasklist.cancel()
CancelList ==
    /\ loop = "on_quit"
    /\ CancelSetsEvent \/ CancelSetsStatus
    /\ UNCHANGED local

NothingToCancel ==
    /\ loop = "on_quit"
    /\ ui = "idle" /\ Over
    /\ GotoUI("quit")
    /\ UNCHANGED <<keep, posted, quitting, forceExit, outcome>>

\* The callback of that cancel() runs in the interface thread itself; it is the
\* same on_progress and may stop the loop.
CancelCallsBack ==
    /\ loop = "on_quit"
    /\ CancelNotifies
    /\ keep' = (keep /\ status[Root] = "ACTIVE")
    /\ posted' = IF status[Root] = "ACTIVE" THEN posted ELSE posted \cup {"null"}
    /\ loop' = "join"
    /\ UNCHANGED <<callback, quitting, forceExit, outcome>>

JoinForever ==
    /\ loop = "join"
    /\ Over
    /\ GotoUI("quit")
    /\ UNCHANGED <<keep, posted, quitting, forceExit, outcome>>

\* join(3) returns when the thread has ended or the time is over.
Join ==
    /\ loop = "join"
    /\ forceExit' = ~Over
    /\ GotoUI("quit")
    /\ UNCHANGED <<keep, posted, quitting, outcome>>

\* application.on_quit: sys.exit(0) inside the window procedure.
ApplicationQuits ==
    /\ loop = "quit"
    /\ quitting' = TRUE
    /\ \/ GotoUI("exited") /\ outcome' = "exited"
       \/ GotoUI("test") /\ outcome' = outcome
    /\ UNCHANGED <<keep, posted, forceExit>>

LeaveLoopUnchecked ==
    /\ loop = "left"
    /\ \/ quitting /\ GotoUI("exited") /\ outcome' = "exited"
       \/ ~quitting /\ GotoUI("done") /\ outcome' = "returned"
    /\ UNCHANGED <<keep, posted, quitting, forceExit>>

\* WindowsFrontend.run raises QuitException, run_tasks the error of the list.
LeaveLoop ==
    /\ loop = "left"
    /\ \/ quitting /\ GotoUI("exited") /\ outcome' = "exited"
       \/ ~quitting /\ GotoUI("done")
            /\ outcome' = IF error[Root] # None THEN "raised" ELSE "returned"
    /\ UNCHANGED <<keep, posted, quitting, forceExit>>

\* The next page is shown: its run() sets the flag again.
NextPage ==
    /\ loop = "done"
    /\ outcome = "returned"
    /\ keep' = TRUE
    /\ GotoUI("done")
    /\ UNCHANGED <<posted, quitting, forceExit, outcome>>

-----------------------------------------------------------------------------
WorkerNext == WorkerStep \/ Send \/ Seen \/ StopLoop \/ WakeLoop

\* What the interface thread does by itself, and what only the user does.
UINext == \/ StartLoop \/ TestFlag \/ Deliver \/ GetNull \/ GetQuit
          \/ BoxTakesNull \/ CancelList \/ NothingToCancel \/ CancelCallsBack
          \/ Join \/ ApplicationQuits \/ LeaveLoop \/ NextPage

UserNext == PressCancel \/ AnswerNo \/ Destroy

RNext == WorkerNext \/ UINext \/ UserNext

RSpec == RInit /\ [][RNext]_rvars /\ WF_rvars(WorkerNext) /\ WF_rvars(UINext)

-----------------------------------------------------------------------------
RTypeOK ==
    /\ TypeOK
    /\ callback \in {"none", "sending", "delivered", "stopping"}
    /\ loop \in {"show", "test", "wait", "confirm", "on_quit", "join", "quit",
                 "left", "done", "exited"}
    /\ keep \in BOOLEAN
    /\ posted \subseteq {"null", "quit"}
    /\ quitting \in BOOLEAN
    /\ forceExit \in BOOLEAN
    /\ outcome \in {"none", "returned", "raised", "exited"}

\* run_tasks returns normally only when the list has done its work: nothing
\* stopped it, no required task failed, and every task ran or lies under one
\* that was allowed to fail.  The finish page is shown on no other ground.
ReturnMeansDone ==
    outcome = "returned" =>
        /\ ~stopped /\ error[Root] = None
        /\ \A t \in Linked \ {Root} :
              \/ status[t] = "COMPLETED"
              \/ \E a \in lineage[t] \ Required : error[a] # None

\* No callback left over from the list stops the message loop of a page shown
\* after run_tasks has returned: the flag is shared by every loop.
NoStrayStop == [][outcome = "returned" /\ keep => keep']_rvars

\* The flag cleared by a callback is never set again by the loop it was meant
\* for: the callback cannot get that far before run() has set it.
StopNotLost == told /\ outcome = "none" => ~keep

\* The message loop always comes to an end, unless the user leaves the
\* question unanswered.
LoopEnds == <>[](loop \in {"done", "exited", "confirm"})

\* Once the user has quit, the process ends, even though the worker may be
\* waiting for the thread that waits for it in join.
QuitEnds == (loop = "on_quit") ~> (loop = "exited")
=============================================================================
