------------------------------- MODULE TaskList -------------------------------
(***************************************************************************)
(* The task engine of src/src/wubi/backends/common/tasklist.py: a tree of  *)
(* Task objects under one ThreadedTaskList, run depth first by the         *)
(* daemon thread the list is, while the user interface thread may cancel   *)
(* the root at any moment.                                                 *)
(*                                                                         *)
(* A task is called only by its parent (its function, or _run_subtasks),   *)
(* so the Python call stack of the worker is the path from the root to     *)
(* `cur', and each task on it has one frame: pc[t] is where Task.__call__  *)
(* of t is, next[t] the index of the loop of its _run_subtasks.  The       *)
(* associated functions are the environment: at pc "function" they may     *)
(* add and call subtasks, report progress, finish, raise, or return.       *)
(***************************************************************************)
EXTENDS Naturals, Sequences

CONSTANTS
    Task,        \* every Task object the run may create
    Root,        \* the ThreadedTaskList
    Initial,     \* the tasks given to its constructor, in order
    Required,    \* tasks created with is_required
    MaxReports,  \* bound: set_progress calls one function makes
    None         \* Python's None

ASSUME RootAssumption == Root \in Task /\ None \notin Task
ASSUME InitialAssumption ==
    /\ Initial \in Seq(Task \ {Root})
    /\ \A i, j \in 1 .. Len(Initial) : Initial[i] = Initial[j] => i = j
ASSUME RequiredAssumption == Required \subseteq Task
ASSUME MaxReportsAssumption == MaxReports \in Nat

VARIABLES
    status,    \* Task.status
    error,     \* Task.error: the task whose exception it holds, or None
    parent,    \* Task.parent
    subtasks,  \* Task.subtasks
    lineage,   \* the tasks met walking up Task.parent, the task itself included
    cur,       \* the task whose frame is innermost, None once run() is over
    pc,        \* where Task.__call__ of each task is
    next,      \* position in the loop of _run_subtasks
    reports,   \* set_progress calls made so far by each function
    stopped,   \* ThreadedTaskList._stopped_event
    ui,        \* where ThreadedTaskList.cancel of the interface thread is
    told       \* the callback has seen the root not ACTIVE: frontend.stop()

vars == <<status, error, parent, subtasks, lineage, cur, pc, next, reports,
          stopped, ui, told>>
tree == <<parent, subtasks, lineage>>
flow == <<cur, next, reports>>

Status == {"INACTIVE", "ACTIVE", "COMPLETED", "FAILED", "CANCELLED"}

\* The places of a frame from which the listeners are notified ...
Notifying ==
    {"announce",    \* "Running %s..."
     "added",       \* "New task %s"
     "progress",    \* "Progress"
     "reported",    \* "Finished %s", inside set_progress or the function
     "nonfatal",    \* "Non fatal error %s in task %s"
     "cancelled",   \* "Cancelling %s", from the except clause
     "finished"}    \* "Finished %s", at the end of __call__

\* ... and where the frame goes after that.
Resume(place) ==
    CASE place \in {"announce", "progress", "reported"} -> "function"
      [] place = "added" -> "holding"
      [] place = "nonfatal" -> "subtasks"
      [] place \in {"cancelled", "finished"} -> "return"

Place == {"idle", "check", "activate", "function", "holding", "obliged",
          "raised", "cancel", "subtasks", "finish",
          "report_subtasks", "report_finish", "return"} \cup Notifying

Items(s) == {s[i] : i \in 1 .. Len(s)}
Linked == {t \in Task : Root \in lineage[t]}

Init ==
    /\ status = [t \in Task |-> "INACTIVE"]
    /\ error = [t \in Task |-> None]
    /\ parent = [t \in Task |-> IF t \in Items(Initial) THEN Root ELSE None]
    /\ subtasks = [t \in Task |-> IF t = Root THEN Initial ELSE <<>>]
    /\ lineage = [t \in Task |-> IF t \in Items(Initial) \cup {Root}
                                 THEN {t, Root} ELSE {t}]
    /\ cur = Root
    /\ pc = [t \in Task |-> IF t = Root THEN "check" ELSE "idle"]
    /\ next = [t \in Task |-> 1]
    /\ reports = [t \in Task |-> 0]
    /\ stopped = FALSE
    /\ ui = "idle"
    /\ told = FALSE

IsActive(t) == \A a \in lineage[t] : status[a] = "ACTIVE"
IsCancelled(t) == stopped \/ \E a \in lineage[t] : status[a] = "CANCELLED"

At(t, places) == cur = t /\ pc[t] \in places
Goto(t, place) == pc' = [pc EXCEPT ![t] = place]
Call(u) == cur' = u /\ pc' = [pc EXCEPT ![u] = "check"]

-----------------------------------------------------------------------------
(* Task.__call__                                                             *)

AdmitUnderAny(t) ==
    /\ At(t, {"check"})
    /\ status[t] = "INACTIVE"
    /\ Goto(t, "activate")
    /\ UNCHANGED <<status, error, tree, flow, stopped, ui, told>>

\* The test of line 179 and the assignment of line 185 are two steps: the
\* interface thread may run between them.
Admit(t) ==
    /\ At(t, {"check"})
    /\ status[t] = "INACTIVE"
    /\ parent[t] # None => IsActive(parent[t])
    /\ Goto(t, "activate")
    /\ UNCHANGED <<status, error, tree, flow, stopped, ui, told>>

Skip(t) ==
    /\ At(t, {"check"})
    /\ \/ status[t] # "INACTIVE"
       \/ parent[t] # None /\ ~IsActive(parent[t])
    /\ Goto(t, "return")
    /\ UNCHANGED <<status, error, tree, flow, stopped, ui, told>>

Activate(t) ==
    /\ At(t, {"activate"})
    /\ error' = [error EXCEPT ![t] = None]
    /\ status' = [status EXCEPT ![t] = "ACTIVE"]
    /\ Goto(t, "announce")
    /\ UNCHANGED <<tree, flow, stopped, ui, told>>

\* _notify_listeners: the only callback of a list is ProgressPage.on_progress,
\* set on the root, which stops the message loop once the root is not ACTIVE.
Notify(t) ==
    /\ At(t, Notifying)
    /\ told' = (told \/ status[Root] # "ACTIVE")
    /\ Goto(t, Resume(pc[t]))
    /\ UNCHANGED <<status, error, tree, flow, stopped, ui>>

\* The associated function returns; at "obliged" it has been told to.
FunctionReturns(t) ==
    /\ At(t, {"function", "obliged"})
    /\ Goto(t, "subtasks")
    /\ UNCHANGED <<status, error, tree, flow, stopped, ui, told>>

RaiseStaysActive(t) ==
    /\ At(t, {"function"})
    /\ t # Root
    /\ error' = [error EXCEPT ![t] = t]
    /\ Goto(t, "raised")
    /\ UNCHANGED <<status, tree, flow, stopped, ui, told>>

\* It raises.  The function of a list is "def tasklist(): return".
Raise(t) ==
    /\ At(t, {"function"})
    /\ t # Root
    /\ error' = [error EXCEPT ![t] = t]
    /\ status' = [status EXCEPT ![t] = "FAILED"]
    /\ Goto(t, "raised")
    /\ UNCHANGED <<tree, flow, stopped, ui, told>>

FailFatalUnreported(t) ==
    /\ At(t, {"raised"})
    /\ t \in Required
    /\ stopped' = TRUE
    /\ Goto(t, "cancel")
    /\ UNCHANGED <<status, error, tree, flow, ui, told>>

\* root.error = self.error, then ThreadedTaskList.cancel sets its event ...
FailFatal(t) ==
    /\ At(t, {"raised"})
    /\ t \in Required
    /\ error' = [error EXCEPT ![Root] = t]
    /\ stopped' = TRUE
    /\ Goto(t, "cancel")
    /\ UNCHANGED <<status, tree, flow, ui, told>>

CancelNobody(t) ==
    /\ At(t, {"cancel"})
    /\ Goto(t, "cancelled")
    /\ UNCHANGED <<status, error, tree, flow, stopped, ui, told>>

\* ... and Task.cancel the status.
CancelRoot(t) ==
    /\ At(t, {"cancel"})
    /\ status' = [status EXCEPT ![Root] = "CANCELLED"]
    /\ Goto(t, "cancelled")
    /\ UNCHANGED <<error, tree, flow, stopped, ui, told>>

FailNonFatal(t) ==
    /\ At(t, {"raised"})
    /\ t \notin Required
    /\ Goto(t, "nonfatal")
    /\ UNCHANGED <<status, error, tree, flow, stopped, ui, told>>

\* _run_subtasks, called at the end of __call__ or from set_progress.
AllButLast(t) == next[t] < Len(subtasks[t])
MoreSubtasks(t) == next[t] <= Len(subtasks[t])

RunNextSubtask(t) ==
    /\ At(t, {"subtasks", "report_subtasks"})
    /\ MoreSubtasks(t)
    /\ next' = [next EXCEPT ![t] = @ + 1]
    /\ Call(subtasks[t][next[t]])
    /\ UNCHANGED <<status, error, tree, reports, stopped, ui, told>>

SubtasksDone(t) ==
    /\ At(t, {"subtasks", "report_subtasks"})
    /\ ~MoreSubtasks(t)
    /\ next' = [next EXCEPT ![t] = 1]
    /\ Goto(t, IF pc[t] = "subtasks" THEN "finish" ELSE "report_finish")
    /\ UNCHANGED <<status, error, tree, cur, reports, stopped, ui, told>>

FinishSilently(t) ==
    /\ At(t, {"finish", "report_finish"})
    /\ status' = [status EXCEPT ![t] = "COMPLETED"]
    /\ Goto(t, IF pc[t] = "finish" THEN "return" ELSE "function")
    /\ UNCHANGED <<error, tree, flow, stopped, ui, told>>

\* finish() tests for COMPLETED only: it overwrites CANCELLED and FAILED.
Finish(t) ==
    /\ At(t, {"finish", "report_finish"})
    /\ status' = [status EXCEPT ![t] = "COMPLETED"]
    /\ Goto(t, IF status[t] # "COMPLETED"
               THEN IF pc[t] = "finish" THEN "finished" ELSE "reported"
               ELSE IF pc[t] = "finish" THEN "return" ELSE "function")
    /\ UNCHANGED <<error, tree, flow, stopped, ui, told>>

Return(t) ==
    /\ At(t, {"return"})
    /\ cur' = parent[t]
    /\ Goto(t, "idle")
    /\ UNCHANGED <<status, error, tree, next, reports, stopped, ui, told>>

-----------------------------------------------------------------------------
(* What an associated function does through its associated_task.            *)

\* add_subtask.  No function of the installer adds a subtask to a task it has
\* already reported complete.
AddSubtask(t, u) ==
    /\ At(t, {"function"})
    /\ t # Root
    /\ status[t] # "COMPLETED"
    /\ u \notin Linked
    /\ parent' = [parent EXCEPT ![u] = t]
    /\ lineage' = [lineage EXCEPT ![u] = {u} \cup lineage[t]]
    /\ subtasks' = [subtasks EXCEPT ![t] = Append(@, u)]
    /\ Goto(t, "added")
    /\ UNCHANGED <<status, error, flow, stopped, ui, told>>

\* The function calls the subtask it has just added, or leaves it to
\* _run_subtasks.
CallAdded(t) ==
    /\ At(t, {"holding"})
    /\ cur' = subtasks[t][Len(subtasks[t])]
    /\ pc' = [pc EXCEPT ![t] = "function",
                        ![subtasks[t][Len(subtasks[t])]] = "check"]
    /\ UNCHANGED <<status, error, tree, next, reports, stopped, ui, told>>

LeaveAdded(t) ==
    /\ At(t, {"holding"})
    /\ Goto(t, "function")
    /\ UNCHANGED <<status, error, tree, flow, stopped, ui, told>>

\* set_progress: True to a cancelled task, which makes the function return;
\* else a notification, or the subtasks and finish() when completed >= size.
SetProgress(t) ==
    /\ At(t, {"function"})
    /\ t # Root
    /\ reports[t] < MaxReports
    /\ reports' = [reports EXCEPT ![t] = @ + 1]
    /\ \/ IsCancelled(t) /\ Goto(t, "obliged")
       \/ ~IsCancelled(t) /\ Goto(t, "progress")
       \/ ~IsCancelled(t) /\ Goto(t, "report_subtasks")
    /\ UNCHANGED <<status, error, tree, cur, next, stopped, ui, told>>

\* A function finishes its own task (copy_file, get_file_md5, get_iso), once
\* every subtask it added has been run.
FinishSelf(t) ==
    /\ At(t, {"function"})
    /\ t # Root
    /\ status[t] # "COMPLETED"
    /\ IsActive(t) => \A u \in Items(subtasks[t]) : status[u] # "INACTIVE"
    /\ Goto(t, "report_finish")
    /\ UNCHANGED <<status, error, tree, flow, stopped, ui, told>>

-----------------------------------------------------------------------------
(* The interface thread: on_quit, if tasklist.isAlive(): tasklist.cancel(). *)

CancelSetsEvent ==
    /\ ui = "idle" /\ cur # None
    /\ stopped' = TRUE
    /\ ui' = "event"
    /\ UNCHANGED <<status, error, tree, flow, pc, told>>

CancelSetsStatus ==
    /\ ui = "event"
    /\ status' = [status EXCEPT ![Root] = "CANCELLED"]
    /\ ui' = "status"
    /\ UNCHANGED <<error, tree, flow, pc, stopped, told>>

CancelNotifies ==
    /\ ui = "status"
    /\ told' = (told \/ status[Root] # "ACTIVE")
    /\ ui' = "done"
    /\ UNCHANGED <<status, error, tree, flow, pc, stopped>>

-----------------------------------------------------------------------------
\* Every step of the worker but the callbacks it makes.
Inside(t) ==
    \/ Admit(t) \/ Skip(t) \/ Activate(t)
    \/ FunctionReturns(t) \/ Raise(t) \/ FailFatal(t) \/ CancelRoot(t)
    \/ FailNonFatal(t) \/ RunNextSubtask(t) \/ SubtasksDone(t)
    \/ Finish(t) \/ Return(t)
    \/ \E u \in Task : AddSubtask(t, u)
    \/ CallAdded(t) \/ LeaveAdded(t) \/ SetProgress(t) \/ FinishSelf(t)

Worker == \E t \in Task : Inside(t) \/ Notify(t)

Interface == CancelSetsEvent \/ CancelSetsStatus \/ CancelNotifies

Next == Worker \/ Interface

Spec == Init /\ [][Next]_vars

\* Both threads are scheduled; that a user ever cancels is not assumed.
FairSpec == /\ Spec
            /\ WF_vars(Worker)
            /\ WF_vars(CancelSetsStatus \/ CancelNotifies)

-----------------------------------------------------------------------------
Over == cur = None

TypeOK ==
    /\ status \in [Task -> Status]
    /\ error \in [Task -> Task \cup {None}]
    /\ parent \in [Task -> Task \cup {None}]
    /\ subtasks \in [Task -> Seq(Task)]
    /\ lineage \in [Task -> SUBSET Task]
    /\ cur \in Task \cup {None}
    /\ pc \in [Task -> Place]
    /\ next \in [Task -> Nat \ {0}]
    /\ reports \in [Task -> 0 .. MaxReports]
    /\ stopped \in BOOLEAN
    /\ ui \in {"idle", "event", "status", "done"}
    /\ told \in BOOLEAN

\* The frames on the worker's stack are exactly the path from the running
\* task up to the root: no task is entered twice, and none is left behind
\* when the list is over (Task.__call__, _run_subtasks).
WellStacked ==
    {t \in Task : pc[t] # "idle"} = IF Over THEN {} ELSE lineage[cur]

\* A task is ACTIVE only while its own call is on the stack: whatever fails
\* or is cancelled, no task stays ACTIVE after __call__ has returned.
ActiveOnStack ==
    \A t \in Task : status[t] = "ACTIVE" => pc[t] \notin {"idle", "check", "activate"}

\* A list that is over and was never stopped has run every task it was given
\* or that was added at run time; one that was not run has a task above it
\* (or itself) that raised and was not required.
CleanRunIsComplete ==
    Over /\ ~stopped =>
        /\ error[Root] = None
        /\ \A t \in Linked :
              \/ status[t] = "COMPLETED"
              \/ \E a \in lineage[t] \ Required : error[a] # None

\* The exception of a required task always reaches the root, with the stop
\* event set, before the task's call returns (the except clause).
FailureReachesRoot ==
    \A t \in Required \ {Root} :
        error[t] # None /\ pc[t] # "raised" => error[Root] # None /\ stopped

\* The error the list reports is replaced only by an error of a task above
\* the one that failed first: after a failure nothing new is started, only the
\* frames already on the stack go on and may fail in turn.
ErrorMovesOutward ==
    [][error[Root] # None /\ error'[Root] # error[Root]
          => error'[Root] \in lineage[error[Root]] \ {error[Root]}]_vars

\* Once cancel() of the list has returned, no task passes the test of
\* __call__ any more ("Can be started and stopped", tasklist.py:379).
StopAdmitsNothing ==
    [][ui = "done" => \A t \in Task : pc[t] = "check" => pc'[t] # "activate"]_vars

\* The list as its users see it (AdmissionControl): halted is the status of the
\* root once it has been started, the admitted task has passed the test of
\* __call__ and is about to become ACTIVE.
Halted == status[Root] # "ACTIVE" /\ pc[Root] \notin {"check", "activate"}
Started == {t \in Task \ {Root} : status[t] # "INACTIVE"}
Admitted == IF cur \in Task \ {Root} /\ pc[cur] = "activate" THEN cur ELSE None

Promise == INSTANCE AdmissionControl
               WITH Job <- Task \ {Root}, Nobody <- None,
                    halted <- Halted, admitted <- Admitted, started <- Started

\* No task starts twice, none is admitted once the list has been cancelled or
\* has failed, and at most the one task already admitted still starts.
KeepsPromise == Promise!ASpec

\* The interface is told of the end: some notification finds the root no
\* longer ACTIVE, so that the message loop of run_tasks can be left.
InterfaceIsTold == <>told
=============================================================================
