---------------------------- MODULE RunTasksProofs ----------------------------
(***************************************************************************)
(* Theorems about TaskList and RunTasks for every set of tasks, every      *)
(* initial list and every bound.  First the engine by itself: types, the   *)
(* shape of the worker's stack, that no task stays ACTIVE behind it, that  *)
(* the engine implements AdmissionControl, that every failure is reported  *)
(* and that a clean run is complete.  Then the worker beside the interface *)
(* thread, which is still that engine: no stop is lost or left over, and   *)
(* run_tasks returns only on a list that has done its work.                *)
(***************************************************************************)
EXTENDS RunTasks, TLAPS, SequenceTheorems

\* An initial list is a sequence of tasks and its items are tasks.
LEMMA ItemsOfSeq ==
    ASSUME NEW S, NEW s \in Seq(S)
    PROVE  /\ Items(s) \subseteq S
           /\ Len(s) \in Nat
           /\ \A i \in 1 .. Len(s) : s[i] \in S
BY DEF Items

\* What add_subtask does to the list of subtasks.
LEMMA ItemsOfAppend ==
    ASSUME NEW S, NEW s \in Seq(S), NEW e \in S
    PROVE  /\ Append(s, e) \in Seq(S)
           /\ Items(Append(s, e)) = Items(s) \cup {e}
           /\ Len(Append(s, e)) = Len(s) + 1
           /\ Append(s, e)[Len(Append(s, e))] = e
BY DEF Items

-----------------------------------------------------------------------------
(* Type correctness                                                         *)

\* A function that holds a subtask it has just added has one: without this
\* the types alone are not inductive (CallAdded).
HoldsOne == \A t \in Task : pc[t] \in {"added", "holding"} => Len(subtasks[t]) > 0

Typed == TypeOK /\ HoldsOne

LEMMA TypeInit == Init => Typed
<1> SUFFICES ASSUME Init PROVE Typed
  OBVIOUS
<1>1. Initial \in Seq(Task) /\ Items(Initial) \subseteq Task
  BY InitialAssumption, ItemsOfSeq
<1>2. <<>> \in Seq(Task)
  OBVIOUS
<1>3. subtasks \in [Task -> Seq(Task)]
  BY <1>1, <1>2 DEF Init
<1>4. lineage \in [Task -> SUBSET Task]
  <2>1. \A t \in Task : (IF t \in Items(Initial) \cup {Root}
                          THEN {t, Root} ELSE {t}) \in SUBSET Task
    BY RootAssumption
  <2> QED BY <2>1 DEF Init
<1>6. parent \in [Task -> Task \cup {None}]
  BY RootAssumption DEF Init
<1>5. status \in [Task -> Status] /\ pc \in [Task -> Place]
  BY DEF Init, Status, Place
<1>7. /\ error \in [Task -> Task \cup {None}]
      /\ next \in [Task -> Nat \ {0}]
      /\ reports \in [Task -> 0 .. MaxReports]
  BY MaxReportsAssumption DEF Init
<1>8. cur \in Task /\ stopped = FALSE /\ ui = "idle" /\ told = FALSE
  BY RootAssumption DEF Init
<1> QED
  BY <1>3, <1>4, <1>5, <1>6, <1>7, <1>8 DEF TypeOK, Typed, HoldsOne, Init

LEMMA TypeNext == Typed /\ [Next]_vars => TypeOK'
<1> SUFFICES ASSUME TypeOK, HoldsOne, [Next]_vars PROVE TypeOK'
  BY DEF Typed
<1> USE RootAssumption, MaxReportsAssumption DEF TypeOK, tree, flow
<1>1. ASSUME NEW t \in Task, Admit(t) PROVE TypeOK'
  BY <1>1 DEF Admit, At, Goto, Place
<1>2. ASSUME NEW t \in Task, Skip(t) PROVE TypeOK'
  BY <1>2 DEF Skip, At, Goto, Place
<1>3. ASSUME NEW t \in Task, Activate(t) PROVE TypeOK'
  BY <1>3 DEF Activate, At, Goto, Place, Notifying, Status
<1>4. ASSUME NEW t \in Task, Notify(t) PROVE TypeOK'
  <2>1. pc[t] \in Notifying
    BY <1>4 DEF Notify, At
  <2>2. Resume(pc[t]) \in Place
    BY <2>1 DEF Resume, Place, Notifying
  <2>3. pc' \in [Task -> Place]
    BY <1>4, <2>2 DEF Notify, Goto
  <2>4. told' \in BOOLEAN
    BY <1>4 DEF Notify
  <2> QED BY <1>4, <2>3, <2>4 DEF Notify
<1>5. ASSUME NEW t \in Task, FunctionReturns(t) PROVE TypeOK'
  BY <1>5 DEF FunctionReturns, At, Goto, Place
<1>6. ASSUME NEW t \in Task, Raise(t) PROVE TypeOK'
  BY <1>6 DEF Raise, At, Goto, Place, Status
<1>7. ASSUME NEW t \in Task, FailFatal(t) PROVE TypeOK'
  BY <1>7 DEF FailFatal, At, Goto, Place
<1>8. ASSUME NEW t \in Task, CancelRoot(t) PROVE TypeOK'
  BY <1>8 DEF CancelRoot, At, Goto, Place, Notifying, Status
<1>9. ASSUME NEW t \in Task, FailNonFatal(t) PROVE TypeOK'
  BY <1>9 DEF FailNonFatal, At, Goto, Place, Notifying
<1>10. ASSUME NEW t \in Task, RunNextSubtask(t) PROVE TypeOK'
  <2>1. subtasks[t] \in Seq(Task) /\ next[t] \in 1 .. Len(subtasks[t])
    BY <1>10 DEF RunNextSubtask, MoreSubtasks
  <2>2. subtasks[t][next[t]] \in Task
    BY <2>1, ItemsOfSeq
  <2>3. pc' \in [Task -> Place] /\ cur' \in Task
    BY <1>10, <2>2 DEF RunNextSubtask, Call, Place
  <2>4. next[t] + 1 \in Nat \ {0}
    OBVIOUS
  <2>5. next' \in [Task -> Nat \ {0}]
    BY <1>10, <2>4 DEF RunNextSubtask
  <2> QED BY <1>10, <2>3, <2>5 DEF RunNextSubtask
<1>11. ASSUME NEW t \in Task, SubtasksDone(t) PROVE TypeOK'
  <2>1. PICK p \in Place : Goto(t, p)
    BY <1>11 DEF SubtasksDone, Place
  <2> QED BY <1>11, <2>1 DEF SubtasksDone, Goto
<1>12. ASSUME NEW t \in Task, Finish(t) PROVE TypeOK'
  <2>1. PICK p \in Place : Goto(t, p)
    BY <1>12 DEF Finish, Place, Notifying
  <2> QED BY <1>12, <2>1 DEF Finish, Goto, Status
<1>13. ASSUME NEW t \in Task, Return(t) PROVE TypeOK'
  BY <1>13 DEF Return, At, Goto, Place
<1>14. ASSUME NEW t \in Task, NEW u \in Task, AddSubtask(t, u) PROVE TypeOK'
  <2>1. Append(subtasks[t], u) \in Seq(Task)
    BY ItemsOfAppend
  <2> QED BY <1>14, <2>1 DEF AddSubtask, At, Goto, Place, Notifying
<1>15. ASSUME NEW t \in Task, CallAdded(t) PROVE TypeOK'
  <2>1. subtasks[t] \in Seq(Task) /\ Len(subtasks[t]) > 0
    BY <1>15 DEF CallAdded, At, HoldsOne
  <2>2. subtasks[t][Len(subtasks[t])] \in Task
    BY <2>1
  <2> QED BY <1>15, <2>2 DEF CallAdded, Place
<1>16. ASSUME NEW t \in Task, LeaveAdded(t) PROVE TypeOK'
  BY <1>16 DEF LeaveAdded, At, Goto, Place
<1>17. ASSUME NEW t \in Task, SetProgress(t) PROVE TypeOK'
  <2>1. PICK p \in Place : Goto(t, p)
    BY <1>17 DEF SetProgress, Place, Notifying
  <2>2. reports' \in [Task -> 0 .. MaxReports]
    BY <1>17 DEF SetProgress
  <2> QED BY <1>17, <2>1, <2>2 DEF SetProgress, Goto
<1>18. ASSUME NEW t \in Task, FinishSelf(t) PROVE TypeOK'
  BY <1>18 DEF FinishSelf, At, Goto, Place
<1>19. CASE CancelSetsEvent
  BY <1>19 DEF CancelSetsEvent
<1>20. CASE CancelSetsStatus
  BY <1>20 DEF CancelSetsStatus, Status
<1>21. CASE CancelNotifies
  BY <1>21 DEF CancelNotifies
<1>22. CASE UNCHANGED vars
  BY <1>22 DEF vars
<1> QED
  BY <1>1, <1>2, <1>3, <1>4, <1>5, <1>6, <1>7, <1>8, <1>9, <1>10, <1>11,
     <1>12, <1>13, <1>14, <1>15, <1>16, <1>17, <1>18, <1>19, <1>20, <1>21,
     <1>22 DEF Next, Worker, Inside, Interface

LEMMA HoldsNext == Typed /\ [Next]_vars => HoldsOne'
<1> SUFFICES ASSUME TypeOK, HoldsOne, [Next]_vars PROVE HoldsOne'
  BY DEF Typed
<1> USE DEF TypeOK, HoldsOne
<1>1. ASSUME NEW t \in Task, NEW p,
             Goto(t, p), p \notin {"added", "holding"}, UNCHANGED subtasks
      PROVE  HoldsOne'
  BY <1>1 DEF Goto
<1>2. ASSUME NEW t \in Task, Notify(t) PROVE HoldsOne'
  <2>1. Goto(t, Resume(pc[t])) /\ UNCHANGED subtasks /\ pc[t] \in Notifying
    BY <1>2 DEF Notify, At, tree
  <2>2. CASE pc[t] = "added"
    BY <2>1, <2>2 DEF Goto, Resume
  <2>3. CASE pc[t] # "added"
    <3>1. Resume(pc[t]) \notin {"added", "holding"}
      BY <2>1, <2>3 DEF Resume, Notifying
    <3> QED BY <1>1, <2>1, <3>1
  <2> QED BY <2>2, <2>3
<1>3. ASSUME NEW t \in Task, NEW u \in Task, AddSubtask(t, u) PROVE HoldsOne'
  <2>1. Len(Append(subtasks[t], u)) > 0
    <3>1. subtasks[t] \in Seq(Task) /\ Len(subtasks[t]) \in Nat
      OBVIOUS
    <3> QED BY <3>1, ItemsOfAppend
  <2>2. subtasks' = [subtasks EXCEPT ![t] = Append(subtasks[t], u)]
    BY <1>3 DEF AddSubtask
  <2>3. pc' = [pc EXCEPT ![t] = "added"]
    BY <1>3 DEF AddSubtask, Goto
  <2> QED BY <2>1, <2>2, <2>3
<1>4. ASSUME NEW t \in Task, CallAdded(t) PROVE HoldsOne'
  BY <1>4 DEF CallAdded, tree
<1>5. ASSUME NEW t \in Task, RunNextSubtask(t) PROVE HoldsOne'
  BY <1>5 DEF RunNextSubtask, Call, tree
<1>6. ASSUME NEW t \in Task,
             \/ Admit(t) \/ Skip(t) \/ Activate(t) \/ FunctionReturns(t)
             \/ Raise(t) \/ FailFatal(t) \/ CancelRoot(t) \/ FailNonFatal(t)
             \/ SubtasksDone(t) \/ Finish(t) \/ Return(t) \/ LeaveAdded(t)
             \/ SetProgress(t) \/ FinishSelf(t)
      PROVE  HoldsOne'
  <2>1. UNCHANGED subtasks
    BY <1>6 DEF Admit, Skip, Activate, FunctionReturns, Raise, FailFatal,
       CancelRoot, FailNonFatal, SubtasksDone, Finish, Return, LeaveAdded,
       SetProgress, FinishSelf, tree
  <2>2. CASE SubtasksDone(t)
    BY <1>1, <2>1, <2>2 DEF SubtasksDone
  <2>3. CASE Finish(t)
    BY <1>1, <2>1, <2>3 DEF Finish
  <2>4. CASE SetProgress(t)
    BY <1>1, <2>1, <2>4 DEF SetProgress
  <2> QED BY <1>1, <1>6, <2>1, <2>2, <2>3, <2>4
     DEF Admit, Skip, Activate, FunctionReturns, Raise, FailFatal, CancelRoot,
         FailNonFatal, Return, LeaveAdded, FinishSelf
<1>7. CASE Interface \/ UNCHANGED vars
  BY <1>7 DEF Interface, CancelSetsEvent, CancelSetsStatus, CancelNotifies, vars, tree
<1> QED
  BY <1>2, <1>3, <1>4, <1>5, <1>6, <1>7 DEF Next, Worker, Inside

\* Every variable keeps its type in every behaviour of the engine.
THEOREM TypeCorrect == Spec => []TypeOK
<1>1. Typed /\ [Next]_vars => Typed'
  BY TypeNext, HoldsNext DEF Typed
<1>2. Typed => TypeOK
  BY DEF Typed
<1> QED
  BY TypeInit, <1>1, <1>2, PTL DEF Spec

-----------------------------------------------------------------------------
(* The tree and the stack                                                   *)

\* The tree: parent, subtasks and lineage tell the same story, and no task is
\* above itself.
TreeOK ==
    /\ lineage[Root] = {Root} /\ parent[Root] = None
    /\ \A t \in Task : t \in lineage[t]
    /\ \A t \in Task : parent[t] = None => lineage[t] = {t}
    /\ \A t \in Task : parent[t] # None =>
          /\ Root \in lineage[parent[t]]
          /\ lineage[t] = {t} \cup lineage[parent[t]]
          /\ t \notin lineage[parent[t]]
    /\ \A t \in Task : Root \in lineage[t] => \A a \in lineage[t] : Root \in lineage[a]
    /\ \A t, u \in Task : u \in Items(subtasks[t]) => parent[u] = t

\* The stack: the frames are the lineage of the running task, and every frame
\* below the innermost one waits in a loop of _run_subtasks or in its function.
StackOK ==
    /\ WellStacked
    /\ cur # None => Root \in lineage[cur]
    /\ \A t \in Task : pc[t] # "idle" /\ t # cur
          => pc[t] \in {"function", "subtasks", "report_subtasks"}

LEMMA TreeInit == Init => TreeOK
<1> SUFFICES ASSUME Init PROVE TreeOK
  OBVIOUS
<1>1. /\ Items(Initial) \subseteq Task \ {Root}
      /\ Items(<<>>) = {}
  BY InitialAssumption, ItemsOfSeq DEF Items
<1>2. \A t \in Task : parent[t] # None => t \in Items(Initial) /\ parent[t] = Root
  BY DEF Init
<1>3. \A t \in Task : parent[t] = None => t \notin Items(Initial)
  BY RootAssumption DEF Init
<1>4. lineage[Root] = {Root} /\ parent[Root] = None
  BY <1>1, RootAssumption DEF Init
<1>5. \A t \in Task : t \in lineage[t] /\ (parent[t] = None => lineage[t] = {t})
  BY <1>3, <1>4 DEF Init
<1>6. ASSUME NEW t \in Task, parent[t] # None
      PROVE  /\ Root \in lineage[parent[t]]
             /\ lineage[t] = {t} \cup lineage[parent[t]]
             /\ t \notin lineage[parent[t]]
  <2>1. t \in Items(Initial) /\ parent[t] = Root /\ t # Root
    BY <1>1, <1>2, <1>6
  <2>2. lineage[t] = {t, Root}
    BY <2>1 DEF Init
  <2> QED BY <1>4, <2>1, <2>2
<1>7. \A t, u \in Task : u \in Items(subtasks[t]) => parent[u] = t
  BY <1>1, RootAssumption DEF Init
<1>8. \A t \in Task : Root \in lineage[t] => \A a \in lineage[t] : Root \in lineage[a]
  BY <1>4 DEF Init
<1> QED BY <1>4, <1>5, <1>6, <1>7, <1>8 DEF TreeOK

LEMMA TreeNext == Typed /\ TreeOK /\ StackOK /\ [Next]_vars => TreeOK'
<1> SUFFICES ASSUME Typed, TreeOK, StackOK, [Next]_vars PROVE TreeOK'
  OBVIOUS
<1> USE RootAssumption
<1>1. CASE UNCHANGED tree
  <2>1. UNCHANGED <<parent, subtasks, lineage>>
    BY <1>1 DEF tree
  <2> QED BY <2>1 DEF TreeOK
<1>2. ASSUME NEW t \in Task, NEW u \in Task, AddSubtask(t, u) PROVE TreeOK'
  <2> USE DEF Typed, TypeOK, TreeOK
  <2>1. /\ t # Root /\ Root \notin lineage[u] /\ cur = t
        /\ parent' = [parent EXCEPT ![u] = t]
        /\ lineage' = [lineage EXCEPT ![u] = {u} \cup lineage[t]]
        /\ subtasks' = [subtasks EXCEPT ![t] = Append(subtasks[t], u)]
    BY <1>2 DEF AddSubtask, Linked, At
  <2>2. /\ Root \in lineage[t] /\ t # u /\ u # Root /\ u \notin lineage[t]
        /\ t # None
    BY <2>1 DEF StackOK
  <2>3. \A v \in Task : parent[v] # u
    BY <2>1
  <2>4. lineage'[Root] = {Root} /\ parent'[Root] = None
    BY <2>1, <2>2
  <2>5. \A v \in Task : v \in lineage'[v] /\ (parent'[v] = None => lineage'[v] = {v})
    BY <2>1, <2>2
  <2>6. ASSUME NEW v \in Task, parent'[v] # None
        PROVE  /\ Root \in lineage'[parent'[v]]
               /\ lineage'[v] = {v} \cup lineage'[parent'[v]]
               /\ v \notin lineage'[parent'[v]]
    <3>1. CASE v = u
      BY <2>1, <2>2, <3>1
    <3>2. CASE v # u
      <4>1. parent'[v] = parent[v] /\ lineage'[v] = lineage[v] /\ parent[v] \in Task
        BY <2>1, <2>6, <3>2
      <4>2. lineage'[parent[v]] = lineage[parent[v]]
        BY <2>1, <2>3, <4>1
      <4> QED BY <2>6, <4>1, <4>2
    <3> QED BY <3>1, <3>2
  <2>7. ASSUME NEW v \in Task, Root \in lineage'[v], NEW a \in lineage'[v]
        PROVE  Root \in lineage'[a]
    <3>1. CASE v = u
      <4>1. a = u \/ a \in lineage[t]
        BY <2>1, <3>1, <2>7
      <4> QED BY <2>1, <2>2, <4>1
    <3>2. CASE v # u
      BY <2>1, <2>2, <2>7, <3>2
    <3> QED BY <3>1, <3>2
  <2>8. ASSUME NEW v \in Task, NEW w \in Task, w \in Items(subtasks'[v])
        PROVE  parent'[w] = v
    <3>1. Items(Append(subtasks[t], u)) = Items(subtasks[t]) \cup {u}
      BY ItemsOfAppend
    <3>2. parent[u] = None
      BY <2>1
    <3>3. CASE w = u
      <4>1. u \in Items(subtasks[v]) => parent[u] = v
        OBVIOUS
      <4> QED BY <2>1, <2>8, <3>2, <3>3, <4>1
    <3>4. CASE w # u
      <4>1. w \in Items(subtasks[v])
        BY <2>1, <2>8, <3>1, <3>4
      <4> QED BY <2>1, <3>4, <4>1
    <3> QED BY <3>3, <3>4
  <2> QED
    BY <2>4, <2>5, <2>6, <2>7, <2>8
<1>3. ASSUME ~(UNCHANGED tree)
      PROVE  \E t, u \in Task : AddSubtask(t, u)
  BY <1>3 DEF Next, Worker, Inside, Interface, vars, tree, Admit, Skip, Activate, Notify,
     FunctionReturns, Raise, FailFatal, CancelRoot, FailNonFatal, RunNextSubtask,
     SubtasksDone, Finish, Return, CallAdded, LeaveAdded, SetProgress,
     FinishSelf, CancelSetsEvent, CancelSetsStatus, CancelNotifies
<1> QED
  BY <1>1, <1>2, <1>3

LEMMA StackInit == Init => StackOK
<1> SUFFICES ASSUME Init PROVE StackOK
  OBVIOUS
<1>1. Root \notin Items(Initial)
  BY InitialAssumption, ItemsOfSeq
<1>2. lineage[Root] = {Root} /\ cur = Root /\ Root # None
  BY RootAssumption DEF Init
<1>3. {t \in Task : pc[t] # "idle"} = {Root}
  BY RootAssumption DEF Init
<1>4. \A t \in Task : pc[t] # "idle" => t = cur
  BY <1>2, <1>3
<1> QED
  BY <1>2, <1>3, <1>4 DEF StackOK, WellStacked, Over

\* A step of the innermost frame that stays in its call.
LEMMA StepInside ==
    ASSUME Typed, TreeOK, StackOK, NEW t \in Task, NEW p \in Place \ {"idle"},
           cur = t, cur' = cur, Goto(t, p),
           lineage'[t] = lineage[t]
    PROVE  StackOK'
<1>1. cur # None /\ cur' # None
  BY RootAssumption
<1>2. {u \in Task : pc[u] # "idle"} = lineage[t]
  BY <1>1 DEF StackOK, WellStacked, Over
<1>3. pc' = [pc EXCEPT ![t] = p] /\ p # "idle"
  BY DEF Goto
<1>4. t \in lineage[t] /\ Root \in lineage[t]
  BY <1>1 DEF TreeOK, StackOK
<1>5. {u \in Task : pc'[u] # "idle"} = lineage'[t]
  BY <1>2, <1>3, <1>4 DEF Typed, TypeOK
<1>6. \A u \in Task : pc'[u] # "idle" /\ u # t
          => pc'[u] \in {"function", "subtasks", "report_subtasks"}
  BY <1>3 DEF StackOK, Typed, TypeOK
<1> QED
  BY <1>1, <1>4, <1>5, <1>6 DEF StackOK, WellStacked, Over

\* A call of a subtask by the innermost frame.
LEMMA StepCall ==
    ASSUME Typed, TreeOK, StackOK, NEW t \in Task, NEW u \in Task,
           cur = t, parent[u] = t, cur' = u, UNCHANGED tree,
           pc'[t] \in {"function", "subtasks", "report_subtasks"},
           pc'[u] = "check",
           \A v \in Task \ {t, u} : pc'[v] = pc[v]
    PROVE  StackOK'
<1>1. cur # None /\ cur' # None /\ parent[u] # None
  BY RootAssumption
<1>2. {v \in Task : pc[v] # "idle"} = lineage[t]
  BY <1>1 DEF StackOK, WellStacked, Over
<1>3. /\ lineage[u] = {u} \cup lineage[t] /\ u \notin lineage[t]
      /\ t \in lineage[t] /\ Root \in lineage[t]
  BY <1>1 DEF TreeOK, StackOK
<1>4. UNCHANGED lineage
  BY DEF tree
<1>5. {v \in Task : pc'[v] # "idle"} = lineage'[u]
  <2>1. \A v \in Task : pc'[v] # "idle" <=> v \in lineage[t] \/ v = u
    BY <1>2, <1>3
  <2> QED BY <1>3, <1>4, <2>1 DEF Typed, TypeOK
<1>6. \A v \in Task : pc'[v] # "idle" /\ v # u
          => pc'[v] \in {"function", "subtasks", "report_subtasks"}
  BY DEF StackOK
<1> QED
  BY <1>1, <1>3, <1>4, <1>5, <1>6 DEF StackOK, WellStacked, Over

LEMMA StackNext == Typed /\ TreeOK /\ StackOK /\ [Next]_vars => StackOK'
<1> SUFFICES ASSUME Typed, TreeOK, StackOK, [Next]_vars PROVE StackOK'
  OBVIOUS
<1>1. ASSUME NEW t \in Task, NEW p \in Place \ {"idle"},
             At(t, Place), Goto(t, p), UNCHANGED <<tree, cur>>
      PROVE  StackOK'
  BY <1>1, StepInside DEF At, tree
<1>2. ASSUME NEW t \in Task,
             \/ Admit(t) \/ Skip(t) \/ Activate(t) \/ FunctionReturns(t)
             \/ Raise(t) \/ FailFatal(t) \/ CancelRoot(t) \/ FailNonFatal(t)
             \/ LeaveAdded(t) \/ FinishSelf(t)
      PROVE  StackOK'
  <2>1. At(t, Place) /\ UNCHANGED <<tree, cur>>
    BY <1>2 DEF Admit, Skip, Activate, FunctionReturns, Raise, FailFatal,
       CancelRoot, FailNonFatal, LeaveAdded, FinishSelf, At, flow, Typed, TypeOK
  <2>2. \E p \in Place \ {"idle"} : Goto(t, p)
    BY <1>2 DEF Admit, Skip, Activate, FunctionReturns, Raise, FailFatal,
       CancelRoot, FailNonFatal, LeaveAdded, FinishSelf, Place, Notifying
  <2> QED BY <1>1, <2>1, <2>2
<1>3. ASSUME NEW t \in Task, Notify(t) PROVE StackOK'
  <2>1. Resume(pc[t]) \in Place \ {"idle"}
    BY <1>3 DEF Notify, At, Resume, Place, Notifying
  <2>2. At(t, Place) /\ Goto(t, Resume(pc[t])) /\ UNCHANGED <<tree, cur>>
    BY <1>3 DEF Notify, At, flow, Place
  <2> QED BY <1>1, <2>1, <2>2
<1>4. ASSUME NEW t \in Task, SubtasksDone(t) \/ Finish(t) \/ SetProgress(t)
      PROVE  StackOK'
  <2>1. At(t, Place) /\ UNCHANGED <<tree, cur>>
    BY <1>4 DEF SubtasksDone, Finish, SetProgress, At, flow, Place
  <2>2. CASE SubtasksDone(t)
    BY <1>1, <2>1, <2>2 DEF SubtasksDone, Place
  <2>3. CASE Finish(t)
    BY <1>1, <2>1, <2>3 DEF Finish, Place, Notifying
  <2>4. CASE SetProgress(t)
    BY <1>1, <2>1, <2>4 DEF SetProgress, Place, Notifying
  <2> QED BY <1>4, <2>2, <2>3, <2>4
<1>5. ASSUME NEW t \in Task, RunNextSubtask(t) PROVE StackOK'
  <2> DEFINE u == subtasks[t][next[t]]
  <2>1. subtasks[t] \in Seq(Task) /\ next[t] \in 1 .. Len(subtasks[t])
    BY <1>5 DEF RunNextSubtask, MoreSubtasks, Typed, TypeOK
  <2>2. u \in Task /\ u \in Items(subtasks[t])
    BY <2>1, ItemsOfSeq DEF Items
  <2>3. parent[u] = t
    BY <2>2 DEF TreeOK
  <2>4. /\ cur = t /\ cur' = u /\ UNCHANGED tree
        /\ pc' = [pc EXCEPT ![u] = "check"]
        /\ pc[t] \in {"subtasks", "report_subtasks"}
    BY <1>5 DEF RunNextSubtask, Call, At
  <2>5. t # u
    BY <2>3, RootAssumption DEF TreeOK
  <2> HIDE DEF u
  <2> QED BY <2>2, <2>3, <2>4, <2>5, StepCall DEF Typed, TypeOK
<1>6. ASSUME NEW t \in Task, CallAdded(t) PROVE StackOK'
  <2> DEFINE u == subtasks[t][Len(subtasks[t])]
  <2>1. subtasks[t] \in Seq(Task) /\ Len(subtasks[t]) \in 1 .. Len(subtasks[t])
    BY <1>6 DEF CallAdded, At, Typed, TypeOK, HoldsOne
  <2>2. u \in Task /\ u \in Items(subtasks[t])
    BY <2>1, ItemsOfSeq DEF Items
  <2>3. parent[u] = t
    BY <2>2 DEF TreeOK
  <2>4. /\ cur = t /\ cur' = u /\ UNCHANGED tree
        /\ pc' = [pc EXCEPT ![t] = "function", ![u] = "check"]
    BY <1>6 DEF CallAdded, At
  <2>5. t # u
    BY <2>3, RootAssumption DEF TreeOK
  <2> HIDE DEF u
  <2> QED BY <2>2, <2>3, <2>4, <2>5, StepCall DEF Typed, TypeOK
<1>7. ASSUME NEW t \in Task, Return(t) PROVE StackOK'
  <2>1. /\ cur = t /\ cur' = parent[t] /\ UNCHANGED tree
        /\ pc' = [pc EXCEPT ![t] = "idle"]
    BY <1>7 DEF Return, At, Goto
  <2>2. {v \in Task : pc[v] # "idle"} = lineage[t] /\ lineage' = lineage
    BY <2>1, RootAssumption DEF StackOK, WellStacked, Over, tree
  <2>3. {v \in Task : pc'[v] # "idle"} = lineage[t] \ {t}
    BY <2>1, <2>2 DEF Typed, TypeOK
  <2>4. \A v \in Task : pc'[v] # "idle"
            => pc'[v] \in {"function", "subtasks", "report_subtasks"}
    BY <2>1 DEF StackOK, Typed, TypeOK
  <2>5. CASE parent[t] = None
    BY <2>1, <2>2, <2>3, <2>4, <2>5 DEF TreeOK, StackOK, WellStacked, Over
  <2>6. CASE parent[t] # None
    BY <2>1, <2>2, <2>3, <2>4, <2>6 DEF TreeOK, StackOK, WellStacked, Over
  <2> QED BY <2>5, <2>6
<1>8. ASSUME NEW t \in Task, NEW u \in Task, AddSubtask(t, u) PROVE StackOK'
  <2>1. /\ cur = t /\ cur' = cur /\ Goto(t, "added")
        /\ lineage' = [lineage EXCEPT ![u] = {u} \cup lineage[t]]
        /\ Root \notin lineage[u]
    BY <1>8 DEF AddSubtask, At, flow, Linked
  <2>2. t # u
    BY <2>1, RootAssumption DEF StackOK
  <2>3. lineage'[t] = lineage[t]
    BY <2>1, <2>2 DEF Typed, TypeOK
  <2> QED BY <2>1, <2>3, StepInside DEF Place, Notifying
<1>9. CASE Interface \/ UNCHANGED vars
  BY <1>9 DEF Interface, CancelSetsEvent, CancelSetsStatus, CancelNotifies,
     vars, tree, flow, StackOK, WellStacked, Over
<1> QED
  BY <1>2, <1>3, <1>4, <1>5, <1>6, <1>7, <1>8, <1>9 DEF Next, Worker, Inside

-----------------------------------------------------------------------------
(* The inductive invariant                                                  *)

\* ACTIVE and INACTIVE tell where a task is: one that has raised, has been
\* finished or is about to return is not ACTIVE any more, one that is at work
\* has left INACTIVE.
StatusOK ==
    \A t \in Task :
        /\ status[t] = "ACTIVE"
              => pc[t] \notin {"idle", "check", "activate", "raised", "cancel",
                               "cancelled", "finished", "return"}
        /\ status[t] = "INACTIVE"
              => pc[t] \in {"idle", "check", "activate", "return"}

IInv == Typed /\ TreeOK /\ StackOK /\ StatusOK

LEMMA StatusInit == Init => StatusOK
BY DEF Init, StatusOK

\* A frame moves, no status changes.
LEMMA StatusMoves ==
    ASSUME Typed, StatusOK, NEW t \in Task, NEW p, Goto(t, p), UNCHANGED status,
           status[t] # "ACTIVE"
              \/ p \notin {"idle", "check", "activate", "raised", "cancel",
                           "cancelled", "finished", "return"},
           status[t] # "INACTIVE" \/ p \in {"idle", "check", "activate", "return"}
    PROVE  StatusOK'
BY DEF StatusOK, Goto, Typed, TypeOK

LEMMA StatusNext == Typed /\ TreeOK /\ StackOK /\ StatusOK /\ [Next]_vars => StatusOK'
<1> SUFFICES ASSUME Typed, TreeOK, StackOK, StatusOK, [Next]_vars PROVE StatusOK'
  OBVIOUS
<1>1. ASSUME NEW t \in Task,
             \/ Admit(t) \/ Skip(t) \/ FunctionReturns(t) \/ FailFatal(t)
             \/ FailNonFatal(t) \/ LeaveAdded(t) \/ FinishSelf(t) \/ Return(t)
      PROVE  StatusOK'
  BY <1>1, StatusMoves DEF Admit, Skip, FunctionReturns, FailFatal,
     FailNonFatal, LeaveAdded, FinishSelf, Return, At, StatusOK
<1>2. ASSUME NEW t \in Task, Notify(t) PROVE StatusOK'
  <2>1. Goto(t, Resume(pc[t])) /\ UNCHANGED status /\ pc[t] \in Notifying
    BY <1>2 DEF Notify, At
  <2>2. status[t] # "INACTIVE"
    BY <2>1 DEF StatusOK, Notifying
  <2>3. status[t] = "ACTIVE" => Resume(pc[t]) \in {"function", "holding", "subtasks"}
    BY <2>1 DEF StatusOK, Notifying, Resume
  <2> QED BY <2>1, <2>2, <2>3, StatusMoves
<1>3. ASSUME NEW t \in Task, NEW u \in Task, AddSubtask(t, u) PROVE StatusOK'
  BY <1>3, StatusMoves DEF AddSubtask, At, StatusOK
<1>4. ASSUME NEW t \in Task, SubtasksDone(t) \/ SetProgress(t) PROVE StatusOK'
  <2>1. UNCHANGED status /\ status[t] # "INACTIVE"
    BY <1>4 DEF SubtasksDone, SetProgress, At, StatusOK
  <2>2. CASE SubtasksDone(t)
    BY <2>1, <2>2, StatusMoves DEF SubtasksDone
  <2>3. CASE SetProgress(t)
    BY <2>1, <2>3, StatusMoves DEF SetProgress
  <2> QED BY <1>4, <2>2, <2>3
<1>5. ASSUME NEW t \in Task, Activate(t) \/ Raise(t) PROVE StatusOK'
  BY <1>5 DEF Activate, Raise, At, Goto, StatusOK, Typed, TypeOK
<1>6. ASSUME NEW t \in Task, CancelRoot(t) PROVE StatusOK'
  <2>1. /\ status' = [status EXCEPT ![Root] = "CANCELLED"]
        /\ pc' = [pc EXCEPT ![t] = "cancelled"] /\ pc[t] = "cancel"
    BY <1>6 DEF CancelRoot, At, Goto
  <2> QED BY <2>1 DEF StatusOK, Typed, TypeOK
<1>7. ASSUME NEW t \in Task, Finish(t) PROVE StatusOK'
  <2>1. /\ status' = [status EXCEPT ![t] = "COMPLETED"]
        /\ \E p : pc' = [pc EXCEPT ![t] = p]
    BY <1>7 DEF Finish, Goto
  <2> QED BY <2>1 DEF StatusOK, Typed, TypeOK
<1>8. ASSUME NEW t \in Task, NEW u \in Task, UNCHANGED status, pc[u] = "idle",
             \/ pc' = [pc EXCEPT ![u] = "check"]
             \/ /\ pc' = [pc EXCEPT ![t] = "function", ![u] = "check"]
                /\ pc[t] = "holding"
      PROVE  StatusOK'
  BY <1>8 DEF StatusOK, Typed, TypeOK
<1>9. ASSUME NEW t \in Task, NEW u \in Task, cur = t, u \in Items(subtasks[t])
      PROVE  pc[u] = "idle"
  <2>1. parent[u] = t /\ t # None
    BY <1>9, RootAssumption DEF TreeOK
  <2>2. u \notin lineage[cur]
    BY <1>9, <2>1 DEF TreeOK
  <2> QED BY <1>9, <2>1, <2>2 DEF StackOK, WellStacked, Over
<1>10. ASSUME NEW t \in Task, RunNextSubtask(t) PROVE StatusOK'
  <2>1. subtasks[t] \in Seq(Task) /\ next[t] \in 1 .. Len(subtasks[t])
    BY <1>10 DEF RunNextSubtask, MoreSubtasks, Typed, TypeOK
  <2>2. subtasks[t][next[t]] \in Task /\ subtasks[t][next[t]] \in Items(subtasks[t])
    BY <2>1, ItemsOfSeq DEF Items
  <2> QED BY <1>8, <1>9, <1>10, <2>2 DEF RunNextSubtask, Call, At
<1>11. ASSUME NEW t \in Task, CallAdded(t) PROVE StatusOK'
  <2> DEFINE u == subtasks[t][Len(subtasks[t])]
  <2>1. subtasks[t] \in Seq(Task) /\ Len(subtasks[t]) \in 1 .. Len(subtasks[t])
    BY <1>11 DEF CallAdded, At, Typed, TypeOK, HoldsOne
  <2>2. u \in Task /\ u \in Items(subtasks[t])
    BY <2>1, ItemsOfSeq DEF Items
  <2>3. /\ pc' = [pc EXCEPT ![t] = "function", ![u] = "check"]
        /\ pc[t] = "holding" /\ cur = t /\ UNCHANGED status
    BY <1>11 DEF CallAdded, At
  <2> HIDE DEF u
  <2>4. pc[u] = "idle"
    BY <1>9, <2>2, <2>3
  <2> QED BY <1>8, <2>2, <2>3, <2>4
<1>12. CASE Interface \/ UNCHANGED vars
  BY <1>12 DEF Interface, CancelSetsEvent, CancelSetsStatus, CancelNotifies,
     vars, StatusOK, Typed, TypeOK
<1> QED
  BY <1>1, <1>2, <1>3, <1>4, <1>5, <1>6, <1>7, <1>10, <1>11, <1>12
     DEF Next, Worker, Inside

\* The four parts together are inductive: each needs the others, the stack the
\* tree it walks, the statuses the stack they belong to.
THEOREM Inductive == Spec => []IInv
<1>1. Init => IInv
  BY TypeInit, TreeInit, StackInit, StatusInit DEF IInv
<1>2. IInv /\ [Next]_vars => IInv'
  BY TypeNext, HoldsNext, TreeNext, StackNext, StatusNext DEF IInv, Typed
<1> QED
  BY <1>1, <1>2, PTL DEF Spec

\* The worker's stack is always the path from the running task to the root,
\* and empty once the list is over.
THEOREM StackIsLineage == Spec => []WellStacked
<1>1. IInv => WellStacked
  BY DEF IInv, StackOK
<1> QED
  BY <1>1, Inductive, PTL

\* No task stays ACTIVE once its call has returned, however it ended.
THEOREM NothingStaysActive == Spec => []ActiveOnStack
<1>1. IInv => ActiveOnStack
  BY DEF IInv, StatusOK, ActiveOnStack
<1> QED
  BY <1>1, Inductive, PTL

-----------------------------------------------------------------------------
(* The engine implements AdmissionControl                                   *)

LEMMA PromiseInit == Init => Promise!AInit
<1> SUFFICES ASSUME Init PROVE Halted = FALSE /\ Admitted = None /\ Started = {}
  BY DEF Promise!AInit
<1> QED
  BY RootAssumption DEF Init, Halted, Admitted, Started

\* While a task other than the root is innermost, the root is in its loop.
LEMMA RootWaits ==
    ASSUME IInv, cur \in Task \ {Root}
    PROVE  pc[Root] \in {"function", "subtasks", "report_subtasks"}
<1>1. Root \in lineage[cur] /\ cur # None
  BY RootAssumption DEF IInv, StackOK
<1>2. pc[Root] # "idle"
  BY <1>1, RootAssumption DEF IInv, StackOK, WellStacked, Over
<1> QED
  BY <1>2, RootAssumption DEF IInv, StackOK

\* A step that leaves the three abstract variables alone.
LEMMA Stutters ==
    ASSUME Halted' = Halted, Admitted' = Admitted, Started' = Started
    PROVE  [Promise!ANext]_(Promise!avars)
BY DEF Promise!avars

\* A step that may halt the list and leaves the others alone.
LEMMA Halts ==
    ASSUME Halted' \/ Halted' = Halted, Admitted' = Admitted, Started' = Started
    PROVE  [Promise!ANext]_(Promise!avars)
BY DEF Promise!avars, Promise!ANext, Promise!AHalt, Halted

LEMMA PromiseNext == IInv /\ IInv' /\ [Next]_vars => [Promise!ANext]_(Promise!avars)
<1> SUFFICES ASSUME IInv, IInv', [Next]_vars PROVE [Promise!ANext]_(Promise!avars)
  OBVIOUS
<1> USE RootAssumption
<1>0. TypeOK
  BY DEF IInv, Typed
<1>1. ASSUME NEW t \in Task, Admit(t) PROVE [Promise!ANext]_(Promise!avars)
  <2>1. /\ cur = t /\ cur' = t /\ UNCHANGED status /\ status[t] = "INACTIVE"
        /\ pc[t] = "check" /\ pc' = [pc EXCEPT ![t] = "activate"]
        /\ parent[t] # None => IsActive(parent[t])
    BY <1>1 DEF Admit, At, Goto, flow
  <2>2. Started' = Started /\ t \notin Started
    BY <2>1 DEF Started
  <2>3. CASE t = Root
    BY <1>0, <2>1, <2>2, <2>3, Stutters DEF Halted, Admitted, TypeOK
  <2>4. CASE t # Root
    <3>1. parent[t] # None
      <4>1. Root \in lineage[t]
        BY <2>1 DEF IInv, StackOK
      <4> QED BY <4>1, <2>4 DEF IInv, TreeOK
    <3>2. status[Root] = "ACTIVE"
      BY <2>1, <3>1 DEF IsActive, IInv, TreeOK
    <3>3. Halted = FALSE /\ Halted' = FALSE
      BY <2>1, <3>2 DEF Halted
    <3>4. Admitted = None /\ Admitted' = t
      BY <1>0, <2>1, <2>4 DEF Admitted, TypeOK
    <3>5. Promise!AAdmit(t)
      BY <2>2, <3>3, <3>4 DEF Promise!AAdmit
    <3> QED BY <2>4, <3>5 DEF Promise!ANext
  <2> QED BY <2>3, <2>4
<1>2. ASSUME NEW t \in Task, Activate(t) PROVE [Promise!ANext]_(Promise!avars)
  <2>1. /\ cur = t /\ cur' = t /\ status' = [status EXCEPT ![t] = "ACTIVE"]
        /\ pc[t] = "activate" /\ pc' = [pc EXCEPT ![t] = "announce"]
    BY <1>2 DEF Activate, At, Goto, flow
  <2>2. CASE t = Root
    BY <1>0, <2>1, <2>2, Stutters DEF Halted, Admitted, Started, TypeOK
  <2>3. CASE t # Root
    <3>1. Halted' = Halted
      BY <1>0, <2>1, <2>3 DEF Halted, TypeOK
    <3>2. Admitted = t /\ Admitted' = None
      BY <1>0, <2>1, <2>3 DEF Admitted, TypeOK
    <3>3. Started' = Started \cup {t}
      BY <1>0, <2>1, <2>3 DEF Started, TypeOK
    <3>4. Promise!AStart
      BY <3>1, <3>2, <3>3 DEF Promise!AStart
    <3> QED BY <3>4 DEF Promise!ANext
  <2> QED BY <2>2, <2>3
<1>3. ASSUME NEW t \in Task, NEW p, cur = t, cur' = t, UNCHANGED status,
             pc[t] # "activate", p # "activate", Goto(t, p),
             pc[t] = "check" => p = "return" /\ (t = Root => status[Root] # "ACTIVE"),
             p # "check"
      PROVE  [Promise!ANext]_(Promise!avars)
  <2>1. pc' = [pc EXCEPT ![t] = p]
    BY <1>3 DEF Goto
  <2>2. Started' = Started /\ Admitted' = Admitted
    BY <1>0, <1>3, <2>1 DEF Started, Admitted, TypeOK
  <2>3. Halted' \/ Halted' = Halted
    BY <1>0, <1>3, <2>1 DEF Halted, TypeOK
  <2> QED BY <2>2, <2>3, Halts
<1>4. ASSUME NEW t \in Task,
             \/ Skip(t) \/ FunctionReturns(t) \/ FailFatal(t)
             \/ FailNonFatal(t) \/ LeaveAdded(t) \/ FinishSelf(t)
             \/ \E u \in Task : AddSubtask(t, u)
      PROVE  [Promise!ANext]_(Promise!avars)
  <2>1. CASE Skip(t)
    <3>1. status[Root] = "ACTIVE" => pc[Root] # "check"
      BY DEF IInv, StatusOK
    <3> QED BY <1>3, <2>1, <3>1 DEF Skip, At, flow
  <2>2. CASE ~Skip(t)
    BY <1>3, <1>4, <2>2 DEF FunctionReturns, FailFatal, FailNonFatal,
       LeaveAdded, FinishSelf, AddSubtask, At, flow
  <2> QED BY <2>1, <2>2
<1>5. ASSUME NEW t \in Task, Notify(t) PROVE [Promise!ANext]_(Promise!avars)
  <2>1. /\ pc[t] \in Notifying /\ Goto(t, Resume(pc[t]))
        /\ cur = t /\ cur' = t /\ UNCHANGED status
    BY <1>5 DEF Notify, At, flow
  <2>2. Resume(pc[t]) \notin {"activate", "check"} /\ pc[t] \notin {"activate", "check"}
    BY <2>1 DEF Resume, Notifying
  <2> QED BY <1>3, <2>1, <2>2
<1>6. ASSUME NEW t \in Task, SubtasksDone(t) \/ SetProgress(t)
      PROVE  [Promise!ANext]_(Promise!avars)
  <2>1. CASE SubtasksDone(t)
    BY <1>3, <2>1 DEF SubtasksDone, At
  <2>2. CASE SetProgress(t)
    BY <1>3, <2>2 DEF SetProgress, At
  <2> QED BY <1>6, <2>1, <2>2
<1>7. ASSUME NEW t \in Task, NEW p, NEW v \in {"FAILED", "COMPLETED"},
             cur = t, cur' = t, Goto(t, p), p \notin {"activate", "check"},
             pc[t] \notin {"idle", "check", "activate", "return"},
             status' = [status EXCEPT ![t] = v]
      PROVE  [Promise!ANext]_(Promise!avars)
  <2>1. pc' = [pc EXCEPT ![t] = p] /\ status[t] # "INACTIVE"
    BY <1>7 DEF Goto, IInv, StatusOK
  <2>2. Started' = Started
    BY <1>0, <1>7, <2>1 DEF Started, TypeOK
  <2>3. Admitted' = Admitted
    BY <1>0, <1>7, <2>1 DEF Admitted, TypeOK
  <2>4. Halted' \/ Halted' = Halted
    BY <1>0, <1>7, <2>1 DEF Halted, TypeOK
  <2> QED BY <2>2, <2>3, <2>4, Halts
<1>8. ASSUME NEW t \in Task, Raise(t) \/ Finish(t)
      PROVE  [Promise!ANext]_(Promise!avars)
  <2>1. CASE Raise(t)
    BY <1>7, <2>1 DEF Raise, At, flow
  <2>2. CASE Finish(t)
    BY <1>7, <2>2 DEF Finish, At, flow
  <2> QED BY <1>8, <2>1, <2>2
<1>9. ASSUME status' = [status EXCEPT ![Root] = "CANCELLED"],
             Admitted' = Admitted,
             \/ UNCHANGED pc
             \/ \E t \in Task : cur = t /\ pc[t] = "cancel"
                                /\ pc' = [pc EXCEPT ![t] = "cancelled"]
      PROVE  [Promise!ANext]_(Promise!avars)
  <2>1. Started' = Started
    BY <1>0, <1>9 DEF Started, TypeOK
  <2>2. Halted' \/ Halted' = Halted
    BY <1>0, <1>9 DEF Halted, TypeOK
  <2> QED BY <1>9, <2>1, <2>2, Halts
<1>10. ASSUME NEW t \in Task, CancelRoot(t) PROVE [Promise!ANext]_(Promise!avars)
  <2>1. /\ cur = t /\ cur' = t /\ pc[t] = "cancel"
        /\ pc' = [pc EXCEPT ![t] = "cancelled"]
        /\ status' = [status EXCEPT ![Root] = "CANCELLED"]
    BY <1>10 DEF CancelRoot, At, Goto, flow
  <2>2. Admitted' = Admitted
    BY <1>0, <2>1 DEF Admitted, TypeOK
  <2> QED BY <1>9, <2>1, <2>2
<1>11. ASSUME NEW t \in Task, NEW u \in Task \ {Root}, cur = t, cur' = u,
              UNCHANGED status, pc[t] \in {"subtasks", "report_subtasks", "holding"},
              pc[u] = "idle",
              \/ pc' = [pc EXCEPT ![u] = "check"]
              \/ pc' = [pc EXCEPT ![t] = "function", ![u] = "check"]
      PROVE  [Promise!ANext]_(Promise!avars)
  <2>1. Started' = Started
    BY <1>11 DEF Started
  <2>2. Admitted = None /\ Admitted' = None
    BY <1>0, <1>11 DEF Admitted, TypeOK
  <2>3. Halted' = Halted
    BY <1>0, <1>11 DEF Halted, TypeOK
  <2> QED BY <2>1, <2>2, <2>3, Stutters
<1>12. ASSUME NEW t \in Task, NEW u \in Task, cur = t, u \in Items(subtasks[t])
       PROVE  u # Root /\ pc[u] = "idle"
  <2>1. parent[u] = t /\ t # None
    BY <1>12 DEF IInv, TreeOK
  <2>2. u \notin lineage[cur] /\ u # Root
    BY <1>12, <2>1 DEF IInv, TreeOK
  <2> QED BY <1>12, <2>1, <2>2 DEF IInv, StackOK, WellStacked, Over
<1>13. ASSUME NEW t \in Task, RunNextSubtask(t) PROVE [Promise!ANext]_(Promise!avars)
  <2> DEFINE u == subtasks[t][next[t]]
  <2>1. subtasks[t] \in Seq(Task) /\ next[t] \in 1 .. Len(subtasks[t])
    BY <1>0, <1>13 DEF RunNextSubtask, MoreSubtasks, TypeOK
  <2>2. u \in Task /\ u \in Items(subtasks[t])
    BY <2>1, ItemsOfSeq DEF Items
  <2>3. /\ cur = t /\ cur' = u /\ UNCHANGED status
        /\ pc[t] \in {"subtasks", "report_subtasks", "holding"}
        /\ pc' = [pc EXCEPT ![u] = "check"]
    BY <1>13 DEF RunNextSubtask, Call, At
  <2> HIDE DEF u
  <2> QED BY <1>11, <1>12, <2>2, <2>3
<1>14. ASSUME NEW t \in Task, CallAdded(t) PROVE [Promise!ANext]_(Promise!avars)
  <2> DEFINE u == subtasks[t][Len(subtasks[t])]
  <2>1. subtasks[t] \in Seq(Task) /\ Len(subtasks[t]) \in 1 .. Len(subtasks[t])
    BY <1>0, <1>14 DEF CallAdded, At, IInv, Typed, TypeOK, HoldsOne
  <2>2. u \in Task /\ u \in Items(subtasks[t])
    BY <2>1, ItemsOfSeq DEF Items
  <2>3. /\ cur = t /\ cur' = u /\ UNCHANGED status
        /\ pc[t] \in {"subtasks", "report_subtasks", "holding"}
        /\ pc' = [pc EXCEPT ![t] = "function", ![u] = "check"]
    BY <1>14 DEF CallAdded, At
  <2> HIDE DEF u
  <2> QED BY <1>11, <1>12, <2>2, <2>3
<1>15. ASSUME NEW t \in Task, Return(t) PROVE [Promise!ANext]_(Promise!avars)
  <2>1. /\ cur = t /\ cur' = parent[t] /\ UNCHANGED status /\ pc[t] = "return"
        /\ pc' = [pc EXCEPT ![t] = "idle"]
    BY <1>15 DEF Return, At, Goto
  <2>2. Started' = Started /\ Halted' = Halted
    BY <1>0, <2>1 DEF Started, Halted, TypeOK
  <2>3. Admitted = None
    BY <2>1 DEF Admitted
  <2>4. \A v \in Task : v # t => pc[v] # "activate"
    BY <2>1 DEF IInv, StackOK
  <2>5. Admitted' = None
    BY <1>0, <2>1, <2>4 DEF Admitted, TypeOK
  <2> QED BY <2>2, <2>3, <2>5, Stutters
<1>16. CASE CancelSetsStatus
  <2>1. Admitted' = Admitted
    BY <1>16 DEF CancelSetsStatus, Admitted, flow
  <2> QED BY <1>9, <1>16, <2>1 DEF CancelSetsStatus
<1>17. CASE CancelSetsEvent \/ CancelNotifies \/ UNCHANGED vars
  BY <1>17, Stutters DEF CancelSetsEvent, CancelNotifies, vars, flow, Halted,
     Admitted, Started
<1> QED
  BY <1>1, <1>2, <1>4, <1>5, <1>6, <1>8, <1>10, <1>13, <1>14, <1>15, <1>16,
     <1>17 DEF Next, Worker, Inside, Interface

\* For every set of tasks and every interleaving with the interface thread, no
\* task starts twice, none is admitted once the list is halted, and at most
\* one admitted earlier still starts.
THEOREM EngineKeepsPromise == Spec => KeepsPromise
<1>1. Init => Promise!AInit
  BY PromiseInit
<1>2. IInv /\ IInv' /\ [Next]_vars => [Promise!ANext]_(Promise!avars)
  BY PromiseNext
<1> QED
  BY <1>1, <1>2, Inductive, PTL DEF Spec, KeepsPromise, Promise!ASpec

-----------------------------------------------------------------------------
(* The tree, seen from below                                                *)

\* What lies above a task: all that lies above those above it, and never the
\* task itself again; and a task is found where its parent looks for it.
TreeMore ==
    /\ \A t \in Task : \A a \in lineage[t] : lineage[a] \subseteq lineage[t]
    /\ \A t \in Task : \A a \in lineage[t] : t \in lineage[a] => a = t
    /\ \A t \in Task : parent[t] # None => t \in Items(subtasks[parent[t]])

\* The initial list hangs under the root and nothing hangs under it.
LEMMA TreeMoreInit == Init => TreeMore
<1> SUFFICES ASSUME Init PROVE TreeMore
  OBVIOUS
<1>1. /\ Items(Initial) \subseteq Task \ {Root}
      /\ \A t \in Task : parent[t] # None => t \in Items(Initial) /\ parent[t] = Root
      /\ subtasks[Root] = Initial
      /\ \A t \in Task : lineage[t] = IF t \in Items(Initial) \cup {Root} THEN {t, Root} ELSE {t}
  BY InitialAssumption, RootAssumption, ItemsOfSeq DEF Init
<1> HIDE DEF Init
<1>2. lineage[Root] = {Root}
  BY <1>1, RootAssumption
<1>3. ASSUME NEW t \in Task, NEW a \in lineage[t]
      PROVE  (a = t \/ a = Root) /\ lineage[a] \subseteq lineage[t] /\ (t \in lineage[a] => a = t)
  <2>1. lineage[t] = {t, Root} \/ lineage[t] = {t}
    <3>1. lineage[t] = IF t \in Items(Initial) \cup {Root} THEN {t, Root} ELSE {t}
      BY <1>1
    <3> QED BY <3>1
  <2> QED BY <1>2, <1>3, <2>1
<1>4. \A t \in Task : parent[t] # None => t \in Items(subtasks[parent[t]])
  BY <1>1
<1> QED BY <1>3, <1>4 DEF TreeMore

\* Only add_subtask changes the tree, and the task it adds is below nobody.
LEMMA TreeMoreNext == IInv /\ TreeMore /\ [Next]_vars => TreeMore'
<1> SUFFICES ASSUME IInv, TreeMore, [Next]_vars PROVE TreeMore'
  OBVIOUS
<1> USE RootAssumption
<1>1. CASE UNCHANGED tree
  <2>1. UNCHANGED <<parent, subtasks, lineage>>
    BY <1>1 DEF tree
  <2> QED BY <2>1 DEF TreeMore
<1>2. ASSUME NEW t \in Task, NEW u \in Task, AddSubtask(t, u) PROVE TreeMore'
  <2>1. /\ parent' = [parent EXCEPT ![u] = t]
        /\ lineage' = [lineage EXCEPT ![u] = {u} \cup lineage[t]]
        /\ subtasks' = [subtasks EXCEPT ![t] = Append(subtasks[t], u)]
        /\ Root \notin lineage[u] /\ cur = t
    BY <1>2 DEF AddSubtask, At, Linked
  <2>2. /\ subtasks \in [Task -> Seq(Task)] /\ parent \in [Task -> Task \cup {None}]
        /\ lineage \in [Task -> SUBSET Task]
    BY DEF IInv, Typed, TypeOK
  <2>3. \A x \in Task : /\ lineage'[x] = IF x = u THEN {u} \cup lineage[t] ELSE lineage[x]
                        /\ parent'[x] = IF x = u THEN t ELSE parent[x]
                        /\ Items(subtasks[x]) \subseteq Items(subtasks'[x])
    BY <2>1, <2>2, ItemsOfAppend
  <2>4. u \in Items(subtasks'[t])
    BY <2>1, <2>2, ItemsOfAppend
  <2>5. Root \in lineage[t]
    BY <2>1 DEF IInv, StackOK
  \* nobody lies below u yet
  <2>6. ASSUME NEW x \in Task, u \in lineage[x] PROVE x = u
    <3>1. CASE parent[x] = None
      BY <2>6, <3>1 DEF IInv, TreeOK
    <3>2. CASE parent[x] # None
      <4>1. Root \in lineage[parent[x]] /\ lineage[x] = {x} \cup lineage[parent[x]]
        BY <3>2 DEF IInv, TreeOK
      <4>2. Root \in lineage[u]
        BY <2>6, <4>1 DEF IInv, TreeOK
      <4> QED BY <2>1, <4>2
    <3> QED BY <3>1, <3>2
  <2>7. u # t /\ u \notin lineage[t]
    BY <2>1, <2>5, <2>6
  <2>8. ASSUME NEW x \in Task, NEW a \in lineage'[x]
        PROVE  lineage'[a] \subseteq lineage'[x] /\ (x \in lineage'[a] => a = x)
    <3>1. CASE x = u
      <4>1. CASE a = u
        BY <3>1, <4>1
      <4>2. CASE a # u
        <5>1. a \in lineage[t] /\ a \in Task /\ lineage'[a] = lineage[a]
          BY <2>2, <2>3, <2>8, <3>1, <4>2
        <5>2. lineage[a] \subseteq lineage[t]
          BY <5>1 DEF TreeMore
        <5> QED BY <2>3, <2>7, <3>1, <5>1, <5>2
      <4> QED BY <4>1, <4>2
    <3>2. CASE x # u
      <4>1. a \in lineage[x] /\ a \in Task /\ a # u
        BY <2>2, <2>3, <2>6, <2>8, <3>2
      <4>2. lineage'[a] = lineage[a] /\ lineage'[x] = lineage[x]
        BY <2>3, <3>2, <4>1
      <4> QED BY <4>1, <4>2 DEF TreeMore
    <3> QED BY <3>1, <3>2
  <2>9. ASSUME NEW x \in Task, parent'[x] # None PROVE x \in Items(subtasks'[parent'[x]])
    <3>1. CASE x = u
      BY <2>3, <2>4, <3>1
    <3>2. CASE x # u
      <4>1. parent'[x] = parent[x] /\ parent[x] \in Task
        BY <2>2, <2>3, <2>9, <3>2
      <4> QED BY <2>3, <2>9, <4>1 DEF TreeMore
    <3> QED BY <3>1, <3>2
  <2> QED BY <2>8, <2>9 DEF TreeMore
<1>3. ASSUME NEW t \in Task, Inside(t) \/ Notify(t) PROVE TreeMore'
  BY <1>1, <1>2, <1>3 DEF Inside, Notify, Admit, Skip, Activate, FunctionReturns, Raise,
     FailFatal, CancelRoot, FailNonFatal, RunNextSubtask, SubtasksDone, Finish, Return,
     CallAdded, LeaveAdded, SetProgress, FinishSelf
<1>4. CASE Interface \/ UNCHANGED vars
  BY <1>1, <1>4 DEF Interface, CancelSetsEvent, CancelSetsStatus, CancelNotifies, vars, tree
<1> QED BY <1>3, <1>4 DEF Next, Worker

\* The subtask a loop or a function calls is not on the stack yet.
LEMMA CalledIsIdle ==
    ASSUME IInv, NEW t \in Task, cur = t, NEW u \in Items(subtasks[t])
    PROVE  u \in Task /\ parent[u] = t /\ u # Root /\ u # t /\ pc[u] = "idle"
<1> USE RootAssumption
<1>1. u \in Task
  BY ItemsOfSeq DEF IInv, Typed, TypeOK
<1>2. parent[u] = t /\ t # None
  BY <1>1 DEF IInv, TreeOK
<1>3. u \notin lineage[t] /\ t \in lineage[t] /\ Root \in lineage[t]
  BY <1>1, <1>2 DEF IInv, TreeOK, StackOK
<1> QED BY <1>1, <1>2, <1>3 DEF IInv, StackOK, WellStacked, Over

\* The task _run_subtasks calls is one of the list it walks ...
LEMMA LoopCalls ==
    ASSUME IInv, NEW t \in Task, RunNextSubtask(t)
    PROVE  /\ next[t] \in 1 .. Len(subtasks[t]) /\ subtasks[t] \in Seq(Task)
           /\ subtasks[t][next[t]] \in Items(subtasks[t])
<1>1. subtasks[t] \in Seq(Task) /\ next[t] \in 1 .. Len(subtasks[t])
  BY DEF RunNextSubtask, MoreSubtasks, IInv, Typed, TypeOK
<1> QED BY <1>1 DEF Items

\* ... and so is the one a function calls itself.
LEMMA FunctionCalls ==
    ASSUME IInv, NEW t \in Task, CallAdded(t)
    PROVE  subtasks[t][Len(subtasks[t])] \in Items(subtasks[t])
<1>1. subtasks[t] \in Seq(Task) /\ Len(subtasks[t]) \in 1 .. Len(subtasks[t])
  BY DEF CallAdded, At, IInv, Typed, TypeOK, HoldsOne
<1> QED BY <1>1 DEF Items

\* Nothing is on the stack below the running task.
LEMMA NothingBelow ==
    ASSUME IInv, TreeMore, NEW t \in Task, cur = t, NEW x \in Task, t \in lineage[x], x # t
    PROVE  pc[x] = "idle"
<1>1. x \notin lineage[t]
  BY DEF TreeMore
<1> QED BY <1>1, RootAssumption DEF IInv, StackOK, WellStacked, Over
-----------------------------------------------------------------------------
(* A failure reaches the root                                               *)

\* Nothing has failed before the list starts, and the list starts once.
Fresh == pc[Root] \in {"check", "activate"} => \A t \in Task : error[t] = None

\* A frame moves, and no failure is left behind by that.
LEMMA FailureMoves ==
    ASSUME IInv, Fresh, FailureReachesRoot, NEW t \in Task, NEW p, Goto(t, p),
           UNCHANGED <<error, stopped>>,
           pc[t] # "raised" \/ t \notin Required,
           p \notin {"check", "activate"} \/ pc[t] = "check"
    PROVE  Fresh' /\ FailureReachesRoot'
<1>1. pc' = [pc EXCEPT ![t] = p] /\ pc \in [Task -> Place]
  BY DEF Goto, IInv, Typed, TypeOK
<1> QED BY <1>1, RootAssumption, RequiredAssumption DEF Fresh, FailureReachesRoot

\* Each step of either thread keeps a failure on its way to the root.
LEMMA FailureNext == IInv /\ Fresh /\ FailureReachesRoot /\ [Next]_vars => Fresh' /\ FailureReachesRoot'
<1> SUFFICES ASSUME IInv, Fresh, FailureReachesRoot, [Next]_vars PROVE Fresh' /\ FailureReachesRoot'
  OBVIOUS
<1> USE RootAssumption, RequiredAssumption
<1>0. pc \in [Task -> Place] /\ error \in [Task -> Task \cup {None}] /\ stopped \in BOOLEAN
  BY DEF IInv, Typed, TypeOK
<1>1. ASSUME NEW t \in Task,
             \/ Admit(t) \/ Skip(t) \/ FunctionReturns(t) \/ FailNonFatal(t) \/ CancelRoot(t)
             \/ Return(t) \/ LeaveAdded(t) \/ FinishSelf(t) \/ (\E u \in Task : AddSubtask(t, u))
      PROVE  Fresh' /\ FailureReachesRoot'
  BY <1>1, FailureMoves DEF Admit, Skip, FunctionReturns, FailNonFatal, CancelRoot, Return,
     LeaveAdded, FinishSelf, AddSubtask, At
<1>2. ASSUME NEW t \in Task, Notify(t) PROVE Fresh' /\ FailureReachesRoot'
  <2>1. Goto(t, Resume(pc[t])) /\ UNCHANGED <<error, stopped>> /\ pc[t] \in Notifying
    BY <1>2 DEF Notify, At
  <2>2. Resume(pc[t]) \in {"function", "holding", "subtasks", "return"}
    BY <2>1 DEF Notifying, Resume
  <2>3. pc[t] # "raised"
    BY <2>1 DEF Notifying
  <2> QED BY <2>1, <2>2, <2>3, FailureMoves
<1>3. ASSUME NEW t \in Task, SubtasksDone(t) \/ SetProgress(t) PROVE Fresh' /\ FailureReachesRoot'
  <2>1. \E p \in {"finish", "report_finish", "obliged", "progress", "report_subtasks"} : Goto(t, p)
    BY <1>3 DEF SubtasksDone, SetProgress
  <2> QED BY <1>3, <2>1, FailureMoves DEF SubtasksDone, SetProgress, At
<1>4. ASSUME NEW t \in Task, Finish(t) PROVE Fresh' /\ FailureReachesRoot'
  <2>1. \E p \in {"finished", "reported", "return", "function"} : Goto(t, p)
    BY <1>4 DEF Finish
  <2> QED BY <1>4, <2>1, FailureMoves DEF Finish, At
<1>5. ASSUME NEW t \in Task, Activate(t) PROVE Fresh' /\ FailureReachesRoot'
  <2>1. /\ error' = [error EXCEPT ![t] = None] /\ pc' = [pc EXCEPT ![t] = "announce"]
        /\ pc[t] = "activate" /\ stopped' = stopped
    BY <1>5 DEF Activate, At, Goto
  <2>2. CASE t = Root
    BY <1>0, <2>1, <2>2 DEF Fresh, FailureReachesRoot
  <2>3. CASE t # Root
    BY <1>0, <2>1, <2>3 DEF Fresh, FailureReachesRoot
  <2> QED BY <2>2, <2>3
<1>6. ASSUME NEW t \in Task, Raise(t) \/ FailFatal(t) PROVE Fresh' /\ FailureReachesRoot'
  <2>1. cur = t /\ pc[t] \in {"function", "raised"} /\ pc'[Root] \notin {"check", "activate"}
    BY <1>0, <1>6, RootWaits DEF Raise, FailFatal, At, Goto
  <2>2. CASE Raise(t)
    BY <1>0, <2>1, <2>2 DEF Raise, Goto, Fresh, FailureReachesRoot
  <2>3. CASE FailFatal(t)
    BY <1>0, <2>1, <2>3 DEF FailFatal, Goto, Fresh, FailureReachesRoot
  <2> QED BY <1>6, <2>2, <2>3
<1>7. ASSUME NEW t \in Task, RunNextSubtask(t) \/ CallAdded(t) PROVE Fresh' /\ FailureReachesRoot'
  <2>1. PICK u \in Items(subtasks[t]) :
            pc' = [pc EXCEPT ![u] = "check"]
            \/ (pc' = [pc EXCEPT ![t] = "function", ![u] = "check"] /\ pc[t] = "holding")
    BY <1>7, LoopCalls, FunctionCalls DEF RunNextSubtask, Call, CallAdded, At
  <2>2. u \in Task /\ u # Root /\ u # t /\ pc[u] = "idle"
    BY <1>7, CalledIsIdle DEF RunNextSubtask, CallAdded, At
  <2>3. UNCHANGED <<error, stopped>>
    BY <1>7 DEF RunNextSubtask, CallAdded
  <2> QED BY <1>0, <2>1, <2>2, <2>3 DEF Fresh, FailureReachesRoot
<1>8. CASE Interface
  BY <1>0, <1>8 DEF Interface, CancelSetsEvent, CancelSetsStatus, CancelNotifies, Fresh, FailureReachesRoot
<1>9. CASE UNCHANGED vars
  BY <1>9 DEF vars, Fresh, FailureReachesRoot
<1> QED
  BY <1>1, <1>2, <1>3, <1>4, <1>5, <1>6, <1>7, <1>8, <1>9 DEF Next, Worker, Inside

\* The exception of a required task always reaches the root, with the stop
\* event set, before the task's call returns.
THEOREM FailureIsReported == Spec => []FailureReachesRoot
<1>1. Init => Fresh /\ FailureReachesRoot
  BY RequiredAssumption DEF Init, Fresh, FailureReachesRoot
<1> QED
  BY <1>1, FailureNext, Inductive, PTL DEF Spec
-----------------------------------------------------------------------------
(* A clean run is complete                                                  *)

Excused(t) == \E a \in lineage[t] : error[a] # None

\* As long as nothing has stopped the list: nobody has cancelled it,
Unstopped ==
    /\ error[Root] = None /\ ui = "idle"
    /\ \A t \in Task : pc[t] # "cancel" /\ status[t] # "CANCELLED"

\* a task that has failed says so and goes on with its subtasks,
FailedPlace == {"idle", "check", "raised", "nonfatal", "subtasks", "finish", "return"}
Failing ==
    \A t \in Task :
        /\ error[t] # None => status[t] # "INACTIVE"
        /\ pc[t] = "activate" => status[t] = "INACTIVE"
        /\ status[t] = "FAILED" =>
              /\ error[t] # None
              /\ pc[t] \in FailedPlace
        /\ pc[t] \notin {"subtasks", "report_subtasks"} => next[t] = 1

\* those above a task at work are at work,
Above ==
    \A t \in Task : pc[t] \notin {"idle", "check", "return"} =>
        \A a \in lineage[t] \ {t} : status[a] = "ACTIVE"

\* the root starts, and so does whatever is given a subtask,
Begun ==
    /\ status[Root] = "INACTIVE" => pc[Root] \in {"check", "activate"}
    /\ \A t \in Task : parent[t] \notin {None, Root} => status[parent[t]] # "INACTIVE"

\* and what has not started lies under a failure or still ahead of its parent.
Ahead(t, p) ==
    /\ status[p] = "ACTIVE" /\ pc[p] \notin {"finish", "report_finish"}
    /\ pc[p] \in {"subtasks", "report_subtasks"} =>
          \/ pc[t] \in {"check", "activate"}
          \/ \E i \in next[p] .. Len(subtasks[p]) : subtasks[p][i] = t
Pending ==
    \A t \in Linked \ {Root} : status[t] = "INACTIVE" =>
        Excused(t) \/ status[parent[t]] = "INACTIVE" \/ Ahead(t, parent[t])

CleanInv == Unstopped /\ Failing /\ Above /\ Begun /\ Pending
Known == IInv /\ TreeMore /\ FailureReachesRoot

\* Nothing has failed or stopped a list that has not started.
LEMMA CleanInit == Init => CleanInv
<1> SUFFICES ASSUME Init PROVE CleanInv
  OBVIOUS
<1> USE RootAssumption
<1>1. Unstopped /\ Failing /\ Begun
  BY DEF Init, Unstopped, Failing, Begun
<1>2. Above
  <2>1. Items(Initial) \subseteq Task \ {Root} /\ lineage[Root] = {Root}
    BY InitialAssumption, ItemsOfSeq DEF Init
  <2> QED BY <2>1 DEF Init, Above
<1>3. Pending
  <2>1. \A t \in Task : Root \in lineage[t] /\ t # Root => parent[t] = Root
    BY DEF Init
  <2>2. status[Root] = "INACTIVE"
    BY DEF Init
  <2> QED BY <2>1, <2>2 DEF Pending, Linked
<1> QED BY <1>1, <1>2, <1>3 DEF CleanInv

\* A stop is for ever.
LEMMA StopStays == IInv /\ [Next]_vars /\ ~stopped' => ~stopped
BY DEF IInv, Typed, TypeOK, Next, Worker, Interface, Inside, vars, Admit, Skip, Activate, Notify,
   FunctionReturns, Raise, FailFatal, CancelRoot, FailNonFatal, RunNextSubtask, SubtasksDone,
   Finish, Return, AddSubtask, CallAdded, LeaveAdded, SetProgress, FinishSelf,
   CancelSetsEvent, CancelSetsStatus, CancelNotifies

\* What a step of the worker changes that does not stop the list.
Acts(t) ==
    \/ Admit(t) \/ Skip(t) \/ Activate(t) \/ Notify(t)
    \/ FunctionReturns(t) \/ Raise(t) \/ FailNonFatal(t) \/ RunNextSubtask(t) \/ SubtasksDone(t)
    \/ Finish(t) \/ Return(t) \/ CallAdded(t) \/ LeaveAdded(t) \/ SetProgress(t) \/ FinishSelf(t)
Grows(t) == \E u \in Task : AddSubtask(t, u)
Rests == UNCHANGED <<status, error, tree, flow, pc, stopped, ui>>

\* While nothing stops the list, only these steps are taken.
LEMMA UnstoppedSteps ==
    ASSUME IInv, Unstopped, [Next]_vars, ~stopped'
    PROVE  Rests \/ \E t \in Task : Acts(t) \/ Grows(t)
<1>1. ASSUME NEW t \in Task, FailFatal(t) \/ CancelRoot(t) PROVE FALSE
  BY <1>1 DEF FailFatal, CancelRoot, At, Unstopped
<1>2. CASE Interface
  BY <1>2 DEF Interface, CancelSetsEvent, CancelSetsStatus, CancelNotifies, Unstopped
<1>3. CASE UNCHANGED vars
  BY <1>3 DEF vars, Rests, tree, flow
<1> QED BY <1>1, <1>2, <1>3 DEF Next, Worker, Inside, Acts, Grows

\* A notification of the interface changes nothing of it.
LEMMA RestingKeeps == CleanInv /\ Rests => CleanInv'
BY DEF Rests, tree, flow, CleanInv, Unstopped, Failing, Above, Begun, Pending, Ahead, Excused, Linked

\* The statuses and errors of such a step: only those of the running task change,
\* and only when it starts, fails or finishes.
LEMMA ActChanges ==
    ASSUME IInv, CleanInv, NEW t \in Task, Acts(t)
    PROVE  /\ cur = t /\ UNCHANGED <<tree, ui>>
           /\ \A x \in Task : x # t => status'[x] = status[x] /\ error'[x] = error[x]
           /\ status'[t] # status[t] =>
                 \/ Activate(t) /\ status[t] = "INACTIVE" /\ error[t] = None /\ status'[t] = "ACTIVE" /\ error'[t] = None
                 \/ Raise(t) /\ status'[t] = "FAILED" /\ error'[t] = t /\ t # Root
                 \/ Finish(t) /\ status'[t] = "COMPLETED" /\ error'[t] = error[t]
           /\ error'[t] # error[t] => Raise(t)
           /\ Activate(t) => status'[t] # status[t]
           /\ Raise(t) => status'[t] = "FAILED" /\ error'[t] = t /\ t # Root
           /\ Finish(t) => status'[t] = "COMPLETED"
<1> USE DEF IInv, Typed, TypeOK, CleanInv, Failing, At
<1>1. CASE Activate(t)
  BY <1>1 DEF Activate, Raise, Finish
<1>2. CASE Raise(t)
  BY <1>2 DEF Activate, Raise, Finish
<1>3. CASE Finish(t)
  BY <1>3 DEF Activate, Raise, Finish
<1>4. CASE ~Activate(t) /\ ~Raise(t) /\ ~Finish(t)
  BY <1>4 DEF Acts, Admit, Skip, Notify, FunctionReturns, FailNonFatal, RunNextSubtask, SubtasksDone,
     Return, CallAdded, LeaveAdded, SetProgress, FinishSelf
<1> QED BY <1>1, <1>2, <1>3, <1>4

Called(t) == IF RunNextSubtask(t) THEN subtasks[t][next[t]] ELSE subtasks[t][Len(subtasks[t])]

\* The frames: the running one moves, and a subtask it calls is entered.
LEMMA ActMoves ==
    ASSUME IInv, NEW t \in Task, Acts(t)
    PROVE  /\ \A x \in Task \ {t} : next'[x] = next[x]
           /\ RunNextSubtask(t) \/ CallAdded(t) =>
                 /\ Called(t) \in Task \ {Root, t} /\ parent[Called(t)] = t
                 /\ pc[Called(t)] = "idle" /\ pc'[Called(t)] = "check"
                 /\ \A x \in Task \ {t, Called(t)} : pc'[x] = pc[x]
           /\ ~RunNextSubtask(t) /\ ~CallAdded(t) => \A x \in Task \ {t} : pc'[x] = pc[x]
<1> USE DEF IInv, Typed, TypeOK, At
<1>1. CASE RunNextSubtask(t)
  <2>1. Called(t) = subtasks[t][next[t]] /\ cur = t /\ pc' = [pc EXCEPT ![Called(t)] = "check"]
    BY <1>1 DEF Called, RunNextSubtask, Call
  <2>2. Called(t) \in Items(subtasks[t])
    BY <1>1, <2>1, LoopCalls
  <2> HIDE DEF Called
  <2>3. Called(t) \in Task \ {Root, t} /\ parent[Called(t)] = t /\ pc[Called(t)] = "idle"
    BY <2>1, <2>2, CalledIsIdle
  <2> QED BY <1>1, <2>1, <2>3 DEF RunNextSubtask
<1>2. CASE CallAdded(t)
  <2>1. /\ Called(t) = subtasks[t][Len(subtasks[t])] /\ cur = t /\ UNCHANGED next
        /\ pc' = [pc EXCEPT ![t] = "function", ![Called(t)] = "check"]
    BY <1>2 DEF Called, RunNextSubtask, CallAdded
  <2>2. Called(t) \in Items(subtasks[t])
    BY <1>2, <2>1, FunctionCalls
  <2> HIDE DEF Called
  <2>3. Called(t) \in Task \ {Root, t} /\ parent[Called(t)] = t /\ pc[Called(t)] = "idle"
    BY <2>1, <2>2, CalledIsIdle
  <2> QED BY <1>2, <2>1, <2>3
<1>3. CASE ~RunNextSubtask(t) /\ ~CallAdded(t)
  BY <1>3 DEF Acts, Admit, Skip, Activate, Notify, FunctionReturns, Raise, FailNonFatal,
     SubtasksDone, Finish, Return, LeaveAdded, SetProgress, FinishSelf, Goto, flow
<1> QED BY <1>1, <1>2, <1>3

Loops == {"subtasks", "report_subtasks"}

\* What the loop of _run_subtasks does to the frames.
LEMMA LoopPlaces ==
    ASSUME IInv, NEW t \in Task
    PROVE  /\ RunNextSubtask(t) => pc[t] \in Loops /\ pc'[t] = pc[t] /\ next'[t] = next[t] + 1
           /\ SubtasksDone(t) => /\ pc[t] \in Loops /\ next'[t] = 1
                                 /\ pc'[t] \in {"finish", "report_finish"}
<1> USE DEF IInv, Typed, TypeOK, At, Loops
<1>1. CASE RunNextSubtask(t)
  <2>1. subtasks[t][next[t]] # t /\ pc' = [pc EXCEPT ![subtasks[t][next[t]]] = "check"]
    BY <1>1, LoopCalls, CalledIsIdle DEF RunNextSubtask, Call
  <2>2. pc[t] \in Loops /\ next' = [next EXCEPT ![t] = next[t] + 1]
    BY <1>1 DEF RunNextSubtask
  <2>3. ~SubtasksDone(t)
    BY <1>1 DEF RunNextSubtask, SubtasksDone
  <2> QED BY <2>1, <2>2, <2>3
<1>2. CASE ~RunNextSubtask(t)
  BY <1>2 DEF SubtasksDone, Goto
<1> QED BY <1>1, <1>2

\* Where the frame of the running task goes.
LEMMA ActPlaces ==
    ASSUME IInv, NEW t \in Task, Acts(t)
    PROVE  /\ pc'[t] = "activate" => Admit(t)
           /\ pc'[t] \in {"finish", "report_finish"} => FinishSelf(t) \/ SubtasksDone(t)
           /\ pc'[t] \in Loops => pc[t] \notin Loops \/ RunNextSubtask(t)
           /\ pc'[t] # "cancel" /\ pc'[t] # "check"
           /\ next'[t] # next[t] => RunNextSubtask(t) \/ SubtasksDone(t)
           /\ pc[t] \in Loops => RunNextSubtask(t) \/ SubtasksDone(t)
           /\ pc'[t] \notin {"idle", "check", "return"} => Admit(t) \/ pc[t] \notin {"idle", "check", "return"}
<1> USE DEF IInv, Typed, TypeOK, At, Loops
<1>1. CASE RunNextSubtask(t)
  BY <1>1, LoopPlaces
<1>2. CASE SubtasksDone(t)
  BY <1>2, LoopPlaces
<1>3. CASE CallAdded(t)
  <2>1. /\ pc' = [pc EXCEPT ![t] = "function", ![subtasks[t][Len(subtasks[t])]] = "check"]
        /\ pc[t] = "holding" /\ UNCHANGED next /\ subtasks[t][Len(subtasks[t])] # t
    BY <1>3, FunctionCalls, CalledIsIdle DEF CallAdded
  <2> QED BY <2>1
<1>4. CASE Notify(t)
  <2>1. pc' = [pc EXCEPT ![t] = Resume(pc[t])] /\ pc[t] \in Notifying /\ UNCHANGED next
    BY <1>4 DEF Notify, Goto, flow
  <2>2. Resume(pc[t]) \in {"function", "holding", "subtasks", "return"}
    BY <2>1 DEF Notifying, Resume
  <2>3. pc[t] \notin Loops \cup {"idle", "check", "return"}
    BY <2>1 DEF Notifying
  <2> QED BY <2>1, <2>2, <2>3
<1>5. CASE Finish(t)
  BY <1>5 DEF Finish, Goto, flow
<1>6. CASE \/ Admit(t) \/ Skip(t) \/ Activate(t) \/ FunctionReturns(t) \/ Raise(t) \/ FailNonFatal(t)
           \/ Return(t) \/ LeaveAdded(t) \/ SetProgress(t) \/ FinishSelf(t)
  BY <1>6 DEF Admit, Skip, Activate, FunctionReturns, Raise, FailNonFatal,
     Return, LeaveAdded, SetProgress, FinishSelf, Goto, flow
<1> QED BY <1>1, <1>2, <1>3, <1>4, <1>5, <1>6 DEF Acts

\* Unstopped, step by step: no frame gets to cancel.
LEMMA UnstoppedKeeps ==
    ASSUME IInv, CleanInv, NEW t \in Task, Acts(t)
    PROVE  Unstopped'
<1>1. error'[Root] = None
  BY ActChanges, RootAssumption DEF CleanInv, Unstopped
<1>2. ui' = ui
  BY ActChanges
<1>3. \A x \in Task : status'[x] # "CANCELLED"
  BY ActChanges DEF CleanInv, Unstopped
<1>4. \A x \in Task : pc'[x] # "cancel"
  <2> SUFFICES ASSUME NEW x \in Task PROVE pc'[x] # "cancel"
    OBVIOUS
  <2>1. CASE x = t
    BY <2>1, ActPlaces
  <2>2. CASE x # t
    BY <2>2, ActMoves DEF CleanInv, Unstopped
  <2> QED BY <2>1, <2>2
<1> QED BY <1>1, <1>2, <1>3, <1>4 DEF CleanInv, Unstopped

\* Failing, step by step: what raised goes on with its subtasks.
LEMMA FailingKeeps ==
    ASSUME IInv, CleanInv, NEW t \in Task, Acts(t)
    PROVE  Failing'
<1> SUFFICES ASSUME NEW x \in Task
             PROVE  /\ error'[x] # None => status'[x] # "INACTIVE"
                    /\ pc'[x] = "activate" => status'[x] = "INACTIVE"
                    /\ status'[x] = "FAILED" =>
                          /\ error'[x] # None
                          /\ pc'[x] \in FailedPlace
                    /\ pc'[x] \notin {"subtasks", "report_subtasks"} => next'[x] = 1
  BY DEF Failing
<1> USE RootAssumption
<1>1. CASE x # t
  <2>1. status'[x] = status[x] /\ error'[x] = error[x] /\ next'[x] = next[x]
    BY <1>1, ActChanges, ActMoves
  <2>2. pc'[x] = pc[x] \/ (pc[x] = "idle" /\ pc'[x] = "check")
    BY <1>1, ActMoves
  <2> QED BY <2>1, <2>2 DEF CleanInv, Failing, FailedPlace
<1>2. CASE x = t
  <2>1. error'[t] # None => status'[t] # "INACTIVE"
    BY ActChanges DEF CleanInv, Failing
  <2>2. pc'[t] = "activate" => status'[t] = "INACTIVE"
    BY ActPlaces DEF Admit
  <2>3. status'[t] = "FAILED" => error'[t] # None
    BY ActChanges DEF CleanInv, Failing
  <2>4. ASSUME status'[t] = "FAILED" PROVE pc'[t] \in FailedPlace
    <3>1. CASE Raise(t)
      BY <3>1 DEF Raise, Goto, IInv, Typed, TypeOK, FailedPlace
    <3>2. CASE ~Raise(t)
      <4>1. status[t] = "FAILED" /\ ~Activate(t) /\ ~Finish(t)
        BY <2>4, <3>2, ActChanges
      <4>2. pc[t] \in FailedPlace
        BY <4>1 DEF CleanInv, Failing
      <4>3. CASE Notify(t)
        <5>1. pc[t] = "nonfatal" /\ pc' = [pc EXCEPT ![t] = "subtasks"]
          BY <4>2, <4>3 DEF Notify, At, Notifying, FailedPlace, Resume, Goto
        <5> QED BY <5>1 DEF IInv, Typed, TypeOK, FailedPlace
      <4>4. CASE RunNextSubtask(t)
        <5>1. pc'[t] = pc[t]
          BY <4>4, LoopPlaces
        <5> QED BY <4>2, <5>1
      <4>5. CASE ~Notify(t) /\ ~RunNextSubtask(t)
        BY <3>2, <4>1, <4>2, <4>5 DEF Acts, Admit, Skip, FunctionReturns, FailNonFatal, SubtasksDone,
           Return, CallAdded, LeaveAdded, SetProgress, FinishSelf, Goto, At, FailedPlace, IInv, Typed, TypeOK
      <4> QED BY <4>3, <4>4, <4>5
    <3> QED BY <3>1, <3>2
  <2>5. pc'[t] \notin {"subtasks", "report_subtasks"} => next'[t] = 1
    <3>1. pc[t] \notin Loops => next[t] = 1
      BY DEF CleanInv, Failing, Loops
    <3> QED BY <3>1, ActPlaces, LoopPlaces DEF Loops
  <2> QED BY <1>2, <2>1, <2>2, <2>3, <2>4, <2>5
<1> QED BY <1>1, <1>2

\* Above, step by step: whoever is called is called by one at work.
LEMMA AboveKeeps ==
    ASSUME Known, CleanInv, NEW t \in Task, Acts(t)
    PROVE  Above'
<1> USE RootAssumption DEF Known
<1>1. cur = t /\ lineage' = lineage /\ lineage \in [Task -> SUBSET Task]
  BY ActChanges DEF tree, IInv, Typed, TypeOK
<1> SUFFICES ASSUME NEW x \in Task, pc'[x] \notin {"idle", "check", "return"},
                    NEW a \in lineage[x] \ {x}
             PROVE  status'[a] = "ACTIVE"
  BY <1>1 DEF Above
<1>2. a \in Task
  BY <1>1
<1>3. a # t
  <2> SUFFICES ASSUME a = t PROVE FALSE
    OBVIOUS
  <2>1. pc[x] = "idle"
    BY <1>1, NothingBelow
  <2>2. pc'[x] \in {"idle", "check"}
    BY <2>1, ActMoves
  <2> QED BY <2>2
<1>4. status'[a] = status[a]
  BY <1>2, <1>3, ActChanges
<1>5. CASE pc[x] \notin {"idle", "check", "return"}
  BY <1>4, <1>5 DEF CleanInv, Above
<1>6. CASE pc[x] \in {"idle", "check", "return"}
  <2>1. x = t /\ Admit(t)
    BY <1>6, ActMoves, ActPlaces
  <2>2. CASE parent[t] = None
    BY <2>1, <2>2 DEF IInv, TreeOK
  <2>3. CASE parent[t] # None
    BY <1>4, <2>1, <2>3 DEF Admit, IsActive, IInv, TreeOK
  <2> QED BY <2>2, <2>3
<1> QED BY <1>5, <1>6

\* Begun, step by step: only a started task is given subtasks.
LEMMA BegunKeeps ==
    ASSUME Known, CleanInv, NEW t \in Task, Acts(t)
    PROVE  Begun'
<1> USE RootAssumption DEF Known
<1>1. UNCHANGED <<parent, lineage>> /\ parent \in [Task -> Task \cup {None}]
  BY ActChanges DEF tree, IInv, Typed, TypeOK
<1>2. \A x \in Task : status'[x] = "INACTIVE" => status[x] = "INACTIVE"
  BY ActChanges
<1>3. \A x \in Task : parent'[x] \notin {None, Root} => status'[parent'[x]] # "INACTIVE"
  BY <1>1, <1>2 DEF CleanInv, Begun
<1>4. ASSUME status'[Root] = "INACTIVE" PROVE pc'[Root] \in {"check", "activate"}
  <2>1. status[Root] = "INACTIVE" /\ pc[Root] \in {"check", "activate"}
    BY <1>2, <1>4 DEF CleanInv, Begun
  <2>2. t = Root
    BY <2>1, RootWaits, ActChanges
  <2>3. parent[Root] = None
    BY DEF IInv, TreeOK
  <2>4. ~Activate(t)
    BY <1>4, <2>1, <2>2, ActChanges
  <2>5. Admit(t)
    BY <2>1, <2>2, <2>3, <2>4 DEF Acts, At, Skip, Notify, FunctionReturns, Raise, FailNonFatal, RunNextSubtask,
       SubtasksDone, Finish, Return, CallAdded, LeaveAdded, SetProgress, FinishSelf, Notifying
  <2> QED BY <2>2, <2>5 DEF Admit, Goto, IInv, Typed, TypeOK
<1> QED BY <1>3, <1>4 DEF Begun

\* A task that is entered while nobody above it has failed is admitted.
LEMMA NotSkipped ==
    ASSUME Known, CleanInv, NEW t \in Task \ {Root}, At(t, {"check"}), status[parent[t]] = "ACTIVE"
    PROVE  parent[t] \in Task /\ IsActive(parent[t])
<1> USE RootAssumption DEF Known
<1> DEFINE p == parent[t]
<1>1. Root \in lineage[t] /\ cur = t
  BY DEF At, IInv, StackOK
<1>2. p # None
  BY <1>1 DEF IInv, TreeOK
<1>3. p \in Task /\ lineage[t] = {t} \cup lineage[p] /\ p \in lineage[p] /\ t \notin lineage[p]
  BY <1>2 DEF IInv, Typed, TypeOK, TreeOK
<1>4. pc[p] # "idle" /\ p # t
  BY <1>1, <1>3 DEF IInv, StackOK, WellStacked, Over
<1>5. pc[p] \in {"function", "subtasks", "report_subtasks"}
  BY <1>1, <1>3, <1>4 DEF IInv, StackOK
<1>6. \A a \in lineage[p] \ {p} : status[a] = "ACTIVE"
  BY <1>3, <1>5 DEF CleanInv, Above
<1> QED BY <1>3, <1>6 DEF IsActive

\* Pending, step by step: the loop passes nobody by.
LEMMA PendingKeeps ==
    ASSUME Known, CleanInv, NEW t \in Task, Acts(t)
    PROVE  Pending'
<1> USE RootAssumption DEF Known
<1>1. /\ cur = t /\ UNCHANGED <<parent, subtasks, lineage>>
      /\ lineage \in [Task -> SUBSET Task] /\ subtasks \in [Task -> Seq(Task)]
      /\ next \in [Task -> Nat \ {0}] /\ parent \in [Task -> Task \cup {None}]
  BY ActChanges DEF tree, IInv, Typed, TypeOK
<1> SUFFICES ASSUME NEW x \in Linked \ {Root}, NEW p, p = parent[x], status'[x] = "INACTIVE"
             PROVE  Excused(x)' \/ status'[p] = "INACTIVE" \/ Ahead(x, p)'
  BY <1>1 DEF Pending, Linked
<1>2. x \in Task /\ status[x] = "INACTIVE"
  BY ActChanges DEF Linked
<1>3. /\ p \in Task /\ p # x /\ p \in lineage[x] /\ x \notin lineage[p] /\ x \in Items(subtasks[p])
      /\ lineage[x] = {x} \cup lineage[p]
  <2>1. p # None
    BY <1>2 DEF Linked, IInv, TreeOK
  <2> QED BY <1>1, <1>2, <2>1 DEF IInv, TreeOK, TreeMore
<1>4. ASSUME Excused(x) PROVE Excused(x)'
  <2>1. PICK a \in lineage[x] : error[a] # None
    BY <1>4 DEF Excused
  <2>2. a \in Task /\ error'[a] # None
    BY <1>1, <1>2, <2>1, ActChanges
  <2> QED BY <1>1, <2>1, <2>2 DEF Excused
<1>5. CASE status[p] = "INACTIVE"
  <2>1. CASE status'[p] = "INACTIVE"
    BY <2>1
  <2>2. CASE status'[p] # "INACTIVE"
    <3>1. t = p /\ Activate(t) /\ status'[p] = "ACTIVE"
      BY <1>3, <1>5, <2>2, ActChanges DEF Raise, Finish, At, IInv, StatusOK
    <3>2. pc'[p] = "announce"
      BY <1>3, <3>1 DEF Activate, Goto, IInv, Typed, TypeOK
    <3> QED BY <3>1, <3>2 DEF Ahead
  <2> QED BY <2>1, <2>2
<1>6. CASE Ahead(x, p) /\ ~Excused(x)
  <2>1. status[p] = "ACTIVE" /\ pc[p] \notin {"finish", "report_finish"}
    BY <1>6 DEF Ahead
  <2>2. CASE t = p
    <3>1. pc[x] = "idle"
      BY <1>1, <1>2, <1>3, <2>2, NothingBelow
    <3>2. CASE Raise(t)
      BY <1>1, <1>3, <2>2, <3>2, ActChanges DEF Excused
    <3>3. ~Finish(t) /\ ~Activate(t)
      BY <2>1, <2>2, ActChanges DEF Finish, Activate, At, CleanInv, Failing
    <3>4. CASE RunNextSubtask(t)
      <4>1. PICK i \in next[p] .. Len(subtasks[p]) : subtasks[p][i] = x
        BY <1>6, <2>2, <3>1, <3>4, LoopPlaces DEF Ahead, Loops
      <4>2. /\ status'[p] = "ACTIVE" /\ pc'[p] = pc[p] /\ next'[p] = next[p] + 1
            /\ Called(p) = subtasks[p][next[p]]
        BY <2>1, <2>2, <3>4, ActChanges, LoopPlaces DEF Called, Raise, RunNextSubtask, At
      <4>3. CASE i = next[p]
        <5>1. pc'[x] = "check"
          BY <2>2, <3>4, <4>1, <4>2, <4>3, ActMoves
        <5> QED BY <2>1, <4>2, <5>1 DEF Ahead
      <4>4. CASE i # next[p]
        <5>1. next[p] \in Nat /\ Len(subtasks[p]) \in Nat
          BY <1>1, <1>3
        <5>2. i \in next'[p] .. Len(subtasks[p])
          BY <4>1, <4>2, <4>4, <5>1
        <5> QED BY <1>1, <2>1, <4>1, <4>2, <5>2 DEF Ahead
      <4> QED BY <4>3, <4>4
    <3>5. CASE SubtasksDone(t)
      \* its loop has come to an end
      <4>1. PICK i \in next[p] .. Len(subtasks[p]) : subtasks[p][i] = x
        BY <1>6, <2>2, <3>1, <3>5, LoopPlaces DEF Ahead, Loops
      <4>2. next[p] \in Nat /\ Len(subtasks[p]) \in Nat /\ ~(next[p] <= Len(subtasks[p]))
        BY <1>1, <1>3, <2>2, <3>5 DEF SubtasksDone, MoreSubtasks
      <4> QED BY <4>1, <4>2
    <3>6. CASE FinishSelf(t)
      <4>1. pc[p] = "function"
        BY <2>2, <3>6 DEF FinishSelf, At
      <4>2. IsActive(p)
        BY <1>3, <2>1, <4>1 DEF IsActive, CleanInv, Above
      <4> QED BY <1>2, <1>3, <2>2, <3>6, <4>2 DEF FinishSelf
    <3>7. CASE ~Raise(t) /\ ~RunNextSubtask(t) /\ ~SubtasksDone(t) /\ ~FinishSelf(t)
      <4>1. status'[p] = "ACTIVE" /\ pc'[p] \notin {"finish", "report_finish"}
        BY <2>1, <2>2, <3>3, <3>7, ActChanges, ActPlaces
      <4>2. pc[p] \notin Loops /\ next'[p] = next[p]
        BY <2>2, <3>7, ActPlaces
      <4>3. next[p] = 1
        BY <1>3, <4>2 DEF CleanInv, Failing, Loops
      <4>4. \E i \in 1 .. Len(subtasks[p]) : subtasks[p][i] = x
        BY <1>3 DEF Items
      <4> QED BY <1>1, <4>1, <4>2, <4>3, <4>4 DEF Ahead
    <3> QED BY <3>2, <3>4, <3>5, <3>6, <3>7
  <2>3. CASE t # p
    <3>1. status'[p] = "ACTIVE" /\ next'[p] = next[p] /\ (pc'[p] = pc[p] \/ pc'[p] = "check")
      BY <1>3, <2>1, <2>3, ActChanges, ActMoves
    <3>2. CASE pc'[p] = "check"
      BY <3>1, <3>2 DEF Ahead
    <3>3. CASE pc'[p] = pc[p] /\ pc[p] \notin Loops
      BY <2>1, <3>1, <3>3 DEF Ahead, Loops
    <3>4. CASE pc'[p] = pc[p] /\ pc[x] \notin {"check", "activate"}
      BY <1>1, <1>6, <2>1, <3>1, <3>4 DEF Ahead
    <3>5. CASE pc[x] \in {"check", "activate"} /\ pc'[p] = pc[p]
      <4>1. CASE t # x
        <5>1. pc'[x] \in {"check", "activate"}
          BY <1>2, <3>5, <4>1, ActMoves
        <5> QED BY <2>1, <3>1, <3>5, <5>1 DEF Ahead
      <4>2. CASE t = x
        <5>1. Admit(t) \/ Skip(t) \/ Activate(t)
          BY <3>5, <4>2 DEF Acts, At, Notify, FunctionReturns, Raise, FailNonFatal, RunNextSubtask,
             SubtasksDone, Finish, Return, CallAdded, LeaveAdded, SetProgress, FinishSelf, Notifying
        <5>2. ~Activate(t)
          BY <1>2, <4>2, ActChanges
        <5>3. ~Skip(t)
          BY <1>2, <2>1, <4>2, NotSkipped DEF Skip, At
        <5>4. pc'[x] = "activate"
          BY <1>2, <4>2, <5>1, <5>2, <5>3 DEF Admit, Goto, IInv, Typed, TypeOK
        <5> QED BY <2>1, <3>1, <3>5, <5>4 DEF Ahead
      <4> QED BY <4>1, <4>2
    <3> QED BY <3>1, <3>2, <3>3, <3>4, <3>5
  <2> QED BY <2>2, <2>3
<1> QED
  BY <1>2, <1>4, <1>5, <1>6 DEF CleanInv, Pending

\* A task is added to the running one; nothing else changes.
LEMMA GrowKeeps ==
    ASSUME Known, CleanInv, NEW t \in Task, NEW u \in Task, AddSubtask(t, u)
    PROVE  CleanInv'
<1> USE RootAssumption DEF Known
<1>1. /\ parent' = [parent EXCEPT ![u] = t]
      /\ lineage' = [lineage EXCEPT ![u] = {u} \cup lineage[t]]
      /\ subtasks' = [subtasks EXCEPT ![t] = Append(subtasks[t], u)]
      /\ pc' = [pc EXCEPT ![t] = "added"] /\ pc[t] = "function" /\ cur = t
      /\ Root \notin lineage[u] /\ status[t] # "COMPLETED" /\ t # Root
      /\ UNCHANGED <<status, error, next, ui>>
  BY DEF AddSubtask, At, Goto, Linked, flow
<1>2. /\ parent \in [Task -> Task \cup {None}] /\ lineage \in [Task -> SUBSET Task]
      /\ subtasks \in [Task -> Seq(Task)] /\ pc \in [Task -> Place] /\ status \in [Task -> Status]
  BY DEF IInv, Typed, TypeOK
<1>3. u # t /\ u # Root /\ pc[u] = "idle"
  <2>1. Root \in lineage[t] /\ lineage[Root] = {Root}
    BY <1>1 DEF IInv, StackOK, TreeOK
  <2>2. u \notin lineage[t]
    BY <1>1, <2>1 DEF IInv, TreeOK
  <2> QED BY <1>1, <2>1, <2>2 DEF IInv, StackOK, WellStacked, Over
<1>4. Unstopped' /\ Failing'
  BY <1>1, <1>2 DEF CleanInv, Unstopped, Failing, FailedPlace
<1>5. Above'
  <2> SUFFICES ASSUME NEW x \in Task, pc'[x] \notin {"idle", "check", "return"}
               PROVE  \A a \in lineage'[x] \ {x} : status[a] = "ACTIVE"
    BY <1>1 DEF Above
  <2>1. x # u /\ lineage'[x] = lineage[x] /\ pc[x] \notin {"idle", "check", "return"}
    BY <1>1, <1>2, <1>3
  <2> QED BY <2>1 DEF CleanInv, Above
<1>6. status[t] = "ACTIVE"
  BY <1>1, <1>2 DEF IInv, StatusOK, CleanInv, Unstopped, Failing, FailedPlace, Status
<1>7. Begun'
  <2>1. pc'[Root] = pc[Root]
    BY <1>1, <1>2
  <2>2. \A x \in Task : parent'[x] = IF x = u THEN t ELSE parent[x]
    BY <1>1, <1>2
  <2> QED BY <1>1, <1>6, <2>1, <2>2 DEF CleanInv, Begun
<1>8. Pending'
  <2> SUFFICES ASSUME NEW x \in Task \ {Root}, Root \in lineage'[x], NEW p, p = parent'[x],
                      status[x] = "INACTIVE"
               PROVE  Excused(x)' \/ status[p] = "INACTIVE" \/ Ahead(x, p)'
    BY <1>1 DEF Pending, Linked
  <2>1. CASE x = u
    <3>1. p = t /\ pc'[t] = "added"
      BY <1>1, <1>2, <2>1
    <3> QED BY <1>1, <1>6, <3>1 DEF Ahead
  <2>2. CASE x # u
    <3>1. lineage'[x] = lineage[x] /\ p = parent[x] /\ x \in Linked \ {Root} /\ p \in Task
      <4>1. lineage'[x] = lineage[x] /\ p = parent[x]
        BY <1>1, <1>2, <2>2
      <4>2. parent[x] # None
        BY <4>1 DEF IInv, TreeOK
      <4> QED BY <1>2, <4>1, <4>2 DEF Linked
    <3>2. CASE Excused(x)
      BY <1>1, <3>1, <3>2 DEF Excused
    <3>3. CASE status[p] = "INACTIVE"
      BY <3>3
    <3>4. CASE Ahead(x, p) /\ p = t
      BY <1>1, <1>2, <1>6, <3>4 DEF Ahead
    <3>5. CASE Ahead(x, p) /\ p # t
      <4>1. subtasks'[p] = subtasks[p] /\ pc'[p] = pc[p] /\ (pc'[x] = pc[x] \/ x = t)
        BY <1>1, <1>2, <3>1, <3>5
      <4>2. x # t
        BY <1>6
      <4> QED BY <1>1, <3>5, <4>1, <4>2 DEF Ahead
    <3> QED BY <3>1, <3>2, <3>3, <3>4, <3>5 DEF CleanInv, Pending
  <2> QED BY <2>1, <2>2
<1> QED BY <1>4, <1>5, <1>7, <1>8 DEF CleanInv

Clean == ~stopped => CleanInv

\* The strengthening is inductive as long as the list is not stopped.
LEMMA CleanNext == Known /\ Clean /\ [Next]_vars => Clean'
<1> SUFFICES ASSUME Known, Clean, [Next]_vars, ~stopped' PROVE CleanInv'
  BY DEF Clean
<1>1. CleanInv
  BY StopStays DEF Clean, Known
<1>2. Rests \/ \E t \in Task : Acts(t) \/ Grows(t)
  BY <1>1, UnstoppedSteps DEF Known, CleanInv
<1>3. CASE Rests
  BY <1>1, <1>3, RestingKeeps
<1>4. ASSUME NEW t \in Task, Acts(t) PROVE CleanInv'
  BY <1>1, <1>4, UnstoppedKeeps, FailingKeeps, AboveKeeps, BegunKeeps, PendingKeeps DEF Known, CleanInv
<1>5. ASSUME NEW t \in Task, Grows(t) PROVE CleanInv'
  BY <1>1, <1>5, GrowKeeps DEF Grows
<1> QED BY <1>2, <1>3, <1>4, <1>5

\* The strengthening that a clean run needs is an invariant.
THEOREM CleanHolds == Spec => [](Known /\ Clean)
<1>1. Init => TreeMore /\ Fresh /\ FailureReachesRoot /\ Clean
  BY TreeMoreInit, CleanInit, RequiredAssumption DEF Init, Fresh, FailureReachesRoot, Clean
<1>2. IInv /\ TreeMore /\ FailureReachesRoot <=> Known
  BY DEF Known
<1> QED
  BY <1>1, <1>2, TreeMoreNext, FailureNext, CleanNext, Inductive, PTL DEF Spec

\* Excused by a task that was allowed to fail, once the call of that has gone on.
LEMMA ExcusedByOther ==
    ASSUME Known, CleanInv, ~stopped, NEW t \in Task, NEW a \in lineage[t],
           error[a] # None, pc[a] # "raised"
    PROVE  a \in lineage[t] \ Required
BY DEF Known, FailureReachesRoot, CleanInv, Unstopped

\* Once the root has been finished and no other frame is left, an unstopped list
\* has done its work: what has not run lies below a failure that is allowed.
LEMMA WorkIsDone ==
    ASSUME Known, CleanInv, ~stopped,
           \A x \in Task : pc[x] \in {"idle", "finished", "return"}
    PROVE  /\ error[Root] = None
           /\ \A t \in Linked : \/ status[t] = "COMPLETED"
                                \/ \E a \in lineage[t] \ Required : error[a] # None
<1> USE RootAssumption
<1>1. error[Root] = None
  BY DEF CleanInv, Unstopped
<1>2. ASSUME NEW t \in Linked, status[t] # "COMPLETED"
      PROVE  \E a \in lineage[t] \ Required : error[a] # None
  <2>1. t \in Task /\ lineage[t] \subseteq Task /\ t \in lineage[t]
    BY DEF Linked, Known, IInv, Typed, TypeOK, TreeOK
  <2>2. CASE status[t] = "FAILED"
    BY <2>1, <2>2, ExcusedByOther DEF CleanInv, Failing
  <2>3. CASE status[t] = "INACTIVE"
    <3>1. t # Root /\ status[Root] # "INACTIVE"
      BY <2>3 DEF CleanInv, Begun
    <3>2. parent[t] # None /\ parent[t] \in Task
      BY <2>1, <3>1 DEF Linked, Known, IInv, TreeOK, Typed, TypeOK
    <3>3. status[parent[t]] \notin {"INACTIVE", "ACTIVE"}
      BY <2>1, <3>1, <3>2 DEF CleanInv, Begun, Known, IInv, StatusOK
    <3>4. Excused(t)
      BY <2>3, <3>1, <3>3 DEF CleanInv, Pending, Ahead
    <3>5. PICK a \in lineage[t] : error[a] # None
      BY <3>4 DEF Excused
    <3>6. pc[a] # "raised"
      BY <2>1, <3>5
    <3> QED BY <2>1, <3>5, <3>6, ExcusedByOther
  <2>4. status[t] \in {"FAILED", "INACTIVE"}
    BY <1>2, <2>1 DEF Known, IInv, Typed, TypeOK, StatusOK, Status, CleanInv, Unstopped
  <2> QED BY <2>2, <2>3, <2>4
<1> QED BY <1>1, <1>2

\* A list that is over and was never stopped has run every task it was given or
\* that was added at run time, except below one that was allowed to fail.
THEOREM CleanRunsAreComplete == Spec => []CleanRunIsComplete
<1>1. Known /\ Clean => CleanRunIsComplete
  <2> SUFFICES ASSUME Known, CleanInv, Over, ~stopped
               PROVE  /\ error[Root] = None
                      /\ \A t \in Linked : \/ status[t] = "COMPLETED"
                                           \/ \E a \in lineage[t] \ Required : error[a] # None
    BY DEF Clean, CleanRunIsComplete
  <2>1. \A t \in Task : pc[t] = "idle"
    BY DEF Known, IInv, StackOK, WellStacked
  <2> QED BY <2>1, WorkIsDone
<1> QED BY <1>1, CleanHolds, PTL

-----------------------------------------------------------------------------
(* The reported error moves outward                                         *)

\* Once an error is reported, the frames at work are those of tasks above the
\* one it is of, and the root is ACTIVE only until that one has cancelled it.
Reported ==
    error[Root] # None =>
        /\ Root \in lineage[error[Root]]
        /\ status[Root] = "ACTIVE" => cur = error[Root] /\ pc[cur] = "cancel"
        /\ \A t \in Task : pc[t] \notin {"idle", "check", "return"}
              => /\ t \in lineage[error[Root]]
                 /\ t = error[Root] => pc[t] \in {"cancel", "cancelled"}

\* What a step may do to the reported error.
Outward ==
    error[Root] # None /\ error'[Root] # error[Root]
        => error'[Root] \in lineage[error[Root]] \ {error[Root]}

\* The running frame moves; it does not enter a task.
LEMMA ReportedMoves ==
    ASSUME IInv, Reported, NEW t \in Task, NEW p, cur = t, Goto(t, p),
           pc[t] # "cancel",
           pc[t] = "cancelled" => p = "return",
           pc[t] \in {"check", "return"} => p \in {"idle", "return"},
           error'[Root] = error[Root], lineage' = lineage,
           status'[Root] = "ACTIVE" => status[Root] = "ACTIVE"
    PROVE  Reported' /\ Outward
<1>1. pc' = [pc EXCEPT ![t] = p] /\ pc \in [Task -> Place]
  BY DEF Goto, IInv, Typed, TypeOK
<1>2. error[Root] # None => status'[Root] # "ACTIVE"
  BY DEF Reported
<1>3. t \in lineage[cur] /\ pc[t] # "idle"
  BY RootAssumption DEF IInv, TreeOK, StackOK, WellStacked, Over
<1> QED BY <1>1, <1>2, <1>3 DEF Reported, Outward

\* Each step of either thread keeps Reported and moves the error outward only.
LEMMA ReportedNext == IInv /\ Fresh /\ Reported /\ [Next]_vars => Reported' /\ Outward
<1> SUFFICES ASSUME IInv, Fresh, Reported, [Next]_vars PROVE Reported' /\ Outward
  OBVIOUS
<1> USE RootAssumption
<1>0. /\ pc \in [Task -> Place] /\ error \in [Task -> Task \cup {None}]
      /\ status \in [Task -> Status] /\ lineage \in [Task -> SUBSET Task]
  BY DEF IInv, Typed, TypeOK
<1>1. ASSUME NEW t \in Task,
             \/ Skip(t) \/ FunctionReturns(t) \/ FailNonFatal(t)
             \/ Return(t) \/ LeaveAdded(t) \/ FinishSelf(t)
      PROVE  Reported' /\ Outward
  BY <1>1, ReportedMoves DEF Skip, FunctionReturns, FailNonFatal, Return,
     LeaveAdded, FinishSelf, At, tree
<1>2. ASSUME NEW t \in Task, Notify(t) PROVE Reported' /\ Outward
  <2>1. /\ Goto(t, Resume(pc[t])) /\ UNCHANGED <<error, lineage, status>>
        /\ pc[t] \in Notifying /\ cur = t
    BY <1>2 DEF Notify, At, tree
  <2>2. /\ pc[t] = "cancelled" => Resume(pc[t]) = "return"
        /\ pc[t] \notin {"cancel", "check", "return"}
    BY <2>1 DEF Notifying, Resume
  <2> QED BY <2>1, <2>2, ReportedMoves
<1>3. ASSUME NEW t \in Task, SubtasksDone(t) \/ SetProgress(t) \/ Finish(t)
      PROVE  Reported' /\ Outward
  <2>1. /\ \E p : Goto(t, p)
        /\ cur = t /\ pc[t] \notin {"cancel", "cancelled", "check", "return"}
        /\ error' = error /\ lineage' = lineage
    BY <1>3 DEF SubtasksDone, SetProgress, Finish, At, tree
  <2>2. status'[Root] = "ACTIVE" => status[Root] = "ACTIVE"
    BY <1>0, <1>3 DEF SubtasksDone, SetProgress, Finish
  <2> QED BY <2>1, <2>2, ReportedMoves
<1>4. ASSUME NEW t \in Task, Raise(t) PROVE Reported' /\ Outward
  <2>1. /\ t # Root /\ error' = [error EXCEPT ![t] = t] /\ status' = [status EXCEPT ![t] = "FAILED"]
        /\ Goto(t, "raised") /\ cur = t /\ pc[t] = "function" /\ lineage' = lineage
    BY <1>4 DEF Raise, At, tree
  <2>2. error'[Root] = error[Root] /\ status'[Root] = status[Root]
    BY <1>0, <2>1
  <2> QED BY <2>1, <2>2, ReportedMoves
<1>5. ASSUME NEW t \in Task, Activate(t) PROVE Reported' /\ Outward
  <2>1. /\ error' = [error EXCEPT ![t] = None] /\ status' = [status EXCEPT ![t] = "ACTIVE"]
        /\ Goto(t, "announce") /\ cur = t /\ pc[t] = "activate" /\ lineage' = lineage
    BY <1>5 DEF Activate, At, tree
  <2>2. CASE t = Root
    <3>1. error[Root] = None /\ error'[Root] = None
      BY <1>0, <2>1, <2>2 DEF Fresh
    <3> QED BY <3>1 DEF Reported, Outward
  <2>3. CASE t # Root
    BY <1>0, <2>1, <2>3, ReportedMoves
  <2> QED BY <2>2, <2>3
<1>6. ASSUME NEW t \in Task, Admit(t) PROVE Reported' /\ Outward
  <2>1. cur = t /\ pc[t] = "check" /\ (parent[t] # None => IsActive(parent[t])) /\ UNCHANGED error
    BY <1>6 DEF Admit, At
  <2>2. CASE parent[t] = None
    <3>1. t = Root
      BY <2>1, <2>2 DEF IInv, TreeOK, StackOK
    <3>2. error[Root] = None
      BY <2>1, <3>1 DEF Fresh
    <3> QED BY <2>1, <3>2 DEF Reported, Outward
  <2>3. CASE parent[t] # None
    <3>1. Root \in lineage[parent[t]]
      BY <2>3 DEF IInv, TreeOK
    <3>2. status[Root] = "ACTIVE"
      BY <2>1, <2>3, <3>1 DEF IsActive
    <3>3. error[Root] = None
      BY <2>1, <3>2 DEF Reported
    <3> QED BY <2>1, <3>3 DEF Reported, Outward
  <2> QED BY <2>2, <2>3
<1>7. ASSUME NEW t \in Task, FailFatal(t) PROVE Reported' /\ Outward
  <2>1. /\ error' = [error EXCEPT ![Root] = t] /\ pc' = [pc EXCEPT ![t] = "cancel"]
        /\ cur = t /\ cur' = t /\ pc[t] = "raised" /\ lineage' = lineage /\ status' = status
    BY <1>7 DEF FailFatal, At, Goto, tree, flow
  <2>2. \A x \in Task : pc[x] # "idle" => x \in lineage[t]
    BY <2>1 DEF IInv, StackOK, WellStacked, Over
  <2>3. Root \in lineage[t]
    BY <2>1 DEF IInv, StackOK
  <2>4. Reported'
    BY <1>0, <2>1, <2>2, <2>3 DEF Reported
  <2>5. Outward
    BY <1>0, <2>1 DEF Reported, Outward
  <2> QED BY <2>4, <2>5
<1>8. ASSUME NEW t \in Task, CancelRoot(t) PROVE Reported' /\ Outward
  <2>1. /\ status' = [status EXCEPT ![Root] = "CANCELLED"] /\ pc' = [pc EXCEPT ![t] = "cancelled"]
        /\ pc[t] = "cancel" /\ error' = error /\ lineage' = lineage
    BY <1>8 DEF CancelRoot, At, Goto, tree
  <2> QED BY <1>0, <2>1 DEF Reported, Outward
<1>9. ASSUME NEW t \in Task, RunNextSubtask(t) \/ CallAdded(t) PROVE Reported' /\ Outward
  <2>1. PICK u \in Items(subtasks[t]) :
            pc' = [pc EXCEPT ![u] = "check"]
            \/ (pc' = [pc EXCEPT ![t] = "function", ![u] = "check"] /\ pc[t] = "holding")
    BY <1>9, LoopCalls, FunctionCalls DEF RunNextSubtask, Call, CallAdded, At
  <2>2. u \in Task /\ u # t /\ pc[u] = "idle"
    BY <1>9, CalledIsIdle DEF RunNextSubtask, CallAdded, At
  <2>3. UNCHANGED <<error, lineage, status>> /\ cur = t /\ pc[t] # "cancel"
    BY <1>9 DEF RunNextSubtask, CallAdded, At, tree
  <2>4. error[Root] # None => status[Root] # "ACTIVE"
    BY <2>3 DEF Reported
  <2> QED BY <1>0, <2>1, <2>2, <2>3, <2>4 DEF Reported, Outward
<1>10. ASSUME NEW t \in Task, NEW u \in Task, AddSubtask(t, u) PROVE Reported' /\ Outward
  <2>1. /\ Root \notin lineage[u] /\ lineage' = [lineage EXCEPT ![u] = {u} \cup lineage[t]]
        /\ pc' = [pc EXCEPT ![t] = "added"] /\ pc[t] = "function" /\ cur = t /\ cur' = cur
        /\ UNCHANGED <<error, status>>
    BY <1>10 DEF AddSubtask, At, Goto, Linked, flow
  <2>2. error[Root] # None => error[Root] # u
    BY <2>1 DEF Reported
  <2> QED BY <1>0, <2>1, <2>2 DEF Reported, Outward
<1>11. CASE Interface
  BY <1>0, <1>11 DEF Interface, CancelSetsEvent, CancelSetsStatus, CancelNotifies, tree, flow, Reported, Outward
<1>12. CASE UNCHANGED vars
  BY <1>12 DEF vars, Reported, Outward
<1> QED
  BY <1>1, <1>2, <1>3, <1>4, <1>5, <1>6, <1>7, <1>8, <1>9, <1>10, <1>11, <1>12 DEF Next, Worker, Inside

\* The error the list reports is replaced only by one of a task above the one
\* that failed first.
THEOREM ReportsMoveOutward == Spec => ErrorMovesOutward
<1>1. Init => Fresh /\ Reported
  BY RootAssumption DEF Init, Fresh, Reported
<1>2. IInv /\ Fresh /\ FailureReachesRoot /\ [Next]_vars => Fresh'
  BY FailureNext
<1>3. IInv /\ Fresh /\ Reported /\ [Next]_vars => Reported' /\ [Outward]_vars
  BY ReportedNext
<1> QED
  BY <1>1, <1>2, <1>3, FailureIsReported, Inductive, PTL DEF Spec, ErrorMovesOutward, Outward

-----------------------------------------------------------------------------
(* The worker is the engine                                                 *)

\* Whatever the interface thread does, it does to the list what TaskList lets
\* it do: nothing, or one step of cancel().
LEMMA EngineSteps == [RNext]_rvars => [Next]_vars
<1> SUFFICES ASSUME [RNext]_rvars PROVE [Next]_vars
  OBVIOUS
<1>1. CASE UNCHANGED engine
  BY <1>1 DEF engine, vars, tree, flow
<1>2. CASE WorkerNext
  BY <1>1, <1>2 DEF WorkerNext, WorkerStep, Send, Seen, StopLoop, WakeLoop, Next, Worker
<1>3. CASE CancelList \/ CancelCallsBack
  BY <1>3 DEF CancelList, CancelCallsBack, Next, Interface
<1>4. CASE UINext \/ UserNext
  BY <1>1, <1>3, <1>4 DEF UINext, UserNext, StartLoop, TestFlag, Deliver, GetNull, GetQuit,
     BoxTakesNull, NothingToCancel, Join, ApplicationQuits, LeaveLoop, NextPage,
     PressCancel, AnswerNo, Destroy, GotoUI
<1>5. CASE UNCHANGED rvars
  BY <1>1, <1>5 DEF rvars
<1> QED BY <1>2, <1>4, <1>5 DEF RNext

\* Every theorem about the engine is a theorem about the program around it.
THEOREM RunsTheEngine == RSpec => Spec
<1>1. RInit => Init
  BY DEF RInit
<1> QED BY <1>1, EngineSteps, PTL DEF RSpec, Spec

-----------------------------------------------------------------------------
(* The root                                                                 *)

\* The function of the list is "def tasklist(): return": its frame takes the
\* straight way, and COMPLETED is its last word unless somebody cancels.
RootPlace == {"check", "activate", "announce", "function", "subtasks", "finish",
              "finished", "return", "idle"}
RootOK ==
    /\ pc[Root] \in RootPlace
    /\ status[Root] = "COMPLETED" => pc[Root] \in {"finished", "return", "idle"}
    /\ stopped /\ ui = "idle" => error[Root] # None

\* No step takes the root off that way.
LEMMA RootNext == IInv /\ Fresh /\ RootOK /\ [Next]_vars => RootOK'
<1> SUFFICES ASSUME IInv, Fresh, RootOK, [Next]_vars PROVE RootOK'
  OBVIOUS
<1> USE RootAssumption
<1>0. /\ pc \in [Task -> Place] /\ status \in [Task -> Status]
      /\ error \in [Task -> Task \cup {None}] /\ stopped \in BOOLEAN
  BY DEF IInv, Typed, TypeOK
<1>1. ASSUME NEW t \in Task, t # Root, NEW p, pc' = [pc EXCEPT ![t] = p],
             status'[Root] = status[Root] \/ status'[Root] = "CANCELLED",
             UNCHANGED ui, stopped' = stopped \/ error'[Root] # None,
             error'[Root] = error[Root] \/ error'[Root] # None
      PROVE  RootOK'
  BY <1>0, <1>1 DEF RootOK
<1>2. ASSUME NEW t \in Task, t # Root,
             \/ Admit(t) \/ Skip(t) \/ Activate(t) \/ Notify(t) \/ FunctionReturns(t) \/ Raise(t)
             \/ FailFatal(t) \/ CancelRoot(t) \/ FailNonFatal(t) \/ SubtasksDone(t)
      PROVE  RootOK'
  BY <1>0, <1>1, <1>2 DEF Admit, Skip, Activate, Notify, FunctionReturns, Raise, FailFatal,
     CancelRoot, FailNonFatal, SubtasksDone, At, Goto
<1>3. ASSUME NEW t \in Task, t # Root,
             \/ Finish(t) \/ Return(t) \/ LeaveAdded(t) \/ SetProgress(t) \/ FinishSelf(t)
             \/ \E u \in Task : AddSubtask(t, u)
      PROVE  RootOK'
  BY <1>0, <1>1, <1>3 DEF Finish, Return, LeaveAdded, SetProgress, FinishSelf, AddSubtask, At, Goto
<1>4. ASSUME Admit(Root) \/ Skip(Root) \/ FunctionReturns(Root) \/ SubtasksDone(Root) \/ Return(Root)
      PROVE  RootOK'
  BY <1>0, <1>4 DEF Admit, Skip, FunctionReturns, SubtasksDone, Return, At, Goto, RootOK, RootPlace
<1>5. ASSUME Activate(Root) PROVE RootOK'
  BY <1>0, <1>5 DEF Activate, At, Goto, RootOK, RootPlace, Fresh
<1>6. ASSUME Finish(Root) PROVE RootOK'
  BY <1>0, <1>6 DEF Finish, At, Goto, RootOK, RootPlace
<1>7. ASSUME Notify(Root) PROVE RootOK'
  <2>1. pc[Root] \in {"announce", "finished"}
    BY <1>7 DEF Notify, At, RootOK, RootPlace, Notifying
  <2>2. /\ pc[Root] = "announce" => Resume(pc[Root]) = "function"
        /\ pc[Root] = "finished" => Resume(pc[Root]) = "return"
    BY DEF Resume
  <2> QED BY <1>0, <1>7, <2>1, <2>2 DEF Notify, Goto, RootOK, RootPlace
<1>8. ASSUME NEW t \in Task, RunNextSubtask(t) \/ CallAdded(t) PROVE RootOK'
  <2>1. PICK u \in Items(subtasks[t]) :
            pc' = [pc EXCEPT ![u] = "check"]
            \/ (pc' = [pc EXCEPT ![t] = "function", ![u] = "check"] /\ pc[t] = "holding")
    BY <1>8, LoopCalls, FunctionCalls DEF RunNextSubtask, Call, CallAdded, At
  <2>2. u \in Task /\ u # Root /\ u # t
    BY <1>8, CalledIsIdle DEF RunNextSubtask, CallAdded, At
  <2>3. UNCHANGED <<error, stopped, status, ui>> /\ pc[Root] # "holding"
    BY <1>8 DEF RunNextSubtask, CallAdded, RootOK, RootPlace
  <2>4. pc'[Root] = pc[Root]
    BY <1>0, <2>1, <2>2, <2>3
  <2> QED BY <2>3, <2>4 DEF RootOK
<1>9. CASE Interface \/ UNCHANGED vars
  BY <1>0, <1>9 DEF Interface, CancelSetsEvent, CancelSetsStatus, CancelNotifies, vars, RootOK
<1>10. ASSUME \/ Raise(Root) \/ FailFatal(Root) \/ CancelRoot(Root) \/ FailNonFatal(Root)
              \/ LeaveAdded(Root) \/ SetProgress(Root) \/ FinishSelf(Root)
              \/ \E u \in Task : AddSubtask(Root, u)
       PROVE  FALSE
  BY <1>10 DEF Raise, FailFatal, CancelRoot, FailNonFatal, LeaveAdded, SetProgress, FinishSelf,
     AddSubtask, At, RootOK, RootPlace
<1>11. ASSUME NEW t \in Task, Inside(t) \/ Notify(t) PROVE RootOK'
  <2>1. CASE t = Root
    BY <1>4, <1>5, <1>6, <1>7, <1>8, <1>10, <1>11, <2>1 DEF Inside
  <2>2. CASE t # Root
    BY <1>2, <1>3, <1>8, <1>11, <2>2 DEF Inside
  <2> QED BY <2>1, <2>2
<1> QED BY <1>9, <1>11 DEF Next, Worker

\* All that is known of the engine.
Engine == Known /\ Clean /\ Fresh /\ RootOK

\* It holds when the list is created ...
LEMMA EngineInit == RInit => Engine
<1> SUFFICES ASSUME Init PROVE TreeMore /\ FailureReachesRoot /\ IInv /\ Clean /\ Fresh /\ RootOK
  BY DEF RInit, Engine, Known
<1>1. IInv
  BY TypeInit, TreeInit, StackInit, StatusInit DEF IInv
<1>2. Fresh /\ FailureReachesRoot /\ RootOK
  BY RootAssumption, RequiredAssumption DEF Init, Fresh, FailureReachesRoot, RootOK, RootPlace
<1> QED BY <1>1, <1>2, TreeMoreInit, CleanInit DEF Clean

\* ... and is inductive.
LEMMA EngineNext == Engine /\ [Next]_vars => Engine'
<1>1. IInv /\ [Next]_vars => IInv'
  BY TypeNext, HoldsNext, TreeNext, StackNext, StatusNext DEF IInv, Typed
<1> QED BY <1>1, TreeMoreNext, FailureNext, CleanNext, RootNext DEF Engine, Known

\* When an unstopped list is notified of and its root is not ACTIVE, it is the
\* root's own "Finished": no frame is left but the root's.
LEMMA LastWord ==
    ASSUME Engine, ~stopped, status[Root] # "ACTIVE", pc[Root] \notin {"check", "activate"}
    PROVE  /\ status[Root] = "COMPLETED" /\ pc[Root] \in {"finished", "return", "idle"}
           /\ \A x \in Task \ {Root} : pc[x] = "idle"
           /\ pc[Root] # "idle" => cur = Root
<1> USE RootAssumption
<1>1. CleanInv /\ IInv
  BY DEF Engine, Clean, Known
<1>2. status[Root] \notin {"CANCELLED", "FAILED", "INACTIVE"}
  BY <1>1 DEF CleanInv, Unstopped, Failing, Begun
<1>3. status[Root] = "COMPLETED"
  BY <1>1, <1>2 DEF IInv, Typed, TypeOK, Status
<1>4. pc[Root] \in {"finished", "return", "idle"}
  BY <1>3 DEF Engine, RootOK
<1>5. CASE pc[Root] = "idle"
  <2>1. cur = None
    BY <1>1, <1>5 DEF IInv, StackOK, WellStacked, Over
  <2> QED BY <1>1, <1>3, <1>5, <2>1 DEF IInv, StackOK, WellStacked, Over
<1>6. CASE pc[Root] # "idle"
  <2>1. cur = Root /\ lineage[Root] = {Root}
    BY <1>1, <1>4, <1>6 DEF IInv, StackOK, TreeOK
  <2> QED BY <1>1, <1>3, <1>4, <2>1 DEF IInv, StackOK, WellStacked, Over
<1> QED BY <1>5, <1>6

-----------------------------------------------------------------------------
(* The two threads together                                                 *)

\* Nobody has asked to quit and the loop is not being left for that.
Undisturbed == loop \notin {"on_quit", "join", "quit", "exited"} /\ ~quitting

\* The root has been seen not to be ACTIVE, or is about to have been.
Noticed == told \/ callback = "stopping"

\* A callback waits where a frame notifies; it stops the loop on good grounds.
CallbackOK ==
    /\ callback # "none" => cur \in Task /\ pc[cur] \in Notifying
    /\ callback = "stopping" => status[Root] # "ACTIVE"
    /\ told /\ ~stopped => status[Root] = "COMPLETED" /\ pc[Root] \in {"return", "idle"}

\* run_tasks: nothing stops a loop before it is set going, only a stop or the
\* user ends it, and it returns only when it has been stopped by the list.
LoopOK ==
    /\ loop = "show" => callback \in {"none", "sending"} /\ ~told
    /\ loop \notin {"done", "exited"} => outcome = "none"
    /\ outcome = "none" /\ Noticed => ~keep
    /\ Undisturbed => ui = "idle" /\ "quit" \notin posted
    /\ Undisturbed /\ loop \in {"test", "wait", "confirm", "left"} /\ ~keep => Noticed
    /\ Undisturbed /\ loop = "left" => ~keep
    /\ outcome = "returned" => loop = "done" /\ ~stopped /\ Noticed

\* The types of the interface thread's variables, and of the callback.
LocalType ==
    /\ callback \in {"none", "sending", "delivered", "stopping"}
    /\ loop \in {"show", "test", "wait", "confirm", "on_quit", "join", "quit",
                 "left", "done", "exited"}
    /\ keep \in BOOLEAN /\ quitting \in BOOLEAN /\ forceExit \in BOOLEAN
    /\ posted \subseteq {"null", "quit"}
    /\ outcome \in {"none", "returned", "raised", "exited"}

RInv == Engine /\ LocalType /\ CallbackOK /\ LoopOK

\* While a callback is under way the worker takes no other step.
LEMMA WorkerWaits ==
    ASSUME RInv, NEW t \in Task, Inside(t)
    PROVE  callback = "none" /\ cur = t
BY DEF RInv, CallbackOK, Inside, At, Notifying, Admit, Skip, Activate, FunctionReturns, Raise,
   FailFatal, CancelRoot, FailNonFatal, RunNextSubtask, SubtasksDone, Finish, Return,
   AddSubtask, CallAdded, LeaveAdded, SetProgress, FinishSelf

\* Such a step tells nobody; it neither cancels nor is cancelled meanwhile.
LEMMA WorkerIsMute ==
    ASSUME NEW t \in Task, Inside(t)
    PROVE  /\ UNCHANGED <<told, ui>>
           /\ stopped' = stopped \/ (pc[t] = "raised" /\ cur = t)
BY DEF Inside, At, Admit, Skip, Activate, FunctionReturns, Raise,
   FailFatal, CancelRoot, FailNonFatal, RunNextSubtask, SubtasksDone, Finish, Return,
   AddSubtask, CallAdded, LeaveAdded, SetProgress, FinishSelf

\* The last conjunct of CallbackOK needs only what the engine is.
LEMMA ToldStays ==
    ASSUME RInv, Engine', told, NEW t \in Task, Inside(t), ~stopped'
    PROVE  status'[Root] = "COMPLETED" /\ pc'[Root] \in {"return", "idle"}
<1> USE RootAssumption
<1>0. [Next]_vars
  BY DEF Next, Worker
<1>1. ~stopped /\ IInv
  BY <1>0, StopStays DEF RInv, Engine, Known
<1>2. status[Root] = "COMPLETED" /\ pc[Root] \in {"return", "idle"}
  BY <1>1 DEF RInv, CallbackOK
<1>3. t = Root /\ pc[Root] = "return"
  <2>1. \A x \in Task \ {Root} : pc[x] = "idle"
    BY <1>1, <1>2, LastWord DEF RInv
  <2>2. pc[t] # "idle"
    BY DEF Inside, At, Admit, Skip, Activate, FunctionReturns, Raise,
       FailFatal, CancelRoot, FailNonFatal, RunNextSubtask, SubtasksDone, Finish, Return,
       AddSubtask, CallAdded, LeaveAdded, SetProgress, FinishSelf
  <2> QED BY <1>2, <2>1, <2>2
<1>4. Return(Root)
  BY <1>3 DEF Inside, At, Admit, Skip, Activate, FunctionReturns, Raise,
     FailFatal, CancelRoot, FailNonFatal, RunNextSubtask, SubtasksDone, Finish, Return,
     AddSubtask, CallAdded, LeaveAdded, SetProgress, FinishSelf
<1> QED BY <1>1, <1>2, <1>4 DEF Return, Goto, IInv, Typed, TypeOK

\* A step of the worker outside its callbacks.
LEMMA StepKeeps == ASSUME RInv, Engine', WorkerStep PROVE CallbackOK' /\ LoopOK'
<1>1. PICK t \in Task : Inside(t)
  BY DEF WorkerStep
<1>2. /\ callback = "none" /\ UNCHANGED <<local, told, ui>>
      /\ stopped' = stopped \/ (pc[t] = "raised" /\ cur = t)
  BY <1>1, WorkerWaits, WorkerIsMute DEF WorkerStep
<1>3. UNCHANGED <<callback, loop, keep, posted, quitting, forceExit, outcome>>
  BY <1>2 DEF local
<1>4. outcome = "returned" => ~stopped'
  <2> SUFFICES ASSUME outcome = "returned", pc[t] = "raised", cur = t PROVE FALSE
    BY <1>2 DEF RInv, LoopOK
  <2>1. ~stopped /\ told
    BY <1>2 DEF RInv, LoopOK, Noticed
  <2>2. status[Root] = "COMPLETED" /\ pc[Root] \in {"return", "idle"}
    BY <2>1 DEF RInv, CallbackOK
  <2> QED BY <2>1, <2>2, LastWord DEF RInv
<1>5. CallbackOK'
  BY <1>1, <1>2, <1>3, ToldStays DEF CallbackOK
<1>6. LoopOK'
  BY <1>2, <1>3, <1>4 DEF RInv, LoopOK, Undisturbed, Noticed
<1> QED BY <1>5, <1>6

\* A callback: it is sent, seen, and stops the loop when there is cause.
LEMMA CallbackKeeps ==
    ASSUME RInv, Engine', Send \/ Seen \/ StopLoop \/ WakeLoop
    PROVE  CallbackOK' /\ LoopOK'
<1> USE RootAssumption
<1>0. stopped \in BOOLEAN /\ pc \in [Task -> Place]
  BY DEF RInv, Engine, Known, IInv, Typed, TypeOK
<1>1. CASE Send
  <2>1. UNCHANGED <<status, cur, pc, stopped, ui, told>>
    BY <1>1 DEF Send, engine, flow
  <2> QED BY <1>1, <2>1 DEF Send, RInv, CallbackOK, LoopOK, Undisturbed, Noticed, At
<1>2. CASE Seen
  <2>1. callback' = "none" /\ status[Root] = "ACTIVE" /\ callback = "delivered"
        /\ UNCHANGED <<loop, keep, posted, quitting, outcome>>
    BY <1>2 DEF Seen
  <2>2. UNCHANGED <<status, stopped, ui, told>>
    <3>1. PICK t \in Task : Notify(t)
      BY <1>2 DEF Seen
    <3>2. told' = (told \/ status[Root] # "ACTIVE") /\ UNCHANGED <<status, stopped, ui>>
      BY <3>1 DEF Notify
    <3>3. told \in BOOLEAN
      BY DEF RInv, Engine, Known, IInv, Typed, TypeOK
    <3> QED BY <2>1, <3>2, <3>3
  <2>3. ~told \/ stopped
    BY <2>1 DEF RInv, CallbackOK
  <2> QED BY <2>1, <2>2, <2>3 DEF RInv, CallbackOK, LoopOK, Undisturbed, Noticed
<1>3. CASE StopLoop
  <2>1. UNCHANGED <<status, cur, pc, stopped, ui, told>> /\ callback = "delivered" /\ callback' = "stopping"
        /\ status[Root] # "ACTIVE" /\ ~keep' /\ UNCHANGED <<loop, posted, quitting, outcome>>
    BY <1>3 DEF StopLoop, engine, flow
  <2> QED BY <2>1 DEF RInv, CallbackOK, LoopOK, Undisturbed, Noticed
<1>4. CASE WakeLoop
  <2>1. PICK t \in Task : Notify(t)
    BY <1>4 DEF WakeLoop
  <2>2. callback = "stopping" /\ callback' = "none" /\ status[Root] # "ACTIVE"
        /\ UNCHANGED <<loop, keep, quitting, outcome>> /\ posted' = posted \cup {"null"}
    BY <1>4 DEF WakeLoop, RInv, CallbackOK
  <2>3. told' /\ UNCHANGED <<status, stopped, ui>> /\ Goto(t, Resume(pc[t])) /\ cur = t
        /\ pc[t] \in Notifying
    BY <2>1, <2>2 DEF Notify, At
  <2>4. CallbackOK'
    <3> SUFFICES ASSUME ~stopped PROVE status[Root] = "COMPLETED" /\ pc'[Root] \in {"return", "idle"}
      BY <2>2, <2>3 DEF CallbackOK
    <3>1. pc[Root] \notin {"check", "activate"}
      BY <2>3, RootWaits DEF Notifying, RInv, Engine, Known
    <3>2. status[Root] = "COMPLETED" /\ pc[Root] \in {"finished", "return", "idle"}
          /\ \A x \in Task \ {Root} : pc[x] = "idle"
      BY <2>2, <3>1, LastWord DEF RInv
    <3>3. t = Root /\ pc[Root] = "finished"
      BY <2>3, <3>2 DEF Notifying
    <3> QED BY <1>0, <2>3, <3>2, <3>3 DEF Goto, Resume
  <2> QED BY <2>2, <2>3, <2>4 DEF RInv, LoopOK, Undisturbed, Noticed
<1> QED BY <1>1, <1>2, <1>3, <1>4

\* cancel() by the interface thread: it may find the root not ACTIVE, but then
\* somebody has stopped the list.
LEMMA CancelKeeps ==
    ASSUME RInv, CancelList \/ CancelCallsBack
    PROVE  CallbackOK' /\ LoopOK'
<1>0. /\ status \in [Task -> Status] /\ Root \in Task
      /\ stopped \in BOOLEAN /\ told \in BOOLEAN /\ keep \in BOOLEAN
  BY RootAssumption DEF RInv, Engine, Known, IInv, Typed, TypeOK, LocalType
<1>1. CASE CancelList
  <2>1. /\ UNCHANGED <<cur, pc, told, callback, loop, keep, posted, quitting, outcome>>
        /\ loop = "on_quit"
    BY <1>1 DEF CancelList, CancelSetsEvent, CancelSetsStatus, local, flow
  <2>2. \/ stopped' /\ UNCHANGED status
        \/ ui = "event" /\ UNCHANGED stopped /\ status' = [status EXCEPT ![Root] = "CANCELLED"]
    BY <1>1 DEF CancelList, CancelSetsEvent, CancelSetsStatus
  <2>3. ui = "event" => stopped
    BY DEF RInv, Engine, Clean, CleanInv, Unstopped
  <2>4. CallbackOK'
    BY <1>0, <2>1, <2>2, <2>3 DEF RInv, CallbackOK
  <2>5. LoopOK'
    BY <2>1 DEF RInv, LoopOK, Undisturbed, Noticed
  <2> QED BY <2>4, <2>5
<1>2. CASE CancelCallsBack
  <2>1. /\ UNCHANGED <<status, stopped, cur, pc, callback, quitting, outcome>> /\ ui = "status"
        /\ told' = (told \/ status[Root] # "ACTIVE") /\ keep' = (keep /\ status[Root] = "ACTIVE")
        /\ loop = "on_quit" /\ loop' = "join"
    BY <1>2 DEF CancelCallsBack, CancelNotifies, flow
  <2>2. stopped
    BY <2>1 DEF RInv, Engine, Clean, CleanInv, Unstopped
  <2>3. CallbackOK'
    BY <2>1, <2>2 DEF RInv, CallbackOK
  <2>4. outcome = "none"
    BY <2>1 DEF RInv, LoopOK
  <2>5. Noticed' => ~keep'
    <3>1. CASE status[Root] = "ACTIVE"
      <4>1. told' = told /\ keep' = keep
        BY <1>0, <2>1, <3>1
      <4> QED BY <2>1, <2>4, <4>1 DEF RInv, LoopOK, Noticed
    <3>2. CASE status[Root] # "ACTIVE"
      BY <2>1, <3>2
    <3> QED BY <3>1, <3>2
  <2> QED BY <2>1, <2>3, <2>4, <2>5 DEF LoopOK, Undisturbed
<1> QED BY <1>1, <1>2

\* Everything else the interface thread does leaves the list alone.
LEMMA LoopKeeps ==
    ASSUME RInv, UINext \/ UserNext, ~CancelList, ~CancelCallsBack
    PROVE  CallbackOK' /\ LoopOK'
<1>0. keep \in BOOLEAN /\ quitting \in BOOLEAN
  BY DEF RInv, LocalType
<1>1. UNCHANGED <<status, cur, pc, stopped, ui, told>> /\ (callback' = callback \/ Deliver)
  BY DEF UINext, UserNext, StartLoop, TestFlag, Deliver, GetNull, GetQuit,
     BoxTakesNull, NothingToCancel, Join, ApplicationQuits, LeaveLoop, NextPage,
     PressCancel, AnswerNo, Destroy, GotoUI, engine, flow
<1>2. CallbackOK'
  BY <1>1 DEF RInv, CallbackOK, Deliver
<1> SUFFICES LoopOK'
  BY <1>2
<1>3. CASE StartLoop \/ Deliver \/ GetNull \/ PressCancel \/ BoxTakesNull \/ AnswerNo
  BY <1>0, <1>1, <1>3 DEF StartLoop, Deliver, Pumping, GetNull, PressCancel, BoxTakesNull,
     AnswerNo, GotoUI, RInv, LoopOK, Undisturbed, Noticed
<1>4. CASE TestFlag
  <2>1. loop' = "wait" \/ (loop' = "left" /\ ~keep)
    BY <1>4 DEF TestFlag, GotoUI
  <2> QED BY <1>1, <1>4, <2>1 DEF TestFlag, GotoUI, RInv, LoopOK, Undisturbed, Noticed
<1>5. CASE GetQuit
  <2>1. loop = "wait" /\ loop' = "left" /\ "quit" \in posted /\ posted' = {}
        /\ UNCHANGED <<callback, keep, quitting, outcome>>
    BY <1>5 DEF GetQuit, GotoUI
  <2>2. quitting
    BY <2>1 DEF RInv, LoopOK, Undisturbed
  <2> QED BY <1>1, <2>1, <2>2 DEF RInv, LoopOK, Undisturbed, Noticed
<1>6. CASE Destroy \/ NothingToCancel \/ Join
  BY <1>1, <1>6 DEF Destroy, NothingToCancel, Join, GotoUI, RInv, LoopOK, Undisturbed, Noticed
<1>7. CASE ApplicationQuits
  <2>1. /\ loop = "quit" /\ quitting' /\ UNCHANGED <<callback, keep, posted>>
        /\ (loop' = "exited" /\ outcome' = "exited") \/ (loop' = "test" /\ outcome' = outcome)
    BY <1>7 DEF ApplicationQuits, GotoUI
  <2>2. outcome = "none"
    BY <2>1 DEF RInv, LoopOK
  <2> QED BY <1>1, <2>1, <2>2 DEF RInv, LoopOK, Undisturbed, Noticed
<1>8. CASE LeaveLoop
  <2>1. loop = "left" /\ UNCHANGED <<callback, keep, posted, quitting>>
    BY <1>8 DEF LeaveLoop, GotoUI
  <2>2. CASE quitting
    BY <1>1, <1>8, <2>1, <2>2 DEF LeaveLoop, GotoUI, RInv, LoopOK, Undisturbed, Noticed
  <2>3. CASE ~quitting
    <3>1. /\ loop' = "done" /\ Noticed /\ ui = "idle" /\ "quit" \notin posted
          /\ outcome' = IF error[Root] # None THEN "raised" ELSE "returned"
      BY <1>8, <2>1, <2>3 DEF LeaveLoop, GotoUI, RInv, LoopOK, Undisturbed
    <3>2. outcome' = "returned" => ~stopped
      BY <3>1 DEF RInv, Engine, RootOK
    <3> QED BY <1>1, <2>1, <3>1, <3>2 DEF LoopOK, Undisturbed, Noticed
  <2> QED BY <2>2, <2>3
<1>9. CASE NextPage
  BY <1>1, <1>9 DEF NextPage, GotoUI, RInv, LoopOK, Undisturbed, Noticed
<1> QED
  BY <1>2, <1>3, <1>4, <1>5, <1>6, <1>7, <1>8, <1>9 DEF UINext, UserNext

\* Every step keeps the types of what run_tasks adds.
LEMMA LocalNext == LocalType /\ [RNext]_rvars => LocalType'
<1> SUFFICES ASSUME LocalType, [RNext]_rvars PROVE LocalType'
  OBVIOUS
<1>1. CASE WorkerNext
  BY <1>1 DEF LocalType, WorkerNext, WorkerStep, Send, Seen, StopLoop, WakeLoop, local
<1>2. CASE CancelCallsBack
  <2>1. keep' \in BOOLEAN
    BY <1>2 DEF CancelCallsBack
  <2> QED BY <1>2, <2>1 DEF LocalType, CancelCallsBack
<1>3. CASE Join
  <2>1. forceExit' \in BOOLEAN
    BY <1>3 DEF Join
  <2> QED BY <1>3, <2>1 DEF LocalType, Join, GotoUI
<1>4. CASE StartLoop \/ TestFlag \/ Deliver \/ GetNull \/ GetQuit \/ BoxTakesNull \/ CancelList
  BY <1>4 DEF LocalType, StartLoop, TestFlag, Deliver, GetNull, GetQuit,
     BoxTakesNull, CancelList, GotoUI, local
<1>5. CASE NothingToCancel \/ ApplicationQuits \/ LeaveLoop \/ NextPage \/ UserNext
  BY <1>5 DEF LocalType, NothingToCancel, ApplicationQuits, LeaveLoop, NextPage,
     UserNext, PressCancel, AnswerNo, Destroy, GotoUI
<1>6. CASE UNCHANGED rvars
  BY <1>6 DEF rvars, local, LocalType
<1> QED BY <1>1, <1>2, <1>3, <1>4, <1>5, <1>6 DEF RNext, UINext

\* The invariant of the two threads, for every list of tasks.
THEOREM RunInvariant == RSpec => []RInv
<1>1. RInit => RInv
  <2> SUFFICES ASSUME RInit PROVE LocalType /\ CallbackOK /\ LoopOK
    BY EngineInit DEF RInv
  <2> QED BY DEF RInit, Init, LocalType, CallbackOK, LoopOK, Undisturbed, Noticed
<1>2. RInv /\ [RNext]_rvars => RInv'
  <2> SUFFICES ASSUME RInv, [RNext]_rvars PROVE RInv'
    OBVIOUS
  <2>1. Engine' /\ LocalType'
    BY EngineSteps, EngineNext, LocalNext DEF RInv
  <2> SUFFICES CallbackOK' /\ LoopOK'
    BY <2>1 DEF RInv
  <2>2. CASE WorkerNext
    BY <2>1, <2>2, StepKeeps, CallbackKeeps DEF WorkerNext
  <2>3. CASE CancelList \/ CancelCallsBack
    BY <2>3, CancelKeeps
  <2>4. CASE (UINext \/ UserNext) /\ ~CancelList /\ ~CancelCallsBack
    BY <2>4, LoopKeeps
  <2>5. CASE UNCHANGED rvars
    BY <2>5 DEF rvars, engine, local, flow, RInv, CallbackOK, LoopOK, Undisturbed, Noticed
  <2> QED BY <2>2, <2>3, <2>4, <2>5 DEF RNext
<1> QED BY <1>1, <1>2, PTL DEF RSpec

\* The types of both threads' variables.
THEOREM RunTypes == RSpec => []RTypeOK
<1>1. RInv => RTypeOK
  BY DEF RInv, LocalType, RTypeOK, Engine, Known, IInv, Typed
<1> QED BY <1>1, RunInvariant, PTL

\* A stop the worker sends is never undone by the loop it is meant for.
THEOREM NoStopIsLost == RSpec => []StopNotLost
<1>1. RInv => StopNotLost
  BY DEF RInv, LoopOK, Noticed, StopNotLost
<1> QED BY <1>1, RunInvariant, PTL

\* run_tasks returns normally only on a list that has done its work.
THEOREM ReturnedListsAreDone == RSpec => []ReturnMeansDone
<1>1. RInv => ReturnMeansDone
  <2> SUFFICES ASSUME RInv, outcome = "returned"
               PROVE  /\ ~stopped /\ error[Root] = None
                      /\ \A t \in Linked \ {Root} :
                            \/ status[t] = "COMPLETED"
                            \/ \E a \in lineage[t] \ Required : error[a] # None
    BY DEF ReturnMeansDone
  <2>1. ~stopped /\ Noticed /\ IInv
    BY DEF RInv, LoopOK, Engine, Known
  <2>2. CleanInv /\ Known
    BY <2>1 DEF RInv, Engine, Clean
  <2>3. status[Root] # "ACTIVE" /\ pc[Root] \notin {"check", "activate"}
    <3>1. CASE told
      BY <2>1, <3>1 DEF RInv, CallbackOK
    <3>2. CASE callback = "stopping"
      <4>1. status[Root] # "ACTIVE" /\ cur \in Task /\ pc[cur] \in Notifying
        BY <3>2 DEF RInv, CallbackOK
      <4> QED BY <2>1, <4>1, RootWaits DEF Notifying
    <3> QED BY <2>1, <3>1, <3>2 DEF Noticed
  <2>4. \A x \in Task : pc[x] \in {"idle", "finished", "return"}
    BY <2>1, <2>3, LastWord DEF RInv
  <2> QED BY <2>1, <2>2, <2>4, WorkIsDone
<1> QED BY <1>1, RunInvariant, PTL

\* No callback left over from the list stops the loop of a later page.
THEOREM NoStopIsLeftOver == RSpec => NoStrayStop
<1>1. RInv /\ [RNext]_rvars => [outcome = "returned" /\ keep => keep']_rvars
  <2> SUFFICES ASSUME RInv, [RNext]_rvars, outcome = "returned", keep PROVE keep'
    OBVIOUS
  <2>1. loop = "done" /\ ~stopped /\ Noticed
    BY DEF RInv, LoopOK
  <2>2. ~StopLoop
    <3> SUFFICES ASSUME callback = "delivered" PROVE FALSE
      BY DEF StopLoop
    <3>1. told /\ cur \in Task /\ pc[cur] \in Notifying
      BY <2>1 DEF RInv, CallbackOK, Noticed
    <3>2. status[Root] = "COMPLETED" /\ pc[Root] \in {"return", "idle"}
      BY <2>1, <3>1 DEF RInv, CallbackOK
    <3>3. \A x \in Task \ {Root} : pc[x] = "idle"
      BY <2>1, <3>2, LastWord DEF RInv
    <3> QED BY <3>1, <3>2, <3>3 DEF Notifying
  <2>3. WorkerNext => keep' = keep
    BY <2>2 DEF WorkerNext, WorkerStep, Send, Seen, WakeLoop, local
  <2>4. UINext \/ UserNext => keep' = keep \/ keep'
    BY <2>1 DEF UINext, UserNext, StartLoop, TestFlag, Deliver, GetNull, GetQuit,
       BoxTakesNull, CancelList, NothingToCancel, CancelCallsBack, Join, ApplicationQuits,
       LeaveLoop, NextPage, PressCancel, AnswerNo, Destroy, local
  <2>5. UNCHANGED rvars => keep' = keep
    BY DEF rvars, local
  <2> QED BY <2>3, <2>4, <2>5 DEF RNext
<1> QED BY <1>1, RunInvariant, PTL DEF RSpec, NoStrayStop
=============================================================================
