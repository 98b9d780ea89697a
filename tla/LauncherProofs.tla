----------------------------- MODULE LauncherProofs -----------------------------
(***************************************************************************)
(* What pylauncher deletes and what it leaves, for every depth of          *)
(* directories and whatever other processes leave or hold there; that the  *)
(* decoder reads from the header of every archive what the compressor      *)
(* wrote; and on what Python runs, for every archive and every damage.     *)
(***************************************************************************)
EXTENDS Launcher, SequenceTheorems, FiniteSetTheorems, FunctionTheorems, TLAPS

\* Paths of targetdir and below it.
InTarget(p) == (\E S : p \in Seq(S)) /\ p # <<>> /\ p[1] = "target"

\* A level of the recursion is in targetdir and has nothing to delete whose
\* name begins with a dot.
GoodFrame(f) ==
    /\ f = [dir |-> f.dir, todo |-> f.todo]
    /\ InTarget(f.dir) /\ f.todo \cap Dotted = {}
GoodFrames(T) == \A f \in T : GoodFrame(f)
GoodStack(s) == \E T : s \in Seq(T) /\ GoodFrames(T)

LInv ==
    /\ GoodStack(stack)
    /\ ppc # "none" => hpc \in {"sleep", "over"}

-----------------------------------------------------------------------------
(* Paths and stacks                                                         *)

LEMMA NonEmpty ==
    ASSUME NEW S, NEW s \in Seq(S), s # <<>>
    PROVE  Len(s) \in Nat \ {0} /\ Len(s) \in 1 .. Len(s) /\ Last(s) \in S
<1>1. Len(s) \in Nat \ {0}
    BY EmptySeq
<1>2. Len(s) \in 1 .. Len(s)
    BY <1>1
<1> QED
    BY <1>1, <1>2, ElementOfSeq DEF Last

\* What is in targetdir lies behind its path, in the sense of the property.
LEMMA TargetIsPrefix ==
    ASSUME NEW p, InTarget(p)
    PROVE  IsPrefix(Target, p)
<1>1. PICK S : p \in Seq(S)
    BY DEF InTarget
<1>2. Len(p) \in Nat /\ Len(p) >= 1
    BY <1>1, NonEmpty DEF InTarget
<1>3. Target \in Seq({"target"}) /\ Len(Target) = 1 /\ Target[1] = "target"
    BY DEF Target
<1>4. \A i \in 1 .. 1 : p[i] \in {"target"} /\ Target[i] \in {"target"}
    BY <1>3 DEF InTarget
<1>5. /\ SubSeq(p, 1, 1) \in Seq({"target"}) /\ Len(SubSeq(p, 1, 1)) = 1
      /\ SubSeq(Target, 1, 1) \in Seq({"target"}) /\ Len(SubSeq(Target, 1, 1)) = 1
    BY <1>4, SubSeqProperties
<1>6. \A i \in 1 .. 1 : SubSeq(p, 1, 1)[i] = SubSeq(Target, 1, 1)[i]
    BY <1>5
<1>7. SubSeq(p, 1, 1) = SubSeq(Target, 1, 1)
    BY <1>5, <1>6, SeqEqual
<1> QED
    BY <1>2, <1>3, <1>7 DEF IsPrefix

\* The paths _delete_directory makes of a name it has not skipped.
LEMMA EntryInTarget ==
    ASSUME NEW dir, InTarget(dir), NEW name, name \notin Dotted
    PROVE  InTarget(Entry(dir, name))
<1>1. Entry(dir, name) = Append(dir, name)
    BY DottedAssumption DEF Entry
<1>2. PICK S : dir \in Seq(S)
    BY DEF InTarget
<1>3. dir \in Seq(S \cup {name})
    BY <1>2, SeqMonotonic
<1>4. /\ Append(dir, name) \in Seq(S \cup {name})
      /\ Len(Append(dir, name)) = Len(dir) + 1
      /\ \A i \in 1 .. Len(dir) : Append(dir, name)[i] = dir[i]
    BY <1>3, AppendProperties
<1>5. Len(dir) \in Nat \ {0}
    BY <1>2, NonEmpty DEF InTarget
<1>6. Append(dir, name) # <<>>
    BY <1>4, <1>5, EmptySeq
<1>7. Append(dir, name)[1] = "target"
    BY <1>4, <1>5 DEF InTarget
<1> QED
    BY <1>1, <1>4, <1>6, <1>7 DEF InTarget

LEMMA TopIsGood ==
    ASSUME NEW s, GoodStack(s), s # <<>>
    PROVE  GoodFrame(Last(s))
<1>1. PICK T : s \in Seq(T) /\ GoodFrames(T)
    BY DEF GoodStack
<1> QED
    BY <1>1, NonEmpty DEF GoodFrames

LEMMA EnterIsGood ==
    ASSUME NEW dir, InTarget(dir), NEW below, GoodStack(below), Enter(dir, below)
    PROVE  GoodStack(stack')
<1>1. CASE stack' = below
    BY <1>1
<1>2. CASE stack' = Append(below, Frame(dir))
  <2>1. PICK T : below \in Seq(T) /\ GoodFrames(T)
    BY DEF GoodStack
  <2>2. GoodFrame(Frame(dir))
    BY DEF GoodFrame, Frame, Chosen
  <2>3. below \in Seq(T \cup {Frame(dir)})
    BY <2>1, SeqMonotonic
  <2>4. Append(below, Frame(dir)) \in Seq(T \cup {Frame(dir)})
    BY <2>3, AppendProperties
  <2>5. GoodFrames(T \cup {Frame(dir)})
    BY <2>1, <2>2 DEF GoodFrames
  <2> QED
    BY <1>2, <2>4, <2>5 DEF GoodStack
<1> QED
    BY <1>1, <1>2 DEF Enter

LEMMA TopWithoutIsGood ==
    ASSUME GoodStack(stack), stack # <<>>, NEW name
    PROVE  GoodStack(TopWithout(name))
<1>1. PICK T : stack \in Seq(T) /\ GoodFrames(T)
    BY DEF GoodStack
<1> DEFINE n == Len(stack)
           less == [stack[n] EXCEPT !.todo = @ \ {name}]
<1>2. GoodFrame(stack[n])
    BY TopIsGood DEF Last
<1>3. GoodFrame(less)
  <2>1. less = [dir |-> stack[n].dir, todo |-> stack[n].todo \ {name}]
    <3> DEFINE f == stack[n]
    <3>1. f = [dir |-> f.dir, todo |-> f.todo]
      BY <1>2 DEF GoodFrame
    <3>2. [[dir |-> f.dir, todo |-> f.todo] EXCEPT !.todo = f.todo \ {name}]
             = [dir |-> f.dir, todo |-> f.todo \ {name}]
      OBVIOUS
    <3> HIDE DEF f
    <3> QED
      BY <3>1, <3>2 DEF f
  <2> HIDE DEF less
  <2> QED
    BY <1>2, <2>1 DEF GoodFrame
<1> HIDE DEF less
<1>4. GoodFrames(T \cup {less}) /\ stack \in Seq(T \cup {less})
    BY <1>1, <1>3, SeqMonotonic DEF GoodFrames
<1>5. n \in 1 .. Len(stack)
    BY <1>1, NonEmpty
<1>6. [stack EXCEPT ![n] = less] \in Seq(T \cup {less})
    BY <1>4, <1>5, ExceptSeq
<1>7. TopWithout(name) = [stack EXCEPT ![n] = less]
    BY DEF TopWithout, less
<1> QED
    BY <1>4, <1>6, <1>7 DEF GoodStack

LEMMA FrontIsGood ==
    ASSUME GoodStack(stack), stack # <<>>
    PROVE  GoodStack(Front(stack))
<1>1. PICK T : stack \in Seq(T) /\ GoodFrames(T)
    BY DEF GoodStack
<1>2. Len(stack) \in Nat \ {0} /\ \A i \in 1 .. Len(stack) : stack[i] \in T
    BY <1>1, NonEmpty, ElementOfSeq
<1>3. \A i \in 1 .. Len(stack) - 1 : stack[i] \in T
    BY <1>2
<1>4. Front(stack) \in Seq(T)
    BY <1>2, <1>3, SubSeqProperties DEF Front
<1> QED
    BY <1>1, <1>4 DEF GoodStack

LEMMA NoFrames == GoodStack(<<>>)
<1>1. <<>> \in Seq({}) /\ GoodFrames({})
    BY EmptySeq DEF GoodFrames
<1> QED
    BY <1>1 DEF GoodStack

-----------------------------------------------------------------------------
(* Every step                                                               *)

\* What lies outside of targetdir stays.
OutsideStays ==
    \A p \in Paths : ~IsPrefix(Target, p) => p \in Paths' /\ tree'[p] = tree[p]

LEMMA WithoutStays ==
    ASSUME NEW q, InTarget(q), tree' = Without(q)
    PROVE  OutsideStays
<1>1. IsPrefix(Target, q)
    BY TargetIsPrefix
<1>2. tree' = [x \in Paths \ {q} |-> tree[x]]
    BY DEF Without, Restrict
<1>3. Paths' = Paths \ {q}
    BY <1>2 DEF Paths
<1> QED
    BY <1>1, <1>2, <1>3 DEF OutsideStays

LEMMA UnchangedStays == UNCHANGED tree => OutsideStays
BY DEF OutsideStays, Paths

LEMMA DeletionStaysInside ==
    ASSUME LInv, NEW held, NEW others, DeleteStep(held, others)
    PROVE  GoodStack(stack') /\ OutsideStays
<1>1. stack # <<>>
    BY DEF DeleteStep, DeleteSubdirectory, DeleteFile, CannotDelete, RemoveDirectory, CannotRemove
<1>2. GoodFrame(Top) /\ GoodStack(stack)
    BY <1>1, TopIsGood DEF LInv, Top
<1>3. \A name \in Top.todo : InTarget(Entry(Top.dir, name)) /\ GoodStack(TopWithout(name))
    BY <1>1, <1>2, EntryInTarget, TopWithoutIsGood DEF GoodFrame
<1>4. CASE DeleteSubdirectory
  <2>1. PICK name \in Top.todo : Enter(Entry(Top.dir, name), TopWithout(name))
    BY <1>4 DEF DeleteSubdirectory
  <2>2. GoodStack(stack')
    BY <1>3, <2>1, EnterIsGood
  <2> QED
    BY <1>4, <2>2, UnchangedStays DEF DeleteSubdirectory
<1>5. CASE DeleteFile
  <2>1. PICK name \in Top.todo : stack' = TopWithout(name) /\ tree' = Without(Entry(Top.dir, name))
    BY <1>5 DEF DeleteFile
  <2> QED
    BY <1>3, <2>1, WithoutStays
<1>6. CASE CannotDelete
  <2>1. GoodStack(stack')
    BY <1>6, NoFrames DEF CannotDelete
  <2>2. CASE UNCHANGED tree
    BY <2>1, <2>2, UnchangedStays
  <2>3. CASE \E name \in Top.todo : tree' = Without(Entry(Top.dir, name))
    BY <1>3, <2>1, <2>3, WithoutStays
  <2> QED
    BY <1>6, <2>2, <2>3 DEF CannotDelete
<1>7. CASE RemoveDirectory(held)
  <2>1. GoodStack(stack')
    BY <1>1, <1>2, <1>7, FrontIsGood DEF RemoveDirectory
  <2>2. OutsideStays
    BY <1>2, <1>7, WithoutStays DEF RemoveDirectory, GoodFrame
  <2> QED
    BY <2>1, <2>2
<1>8. CASE CannotRemove(held, others)
  <2>1. GoodStack(stack')
    BY <1>8, NoFrames DEF CannotRemove
  <2> QED
    BY <1>8, <2>1, UnchangedStays DEF CannotRemove
<1> QED
    BY <1>4, <1>5, <1>6, <1>7, <1>8 DEF DeleteStep

LEMMA StackHolds == Init => LInv
BY NoFrames DEF Init, InitDelete, LInv

LEMMA StackStays == LInv /\ [Next]_lvars => LInv'
<1> SUFFICES ASSUME LInv, [Next]_lvars PROVE LInv'
    OBVIOUS
<1>1. CASE LauncherDelete
    BY <1>1, DeletionStaysInside DEF LauncherDelete, LInv, processes
<1>2. CASE LauncherWaited
  <2>1. InTarget(Target)
    <3>1. Target \in Seq({"target"}) /\ Target # <<>> /\ Target[1] = "target"
      BY DEF Target
    <3> QED
      BY <3>1 DEF InTarget
  <2>2. GoodStack(stack')
    BY <1>2, <2>1, NoFrames, EnterIsGood DEF LauncherWaited
  <2> QED
    BY <1>2, <2>2 DEF LauncherWaited, LInv
<1>3. CASE UNCHANGED stack /\ UNCHANGED ppc /\ (hpc' = hpc \/ hpc' \in {"sleep", "over"})
    BY <1>3 DEF LInv
<1>4. CASE UNCHANGED stack /\ UNCHANGED hpc /\ ppc # "none"
    BY <1>4 DEF LInv
<1>5. CASE HeaderStart \/ HeaderUnpack \/ HeaderUnpacked \/ HeaderCannotUnpack \/ HeaderCopy
  <2>1. UNCHANGED <<stack, ppc>> /\ (ppc = "none" \/ hpc' = hpc)
    BY <1>5 DEF HeaderStart, HeaderUnpack, HeaderUnpacked, HeaderCannotUnpack, HeaderCopy, LInv,
                deleteVars, processes
  <2> QED
    BY <2>1 DEF LInv
<1>6. CASE HeaderCreate
    BY <1>6 DEF HeaderCreate, LInv, deleteVars
<1>7. CASE HeaderEnd
    BY <1>3, <1>7 DEF HeaderEnd, deleteVars
<1>8. CASE LauncherCreate \/ LauncherEnd
    BY <1>4, <1>8 DEF LauncherCreate, LauncherEnd, deleteVars
<1>9. CASE PyrunLoad \/ PythonStartsProgram \/ PythonEnds \/ ProgramEnds
    BY <1>3, <1>9 DEF PyrunLoad, PythonStartsProgram, PythonEnds, ProgramEnds, deleteVars
<1>10. CASE CloseBox
    BY <1>10 DEF CloseBox, LInv, deleteVars
<1>11. CASE UNCHANGED lvars
    BY <1>3, <1>11 DEF lvars, deleteVars, processes
<1> QED
    BY <1>1, <1>2, <1>5, <1>6, <1>7, <1>8, <1>9, <1>10, <1>11 DEF Next, Header_, Launcher_

-----------------------------------------------------------------------------

\* The frames of the recursion of deletedir.c are paths of targetdir.
THEOREM RecursionStaysInside == Spec => []LInv
BY StackHolds, StackStays, PTL DEF Spec

\* pylauncher removes nothing outside of targetdir, whatever is in it and
\* whichever calls fail (OnlyTargetIsDeleted).
THEOREM NothingElseIsDeleted == Spec => OnlyTargetIsDeleted
<1>1. LInv /\ [Next]_lvars => [ppc = "delete" => OutsideStays]_lvars
  <2> SUFFICES ASSUME LInv, Next, ppc = "delete"
               PROVE  OutsideStays
    OBVIOUS
  <2>1. CASE LauncherDelete
    BY <2>1, DeletionStaysInside DEF LauncherDelete
  <2>2. CASE ~LauncherDelete
    <3>1. UNCHANGED tree
      BY <2>2 DEF LInv, Next, Header_, Launcher_, HeaderStart, HeaderUnpack, HeaderUnpacked,
          HeaderCannotUnpack, HeaderCopy, HeaderCreate, HeaderEnd, LauncherCreate, LauncherWaited,
          LauncherEnd, PyrunLoad, PythonStartsProgram, PythonEnds, ProgramEnds, CloseBox
    <3> QED
      BY <3>1, UnchangedStays
  <2> QED
    BY <2>1, <2>2
<1>2. LInv /\ [Next]_lvars =>
        [ppc = "delete" =>
            \A p \in Paths : ~IsPrefix(Target, p) => p \in Paths' /\ tree'[p] = tree[p]]_lvars
    BY <1>1 DEF OutsideStays
<1> QED
    BY <1>2, RecursionStaysInside, PTL DEF Spec, OnlyTargetIsDeleted

-----------------------------------------------------------------------------
(* Numbers, and functions that are defined by recursion on them             *)

LEMMA Least ==
    ASSUME NEW S \in SUBSET Nat, S # {}
    PROVE  \E x \in S : \A y \in S : x <= y
<1>1. PICK x \in S : \A y \in S : ~(<<y, x>> \in OpToRel(<, Nat))
    BY NatLessThanWellFounded, WFMin
<1>2. \A y \in S : ~(y < x)
    BY <1>1 DEF OpToRel
<1>3. \A y \in S : x <= y
    BY <1>2
<1> QED BY <1>3

LEMMA Counting ==
    ASSUME NEW lo \in Nat, NEW P, lo \in P, \A n \in Nat : lo <= n /\ n \in P => n + 1 \in P
    PROVE  \A n \in Nat : lo <= n => n \in P
<1> DEFINE S == {n \in Nat : lo <= n /\ n \notin P}
<1>1. CASE S = {}
    BY <1>1
<1>2. CASE S # {}
  <2>1. PICK x \in S : \A y \in S : x <= y
    BY <1>2, Least
  <2>2. x \in Nat /\ lo < x
    OBVIOUS
  <2>3. x - 1 \in Nat /\ lo <= x - 1 /\ x - 1 \notin S
    BY <2>1, <2>2
  <2>4. x - 1 \in P /\ (x - 1) + 1 = x
    BY <2>3
  <2> QED
    BY <2>3, <2>4
<1> QED
    BY <1>1, <1>2

\* op takes what has been computed and a number.
StaysIn(op, V, lo, hi) == \A i \in lo + 1 .. hi : \A v \in V : op[<<v, i>>] \in V
\* f starts with b and goes on with op.
Recurs(f, op, b, V, lo, hi) ==
    /\ f \in [lo .. hi -> V] /\ f[lo] = b
    /\ \A i \in lo + 1 .. hi : f[i] = op[<<f[i - 1], i>>]

LEMMA Recursion ==
    ASSUME NEW lo \in Nat, NEW hi \in Nat, lo <= hi, NEW V, NEW b \in V, NEW op, StaysIn(op, V, lo, hi)
    PROVE  \E f : Recurs(f, op, b, V, lo, hi)
<1> DEFINE P == {m \in Nat : m <= hi => \E f : Recurs(f, op, b, V, lo, m)}
<1>1. lo \in P
  <2>1. [i \in lo .. lo |-> b] \in [lo .. lo -> V] /\ [i \in lo .. lo |-> b][lo] = b
    OBVIOUS
  <2>2. Recurs([i \in lo .. lo |-> b], op, b, V, lo, lo)
    BY <2>1 DEF Recurs
  <2> QED
    BY <2>2
<1>2. ASSUME NEW n \in Nat, lo <= n, n \in P
      PROVE  n + 1 \in P
  <2> SUFFICES ASSUME n + 1 <= hi
               PROVE  \E f : Recurs(f, op, b, V, lo, n + 1)
    OBVIOUS
  <2>1. PICK f : Recurs(f, op, b, V, lo, n)
    BY <1>2
  <2> DEFINE g == [i \in lo .. n + 1 |-> IF i = n + 1 THEN op[<<f[n], n + 1>>] ELSE f[i]]
  <2>2. f[n] \in V
    BY <1>2, <2>1 DEF Recurs
  <2>3. n + 1 \in lo + 1 .. hi
    BY <1>2
  <2>4. op[<<f[n], n + 1>>] \in V
    BY <2>2, <2>3 DEF StaysIn
  <2>5. g \in [lo .. n + 1 -> V]
    BY <2>1, <2>4 DEF Recurs
  <2>6. g[lo] = b
    BY <1>2, <2>1 DEF Recurs
  <2>7. ASSUME NEW i \in lo + 1 .. n + 1
        PROVE  g[i] = op[<<g[i - 1], i>>]
    <3>1. i - 1 \in lo .. n /\ i - 1 \in lo .. n + 1 /\ i \in lo .. n + 1 /\ i - 1 # n + 1
      BY <1>2
    <3>2. g[i - 1] = f[i - 1]
      BY <3>1
    <3>3. CASE i = n + 1
      BY <3>1, <3>2, <3>3
    <3>4. CASE i # n + 1
      <4>1. i \in lo + 1 .. n
        BY <3>1, <3>4
      <4> QED
        BY <2>1, <3>1, <3>2, <4>1 DEF Recurs
    <3> QED
      BY <3>3, <3>4
  <2> HIDE DEF g
  <2> QED
    BY <2>5, <2>6, <2>7 DEF Recurs
<1> HIDE DEF P
<1>3. hi \in P
    BY <1>1, <1>2, Counting
<1> QED
    BY <1>3 DEF P

\* Two functions that take the same steps are the same.
Agree(f, g, lo, hi) == f[lo] = g[lo] /\ \A i \in lo + 1 .. hi : f[i - 1] = g[i - 1] => f[i] = g[i]

LEMMA SameSteps ==
    ASSUME NEW lo \in Nat, NEW hi \in Nat, NEW f, NEW g, Agree(f, g, lo, hi)
    PROVE  \A i \in lo .. hi : f[i] = g[i]
<1> DEFINE P == {i \in Nat : i <= hi => f[i] = g[i]}
<1>1. lo \in P
    BY DEF Agree
<1>2. ASSUME NEW n \in Nat, lo <= n, n \in P
      PROVE  n + 1 \in P
  <2> SUFFICES ASSUME n + 1 <= hi
               PROVE  f[n + 1] = g[n + 1]
    OBVIOUS
  <2>1. n + 1 \in lo + 1 .. hi /\ (n + 1) - 1 = n /\ f[n] = g[n]
    BY <1>2
  <2> QED
    BY <2>1 DEF Agree
<1>3. \A n \in Nat : lo <= n => n \in P
  <2> HIDE DEF P
  <2> QED
    BY <1>1, <1>2, Counting
<1> QED
    BY <1>3

\* The sequences of a sequence, one behind the other.
LEMMA Flat ==
    ASSUME NEW V, NEW bs \in Seq(Seq(V))
    PROVE  \E fl : /\ fl \in [1 .. Len(bs) -> Seq(V)]
                   /\ \A b \in 1 .. Len(bs) : fl[b] = IF b = 1 THEN bs[1] ELSE fl[b - 1] \o bs[b]
                   /\ FlattenSeq(bs) = IF bs = <<>> THEN <<>> ELSE fl[Len(bs)]
<1>1. Len(bs) \in Nat /\ \A b \in 1 .. Len(bs) : bs[b] \in Seq(V)
    BY LenProperties, ElementOfSeq
<1>2. CASE bs = <<>>
  <2>1. Len(bs) = 0
    BY <1>2
  <2>2. FlattenSeq(bs) = <<>>
    BY <1>2, <2>1 DEF FlattenSeq
  <2>3. [b \in 1 .. Len(bs) |-> <<>>] \in [1 .. Len(bs) -> Seq(V)]
    BY EmptySeq
  <2> DEFINE fl == [b \in 1 .. Len(bs) |-> <<>>]
  <2>4. \A b \in 1 .. Len(bs) : FALSE
    BY <2>1
  <2> HIDE DEF fl
  <2> QED
    BY <1>2, <2>2, <2>3, <2>4 DEF fl
<1>3. CASE bs # <<>>
  <2> DEFINE n == Len(bs)
             op == [x \in Seq(V) \X (1 .. n) |-> x[1] \o bs[x[2]]]
             flatten[i \in 1 .. Len(bs)] == IF i = 1 THEN bs[i] ELSE flatten[i - 1] \o bs[i]
  <2>1. n \in Nat /\ 1 <= n /\ bs[1] \in Seq(V)
    BY <1>1, <1>3, EmptySeq
  <2>2. ASSUME NEW i \in 1 + 1 .. n, NEW v \in Seq(V)
        PROVE  op[<<v, i>>] = v \o bs[i] /\ op[<<v, i>>] \in Seq(V)
    <3>1. i \in 1 .. n
      BY <2>1
    <3>2. v \o bs[i] \in Seq(V)
      BY <1>1, <3>1, ConcatProperties
    <3>3. op[<<v, i>>] = v \o bs[i]
      BY <3>1
    <3> QED
      BY <3>2, <3>3
  <2>3. FlattenSeq(bs) = flatten[n]
    BY <2>1 DEF FlattenSeq
  <2> HIDE DEF n, op
  <2>4. PICK f : Recurs(f, op, bs[1], Seq(V), 1, n)
    <3>1. 1 \in Nat /\ n \in Nat /\ 1 <= n /\ bs[1] \in Seq(V)
      BY <2>1
    <3>2. StaysIn(op, Seq(V), 1, n)
      BY <2>2 DEF StaysIn
    <3> QED
      BY <3>1, <3>2, Recursion
  <2>5. ASSUME NEW i \in 1 .. n
        PROVE  f[i] = IF i = 1 THEN bs[i] ELSE f[i - 1] \o bs[i]
    <3>1. CASE i = 1
      BY <2>4, <3>1 DEF Recurs
    <3>2. CASE i # 1
      <4>1. i \in 1 + 1 .. n /\ i - 1 \in 1 .. n /\ f[i - 1] \in Seq(V)
        BY <2>1, <2>4, <3>2 DEF Recurs
      <4>2. f[i] = f[i - 1] \o bs[i]
        BY <2>2, <2>4, <4>1 DEF Recurs
      <4> QED
        BY <3>2, <4>2
    <3> QED
      BY <3>1, <3>2
  <2>7. f = [i \in 1 .. n |-> IF i = 1 THEN bs[i] ELSE f[i - 1] \o bs[i]]
    BY <2>4, <2>5 DEF Recurs
  <2>8. flatten = [i \in 1 .. n |-> IF i = 1 THEN bs[i] ELSE flatten[i - 1] \o bs[i]]
    BY <2>7 DEF n
  <2> HIDE DEF flatten
  <2>9. \A i \in 1 .. n : flatten[i] = IF i = 1 THEN bs[1] ELSE flatten[i - 1] \o bs[i]
    BY <2>8
  <2>10. \A i \in 1 .. n : f[i] = IF i = 1 THEN bs[1] ELSE f[i - 1] \o bs[i]
    BY <2>5
  <2>11. \A i \in 1 .. n : flatten[i] = f[i]
    <3>1. flatten[1] = f[1]
      <4>1. 1 \in 1 .. n
        BY <2>1
      <4> QED
        BY <2>9, <2>10, <4>1, Zenon
    <3>2. ASSUME NEW i \in 1 + 1 .. n, flatten[i - 1] = f[i - 1]
          PROVE  flatten[i] = f[i]
      <4>1. i \in 1 .. n /\ i # 1
        BY <2>1
      <4> QED
        BY <2>9, <2>10, <3>2, <4>1, Zenon
    <3>3. Agree(flatten, f, 1, n)
      BY <3>1, <3>2 DEF Agree
    <3> QED
      BY <2>1, <3>3, SameSteps
  <2>12. FlattenSeq(bs) = f[n]
    BY <2>1, <2>3, <2>11
  <2> QED
    BY <1>3, <2>4, <2>10, <2>12 DEF n, Recurs
<1> QED
    BY <1>2, <1>3

\* off counts the elements of the first sequences.
Offsets(off, bs) ==
    /\ off \in [0 .. Len(bs) -> Nat] /\ off[0] = 0
    /\ \A b \in 1 .. Len(bs) : off[b] = off[b - 1] + Len(bs[b])

LEMMA Joined ==
    ASSUME NEW V, NEW s \in Seq(V), NEW t \in Seq(V)
    PROVE  /\ s \o t \in Seq(V) /\ Len(s) \in Nat /\ Len(t) \in Nat
           /\ Len(s \o t) = Len(s) + Len(t)
           /\ \A i \in 1 .. Len(s) : (s \o t)[i] = s[i]
           /\ \A k \in 1 .. Len(t) : (s \o t)[Len(s) + k] = t[k]
<1>1. /\ s \o t \in Seq(V) /\ Len(s \o t) = Len(s) + Len(t)
      /\ \A i \in 1 .. (Len(s) + Len(t)) :
             (s \o t)[i] = IF i <= Len(s) THEN s[i] ELSE t[i - Len(s)]
    BY ConcatProperties
<1>2. Len(s) \in Nat /\ Len(t) \in Nat
    BY LenProperties
<1>3. ASSUME NEW i \in 1 .. Len(s)
      PROVE  (s \o t)[i] = s[i]
  <2>1. i \in 1 .. (Len(s) + Len(t)) /\ i <= Len(s)
    BY <1>2
  <2> QED
    BY <1>1, <2>1
<1>4. ASSUME NEW k \in 1 .. Len(t)
      PROVE  (s \o t)[Len(s) + k] = t[k]
  <2>1. Len(s) + k \in 1 .. (Len(s) + Len(t)) /\ ~(Len(s) + k <= Len(s)) /\ (Len(s) + k) - Len(s) = k
    BY <1>2
  <2> QED
    BY <1>1, <2>1
<1> QED
    BY <1>1, <1>2, <1>3, <1>4

LEMMA FlatPlaces ==
    ASSUME NEW V, NEW bs \in Seq(Seq(V))
    PROVE  /\ FlattenSeq(bs) \in Seq(V)
           /\ \E off :
                 /\ Offsets(off, bs) /\ Len(FlattenSeq(bs)) = off[Len(bs)]
                 /\ \A b \in 1 .. Len(bs) : \A k \in 1 .. Len(bs[b]) :
                        off[b - 1] + k \in 1 .. off[Len(bs)] /\ FlattenSeq(bs)[off[b - 1] + k] = bs[b][k]
<1> DEFINE n == Len(bs)
<1>0. n \in Nat
    BY LenProperties
<1>1. n \in Nat /\ \A b \in 1 .. n : bs[b] \in Seq(V) /\ Len(bs[b]) \in Nat
  <2>1. n \in Nat /\ \A b \in 1 .. n : bs[b] \in Seq(V)
    BY LenProperties, ElementOfSeq
  <2> QED
    BY <2>1, LenProperties
<1>2. PICK fl : /\ fl \in [1 .. n -> Seq(V)]
                /\ \A b \in 1 .. n : fl[b] = IF b = 1 THEN bs[1] ELSE fl[b - 1] \o bs[b]
                /\ FlattenSeq(bs) = IF bs = <<>> THEN <<>> ELSE fl[n]
    BY Flat
<1> DEFINE off == [b \in 0 .. n |-> IF b = 0 THEN 0 ELSE Len(fl[b])]
<1>3. /\ off \in [0 .. n -> Nat] /\ off[0] = 0
      /\ \A b \in 1 .. n : off[b] = Len(fl[b]) /\ Len(fl[b]) \in Nat
  <2>1. \A b \in 1 .. n : Len(fl[b]) \in Nat
    BY <1>2, LenProperties
  <2>2. \A b \in 0 .. n : b # 0 => b \in 1 .. n
    BY <1>1
  <2>3. off \in [0 .. n -> Nat]
    BY <2>1, <2>2
  <2>4. 0 \in 0 .. n /\ \A b \in 1 .. n : b \in 0 .. n /\ b # 0
    BY <1>1
  <2> QED
    BY <2>1, <2>3, <2>4
<1> HIDE DEF n, off
\* The last of the first b sequences
<1>4. ASSUME NEW b \in 1 .. n
      PROVE  /\ off[b] = off[b - 1] + Len(bs[b])
             /\ \A k \in 1 .. Len(bs[b]) : fl[b][off[b - 1] + k] = bs[b][k]
             /\ \A i \in 1 .. off[b - 1] : fl[b][i] = fl[b - 1][i]
  <2>1. CASE b = 1
    <3>1. fl[b] = bs[b]
      BY <1>2, <2>1
    <3>2. off[b - 1] = 0
      BY <1>3, <2>1
    <3>3. off[b] = Len(bs[b]) /\ Len(bs[b]) \in Nat
      BY <1>1, <1>3, <3>1
    <3> QED
      BY <3>1, <3>2, <3>3
  <2>2. CASE b # 1
    <3>1. b - 1 \in 1 .. n
      BY <1>0, <2>2
    <3>2. fl[b] = fl[b - 1] \o bs[b]
      BY <1>2, <2>2, Zenon
    <3>3. fl[b - 1] \in Seq(V) /\ bs[b] \in Seq(V)
      BY <1>1, <1>2, <3>1
    <3>4. off[b - 1] = Len(fl[b - 1]) /\ off[b] = Len(fl[b])
      BY <1>3, <3>1
    <3> DEFINE s == fl[b - 1]
               t == bs[b]
    <3>5. fl[b] = s \o t /\ off[b - 1] = Len(s) /\ off[b] = Len(s \o t) /\ s \in Seq(V) /\ t \in Seq(V)
      BY <3>2, <3>3, <3>4
    <3> HIDE DEF s, t
    <3>6. /\ Len(s \o t) = Len(s) + Len(t)
          /\ \A i \in 1 .. Len(s) : (s \o t)[i] = s[i]
          /\ \A k \in 1 .. Len(t) : (s \o t)[Len(s) + k] = t[k]
      BY <3>5, Joined
    <3>7. /\ off[b] = off[b - 1] + Len(t)
          /\ \A k \in 1 .. Len(t) : fl[b][off[b - 1] + k] = t[k]
          /\ \A i \in 1 .. off[b - 1] : fl[b][i] = s[i]
      BY <3>5, <3>6
    <3> QED
      BY <3>7 DEF s, t
  <2> QED
    BY <2>1, <2>2
<1>5. Offsets(off, bs)
    BY <1>3, <1>4 DEF Offsets, n
<1> DEFINE Holds(m) == \A b \in 1 .. m : \A k \in 1 .. Len(bs[b]) :
                           off[b - 1] + k \in 1 .. off[m] /\ fl[m][off[b - 1] + k] = bs[b][k]
           P == {m \in Nat : m <= n => Holds(m)}
<1>6. \A m \in Nat : 0 <= m => m \in P
  <2>1. 0 \in P
    BY <1>1
  <2>2. ASSUME NEW m \in Nat, 0 <= m, m \in P
        PROVE  m + 1 \in P
    <3> SUFFICES ASSUME m + 1 <= n, NEW b \in 1 .. m + 1, NEW k \in 1 .. Len(bs[b])
                 PROVE  off[b - 1] + k \in 1 .. off[m + 1] /\ fl[m + 1][off[b - 1] + k] = bs[b][k]
      OBVIOUS
    <3>1. m + 1 \in 1 .. n /\ (m + 1) - 1 = m /\ b - 1 \in 0 .. n /\ b \in 1 .. n /\ m \in 0 .. n /\ m + 1 \in 0 .. n
      BY <1>1
    <3>2. off[b - 1] \in Nat /\ off[m] \in Nat /\ off[m + 1] \in Nat /\ Len(bs[m + 1]) \in Nat
      BY <1>1, <1>3, <3>1
    <3>3. off[m + 1] = off[m] + Len(bs[m + 1])
      BY <1>4, <3>1
    <3>4. CASE b = m + 1
      <4>1. fl[m + 1][off[b - 1] + k] = bs[b][k]
        BY <1>4, <3>1, <3>4
      <4>2. off[b - 1] + k \in 1 .. off[m + 1]
        BY <3>1, <3>2, <3>3, <3>4
      <4> QED
        BY <4>1, <4>2
    <3>5. CASE b # m + 1
      <4>1. b \in 1 .. m
        BY <3>5
      <4>2. off[b - 1] + k \in 1 .. off[m] /\ fl[m][off[b - 1] + k] = bs[b][k]
        BY <2>2, <3>1, <4>1
      <4>3. fl[m + 1][off[b - 1] + k] = fl[m][off[b - 1] + k]
        BY <1>4, <3>1, <4>2
      <4>4. off[m] <= off[m + 1]
        BY <3>2, <3>3
      <4>5. \A x \in 1 .. off[m] : x \in 1 .. off[m + 1]
        BY <3>2, <4>4
      <4> QED
        BY <4>2, <4>3, <4>5
    <3> QED
      BY <3>4, <3>5
  <2> HIDE DEF P
  <2> QED
    BY <2>1, <2>2, Counting
<1>7. Holds(n)
  <2>1. n \in P
    BY <1>0, <1>6
  <2>2. n \in P => (n <= n => Holds(n))
    <3> HIDE DEF Holds
    <3> QED
      BY Zenon
  <2>3. n <= n
    BY <1>0
  <2> HIDE DEF P, Holds
  <2> QED
    BY <2>1, <2>2, <2>3
<1>8. CASE n = 0
  <2>1. bs = <<>> /\ FlattenSeq(bs) = <<>>
    BY <1>2, <1>8, EmptySeq DEF n
  <2>2. FlattenSeq(bs) \in Seq(V) /\ Len(FlattenSeq(bs)) = off[n]
    BY <1>3, <1>8, <2>1
  <2>3. \A b \in 1 .. n : FALSE
    BY <1>8
  <2> QED
    BY <1>5, <2>2, <2>3 DEF n
<1>9. CASE n # 0
  <2>1. bs # <<>> /\ n \in 1 .. n
    BY <1>1, <1>9 DEF n
  <2>2. FlattenSeq(bs) = fl[n]
    BY <1>2, <2>1
  <2>3. FlattenSeq(bs) \in Seq(V) /\ Len(FlattenSeq(bs)) = off[n]
    BY <1>2, <1>3, <2>1, <2>2
  <2>4. \A b \in 1 .. n : \A k \in 1 .. Len(bs[b]) :
           off[b - 1] + k \in 1 .. off[n] /\ FlattenSeq(bs)[off[b - 1] + k] = bs[b][k]
    BY <1>7, <2>2
  <2> HIDE DEF Holds
  <2> QED
    BY <1>5, <2>3, <2>4 DEF n
<1> QED
    BY <1>8, <1>9

\* Every element is in one of the sequences.
LEMMA OffsetOf ==
    ASSUME NEW V, NEW bs \in Seq(Seq(V)), NEW off, Offsets(off, bs), NEW i \in 1 .. off[Len(bs)]
    PROVE  \E b \in 1 .. Len(bs) : \E k \in 1 .. Len(bs[b]) : i = off[b - 1] + k
<1> DEFINE n == Len(bs)
           S == {b \in 1 .. n : i <= off[b]}
<1>1. n \in Nat
    BY LenProperties
<1>2. n # 0
    BY DEF Offsets
<1>3. n \in S
    BY <1>1, <1>2 DEF Offsets
<1>4. PICK b \in S : \A c \in S : b <= c
  <2>1. S \in SUBSET Nat /\ S # {}
    BY <1>1, <1>3
  <2> HIDE DEF S
  <2> QED
    BY <2>1, Least
<1>5. off[b - 1] < i /\ off[b - 1] \in Nat /\ b - 1 \in 0 .. n
  <2>0. b \in 1 .. n
    OBVIOUS
  <2>1. b - 1 \in 0 .. n /\ off[b - 1] \in Nat
    <3>1. b - 1 \in 0 .. n
      BY <1>1, <2>0
    <3> QED
      BY <3>1 DEF Offsets
  <2>2. b - 1 \notin S
    BY <1>1, <1>4
  <2>3. CASE b = 1
    BY <2>1, <2>3 DEF Offsets
  <2>4. CASE b # 1
    <3>1. b - 1 \in 1 .. n
      BY <1>1, <2>4
    <3>2. ~(i <= off[b - 1])
      BY <2>2, <3>1
    <3> QED
      BY <2>1, <3>2 DEF Offsets
  <2> QED
    BY <2>3, <2>4
<1>6. off[b] = off[b - 1] + Len(bs[b]) /\ i <= off[b]
    BY DEF Offsets
<1>7. Len(bs[b]) \in Nat
  <2>1. bs[b] \in Seq(V)
    BY ElementOfSeq
  <2> QED
    BY <2>1, LenProperties
<1>8. i - off[b - 1] \in 1 .. Len(bs[b]) /\ i = off[b - 1] + (i - off[b - 1])
    BY <1>5, <1>6, <1>7
<1> QED
    BY <1>8

-----------------------------------------------------------------------------
(* The files Python runs on                                                 *)

\* The archive is laid out as the compressor does it.
LaidOut == \E a \in Archives : \E e \in Sorted(a.empty) :
               archive = [blocks |-> a.blocks, empty |-> e]

\* Two items of it have different names.
LEMMA NamesDiffer ==
    ASSUME LaidOut
    PROVE  /\ Items(archive) \in Seq(Item)
           /\ \A i, j \in 1 .. NumFiles(archive) :
                  Items(archive)[i].name = Items(archive)[j].name => i = j
<1>1. PICK a \in Archives : \E e \in Sorted(a.empty) :
             archive = [blocks |-> a.blocks, empty |-> e]
    BY DEF LaidOut
<1>2. PICK e \in Sorted(a.empty) : archive = [blocks |-> a.blocks, empty |-> e]
    BY <1>1
<1> DEFINE flat == FlattenSeq(a.blocks)
           n == Cardinality(a.empty)
<1>3. /\ flat \in Seq(Item) /\ a.empty \subseteq Item /\ n \in Nat
      /\ a.blocks \in Seq(Seq(Item))
      /\ \A i, j \in DOMAIN flat : flat[i].name = flat[j].name => i = j
      /\ \A d \in a.empty : \A i \in DOMAIN flat : flat[i].name # d.name
      /\ \A c, d \in a.empty : c.name = d.name => c = d
    BY ArchivesAssumption, FlatPlaces, FS_CardinalityType
<1> HIDE DEF flat, n
<1>4. /\ e \in [1 .. n -> a.empty]
      /\ \A i, j \in 1 .. n : i # j => e[i] # e[j]
    BY DEF Sorted, SetToSeqs, n
<1>5. e \in Seq(Item) /\ Len(e) = n
    BY <1>3, <1>4
<1>6. Items(archive) = flat \o e
    BY <1>2 DEF Items, flat
<1>7. /\ Items(archive) \in Seq(Item) /\ NumFiles(archive) = Len(flat) + n /\ Len(flat) \in Nat
      /\ \A i \in 1 .. (Len(flat) + n) :
             Items(archive)[i] = IF i <= Len(flat) THEN flat[i] ELSE e[i - Len(flat)]
  <2>1. /\ flat \o e \in Seq(Item) /\ Len(flat \o e) = Len(flat) + Len(e)
        /\ \A i \in 1 .. (Len(flat) + Len(e)) :
               (flat \o e)[i] = IF i <= Len(flat) THEN flat[i] ELSE e[i - Len(flat)]
    BY <1>3, <1>5, ConcatProperties
  <2>2. Len(flat) \in Nat
    BY <1>3, LenProperties
  <2> QED
    BY <1>5, <1>6, <2>1, <2>2 DEF NumFiles
<1>8. ASSUME NEW i \in 1 .. NumFiles(archive), NEW j \in 1 .. NumFiles(archive),
             Items(archive)[i].name = Items(archive)[j].name
      PROVE  i = j
  <2>1. DOMAIN flat = 1 .. Len(flat)
    BY <1>3, LenProperties
  <2>2. CASE i <= Len(flat) /\ j <= Len(flat)
    <3>1. i \in DOMAIN flat /\ j \in DOMAIN flat /\ Items(archive)[i] = flat[i] /\ Items(archive)[j] = flat[j]
      BY <1>7, <2>1, <2>2
    <3> QED
      BY <1>3, <1>8, <3>1
  <2>3. CASE i > Len(flat) /\ j > Len(flat)
    <3>1. /\ i - Len(flat) \in 1 .. n /\ j - Len(flat) \in 1 .. n
          /\ Items(archive)[i] = e[i - Len(flat)] /\ Items(archive)[j] = e[j - Len(flat)]
      BY <1>3, <1>7, <2>3
    <3>2. e[i - Len(flat)] = e[j - Len(flat)]
      BY <1>3, <1>4, <1>8, <3>1
    <3>3. i - Len(flat) = j - Len(flat)
      BY <1>4, <3>1, <3>2
    <3> QED
      BY <1>7, <3>3
  <2>4. CASE i <= Len(flat) /\ j > Len(flat)
    <3>1. /\ i \in DOMAIN flat /\ j - Len(flat) \in 1 .. n
          /\ Items(archive)[i] = flat[i] /\ Items(archive)[j] = e[j - Len(flat)]
      BY <1>3, <1>7, <2>1, <2>4
    <3> QED
      BY <1>3, <1>4, <1>8, <3>1
  <2>5. CASE i > Len(flat) /\ j <= Len(flat)
    <3>1. /\ j \in DOMAIN flat /\ i - Len(flat) \in 1 .. n
          /\ Items(archive)[j] = flat[j] /\ Items(archive)[i] = e[i - Len(flat)]
      BY <1>3, <1>7, <2>1, <2>5
    <3> QED
      BY <1>3, <1>4, <1>8, <3>1
  <2> QED
    BY <1>7, <2>2, <2>3, <2>4, <2>5
<1> QED
    BY <1>7, <1>8

\* The decoder took the header for what was compressed.
Understood ==
    /\ Len(db.files) = NumFiles(archive)
    /\ \A i \in 1 .. NumFiles(archive) :
           /\ db.files[i].dir <=> Items(archive)[i].dir
           /\ i \in FileItems => Taken(db, i) = Content(archive, i)

\* What unpack has done so far.
Written ==
    /\ upc \in {"open", "directories", "files", "done", "failed"}
    /\ upc = "directories" => index \in 0 .. NumFiles(archive)
    /\ upc \in {"files", "done"} => Understood
    /\ upc = "files" => index \in Nat \ {0} /\ \A i \in FileItems : i < index => IsThere(i)

\* Who may run at which point of it, and where the files are.
Phases ==
    /\ base \in {Target, Folder}
    /\ base = Folder => Target \o PythonDll \notin Paths
    /\ hpc = "start" => upc = "open" /\ ypc = "none"
    /\ hpc \in {"copy", "create"} => upc = "done"
    /\ ppc # "none" => upc = "done" /\ hpc \in {"sleep", "over"}
    /\ ypc \in {"load", "python"} => ppc = "wait"
    /\ ypc = "python" => base = Target
AllThere == upc = "done" /\ ppc \notin {"delete", "over"} => \A i \in FileItems : IsThere(i)

PInv == LaidOut /\ Written /\ Phases /\ AllThere

LEMMA UnderstoodNow ==
    ASSUME HeaderIsUnderstood, upc = "directories"
    PROVE  Understood
BY DEF HeaderIsUnderstood, Understood

\* The set of all strings, and some for which the provers need to be told.
Names == STRING \cup {"target", "folder", "other", "python23.dll"}

LEMMA NamesOfItems ==
    ASSUME LaidOut, NEW i \in 1 .. NumFiles(archive)
    PROVE  NumFiles(archive) \in Nat /\ Items(archive)[i].name \in Seq(Names)
<1>1. Items(archive) \in Seq(Item) /\ NumFiles(archive) = Len(Items(archive))
    BY NamesDiffer DEF NumFiles
<1>2. Items(archive)[i] \in Item
    BY <1>1, ElementOfSeq
<1>3. Items(archive)[i].name \in Seq(STRING)
    BY <1>2 DEF Item
<1> QED
    BY <1>1, <1>3, LenProperties, SeqMonotonic DEF Names

LEMMA OneName ==
    ASSUME NEW S, NEW x \in S
    PROVE  <<x>> \in Seq(S) /\ Len(<<x>>) = 1 /\ <<x>>[1] = x
OBVIOUS

LEMMA PathsDiffer ==
    ASSUME LaidOut, base \in {Target, Folder},
           NEW i \in 1 .. NumFiles(archive), NEW j \in 1 .. NumFiles(archive), PathOf(i) = PathOf(j)
    PROVE  i = j
<1>1. base \in Seq(Names)
  <2>1. "target" \in Names /\ "folder" \in Names
    BY DEF Names
  <2> QED
    BY <2>1, OneName DEF Target, Folder
<1>2. Items(archive)[i].name \in Seq(Names) /\ Items(archive)[j].name \in Seq(Names)
    BY NamesOfItems
<1>3. Items(archive)[i].name = Items(archive)[j].name
  <2>1. \A s, t, v \in Seq(Names) : s \o t = s \o v => t = v
    BY ConcatSimplifications
  <2> QED
    BY <1>1, <1>2, <2>1, Zenon DEF PathOf
<1> QED
    BY <1>3, NamesDiffer

\* What is unpacked beside header is not taken for targetdir.
LEMMA FolderIsNotTarget ==
    ASSUME LaidOut, base = Folder, NEW i \in 1 .. NumFiles(archive)
    PROVE  PathOf(i) # Target \o PythonDll
<1>1. /\ Folder \in Seq(Names) /\ Len(Folder) = 1 /\ Folder[1] = "folder"
      /\ Target \in Seq(Names) /\ Len(Target) = 1 /\ Target[1] = "target"
      /\ PythonDll \in Seq(Names) /\ Len(PythonDll) = 1
  <2>1. "target" \in Names /\ "folder" \in Names /\ "python23.dll" \in Names
    BY DEF Names
  <2> QED
    BY <2>1, OneName, Zenon DEF Folder, Target, PythonDll
<1>2. Items(archive)[i].name \in Seq(Names) /\ Len(Items(archive)[i].name) \in Nat
    BY NamesOfItems, LenProperties
<1>3. PathOf(i)[1] = "folder"
  <2> DEFINE name == Items(archive)[i].name
  <2>1. \A k \in 1 .. (Len(Folder) + Len(name)) :
           (Folder \o name)[k] = IF k <= Len(Folder) THEN Folder[k] ELSE name[k - Len(Folder)]
    BY <1>1, <1>2, ConcatProperties
  <2>2. 1 \in 1 .. (Len(Folder) + Len(name))
    BY <1>1, <1>2
  <2> QED
    BY <1>1, <2>1, <2>2 DEF PathOf
<1>4. (Target \o PythonDll)[1] = "target"
    BY <1>1, ConcatProperties
<1> QED
    BY <1>3, <1>4

\* While header unpacks, nothing else runs.
LEMMA SamePhase ==
    ASSUME PInv, hpc = "unpack", UNCHANGED <<archive, base, db, processes>>,
           \/ UNCHANGED tree
           \/ \E k \in 1 .. NumFiles(archive) : \E what : tree' = With(PathOf(k), what)
    PROVE  LaidOut' /\ Phases' /\ (Understood => Understood') /\ ppc' = "none"
           /\ FileItems' = FileItems /\ NumFiles(archive)' = NumFiles(archive)
<1>1. LaidOut' /\ (Understood => Understood')
      /\ FileItems' = FileItems /\ NumFiles(archive)' = NumFiles(archive)
    BY DEF PInv, LaidOut, Understood, FileItems
<1>2. LaidOut /\ Phases /\ ppc = "none" /\ ypc \notin {"load", "python"}
    BY DEF PInv, Phases
<1>3. base = Folder => Target \o PythonDll \notin Paths'
  <2>1. CASE UNCHANGED tree
    BY <1>2, <2>1 DEF Phases, Paths
  <2>2. CASE \E k \in 1 .. NumFiles(archive) : \E what : tree' = With(PathOf(k), what)
    <3>1. PICK k \in 1 .. NumFiles(archive) : \E what : tree' = With(PathOf(k), what)
      BY <2>2
    <3>2. Paths' = Paths \cup {PathOf(k)}
      BY <3>1 DEF With, Paths
    <3>3. base = Folder => PathOf(k) # Target \o PythonDll
      BY <1>2, FolderIsNotTarget
    <3> QED
      BY <1>2, <3>2, <3>3 DEF Phases
  <2> QED
    BY <2>1, <2>2
<1>4. Phases'
    BY <1>2, <1>3 DEF Phases, processes
<1> QED
    BY <1>1, <1>2, <1>4 DEF processes

LEMMA ExtractKeeps ==
    ASSUME PInv, hpc = "unpack", ExtractFile, UNCHANGED processes
    PROVE  PInv'
<1>1. /\ upc = "files" /\ index <= Len(db.files) /\ ~db.files[index].dir
      /\ Extracts /\ tree' = With(PathOf(index), File(InBuffer))
      /\ index' = index + 1
      /\ UNCHANGED <<archive, base, upc, db>>
    BY DEF ExtractFile, AtFile
<1>2. LaidOut /\ Understood /\ index \in Nat \ {0} /\ base \in {Target, Folder}
    BY <1>1 DEF PInv, Written, Phases
<1>3. index \in 1 .. NumFiles(archive) /\ NumFiles(archive) \in Nat
  <2>1. NumFiles(archive) \in Nat
    BY <1>2, NamesDiffer, LenProperties DEF NumFiles
  <2> QED
    BY <1>1, <1>2, <2>1 DEF Understood
<1>4. index \in FileItems
    BY <1>1, <1>2, <1>3 DEF Understood, FileItems
<1>5. InBuffer = Content(archive, index)
  <2>1. CASE InBuffer # Nothing
    BY <1>1, <2>1 DEF Extracts, CrcMatches
  <2>2. CASE InBuffer = Nothing
    <3>1. Garbage # Nothing
      <4>1. Garbage.size = 1 /\ Nothing.size = 0
        BY DEF Garbage, Nothing
      <4> QED
        BY <4>1
    <3>2. InBuffer = Taken(db, index)
      BY <2>2, <3>1 DEF InBuffer
    <3> QED
      BY <1>2, <1>3, <1>4, <3>2 DEF Understood
  <2> QED
    BY <2>1, <2>2
<1>6. LaidOut' /\ Phases' /\ Understood' /\ ppc' = "none" /\ FileItems' = FileItems
    BY <1>1, <1>2, <1>3, SamePhase
<1>7. \A i \in FileItems : PathOf(i)' = PathOf(i) /\ Content(archive, i)' = Content(archive, i)
    BY <1>1 DEF PathOf
<1>8. /\ Paths' = Paths \cup {PathOf(index)}
      /\ \A q \in Paths' : tree'[q] = IF q = PathOf(index) THEN File(InBuffer) ELSE tree[q]
    BY <1>1 DEF With, Paths
<1>9. ASSUME NEW i \in FileItems, i < index + 1
      PROVE  IsThere(i)'
  <2>1. CASE i = index
    BY <1>5, <1>7, <1>8, <1>9, <2>1 DEF IsThere
  <2>2. CASE i # index
    <3>1. i \in 1 .. NumFiles(archive) /\ i < index
      BY <1>3, <1>9, <2>2 DEF FileItems
    <3>2. PathOf(i) # PathOf(index)
      BY <1>2, <1>3, <2>2, <3>1, PathsDiffer
    <3>3. IsThere(i)
      BY <1>1, <3>1 DEF PInv, Written
    <3> QED
      BY <1>7, <1>8, <1>9, <3>2, <3>3 DEF IsThere
  <2> QED
    BY <2>1, <2>2
<1>10. Written'
    BY <1>1, <1>2, <1>6, <1>9 DEF Written
<1>11. AllThere'
    BY <1>1 DEF AllThere
<1> QED
    BY <1>6, <1>10, <1>11 DEF PInv

LEMMA UnpackKeeps ==
    ASSUME PInv, HeaderIsUnderstood, HeaderIsUnderstood', hpc = "unpack", UnpackStep,
           UNCHANGED processes
    PROVE  PInv'
<1>1. LaidOut /\ Written /\ NumFiles(archive) \in Nat
    BY NamesDiffer, LenProperties DEF PInv, NumFiles
<1>2. CASE OpenArchive
  <2>1. LaidOut' /\ Phases' /\ NumFiles(archive)' = NumFiles(archive)
    BY <1>2, SamePhase DEF OpenArchive
  <2>2. upc' = "directories" /\ index' = Len(db'.files)
    BY <1>2 DEF OpenArchive
  <2>3. index' \in 0 .. NumFiles(archive)'
    BY <1>1, <2>1, <2>2 DEF HeaderIsUnderstood
  <2> QED
    BY <2>1, <2>2, <2>3 DEF PInv, Written, AllThere
<1>3. CASE CannotOpen \/ CannotExtract
  <2>1. LaidOut' /\ Phases' /\ upc' = "failed"
    BY <1>3, SamePhase DEF CannotOpen, CannotExtract, Fail
  <2> QED
    BY <2>1 DEF PInv, Written, AllThere
<1>4. CASE MakeDirectory \/ SkipFile
  <2>1. /\ upc = "directories" /\ upc' = upc /\ index > 1 /\ index' = index - 1
        /\ UNCHANGED <<archive, base, db>>
    BY <1>4 DEF MakeDirectory, SkipFile, MoreDirectories
  <2>2. index \in 1 .. NumFiles(archive) /\ index' \in 0 .. NumFiles(archive)
    BY <1>1, <2>1 DEF Written
  <2>3. UNCHANGED tree \/ tree' = With(PathOf(index), Directory)
    BY <1>4 DEF MakeDirectory, SkipFile
  <2>4. LaidOut' /\ Phases' /\ NumFiles(archive)' = NumFiles(archive)
    BY <2>1, <2>2, <2>3, SamePhase
  <2> QED
    BY <2>1, <2>2, <2>4 DEF PInv, Written, AllThere
<1>5. CASE DirectoriesMade
  <2>1. /\ upc = "directories" /\ upc' = "files" /\ index' = 1
        /\ UNCHANGED <<archive, base, db, tree>>
    BY <1>5 DEF DirectoriesMade
  <2>2. LaidOut' /\ Phases' /\ Understood' /\ FileItems' = FileItems
    BY <2>1, SamePhase, UnderstoodNow
  <2>3. \A i \in FileItems' : ~(i < index')
    BY <1>1, <2>1, <2>2 DEF FileItems
  <2> QED
    BY <2>1, <2>2, <2>3 DEF PInv, Written, AllThere
<1>6. CASE SkipDirectory
  <2>1. /\ upc = "files" /\ upc' = upc /\ index <= Len(db.files) /\ db.files[index].dir
        /\ index' = index + 1 /\ UNCHANGED <<archive, base, db, tree>>
    BY <1>6 DEF SkipDirectory
  <2>2. LaidOut' /\ Phases' /\ Understood' /\ FileItems' = FileItems
    BY <1>1, <2>1, SamePhase DEF Written
  <2>3. Understood /\ index \in Nat \ {0} /\ index \notin FileItems
    BY <1>1, <2>1 DEF Written, Understood, FileItems
  <2>4. \A i \in FileItems : i < index + 1 => i < index /\ IsThere(i)
    BY <1>1, <2>1, <2>3 DEF Written, FileItems
  <2>5. \A i \in FileItems : IsThere(i)' <=> IsThere(i)
    BY <2>1 DEF IsThere, PathOf, Paths
  <2> QED
    BY <2>1, <2>2, <2>3, <2>4, <2>5 DEF PInv, Written, AllThere
<1>7. CASE ExtractFile
    BY <1>7, ExtractKeeps
<1>8. CASE CannotWrite
  <2>1. /\ upc = "files" /\ upc' = "failed" /\ index <= Len(db.files)
        /\ UNCHANGED <<archive, base, db>>
        /\ \E what : tree' = With(PathOf(index), what)
    BY <1>8 DEF CannotWrite, AtFile, Fail
  <2>2. index \in 1 .. NumFiles(archive)
    BY <1>1, <2>1 DEF Written, Understood
  <2>3. LaidOut' /\ Phases'
    BY <2>1, <2>2, SamePhase
  <2> QED
    BY <2>1, <2>3 DEF PInv, Written, AllThere
<1>9. CASE AllExtracted
  <2>1. /\ upc = "files" /\ upc' = "done" /\ index > Len(db.files)
        /\ UNCHANGED <<archive, base, db, tree>>
    BY <1>9 DEF AllExtracted
  <2>2. LaidOut' /\ Phases' /\ Understood' /\ FileItems' = FileItems
    BY <1>1, <2>1, SamePhase DEF Written
  <2>3. Understood /\ index \in Nat \ {0}
    BY <1>1, <2>1 DEF Written
  <2>4. \A i \in FileItems : IsThere(i)
    BY <1>1, <2>1, <2>3 DEF Written, Understood, FileItems
  <2>5. \A i \in FileItems : IsThere(i)' <=> IsThere(i)
    BY <2>1 DEF IsThere, PathOf, Paths
  <2> QED
    BY <2>1, <2>2, <2>4, <2>5 DEF PInv, Written, AllThere
<1> QED
    BY <1>2, <1>3, <1>4, <1>5, <1>6, <1>7, <1>8, <1>9 DEF UnpackStep

\* What is unpacked stays as long as nothing is written or deleted.
LEMMA Resting ==
    ASSUME PInv, UNCHANGED <<tree, archive, base, db, upc, index>>
    PROVE  /\ LaidOut' /\ Written'
           /\ base = Folder => Target \o PythonDll \notin Paths'
           /\ (\A i \in FileItems : IsThere(i)) => (\A i \in FileItems' : IsThere(i)')
<1>1. LaidOut' /\ FileItems' = FileItems /\ (Understood => Understood')
    BY DEF PInv, LaidOut, FileItems, Understood
<1>2. \A i : IsThere(i)' <=> IsThere(i)
    BY DEF IsThere, PathOf, Paths
<1>3. Written'
    BY <1>1, <1>2 DEF PInv, Written
<1>4. base = Folder => Target \o PythonDll \notin Paths'
    BY DEF PInv, Phases, Paths
<1> QED
    BY <1>1, <1>2, <1>3, <1>4

LEMMA DeletionShrinks ==
    ASSUME NEW held, NEW others, DeleteStep(held, others)
    PROVE  Paths' \subseteq Paths
<1>1. UNCHANGED tree \/ \E q : tree' = Without(q)
    BY DEF DeleteStep, DeleteSubdirectory, DeleteFile, CannotDelete, RemoveDirectory, CannotRemove
<1>2. \A q : tree' = Without(q) => Paths' = Paths \ {q}
    BY DEF Without, Restrict, Paths
<1> QED
    BY <1>1, <1>2 DEF Paths

LEMMA PStarts == Init => PInv
<1> SUFFICES ASSUME Init PROVE PInv
    OBVIOUS
<1>1. LaidOut
    BY DEF Init, InitUnpack, LaidOut
<1>2. Target \o PythonDll \notin Paths
  <2>1. Paths = {<<>>, <<"folder">>, <<"other">>}
    BY DEF Init, Paths, Folder
  <2>2. Len(Target \o PythonDll) = 2
    BY DEF Target, PythonDll
  <2> QED
    BY <2>1, <2>2
<1> QED
    BY <1>1, <1>2 DEF Init, InitUnpack, PInv, Written, Phases, AllThere

LEMMA PStays ==
    ASSUME PInv, [Next]_lvars, HeaderIsUnderstood, HeaderIsUnderstood'
    PROVE  PInv'
<1>1. CASE HeaderStart
  <2>1. LaidOut' /\ upc' = "open" /\ upc = "open" /\ hpc' = "unpack" /\ ypc' = "none" /\ ppc' = "none"
    BY <1>1 DEF HeaderStart, PInv, Phases, LaidOut
  <2>2. base' \in {Target, Folder} /\ (base' = Folder => UNCHANGED tree)
    BY <1>1 DEF HeaderStart, PInv, Phases, Target, Folder
  <2>3. base' = Folder => Target \o PythonDll \notin Paths'
    BY <1>1, <2>2 DEF HeaderStart, PInv, Phases, Paths, Target, Folder
  <2> QED
    BY <2>1, <2>2, <2>3 DEF PInv, Written, Phases, AllThere
<1>2. CASE HeaderUnpack
    BY <1>2, UnpackKeeps DEF HeaderUnpack
<1>3. CASE LauncherDelete
  <2>1. /\ ppc = "delete" /\ UNCHANGED <<archive, base, db, upc, index, processes>>
        /\ DeleteStep(OthersIn \cup LauncherIn, OthersIn)
    BY <1>3 DEF LauncherDelete, unpackVars
  <2>2. LaidOut' /\ (Understood => Understood') /\ upc = "done"
    BY <2>1 DEF PInv, LaidOut, Phases, Understood, FileItems
  <2>3. Paths' \subseteq Paths
    BY <2>1, DeletionShrinks
  <2> QED
    BY <2>1, <2>2, <2>3 DEF PInv, Written, Phases, AllThere, processes
<1>4. ASSUME UNCHANGED <<tree, unpackVars>>
      PROVE  /\ LaidOut' /\ Written' /\ UNCHANGED <<base, upc>>
             /\ base = Folder => Target \o PythonDll \notin Paths'
             /\ (\A i \in FileItems : IsThere(i)) => (\A i \in FileItems' : IsThere(i)')
    BY <1>4, Resting DEF unpackVars
<1>5. CASE HeaderUnpacked \/ HeaderCannotUnpack \/ HeaderCopy \/ HeaderEnd
  <2>1. /\ UNCHANGED <<tree, unpackVars, ppc, ypc>> /\ hpc # "start" /\ hpc' # "start"
        /\ hpc' \in {"copy", "create"} => upc = "done"
        /\ ppc # "none" => hpc' \in {"sleep", "over"}
    BY <1>5 DEF HeaderUnpacked, HeaderCannotUnpack, HeaderCopy, HeaderEnd, Unpacked, PInv, Phases
  <2> QED
    BY <1>4, <2>1 DEF PInv, Phases, AllThere
<1>6. CASE HeaderCreate
    BY <1>4, <1>6 DEF HeaderCreate, PInv, Phases, AllThere
<1>7. CASE LauncherCreate \/ LauncherEnd
    BY <1>4, <1>7 DEF LauncherCreate, LauncherEnd, PInv, Phases, AllThere
<1>8. CASE LauncherWaited
    BY <1>4, <1>8 DEF LauncherWaited, PInv, Phases, AllThere
<1>9. CASE PyrunLoad
  <2>1. base = Folder => ~InTree(Target \o PythonDll)
    BY DEF PInv, Phases, InTree
  <2> QED
    BY <1>4, <1>9, <2>1 DEF PyrunLoad, PInv, Phases, AllThere
<1>10. CASE PythonStartsProgram \/ PythonEnds \/ ProgramEnds
    BY <1>4, <1>10 DEF PythonStartsProgram, PythonEnds, ProgramEnds, PInv, Phases, AllThere
<1>11. CASE CloseBox
    BY <1>4, <1>11 DEF CloseBox, PInv, Phases, AllThere
<1>12. CASE UNCHANGED lvars
    BY <1>4, <1>12 DEF lvars, processes, PInv, Phases, AllThere
<1> QED
    BY <1>1, <1>2, <1>3, <1>5, <1>6, <1>7, <1>8, <1>9, <1>10, <1>11, <1>12 DEF Next, Header_, Launcher_

\* Python runs only where and when all its files are, if the decoder reads the
\* header as the compressor wrote it, which it does (HeadersAreUnderstood).
LEMMA PythonIsCompleteIf == Spec /\ []HeaderIsUnderstood => []PythonHasItsFiles
<1>1. PInv => PythonHasItsFiles
    BY DEF PInv, Phases, AllThere, PythonHasItsFiles
<1>2. PInv /\ [Next]_lvars /\ HeaderIsUnderstood /\ HeaderIsUnderstood' => PInv'
    BY PStays
<1> QED
    BY <1>1, <1>2, PStarts, PTL DEF Spec

-----------------------------------------------------------------------------
(* Types                                                                    *)

Kinds == {"directory", "file", "partial"}
LEMMA KindsOf ==
    /\ Directory.kind \in Kinds /\ Partial.kind \in Kinds
    /\ \A bytes : File(bytes).kind \in Kinds
BY DEF Directory, Partial, File, Kinds

\* A call adds one path or takes one away.
LEMMA KindsStay ==
    ASSUME \A p \in Paths : tree[p].kind \in Kinds, NEW q, NEW what,
           tree' = Without(q) \/ (tree' = With(q, what) /\ what.kind \in Kinds) \/ tree' = tree
    PROVE  \A p \in Paths' : tree'[p].kind \in Kinds
<1>1. CASE tree' = Without(q)
    BY <1>1 DEF Without, Restrict, Paths
<1>2. CASE tree' = With(q, what) /\ what.kind \in Kinds
    BY <1>2 DEF With, Paths
<1> QED
    BY <1>1, <1>2 DEF Paths

\* What is in the tree is a directory, a file or a part of one, and every process
\* is in a place of its own.
THEOREM LauncherTypes == Spec => []TypeOK
<1> USE DEF Kinds, TypeOK
<1>1. Init => TypeOK
    BY KindsOf DEF Init, InitUnpack, InitDelete, Paths
<1>2. TypeOK /\ [Next]_lvars => TypeOK'
  <2> SUFFICES ASSUME TypeOK, [Next]_lvars PROVE TypeOK'
    OBVIOUS
  <2>1. \A p \in Paths' : tree'[p].kind \in Kinds
    <3>1. CASE UNCHANGED tree
      BY <3>1 DEF Paths
    <3>2. CASE HeaderStart
      BY <3>2, KindsOf, KindsStay DEF HeaderStart
    <3>3. CASE HeaderUnpack
      BY <3>3, KindsOf, KindsStay DEF HeaderUnpack, UnpackStep, OpenArchive, CannotOpen, MakeDirectory,
         SkipFile, DirectoriesMade, SkipDirectory, ExtractFile, CannotExtract, CannotWrite, AllExtracted
    <3>4. CASE LauncherDelete
      BY <3>4, KindsStay DEF LauncherDelete, DeleteStep, DeleteSubdirectory, DeleteFile,
         CannotDelete, RemoveDirectory, CannotRemove
    <3> QED
      BY <3>1, <3>2, <3>3, <3>4 DEF Next, Header_, Launcher_, HeaderUnpacked,
          HeaderCannotUnpack, HeaderCopy, HeaderCreate, HeaderEnd, LauncherCreate, LauncherWaited,
          LauncherEnd, PyrunLoad, PythonStartsProgram, PythonEnds, ProgramEnds, CloseBox, lvars
  <2> HIDE DEF Kinds
  <2>2. CASE UNCHANGED lvars
    BY <2>1, <2>2 DEF lvars, unpackVars, deleteVars, processes, Kinds
  <2>3. CASE Header_
    <3>1. CASE HeaderStart
      BY <2>1, <3>1 DEF HeaderStart, deleteVars, Kinds
    <3>2. CASE HeaderUnpack
      <4>1. base' = base /\ upc' \in {"open", "directories", "files", "done", "failed"}
        BY <3>2 DEF HeaderUnpack, UnpackStep, OpenArchive, CannotOpen, MakeDirectory, Fail,
         SkipFile, DirectoriesMade, SkipDirectory, ExtractFile, CannotExtract, CannotWrite, AllExtracted
      <4> QED BY <2>1, <3>2, <4>1 DEF HeaderUnpack, deleteVars, processes, Kinds
    <3> QED
      BY <2>1, <2>3, <3>1, <3>2 DEF Header_, HeaderUnpacked, HeaderCannotUnpack, HeaderCopy, HeaderCreate,
         HeaderEnd, unpackVars, deleteVars, processes, Kinds
  <2>4. CASE Launcher_
    <3>1. hindered' \in BOOLEAN
      <4>1. CASE LauncherWaited \/ LauncherCreate \/ LauncherEnd
        BY <4>1 DEF LauncherWaited, LauncherCreate, LauncherEnd, Enter, deleteVars
      <4>2. CASE LauncherDelete
        BY <4>2 DEF LauncherDelete, DeleteStep, DeleteSubdirectory, DeleteFile, Enter,
           CannotDelete, RemoveDirectory, CannotRemove
      <4> QED BY <2>4, <4>1, <4>2 DEF Launcher_
    <3>2. UNCHANGED <<unpackVars, hpc, child>>
      BY <2>4 DEF Launcher_, LauncherCreate, LauncherWaited, LauncherDelete, LauncherEnd, processes
    <3>3. /\ ppc' \in {"none", "create", "wait", "delete", "box", "over"}
          /\ ypc' \in {"none", "load", "python", "box", "over"}
      BY <2>4 DEF Launcher_, LauncherCreate, LauncherWaited, LauncherDelete, LauncherEnd, processes
    <3> QED BY <2>1, <3>1, <3>2, <3>3 DEF unpackVars, Kinds
  <2>5. CASE PyrunLoad \/ PythonStartsProgram \/ PythonEnds \/ ProgramEnds \/ CloseBox
    BY <2>1, <2>5 DEF PyrunLoad, PythonStartsProgram, PythonEnds, ProgramEnds, CloseBox,
       unpackVars, deleteVars, Kinds
  <2> QED
    BY <2>2, <2>3, <2>4, <2>5 DEF Next
<1> QED
    BY <1>1, <1>2, PTL DEF Spec

-----------------------------------------------------------------------------
(* What is left of targetdir                                                *)

\* The paths there are, and where unpack is in an archive it takes for what the
\* compressor wrote.
Sound ==
    /\ LaidOut /\ db = ReadHeader(Header(archive))
    /\ base \in {Target, Folder}
    /\ Paths \subseteq Seq(Names)
    /\ upc = "directories" => index \in 0 .. NumFiles(archive)
    /\ upc = "files" => index \in Nat \ {0}

\* The decoder finds as many items as there are, whatever it makes of them.
LEMMA AsManyFiles ==
    ASSUME LaidOut, db = ReadHeader(Header(archive))
    PROVE  Len(db.files) = NumFiles(archive) /\ NumFiles(archive) \in Nat
<1>1. NumFiles(archive) \in Nat /\ Items(archive) \in Seq(Item)
    BY NamesDiffer, LenProperties DEF NumFiles
<1>2. DOMAIN Items(archive) = 1 .. NumFiles(archive)
    BY <1>1, LenProperties DEF NumFiles
<1> DEFINE h == Header(archive)
<1>3. DOMAIN h.emptyStream = 1 .. NumFiles(archive)
    BY <1>2 DEF Header
<1> HIDE DEF h
<1>4. db.files = Files(h)
    BY DEF ReadHeader, h
<1>5. DOMAIN Files(h) = 1 .. NumFiles(archive)
    BY <1>3 DEF Files
<1>6. Files(h) = [i \in 1 .. NumFiles(archive) |-> Files(h)[i]]
    BY <1>3 DEF Files
<1> DEFINE f == Files(h)
<1> HIDE DEF f
<1>7. f = [i \in 1 .. NumFiles(archive) |-> f[i]]
    BY <1>6 DEF f
<1>8. f \in Seq({f[i] : i \in 1 .. NumFiles(archive)})
    BY <1>1, <1>7
<1>9. Len(f) = NumFiles(archive)
    BY <1>1, <1>7, <1>8, LenProperties
<1> QED
    BY <1>1, <1>4, <1>9 DEF f

LEMMA OwnNames ==
    /\ "target" \in Names /\ "folder" \in Names /\ "other" \in Names
    /\ Target \in Seq(Names) /\ Folder \in Seq(Names)
<1>1. "target" \in Names /\ "folder" \in Names /\ "other" \in Names
    BY DEF Names
<1> QED
    BY <1>1, OneName DEF Target, Folder

LEMMA ItemIsPath ==
    ASSUME LaidOut, base \in {Target, Folder}, NEW i \in 1 .. NumFiles(archive)
    PROVE  PathOf(i) \in Seq(Names)
<1>1. base \in Seq(Names)
    BY OwnNames
<1>2. Items(archive)[i].name \in Seq(Names)
    BY NamesOfItems
<1>3. \A s, t \in Seq(Names) : s \o t \in Seq(Names)
    BY ConcatProperties
<1> QED
    BY <1>1, <1>2, <1>3, Zenon DEF PathOf

LEMMA PathsOf ==
    ASSUME NEW q, NEW what
    PROVE  /\ tree' = With(q, what) => Paths' = Paths \cup {q}
           /\ tree' = Without(q) => Paths' = Paths \ {q}
BY DEF With, Without, Restrict, Paths

LEMMA SoundStarts == Init => Sound
<1> SUFFICES ASSUME Init PROVE Sound
    OBVIOUS
<1>1. LaidOut /\ db = ReadHeader(Header(archive)) /\ upc = "open" /\ base = Folder
    BY DEF Init, InitUnpack, LaidOut
<1>2. Paths = {<<>>, <<"folder">>, <<"other">>}
    BY DEF Init, Paths, Folder
<1>3. <<>> \in Seq(Names) /\ <<"folder">> \in Seq(Names) /\ <<"other">> \in Seq(Names)
    BY OwnNames, OneName, EmptySeq
<1> QED
    BY <1>1, <1>2, <1>3 DEF Sound

LEMMA SoundUnpack ==
    ASSUME Sound, hpc = "unpack", UnpackStep
    PROVE  Sound'
<1>1. LaidOut' /\ UNCHANGED <<archive, db, base>> /\ NumFiles(archive)' = NumFiles(archive)
    BY DEF Sound, LaidOut, UnpackStep, OpenArchive, CannotOpen, MakeDirectory,
       SkipFile, DirectoriesMade, SkipDirectory, ExtractFile, CannotExtract, CannotWrite, AllExtracted
<1>2. Len(db.files) = NumFiles(archive) /\ NumFiles(archive) \in Nat
    BY AsManyFiles DEF Sound
<1>3. /\ upc' = "directories" => index' \in 0 .. NumFiles(archive)
      /\ upc' = "files" => index' \in Nat \ {0}
  <2>1. CASE OpenArchive
    BY <1>2, <2>1 DEF OpenArchive
  <2>2. CASE MakeDirectory \/ SkipFile
    <3>1. upc = "directories" /\ upc' = upc /\ index > 1 /\ index' = index - 1
      BY <2>2 DEF MakeDirectory, SkipFile, MoreDirectories
    <3> QED
      BY <1>2, <3>1 DEF Sound
  <2>3. CASE SkipDirectory \/ ExtractFile
    <3>1. upc = "files" /\ upc' = upc /\ index' = index + 1
      BY <2>3 DEF SkipDirectory, ExtractFile, AtFile
    <3> QED
      BY <3>1 DEF Sound
  <2>4. CASE DirectoriesMade
    BY <2>4 DEF DirectoriesMade
  <2>5. CASE CannotOpen \/ CannotExtract \/ CannotWrite \/ AllExtracted
    BY <2>5 DEF CannotOpen, CannotExtract, CannotWrite, AllExtracted, Fail
  <2> QED
    BY <2>1, <2>2, <2>3, <2>4, <2>5 DEF UnpackStep
<1>4. Paths' \subseteq Seq(Names)
  <2>1. CASE UNCHANGED tree
    BY <2>1 DEF Sound, Paths
  <2>2. CASE MakeDirectory \/ ExtractFile \/ CannotWrite
    <3>1. \/ UNCHANGED tree
          \/ \E what : tree' = With(PathOf(index), what)
      BY <2>2 DEF MakeDirectory, ExtractFile, CannotWrite
    <3>2. CASE MakeDirectory
      <4>1. upc = "directories" /\ index > 1
        BY <3>2 DEF MakeDirectory, MoreDirectories
      <4> QED
        BY <1>2, <2>1, <3>1, <4>1, ItemIsPath, PathsOf DEF Sound
    <3>3. CASE ExtractFile \/ CannotWrite
      <4>1. upc = "files" /\ index <= Len(db.files)
        BY <3>3 DEF ExtractFile, CannotWrite, AtFile
      <4> QED
        BY <1>2, <2>1, <3>1, <4>1, ItemIsPath, PathsOf DEF Sound
    <3> QED
      BY <2>2, <3>2, <3>3
  <2> QED
    BY <2>1, <2>2 DEF UnpackStep, OpenArchive, CannotOpen, SkipFile, DirectoriesMade, SkipDirectory,
       CannotExtract, AllExtracted
<1> QED
    BY <1>1, <1>3, <1>4 DEF Sound

LEMMA SoundStays == Sound /\ [Next]_lvars => Sound'
<1> SUFFICES ASSUME Sound, [Next]_lvars PROVE Sound'
    OBVIOUS
<1>1. CASE UNCHANGED <<tree, unpackVars>>
    BY <1>1 DEF Sound, unpackVars, LaidOut, Paths
<1>2. CASE HeaderStart
  <2>1. UNCHANGED <<archive, db, upc, index>> /\ base' \in {Target, Folder} /\ LaidOut'
    BY <1>2 DEF HeaderStart, Sound, LaidOut
  <2>2. Paths' \subseteq Seq(Names)
    BY <1>2, PathsOf, OwnNames DEF HeaderStart, Sound, Paths
  <2> QED
    BY <2>1, <2>2 DEF Sound
<1>3. CASE HeaderUnpack
    BY <1>3, SoundUnpack DEF HeaderUnpack
<1>4. CASE LauncherDelete
  <2>1. UNCHANGED unpackVars
    BY <1>4 DEF LauncherDelete
  <2>2. Paths' \subseteq Paths
    BY <1>4, DeletionShrinks DEF LauncherDelete
  <2> QED
    BY <2>1, <2>2 DEF Sound, unpackVars, LaidOut
<1> QED
    BY <1>1, <1>2, <1>3, <1>4 DEF Next, Header_, Launcher_, HeaderUnpacked,
       HeaderCannotUnpack, HeaderCopy, HeaderCreate, HeaderEnd, LauncherCreate, LauncherWaited,
       LauncherEnd, PyrunLoad, PythonStartsProgram, PythonEnds, ProgramEnds, CloseBox, lvars

\* A name that the recursion skips is left in targetdir.
DotLeft == \E p \in Within(Target) : Last(p) \in Dotted

\* What is in the directory of a level is still to be deleted, skipped, or what
\* name says.
NamesOf(paths, d) == {Last(p) : p \in {r \in paths : r # <<>> /\ Parent(r) = d}}
Covers(paths, frame, name) == NamesOf(paths, frame.dir) \ Dotted \subseteq frame.todo \cup {name}
Covered(paths, frame) == NamesOf(paths, frame.dir) \ Dotted \subseteq frame.todo

\* Each level is inside the one below it and the lowest is targetdir.
Levels(paths, s) ==
    /\ s[1].dir = Target
    /\ \A k \in 1 .. Len(s) - 1 : \E name :
           s[k + 1].dir = Append(s[k].dir, name) /\ Covers(paths, s[k], name)
    /\ Covered(paths, s[Len(s)])

Gone == hindered \/ Target \notin Paths \/ DotLeft
DInv ==
    /\ ppc \in {"none", "create", "box"} => ypc = "none"
    /\ ypc \in {"load", "python", "box"} => ppc = "wait"
    /\ ppc = "delete" => ypc = "over"
    /\ ppc = "delete" /\ stack # <<>> => hindered \/ Levels(Paths, stack)
    /\ ppc = "delete" /\ stack = <<>> => Gone
    /\ ppc = "over" /\ ypc = "over" => Gone

\* A path is its directory and its name.
LEMMA PathParts ==
    ASSUME NEW S, NEW q \in Seq(S), q # <<>>
    PROVE  Parent(q) \in Seq(S) /\ q = Append(Parent(q), Last(q))
<1>1. Len(q) \in Nat \ {0} /\ \A i \in 1 .. Len(q) : q[i] \in S
    BY NonEmpty, ElementOfSeq
<1>2. /\ Parent(q) \in Seq(S) /\ Len(Parent(q)) = Len(q) - 1
      /\ \A i \in 1 .. Len(q) - 1 : Parent(q)[i] = q[i]
    BY <1>1, SubSeqProperties DEF Parent, Front
<1>3. /\ Append(Parent(q), Last(q)) \in Seq(S)
      /\ Len(Append(Parent(q), Last(q))) = Len(q)
      /\ \A i \in 1 .. Len(q) - 1 : Append(Parent(q), Last(q))[i] = q[i]
      /\ Append(Parent(q), Last(q))[Len(q)] = q[Len(q)]
    BY <1>1, <1>2, NonEmpty, AppendProperties DEF Last
<1>4. \A i \in 1 .. Len(q) : Append(Parent(q), Last(q))[i] = q[i]
    BY <1>1, <1>3
<1> QED
    BY <1>2, <1>3, <1>4, SeqEqual

LEMMA NamesInIs == \A d : NamesIn(d) = NamesOf(Paths, d)
BY DEF NamesIn, NamesOf

\* The names in a directory without one of its entries.
LEMMA NamesWithout ==
    ASSUME NEW paths, paths \subseteq Seq(Names), NEW d, NEW name
    PROVE  NamesOf(paths \ {Append(d, name)}, d) \subseteq NamesOf(paths, d) \ {name}
<1>1. ASSUME NEW r \in paths \ {Append(d, name)}, r # <<>>, Parent(r) = d, Last(r) = name
      PROVE  FALSE
    BY <1>1, PathParts
<1> QED
    BY <1>1 DEF NamesOf

LEMMA FewerNames ==
    ASSUME NEW paths, NEW fewer, fewer \subseteq paths, NEW d
    PROVE  NamesOf(fewer, d) \subseteq NamesOf(paths, d)
BY DEF NamesOf

\* What is in a directory of targetdir is within targetdir.
LEMMA NameIsWithin ==
    ASSUME Paths \subseteq Seq(Names), NEW d, InTarget(d), NEW name \in NamesIn(d)
    PROVE  \E p \in Within(Target) : Last(p) = name
<1>1. PICK r \in Paths : r # <<>> /\ Parent(r) = d /\ Last(r) = name
    BY DEF NamesIn
<1>2. r \in Seq(Names) /\ r = Append(d, name) /\ d \in Seq(Names)
    BY <1>1, PathParts
<1>3. Len(d) \in Nat \ {0} /\ d[1] = "target" /\ name \in Names
    BY <1>1, <1>2, NonEmpty DEF InTarget
<1>4. r[1] = "target" /\ Len(r) = Len(d) + 1
    BY <1>2, <1>3, AppendProperties
<1>5. InTarget(r)
    BY <1>1, <1>2, <1>4 DEF InTarget
<1>6. Len(Target) = 1
    BY DEF Target
<1>7. IsStrictPrefix(Target, r)
  <2>1. Len(r) # Len(Target)
    BY <1>3, <1>4, <1>6
  <2>2. r # Target
    BY <2>1
  <2> QED
    BY <1>5, <2>2, TargetIsPrefix DEF IsStrictPrefix
<1>8. r \in Within(Target)
    BY <1>1, <1>7, Zenon DEF Within
<1> QED
    BY <1>1, <1>8

LEMMA SameRange ==
    ASSUME NEW m \in Nat, NEW n \in Nat, 1 .. m = 1 .. n
    PROVE  m = n
<1>1. CASE m < n
  <2>1. n \in 1 .. n /\ ~(n \in 1 .. m)
    BY <1>1
  <2> QED
    BY <2>1
<1>2. CASE n < m
  <2>1. m \in 1 .. m /\ ~(m \in 1 .. n)
    BY <1>2
  <2> QED
    BY <2>1
<1> QED
    BY <1>1, <1>2

\* The top frame loses a name, the others stay.
LEMMA TopWithoutIs ==
    ASSUME GoodStack(stack), stack # <<>>, NEW name
    PROVE  /\ Len(TopWithout(name)) = Len(stack) /\ Len(stack) \in Nat \ {0}
           /\ TopWithout(name) # <<>>
           /\ \A k \in 1 .. Len(stack) :
                  /\ TopWithout(name)[k].dir = stack[k].dir
                  /\ k # Len(stack) => TopWithout(name)[k] = stack[k]
           /\ TopWithout(name)[Len(stack)].todo = stack[Len(stack)].todo \ {name}
<1>1. PICK T : stack \in Seq(T) /\ GoodFrames(T)
    BY DEF GoodStack
<1> DEFINE n == Len(stack)
           less == [stack[n] EXCEPT !.todo = @ \ {name}]
<1>2. stack[n] = [dir |-> stack[n].dir, todo |-> stack[n].todo]
  <2>1. GoodFrame(stack[n])
    BY TopIsGood DEF Last
  <2> QED
    BY <2>1 DEF GoodFrame
<1>3. less.dir = stack[n].dir /\ less.todo = stack[n].todo \ {name}
  <2> DEFINE f == stack[n]
  <2>1. f = [dir |-> f.dir, todo |-> f.todo]
    BY <1>2
  <2>2. \A a, b : LET g == [[dir |-> a, todo |-> b] EXCEPT !.todo = b \ {name}]
                  IN g.dir = a /\ g.todo = b \ {name}
    OBVIOUS
  <2>3. less = [[dir |-> f.dir, todo |-> f.todo] EXCEPT !.todo = f.todo \ {name}]
    BY <2>1
  <2> HIDE DEF f, less
  <2> QED
    BY <2>2, <2>3 DEF f
<1> HIDE DEF less
<1>4. n \in 1 .. Len(stack) /\ n \in Nat \ {0} /\ DOMAIN stack = 1 .. n
    BY <1>1, NonEmpty, LenProperties
<1>5. TopWithout(name) = [stack EXCEPT ![n] = less]
    BY DEF TopWithout, less
<1>6. /\ DOMAIN TopWithout(name) = 1 .. n
      /\ \A k \in 1 .. n : TopWithout(name)[k] = IF k = n THEN less ELSE stack[k]
    BY <1>1, <1>4, <1>5
<1>7. PICK U : TopWithout(name) \in Seq(U)
    BY TopWithoutIsGood DEF GoodStack
<1>8. Len(TopWithout(name)) = n
  <2>1. Len(TopWithout(name)) \in Nat /\ DOMAIN TopWithout(name) = 1 .. Len(TopWithout(name))
    BY <1>7, LenProperties
  <2>2. 1 .. Len(TopWithout(name)) = 1 .. n
    BY <1>6, <2>1
  <2>3. n \in Nat
    BY <1>4
  <2> HIDE DEF n
  <2> QED
    BY <2>1, <2>2, <2>3, SameRange
<1>9. TopWithout(name) # <<>>
    BY <1>4, <1>8, EmptySeq
<1> QED
    BY <1>3, <1>4, <1>6, <1>8, <1>9

LEMMA OneMore ==
    ASSUME NEW U, NEW t \in Seq(U), NEW f
    PROVE  /\ Len(Append(t, f)) = Len(t) + 1 /\ Len(t) \in Nat
           /\ \A k \in 1 .. Len(t) : Append(t, f)[k] = t[k]
           /\ Append(t, f)[Len(t) + 1] = f
<1>1. t \in Seq(U \cup {f}) /\ f \in U \cup {f}
    BY SeqMonotonic
<1> QED
    BY <1>1, AppendProperties, LenProperties

LEMMA AllButLast ==
    ASSUME NEW U, NEW t \in Seq(U), t # <<>>
    PROVE  /\ Len(Front(t)) = Len(t) - 1 /\ Len(t) \in Nat \ {0}
           /\ Front(t) \in Seq(U)
           /\ \A k \in 1 .. Len(t) - 1 : Front(t)[k] = t[k]
<1>1. Len(t) \in Nat \ {0} /\ \A i \in 1 .. Len(t) : t[i] \in U
    BY NonEmpty, ElementOfSeq
<1>2. \A i \in 1 .. Len(t) - 1 : t[i] \in U
    BY <1>1
<1>3. 1 \in Int /\ Len(t) - 1 \in Int
    BY <1>1
<1> DEFINE f == SubSeq(t, 1, Len(t) - 1)
<1>4. /\ f \in Seq(U)
      /\ Len(f) = IF 1 <= Len(t) - 1 THEN (Len(t) - 1) - 1 + 1 ELSE 0
      /\ \A i \in 1 .. (Len(t) - 1) - 1 + 1 : f[i] = t[1 + i - 1]
    BY <1>2, <1>3, SubSeqProperties
<1> HIDE DEF f
<1>5. f \in Seq(U) /\ Len(f) = Len(t) - 1 /\ \A k \in 1 .. Len(t) - 1 : f[k] = t[k]
  <2>1. f \in Seq(U)
    BY <1>4
  <2>2. Len(f) = IF 1 <= Len(t) - 1 THEN (Len(t) - 1) - 1 + 1 ELSE 0
    BY <1>4
  <2>3. Len(f) = Len(t) - 1
    <3>1. \A m \in Nat \ {0} : (IF 1 <= m - 1 THEN (m - 1) - 1 + 1 ELSE 0) = m - 1
      OBVIOUS
    <3> QED
      BY <1>1, <2>2, <3>1
  <2>4. ASSUME NEW k \in 1 .. Len(t) - 1
        PROVE  f[k] = t[k]
    <3>1. k \in 1 .. (Len(t) - 1) - 1 + 1 /\ 1 + k - 1 = k
      BY <1>1
    <3>2. f[k] = t[1 + k - 1]
      BY <1>4, <3>1
    <3> QED
      BY <3>1, <3>2
  <2> QED
    BY <2>1, <2>3, <2>4
<1> QED
    BY <1>1, <1>5 DEF Front, f

LEMMA FrameCovered == \A dir : Covered(Paths, Frame(dir)) /\ Frame(dir).dir = dir
BY NamesInIs DEF Covered, Frame, Chosen, Listing

\* A level is added to the recursion.
LEMMA DescendKeeps ==
    ASSUME GoodStack(stack), stack # <<>>, Levels(Paths, stack), NEW name,
           UNCHANGED tree, stack' = Append(TopWithout(name), Frame(Append(Top.dir, name)))
    PROVE  Levels(Paths', stack')
<1> DEFINE n == Len(stack)
           t == TopWithout(name)
           f == Frame(Append(Top.dir, name))
<1>1. /\ Len(t) = n /\ n \in Nat \ {0}
      /\ \A k \in 1 .. n : t[k].dir = stack[k].dir /\ (k # n => t[k] = stack[k])
      /\ t[n].todo = stack[n].todo \ {name}
    BY TopWithoutIs
<1>2. f.dir = Append(stack[n].dir, name) /\ Covered(Paths, f)
    BY FrameCovered DEF Top, Last
<1>3. PICK U : t \in Seq(U)
    BY TopWithoutIsGood DEF GoodStack
<1> HIDE DEF n, t, f
<1>4. /\ Len(stack') = n + 1
      /\ \A k \in 1 .. n : stack'[k] = t[k]
      /\ stack'[n + 1] = f
    BY <1>1, <1>3, OneMore DEF t, f
<1>5. Paths' = Paths
    BY DEF Paths
<1>6. /\ stack[1].dir = Target
      /\ \A k \in 1 .. n - 1 : \E x : stack[k + 1].dir = Append(stack[k].dir, x) /\ Covers(Paths, stack[k], x)
      /\ Covered(Paths, stack[n])
    BY DEF Levels, n
<1>7. stack'[1].dir = Target
    BY <1>1, <1>4, <1>6
<1>8. ASSUME NEW k \in 1 .. Len(stack') - 1
      PROVE  \E x : stack'[k + 1].dir = Append(stack'[k].dir, x) /\ Covers(Paths, stack'[k], x)
  <2>1. CASE k = n
    <3>1. Covers(Paths, t[n], name)
      <4>1. n \in 1 .. n
        BY <1>1
      <4> QED
        BY <1>1, <1>6, <4>1 DEF Covers, Covered
    <3>2. n \in 1 .. n /\ stack'[n] = t[n] /\ t[n].dir = stack[n].dir /\ stack'[n + 1] = f
      BY <1>1, <1>4
    <3>3. stack'[n].dir = stack[n].dir /\ stack'[n + 1].dir = f.dir
      BY <3>2, Zenon
    <3>4. stack'[n + 1].dir = Append(stack'[n].dir, name) /\ Covers(Paths, stack'[n], name)
      BY <1>2, <3>1, <3>2, <3>3, Zenon
    <3> QED
      BY <2>1, <3>4, Zenon
  <2>2. CASE k # n
    <3>1. k \in 1 .. n - 1 /\ k \in 1 .. n /\ k + 1 \in 1 .. n
      BY <1>1, <1>4, <2>2
    <3>2. stack'[k] = stack[k] /\ stack'[k + 1].dir = stack[k + 1].dir
      BY <1>1, <1>4, <2>2, <3>1
    <3> QED
      BY <1>6, <3>1, <3>2
  <2> QED
    BY <2>1, <2>2
<1>9. Covered(Paths, stack'[Len(stack')])
    BY <1>2, <1>4
<1> QED
    BY <1>5, <1>7, <1>8, <1>9 DEF Levels

\* A file is deleted, or what its name stood for is gone already.
LEMMA FileKeeps ==
    ASSUME GoodStack(stack), stack # <<>>, Levels(Paths, stack), Paths \subseteq Seq(Names),
           NEW name, tree' = Without(Append(Top.dir, name)), stack' = TopWithout(name)
    PROVE  Levels(Paths', stack')
<1> DEFINE n == Len(stack)
<1>1. /\ Len(stack') = n /\ n \in Nat \ {0}
      /\ \A k \in 1 .. n : stack'[k].dir = stack[k].dir /\ (k # n => stack'[k] = stack[k])
      /\ stack'[n].todo = stack[n].todo \ {name}
    BY TopWithoutIs
<1> HIDE DEF n
<1>2. Paths' = Paths \ {Append(stack[n].dir, name)}
    BY PathsOf DEF Top, Last, n
<1>3. \A d : NamesOf(Paths', d) \subseteq NamesOf(Paths, d)
    BY <1>2, FewerNames
<1>4. NamesOf(Paths', stack[n].dir) \subseteq NamesOf(Paths, stack[n].dir) \ {name}
    BY <1>2, NamesWithout
<1>5. /\ stack[1].dir = Target
      /\ \A k \in 1 .. n - 1 : \E x : stack[k + 1].dir = Append(stack[k].dir, x) /\ Covers(Paths, stack[k], x)
      /\ Covered(Paths, stack[n])
    BY DEF Levels, n
<1>6. stack'[1].dir = Target /\ n \in 1 .. n
    BY <1>1, <1>5
<1>7. ASSUME NEW k \in 1 .. n - 1
      PROVE  \E x : stack'[k + 1].dir = Append(stack'[k].dir, x) /\ Covers(Paths', stack'[k], x)
  <2>1. PICK x : stack[k + 1].dir = Append(stack[k].dir, x) /\ Covers(Paths, stack[k], x)
    BY <1>5
  <2>2. k \in 1 .. n /\ k + 1 \in 1 .. n /\ k # n
    BY <1>1
  <2>3. stack'[k] = stack[k] /\ stack'[k + 1].dir = stack[k + 1].dir
    BY <1>1, <2>2
  <2>4. Covers(Paths', stack'[k], x)
    BY <1>3, <2>1, <2>3 DEF Covers
  <2> QED
    BY <2>1, <2>3, <2>4
<1>8. Covered(Paths', stack'[n])
    BY <1>1, <1>4, <1>5, <1>6 DEF Covered
<1> QED
    BY <1>1, <1>6, <1>7, <1>8 DEF Levels

\* A directory is empty and removed; the level below goes on.
LEMMA AscendKeeps ==
    ASSUME GoodStack(stack), stack # <<>>, Levels(Paths, stack), Paths \subseteq Seq(Names),
           tree' = Without(Top.dir), stack' = Front(stack)
    PROVE  IF stack' = <<>> THEN Target \notin Paths' ELSE Levels(Paths', stack')
<1> DEFINE n == Len(stack)
<1>1. PICK U : stack \in Seq(U)
    BY DEF GoodStack
<1>2. /\ Len(stack') = n - 1 /\ n \in Nat \ {0} /\ stack' \in Seq(U)
      /\ \A k \in 1 .. n - 1 : stack'[k] = stack[k]
    BY <1>1, AllButLast
<1> HIDE DEF n
<1>3. Paths' = Paths \ {stack[n].dir}
    BY PathsOf DEF Top, Last, n
<1>4. /\ stack[1].dir = Target
      /\ \A k \in 1 .. n - 1 : \E x : stack[k + 1].dir = Append(stack[k].dir, x) /\ Covers(Paths, stack[k], x)
    BY DEF Levels, n
<1>5. CASE stack' = <<>>
  <2>1. n = 1
    BY <1>2, <1>5
  <2> QED
    BY <1>3, <1>4, <1>5, <2>1
<1>6. CASE stack' # <<>>
  <2>1. n \in Nat /\ n > 1
    BY <1>2, <1>6, EmptySeq
  <2>2. n - 1 \in 1 .. n - 1 /\ 1 \in 1 .. n - 1 /\ (n - 1) + 1 = n
    BY <2>1
  <2>3. \A d : NamesOf(Paths', d) \subseteq NamesOf(Paths, d)
    BY <1>3, FewerNames
  <2>4. PICK y : stack[n].dir = Append(stack[n - 1].dir, y) /\ Covers(Paths, stack[n - 1], y)
    BY <1>4, <2>2
  <2>5. NamesOf(Paths', stack[n - 1].dir) \subseteq NamesOf(Paths, stack[n - 1].dir) \ {y}
    BY <1>3, <2>4, NamesWithout
  <2>6. Covered(Paths', stack'[n - 1])
    BY <1>2, <2>2, <2>4, <2>5 DEF Covers, Covered
  <2>7. ASSUME NEW k \in 1 .. n - 2
        PROVE  \E x : stack'[k + 1].dir = Append(stack'[k].dir, x) /\ Covers(Paths', stack'[k], x)
    <3>1. k \in 1 .. n - 1 /\ k + 1 \in 1 .. n - 1
      BY <2>1
    <3>2. PICK x : stack[k + 1].dir = Append(stack[k].dir, x) /\ Covers(Paths, stack[k], x)
      BY <1>4, <3>1
    <3>3. stack'[k] = stack[k] /\ stack'[k + 1] = stack[k + 1]
      BY <1>2, <3>1
    <3>4. Covers(Paths', stack'[k], x)
      BY <2>3, <3>2, <3>3 DEF Covers
    <3> QED
      BY <3>2, <3>3, <3>4
  <2>8. stack'[1].dir = Target
    BY <1>2, <1>4, <2>2
  <2>9. Len(stack') - 1 = n - 2
    BY <1>2, <2>1
  <2> QED
    BY <1>2, <1>6, <2>6, <2>7, <2>8, <2>9 DEF Levels
<1> QED
    BY <1>5, <1>6

\* One step of the recursion.
LEMMA DeletionCovers ==
    ASSUME LInv, Sound, hindered \in BOOLEAN, ppc = "delete", stack # <<>>, hindered \/ Levels(Paths, stack),
           DeleteStep(OthersIn \cup LauncherIn, OthersIn)
    PROVE  IF stack' = <<>> THEN Gone' ELSE hindered' \/ Levels(Paths', stack')
<1>1. GoodStack(stack) /\ Paths \subseteq Seq(Names) /\ GoodFrame(Top)
    BY TopIsGood DEF LInv, Sound, Top
<1>2. CASE hindered
  <2>1. hindered'
    BY <1>2 DEF DeleteStep, DeleteSubdirectory, DeleteFile, CannotDelete, RemoveDirectory,
       CannotRemove, Enter
  <2> QED
    BY <2>1 DEF Gone
<1>3. CASE ~hindered /\ Levels(Paths, stack)
  <2>1. \A name \in Top.todo : Entry(Top.dir, name) = Append(Top.dir, name)
    BY <1>1, DottedAssumption DEF GoodFrame, Entry
  <2>2. CASE DeleteSubdirectory
    <3>1. PICK name \in Top.todo : Enter(Append(Top.dir, name), TopWithout(name))
      BY <2>1, <2>2 DEF DeleteSubdirectory
    <3>2. UNCHANGED tree
      BY <2>2 DEF DeleteSubdirectory
    <3>3. CASE stack' = Append(TopWithout(name), Frame(Append(Top.dir, name)))
      <4>1. Levels(Paths', stack')
        BY <1>1, <1>3, <3>2, <3>3, DescendKeeps
      <4>2. stack' # <<>>
        <5>1. PICK U : TopWithout(name) \in Seq(U)
          BY <1>1, TopWithoutIsGood DEF GoodStack
        <5>2. Len(stack') \in Nat \ {0}
          BY <3>3, <5>1, OneMore
        <5> QED
          BY <5>2, EmptySeq
      <4> QED
        BY <4>1, <4>2
    <3>4. CASE hindered'
      BY <3>4 DEF Gone
    <3> QED
      BY <3>1, <3>3, <3>4 DEF Enter
  <2>3. CASE DeleteFile
    <3>1. PICK name \in Top.todo : stack' = TopWithout(name) /\ tree' = Without(Append(Top.dir, name))
      BY <2>1, <2>3 DEF DeleteFile
    <3>2. Levels(Paths', stack') /\ stack' # <<>>
      BY <1>1, <1>3, <3>1, FileKeeps, TopWithoutIs
    <3> QED
      BY <3>2
  <2>4. CASE CannotDelete
    BY <2>4 DEF CannotDelete, Gone
  <2>5. CASE RemoveDirectory(OthersIn \cup LauncherIn)
    <3>1. stack' = Front(stack) /\ tree' = Without(Top.dir)
      BY <2>5 DEF RemoveDirectory
    <3>2. IF stack' = <<>> THEN Target \notin Paths' ELSE Levels(Paths', stack')
      BY <1>1, <1>3, <3>1, AscendKeeps
    <3> QED
      BY <3>2 DEF Gone
  <2>6. CASE CannotRemove(OthersIn \cup LauncherIn, OthersIn)
    <3>1. stack' = <<>> /\ UNCHANGED tree /\ Top.todo = {} /\ hindered' = (hindered \/ Top.dir \in OthersIn)
      BY <2>6 DEF CannotRemove
    <3>2. CASE Top.dir \in OthersIn
      BY <3>1, <3>2 DEF Gone
    <3>3. CASE Top.dir \notin OthersIn
      <4>1. NamesIn(Top.dir) # {}
        BY <2>6, <3>3 DEF CannotRemove, LauncherIn
      <4>2. NamesIn(Top.dir) \ Dotted \subseteq Top.todo
        BY <1>3, NamesInIs DEF Levels, Covered, Top, Last
      <4>3. PICK name \in NamesIn(Top.dir) : name \in Dotted
        BY <3>1, <4>1, <4>2
      <4>4. InTarget(Top.dir)
        BY <1>1 DEF GoodFrame
      <4>5. PICK p \in Within(Target) : Last(p) = name
        BY <1>1, <4>3, <4>4, NameIsWithin
      <4>6. Within(Target)' = Within(Target)
        BY <3>1 DEF Within, Paths
      <4> QED
        BY <3>1, <4>3, <4>5, <4>6 DEF Gone, DotLeft
    <3> QED
      BY <3>2, <3>3
  <2> QED
    BY <2>2, <2>3, <2>4, <2>5, <2>6 DEF DeleteStep
<1> QED
    BY <1>2, <1>3

LEMMA GoneStays ==
    ASSUME Gone, UNCHANGED <<tree, hindered>>
    PROVE  Gone'
<1>1. Paths' = Paths /\ Within(Target)' = Within(Target)
    BY DEF Within, Paths
<1> QED
    BY <1>1 DEF Gone, DotLeft

\* pylauncher enters targetdir.
LEMMA DeletionStarts ==
    ASSUME LauncherWaited
    PROVE  IF stack' = <<>> THEN Gone' ELSE hindered' \/ Levels(Paths', stack')
<1>1. UNCHANGED tree /\ Enter(Target, <<>>)
    BY DEF LauncherWaited
<1>2. CASE hindered'
    BY <1>2 DEF Gone
<1>3. CASE stack' = Append(<<>>, Frame(Target))
  <2>1. Len(<<>>) = 0 /\ <<>> \in Seq({})
    BY EmptySeq
  <2>2. Len(stack') = 1 /\ stack'[1] = Frame(Target)
    BY <1>3, <2>1, OneMore
  <2>3. stack' # <<>>
    BY <2>1, <2>2
  <2>4. stack'[1].dir = Target /\ Covered(Paths, stack'[1])
    BY <2>2, FrameCovered
  <2>5. Paths' = Paths
    BY <1>1 DEF Paths
  <2>6. \A k \in 1 .. Len(stack') - 1 : FALSE
    BY <2>2
  <2>7. Levels(Paths', stack')
    BY <2>2, <2>4, <2>5, <2>6 DEF Levels
  <2> QED
    BY <2>3, <2>7
<1> QED
    BY <1>1, <1>2, <1>3 DEF Enter

LEMMA DStays == LInv /\ Sound /\ TypeOK /\ DInv /\ [Next]_lvars => DInv'
<1> SUFFICES ASSUME LInv, Sound, TypeOK, DInv, [Next]_lvars
             PROVE  DInv'
    OBVIOUS
<1>1. CASE LauncherDelete
  <2>1. /\ ppc = "delete" /\ DeleteStep(OthersIn \cup LauncherIn, OthersIn) /\ UNCHANGED <<ppc, ypc>>
    BY <1>1 DEF LauncherDelete, processes
  <2>2. stack # <<>>
    BY <2>1 DEF DeleteStep, DeleteSubdirectory, DeleteFile, CannotDelete, RemoveDirectory, CannotRemove
  <2>3. IF stack' = <<>> THEN Gone' ELSE hindered' \/ Levels(Paths', stack')
    BY <2>1, <2>2, DeletionCovers DEF DInv, TypeOK
  <2> QED
    BY <2>1, <2>3 DEF DInv
<1>2. CASE LauncherWaited
  <2>1. ppc' = "delete" /\ ypc' = "over"
    BY <1>2 DEF LauncherWaited
  <2>2. IF stack' = <<>> THEN Gone' ELSE hindered' \/ Levels(Paths', stack')
    BY <1>2, DeletionStarts
  <2> QED
    BY <2>1, <2>2 DEF DInv
<1>3. CASE LauncherEnd
  <2>1. ppc = "delete" /\ ppc' = "over" /\ stack = <<>> /\ ypc' = ypc /\ UNCHANGED <<tree, hindered>>
    BY <1>3 DEF LauncherEnd, Returned, deleteVars
  <2>2. Gone'
    BY <2>1, GoneStays DEF DInv
  <2> QED
    BY <2>1, <2>2 DEF DInv
<1>4. ASSUME ppc # "none", UNCHANGED <<tree, deleteVars, ppc>>,
             ypc' = ypc \/ (ppc = "wait" /\ ypc' # "none")
      PROVE  DInv'
  <2>1. Paths' = Paths /\ (Gone => Gone')
    BY <1>4, GoneStays DEF Paths, deleteVars
  <2> QED
    BY <1>4, <2>1 DEF DInv, deleteVars
<1>5. ASSUME ppc \in {"none", "create", "box"}, ypc' = ypc, ppc' # "delete"
      PROVE  DInv'
    BY <1>5 DEF DInv
<1>6. CASE Header_
  <2>1. UNCHANGED <<ypc, deleteVars>>
    BY <1>6 DEF Header_, HeaderStart, HeaderUnpack, HeaderUnpacked, HeaderCannotUnpack, HeaderCopy,
       HeaderCreate, HeaderEnd, processes
  <2>2. CASE ppc = "none"
    <3>1. ppc' # "delete"
      BY <1>6, <2>2 DEF Header_, HeaderStart, HeaderUnpack, HeaderUnpacked, HeaderCannotUnpack, HeaderCopy,
         HeaderCreate, HeaderEnd, processes
    <3> QED
      BY <1>5, <2>1, <2>2, <3>1
  <2>3. CASE ppc # "none"
    <3>1. HeaderEnd
      BY <1>6, <2>3 DEF Header_, HeaderStart, HeaderUnpack, HeaderUnpacked, HeaderCannotUnpack, HeaderCopy,
         HeaderCreate, LInv
    <3> QED
      BY <1>4, <2>1, <2>3, <3>1 DEF HeaderEnd
  <2> QED
    BY <2>2, <2>3
<1>7. CASE LauncherCreate
  <2>1. ppc = "create" /\ UNCHANGED <<tree, deleteVars>>
    BY <1>7 DEF LauncherCreate
  <2>2. \/ ppc' = "wait" /\ ypc' = "load"
        \/ ppc' = "box" /\ UNCHANGED ypc
    BY <1>7 DEF LauncherCreate
  <2> QED
    BY <2>1, <2>2 DEF DInv
<1>8. CASE PyrunLoad \/ PythonStartsProgram \/ PythonEnds \/ ProgramEnds
  <2>1. UNCHANGED <<tree, deleteVars, ppc>>
    BY <1>8 DEF PyrunLoad, PythonStartsProgram, PythonEnds, ProgramEnds
  <2>2. ypc' = ypc \/ (ypc \in {"load", "python"} /\ ypc' # "none")
    BY <1>8 DEF PyrunLoad, PythonStartsProgram, PythonEnds, ProgramEnds
  <2>3. CASE ppc = "none"
    BY <1>5, <2>1, <2>2, <2>3 DEF DInv
  <2>4. CASE ppc # "none"
    BY <1>4, <2>1, <2>2, <2>4 DEF DInv
  <2> QED
    BY <2>3, <2>4
<1>9. CASE CloseBox
  <2>1. UNCHANGED <<tree, deleteVars>>
    BY <1>9 DEF CloseBox
  <2>2. CASE hpc = "box" /\ UNCHANGED <<ppc, ypc>>
    BY <1>4, <1>5, <2>1, <2>2
  <2>3. CASE ppc = "box" /\ ppc' = "over" /\ UNCHANGED <<hpc, ypc>>
    BY <1>5, <2>1, <2>3
  <2>4. CASE ypc = "box" /\ ypc' = "over" /\ UNCHANGED <<hpc, ppc>>
    BY <1>4, <2>1, <2>4 DEF DInv
  <2> QED
    BY <1>9, <2>2, <2>3, <2>4 DEF CloseBox
<1>10. CASE UNCHANGED lvars
  <2>1. UNCHANGED <<tree, deleteVars, ppc, ypc>>
    BY <1>10 DEF lvars, processes
  <2> QED
    BY <1>4, <1>5, <2>1
<1> QED
    BY <1>1, <1>2, <1>3, <1>6, <1>7, <1>8, <1>9, <1>10 DEF Next, Launcher_

\* The recursion leaves nothing of targetdir that it did not skip, unless a call
\* failed: the strengthening says what each level has still to delete.
THEOREM DeletionInvariant == Spec => [](Sound /\ DInv)
<1>1. Init => DInv
    BY DEF Init, DInv
<1> QED
    BY <1>1, SoundStarts, SoundStays, DStays, RecursionStaysInside, LauncherTypes, PTL DEF Spec

\* targetdir outlives pylauncher only when a call failed or a name begins with
\* a dot (LeftoverOnlyIfHindered).
THEOREM NothingIsLeftOver == Spec => []LeftoverOnlyIfHindered
<1>1. DInv => LeftoverOnlyIfHindered
    BY DEF DInv, Gone, DotLeft, LeftoverOnlyIfHindered
<1> QED
    BY <1>1, DeletionInvariant, PTL

-----------------------------------------------------------------------------
(* The directories of the archive                                           *)

\* First the items of the blocks, none of them a directory, then the others in
\* the compressor's order.
Ordered(a, e) ==
    LET flat == FlattenSeq(a.blocks)
    IN  /\ flat \in Seq(Item) /\ Len(flat) \in Nat \ {0} /\ e \in Seq(Item) /\ Len(e) \in Nat
        /\ NumFiles(archive) = Len(flat) + Len(e) /\ NumFiles(archive) \in Nat
        /\ \A i \in 1 .. NumFiles(archive) :
               Items(archive)[i] = IF i <= Len(flat) THEN flat[i] ELSE e[i - Len(flat)]
        /\ \A i \in 1 .. Len(flat) : ~flat[i].dir /\ flat[i].name # <<>>
        /\ \A k \in 1 .. Len(e) : e[k] \in a.empty
        /\ \A d \in a.empty : \E k \in 1 .. Len(e) : e[k] = d
        /\ \A j, k \in 1 .. Len(e) : j < k => ~SortsBefore(e[k], e[j])

LEMMA InOrder ==
    ASSUME NEW a \in Archives, NEW e \in Sorted(a.empty), archive = [blocks |-> a.blocks, empty |-> e]
    PROVE  Ordered(a, e)
<1> DEFINE flat == FlattenSeq(a.blocks)
           n == Cardinality(a.empty)
<1>1. /\ a.blocks \in Seq(Seq(Item)) /\ a.empty \subseteq Item /\ n \in Nat /\ IsFiniteSet(a.empty)
      /\ \A b \in DOMAIN a.blocks : \A k \in DOMAIN a.blocks[b] :
             ~a.blocks[b][k].dir /\ a.blocks[b][k].name # <<>>
      /\ flat # <<>>
    BY ArchivesAssumption, FS_CardinalityType
<1>2. PICK off : /\ Offsets(off, a.blocks) /\ Len(flat) = off[Len(a.blocks)]
                 /\ \A b \in 1 .. Len(a.blocks) : \A k \in 1 .. Len(a.blocks[b]) :
                        /\ off[b - 1] + k \in 1 .. off[Len(a.blocks)]
                        /\ flat[off[b - 1] + k] = a.blocks[b][k]
    BY <1>1, FlatPlaces
<1>3. flat \in Seq(Item)
    BY <1>1, FlatPlaces
<1>4. ASSUME NEW i \in 1 .. Len(flat)
      PROVE  ~flat[i].dir /\ flat[i].name # <<>>
  <2>1. i \in 1 .. off[Len(a.blocks)]
    BY <1>2
  <2>2. PICK b \in 1 .. Len(a.blocks) : \E k \in 1 .. Len(a.blocks[b]) : i = off[b - 1] + k
    <3> DEFINE bs == a.blocks
    <3>1. bs \in Seq(Seq(Item)) /\ Offsets(off, bs) /\ i \in 1 .. off[Len(bs)]
      BY <1>1, <1>2, <2>1
    <3> HIDE DEF bs
    <3>2. \E b \in 1 .. Len(bs) : \E k \in 1 .. Len(bs[b]) : i = off[b - 1] + k
      BY <3>1, OffsetOf
    <3> QED
      BY <3>2 DEF bs
  <2>3. PICK k \in 1 .. Len(a.blocks[b]) : i = off[b - 1] + k
    BY <2>2
  <2>4. flat[i] = a.blocks[b][k]
    BY <1>2, <2>3
  <2>5. b \in DOMAIN a.blocks
    BY <1>1, LenProperties
  <2>6. a.blocks[b] \in Seq(Item)
    BY <1>1, ElementOfSeq
  <2>7. k \in DOMAIN a.blocks[b]
    BY <2>6, LenProperties
  <2> QED
    BY <1>1, <2>4, <2>5, <2>7
<1>5. Len(flat) \in Nat \ {0}
  <2> HIDE DEF flat
  <2> QED
    BY <1>1, <1>3, NonEmpty
<1> HIDE DEF flat
<1>6. /\ e \in [1 .. n -> a.empty]
      /\ \A i, j \in 1 .. n : i # j => e[i] # e[j]
      /\ \A i, j \in DOMAIN e : i < j => ~SortsBefore(e[j], e[i])
    BY DEF Sorted, SetToSeqs, n
<1>7. \A d \in a.empty : \E k \in 1 .. n : e[k] = d
  <2>1. e \in Injection(1 .. n, a.empty)
    BY <1>6, Fun_IsInj
  <2>2. Cardinality(1 .. n) = n
    <3>1. 1 \in Int /\ n \in Int
      BY <1>1
    <3>2. Cardinality(1 .. n) = IF 1 > n THEN 0 ELSE n - 1 + 1
      BY <3>1, FS_Interval
    <3> QED
      BY <1>1, <3>2
  <2>3. e \in Surjection(1 .. n, a.empty)
    BY <1>1, <2>1, <2>2, FS_Injection DEF n
  <2> QED
    BY <2>3 DEF Surjection
<1> HIDE DEF n
<1>8. e \in Seq(Item) /\ Len(e) = n /\ DOMAIN e = 1 .. n
    BY <1>1, <1>6
<1>9. Items(archive) = flat \o e
    BY DEF Items, flat
<1>10. /\ Len(flat \o e) = Len(flat) + Len(e)
       /\ \A i \in 1 .. (Len(flat) + Len(e)) :
              (flat \o e)[i] = IF i <= Len(flat) THEN flat[i] ELSE e[i - Len(flat)]
    BY <1>3, <1>8, ConcatProperties
<1>11. NumFiles(archive) = Len(flat) + Len(e)
    BY <1>9, <1>10 DEF NumFiles
<1>12. NumFiles(archive) \in Nat /\ Len(e) \in Nat
    BY <1>1, <1>5, <1>8, <1>11
<1>13. \A k \in 1 .. Len(e) : e[k] \in a.empty
    BY <1>6, <1>8
<1>14. \A d \in a.empty : \E k \in 1 .. Len(e) : e[k] = d
    BY <1>7, <1>8
<1>15. \A j, k \in 1 .. Len(e) : j < k => ~SortsBefore(e[k], e[j])
    BY <1>6, <1>8
<1>16. \A i \in 1 .. NumFiles(archive) :
           Items(archive)[i] = IF i <= Len(flat) THEN flat[i] ELSE e[i - Len(flat)]
    BY <1>9, <1>10, <1>11
<1> QED
    BY <1>3, <1>4, <1>5, <1>8, <1>11, <1>12, <1>13, <1>14, <1>15, <1>16 DEF Ordered, flat

\* A sequence without its last element begins it.
LEMMA FrontIsPrefix ==
    ASSUME NEW S, NEW t \in Seq(S), t # <<>>
    PROVE  IsStrictPrefix(Front(t), t) /\ Front(t) \in Seq(S)
<1>1. /\ Len(Front(t)) = Len(t) - 1 /\ Len(t) \in Nat \ {0} /\ Front(t) \in Seq(S)
      /\ \A k \in 1 .. Len(t) - 1 : Front(t)[k] = t[k]
    BY AllButLast
<1> DEFINE f == Front(t)
           m == Len(t) - 1
<1>2. m \in Nat /\ m < Len(t) /\ 1 \in Int /\ m \in Int /\ Len(f) = m
    BY <1>1
<1>3. \A i \in 1 .. m : f[i] \in S /\ t[i] \in S /\ f[i] = t[i]
  <2>1. \A i \in 1 .. Len(t) : t[i] \in S
    BY ElementOfSeq
  <2> QED
    BY <1>1, <2>1
<1> HIDE DEF f, m
<1>4. /\ SubSeq(f, 1, m) \in Seq(S) /\ SubSeq(t, 1, m) \in Seq(S)
      /\ Len(SubSeq(f, 1, m)) = Len(SubSeq(t, 1, m))
      /\ \A i \in 1 .. m - 1 + 1 : SubSeq(f, 1, m)[i] = f[1 + i - 1] /\ SubSeq(t, 1, m)[i] = t[1 + i - 1]
    BY <1>2, <1>3, SubSeqProperties
<1>5. Len(SubSeq(f, 1, m)) = m
  <2>1. Len(SubSeq(f, 1, m)) = IF 1 <= m THEN m - 1 + 1 ELSE 0
    BY <1>2, <1>3, SubSeqProperties
  <2> QED
    BY <1>2, <2>1
<1>6. \A i \in 1 .. m : SubSeq(f, 1, m)[i] = SubSeq(t, 1, m)[i]
  <2> SUFFICES ASSUME NEW i \in 1 .. m
               PROVE  SubSeq(f, 1, m)[i] = SubSeq(t, 1, m)[i]
    OBVIOUS
  <2>1. i \in 1 .. m - 1 + 1 /\ 1 + i - 1 = i
    BY <1>2
  <2>2. SubSeq(f, 1, m)[i] = f[1 + i - 1] /\ SubSeq(t, 1, m)[i] = t[1 + i - 1]
    BY <1>4, <2>1
  <2>3. f[i] = t[i]
    BY <1>3
  <2> QED
    BY <2>1, <2>2, <2>3
<1>7. SubSeq(f, 1, m) = SubSeq(t, 1, m)
    BY <1>4, <1>5, <1>6, SeqEqual
<1>8. f # t
    BY <1>1, <1>2 DEF f
<1>9. IsStrictPrefix(f, t)
    BY <1>2, <1>7, <1>8 DEF IsStrictPrefix, IsPrefix
<1> QED
    BY <1>1, <1>9 DEF f

-----------------------------------------------------------------------------
(* Sums and selections                                                      *)

\* f sums up s.
Sums(f, s) == f \in [0 .. Len(s) -> Nat] /\ f[0] = 0 /\ \A i \in 1 .. Len(s) : f[i] = f[i - 1] + s[i]

LEMMA SumsExist ==
    ASSUME NEW s \in Seq(Nat)
    PROVE  \E f : Sums(f, s)
<1> DEFINE n == Len(s)
           op == [x \in Nat \X (1 .. n) |-> x[1] + s[x[2]]]
<1>1. n \in Nat /\ \A i \in 1 .. n : s[i] \in Nat
    BY LenProperties, ElementOfSeq
<1>2. ASSUME NEW i \in 0 + 1 .. n, NEW v \in Nat
      PROVE  op[<<v, i>>] = v + s[i] /\ op[<<v, i>>] \in Nat
  <2>1. i \in 1 .. n /\ s[i] \in Nat
    BY <1>1
  <2>2. op[<<v, i>>] = v + s[i]
    BY <2>1
  <2>3. v + s[i] \in Nat
    BY <2>1
  <2> QED
    BY <2>2, <2>3
<1> HIDE DEF op, n
<1>3. StaysIn(op, Nat, 0, n)
    BY <1>2 DEF StaysIn
<1>4. PICK f : Recurs(f, op, 0, Nat, 0, n)
  <2>1. 0 \in Nat /\ 0 <= n
    BY <1>1
  <2> QED
    BY <1>1, <1>3, <2>1, Recursion
<1>5. \A i \in 1 .. n : f[i] = f[i - 1] + s[i]
  <2> SUFFICES ASSUME NEW i \in 1 .. n
               PROVE  f[i] = f[i - 1] + s[i]
    OBVIOUS
  <2>1. i \in 0 + 1 .. n /\ i - 1 \in 0 .. n
    BY <1>1
  <2>2. f[i - 1] \in Nat /\ f[i] = op[<<f[i - 1], i>>]
    BY <1>4, <2>1 DEF Recurs
  <2> QED
    BY <1>2, <2>1, <2>2
<1> QED
    BY <1>4, <1>5 DEF Sums, Recurs, n

LEMMA TotalBy ==
    ASSUME NEW s \in Seq(Nat), NEW f, Sums(f, s)
    PROVE  Total(s) = f[Len(s)] /\ Total(s) \in Nat
<1> DEFINE n == Len(s)
           sum[i \in 0 .. n] == IF i = 0 THEN 0 ELSE sum[i - 1] + s[i]
<1>1. n \in Nat
    BY LenProperties
<1>2. Total(s) = sum[n]
    BY DEF Total
<1> HIDE DEF n
<1>3. f = [i \in 0 .. n |-> IF i = 0 THEN 0 ELSE f[i - 1] + s[i]]
  <2>1. f \in [0 .. n -> Nat]
    BY DEF Sums, n
  <2>2. \A i \in 0 .. n : f[i] = IF i = 0 THEN 0 ELSE f[i - 1] + s[i]
    BY <1>1 DEF Sums, n
  <2> QED
    BY <2>1, <2>2
<1>4. sum = [i \in 0 .. n |-> IF i = 0 THEN 0 ELSE sum[i - 1] + s[i]]
    BY <1>3
<1> HIDE DEF sum
<1>5. \A i \in 0 .. n : sum[i] = f[i]
  <2>1. sum[0] = f[0]
    BY <1>1, <1>4 DEF Sums
  <2>2. ASSUME NEW i \in 0 + 1 .. n, sum[i - 1] = f[i - 1]
        PROVE  sum[i] = f[i]
    <3>1. i \in 1 .. n /\ i \in 0 .. n /\ i # 0
      BY <1>1
    <3>2. sum[i] = sum[i - 1] + s[i]
      BY <1>4, <3>1
    <3>3. f[i] = f[i - 1] + s[i]
      BY <3>1 DEF Sums, n
    <3> QED
      BY <2>2, <3>2, <3>3
  <2>3. Agree(sum, f, 0, n)
    BY <2>1, <2>2 DEF Agree
  <2> QED
    BY <1>1, <2>3, SameSteps
<1> QED
    BY <1>1, <1>2, <1>5 DEF Sums, n

\* t is s with one more number.
LEMMA TotalOfMore ==
    ASSUME NEW s \in Seq(Nat), NEW t \in Seq(Nat), Len(t) = Len(s) + 1,
           \A i \in 1 .. Len(s) : t[i] = s[i]
    PROVE  Total(t) = Total(s) + t[Len(t)]
<1>1. PICK f : Sums(f, t)
    BY SumsExist
<1>2. Len(s) \in Nat /\ Len(t) \in 1 .. Len(t) /\ Len(t) - 1 = Len(s)
  <2>1. Len(s) \in Nat
    BY LenProperties
  <2> QED
    BY <2>1
<1>3. Total(t) = f[Len(t)] /\ f[Len(t)] = f[Len(s)] + t[Len(t)]
    BY <1>1, <1>2, TotalBy DEF Sums
<1> DEFINE g == [i \in 0 .. Len(s) |-> f[i]]
<1>4. Sums(g, s)
  <2>1. g \in [0 .. Len(s) -> Nat] /\ g[0] = 0
    BY <1>1, <1>2 DEF Sums
  <2>2. ASSUME NEW i \in 1 .. Len(s)
        PROVE  g[i] = g[i - 1] + s[i]
    <3>1. i \in 1 .. Len(t) /\ i \in 0 .. Len(s) /\ i - 1 \in 0 .. Len(s)
      BY <1>2
    <3>2. f[i] = f[i - 1] + t[i] /\ t[i] = s[i]
      BY <1>1, <3>1 DEF Sums
    <3> QED
      BY <3>1, <3>2
  <2> HIDE DEF g
  <2> QED
    BY <2>1, <2>2 DEF Sums
<1>5. Total(s) = g[Len(s)]
  <2> HIDE DEF g
  <2> QED
    BY <1>4, TotalBy
<1>6. g[Len(s)] = f[Len(s)]
    BY <1>2
<1> QED
    BY <1>3, <1>5, <1>6

LEMMA TotalOfNone == Total(<<>>) = 0
<1>1. <<>> \in Seq(Nat) /\ Len(<<>>) = 0
    BY EmptySeq
<1>2. PICK f : Sums(f, <<>>)
    BY <1>1, SumsExist
<1> QED
    BY <1>1, <1>2, TotalBy DEF Sums

-----------------------------------------------------------------------------

\* How many of the first items have a stream, or have none.
Counts(n, s, stream) ==
    /\ n \in [0 .. Len(s) -> Nat] /\ n[0] = 0
    /\ \A i \in 1 .. Len(s) : n[i] = IF HasStream(s[i]) = stream THEN n[i - 1] + 1 ELSE n[i - 1]

\* Those(s, stream) holds them, in the order of s.
Selects(t, n, s, stream) ==
    /\ Counts(n, s, stream)
    /\ t \in Seq(Item) /\ Len(t) = n[Len(s)]
    /\ \A i \in 1 .. Len(s) : HasStream(s[i]) = stream => n[i] \in 1 .. Len(t) /\ t[n[i]] = s[i]
    /\ \A k \in 1 .. Len(t) : HasStream(t[k]) = stream

\* f selects from more and more of s.
Selecting(f, s, stream) ==
    /\ f \in [0 .. Len(s) -> Seq(Item)] /\ f[0] = <<>>
    /\ \A i \in 1 .. Len(s) :
           f[i] = IF HasStream(s[i]) = stream THEN Append(f[i - 1], s[i]) ELSE f[i - 1]

LEMMA ThoseBy ==
    ASSUME NEW s \in Seq(Item), NEW stream \in BOOLEAN
    PROVE  \E f : Selecting(f, s, stream) /\ Those(s, stream) = f[Len(s)]
<1> DEFINE n == Len(s)
           V == Seq(Item)
           op == [x \in V \X (1 .. n) |->
                     IF HasStream(s[x[2]]) = stream THEN Append(x[1], s[x[2]]) ELSE x[1]]
           those[i \in 0 .. n] ==
               IF i = 0 THEN <<>>
               ELSE IF HasStream(s[i]) = stream THEN Append(those[i - 1], s[i])
               ELSE those[i - 1]
<1>1. n \in Nat /\ \A i \in 1 .. n : s[i] \in Item
    BY LenProperties, ElementOfSeq
<1>2. Those(s, stream) = those[n]
    BY DEF Those
<1>3. ASSUME NEW i \in 0 + 1 .. n, NEW v \in V
      PROVE  /\ op[<<v, i>>] = IF HasStream(s[i]) = stream THEN Append(v, s[i]) ELSE v
             /\ op[<<v, i>>] \in V
  <2>1. i \in 1 .. n /\ s[i] \in Item
    BY <1>1
  <2>2. op[<<v, i>>] = IF HasStream(s[i]) = stream THEN Append(v, s[i]) ELSE v
    BY <2>1
  <2>3. Append(v, s[i]) \in V
    BY <2>1, AppendProperties
  <2> HIDE DEF V, op
  <2> QED
    BY <2>2, <2>3
<1>4. <<>> \in V
    BY EmptySeq
<1> HIDE DEF n, op, V
<1>5. StaysIn(op, V, 0, n)
    BY <1>3 DEF StaysIn
<1>6. PICK f : Recurs(f, op, <<>>, V, 0, n)
  <2>1. 0 \in Nat /\ 0 <= n
    BY <1>1
  <2> QED
    BY <1>1, <1>4, <1>5, <2>1, Recursion
<1>7. \A i \in 1 .. n : f[i] = IF HasStream(s[i]) = stream THEN Append(f[i - 1], s[i]) ELSE f[i - 1]
  <2> SUFFICES ASSUME NEW i \in 1 .. n
               PROVE  f[i] = IF HasStream(s[i]) = stream THEN Append(f[i - 1], s[i]) ELSE f[i - 1]
    OBVIOUS
  <2>1. i \in 0 + 1 .. n /\ i - 1 \in 0 .. n
    BY <1>1
  <2>2. f[i - 1] \in V /\ f[i] = op[<<f[i - 1], i>>]
    BY <1>6, <2>1 DEF Recurs
  <2> QED
    BY <1>3, <2>1, <2>2
<1>8. f = [i \in 0 .. n |-> IF i = 0 THEN <<>>
                             ELSE IF HasStream(s[i]) = stream THEN Append(f[i - 1], s[i])
                             ELSE f[i - 1]]
  <2>1. f \in [0 .. n -> V] /\ f[0] = <<>>
    BY <1>6 DEF Recurs
  <2>2. \A i \in 0 .. n : i # 0 => i \in 1 .. n
    BY <1>1
  <2> QED
    BY <1>7, <2>1, <2>2
<1>9. those = [i \in 0 .. n |-> IF i = 0 THEN <<>>
                                 ELSE IF HasStream(s[i]) = stream THEN Append(those[i - 1], s[i])
                                 ELSE those[i - 1]]
    BY <1>8, Zenon
<1> HIDE DEF those
<1>10. \A i \in 0 .. n : those[i] = f[i]
  <2>1. those[0] = f[0]
    BY <1>1, <1>6, <1>9 DEF Recurs
  <2>2. ASSUME NEW i \in 0 + 1 .. n, those[i - 1] = f[i - 1]
        PROVE  those[i] = f[i]
    <3>1. i \in 1 .. n /\ i \in 0 .. n /\ i # 0
      BY <1>1
    <3>2. those[i] = IF HasStream(s[i]) = stream THEN Append(those[i - 1], s[i]) ELSE those[i - 1]
      BY <1>9, <3>1
    <3> QED
      BY <1>7, <2>2, <3>1, <3>2
  <2>3. Agree(those, f, 0, n)
    BY <2>1, <2>2 DEF Agree
  <2> QED
    BY <1>1, <2>3, SameSteps
<1>11. Those(s, stream) = f[n]
    BY <1>1, <1>2, <1>10
<1>12. Selecting(f, s, stream)
    BY <1>6, <1>7 DEF Selecting, Recurs, n, V
<1> QED
    BY <1>11, <1>12 DEF n

\* What has been selected from the first i items.
Selected(t, n, s, stream, i) ==
    /\ \A j \in 1 .. i : HasStream(s[j]) = stream => n[j] \in 1 .. Len(t) /\ t[n[j]] = s[j]
    /\ \A k \in 1 .. Len(t) : HasStream(t[k]) = stream

LEMMA SelectOne ==
    ASSUME NEW s \in Seq(Item), NEW stream \in BOOLEAN, NEW f, Selecting(f, s, stream),
           NEW i \in 1 .. Len(s)
    PROVE  LET n == [j \in 0 .. Len(s) |-> Len(f[j])]
           IN  /\ n[i - 1] \in Nat
               /\ n[i] = IF HasStream(s[i]) = stream THEN n[i - 1] + 1 ELSE n[i - 1]
               /\ Selected(f[i - 1], n, s, stream, i - 1) => Selected(f[i], n, s, stream, i)
<1> DEFINE n == [j \in 0 .. Len(s) |-> Len(f[j])]
<1>1. Len(s) \in Nat /\ s[i] \in Item /\ i \in 0 .. Len(s) /\ i - 1 \in 0 .. Len(s) /\ i \in Nat
  <2>1. Len(s) \in Nat /\ s[i] \in Item
    BY LenProperties, ElementOfSeq
  <2> QED
    BY <2>1
<1>2. f[i - 1] \in Seq(Item) /\ n[i - 1] = Len(f[i - 1]) /\ n[i] = Len(f[i]) /\ n[i - 1] \in Nat
    BY <1>1, LenProperties DEF Selecting
<1>3. f[i] = IF HasStream(s[i]) = stream THEN Append(f[i - 1], s[i]) ELSE f[i - 1]
    BY DEF Selecting
<1> HIDE DEF n
<1>4. CASE HasStream(s[i]) = stream
  <2> DEFINE t == f[i - 1]
             u == Append(t, s[i])
  <2>1. /\ u \in Seq(Item) /\ Len(u) = Len(t) + 1 /\ u[Len(t) + 1] = s[i]
        /\ \A k \in 1 .. Len(t) : u[k] = t[k]
    BY <1>1, <1>2, AppendProperties
  <2>2. f[i] = u /\ n[i] = n[i - 1] + 1 /\ Len(t) = n[i - 1] /\ Len(t) \in Nat
    BY <1>2, <1>3, <1>4, <2>1
  <2> HIDE DEF t, u
  <2>3. ASSUME Selected(t, n, s, stream, i - 1)
        PROVE  Selected(u, n, s, stream, i)
    <3>1. ASSUME NEW j \in 1 .. i, HasStream(s[j]) = stream
          PROVE  n[j] \in 1 .. Len(u) /\ u[n[j]] = s[j]
      <4>1. CASE j = i
        BY <2>1, <2>2, <4>1
      <4>2. CASE j # i
        <5>1. j \in 1 .. i - 1
          BY <1>1, <4>2
        <5>2. n[j] \in 1 .. Len(t) /\ t[n[j]] = s[j]
          BY <2>3, <3>1, <5>1 DEF Selected
        <5> QED
          BY <2>1, <2>2, <5>2
      <4> QED
        BY <4>1, <4>2
    <3>2. ASSUME NEW k \in 1 .. Len(u)
          PROVE  HasStream(u[k]) = stream
      <4>1. k = Len(t) + 1 \/ k \in 1 .. Len(t)
        BY <2>1, <2>2
      <4> QED
        BY <1>4, <2>1, <2>3, <4>1 DEF Selected
    <3> QED
      BY <3>1, <3>2 DEF Selected
  <2> QED
    BY <1>2, <1>4, <2>2, <2>3 DEF t, n
<1>5. CASE HasStream(s[i]) # stream
  <2>1. f[i] = f[i - 1] /\ n[i] = n[i - 1]
    BY <1>2, <1>3, <1>5
  <2>2. ASSUME Selected(f[i - 1], n, s, stream, i - 1)
        PROVE  Selected(f[i - 1], n, s, stream, i)
    <3>1. \A j \in 1 .. i : HasStream(s[j]) = stream => j \in 1 .. i - 1
      BY <1>1, <1>5
    <3> QED
      BY <2>2, <3>1 DEF Selected
  <2> QED
    BY <1>2, <1>5, <2>1, <2>2 DEF n
<1> QED
    BY <1>4, <1>5

LEMMA ThoseSelects ==
    ASSUME NEW s \in Seq(Item), NEW stream \in BOOLEAN
    PROVE  \E n : Selects(Those(s, stream), n, s, stream)
<1>1. PICK f : Selecting(f, s, stream) /\ Those(s, stream) = f[Len(s)]
    BY ThoseBy
<1> DEFINE n == [j \in 0 .. Len(s) |-> Len(f[j])]
           P == {i \in Nat : i <= Len(s) => Selected(f[i], n, s, stream, i)}
<1>2. Len(s) \in Nat
    BY LenProperties
<1>3. \A i \in 0 .. Len(s) : f[i] \in Seq(Item) /\ n[i] = Len(f[i]) /\ n[i] \in Nat
    BY <1>1, LenProperties DEF Selecting
<1>4. f[0] = <<>> /\ n[0] = 0
  <2>1. f[0] = <<>> /\ 0 \in 0 .. Len(s)
    BY <1>1, <1>2 DEF Selecting
  <2> QED
    BY <1>3, <2>1, EmptySeq
<1> HIDE DEF n
<1>5. \A i \in 1 .. Len(s) :
          /\ n[i] = IF HasStream(s[i]) = stream THEN n[i - 1] + 1 ELSE n[i - 1]
          /\ Selected(f[i - 1], n, s, stream, i - 1) => Selected(f[i], n, s, stream, i)
    BY <1>1, SelectOne DEF n
<1>6. 0 \in P
    BY <1>4, EmptySeq DEF Selected
<1>7. ASSUME NEW m \in Nat, 0 <= m, m \in P
      PROVE  m + 1 \in P
  <2> SUFFICES ASSUME m + 1 <= Len(s)
               PROVE  Selected(f[m + 1], n, s, stream, m + 1)
    OBVIOUS
  <2>1. m + 1 \in 1 .. Len(s) /\ (m + 1) - 1 = m /\ m <= Len(s)
    BY <1>2
  <2>2. Selected(f[m], n, s, stream, m)
    BY <1>7, <2>1
  <2> QED
    BY <1>5, <2>1, <2>2
<1>8. Selected(f[Len(s)], n, s, stream, Len(s))
  <2> HIDE DEF P
  <2>1. 0 \in Nat
    OBVIOUS
  <2>2. Len(s) \in P
    BY <1>2, <1>6, <1>7, <2>1, Counting
  <2> QED
    BY <1>2, <2>2 DEF P
<1>9. n = [j \in 0 .. Len(s) |-> n[j]]
    BY DEF n
<1>10. n \in [0 .. Len(s) -> Nat]
    BY <1>3, <1>9
<1>11. Counts(n, s, stream)
    BY <1>4, <1>5, <1>10 DEF Counts
<1>12. Len(s) \in 0 .. Len(s)
    BY <1>2
<1> QED
    BY <1>1, <1>3, <1>8, <1>11, <1>12 DEF Selects, Selected

LEMMA CountToIs ==
    ASSUME NEW s \in Seq(Item), NEW flags, flags = [i \in DOMAIN s |-> ~HasStream(s[i])],
           NEW n, Counts(n, s, FALSE)
    PROVE  \A i \in 0 .. Len(s) : CountTo(flags, i) = n[i]
<1>1. Len(s) \in Nat /\ DOMAIN s = 1 .. Len(s)
    BY LenProperties
<1> DEFINE c == [i \in 0 .. Len(s) |-> CountTo(flags, i)]
           T(i) == {j \in 1 .. i : flags[j]}
<1>2. c[0] = n[0]
  <2>1. T(0) = {}
    OBVIOUS
  <2>2. c[0] = Cardinality(T(0))
    BY <1>1 DEF CountTo
  <2> QED
    BY <2>1, <2>2, FS_EmptySet DEF Counts
<1>3. ASSUME NEW i \in 0 + 1 .. Len(s), c[i - 1] = n[i - 1]
      PROVE  c[i] = n[i]
  <2>1. i \in 1 .. Len(s) /\ i \in Nat /\ i - 1 \in Nat /\ i \in 0 .. Len(s) /\ i - 1 \in 0 .. Len(s)
    BY <1>1
  <2>2. c[i] = Cardinality(T(i)) /\ c[i - 1] = Cardinality(T(i - 1))
    BY <2>1 DEF CountTo
  <2>3. IsFiniteSet(T(i - 1)) /\ i \notin T(i - 1)
    <3>1. 1 \in Int /\ i - 1 \in Int
      BY <2>1
    <3>2. IsFiniteSet(1 .. i - 1)
      BY <3>1, FS_Interval
    <3>3. T(i - 1) \subseteq 1 .. i - 1 /\ i \notin 1 .. i - 1
      BY <2>1
    <3> HIDE DEF T
    <3>4. IsFiniteSet(T(i - 1))
      BY <3>2, <3>3, FS_Subset
    <3> QED
      BY <3>3, <3>4
  <2>4. CASE HasStream(s[i])
    <3>1. ~flags[i]
      BY <1>1, <2>1, <2>4
    <3>2. \A j : j \in 1 .. i <=> j \in 1 .. i - 1 \/ j = i
      BY <2>1
    <3>3. T(i) = T(i - 1)
      BY <3>1, <3>2
    <3>4. n[i] = n[i - 1]
      BY <2>1, <2>4 DEF Counts, HasStream
    <3> QED
      BY <1>3, <2>2, <3>3, <3>4
  <2>5. CASE ~HasStream(s[i])
    <3>1. flags[i]
      BY <1>1, <2>1, <2>5
    <3>2. \A j : j \in 1 .. i <=> j \in 1 .. i - 1 \/ j = i
      BY <2>1
    <3>3. T(i) = T(i - 1) \cup {i}
      BY <3>1, <3>2
    <3>4. n[i] = n[i - 1] + 1
      BY <2>1, <2>5 DEF Counts, HasStream
    <3>5. Cardinality(T(i)) = Cardinality(T(i - 1)) + 1
      <4> HIDE DEF T
      <4> QED
        BY <2>3, <3>3, FS_AddElement
    <3> QED
      BY <1>3, <2>2, <3>4, <3>5
  <2> QED
    BY <2>4, <2>5
<1> HIDE DEF c
<1>4. Agree(c, n, 0, Len(s))
    BY <1>2, <1>3 DEF Agree
<1>5. \A i \in 0 .. Len(s) : c[i] = n[i]
    BY <1>1, <1>4, SameSteps
<1> QED
    BY <1>5 DEF c

\* The decoder tells the directories from the files.
KindsAreKnown ==
    \A i \in 1 .. NumFiles(archive) : db.files[i].dir <=> Items(archive)[i].dir

LEMMA NoDirectoryInBlocks ==
    ASSUME LaidOut
    PROVE  \A i \in 1 .. NumFiles(archive) : HasStream(Items(archive)[i]) => ~Items(archive)[i].dir
<1>1. PICK a \in Archives : \E e \in Sorted(a.empty) : archive = [blocks |-> a.blocks, empty |-> e]
    BY DEF LaidOut
<1>2. PICK e \in Sorted(a.empty) : archive = [blocks |-> a.blocks, empty |-> e]
    BY <1>1
<1>3. Ordered(a, e)
    BY <1>2, InOrder
<1>4. \A d \in a.empty : d.size = 0
    BY ArchivesAssumption
<1> SUFFICES ASSUME NEW i \in 1 .. NumFiles(archive), HasStream(Items(archive)[i])
             PROVE  ~Items(archive)[i].dir
    OBVIOUS
<1> DEFINE flat == FlattenSeq(a.blocks)
<1>5. CASE i <= Len(flat)
  <2>1. Len(flat) \in Nat /\ Items(archive)[i] = flat[i] /\ i \in 1 .. Len(flat)
    BY <1>3, <1>5 DEF Ordered
  <2> QED
    BY <1>3, <2>1 DEF Ordered
<1>6. CASE ~(i <= Len(flat))
  <2>1. Items(archive)[i] = e[i - Len(flat)] /\ i - Len(flat) \in 1 .. Len(e)
    BY <1>3, <1>6 DEF Ordered
  <2>2. Items(archive)[i].size = 0
    BY <1>3, <1>4, <2>1 DEF Ordered
  <2> QED
    BY <2>2 DEF HasStream
<1> QED
    BY <1>5, <1>6

LEMMA KindsKnown ==
    ASSUME LaidOut, db = ReadHeader(Header(archive))
    PROVE  KindsAreKnown
<1> DEFINE s == Items(archive)
           h == Header(archive)
           empty == Those(s, FALSE)
<1>1. /\ s \in Seq(Item) /\ Len(s) = NumFiles(archive) /\ Len(s) \in Nat /\ DOMAIN s = 1 .. Len(s)
    BY NamesDiffer, LenProperties DEF NumFiles
<1>2. PICK n : Selects(empty, n, s, FALSE)
    BY <1>1, ThoseSelects
<1>3. /\ h.emptyStream = [i \in DOMAIN s |-> ~HasStream(s[i])]
      /\ h.emptyFile = [i \in DOMAIN empty |-> ~empty[i].dir]
    BY DEF Header
<1>4. db.files = Files(h)
    BY DEF ReadHeader
<1> SUFFICES ASSUME NEW i \in 1 .. NumFiles(archive)
             PROVE  db.files[i].dir <=> s[i].dir
    BY DEF KindsAreKnown
<1>5. /\ i \in DOMAIN h.emptyStream /\ h.emptyStream[i] = ~HasStream(s[i])
    BY <1>1, <1>3
<1>6. CASE HasStream(s[i])
  <2>1. Files(h)[i].dir = FALSE
    <3> HIDE DEF h
    <3> QED
      BY <1>5, <1>6 DEF Files
  <2> QED
    BY <1>4, <1>6, <2>1, NoDirectoryInBlocks
<1>7. CASE ~HasStream(s[i])
  <2>1. CountTo(h.emptyStream, i) = n[i]
    <3> DEFINE flags == h.emptyStream
    <3>1. flags = [j \in DOMAIN s |-> ~HasStream(s[j])]
      BY <1>3
    <3>2. Counts(n, s, FALSE) /\ i \in 0 .. Len(s)
      <4> HIDE DEF s, empty
      <4>1. Counts(n, s, FALSE)
        BY <1>2, Zenon DEF Selects
      <4>2. i \in 0 .. Len(s)
        BY <1>1
      <4> QED
        BY <4>1, <4>2
    <3> HIDE DEF flags, s
    <3>3. CountTo(flags, i) = n[i]
      BY <1>1, <3>1, <3>2, CountToIs
    <3> QED
      BY <3>3 DEF flags
  <2>2. n[i] \in 1 .. Len(empty) /\ empty[n[i]] = s[i] /\ empty \in Seq(Item)
    <3>1. HasStream(s[i]) = FALSE /\ i \in 1 .. Len(s)
      BY <1>1, <1>7 DEF HasStream
    <3> HIDE DEF s, empty
    <3> QED
      BY <1>2, <3>1 DEF Selects
  <2>3. n[i] \in DOMAIN empty
    BY <2>2, LenProperties
  <2>4. h.emptyFile[n[i]] = ~s[i].dir
    BY <1>3, <2>2, <2>3
  <2>5. Files(h)[i].dir = ~h.emptyFile[n[i]]
    <3> HIDE DEF h
    <3> QED
      BY <1>5, <1>7, <2>1 DEF Files
  <2>6. s[i] \in Item
    BY <1>1, ElementOfSeq
  <2>7. s[i].dir \in BOOLEAN
    BY <2>6 DEF Item
  <2> QED
    BY <1>4, <2>4, <2>5, <2>7
<1> QED
    BY <1>6, <1>7

-----------------------------------------------------------------------------
(* The directories the files are written into                               *)

LEMMA PrefixIs ==
    ASSUME NEW S, NEW s \in Seq(S), NEW t \in Seq(S)
    PROVE  IsPrefix(s, t) <=> Len(s) <= Len(t) /\ \A i \in 1 .. Len(s) : s[i] = t[i]
<1> DEFINE m == Len(s)
<1>1. m \in Nat /\ Len(t) \in Nat /\ 1 \in Int /\ m \in Int
    BY LenProperties
<1>2. \A i \in 1 .. m : s[i] \in S
    BY ElementOfSeq
<1> HIDE DEF m
<1>3. CASE m <= Len(t)
  <2>1. \A i \in 1 .. m : t[i] \in S
    <3>1. \A i \in 1 .. m : i \in 1 .. Len(t)
      BY <1>1, <1>3
    <3> QED
      BY <3>1, ElementOfSeq
  <2>2. /\ SubSeq(s, 1, m) \in Seq(S) /\ SubSeq(t, 1, m) \in Seq(S)
        /\ Len(SubSeq(s, 1, m)) = (IF 1 <= m THEN m - 1 + 1 ELSE 0)
        /\ Len(SubSeq(t, 1, m)) = (IF 1 <= m THEN m - 1 + 1 ELSE 0)
        /\ \A i \in 1 .. m - 1 + 1 : SubSeq(s, 1, m)[i] = s[1 + i - 1] /\ SubSeq(t, 1, m)[i] = t[1 + i - 1]
    BY <1>1, <1>2, <2>1, SubSeqProperties
  <2>3. Len(SubSeq(s, 1, m)) = m /\ Len(SubSeq(t, 1, m)) = m
    BY <1>1, <2>2
  <2>4. ASSUME NEW i \in 1 .. m
        PROVE  SubSeq(s, 1, m)[i] = s[i] /\ SubSeq(t, 1, m)[i] = t[i]
    <3>1. i \in 1 .. m - 1 + 1 /\ 1 + i - 1 = i
      BY <1>1
    <3>2. SubSeq(s, 1, m)[i] = s[1 + i - 1] /\ SubSeq(t, 1, m)[i] = t[1 + i - 1]
      BY <2>2, <3>1
    <3> QED
      BY <3>1, <3>2
  <2>5. SubSeq(s, 1, m) = SubSeq(t, 1, m) <=> \A i \in 1 .. m : s[i] = t[i]
    <3>1. ASSUME \A i \in 1 .. m : s[i] = t[i]
          PROVE  SubSeq(s, 1, m) = SubSeq(t, 1, m)
      <4>1. \A i \in 1 .. m : SubSeq(s, 1, m)[i] = SubSeq(t, 1, m)[i]
        BY <2>4, <3>1
      <4> QED
        BY <2>2, <2>3, <4>1, SeqEqual
    <3>2. ASSUME SubSeq(s, 1, m) = SubSeq(t, 1, m), NEW i \in 1 .. m
          PROVE  s[i] = t[i]
      BY <2>4, <3>2
    <3> QED
      BY <3>1, <3>2
  <2> QED
    BY <1>3, <2>5 DEF IsPrefix, m
<1>4. CASE ~(m <= Len(t))
    BY <1>4 DEF IsPrefix, m
<1> QED
    BY <1>3, <1>4

LEMMA PrefixOfItself ==
    ASSUME NEW S, NEW s \in Seq(S)
    PROVE  IsPrefix(s, s)
<1>1. Len(s) <= Len(s)
  <2>1. Len(s) \in Nat
    BY LenProperties
  <2> QED
    BY <2>1
<1> QED
    BY <1>1, PrefixIs

LEMMA PrefixOfFront ==
    ASSUME NEW S, NEW s \in Seq(S), NEW t \in Seq(S), t # <<>>, IsPrefix(s, Front(t))
    PROVE  IsPrefix(s, t)
<1>1. /\ Len(Front(t)) = Len(t) - 1 /\ Len(t) \in Nat \ {0} /\ Front(t) \in Seq(S)
      /\ \A k \in 1 .. Len(t) - 1 : Front(t)[k] = t[k]
    BY AllButLast
<1>2. Len(s) <= Len(Front(t)) /\ (\A i \in 1 .. Len(s) : s[i] = Front(t)[i])
    BY <1>1, PrefixIs
<1>3. Len(s) \in Nat
    BY LenProperties
<1>4. \A i \in 1 .. Len(s) : i \in 1 .. Len(t) - 1
    BY <1>1, <1>2, <1>3
<1>5. Len(s) <= Len(t) /\ \A i \in 1 .. Len(s) : s[i] = t[i]
    BY <1>1, <1>2, <1>3, <1>4
<1> QED
    BY <1>5, PrefixIs

LEMMA FrontOfJoined ==
    ASSUME NEW S, NEW s \in Seq(S), NEW t \in Seq(S), t # <<>>
    PROVE  /\ s \o t \in Seq(S) /\ Len(s \o t) = Len(s) + Len(t) /\ s \o t # <<>>
           /\ Front(s \o t) = IF Front(t) = <<>> THEN s ELSE s \o Front(t)
<1> DEFINE u == s \o t
<1>1. /\ Len(Front(t)) = Len(t) - 1 /\ Len(t) \in Nat \ {0} /\ Front(t) \in Seq(S)
      /\ \A k \in 1 .. Len(t) - 1 : Front(t)[k] = t[k]
    BY AllButLast
<1>2. /\ u \in Seq(S) /\ Len(u) = Len(s) + Len(t) /\ Len(s) \in Nat
      /\ \A i \in 1 .. Len(s) + Len(t) : u[i] = IF i <= Len(s) THEN s[i] ELSE t[i - Len(s)]
    BY ConcatProperties, LenProperties
<1> HIDE DEF u
<1>3. u # <<>>
  <2>1. Len(u) # 0
    BY <1>1, <1>2
  <2> QED
    BY <1>2, <2>1, EmptySeq
<1>4. /\ Len(Front(u)) = Len(u) - 1 /\ Front(u) \in Seq(S)
      /\ \A k \in 1 .. Len(u) - 1 : Front(u)[k] = u[k]
    BY <1>2, <1>3, AllButLast
<1> DEFINE v == s \o Front(t)
<1>5. /\ v \in Seq(S) /\ Len(v) = Len(s) + Len(Front(t))
      /\ \A i \in 1 .. Len(s) + Len(Front(t)) : v[i] = IF i <= Len(s) THEN s[i] ELSE Front(t)[i - Len(s)]
    BY <1>1, ConcatProperties
<1> HIDE DEF v
<1>6. Len(v) = Len(Front(u))
    BY <1>1, <1>2, <1>4, <1>5
<1>7. ASSUME NEW i \in 1 .. Len(v)
      PROVE  v[i] = Front(u)[i]
  <2>1. /\ i \in 1 .. Len(u) - 1 /\ i \in 1 .. Len(s) + Len(t) /\ i \in 1 .. Len(s) + Len(Front(t))
        /\ i > Len(s) => i - Len(s) \in 1 .. Len(t) - 1
    BY <1>1, <1>2, <1>5
  <2>2. Front(u)[i] = u[i]
    BY <1>4, <2>1
  <2>3. u[i] = IF i <= Len(s) THEN s[i] ELSE t[i - Len(s)]
    BY <1>2, <2>1
  <2>4. v[i] = IF i <= Len(s) THEN s[i] ELSE Front(t)[i - Len(s)]
    BY <1>5, <2>1
  <2>5. ~(i <= Len(s)) => i > Len(s)
    BY <1>2
  <2> QED
    BY <1>1, <2>1, <2>2, <2>3, <2>4, <2>5
<1>8. v = Front(u)
    BY <1>4, <1>5, <1>6, <1>7, SeqEqual
<1>9. Front(t) = <<>> => v = s
  <2> SUFFICES ASSUME Front(t) = <<>> PROVE s \o <<>> = s
    BY DEF v
  <2> QED
    BY ConcatEmptySeq
<1> QED
    BY <1>2, <1>3, <1>8, <1>9 DEF u, v

\* The directory a directory is in comes behind it, or is the current one.
LEMMA ParentComesLater ==
    ASSUME LaidOut, NEW i \in DirectoryItems
    PROVE  /\ i > 1
           /\ \/ Front(Items(archive)[i].name) = <<>>
              \/ \E j \in DirectoryItems : j > i /\ Items(archive)[j].name = Front(Items(archive)[i].name)
<1>1. PICK a \in Archives : \E e \in Sorted(a.empty) : archive = [blocks |-> a.blocks, empty |-> e]
    BY DEF LaidOut
<1>2. PICK e \in Sorted(a.empty) : archive = [blocks |-> a.blocks, empty |-> e]
    BY <1>1
<1> DEFINE flat == FlattenSeq(a.blocks)
           k == i - Len(flat)
<1>3. /\ Len(flat) \in Nat \ {0} /\ e \in Seq(Item) /\ Len(e) \in Nat
      /\ NumFiles(archive) = Len(flat) + Len(e) /\ NumFiles(archive) \in Nat
      /\ \A j \in 1 .. NumFiles(archive) :
             Items(archive)[j] = IF j <= Len(flat) THEN flat[j] ELSE e[j - Len(flat)]
      /\ \A j \in 1 .. Len(flat) : ~flat[j].dir
      /\ \A j \in 1 .. Len(e) : e[j] \in a.empty
      /\ \A d \in a.empty : \E j \in 1 .. Len(e) : e[j] = d
      /\ \A l, m \in 1 .. Len(e) : l < m => ~SortsBefore(e[m], e[l])
    BY <1>2, InOrder DEF Ordered
<1> HIDE DEF flat
<1>4. i \in 1 .. NumFiles(archive) /\ Items(archive)[i].dir
    BY DEF DirectoryItems
<1>5. i > Len(flat)
  <2> SUFFICES ASSUME i <= Len(flat) PROVE FALSE
    BY <1>3, <1>4
  <2>1. i \in 1 .. Len(flat) /\ Items(archive)[i] = flat[i]
    BY <1>3, <1>4
  <2> QED
    BY <1>3, <1>4, <2>1
<1>6. i > 1 /\ k \in 1 .. Len(e) /\ Items(archive)[i] = e[k]
  <2>1. i > 1 /\ k \in 1 .. Len(e) /\ ~(i <= Len(flat))
    BY <1>3, <1>4, <1>5
  <2> QED
    BY <1>3, <1>4, <2>1
<1> HIDE DEF k
<1> DEFINE name == e[k].name
<1>7. name \in Seq(STRING) /\ name # <<>> /\ e[k] \in a.empty /\ e[k].dir
  <2>1. e[k] \in a.empty
    BY <1>3, <1>6
  <2>2. e[k] \in Item /\ e[k].name # <<>>
    BY <2>1, ArchivesAssumption
  <2> QED
    BY <1>4, <1>6, <2>1, <2>2 DEF Item
<1>8. ASSUME Front(name) # <<>>
      PROVE  \E j \in DirectoryItems : j > i /\ Items(archive)[j].name = Front(name)
  <2>1. PICK d \in a.empty : d.dir /\ d.name = Front(name)
    BY <1>7, <1>8, ArchivesAssumption
  <2>2. PICK l \in 1 .. Len(e) : e[l] = d
    BY <1>3
  <2>3. IsStrictPrefix(Front(name), name)
    BY <1>7, FrontIsPrefix
  <2>4. l # k
    BY <2>1, <2>2, <2>3 DEF IsStrictPrefix
  <2>5. ~(l < k)
    <3>1. SortsBefore(e[k], e[l])
      BY <1>7, <2>1, <2>2, <2>3 DEF SortsBefore
    <3> QED
      BY <1>3, <1>6, <3>1
  <2> DEFINE j == Len(flat) + l
  <2>6. j \in 1 .. NumFiles(archive) /\ ~(j <= Len(flat)) /\ j - Len(flat) = l /\ j > i
    <3>1. /\ Len(flat) \in Nat /\ Len(e) \in Nat /\ NumFiles(archive) = Len(flat) + Len(e)
          /\ l \in 1 .. Len(e) /\ k \in 1 .. Len(e) /\ i \in Nat
      BY <1>3, <1>4, <1>6
    <3>2. l > k
      BY <2>4, <2>5, <3>1
    <3> QED
      BY <3>1, <3>2 DEF k
  <2>7. Items(archive)[j] = e[l]
    BY <1>3, <2>6
  <2>8. j \in DirectoryItems
    BY <2>1, <2>2, <2>6, <2>7 DEF DirectoryItems
  <2> QED
    BY <2>1, <2>2, <2>6, <2>7, <2>8
<1> QED
    BY <1>6, <1>8

\* A directory is there, or it or one above it was refused.
MadeOrRefused(i) == IsDirectory(PathOf(i)) \/ \E p \in refused : IsPrefix(p, PathOf(i))

\* What the first loop of unpack has done: behind index every directory was
\* made or refused, and nothing but directories lies where items will.
DirInv ==
    /\ refused \subseteq Seq(Names)
    /\ hpc = "start" => upc = "open" /\ base = Folder /\ IsDirectory(Folder)
    /\ hpc \notin {"start", "unpack"} => upc \in {"done", "failed"}
    /\ hpc = "unpack" => IsDirectory(base)
    /\ upc = "open" => \A p \in Paths : Len(p) <= 1
    /\ upc = "directories" =>
           /\ \A i \in 1 .. NumFiles(archive) : PathOf(i) \in Paths => IsDirectory(PathOf(i))
           /\ \A i \in DirectoryItems : i > index => MadeOrRefused(i)
    /\ upc = "files" => \A i \in DirectoryItems : MadeOrRefused(i)

LEMMA NameOfItem ==
    ASSUME LaidOut, NEW i \in 1 .. NumFiles(archive)
    PROVE  Items(archive)[i].name \in Seq(Names) /\ Items(archive)[i].name # <<>>
<1>1. PICK a \in Archives : \E e \in Sorted(a.empty) : archive = [blocks |-> a.blocks, empty |-> e]
    BY DEF LaidOut
<1>2. PICK e \in Sorted(a.empty) : archive = [blocks |-> a.blocks, empty |-> e]
    BY <1>1
<1> DEFINE flat == FlattenSeq(a.blocks)
<1>3. /\ Len(flat) \in Nat \ {0} /\ Len(e) \in Nat
      /\ NumFiles(archive) = Len(flat) + Len(e)
      /\ \A j \in 1 .. NumFiles(archive) :
             Items(archive)[j] = IF j <= Len(flat) THEN flat[j] ELSE e[j - Len(flat)]
      /\ \A j \in 1 .. Len(flat) : flat[j].name # <<>>
      /\ \A j \in 1 .. Len(e) : e[j] \in a.empty
    BY <1>2, InOrder DEF Ordered
<1> HIDE DEF flat
<1>4. \A d \in a.empty : d.name # <<>>
    BY ArchivesAssumption
<1>5. CASE i <= Len(flat)
  <2>1. i \in 1 .. Len(flat)
    BY <1>3, <1>5
  <2> QED
    BY <1>3, <1>5, <2>1, NamesOfItems
<1>6. CASE ~(i <= Len(flat))
  <2>1. i - Len(flat) \in 1 .. Len(e)
    BY <1>3, <1>6
  <2> QED
    BY <1>3, <1>4, <1>6, <2>1, NamesOfItems
<1> QED
    BY <1>5, <1>6

LEMMA PathParent ==
    ASSUME LaidOut, base \in {Target, Folder}, NEW i \in 1 .. NumFiles(archive)
    PROVE  /\ PathOf(i) \in Seq(Names) /\ PathOf(i) # <<>> /\ Len(PathOf(i)) > 1
           /\ Parent(PathOf(i)) = IF Front(Items(archive)[i].name) = <<>> THEN base
                                  ELSE base \o Front(Items(archive)[i].name)
           /\ Len(base) = 1
<1> DEFINE name == Items(archive)[i].name
<1>1. name \in Seq(Names) /\ name # <<>>
    BY NameOfItem
<1>2. base \in Seq(Names) /\ Len(base) = 1
    BY OwnNames DEF Target, Folder
<1>3. Len(name) \in Nat \ {0}
    BY <1>1, EmptySeq
<1> HIDE DEF name
<1>4. /\ base \o name \in Seq(Names) /\ Len(base \o name) = Len(base) + Len(name)
      /\ base \o name # <<>>
      /\ Front(base \o name) = IF Front(name) = <<>> THEN base ELSE base \o Front(name)
    BY <1>1, <1>2, FrontOfJoined
<1>5. PathOf(i) = base \o name
    BY DEF PathOf, name
<1>6. Len(PathOf(i)) > 1
    BY <1>2, <1>3, <1>4, <1>5
<1> QED
    BY <1>2, <1>4, <1>5, <1>6 DEF Parent, name

\* Writing at one path leaves the directories elsewhere.
LEMMA DirectoryKept ==
    ASSUME NEW p, IsDirectory(p),
           \/ UNCHANGED tree
           \/ \E q, what : tree' = With(q, what) /\ (p = q => what = Directory)
    PROVE  p \in Paths' /\ tree'[p] = Directory
BY DEF IsDirectory, With, Paths

LEMMA MadeKept ==
    ASSUME NEW i, MadeOrRefused(i), UNCHANGED <<archive, base>>, refused \subseteq refused',
           \/ UNCHANGED tree
           \/ \E q, what : tree' = With(q, what) /\ (IsDirectory(q) => what = Directory)
    PROVE  MadeOrRefused(i)'
<1>1. PathOf(i)' = PathOf(i)
    BY DEF PathOf
<1>2. CASE IsDirectory(PathOf(i))
  <2>1. PathOf(i) \in Paths' /\ tree'[PathOf(i)] = Directory
    BY <1>2, DirectoryKept
  <2> QED
    BY <1>1, <2>1 DEF MadeOrRefused, IsDirectory
<1>3. CASE \E p \in refused : IsPrefix(p, PathOf(i))
    BY <1>1, <1>3 DEF MadeOrRefused
<1> QED
    BY <1>2, <1>3 DEF MadeOrRefused

\* One step of the first loop that meets a directory.
LEMMA MakeKeeps ==
    ASSUME Sound, DirInv, hpc = "unpack", MakeDirectory, NEW i, i = index
    PROVE  MadeOrRefused(i)'
<1>1. upc = "directories" /\ i > 1 /\ db.files[i].dir /\ UNCHANGED <<archive, base>>
    BY DEF MakeDirectory, MoreDirectories
<1>2. LaidOut /\ base \in {Target, Folder} /\ i \in 1 .. NumFiles(archive)
    BY <1>1, AsManyFiles DEF Sound
<1>3. i \in DirectoryItems
  <2>1. KindsAreKnown
    BY KindsKnown DEF Sound
  <2> QED
    BY <1>1, <1>2, <2>1 DEF KindsAreKnown, DirectoryItems
<1> DEFINE p == PathOf(i)
           name == Items(archive)[i].name
<1>4. /\ p \in Seq(Names) /\ p # <<>>
      /\ Parent(p) = IF Front(name) = <<>> THEN base ELSE base \o Front(name)
    BY <1>2, PathParent
<1>5. PathOf(i)' = p
    BY <1>1 DEF PathOf
<1> HIDE DEF p
<1>6. CASE p \in Paths' /\ tree'[p] = Directory
    BY <1>5, <1>6 DEF MadeOrRefused, IsDirectory
<1>7. CASE \E q \in refused' : IsPrefix(q, p)
    BY <1>5, <1>7 DEF MadeOrRefused
<1>8. CASE CanMake(p) /\ tree' = With(p, Directory)
  <2>1. p \in Paths' /\ tree'[p] = Directory
    BY <1>8 DEF With, Paths
  <2> QED
    BY <1>6, <2>1
<1>9. CASE CanMake(p) /\ refused' = refused \cup {p}
  <2>1. IsPrefix(p, p)
    BY <1>4, PrefixOfItself
  <2> QED
    BY <1>7, <1>9, <2>1
<1>10. CASE ~CanMake(p) /\ UNCHANGED <<tree, refused>>
  <2>1. CASE p \in Paths
    <3>1. IsDirectory(p)
      BY <1>1, <1>2, <2>1 DEF DirInv, p
    <3> QED
      BY <1>6, <1>10, <3>1 DEF IsDirectory, Paths
  <2>2. CASE ~IsDirectory(Parent(p))
    <3>1. Parent(p) # base
      BY <2>2 DEF DirInv
    <3>2. PICK j \in DirectoryItems : j > i /\ Items(archive)[j].name = Front(name)
      BY <1>2, <1>3, <1>4, <3>1, ParentComesLater
    <3>3. PathOf(j) = Parent(p)
      BY <1>4, <3>1, <3>2 DEF PathOf
    <3>4. MadeOrRefused(j)
      BY <1>1, <3>2 DEF DirInv
    <3>5. PICK q \in refused : IsPrefix(q, Parent(p))
      BY <2>2, <3>3, <3>4 DEF MadeOrRefused
    <3>6. q \in Seq(Names)
      BY DEF DirInv
    <3>7. IsPrefix(q, p)
      BY <1>4, <3>5, <3>6, PrefixOfFront DEF Parent
    <3> QED
      BY <1>7, <1>10, <3>7
  <2> QED
    BY <1>10, <2>1, <2>2 DEF CanMake
<1> QED
  <2>1. \/ CanMake(p) /\ tree' = With(p, Directory)
        \/ CanMake(p) /\ refused' = refused \cup {p}
        \/ ~CanMake(p) /\ UNCHANGED <<tree, refused>>
    BY DEF MakeDirectory, p
  <2> QED
    BY <1>8, <1>9, <1>10, <2>1

LEMMA DirectoriesStart == Init => DirInv
<1> SUFFICES ASSUME Init PROVE DirInv
    OBVIOUS
<1>1. upc = "open" /\ refused = {} /\ hpc = "start" /\ base = Folder
    BY DEF Init, InitUnpack
<1>2. Paths = {<<>>, Folder, <<"other">>} /\ IsDirectory(Folder)
  <2>1. Paths = {<<>>, Folder, <<"other">>}
    BY DEF Init, Paths
  <2>2. Folder # <<"other">>
    BY DEF Folder
  <2> QED
    BY <2>1, <2>2 DEF Init, Paths, IsDirectory
<1>3. Len(<<>>) = 0 /\ Len(Folder) = 1 /\ Len(<<"other">>) = 1
    BY DEF Folder
<1>4. \A p \in Paths : Len(p) <= 1
  <2>1. Len(<<>>) <= 1 /\ Len(Folder) <= 1 /\ Len(<<"other">>) <= 1
    BY <1>3
  <2>2. \A p \in Paths : p = <<>> \/ p = Folder \/ p = <<"other">>
    BY <1>2
  <2> QED
    BY <2>1, <2>2, Zenon
<1> QED
    BY <1>1, <1>2, <1>4 DEF DirInv

\* What a step of the first loop leaves true.
LEMMA LoopKeeps ==
    ASSUME Sound, DirInv, hpc = "unpack", MakeDirectory \/ SkipFile
    PROVE  /\ \A i \in 1 .. NumFiles(archive) : PathOf(i) \in Paths' => tree'[PathOf(i)] = Directory
           /\ \A i \in DirectoryItems : i > index - 1 => MadeOrRefused(i)'
           /\ base \in Paths' /\ tree'[base] = Directory
           /\ refused' \subseteq Seq(Names)
<1>1. /\ upc = "directories" /\ index > 1 /\ index' = index - 1
      /\ UNCHANGED <<archive, base>>
    BY DEF MakeDirectory, SkipFile, MoreDirectories
<1>2. LaidOut /\ base \in {Target, Folder} /\ index \in 1 .. NumFiles(archive)
      /\ NumFiles(archive) \in Nat
    BY <1>1, AsManyFiles DEF Sound
<1>3. UNCHANGED tree \/ tree' = With(PathOf(index), Directory)
    BY DEF MakeDirectory, SkipFile
<1>4. refused' = refused \/ refused' = refused \cup {PathOf(index)}
    BY DEF MakeDirectory, SkipFile
<1>5. PathOf(index) \in Seq(Names) /\ PathOf(index) # base
  <2>1. Len(PathOf(index)) > 1 /\ Len(base) = 1 /\ PathOf(index) \in Seq(Names)
    BY <1>2, PathParent
  <2>2. Len(PathOf(index)) \in Nat
    BY <2>1, LenProperties
  <2>3. Len(PathOf(index)) # Len(base)
    BY <2>1, <2>2
  <2> QED
    BY <2>1, <2>3
<1>6. refused' \subseteq Seq(Names)
    BY <1>4, <1>5 DEF DirInv
<1>7. ASSUME NEW q, IsDirectory(q)
      PROVE  q \in Paths' /\ tree'[q] = Directory
    BY <1>3, <1>7, DirectoryKept
<1>8. ASSUME NEW i \in 1 .. NumFiles(archive), PathOf(i) \in Paths'
      PROVE  tree'[PathOf(i)] = Directory
  <2>1. PathOf(i) \in Paths => IsDirectory(PathOf(i))
    BY <1>1 DEF DirInv
  <2>2. CASE UNCHANGED tree
    BY <1>8, <2>1, <2>2 DEF IsDirectory, Paths
  <2>3. CASE tree' = With(PathOf(index), Directory)
    BY <1>8, <2>1, <2>3 DEF IsDirectory, With, Paths
  <2> QED
    BY <1>3, <2>2, <2>3
<1>9. ASSUME NEW i \in DirectoryItems, i > index - 1
      PROVE  MadeOrRefused(i)'
  <2>1. i \in 1 .. NumFiles(archive)
    BY DEF DirectoryItems
  <2>2. CASE i > index
    <3>1. MadeOrRefused(i)
      BY <1>1, <2>2 DEF DirInv
    <3> QED
      BY <1>1, <1>3, <1>4, <3>1, MadeKept
  <2>3. CASE i = index
    <3>1. CASE MakeDirectory
      BY <2>3, <3>1, MakeKeeps
    <3>2. CASE SkipFile
      <4>1. ~db.files[i].dir
        BY <2>3, <3>2 DEF SkipFile
      <4>2. KindsAreKnown
        BY KindsKnown DEF Sound
      <4> QED
        BY <2>1, <4>1, <4>2 DEF KindsAreKnown, DirectoryItems
    <3> QED
      BY <3>1, <3>2
  <2>4. i > index \/ i = index
    BY <1>2, <1>9, <2>1
  <2> QED
    BY <2>2, <2>3, <2>4
<1>10. IsDirectory(base)
    BY DEF DirInv
<1> QED
    BY <1>6, <1>7, <1>8, <1>9, <1>10

LEMMA DirectoriesUnpack ==
    ASSUME Sound, DirInv, hpc = "unpack", UnpackStep, UNCHANGED processes
    PROVE  DirInv'
<1>1. LaidOut /\ base \in {Target, Folder} /\ IsDirectory(base) /\ hpc' = "unpack"
      /\ Len(db.files) = NumFiles(archive) /\ NumFiles(archive) \in Nat
    BY AsManyFiles DEF Sound, DirInv, processes
<1>2. CASE OpenArchive
  <2>1. /\ upc = "open" /\ upc' = "directories" /\ index' = NumFiles(archive)
        /\ UNCHANGED <<archive, base, refused, tree>>
    BY <1>1, <1>2 DEF OpenArchive
  <2>2. \A i \in 1 .. NumFiles(archive) : PathOf(i) \notin Paths
    <3> SUFFICES ASSUME NEW i \in 1 .. NumFiles(archive), PathOf(i) \in Paths
                 PROVE  FALSE
      OBVIOUS
    <3>1. Len(PathOf(i)) > 1 /\ Len(PathOf(i)) <= 1 /\ PathOf(i) \in Seq(Names)
      BY <1>1, <2>1, PathParent DEF DirInv
    <3>2. Len(PathOf(i)) \in Nat
      BY <3>1, LenProperties
    <3> QED
      BY <3>1, <3>2
  <2>3. \A i \in DirectoryItems : ~(i > NumFiles(archive))
    BY <1>1 DEF DirectoryItems
  <2>4. /\ NumFiles(archive)' = NumFiles(archive) /\ DirectoryItems' = DirectoryItems
        /\ Paths' = Paths /\ IsDirectory(base)' /\ \A i : PathOf(i)' = PathOf(i)
    BY <1>1, <2>1 DEF DirectoryItems, Paths, IsDirectory, PathOf
  <2> QED
    BY <1>1, <2>1, <2>2, <2>3, <2>4 DEF DirInv
<1>3. CASE MakeDirectory \/ SkipFile
  <2>1. upc = "directories" /\ upc' = upc /\ index' = index - 1 /\ UNCHANGED <<archive, base>>
    BY <1>3 DEF MakeDirectory, SkipFile
  <2>2. /\ \A i \in 1 .. NumFiles(archive) : PathOf(i) \in Paths' => tree'[PathOf(i)] = Directory
        /\ \A i \in DirectoryItems : i > index - 1 => MadeOrRefused(i)'
        /\ base \in Paths' /\ tree'[base] = Directory
        /\ refused' \subseteq Seq(Names)
    BY <1>3, LoopKeeps
  <2>3. /\ NumFiles(archive)' = NumFiles(archive) /\ DirectoryItems' = DirectoryItems
        /\ \A i : PathOf(i)' = PathOf(i)
    BY <2>1 DEF DirectoryItems, PathOf
  <2>4. IsDirectory(base)'
    BY <2>1, <2>2 DEF IsDirectory
  <2>5. \A i \in 1 .. NumFiles(archive)' : PathOf(i)' \in Paths' => IsDirectory(PathOf(i))'
    BY <2>2, <2>3 DEF IsDirectory
  <2> QED
    BY <1>1, <2>1, <2>2, <2>3, <2>4, <2>5 DEF DirInv
<1>4. CASE DirectoriesMade
  <2>1. /\ upc = "directories" /\ upc' = "files" /\ ~(index > 1) /\ index \in 0 .. NumFiles(archive)
        /\ UNCHANGED <<archive, base, refused, tree>>
    BY <1>4 DEF DirectoriesMade, MoreDirectories, Sound
  <2>2. \A i \in DirectoryItems : MadeOrRefused(i)'
    <3> SUFFICES ASSUME NEW i \in DirectoryItems PROVE MadeOrRefused(i)'
      OBVIOUS
    <3>1. i > 1 /\ i \in 1 .. NumFiles(archive)
      BY <1>1, ParentComesLater DEF DirectoryItems
    <3>2. i > index
      BY <1>1, <2>1, <3>1
    <3>3. MadeOrRefused(i)
      BY <2>1, <3>2 DEF DirInv
    <3> QED
      BY <2>1, <3>3, MadeKept
  <2>3. DirectoryItems' = DirectoryItems /\ IsDirectory(base)'
    BY <1>1, <2>1 DEF DirectoryItems, IsDirectory, Paths
  <2> QED
    BY <1>1, <2>1, <2>2, <2>3 DEF DirInv
<1>5. CASE SkipDirectory \/ ExtractFile
  <2>1. /\ upc = "files" /\ upc' = "files" /\ index \in Nat \ {0} /\ index <= Len(db.files)
        /\ UNCHANGED <<archive, base, refused>>
    BY <1>5 DEF SkipDirectory, ExtractFile, AtFile, Sound
  <2>2. \/ UNCHANGED tree
        \/ ~IsDirectory(PathOf(index)) /\ tree' = With(PathOf(index), File(InBuffer))
    BY <1>5 DEF SkipDirectory, ExtractFile, CanWrite
  <2>3. \A i \in DirectoryItems : MadeOrRefused(i)'
    <3> SUFFICES ASSUME NEW i \in DirectoryItems PROVE MadeOrRefused(i)'
      OBVIOUS
    <3>1. MadeOrRefused(i)
      BY <2>1 DEF DirInv
    <3> QED
      BY <2>1, <2>2, <3>1, MadeKept
  <2>4. DirectoryItems' = DirectoryItems
    BY <2>1 DEF DirectoryItems
  <2>5. base \in Paths' /\ tree'[base] = Directory
    BY <1>1, <2>2, DirectoryKept
  <2> QED
    BY <1>1, <2>1, <2>3, <2>4, <2>5 DEF DirInv, IsDirectory
<1>6. CASE CannotOpen \/ CannotExtract \/ AllExtracted \/ CannotWrite
  <2>1. upc' \in {"done", "failed"} /\ UNCHANGED <<archive, base, refused>>
    BY <1>6 DEF CannotOpen, CannotExtract, AllExtracted, CannotWrite, Fail
  <2>2. \/ UNCHANGED tree
        \/ ~IsDirectory(PathOf(index)) /\ \E what : tree' = With(PathOf(index), what)
    BY <1>6 DEF CannotOpen, CannotExtract, AllExtracted, CannotWrite, CanWrite
  <2>3. base \in Paths' /\ tree'[base] = Directory
    BY <1>1, <2>2, DirectoryKept
  <2> QED
    BY <1>1, <2>1, <2>3 DEF DirInv, IsDirectory
<1> QED
    BY <1>2, <1>3, <1>4, <1>5, <1>6 DEF UnpackStep

LEMMA DirectoriesStay == LInv /\ Sound /\ DirInv /\ [Next]_lvars => DirInv'
<1> SUFFICES ASSUME LInv, Sound, DirInv, [Next]_lvars
             PROVE  DirInv'
    OBVIOUS
<1>1. CASE HeaderStart
  <2>1. /\ hpc = "start" /\ hpc' = "unpack" /\ upc = "open" /\ upc' = upc /\ refused' = refused
        /\ base = Folder
        /\ IsDirectory(Folder)
    BY <1>1 DEF HeaderStart, DirInv, Sound
  <2>2. CASE tree' = With(Target, Directory) /\ base' = Target
    <3>1. Paths' = Paths \cup {Target} /\ IsDirectory(base)'
      BY <2>2 DEF With, Paths, IsDirectory
    <3>2. Len(Target) <= 1
      BY DEF Target
    <3> QED
      BY <2>1, <3>1, <3>2 DEF DirInv
  <2>3. CASE UNCHANGED <<tree, base>>
    <3>1. Paths' = Paths /\ (IsDirectory(base) => IsDirectory(base)')
      BY <2>3 DEF Paths, IsDirectory
    <3> QED
      BY <2>1, <2>3, <3>1 DEF DirInv
  <2> QED
    BY <1>1, <2>2, <2>3 DEF HeaderStart
<1>2. CASE HeaderUnpack
    BY <1>2, DirectoriesUnpack DEF HeaderUnpack
<1>3. ASSUME hpc \in {"start", "unpack"} => upc \in {"done", "failed"},
             hpc' \notin {"start", "unpack"}, UNCHANGED unpackVars
      PROVE  DirInv'
    BY <1>3 DEF DirInv, unpackVars
<1>4. ASSUME UNCHANGED <<tree, unpackVars, hpc>>
      PROVE  DirInv'
  <2>1. /\ NumFiles(archive)' = NumFiles(archive) /\ DirectoryItems' = DirectoryItems
        /\ Paths' = Paths /\ \A p : IsDirectory(p) => IsDirectory(p)'
    BY <1>4 DEF DirectoryItems, Paths, IsDirectory, unpackVars
  <2>2. \A i : PathOf(i)' = PathOf(i) /\ (MadeOrRefused(i) => MadeOrRefused(i)')
    BY <1>4 DEF PathOf, MadeOrRefused, IsDirectory, Paths, unpackVars
  <2>3. Folder' = Folder /\ base' = base
    BY <1>4 DEF Folder, unpackVars
  <2>4. (IsDirectory(Folder) => IsDirectory(Folder)') /\ (IsDirectory(base) => IsDirectory(base)')
    BY <1>4 DEF IsDirectory, Paths, unpackVars, Folder
  <2>5. \A i : IsDirectory(PathOf(i)) => IsDirectory(PathOf(i))'
    BY <1>4 DEF IsDirectory, Paths, unpackVars, PathOf
  <2> QED
    BY <1>4, <2>1, <2>2, <2>3, <2>4, <2>5 DEF DirInv, unpackVars
<1>5. CASE HeaderUnpacked \/ HeaderCannotUnpack \/ HeaderCopy \/ HeaderCreate \/ HeaderEnd
    BY <1>3, <1>5 DEF HeaderUnpacked, HeaderCannotUnpack, HeaderCopy, HeaderCreate, HeaderEnd, Unpacked
<1>6. CASE LauncherDelete
    BY <1>3, <1>6 DEF LauncherDelete, LInv, processes
<1>7. CASE CloseBox
    BY <1>3, <1>4, <1>7 DEF CloseBox
<1>8. CASE LauncherCreate \/ LauncherWaited \/ LauncherEnd \/ PyrunLoad \/ PythonStartsProgram
           \/ PythonEnds \/ ProgramEnds
    BY <1>4, <1>8 DEF LauncherCreate, LauncherWaited, LauncherEnd, PyrunLoad, PythonStartsProgram,
       PythonEnds, ProgramEnds
<1>9. CASE UNCHANGED lvars
    BY <1>4, <1>9 DEF lvars, processes
<1> QED
    BY <1>1, <1>2, <1>5, <1>6, <1>7, <1>8, <1>9 DEF Next, Header_, Launcher_

\* Before the files are written every directory of the archive was made, or it
\* or one above it was refused (DirectoriesAreThere): whatever is in an archive
\* comes behind the directory it is in, and the loop runs backwards.
THEOREM DirectoriesAreMade == Spec => []DirectoriesAreThere
<1>1. Spec => []DirInv
    BY DirectoriesStart, DirectoriesStay, RecursionStaysInside, DeletionInvariant, PTL DEF Spec
<1>2. DirInv => DirectoriesAreThere
    BY DEF DirInv, DirectoriesAreThere, MadeOrRefused
<1> QED
    BY <1>1, <1>2, PTL

-----------------------------------------------------------------------------
(* Blocks and their streams                                                 *)

\* What never decreases from one number to the next.
Grows(f, n) == f \in [0 .. n -> Nat] /\ \A i \in 1 .. n : f[i - 1] <= f[i]

LEMMA GrowsFurther ==
    ASSUME NEW n \in Nat, NEW f, Grows(f, n), NEW i \in 0 .. n, NEW j \in 0 .. n, i <= j
    PROVE  f[i] <= f[j]
<1> DEFINE P == {m \in Nat : m <= n => f[i] <= f[m]}
<1>1. i \in Nat /\ i \in P
    BY DEF Grows
<1>2. ASSUME NEW m \in Nat, i <= m, m \in P
      PROVE  m + 1 \in P
  <2> SUFFICES ASSUME m + 1 <= n PROVE f[i] <= f[m + 1]
    OBVIOUS
  <2>1. m + 1 \in 1 .. n /\ (m + 1) - 1 = m /\ m <= n /\ m \in 0 .. n /\ m + 1 \in 0 .. n
    OBVIOUS
  <2>2. f[m] <= f[m + 1] /\ f[i] <= f[m]
    BY <1>2, <2>1 DEF Grows
  <2>3. f[i] \in Nat /\ f[m] \in Nat /\ f[m + 1] \in Nat
    BY <2>1 DEF Grows
  <2> QED
    BY <2>2, <2>3
<1>3. j \in P
  <2> HIDE DEF P
  <2>1. j \in Nat
    OBVIOUS
  <2> QED
    BY <1>1, <1>2, <2>1, Counting
<1> QED
    BY <1>3

LEMMA OffsetsGrow ==
    ASSUME NEW V, NEW bs \in Seq(Seq(V)), NEW off, Offsets(off, bs)
    PROVE  Grows(off, Len(bs)) /\ Len(bs) \in Nat
<1>1. Len(bs) \in Nat /\ \A b \in 1 .. Len(bs) : Len(bs[b]) \in Nat
    BY LenProperties, ElementOfSeq
<1> SUFFICES ASSUME NEW b \in 1 .. Len(bs)
             PROVE  off[b - 1] <= off[b]
    BY <1>1 DEF Grows, Offsets
<1>2. b - 1 \in 0 .. Len(bs) /\ Len(bs[b]) \in Nat
    BY <1>1
<1>3. off[b - 1] \in Nat /\ off[b] = off[b - 1] + Len(bs[b])
    BY <1>2 DEF Offsets
<1> QED
    BY <1>2, <1>3

LEMMA CountsGrow ==
    ASSUME NEW s \in Seq(Item), NEW stream, NEW n, Counts(n, s, stream)
    PROVE  Grows(n, Len(s)) /\ Len(s) \in Nat
<1>1. Len(s) \in Nat
    BY LenProperties
<1> SUFFICES ASSUME NEW i \in 1 .. Len(s)
             PROVE  n[i - 1] <= n[i]
    BY <1>1 DEF Grows, Counts
<1>2. i - 1 \in 0 .. Len(s)
    BY <1>1
<1>3. n[i - 1] \in Nat /\ (n[i] = n[i - 1] + 1 \/ n[i] = n[i - 1])
    BY <1>2 DEF Counts
<1> QED
    BY <1>3

\* The items are those of the blocks, and others without a stream; off says
\* where each block begins and n counts the streams up to an item.
Laid(bs, off, s, n) ==
    /\ bs \in Seq(Seq(Item)) /\ s \in Seq(Item)
    /\ Offsets(off, bs) /\ off[Len(bs)] <= Len(s)
    /\ \A b \in 1 .. Len(bs) : \A k \in 1 .. Len(bs[b]) :
           off[b - 1] + k \in 1 .. off[Len(bs)] /\ s[off[b - 1] + k] = bs[b][k]
    /\ \A i \in 1 .. Len(s) : i > off[Len(bs)] => ~HasStream(s[i])
    /\ Counts(n, s, TRUE)

LEMMA LaidDown ==
    ASSUME LaidOut
    PROVE  \E off, n : Laid(archive.blocks, off, Items(archive), n)
<1>1. PICK a \in Archives : \E e \in Sorted(a.empty) : archive = [blocks |-> a.blocks, empty |-> e]
    BY DEF LaidOut
<1>2. PICK e \in Sorted(a.empty) : archive = [blocks |-> a.blocks, empty |-> e]
    BY <1>1
<1> DEFINE flat == FlattenSeq(a.blocks)
           bs == a.blocks
           s == Items(archive)
<1>3. /\ Len(flat) \in Nat \ {0} /\ Len(e) \in Nat
      /\ NumFiles(archive) = Len(flat) + Len(e)
      /\ \A j \in 1 .. NumFiles(archive) : s[j] = IF j <= Len(flat) THEN flat[j] ELSE e[j - Len(flat)]
      /\ \A j \in 1 .. Len(e) : e[j] \in a.empty
    BY <1>2, InOrder DEF Ordered
<1>4. bs \in Seq(Seq(Item)) /\ \A d \in a.empty : d.size = 0
    BY ArchivesAssumption
<1>5. s \in Seq(Item) /\ NumFiles(archive) = Len(s)
    BY NamesDiffer DEF NumFiles
<1>6. PICK off : /\ Offsets(off, bs) /\ Len(flat) = off[Len(bs)]
                 /\ \A b \in 1 .. Len(bs) : \A k \in 1 .. Len(bs[b]) :
                        off[b - 1] + k \in 1 .. off[Len(bs)] /\ flat[off[b - 1] + k] = bs[b][k]
    BY <1>4, FlatPlaces
<1>7. PICK n : Counts(n, s, TRUE)
  <2> HIDE DEF s
  <2>1. PICK n : Selects(Those(s, TRUE), n, s, TRUE)
    BY <1>5, ThoseSelects
  <2> QED
    BY <2>1, Zenon DEF Selects
<1> HIDE DEF flat, bs, s
<1>8. off[Len(bs)] <= Len(s)
    BY <1>3, <1>5, <1>6
<1>9. ASSUME NEW b \in 1 .. Len(bs), NEW k \in 1 .. Len(bs[b])
      PROVE  off[b - 1] + k \in 1 .. off[Len(bs)] /\ s[off[b - 1] + k] = bs[b][k]
  <2> DEFINE i == off[b - 1] + k
  <2>1. i \in 1 .. Len(flat) /\ flat[i] = bs[b][k]
    BY <1>6
  <2> HIDE DEF i
  <2>2. i \in 1 .. NumFiles(archive) /\ i <= Len(flat)
    BY <1>3, <2>1
  <2>3. s[i] = flat[i]
    BY <1>3, <2>2
  <2> QED
    BY <1>6, <2>1, <2>3 DEF i
<1>10. ASSUME NEW i \in 1 .. Len(s), i > off[Len(bs)]
       PROVE  ~HasStream(s[i])
  <2>1. i \in 1 .. NumFiles(archive) /\ ~(i <= Len(flat)) /\ i - Len(flat) \in 1 .. Len(e)
    BY <1>3, <1>5, <1>6, <1>10
  <2>2. s[i] = e[i - Len(flat)] /\ e[i - Len(flat)] \in a.empty
    BY <1>3, <2>1
  <2>3. s[i].size = 0
    BY <1>4, <2>2
  <2> QED
    BY <2>3 DEF HasStream
<1>11. Laid(bs, off, s, n)
    BY <1>4, <1>5, <1>6, <1>7, <1>8, <1>9, <1>10 DEF Laid
<1>12. archive.blocks = bs
    BY <1>2 DEF bs
<1> QED
    BY <1>11, <1>12 DEF s

\* The streams of a block, and how they are counted.
CountsOn(n, off, b, block, m) ==
    /\ Selects(StreamsIn(block), m, block, TRUE)
    /\ \A k \in 0 .. Len(block) : n[off[b - 1] + k] = n[off[b - 1]] + m[k]

LEMMA BlockCounts ==
    ASSUME NEW bs, NEW off, NEW s, NEW n, Laid(bs, off, s, n), NEW b \in 1 .. Len(bs)
    PROVE  /\ \E m : CountsOn(n, off, b, bs[b], m)
           /\ bs[b] \in Seq(Item) /\ b - 1 \in 0 .. Len(bs) /\ Len(bs) \in Nat
           /\ off[b - 1] \in 0 .. Len(s) /\ off[b] \in 0 .. Len(s) /\ off[b] = off[b - 1] + Len(bs[b])
           /\ n[off[b]] = n[off[b - 1]] + Len(StreamsIn(bs[b]))
<1> DEFINE block == bs[b]
           o == off[b - 1]
<1>1. block \in Seq(Item) /\ Len(block) \in Nat /\ Len(bs) \in Nat /\ Len(s) \in Nat
    BY ElementOfSeq, LenProperties DEF Laid
<1>2. b - 1 \in 0 .. Len(bs) /\ b \in 0 .. Len(bs) /\ b - 1 <= Len(bs) /\ Len(bs) \in 0 .. Len(bs)
    BY <1>1
<1>3. /\ o \in Nat /\ off[b] = o + Len(block) /\ off[b] <= off[Len(bs)] /\ off[Len(bs)] <= Len(s)
      /\ off[Len(bs)] \in Nat
  <2>1. off \in [0 .. Len(bs) -> Nat] /\ off[b] = o + Len(block) /\ off[Len(bs)] <= Len(s)
    BY DEF Laid, Offsets
  <2>2. Grows(off, Len(bs))
    BY OffsetsGrow DEF Laid
  <2>3. off[b] <= off[Len(bs)]
    BY <1>1, <1>2, <2>2, GrowsFurther
  <2> QED
    BY <1>2, <2>1, <2>3
<1>4. o \in 0 .. Len(s) /\ off[b] \in 0 .. Len(s)
    BY <1>1, <1>3
<1>5. PICK m : Selects(StreamsIn(block), m, block, TRUE)
  <2> HIDE DEF block
  <2> QED
    BY <1>1, ThoseSelects DEF StreamsIn
<1> HIDE DEF block, o
<1>6. Counts(m, block, TRUE) /\ Counts(n, s, TRUE)
    BY <1>5 DEF Selects, Laid
<1> DEFINE f == [k \in 0 .. Len(block) |-> n[o + k]]
           g == [k \in 0 .. Len(block) |-> n[o] + m[k]]
<1>7. f[0] = g[0]
  <2>1. m[0] = 0 /\ 0 \in 0 .. Len(block) /\ n[o] \in Nat /\ o + 0 = o
    BY <1>1, <1>3, <1>4, <1>6 DEF Counts
  <2> QED
    BY <2>1
<1>8. ASSUME NEW k \in 0 + 1 .. Len(block), f[k - 1] = g[k - 1]
      PROVE  f[k] = g[k]
  <2>1. /\ k \in 1 .. Len(block) /\ k - 1 \in 0 .. Len(block) /\ k \in 0 .. Len(block)
        /\ o + k \in 1 .. Len(s) /\ (o + k) - 1 = o + (k - 1) /\ o + (k - 1) \in 0 .. Len(s)
    BY <1>1, <1>3
  <2>2. s[o + k] = block[k]
    BY <2>1 DEF Laid, block, o
  <2>3. n[o + k] = IF HasStream(s[o + k]) = TRUE THEN n[o + (k - 1)] + 1 ELSE n[o + (k - 1)]
    BY <1>6, <2>1 DEF Counts
  <2>4. m[k] = IF HasStream(block[k]) = TRUE THEN m[k - 1] + 1 ELSE m[k - 1]
    BY <1>6, <2>1 DEF Counts
  <2>5. n[o + (k - 1)] = n[o] + m[k - 1]
    BY <1>8, <2>1
  <2>6. n[o] \in Nat /\ m[k - 1] \in Nat
    BY <1>4, <1>6, <2>1 DEF Counts
  <2>7. n[o + k] = n[o] + m[k]
    BY <2>2, <2>3, <2>4, <2>5, <2>6
  <2> QED
    BY <2>1, <2>7
<1>9. \A k \in 0 .. Len(block) : n[o + k] = n[o] + m[k]
  <2> HIDE DEF f, g
  <2>1. Agree(f, g, 0, Len(block))
    BY <1>7, <1>8 DEF Agree
  <2>2. \A k \in 0 .. Len(block) : f[k] = g[k]
    BY <1>1, <2>1, SameSteps
  <2> QED
    BY <2>2 DEF f, g
<1>10. n[off[b]] = n[o] + Len(StreamsIn(block))
  <2>1. Len(block) \in 0 .. Len(block)
    BY <1>1
  <2>2. Len(StreamsIn(block)) = m[Len(block)]
    BY <1>5 DEF Selects
  <2> QED
    BY <1>3, <1>9, <2>1, <2>2
<1>11. CountsOn(n, off, b, block, m)
    BY <1>5, <1>9 DEF CountsOn, o
<1> QED
    BY <1>1, <1>2, <1>3, <1>4, <1>10, <1>11 DEF block, o

-----------------------------------------------------------------------------
(* The sizes in the header                                                  *)

\* What the header keeps of the sizes of each block's streams.
Stored(sizes) == [b \in DOMAIN sizes |-> IF sizes[b] = <<>> THEN <<>> ELSE Front(sizes[b])]

\* The last number is the rest of the total.
LEMMA LastIsTheRest ==
    ASSUME NEW t \in Seq(Nat), t # <<>>
    PROVE  /\ Front(t) \in Seq(Nat) /\ Len(Front(t)) = Len(t) - 1 /\ Len(t) \in Nat \ {0}
           /\ Append(Front(t), Total(t) - Total(Front(t))) = t
<1>1. /\ Len(Front(t)) = Len(t) - 1 /\ Len(t) \in Nat \ {0} /\ Front(t) \in Seq(Nat)
      /\ \A k \in 1 .. Len(t) - 1 : Front(t)[k] = t[k]
    BY AllButLast
<1> DEFINE f == Front(t)
           l == t[Len(t)]
<1>2. l \in Nat
  <2>1. Len(t) \in 1 .. Len(t)
    BY <1>1
  <2> QED
    BY <2>1, ElementOfSeq
<1>3. Total(t) = Total(f) + l
  <2>1. Len(t) = Len(f) + 1 /\ Len(f) = Len(t) - 1
    BY <1>1
  <2>2. \A i \in 1 .. Len(f) : t[i] = f[i]
    BY <1>1, <2>1
  <2> HIDE DEF f
  <2>3. f \in Seq(Nat)
    BY <1>1 DEF f
  <2> QED
    BY <2>1, <2>2, <2>3, TotalOfMore
<1>4. Total(f) \in Nat
  <2>1. \E g : Sums(g, f)
    BY <1>1, SumsExist
  <2> QED
    BY <1>1, <2>1, TotalBy
<1> HIDE DEF f, l
<1>5. Total(t) - Total(f) = l
    BY <1>2, <1>3, <1>4
<1>6. /\ Append(f, l) \in Seq(Nat) /\ Len(Append(f, l)) = Len(f) + 1
      /\ \A k \in 1 .. Len(f) : Append(f, l)[k] = f[k]
      /\ Append(f, l)[Len(f) + 1] = l
    BY <1>1, <1>2, AppendProperties DEF f
<1>7. Len(f) = Len(t) - 1 /\ Len(Append(f, l)) = Len(t)
    BY <1>1, <1>6 DEF f
<1>8. ASSUME NEW k \in 1 .. Len(t)
      PROVE  Append(f, l)[k] = t[k]
  <2>1. CASE k = Len(t)
    <3>1. k = Len(f) + 1
      BY <1>1, <1>7, <2>1
    <3> QED
      BY <1>6, <2>1, <3>1 DEF l
  <2>2. CASE k # Len(t)
    <3>1. k \in 1 .. Len(t) - 1 /\ k \in 1 .. Len(f)
      BY <1>1, <1>7, <2>2
    <3> QED
      BY <1>1, <1>6, <3>1 DEF f
  <2> QED
    BY <2>1, <2>2
<1>9. Append(f, l) = t
    BY <1>6, <1>7, <1>8, SeqEqual
<1> QED
    BY <1>1, <1>5, <1>9 DEF f

LEMMA StoredIs ==
    ASSUME NEW sizes \in Seq(Seq(Nat))
    PROVE  /\ Stored(sizes) \in Seq(Seq(Nat)) /\ Len(Stored(sizes)) = Len(sizes)
           /\ DOMAIN sizes = 1 .. Len(sizes) /\ Len(sizes) \in Nat
           /\ \A b \in 1 .. Len(sizes) :
                 Stored(sizes)[b] = IF sizes[b] = <<>> THEN <<>> ELSE Front(sizes[b])
<1>1. Len(sizes) \in Nat /\ DOMAIN sizes = 1 .. Len(sizes)
    BY LenProperties
<1>2. \A b \in 1 .. Len(sizes) : sizes[b] \in Seq(Nat)
    BY ElementOfSeq
<1>3. \A b \in 1 .. Len(sizes) : (IF sizes[b] = <<>> THEN <<>> ELSE Front(sizes[b])) \in Seq(Nat)
    BY <1>2, LastIsTheRest, EmptySeq
<1> DEFINE t == Stored(sizes)
<1>4. t = [b \in 1 .. Len(sizes) |-> t[b]] /\ \A b \in 1 .. Len(sizes) : t[b] \in Seq(Nat)
    BY <1>1, <1>3 DEF Stored
<1>5. \A b \in 1 .. Len(sizes) : t[b] = IF sizes[b] = <<>> THEN <<>> ELSE Front(sizes[b])
    BY <1>1 DEF Stored
<1> HIDE DEF t
<1>6. t \in Seq(Seq(Nat)) /\ Len(t) = Len(sizes)
    BY <1>1, <1>4
<1> QED
    BY <1>1, <1>5, <1>6 DEF t

\* What lies at an offset of a sequence.
LEMMA SliceIs ==
    ASSUME NEW V, NEW t \in Seq(V), NEW u \in Seq(V), NEW o \in Nat,
           o + Len(u) <= Len(t), \A k \in 1 .. Len(u) : t[o + k] = u[k]
    PROVE  SubSeq(t, o + 1, o + Len(u)) = u
<1> DEFINE m == Len(u)
           w == SubSeq(t, o + 1, o + m)
<1>1. m \in Nat /\ Len(t) \in Nat /\ o + 1 \in Int /\ o + m \in Int
    BY LenProperties
<1>2. \A i \in o + 1 .. o + m : t[i] \in V
  <2>1. \A i \in o + 1 .. o + m : i \in 1 .. Len(t)
    BY <1>1
  <2> QED
    BY <2>1, ElementOfSeq
<1> HIDE DEF m
<1>3. /\ w \in Seq(V)
      /\ Len(w) = IF o + 1 <= o + m THEN (o + m) - (o + 1) + 1 ELSE 0
      /\ \A i \in 1 .. (o + m) - (o + 1) + 1 : w[i] = t[(o + 1) + i - 1]
    BY <1>1, <1>2, SubSeqProperties
<1>4. Len(w) = m
    BY <1>1, <1>3
<1>5. ASSUME NEW i \in 1 .. m
      PROVE  w[i] = u[i]
  <2>1. i \in 1 .. (o + m) - (o + 1) + 1 /\ (o + 1) + i - 1 = o + i
    BY <1>1
  <2>2. w[i] = t[(o + 1) + i - 1]
    BY <1>3, <2>1
  <2>3. t[o + i] = u[i]
    BY DEF m
  <2> QED
    BY <2>1, <2>2, <2>3
<1>6. w = u
    BY <1>3, <1>4, <1>5, SeqEqual DEF m
<1> QED
    BY <1>6 DEF m

\* A header that was written for streams of these sizes.
Keeps(h, sizes) ==
    /\ h.streams = [b \in DOMAIN sizes |-> Len(sizes[b])]
    /\ h.unpack = [b \in DOMAIN sizes |-> Total(sizes[b])]
    /\ h.sizes = FlattenSeq(Stored(sizes))

LEMMA ReadOne ==
    ASSUME NEW sizes \in Seq(Seq(Nat)), NEW h, Keeps(h, sizes), NEW b \in 1 .. Len(sizes),
           NEW o \in Nat, NEW before \in Seq(Nat),
           o + Len(Stored(sizes)[b]) <= Len(h.sizes),
           \A k \in 1 .. Len(Stored(sizes)[b]) : h.sizes[o + k] = Stored(sizes)[b][k]
    PROVE  /\ ReadBlock(h, [read |-> o, sizes |-> before], b)
                = [read |-> o + Len(Stored(sizes)[b]), sizes |-> before \o sizes[b]]
           /\ before \o sizes[b] \in Seq(Nat)
<1> DEFINE u == Stored(sizes)[b]
           t == sizes[b]
           st == [read |-> o, sizes |-> before]
<1>1. u = (IF t = <<>> THEN <<>> ELSE Front(t)) /\ DOMAIN sizes = 1 .. Len(sizes)
    BY StoredIs
<1>2. t \in Seq(Nat) /\ Len(t) \in Nat
    BY ElementOfSeq, LenProperties
<1>3. h.streams[b] = Len(t) /\ h.unpack[b] = Total(t)
    BY <1>1 DEF Keeps
<1>4. h.sizes \in Seq(Nat)
    BY StoredIs, FlatPlaces DEF Keeps
<1>5. before \o t \in Seq(Nat)
    BY <1>2, ConcatProperties
<1>6. o + Len(u) <= Len(h.sizes) /\ \A k \in 1 .. Len(u) : h.sizes[o + k] = u[k]
    OBVIOUS
<1> HIDE DEF u, t
<1>7. CASE t = <<>>
  <2>1. h.streams[b] = 0 /\ Len(u) = 0
    BY <1>1, <1>3, <1>7
  <2>2. ReadBlock(h, st, b) = st
    BY <2>1 DEF ReadBlock
  <2>3. before \o t = before /\ o + Len(u) = o
    BY <1>7, <2>1, ConcatEmptySeq
  <2> QED
    BY <1>5, <2>2, <2>3 DEF u, t
<1>8. CASE t # <<>>
  <2>1. /\ u = Front(t) /\ u \in Seq(Nat) /\ Len(u) = Len(t) - 1 /\ Len(t) \in Nat \ {0}
        /\ Append(u, Total(t) - Total(u)) = t
    BY <1>1, <1>2, <1>8, LastIsTheRest
  <2>2. SubSeq(h.sizes, o + 1, o + Len(u)) = u
    BY <1>4, <1>6, <2>1, SliceIs
  <2>3. h.streams[b] # 0 /\ h.streams[b] - 1 = Len(u)
    BY <1>3, <2>1
  <2>4. st.read = o /\ st.sizes = before
    OBVIOUS
  <2> HIDE DEF st
  <2>5. ReadBlock(h, st, b) = [read |-> o + Len(u), sizes |-> before \o Append(u, h.unpack[b] - Total(u))]
    BY <2>2, <2>3, <2>4 DEF ReadBlock
  <2> QED
    BY <1>3, <1>5, <2>1, <2>5 DEF u, t, st
<1> QED
    BY <1>7, <1>8

LEMMA SizesRead ==
    ASSUME NEW sizes \in Seq(Seq(Nat)), NEW h, Keeps(h, sizes)
    PROVE  UnPackSizes(h) = FlattenSeq(sizes)
<1> DEFINE n == Len(sizes)
           st == Stored(sizes)
           upto[b \in 0 .. Len(h.streams)] ==
               IF b = 0 THEN [read |-> 0, sizes |-> <<>>] ELSE ReadBlock(h, upto[b - 1], b)
<1>1. /\ st \in Seq(Seq(Nat)) /\ Len(st) = n /\ n \in Nat /\ DOMAIN sizes = 1 .. n
    BY StoredIs
<1>2. Len(h.streams) = n
  <2> DEFINE t == h.streams
  <2>1. \A b \in 1 .. n : Len(sizes[b]) \in Nat
    BY ElementOfSeq, LenProperties
  <2>2. t = [b \in 1 .. n |-> Len(sizes[b])]
    BY <1>1 DEF Keeps
  <2> HIDE DEF t, n
  <2>3. t \in [1 .. n -> Nat]
    BY <2>1, <2>2
  <2>4. Len(t) = n
    BY <1>1, <2>3
  <2> QED
    BY <2>4 DEF t
<1>3. PICK off : /\ Offsets(off, st) /\ Len(h.sizes) = off[n]
                 /\ \A b \in 1 .. n : \A k \in 1 .. Len(st[b]) :
                        off[b - 1] + k \in 1 .. off[n] /\ h.sizes[off[b - 1] + k] = st[b][k]
  <2> HIDE DEF st
  <2>1. FlattenSeq(st) = h.sizes
    BY DEF Keeps, st
  <2>2. \E off : /\ Offsets(off, st) /\ Len(FlattenSeq(st)) = off[Len(st)]
                 /\ \A b \in 1 .. Len(st) : \A k \in 1 .. Len(st[b]) :
                        /\ off[b - 1] + k \in 1 .. off[Len(st)]
                        /\ FlattenSeq(st)[off[b - 1] + k] = st[b][k]
    BY <1>1, FlatPlaces
  <2> HIDE DEF n
  <2> QED
    BY <1>1, <2>1, <2>2
<1>4. PICK fl : /\ fl \in [1 .. n -> Seq(Nat)]
                /\ \A b \in 1 .. n : fl[b] = IF b = 1 THEN sizes[1] ELSE fl[b - 1] \o sizes[b]
                /\ FlattenSeq(sizes) = IF sizes = <<>> THEN <<>> ELSE fl[n]
    BY Flat
<1> DEFINE before(b) == IF b = 0 THEN <<>> ELSE fl[b]
           g == [b \in 0 .. n |-> [read |-> off[b], sizes |-> before(b)]]
<1>5. UnPackSizes(h) = upto[n].sizes
    BY <1>2 DEF UnPackSizes
<1> HIDE DEF st, n
<1>6. \A b \in 0 .. n : before(b) \in Seq(Nat)
  <2>1. <<>> \in Seq(Nat)
    BY EmptySeq
  <2>2. \A b \in 0 .. n : b # 0 => b \in 1 .. n
    BY <1>1
  <2> QED
    BY <1>4, <2>1, <2>2
<1>7. ASSUME NEW b \in 1 .. n
      PROVE  g[b] = ReadBlock(h, g[b - 1], b)
  <2>1. b \in 0 .. n /\ b - 1 \in 0 .. n /\ b # 0 /\ (b # 1 => b - 1 # 0 /\ b - 1 \in 1 .. n)
    BY <1>1
  <2>2. off[b - 1] \in Nat /\ off[b] = off[b - 1] + Len(st[b]) /\ off[b] <= off[n]
    <3>1. off \in [0 .. n -> Nat] /\ off[b] = off[b - 1] + Len(st[b])
      BY <1>1, <1>3 DEF Offsets
    <3>2. Grows(off, n)
      BY <1>1, <1>3, OffsetsGrow
    <3>3. n \in 0 .. n /\ b <= n
      BY <1>1, <2>1
    <3>4. off[b] <= off[n]
      BY <1>1, <2>1, <3>2, <3>3, GrowsFurther
    <3> QED
      BY <2>1, <3>1, <3>4
  <2>3. before(b) = before(b - 1) \o sizes[b]
    <3>1. CASE b = 1
      <4>1. before(b) = sizes[1] /\ before(b - 1) = <<>>
        <5>1. b - 1 = 0 /\ b # 0 /\ b \in 1 .. n
          BY <3>1
        <5> QED
          BY <1>4, <3>1, <5>1
      <4>2. sizes[1] \in Seq(Nat)
        BY <3>1, ElementOfSeq DEF n
      <4>3. <<>> \o sizes[1] = sizes[1]
        BY <4>2, ConcatEmptySeq
      <4> QED
        BY <3>1, <4>1, <4>3
    <3>2. CASE b # 1
      BY <1>4, <2>1, <3>2
    <3> QED
      BY <3>1, <3>2
  <2> DEFINE o == off[b - 1]
             now == before(b - 1)
  <2>4. now \in Seq(Nat)
    BY <1>6, <2>1
  <2> HIDE DEF now, o
  <2>5. /\ o \in Nat
        /\ o + Len(st[b]) <= Len(h.sizes)
        /\ \A k \in 1 .. Len(st[b]) : h.sizes[o + k] = st[b][k]
    BY <1>3, <2>2 DEF o
  <2>6. ReadBlock(h, [read |-> o, sizes |-> now], b)
           = [read |-> o + Len(st[b]), sizes |-> now \o sizes[b]]
    <3>1. b \in 1 .. Len(sizes)
      BY DEF n
    <3>2. /\ o + Len(Stored(sizes)[b]) <= Len(h.sizes)
          /\ \A k \in 1 .. Len(Stored(sizes)[b]) : h.sizes[o + k] = Stored(sizes)[b][k]
      BY <2>5 DEF st
    <3>3. ReadBlock(h, [read |-> o, sizes |-> now], b)
             = [read |-> o + Len(Stored(sizes)[b]), sizes |-> now \o sizes[b]]
      BY <2>4, <2>5, <3>1, <3>2, ReadOne
    <3> QED
      BY <3>3 DEF st
  <2> QED
    BY <2>1, <2>2, <2>3, <2>6 DEF now, o
<1>8. g[0] = [read |-> 0, sizes |-> <<>>]
    BY <1>1, <1>3 DEF Offsets
<1>9. g = [b \in 0 .. n |-> IF b = 0 THEN [read |-> 0, sizes |-> <<>>] ELSE ReadBlock(h, g[b - 1], b)]
  <2>1. \A b \in 0 .. n : b # 0 => b \in 1 .. n
    BY <1>1
  <2>2. \A b \in 0 .. n :
           g[b] = IF b = 0 THEN [read |-> 0, sizes |-> <<>>] ELSE ReadBlock(h, g[b - 1], b)
    BY <1>7, <1>8, <2>1, Zenon
  <2>3. g = [b \in 0 .. n |-> g[b]]
    OBVIOUS
  <2> HIDE DEF g
  <2> QED
    BY <2>2, <2>3
<1> HIDE DEF g
<1>10. upto = [b \in 0 .. n |->
                  IF b = 0 THEN [read |-> 0, sizes |-> <<>>] ELSE ReadBlock(h, upto[b - 1], b)]
    BY <1>2, <1>9, Zenon
<1> HIDE DEF upto
<1>11. upto[n] = g[n]
  <2>1. upto[0] = g[0]
    BY <1>1, <1>8, <1>10
  <2>2. ASSUME NEW b \in 0 + 1 .. n, upto[b - 1] = g[b - 1]
        PROVE  upto[b] = g[b]
    <3>1. b \in 1 .. n /\ b \in 0 .. n /\ b # 0
      BY <1>1
    <3>2. upto[b] = ReadBlock(h, upto[b - 1], b)
      BY <1>10, <3>1
    <3> QED
      BY <1>7, <2>2, <3>1, <3>2
  <2>3. Agree(upto, g, 0, n)
    BY <2>1, <2>2 DEF Agree
  <2>4. \A b \in 0 .. n : upto[b] = g[b]
    BY <1>1, <2>3, SameSteps
  <2> QED
    BY <1>1, <2>4
<1>12. g[n].sizes = before(n)
    BY <1>1 DEF g
<1>13. before(n) = FlattenSeq(sizes)
  <2>1. sizes = <<>> <=> n = 0
    BY EmptySeq DEF n
  <2> QED
    BY <1>4, <2>1
<1> QED
    BY <1>5, <1>11, <1>12, <1>13

\* The sizes of the streams of each block.
StreamSizes(bs) == [b \in DOMAIN bs |-> SizesOf(StreamsIn(bs[b]))]

LEMMA SizesOfStreams ==
    ASSUME NEW bs \in Seq(Seq(Item))
    PROVE  /\ StreamSizes(bs) \in Seq(Seq(Nat)) /\ Len(StreamSizes(bs)) = Len(bs) /\ Len(bs) \in Nat
           /\ DOMAIN StreamSizes(bs) = 1 .. Len(bs)
           /\ \A b \in 1 .. Len(bs) :
                 /\ Len(StreamSizes(bs)[b]) = Len(StreamsIn(bs[b])) /\ Len(StreamsIn(bs[b])) \in Nat
                 /\ \A k \in 1 .. Len(StreamsIn(bs[b])) : StreamSizes(bs)[b][k] = StreamsIn(bs[b])[k].size
<1>1. Len(bs) \in Nat /\ DOMAIN bs = 1 .. Len(bs)
    BY LenProperties
<1> DEFINE sizes == StreamSizes(bs)
<1>2. ASSUME NEW b \in 1 .. Len(bs)
      PROVE  /\ sizes[b] \in Seq(Nat)
             /\ Len(sizes[b]) = Len(StreamsIn(bs[b])) /\ Len(StreamsIn(bs[b])) \in Nat
             /\ \A k \in 1 .. Len(StreamsIn(bs[b])) : sizes[b][k] = StreamsIn(bs[b])[k].size
  <2> DEFINE t == StreamsIn(bs[b])
             z == SizesOf(t)
  <2>1. bs[b] \in Seq(Item)
    BY ElementOfSeq
  <2>2. t \in Seq(Item)
    <3>1. \E m : Selects(t, m, bs[b], TRUE)
      BY <2>1, ThoseSelects DEF StreamsIn
    <3> QED
      BY <3>1 DEF Selects
  <2> HIDE DEF t
  <2>3. Len(t) \in Nat /\ DOMAIN t = 1 .. Len(t) /\ \A k \in 1 .. Len(t) : t[k] \in Item
    BY <2>2, LenProperties, ElementOfSeq
  <2>4. \A k \in 1 .. Len(t) : t[k].size \in Nat /\ z[k] = t[k].size
    BY <2>3 DEF SizesOf, Item
  <2>5. z = [k \in 1 .. Len(t) |-> z[k]]
    BY <2>3 DEF SizesOf
  <2> HIDE DEF z
  <2>6. z \in Seq(Nat) /\ Len(z) = Len(t)
    BY <2>3, <2>4, <2>5
  <2>7. sizes[b] = z
    BY <1>1 DEF StreamSizes, z, t
  <2> HIDE DEF sizes
  <2> QED
    BY <2>3, <2>4, <2>6, <2>7 DEF t
<1>3. sizes = [b \in 1 .. Len(bs) |-> sizes[b]]
    BY <1>1 DEF StreamSizes
<1> HIDE DEF sizes
<1>4. sizes \in Seq(Seq(Nat)) /\ Len(sizes) = Len(bs) /\ DOMAIN sizes = 1 .. Len(bs)
    BY <1>1, <1>2, <1>3
<1> QED
    BY <1>1, <1>2, <1>4 DEF sizes

\* Element i of the blocks laid one behind the other is in one of them.
LiesInABlock(off, bs, i) == \E b \in 1 .. Len(bs) : \E k \in 1 .. Len(bs[b]) : i = off[b - 1] + k

LEMMA ItemIsPlaced ==
    ASSUME NEW bs, NEW off, NEW i, bs \in Seq(Seq(Item)), Offsets(off, bs), i \in 1 .. off[Len(bs)]
    PROVE  LiesInABlock(off, bs, i)
BY OffsetOf DEF LiesInABlock

\* The n-th size is that of the n-th item with a stream.
LEMMA SizeOfStream ==
    ASSUME NEW bs, NEW off, NEW s, NEW n, Laid(bs, off, s, n),
           NEW i \in 1 .. Len(s), HasStream(s[i])
    PROVE  FlattenSeq(StreamSizes(bs))[n[i]] = s[i].size
<1> DEFINE z == StreamSizes(bs)
<1>1. /\ bs \in Seq(Seq(Item)) /\ Offsets(off, bs) /\ Counts(n, s, TRUE)
      /\ \A j \in 1 .. Len(s) : j > off[Len(bs)] => ~HasStream(s[j])
      /\ \A b \in 1 .. Len(bs) : \A k \in 1 .. Len(bs[b]) :
             off[b - 1] + k \in 1 .. off[Len(bs)] /\ s[off[b - 1] + k] = bs[b][k]
    BY Zenon DEF Laid
<1>2. /\ z \in Seq(Seq(Nat)) /\ Len(z) = Len(bs) /\ Len(bs) \in Nat
      /\ \A b \in 1 .. Len(bs) :
            /\ Len(z[b]) = Len(StreamsIn(bs[b])) /\ Len(StreamsIn(bs[b])) \in Nat
            /\ \A k \in 1 .. Len(StreamsIn(bs[b])) : z[b][k] = StreamsIn(bs[b])[k].size
    BY <1>1, SizesOfStreams
<1> HIDE DEF z
<1>3. PICK os : /\ Offsets(os, z)
                /\ \A b \in 1 .. Len(z) : \A k \in 1 .. Len(z[b]) :
                       FlattenSeq(z)[os[b - 1] + k] = z[b][k]
  <2>1. \E os : /\ Offsets(os, z) /\ Len(FlattenSeq(z)) = os[Len(z)]
                /\ \A b \in 1 .. Len(z) : \A k \in 1 .. Len(z[b]) :
                       os[b - 1] + k \in 1 .. os[Len(z)] /\ FlattenSeq(z)[os[b - 1] + k] = z[b][k]
    BY <1>2, FlatPlaces
  <2> QED
    BY <2>1
<1> DEFINE f == [b \in 0 .. Len(bs) |-> n[off[b]]]
<1>4. \A b \in 0 .. Len(bs) : os[b] = n[off[b]]
  <2>1. os[0] = f[0]
    <3>1. os[0] = 0 /\ off[0] = 0 /\ n[0] = 0 /\ 0 \in 0 .. Len(bs)
      BY <1>1, <1>2, <1>3 DEF Offsets, Counts
    <3> QED
      BY <3>1
  <2>2. ASSUME NEW b \in 0 + 1 .. Len(bs), os[b - 1] = f[b - 1]
        PROVE  os[b] = f[b]
    <3>1. b \in 1 .. Len(bs) /\ b \in 0 .. Len(bs) /\ b - 1 \in 0 .. Len(bs)
      BY <1>2
    <3>2. n[off[b]] = n[off[b - 1]] + Len(StreamsIn(bs[b]))
      BY <3>1, BlockCounts
    <3>3. os[b] = os[b - 1] + Len(StreamsIn(bs[b]))
      BY <1>2, <1>3, <3>1 DEF Offsets
    <3> QED
      BY <2>2, <3>1, <3>2, <3>3
  <2> HIDE DEF f
  <2>3. Agree(os, f, 0, Len(bs))
    BY <2>1, <2>2 DEF Agree
  <2>4. \A b \in 0 .. Len(bs) : os[b] = f[b]
    BY <1>2, <2>3, SameSteps
  <2> QED
    BY <2>4 DEF f
<1>5. i \in 1 .. off[Len(bs)]
  <2>1. off[Len(bs)] \in Nat
    <3>1. Len(bs) \in 0 .. Len(bs)
      BY <1>2
    <3> QED
      BY <1>1, <3>1 DEF Offsets
  <2>2. ~(i > off[Len(bs)])
    BY <1>1
  <2> QED
    BY <2>1, <2>2
<1>6. PICK b \in 1 .. Len(bs) : \E k \in 1 .. Len(bs[b]) : i = off[b - 1] + k
  <2> HIDE DEF f
  <2>1. bs \in Seq(Seq(Item)) /\ Offsets(off, bs)
    BY <1>1, Zenon
  <2>2. LiesInABlock(off, bs, i)
    BY <1>5, <2>1, ItemIsPlaced
  <2> QED
    BY <2>2, Zenon DEF LiesInABlock
<1>7. PICK k \in 1 .. Len(bs[b]) : i = off[b - 1] + k
    BY <1>6
<1>8. PICK m : CountsOn(n, off, b, bs[b], m)
    BY BlockCounts
<1>9. s[i] = bs[b][k] /\ b - 1 \in 0 .. Len(bs) /\ k \in 0 .. Len(bs[b])
  <2>1. b - 1 \in 0 .. Len(bs) /\ bs[b] \in Seq(Item)
    BY BlockCounts
  <2>2. Len(bs[b]) \in Nat
    BY <2>1, LenProperties
  <2>3. k \in 0 .. Len(bs[b])
    BY <2>2
  <2> QED
    BY <1>1, <1>7, <2>1, <2>3
<1> DEFINE t == StreamsIn(bs[b])
<1>10. n[i] = n[off[b - 1]] + m[k] /\ m[k] \in 1 .. Len(t) /\ t[m[k]] = s[i]
  <2>1. Selects(t, m, bs[b], TRUE) /\ n[i] = n[off[b - 1]] + m[k]
    BY <1>7, <1>8, <1>9 DEF CountsOn
  <2>2. HasStream(bs[b][k]) = TRUE
    BY <1>9 DEF HasStream
  <2> HIDE DEF t
  <2>3. m[k] \in 1 .. Len(t) /\ t[m[k]] = bs[b][k]
    BY <2>1, <2>2 DEF Selects
  <2> QED
    BY <1>9, <2>1, <2>3
<1> HIDE DEF t
<1>11. n[i] = os[b - 1] + m[k]
    BY <1>4, <1>9, <1>10
<1>12. z[b][m[k]] = s[i].size /\ m[k] \in 1 .. Len(z[b]) /\ b \in 1 .. Len(z)
    BY <1>2, <1>10 DEF t
<1>13. FlattenSeq(z)[os[b - 1] + m[k]] = z[b][m[k]]
    BY <1>3, <1>12
<1> QED
    BY <1>11, <1>12, <1>13 DEF z

\* An item has a stream or has none.
LEMMA BothCounts ==
    ASSUME NEW s \in Seq(Item), NEW n, NEW e, Counts(n, s, TRUE), Counts(e, s, FALSE),
           NEW i \in 0 .. Len(s)
    PROVE  i - e[i] = n[i] /\ i \in Nat /\ e[i] \in Nat
<1>1. Len(s) \in Nat
    BY LenProperties
<1> DEFINE f == [j \in 0 .. Len(s) |-> j]
           g == [j \in 0 .. Len(s) |-> n[j] + e[j]]
<1>2. f[0] = g[0]
    BY <1>1 DEF Counts
<1>3. ASSUME NEW j \in 0 + 1 .. Len(s), f[j - 1] = g[j - 1]
      PROVE  f[j] = g[j]
  <2>1. j \in 1 .. Len(s) /\ j \in 0 .. Len(s) /\ j - 1 \in 0 .. Len(s) /\ j \in Nat
    BY <1>1
  <2>2. n[j - 1] \in Nat /\ e[j - 1] \in Nat /\ n[j - 1] + e[j - 1] = j - 1
    BY <1>3, <2>1 DEF Counts
  <2>3. CASE HasStream(s[j])
    <3>1. n[j] = n[j - 1] + 1 /\ e[j] = e[j - 1]
      BY <2>1, <2>3 DEF Counts, HasStream
    <3> QED
      BY <2>1, <2>2, <3>1
  <2>4. CASE ~HasStream(s[j])
    <3>1. n[j] = n[j - 1] /\ e[j] = e[j - 1] + 1
      BY <2>1, <2>4 DEF Counts, HasStream
    <3> QED
      BY <2>1, <2>2, <3>1
  <2> QED
    BY <2>3, <2>4
<1>4. i = n[i] + e[i]
  <2> HIDE DEF f, g
  <2>1. Agree(f, g, 0, Len(s))
    BY <1>2, <1>3 DEF Agree
  <2>2. f[i] = g[i]
    BY <1>1, <2>1, SameSteps
  <2> QED
    BY <2>2 DEF f, g
<1>5. n[i] \in Nat /\ e[i] \in Nat
    BY DEF Counts
<1> QED
    BY <1>4, <1>5

\* The decoder finds the size of every item.
SizesAreKnown == \A i \in 1 .. NumFiles(archive) : db.files[i].size = Items(archive)[i].size

LEMMA HeaderKeeps == Keeps(Header(archive), StreamSizes(archive.blocks))
BY DEF Keeps, Header, StreamSizes, Stored

LEMMA SizesKnown ==
    ASSUME LaidOut, db = ReadHeader(Header(archive))
    PROVE  SizesAreKnown
<1> DEFINE s == Items(archive)
           bs == archive.blocks
           h == Header(archive)
<1>1. s \in Seq(Item) /\ Len(s) = NumFiles(archive) /\ DOMAIN s = 1 .. Len(s) /\ Len(s) \in Nat
    BY NamesDiffer, LenProperties DEF NumFiles
<1>2. PICK off, n : Laid(bs, off, s, n)
    BY LaidDown
<1>3. h.emptyStream = [i \in DOMAIN s |-> ~HasStream(s[i])] /\ Keeps(h, StreamSizes(bs))
    BY HeaderKeeps DEF Header
<1>4. db.files = Files(h)
    BY DEF ReadHeader
<1> HIDE DEF s, bs, h
<1>5. UnPackSizes(h) = FlattenSeq(StreamSizes(bs))
  <2>1. StreamSizes(bs) \in Seq(Seq(Nat))
    BY <1>2, SizesOfStreams DEF Laid
  <2> QED
    BY <1>3, <2>1, SizesRead
<1>6. PICK e : Counts(e, s, FALSE)
  <2>1. PICK e : Selects(Those(s, FALSE), e, s, FALSE)
    BY <1>1, ThoseSelects
  <2> QED
    BY <2>1, Zenon DEF Selects
<1> SUFFICES ASSUME NEW i \in 1 .. Len(s)
             PROVE  Files(h)[i].size = s[i].size
    BY <1>1, <1>4 DEF SizesAreKnown, s
<1>7. i \in DOMAIN h.emptyStream /\ h.emptyStream[i] = ~HasStream(s[i]) /\ i \in 0 .. Len(s)
    BY <1>1, <1>3
<1>8. CASE HasStream(s[i])
  <2>1. CountTo(h.emptyStream, i) = e[i]
    <3> DEFINE flags == h.emptyStream
    <3>1. flags = [j \in DOMAIN s |-> ~HasStream(s[j])]
      BY <1>3
    <3> HIDE DEF flags
    <3>2. CountTo(flags, i) = e[i]
      BY <1>1, <1>6, <1>7, <3>1, CountToIs
    <3> QED
      BY <3>2 DEF flags
  <2>2. i - e[i] = n[i]
    <3>1. Counts(n, s, TRUE)
      BY <1>2, Zenon DEF Laid
    <3> QED
      BY <1>1, <1>6, <1>7, <3>1, BothCounts
  <2>3. Files(h)[i].size = UnPackSizes(h)[i - e[i]]
    BY <1>7, <1>8, <2>1 DEF Files
  <2>4. FlattenSeq(StreamSizes(bs))[n[i]] = s[i].size
    BY <1>2, <1>8, SizeOfStream
  <2> QED
    BY <1>5, <2>2, <2>3, <2>4
<1>9. CASE ~HasStream(s[i])
  <2>1. Files(h)[i].size = 0
    BY <1>7, <1>9 DEF Files
  <2>2. s[i] \in Item
    BY <1>1, ElementOfSeq
  <2>3. s[i].size \in Nat /\ ~(s[i].size > 0)
    BY <1>9, <2>2 DEF Item, HasStream
  <2> QED
    BY <2>1, <2>3
<1> QED
    BY <1>8, <1>9

-----------------------------------------------------------------------------
(* The places the decoder gives the items                                   *)

LEMMA MinIs ==
    ASSUME NEW S \in SUBSET Nat, S # {}
    PROVE  Min(S) \in S /\ \A y \in S : Min(S) <= y
<1>1. \E x \in S : \A y \in S : x <= y
    BY Least
<1> QED
    BY <1>1 DEF Min

\* Where SzArDbExFill is.
Filling(h) == [error : BOOLEAN, block : Nat, inBlock : Nat, map : Seq(Nat), start : [DOMAIN h.streams -> Nat]]

\* An item without a stream between two blocks.
FilledNone(h, v, w) ==
    /\ w \in Filling(h) /\ ~w.error /\ w.block = v.block /\ w.inBlock = v.inBlock
    /\ w.map = Append(v.map, NoBlock) /\ w.start = v.start

LEMMA FillNothing ==
    ASSUME NEW h, NEW v \in Filling(h), ~v.error, NEW i \in Nat, v.inBlock = 0
    PROVE  FilledNone(h, v, FillItem(h, v, i, FALSE))
<1>1. FillItem(h, v, i, FALSE) = [v EXCEPT !.map = Append(@, NoBlock)]
    BY DEF FillItem
<1>2. Append(v.map, NoBlock) \in Seq(Nat)
  <2>1. v.map \in Seq(Nat) /\ NoBlock \in Nat
    BY DEF Filling, NoBlock
  <2> QED
    BY <2>1, AppendProperties
<1> DEFINE w == [v EXCEPT !.map = Append(@, NoBlock)]
<1>3. /\ w.error = v.error /\ w.block = v.block /\ w.inBlock = v.inBlock
      /\ w.map = Append(v.map, NoBlock) /\ w.start = v.start /\ w \in Filling(h)
    BY <1>2 DEF Filling
<1> QED
    BY <1>1, <1>3 DEF FilledNone

\* There is no block left.
LEMMA FillNoMore ==
    ASSUME NEW h, NEW v \in Filling(h), ~v.error, NEW i \in Nat,
           v.inBlock = 0, NonEmptyFrom(h, v.block) = {}
    PROVE  FillItem(h, v, i, TRUE) \in Filling(h)
<1>1. FillItem(h, v, i, TRUE) = [v EXCEPT !.error = TRUE]
    BY DEF FillItem
<1> QED
    BY <1>1 DEF Filling

\* An item in block b.
FilledIn(h, v, w, i, stream, b) ==
    LET ends == stream /\ v.inBlock + 1 >= h.streams[b]
    IN  /\ w \in Filling(h) /\ ~w.error
        /\ w.block = IF ends THEN b + 1 ELSE b
        /\ w.inBlock = IF ends THEN 0 ELSE IF stream THEN v.inBlock + 1 ELSE v.inBlock
        /\ w.map = Append(v.map, b)
        /\ w.start = [c \in DOMAIN h.streams |->
                         IF v.inBlock = 0 /\ c \in v.block .. b THEN i ELSE v.start[c]]

LEMMA FillPlace ==
    ASSUME NEW h, NEW v \in Filling(h), ~v.error, NEW i \in Nat, NEW stream \in BOOLEAN,
           v.inBlock = 0 => stream /\ NonEmptyFrom(h, v.block) # {},
           NEW b \in Nat, b = IF v.inBlock = 0 THEN Min(NonEmptyFrom(h, v.block)) ELSE v.block
    PROVE  FilledIn(h, v, FillItem(h, v, i, stream), i, stream, b)
<1> DEFINE ends == stream /\ v.inBlock + 1 >= h.streams[b]
           new == [c \in DOMAIN v.start |->
                      IF v.inBlock = 0 /\ c \in v.block .. b THEN i ELSE v.start[c]]
           w == [v EXCEPT !.map = Append(@, b), !.start = new,
                          !.block = IF ends THEN b + 1 ELSE b,
                          !.inBlock = IF ends THEN 0 ELSE IF stream THEN @ + 1 ELSE @]
<1>1. FillItem(h, v, i, stream) = FillStream(h, v, i, stream)
    BY DEF FillItem
<1>2. FillStream(h, v, i, stream) = w
    BY DEF FillStream, EndsBlock
<1>3. /\ v.map \in Seq(Nat) /\ v.inBlock \in Nat /\ v.start \in [DOMAIN h.streams -> Nat] /\ v.error \in BOOLEAN
    BY DEF Filling
<1>4. Append(v.map, b) \in Seq(Nat)
    BY <1>3, AppendProperties
<1>5. /\ new = [c \in DOMAIN h.streams |->
                   IF v.inBlock = 0 /\ c \in v.block .. b THEN i ELSE v.start[c]]
      /\ new \in [DOMAIN h.streams -> Nat]
    BY <1>3
<1>6. /\ (IF ends THEN b + 1 ELSE b) \in Nat
      /\ (IF ends THEN 0 ELSE IF stream THEN v.inBlock + 1 ELSE v.inBlock) \in Nat
    BY <1>3
<1> HIDE DEF ends, new
<1>7. /\ w.error = v.error /\ w.block = (IF ends THEN b + 1 ELSE b)
      /\ w.inBlock = (IF ends THEN 0 ELSE IF stream THEN v.inBlock + 1 ELSE v.inBlock)
      /\ w.map = Append(v.map, b) /\ w.start = new
    BY DEF Filling
<1>8. w \in Filling(h)
    BY <1>4, <1>5, <1>6 DEF Filling
<1> HIDE DEF w
<1> QED
    BY <1>1, <1>2, <1>5, <1>7, <1>8 DEF ends, FilledIn

LEMMA FromIsNat ==
    ASSUME NEW h, h.streams \in Seq(Nat), NEW block \in Nat
    PROVE  NonEmptyFrom(h, block) \subseteq Nat
<1>1. Len(h.streams) \in Nat
    BY LenProperties
<1> QED
    BY <1>1 DEF NonEmptyFrom

LEMMA FillStays ==
    ASSUME NEW h, h.streams \in Seq(Nat), NEW v \in Filling(h), NEW i \in Nat, NEW stream \in BOOLEAN
    PROVE  FillItem(h, v, i, stream) \in Filling(h)
<1>1. v.block \in Nat /\ v.inBlock \in Nat
    BY DEF Filling
<1>2. CASE v.error
    BY <1>2 DEF FillItem
<1>3. CASE ~v.error /\ v.inBlock = 0 /\ stream = FALSE
  <2>1. FilledNone(h, v, FillItem(h, v, i, FALSE))
    BY <1>3, FillNothing
  <2> QED
    BY <1>3, <2>1 DEF FilledNone
<1>4. CASE ~v.error /\ v.inBlock = 0 /\ stream = TRUE /\ NonEmptyFrom(h, v.block) = {}
  <2>1. FillItem(h, v, i, TRUE) \in Filling(h)
    BY <1>4, FillNoMore
  <2> QED
    BY <1>4, <2>1
<1>5. CASE ~v.error /\ (v.inBlock = 0 => stream /\ NonEmptyFrom(h, v.block) # {})
  <2> DEFINE b == IF v.inBlock = 0 THEN Min(NonEmptyFrom(h, v.block)) ELSE v.block
  <2>1. b \in Nat
    <3>1. NonEmptyFrom(h, v.block) \subseteq Nat
      BY <1>1, FromIsNat
    <3>2. v.inBlock = 0 => Min(NonEmptyFrom(h, v.block)) \in NonEmptyFrom(h, v.block)
      BY <1>5, <3>1, MinIs
    <3> QED
      BY <1>1, <3>1, <3>2
  <2>2. b = IF v.inBlock = 0 THEN Min(NonEmptyFrom(h, v.block)) ELSE v.block
    OBVIOUS
  <2> HIDE DEF b
  <2>3. FilledIn(h, v, FillItem(h, v, i, stream), i, stream, b)
    BY <1>5, <2>1, <2>2, FillPlace
  <2> QED
    BY <2>3 DEF FilledIn
<1> QED
    BY <1>2, <1>3, <1>4, <1>5

FillStart(h) ==
    [error |-> FALSE, block |-> 1, inBlock |-> 0, map |-> <<>>, start |-> [b \in DOMAIN h.streams |-> 0]]

\* f follows the items.
Fills(f, h) ==
    /\ f \in [0 .. Len(h.emptyStream) -> Filling(h)] /\ f[0] = FillStart(h)
    /\ \A i \in 1 .. Len(h.emptyStream) : f[i] = FillItem(h, f[i - 1], i, ~h.emptyStream[i])

LEMMA FillRuns ==
    ASSUME NEW h, h.streams \in Seq(Nat), h.emptyStream \in Seq(BOOLEAN)
    PROVE  \E f : Fills(f, h) /\ Fill(h) = f[Len(h.emptyStream)]
<1> DEFINE n == Len(h.emptyStream)
           V == Filling(h)
           op == [x \in V \X (1 .. n) |-> FillItem(h, x[1], x[2], ~h.emptyStream[x[2]])]
           upto[i \in 0 .. Len(h.emptyStream)] ==
               IF i = 0
               THEN [error |-> FALSE, block |-> 1, inBlock |-> 0, map |-> <<>>,
                     start |-> [b \in DOMAIN h.streams |-> 0]]
               ELSE FillItem(h, upto[i - 1], i, ~h.emptyStream[i])
<1>1. n \in Nat
    BY LenProperties
<1>2. Fill(h) = upto[n]
    BY DEF Fill
<1>3. FillStart(h) \in V
  <2>1. <<>> \in Seq(Nat) /\ [b \in DOMAIN h.streams |-> 0] \in [DOMAIN h.streams -> Nat]
    BY EmptySeq
  <2> QED
    BY <2>1 DEF FillStart, Filling
<1>4. ASSUME NEW i \in 0 + 1 .. n, NEW v \in V
      PROVE  op[<<v, i>>] = FillItem(h, v, i, ~h.emptyStream[i]) /\ op[<<v, i>>] \in V
  <2>1. i \in 1 .. n /\ i \in Nat
    BY <1>1
  <2> DEFINE stream == ~h.emptyStream[i]
  <2>2. stream \in BOOLEAN
    OBVIOUS
  <2>3. op[<<v, i>>] = FillItem(h, v, i, stream)
    BY <2>1
  <2> HIDE DEF stream, op, n
  <2>4. FillItem(h, v, i, stream) \in V
    BY <2>1, <2>2, FillStays
  <2> QED
    BY <2>3, <2>4 DEF stream
<1> HIDE DEF op, V
<1>5. PICK f : Recurs(f, op, FillStart(h), V, 0, n)
  <2> HIDE DEF n
  <2>1. StaysIn(op, V, 0, n)
    BY <1>4, Zenon DEF StaysIn
  <2>2. 0 \in Nat /\ 0 <= n
    BY <1>1
  <2> QED
    BY <1>1, <1>3, <2>1, <2>2, Recursion
<1>6. ASSUME NEW i \in 1 .. n
      PROVE  f[i] = FillItem(h, f[i - 1], i, ~h.emptyStream[i])
  <2> HIDE DEF n
  <2>1. i \in 0 + 1 .. n /\ i - 1 \in 0 .. n
    BY <1>1
  <2>2. f[i - 1] \in V /\ f[i] = op[<<f[i - 1], i>>]
    BY <1>5, <2>1 DEF Recurs
  <2> QED
    BY <1>4, <2>1, <2>2
<1>7. f[0] = FillStart(h) /\ f \in [0 .. n -> V]
    BY <1>5 DEF Recurs
<1>8. f = [i \in 0 .. Len(h.emptyStream) |->
              IF i = 0
              THEN [error |-> FALSE, block |-> 1, inBlock |-> 0, map |-> <<>>,
                    start |-> [b \in DOMAIN h.streams |-> 0]]
              ELSE FillItem(h, f[i - 1], i, ~h.emptyStream[i])]
  <2>1. \A i \in 0 .. n : i # 0 => i \in 1 .. n
    BY <1>1
  <2>2. \A i \in 0 .. n : f[i] = IF i = 0 THEN FillStart(h) ELSE FillItem(h, f[i - 1], i, ~h.emptyStream[i])
    BY <1>6, <1>7, <2>1, Zenon
  <2>3. f = [i \in 0 .. n |-> f[i]]
    BY <1>7
  <2> QED
    BY <2>2, <2>3 DEF FillStart
<1>9. upto = [i \in 0 .. Len(h.emptyStream) |->
                 IF i = 0
                 THEN [error |-> FALSE, block |-> 1, inBlock |-> 0, map |-> <<>>,
                       start |-> [b \in DOMAIN h.streams |-> 0]]
                 ELSE FillItem(h, upto[i - 1], i, ~h.emptyStream[i])]
    BY <1>8, Zenon
<1> HIDE DEF upto
<1>10. \A i \in 0 .. n : upto[i] = IF i = 0 THEN FillStart(h) ELSE FillItem(h, upto[i - 1], i, ~h.emptyStream[i])
    BY <1>9, Zenon DEF FillStart
<1> HIDE DEF n
<1>11. upto[n] = f[n]
  <2>1. upto[0] = f[0]
    <3>1. 0 \in 0 .. n
      BY <1>1
    <3> QED
      BY <1>7, <1>10, <3>1
  <2>2. ASSUME NEW i \in 0 + 1 .. n, upto[i - 1] = f[i - 1]
        PROVE  upto[i] = f[i]
    <3>1. i \in 1 .. n /\ i \in 0 .. n /\ i # 0
      BY <1>1
    <3> QED
      BY <1>6, <1>10, <2>2, <3>1, Zenon
  <2>3. Agree(upto, f, 0, n)
    BY <2>1, <2>2 DEF Agree
  <2>4. \A i \in 0 .. n : upto[i] = f[i]
    BY <1>1, <2>3, SameSteps
  <2> QED
    BY <1>1, <2>4
<1>12. Fills(f, h)
    BY <1>6, <1>7 DEF Fills, n, V
<1> QED
    BY <1>2, <1>11, <1>12 DEF n

\* c counts the streams of the first blocks, n those of the first items.
Streamed(h, c, n) ==
    /\ h.streams \in Seq(Nat) /\ h.emptyStream \in Seq(BOOLEAN)
    /\ c \in [0 .. Len(h.streams) -> Nat] /\ c[0] = 0
    /\ \A b \in 1 .. Len(h.streams) : c[b] = c[b - 1] + h.streams[b]
    /\ n \in [0 .. Len(h.emptyStream) -> Nat] /\ n[0] = 0
    /\ \A i \in 1 .. Len(h.emptyStream) : n[i] = IF h.emptyStream[i] THEN n[i - 1] ELSE n[i - 1] + 1
    /\ n[Len(h.emptyStream)] <= c[Len(h.streams)]

\* The first stream of block b is that of an item up to i.
Begun(h, c, n, start, b, i) ==
    start[b] \in 1 .. i /\ ~h.emptyStream[start[b]] /\ n[start[b]] = c[b - 1] + 1

\* Item j is given the block that holds its stream.
Placed(h, c, n, map, start, j) ==
    /\ map[j] \in 1 .. Len(h.streams)
    /\ c[map[j] - 1] < n[j] /\ n[j] <= c[map[j]]
    /\ Begun(h, c, n, start, map[j], j)

FillInv(h, c, n, u, i) ==
    /\ u \in Filling(h) /\ ~u.error /\ Len(u.map) = i
    /\ u.block \in 1 .. Len(h.streams) + 1
    /\ c[u.block - 1] + u.inBlock = n[i]
    /\ u.inBlock > 0 => /\ u.block <= Len(h.streams) /\ u.inBlock < h.streams[u.block]
                        /\ Begun(h, c, n, u.start, u.block, i)
    /\ \A j \in 1 .. i : ~h.emptyStream[j] => Placed(h, c, n, u.map, u.start, j)

LEMMA StreamsGrow ==
    ASSUME NEW h, NEW c, NEW n, Streamed(h, c, n)
    PROVE  /\ Len(h.streams) \in Nat /\ Len(h.emptyStream) \in Nat
           /\ Grows(c, Len(h.streams)) /\ Grows(n, Len(h.emptyStream))
<1>1. Len(h.streams) \in Nat /\ Len(h.emptyStream) \in Nat
    BY LenProperties DEF Streamed
<1>2. ASSUME NEW b \in 1 .. Len(h.streams)
      PROVE  c[b - 1] <= c[b]
  <2>1. b - 1 \in 0 .. Len(h.streams) /\ h.streams[b] \in Nat
    BY <1>1, ElementOfSeq DEF Streamed
  <2>2. c[b - 1] \in Nat /\ c[b] = c[b - 1] + h.streams[b]
    BY <2>1 DEF Streamed
  <2> QED
    BY <2>1, <2>2
<1>3. ASSUME NEW i \in 1 .. Len(h.emptyStream)
      PROVE  n[i - 1] <= n[i]
  <2>1. i - 1 \in 0 .. Len(h.emptyStream)
    BY <1>1
  <2>2. n[i - 1] \in Nat /\ (n[i] = n[i - 1] \/ n[i] = n[i - 1] + 1)
    BY <2>1 DEF Streamed
  <2> QED
    BY <2>2
<1>4. Grows(c, Len(h.streams))
    BY <1>2 DEF Grows, Streamed
<1>5. Grows(n, Len(h.emptyStream))
    BY <1>3 DEF Grows, Streamed
<1> QED
    BY <1>1, <1>4, <1>5

\* Blocks without a stream add nothing.
LEMMA EmptyBlocks ==
    ASSUME NEW h, NEW c, NEW n, Streamed(h, c, n),
           NEW lo \in 0 .. Len(h.streams), NEW hi \in 0 .. Len(h.streams), lo <= hi,
           \A b \in lo + 1 .. hi : h.streams[b] = 0
    PROVE  c[hi] = c[lo]
<1>1. Len(h.streams) \in Nat /\ lo \in Nat /\ hi \in Nat
    BY StreamsGrow
<1> DEFINE g == [b \in lo .. hi |-> c[lo]]
<1>2. c[lo] = g[lo]
    BY <1>1
<1>3. ASSUME NEW b \in lo + 1 .. hi, c[b - 1] = g[b - 1]
      PROVE  c[b] = g[b]
  <2>1. b \in 1 .. Len(h.streams) /\ b - 1 \in lo .. hi /\ b \in lo .. hi /\ b - 1 \in 0 .. Len(h.streams)
    BY <1>1
  <2>2. c[b] = c[b - 1] + h.streams[b] /\ h.streams[b] = 0 /\ c[b - 1] \in Nat
    BY <2>1 DEF Streamed
  <2> QED
    BY <1>3, <2>1, <2>2
<1> HIDE DEF g
<1>4. Agree(c, g, lo, hi)
    BY <1>2, <1>3 DEF Agree
<1>5. c[hi] = g[hi]
  <2>1. hi \in lo .. hi
    BY <1>1
  <2> QED
    BY <1>1, <1>4, <2>1, SameSteps
<1> QED
    BY <1>1, <1>5 DEF g

\* b is the next block with a stream.
NextIs(h, c, block, b) ==
    /\ NonEmptyFrom(h, block) # {}
    /\ b \in block .. Len(h.streams) /\ b \in 1 .. Len(h.streams)
    /\ h.streams[b] \in Nat \ {0} /\ c[b - 1] = c[block - 1]

LEMMA NextBlock ==
    ASSUME NEW h, NEW c, NEW n, Streamed(h, c, n), NEW block \in 1 .. Len(h.streams) + 1,
           c[block - 1] < c[Len(h.streams)]
    PROVE  NextIs(h, c, block, Min(NonEmptyFrom(h, block)))
<1> DEFINE m == Len(h.streams)
           S == NonEmptyFrom(h, block)
<1>1. m \in Nat /\ block \in Nat /\ block - 1 \in 0 .. m
    BY StreamsGrow
<1>2. \A b \in 1 .. m : h.streams[b] \in Nat
    BY ElementOfSeq DEF Streamed
<1>3. S \subseteq Nat /\ \A b : b \in S <=> b \in block .. m /\ h.streams[b] # 0
    BY <1>1 DEF NonEmptyFrom
<1> HIDE DEF m, S
<1>4. S # {}
  <2> SUFFICES ASSUME S = {} PROVE FALSE
    OBVIOUS
  <2>1. \A b \in (block - 1) + 1 .. m : h.streams[b] = 0
    BY <1>1, <1>3
  <2>2. m \in 0 .. m /\ block - 1 <= m
    BY <1>1
  <2>3. c[m] = c[block - 1]
    BY <1>1, <2>1, <2>2, EmptyBlocks DEF m
  <2>4. c[m] \in Nat
    BY <2>2 DEF Streamed, m
  <2> QED
    BY <2>3, <2>4 DEF m
<1> DEFINE b == Min(S)
<1>5. b \in S /\ \A x \in S : b <= x
    BY <1>3, <1>4, MinIs
<1> HIDE DEF b
<1>6. b \in block .. m /\ b \in 1 .. m /\ h.streams[b] # 0 /\ b - 1 \in 0 .. m /\ block - 1 <= b - 1
    BY <1>1, <1>3, <1>5
<1>7. \A x \in (block - 1) + 1 .. b - 1 : h.streams[x] = 0
  <2> SUFFICES ASSUME NEW x \in (block - 1) + 1 .. b - 1, h.streams[x] # 0 PROVE FALSE
    OBVIOUS
  <2>1. x \in block .. m /\ ~(b <= x)
    BY <1>1, <1>6
  <2> QED
    BY <1>3, <1>5, <2>1
<1>8. c[b - 1] = c[block - 1]
    BY <1>1, <1>6, <1>7, EmptyBlocks DEF m
<1>9. h.streams[b] \in Nat \ {0}
    BY <1>2, <1>6
<1>10. h.streams[b] \in Nat \ {0} /\ c[b - 1] = c[block - 1] /\ b \in block .. m /\ b \in 1 .. m
    BY <1>6, <1>8, <1>9
<1> QED
    BY <1>4, <1>10, Zenon DEF b, S, m, NextIs

LEMMA FillStarts ==
    ASSUME NEW h, NEW c, NEW n, Streamed(h, c, n)
    PROVE  FillInv(h, c, n, FillStart(h), 0)
<1> DEFINE u == FillStart(h)
<1>1. /\ u.error = FALSE /\ u.block = 1 /\ u.inBlock = 0 /\ u.map = <<>>
      /\ u.start = [b \in DOMAIN h.streams |-> 0]
    BY DEF FillStart
<1>2. u \in Filling(h)
  <2>1. <<>> \in Seq(Nat) /\ [b \in DOMAIN h.streams |-> 0] \in [DOMAIN h.streams -> Nat]
    BY EmptySeq
  <2> QED
    BY <2>1 DEF FillStart, Filling
<1> HIDE DEF u
<1>3. Len(h.streams) \in Nat
    BY StreamsGrow
<1>4. Len(u.map) = 0 /\ u.block \in 1 .. Len(h.streams) + 1 /\ ~(u.inBlock > 0) /\ u.block - 1 = 0
    BY <1>1, <1>3
<1>5. c[0] = 0 /\ n[0] = 0
    BY DEF Streamed
<1>6. \A j \in 1 .. 0 : FALSE
    OBVIOUS
<1> QED
    BY <1>1, <1>2, <1>4, <1>5, <1>6 DEF FillInv, u

\* What is given to the earlier items stays.
StartsStay(h, u, w, i) ==
    \A j \in 1 .. i - 1 : ~h.emptyStream[j] => w.start[u.map[j]] = u.start[u.map[j]]
StillPlaced(h, c, n, w, i, x) ==
    /\ Len(w.map) = i /\ w.map[i] = x
    /\ \A j \in 1 .. i - 1 : ~h.emptyStream[j] => Placed(h, c, n, w.map, w.start, j)

LEMMA PlacedStill ==
    ASSUME NEW h, NEW c, NEW n, Streamed(h, c, n), NEW i \in 1 .. Len(h.emptyStream),
           NEW u, FillInv(h, c, n, u, i - 1), NEW w, NEW x \in Nat, w.map = Append(u.map, x),
           StartsStay(h, u, w, i)
    PROVE  StillPlaced(h, c, n, w, i, x)
<1>1. u.map \in Seq(Nat) /\ Len(u.map) = i - 1
    BY DEF FillInv, Filling
<1>2. i \in Nat \ {0}
    BY StreamsGrow
<1>3. Len(w.map) = i /\ w.map[i] = x /\ \A j \in 1 .. i - 1 : w.map[j] = u.map[j]
  <2>1. /\ Len(w.map) = Len(u.map) + 1 /\ w.map[Len(u.map) + 1] = x
        /\ \A j \in 1 .. Len(u.map) : w.map[j] = u.map[j]
    BY <1>1, AppendProperties
  <2>2. Len(u.map) + 1 = i
    BY <1>1, <1>2
  <2> QED
    BY <1>1, <2>1, <2>2
<1>4. ASSUME NEW j \in 1 .. i - 1, ~h.emptyStream[j]
      PROVE  Placed(h, c, n, w.map, w.start, j)
  <2>1. Placed(h, c, n, u.map, u.start, j)
    BY <1>4 DEF FillInv
  <2>2. w.map[j] = u.map[j] /\ w.start[u.map[j]] = u.start[u.map[j]]
    BY <1>3, <1>4 DEF StartsStay
  <2> QED
    BY <2>1, <2>2 DEF Placed, Begun
<1> QED
    BY <1>3, <1>4 DEF StillPlaced

\* Between two blocks the blocks before hold the streams so far.
LEMMA BlocksBefore ==
    ASSUME NEW h, NEW c, NEW n, Streamed(h, c, n), NEW i \in 1 .. Len(h.emptyStream),
           NEW u, FillInv(h, c, n, u, i - 1), u.inBlock = 0,
           NEW j \in 1 .. i - 1, ~h.emptyStream[j]
    PROVE  u.map[j] \in 1 .. Len(h.streams) /\ u.map[j] < u.block
<1>1. /\ Len(h.streams) \in Nat /\ Len(h.emptyStream) \in Nat
      /\ Grows(c, Len(h.streams)) /\ Grows(n, Len(h.emptyStream))
    BY StreamsGrow
<1> DEFINE b == u.map[j]
<1>2. b \in 1 .. Len(h.streams) /\ c[b - 1] < n[j]
    BY DEF FillInv, Placed
<1>3. u.block \in 1 .. Len(h.streams) + 1 /\ c[u.block - 1] + 0 = n[i - 1]
    BY DEF FillInv
<1> HIDE DEF b
<1>4. j \in 0 .. Len(h.emptyStream) /\ i - 1 \in 0 .. Len(h.emptyStream) /\ j <= i - 1
    BY <1>1
<1>5. n[j] <= n[i - 1] /\ n[j] \in Nat /\ n[i - 1] \in Nat
    BY <1>1, <1>4, GrowsFurther DEF Grows
<1> SUFFICES ASSUME ~(b < u.block) PROVE FALSE
    BY <1>2 DEF b
<1>6. u.block - 1 \in 0 .. Len(h.streams) /\ b - 1 \in 0 .. Len(h.streams) /\ u.block - 1 <= b - 1
    BY <1>1, <1>2, <1>3
<1>7. c[u.block - 1] <= c[b - 1] /\ c[u.block - 1] \in Nat /\ c[b - 1] \in Nat
    BY <1>1, <1>6, GrowsFurther DEF Grows
<1> QED
    BY <1>2, <1>3, <1>5, <1>7

LEMMA KeepsNothing ==
    ASSUME NEW h, NEW c, NEW n, Streamed(h, c, n), NEW i \in 1 .. Len(h.emptyStream),
           NEW u, FillInv(h, c, n, u, i - 1), u.inBlock = 0, h.emptyStream[i]
    PROVE  FillInv(h, c, n, FillItem(h, u, i, FALSE), i)
<1> DEFINE w == FillItem(h, u, i, FALSE)
<1>1. i \in Nat \ {0}
    BY StreamsGrow
<1>2. u \in Filling(h) /\ ~u.error
    BY DEF FillInv
<1>3. /\ w \in Filling(h) /\ ~w.error /\ w.block = u.block /\ w.inBlock = 0
      /\ w.map = Append(u.map, NoBlock) /\ w.start = u.start
  <2>1. FilledNone(h, u, w)
    BY <1>1, <1>2, FillNothing
  <2> QED
    BY <2>1, Zenon DEF FilledNone
<1> HIDE DEF w
<1>4. NoBlock \in Nat
    BY DEF NoBlock
<1>5. StillPlaced(h, c, n, w, i, NoBlock)
  <2>1. StartsStay(h, u, w, i)
    BY <1>3 DEF StartsStay
  <2> QED
    BY <1>3, <1>4, <2>1, PlacedStill
<1>6. n[i] = n[i - 1]
    BY Zenon DEF Streamed
<1>7. c[w.block - 1] + w.inBlock = n[i] /\ w.block \in 1 .. Len(h.streams) + 1
    BY <1>3, <1>6 DEF FillInv
<1>8. \A j \in 1 .. i : ~h.emptyStream[j] => j \in 1 .. i - 1
    BY <1>1
<1>9. ~(w.inBlock > 0)
    BY <1>3
<1> QED
    BY <1>3, <1>5, <1>7, <1>8, <1>9 DEF FillInv, w, StillPlaced

LEMMA KeepsNext ==
    ASSUME NEW h, NEW c, NEW n, Streamed(h, c, n), NEW i \in 1 .. Len(h.emptyStream),
           NEW u, FillInv(h, c, n, u, i - 1), u.inBlock = 0, ~h.emptyStream[i]
    PROVE  FillInv(h, c, n, FillItem(h, u, i, ~h.emptyStream[i]), i)
<1> DEFINE stream == ~h.emptyStream[i]
           w == FillItem(h, u, i, stream)
           b == Min(NonEmptyFrom(h, u.block))
<1>1. /\ Len(h.streams) \in Nat /\ Len(h.emptyStream) \in Nat
      /\ Grows(c, Len(h.streams)) /\ Grows(n, Len(h.emptyStream)) /\ i \in Nat \ {0}
    BY StreamsGrow
<1>2. u \in Filling(h) /\ ~u.error /\ u.block \in 1 .. Len(h.streams) + 1
    BY DEF FillInv
<1>3. c[u.block - 1] + 0 = n[i - 1]
    BY DEF FillInv
<1>4. /\ n[i] = n[i - 1] + 1 /\ n[i - 1] \in Nat /\ n[i] \in Nat /\ c[u.block - 1] \in Nat
      /\ c[u.block - 1] < c[Len(h.streams)]
  <2>1. i \in 0 .. Len(h.emptyStream) /\ i - 1 \in 0 .. Len(h.emptyStream)
        /\ Len(h.emptyStream) \in 0 .. Len(h.emptyStream) /\ i <= Len(h.emptyStream)
        /\ u.block - 1 \in 0 .. Len(h.streams) /\ Len(h.streams) \in 0 .. Len(h.streams)
    BY <1>1, <1>2
  <2>2. n[i] = n[i - 1] + 1 /\ n[Len(h.emptyStream)] <= c[Len(h.streams)]
    BY DEF Streamed
  <2>3. n[i] <= n[Len(h.emptyStream)]
    BY <1>1, <2>1, GrowsFurther
  <2>4. /\ n[i] \in Nat /\ n[i - 1] \in Nat /\ n[Len(h.emptyStream)] \in Nat
        /\ c[u.block - 1] \in Nat /\ c[Len(h.streams)] \in Nat
    BY <2>1 DEF Streamed
  <2> QED
    BY <1>3, <2>2, <2>3, <2>4
<1>5. /\ NonEmptyFrom(h, u.block) # {} /\ b \in u.block .. Len(h.streams) /\ b \in 1 .. Len(h.streams)
      /\ h.streams[b] \in Nat \ {0} /\ c[b - 1] = c[u.block - 1]
  <2>1. NextIs(h, c, u.block, b)
    BY <1>2, <1>4, NextBlock
  <2> QED
    BY <2>1, Zenon DEF NextIs
<1> HIDE DEF b, stream
<1>6. stream = TRUE
    BY DEF stream
<1> DEFINE ends == stream /\ u.inBlock + 1 >= h.streams[b]
<1>7. /\ w \in Filling(h) /\ ~w.error
      /\ w.block = IF ends THEN b + 1 ELSE b
      /\ w.inBlock = IF ends THEN 0 ELSE IF stream THEN u.inBlock + 1 ELSE u.inBlock
      /\ w.map = Append(u.map, b)
      /\ w.start = [d \in DOMAIN h.streams |->
                       IF u.inBlock = 0 /\ d \in u.block .. b THEN i ELSE u.start[d]]
  <2>1. b \in Nat /\ b = IF u.inBlock = 0 THEN Min(NonEmptyFrom(h, u.block)) ELSE u.block
    BY <1>5 DEF b
  <2>2. FilledIn(h, u, FillItem(h, u, i, stream), i, stream, b)
    BY <1>1, <1>2, <1>5, <1>6, <2>1, FillPlace
  <2> QED
    BY <2>2, Zenon DEF FilledIn
<1>8. DOMAIN h.streams = 1 .. Len(h.streams)
    BY LenProperties DEF Streamed
<1> HIDE DEF w
<1>9. w.start[b] = i /\ \A d \in 1 .. Len(h.streams) : d < u.block => w.start[d] = u.start[d]
  <2>1. b \in 1 .. Len(h.streams) /\ b \in u.block .. b
    BY <1>2, <1>5
  <2>2. \A d \in 1 .. Len(h.streams) : d < u.block => d \notin u.block .. b
    BY <1>2
  <2> QED
    BY <1>7, <1>8, <2>1, <2>2
<1>10. StillPlaced(h, c, n, w, i, b)
  <2>1. StartsStay(h, u, w, i)
    BY <1>9, BlocksBefore DEF StartsStay
  <2>2. b \in Nat /\ w.map = Append(u.map, b)
    BY <1>5, <1>7
  <2> QED
    BY <2>1, <2>2, PlacedStill
<1>11. n[i] = c[b - 1] + 1 /\ c[b - 1] \in Nat /\ c[b] = c[b - 1] + h.streams[b] /\ h.streams[b] \in Nat \ {0}
  <2>1. c[b] = c[b - 1] + h.streams[b]
    BY <1>5 DEF Streamed
  <2> QED
    BY <1>3, <1>4, <1>5, <2>1
<1>12. Begun(h, c, n, w.start, b, i)
  <2>1. i \in 1 .. i
    BY <1>1
  <2> QED
    BY <1>9, <1>11, <2>1 DEF Begun
<1>13. Placed(h, c, n, w.map, w.start, i)
  <2>1. c[b - 1] < n[i] /\ n[i] <= c[b]
    BY <1>11
  <2> QED
    BY <1>5, <1>10, <1>12, <2>1 DEF Placed, StillPlaced
<1>14. \A j \in 1 .. i : ~h.emptyStream[j] => Placed(h, c, n, w.map, w.start, j)
  <2>1. \A j \in 1 .. i : j = i \/ j \in 1 .. i - 1
    BY <1>1
  <2> QED
    BY <1>10, <1>13, <2>1 DEF StillPlaced
<1>15. CASE h.streams[b] = 1
  <2>1. w.block = b + 1 /\ w.inBlock = 0
    BY <1>7, <1>15, <1>6
  <2>2. w.block \in 1 .. Len(h.streams) + 1 /\ w.block - 1 = b /\ ~(w.inBlock > 0)
    BY <1>1, <1>5, <2>1
  <2>3. c[w.block - 1] + w.inBlock = n[i]
    BY <1>11, <1>15, <2>1, <2>2
  <2> QED
    BY <1>7, <1>10, <1>14, <2>2, <2>3 DEF FillInv, w, stream, StillPlaced
<1>16. CASE h.streams[b] # 1
  <2>1. ~(0 + 1 >= h.streams[b]) /\ 1 < h.streams[b]
    BY <1>5, <1>16
  <2>2. w.block = b /\ w.inBlock = 1
    BY <1>7, <1>6, <2>1
  <2>3. w.block \in 1 .. Len(h.streams) + 1 /\ w.block <= Len(h.streams) /\ w.inBlock < h.streams[w.block]
    BY <1>1, <1>5, <2>1, <2>2
  <2>4. c[w.block - 1] + w.inBlock = n[i]
    BY <1>11, <2>2
  <2> QED
    BY <1>7, <1>10, <1>12, <1>14, <2>2, <2>3, <2>4 DEF FillInv, w, stream, StillPlaced
<1> QED
    BY <1>15, <1>16

LEMMA KeepsOn ==
    ASSUME NEW h, NEW c, NEW n, Streamed(h, c, n), NEW i \in 1 .. Len(h.emptyStream),
           NEW u, FillInv(h, c, n, u, i - 1), u.inBlock # 0
    PROVE  FillInv(h, c, n, FillItem(h, u, i, ~h.emptyStream[i]), i)
<1> DEFINE stream == ~h.emptyStream[i]
           w == FillItem(h, u, i, stream)
           b == u.block
<1>1. /\ Len(h.streams) \in Nat /\ Len(h.emptyStream) \in Nat /\ i \in Nat \ {0}
      /\ DOMAIN h.streams = 1 .. Len(h.streams)
    BY StreamsGrow, LenProperties DEF Streamed
<1>2. u \in Filling(h) /\ ~u.error /\ u.inBlock \in Nat
    BY DEF FillInv, Filling
<1>3. c[b - 1] + u.inBlock = n[i - 1] /\ u.inBlock \in Nat
    BY <1>2 DEF FillInv
<1>4. b \in 1 .. Len(h.streams) /\ u.inBlock < h.streams[b] /\ Begun(h, c, n, u.start, b, i - 1)
  <2>1. u.inBlock > 0
    BY <1>2
  <2>2. b \in 1 .. Len(h.streams) + 1 /\ b <= Len(h.streams)
    BY <2>1 DEF FillInv
  <2> QED
    BY <1>1, <2>1, <2>2 DEF FillInv
<1>5. stream \in BOOLEAN
    OBVIOUS
<1>6. /\ c[b - 1] \in Nat /\ h.streams[b] \in Nat /\ c[b] = c[b - 1] + h.streams[b]
      /\ n[i - 1] \in Nat /\ n[i] = IF stream THEN n[i - 1] + 1 ELSE n[i - 1]
  <2>1. b - 1 \in 0 .. Len(h.streams) /\ i - 1 \in 0 .. Len(h.emptyStream)
    BY <1>1, <1>4
  <2>2. h.streams[b] \in Nat
    BY <1>4, ElementOfSeq DEF Streamed
  <2> QED
    BY <1>4, <2>1, <2>2 DEF Streamed
<1> DEFINE ends == stream /\ u.inBlock + 1 >= h.streams[b]
<1> HIDE DEF stream, b
<1>7. /\ w \in Filling(h) /\ ~w.error
      /\ w.block = IF ends THEN b + 1 ELSE b
      /\ w.inBlock = IF ends THEN 0 ELSE IF stream THEN u.inBlock + 1 ELSE u.inBlock
      /\ w.map = Append(u.map, b)
      /\ w.start = [d \in DOMAIN h.streams |->
                       IF u.inBlock = 0 /\ d \in u.block .. b THEN i ELSE u.start[d]]
  <2>1. b \in Nat /\ b = IF u.inBlock = 0 THEN Min(NonEmptyFrom(h, u.block)) ELSE u.block
    BY <1>4 DEF b
  <2>2. FilledIn(h, u, FillItem(h, u, i, stream), i, stream, b)
    BY <1>1, <1>2, <1>5, <2>1, FillPlace
  <2> QED
    BY <2>2, Zenon DEF FilledIn
<1> HIDE DEF w
<1>8. \A d \in 1 .. Len(h.streams) : w.start[d] = u.start[d]
    BY <1>1, <1>7
<1>9. StillPlaced(h, c, n, w, i, b)
  <2>1. StartsStay(h, u, w, i)
    BY <1>8 DEF FillInv, Placed, StartsStay
  <2>2. b \in Nat /\ w.map = Append(u.map, b)
    BY <1>4, <1>7
  <2> QED
    BY <2>1, <2>2, PlacedStill
<1>10. Begun(h, c, n, w.start, b, i)
  <2>1. \A x \in 1 .. i - 1 : x \in 1 .. i
    BY <1>1
  <2> QED
    BY <1>4, <1>8, <2>1 DEF Begun
<1>11. \A j \in 1 .. i : ~h.emptyStream[j] => Placed(h, c, n, w.map, w.start, j)
  <2>1. \A j \in 1 .. i : j = i \/ j \in 1 .. i - 1
    BY <1>1
  <2>2. stream => c[b - 1] < n[i] /\ n[i] <= c[b]
  <3>1. u.inBlock < h.streams[b]
    BY <1>4
  <3> QED
    BY <1>3, <1>6, <3>1
  <2>3. ~h.emptyStream[i] => Placed(h, c, n, w.map, w.start, i)
    BY <1>4, <1>9, <1>10, <2>2 DEF Placed, stream, StillPlaced
  <2> QED
    BY <1>9, <2>1, <2>3 DEF StillPlaced
<1>12. CASE ends
  <2>1. w.block = b + 1 /\ w.inBlock = 0
    BY <1>7, <1>12
  <2>2. w.block \in 1 .. Len(h.streams) + 1 /\ w.block - 1 = b /\ ~(w.inBlock > 0)
    BY <1>1, <1>4, <2>1
  <2>3. n[i] = c[b]
    <3>1. u.inBlock < h.streams[b] /\ stream /\ u.inBlock + 1 >= h.streams[b]
      BY <1>4, <1>12
    <3>2. n[i] = n[i - 1] + 1
      BY <1>6, <3>1
    <3>3. h.streams[b] = u.inBlock + 1
      BY <1>3, <1>6, <3>1
    <3>4. c[b] = c[b - 1] + (u.inBlock + 1) /\ c[b - 1] \in Nat
      BY <1>6, <3>3
    <3> QED
      BY <1>3, <3>2, <3>4
  <2>4. c[w.block - 1] + w.inBlock = n[i]
    BY <1>6, <2>1, <2>2, <2>3
  <2> QED
    BY <1>7, <1>9, <1>11, <2>2, <2>4 DEF FillInv, w, stream, StillPlaced
<1>13. CASE ~ends
  <2>1. w.block = b /\ w.inBlock = IF stream THEN u.inBlock + 1 ELSE u.inBlock
    BY <1>7, <1>13
  <2>2. w.block \in 1 .. Len(h.streams) + 1 /\ w.block <= Len(h.streams)
    BY <1>1, <1>4, <2>1
  <2>3. w.inBlock < h.streams[w.block] /\ c[w.block - 1] + w.inBlock = n[i]
    <3>1. u.inBlock < h.streams[b] /\ (stream => ~(u.inBlock + 1 >= h.streams[b]))
      BY <1>4, <1>13
    <3>2. CASE stream
      <4>1. w.block = b /\ w.inBlock = u.inBlock + 1 /\ ~(u.inBlock + 1 >= h.streams[b])
        BY <2>1, <3>1, <3>2
      <4>2. n[i] = n[i - 1] + 1
        BY <1>6, <3>2
      <4>3. w.inBlock < h.streams[b]
        BY <1>3, <1>6, <4>1
      <4>4. c[b - 1] + (u.inBlock + 1) = n[i]
        BY <1>3, <1>6, <4>2
      <4> QED
        BY <4>1, <4>3, <4>4
    <3>3. CASE ~stream
      BY <1>3, <1>6, <2>1, <3>1, <3>3
    <3> QED
      BY <3>2, <3>3
  <2> QED
    BY <1>7, <1>9, <1>10, <1>11, <2>1, <2>2, <2>3 DEF FillInv, w, stream, StillPlaced
<1> QED
    BY <1>12, <1>13

LEMMA FillKeeps ==
    ASSUME NEW h, NEW c, NEW n, Streamed(h, c, n), NEW i \in 1 .. Len(h.emptyStream),
           NEW u, FillInv(h, c, n, u, i - 1)
    PROVE  FillInv(h, c, n, FillItem(h, u, i, ~h.emptyStream[i]), i)
<1>1. h.emptyStream[i] \in BOOLEAN
    BY ElementOfSeq DEF Streamed
<1>2. CASE u.inBlock = 0 /\ h.emptyStream[i]
  <2>1. (~h.emptyStream[i]) = FALSE
    BY <1>2
  <2>2. FillInv(h, c, n, FillItem(h, u, i, FALSE), i)
    BY <1>2, KeepsNothing
  <2> QED
    BY <2>1, <2>2, Zenon
<1>3. CASE u.inBlock = 0 /\ ~h.emptyStream[i]
    BY <1>3, KeepsNext
<1>4. CASE u.inBlock # 0
    BY <1>4, KeepsOn
<1> QED
    BY <1>2, <1>3, <1>4

\* Every item with a stream is placed.
LEMMA AllPlaced ==
    ASSUME NEW h, NEW c, NEW n, Streamed(h, c, n)
    PROVE  FillInv(h, c, n, Fill(h), Len(h.emptyStream))
<1>1. h.streams \in Seq(Nat) /\ h.emptyStream \in Seq(BOOLEAN) /\ Len(h.emptyStream) \in Nat
    BY StreamsGrow DEF Streamed
<1>2. PICK f : Fills(f, h) /\ Fill(h) = f[Len(h.emptyStream)]
    BY <1>1, FillRuns
<1> DEFINE P == {i \in Nat : i <= Len(h.emptyStream) => FillInv(h, c, n, f[i], i)}
<1>3. 0 \in P
    BY <1>2, FillStarts DEF Fills
<1>4. ASSUME NEW m \in Nat, 0 <= m, m \in P
      PROVE  m + 1 \in P
  <2> SUFFICES ASSUME m + 1 <= Len(h.emptyStream)
               PROVE  FillInv(h, c, n, f[m + 1], m + 1)
    OBVIOUS
  <2> DEFINE i == m + 1
  <2>1. i \in 1 .. Len(h.emptyStream) /\ i - 1 = m /\ m <= Len(h.emptyStream)
    BY <1>1
  <2>2. FillInv(h, c, n, f[i - 1], i - 1)
    BY <1>4, <2>1
  <2> HIDE DEF i
  <2>3. f[i] = FillItem(h, f[i - 1], i, ~h.emptyStream[i])
    BY <1>2, <2>1 DEF Fills
  <2>4. FillInv(h, c, n, f[i], i)
    BY <2>1, <2>2, <2>3, FillKeeps
  <2> QED
    BY <2>4 DEF i
<1>5. Len(h.emptyStream) \in P
  <2> HIDE DEF P
  <2>1. 0 \in Nat /\ 0 <= Len(h.emptyStream)
    BY <1>1
  <2> QED
    BY <1>1, <1>3, <1>4, <2>1, Counting
<1> QED
    BY <1>1, <1>2, <1>5

-----------------------------------------------------------------------------
(* The decoder finds every stream where the compressor put it               *)

\* Items without a stream add nothing.
LEMMA CountsStill ==
    ASSUME NEW s \in Seq(Item), NEW n, Counts(n, s, TRUE),
           NEW lo \in 0 .. Len(s), NEW hi \in 0 .. Len(s), lo <= hi,
           \A i \in lo + 1 .. hi : ~HasStream(s[i])
    PROVE  n[hi] = n[lo]
<1>1. Len(s) \in Nat /\ lo \in Nat /\ hi \in Nat
    BY LenProperties
<1> DEFINE g == [i \in lo .. hi |-> n[lo]]
<1>2. n[lo] = g[lo]
    BY <1>1
<1>3. ASSUME NEW i \in lo + 1 .. hi, n[i - 1] = g[i - 1]
      PROVE  n[i] = g[i]
  <2>1. i \in 1 .. Len(s) /\ i - 1 \in lo .. hi /\ i \in lo .. hi
    BY <1>1
  <2>2. n[i] = n[i - 1]
    BY <2>1 DEF Counts, HasStream
  <2> QED
    BY <1>3, <2>1, <2>2
<1> HIDE DEF g
<1>4. Agree(n, g, lo, hi)
    BY <1>2, <1>3 DEF Agree
<1>5. n[hi] = g[hi]
  <2>1. hi \in lo .. hi
    BY <1>1
  <2> QED
    BY <1>1, <1>4, <2>1, SameSteps
<1> QED
    BY <1>1, <1>5 DEF g

\* How many streams are in the first blocks.
BlockEnds(bs, off, n) == [b \in 0 .. Len(bs) |-> n[off[b]]]

LEMMA HeaderStreams ==
    ASSUME NEW off, NEW n, Laid(archive.blocks, off, Items(archive), n)
    PROVE  /\ Streamed(Header(archive), BlockEnds(archive.blocks, off, n), n)
           /\ Len(Header(archive).streams) = Len(archive.blocks)
           /\ Len(Header(archive).emptyStream) = Len(Items(archive))
           /\ \A i \in 1 .. Len(Items(archive)) :
                 Header(archive).emptyStream[i] = ~HasStream(Items(archive)[i])
           /\ \A b \in 1 .. Len(archive.blocks) :
                 Header(archive).unpack[b] = Total(SizesOf(StreamsIn(archive.blocks[b])))
<1> DEFINE s == Items(archive)
           bs == archive.blocks
           h == Header(archive)
           c == BlockEnds(bs, off, n)
<1>1. Laid(bs, off, s, n)
    OBVIOUS
<1>2. h.emptyStream = [i \in DOMAIN s |-> ~HasStream(s[i])] /\ Keeps(h, StreamSizes(bs))
    BY HeaderKeeps DEF Header
<1>3. \A b \in DOMAIN bs : StreamSizes(bs)[b] = SizesOf(StreamsIn(bs[b]))
    BY DEF StreamSizes
<1> HIDE DEF s, bs, h
<1>4. s \in Seq(Item) /\ bs \in Seq(Seq(Item)) /\ Offsets(off, bs) /\ Counts(n, s, TRUE) /\ off[Len(bs)] <= Len(s)
    BY <1>1, Zenon DEF Laid
<1>5. /\ Len(s) \in Nat /\ DOMAIN s = 1 .. Len(s) /\ Len(bs) \in Nat /\ DOMAIN bs = 1 .. Len(bs)
    BY <1>4, LenProperties
<1>6. h.emptyStream \in Seq(BOOLEAN) /\ Len(h.emptyStream) = Len(s)
      /\ \A i \in 1 .. Len(s) : h.emptyStream[i] = ~HasStream(s[i])
  <2>1. h.emptyStream = [i \in 1 .. Len(s) |-> ~HasStream(s[i])]
    BY <1>2, <1>5
  <2> QED
    BY <1>5, <2>1
<1>7. /\ DOMAIN StreamSizes(bs) = 1 .. Len(bs)
      /\ \A b \in 1 .. Len(bs) : /\ Len(StreamSizes(bs)[b]) = Len(StreamsIn(bs[b]))
                                 /\ Len(StreamsIn(bs[b])) \in Nat
    BY <1>4, SizesOfStreams
<1>8. h.streams \in Seq(Nat) /\ Len(h.streams) = Len(bs)
      /\ \A b \in 1 .. Len(bs) : h.streams[b] = Len(StreamsIn(bs[b]))
  <2>1. h.streams = [b \in 1 .. Len(bs) |-> Len(StreamSizes(bs)[b])]
    BY <1>2, <1>7 DEF Keeps
  <2>2. h.streams = [b \in 1 .. Len(bs) |-> Len(StreamsIn(bs[b]))]
    BY <1>7, <2>1
  <2> QED
    BY <1>5, <1>7, <2>2
<1>9. \A b \in 1 .. Len(bs) : h.unpack[b] = Total(SizesOf(StreamsIn(bs[b])))
    BY <1>2, <1>3, <1>5, <1>7 DEF Keeps
<1>10. \A b \in 0 .. Len(bs) : off[b] \in 0 .. Len(s) /\ n[off[b]] \in Nat
  <2> SUFFICES ASSUME NEW b \in 0 .. Len(bs)
               PROVE  off[b] \in 0 .. Len(s) /\ n[off[b]] \in Nat
    OBVIOUS
  <2>1. Grows(off, Len(bs)) /\ Len(bs) \in 0 .. Len(bs) /\ b <= Len(bs)
    BY <1>4, <1>5, OffsetsGrow
  <2>2. off[b] <= off[Len(bs)]
    BY <1>5, <2>1, GrowsFurther
  <2>3. off[b] \in Nat /\ off[Len(bs)] \in Nat
    BY <2>1 DEF Grows
  <2>4. off[b] \in 0 .. Len(s)
    BY <1>4, <1>5, <2>2, <2>3
  <2> QED
    BY <1>4, <2>4 DEF Counts
<1>11. c \in [0 .. Len(bs) -> Nat] /\ \A b \in 0 .. Len(bs) : c[b] = n[off[b]]
    BY <1>10 DEF BlockEnds
<1> HIDE DEF c
<1>12. c[0] = 0
    BY <1>4, <1>5, <1>11 DEF Offsets, Counts
<1>13. ASSUME NEW b \in 1 .. Len(bs)
       PROVE  c[b] = c[b - 1] + h.streams[b]
  <2>1. b - 1 \in 0 .. Len(bs) /\ b \in 0 .. Len(bs)
    BY <1>5
  <2>2. n[off[b]] = n[off[b - 1]] + Len(StreamsIn(bs[b]))
    BY <1>1, BlockCounts
  <2> QED
    BY <1>8, <1>11, <2>1, <2>2
<1>14. ASSUME NEW i \in 1 .. Len(s)
       PROVE  n[i] = IF h.emptyStream[i] THEN n[i - 1] ELSE n[i - 1] + 1
  <2>1. n[i] = IF HasStream(s[i]) = TRUE THEN n[i - 1] + 1 ELSE n[i - 1]
    BY <1>4 DEF Counts
  <2>2. h.emptyStream[i] = ~HasStream(s[i])
    BY <1>6
  <2>3. CASE HasStream(s[i])
    BY <2>1, <2>2, <2>3 DEF HasStream
  <2>4. CASE ~HasStream(s[i])
    BY <2>1, <2>2, <2>4 DEF HasStream
  <2> QED
    BY <2>3, <2>4
<1>15. n[Len(s)] = c[Len(bs)] /\ n[Len(s)] \in Nat
  <2>1. Len(s) \in 0 .. Len(s) /\ Len(bs) \in 0 .. Len(bs) /\ off[Len(bs)] \in 0 .. Len(s)
        /\ off[Len(bs)] <= Len(s)
    BY <1>4, <1>5, <1>10
  <2>2. \A i \in off[Len(bs)] + 1 .. Len(s) : ~HasStream(s[i])
    <3>1. \A i \in off[Len(bs)] + 1 .. Len(s) : i \in 1 .. Len(s) /\ i > off[Len(bs)]
      BY <1>5, <2>1
    <3> QED
      BY <1>1, <3>1 DEF Laid
  <2>3. n[Len(s)] = n[off[Len(bs)]]
    BY <1>4, <2>1, <2>2, CountsStill
  <2> QED
    BY <1>10, <1>11, <2>1, <2>3
<1>16. n \in [0 .. Len(s) -> Nat] /\ n[0] = 0
    BY <1>4 DEF Counts
<1>17. n[Len(h.emptyStream)] <= c[Len(h.streams)]
    BY <1>6, <1>8, <1>15
<1>18. Streamed(h, c, n)
    BY <1>6, <1>8, <1>11, <1>12, <1>13, <1>14, <1>16, <1>17 DEF Streamed
<1> QED
    BY <1>6, <1>8, <1>9, <1>18 DEF s, bs, h, c

-----------------------------------------------------------------------------
(* The block of an item                                                     *)

\* Item i is among those of block b.
InBlock(off, i, b) == off[b - 1] < i /\ i <= off[b]

LEMMA BlocksEnd ==
    ASSUME NEW bs \in Seq(Seq(Item)), NEW off, Offsets(off, bs), NEW b \in 0 .. Len(bs)
    PROVE  Total([k \in 1 .. b |-> Len(bs[k])]) = off[b]
<1> DEFINE t == [k \in 1 .. b |-> Len(bs[k])]
           f == [k \in 0 .. b |-> off[k]]
<1>1. Len(bs) \in Nat /\ b \in Nat
    BY LenProperties
<1>2. \A k \in 1 .. b : k \in 1 .. Len(bs) /\ Len(bs[k]) \in Nat /\ t[k] = Len(bs[k])
  <2>1. \A k \in 1 .. b : k \in 1 .. Len(bs)
    BY <1>1
  <2>2. \A k \in 1 .. b : bs[k] \in Seq(Item)
    BY <2>1, ElementOfSeq
  <2> QED
    BY <2>1, <2>2, LenProperties
<1>3. t \in Seq(Nat) /\ Len(t) = b
    BY <1>1, <1>2
<1>4. \A k \in 0 .. b : f[k] = off[k] /\ off[k] \in Nat
    BY <1>1 DEF Offsets
<1>5. f \in [0 .. b -> Nat] /\ f[0] = 0 /\ f[b] = off[b]
    BY <1>1, <1>4 DEF Offsets
<1>6. ASSUME NEW k \in 1 .. b
      PROVE  f[k] = f[k - 1] + t[k]
  <2>1. k \in 1 .. Len(bs) /\ k \in 0 .. b /\ k - 1 \in 0 .. b
    BY <1>1
  <2>2. off[k] = off[k - 1] + Len(bs[k])
    BY <2>1 DEF Offsets
  <2> QED
    BY <1>2, <1>4, <2>1, <2>2
<1> HIDE DEF t, f
<1>7. Sums(f, t)
    BY <1>3, <1>5, <1>6 DEF Sums
<1>8. Total(t) = f[b]
    BY <1>3, <1>7, TotalBy
<1> QED
    BY <1>5, <1>8 DEF t

LEMMA BlockIs ==
    ASSUME NEW a, a.blocks \in Seq(Seq(Item)), NEW off, Offsets(off, a.blocks),
           NEW i \in Nat, NEW b \in 1 .. Len(a.blocks), InBlock(off, i, b)
    PROVE  BlockOf(a, i) = b
<1> DEFINE bs == a.blocks
           S == {x \in DOMAIN bs : i <= Total([k \in 1 .. x |-> Len(bs[k])])}
<1>1. Len(bs) \in Nat /\ DOMAIN bs = 1 .. Len(bs) /\ Grows(off, Len(bs))
    BY LenProperties, OffsetsGrow
<1>2. \A x \in 1 .. Len(bs) : x \in 0 .. Len(bs)
    BY <1>1
<1> HIDE DEF bs
<1>3. \A x \in 1 .. Len(bs) : Total([k \in 1 .. x |-> Len(bs[k])]) = off[x]
    BY <1>2, BlocksEnd DEF bs
<1>4. S = {x \in 1 .. Len(bs) : i <= off[x]}
    BY <1>1, <1>3
<1>5. BlockOf(a, i) = IF \E x \in DOMAIN bs : i <= Total([k \in 1 .. x |-> Len(bs[k])])
                      THEN Min(S) ELSE NoBlock
    BY DEF BlockOf, bs
<1>6. BlockOf(a, i) = IF S # {} THEN Min(S) ELSE NoBlock
    BY <1>5
<1> HIDE DEF S
<1>7. b \in 1 .. Len(bs) /\ b \in S
    BY <1>4 DEF InBlock, bs
<1>8. \A x \in S : b <= x
  <2> SUFFICES ASSUME NEW x \in S, ~(b <= x) PROVE FALSE
    OBVIOUS
  <2>1. x \in 1 .. Len(bs) /\ i <= off[x]
    BY <1>4
  <2>2. x \in 0 .. Len(bs) /\ b - 1 \in 0 .. Len(bs) /\ x <= b - 1
    BY <1>1, <1>7, <2>1
  <2>3. off[x] <= off[b - 1] /\ off[x] \in Nat /\ off[b - 1] \in Nat
    BY <1>1, <2>2, GrowsFurther DEF Grows
  <2> QED
    BY <2>1, <2>3 DEF InBlock
<1> DEFINE m == Min(S)
<1>9. m \in S /\ \A x \in S : m <= x
  <2>1. S \in SUBSET Nat /\ S # {}
    BY <1>1, <1>4, <1>7
  <2> QED
    BY <2>1, MinIs
<1> HIDE DEF m
<1>10. m <= b /\ b <= m
    BY <1>7, <1>8, <1>9, Zenon
<1>11. m \in Nat /\ b \in Nat
    BY <1>1, <1>4, <1>7, <1>9
<1>12. m = b
    BY <1>10, <1>11
<1> QED
    BY <1>6, <1>7, <1>12 DEF m

LEMMA InSomeBlock ==
    ASSUME NEW bs \in Seq(Seq(Item)), NEW off, Offsets(off, bs), NEW i \in 1 .. off[Len(bs)]
    PROVE  \E b \in 1 .. Len(bs) : InBlock(off, i, b)
<1>1. PICK b \in 1 .. Len(bs) : \E k \in 1 .. Len(bs[b]) : i = off[b - 1] + k
    BY OffsetOf
<1>2. PICK k \in 1 .. Len(bs[b]) : i = off[b - 1] + k
    BY <1>1
<1>3. Len(bs) \in Nat /\ Len(bs[b]) \in Nat
  <2>1. bs[b] \in Seq(Item)
    BY ElementOfSeq
  <2> QED
    BY <2>1, LenProperties
<1>4. b - 1 \in 0 .. Len(bs)
    BY <1>3
<1>5. off[b - 1] \in Nat /\ off[b] = off[b - 1] + Len(bs[b])
    BY <1>4 DEF Offsets
<1>6. off[b - 1] < i /\ i <= off[b]
    BY <1>2, <1>3, <1>5
<1> QED
    BY <1>6 DEF InBlock

-----------------------------------------------------------------------------
(* Sums of sizes                                                            *)

LEMMA SumsGrow ==
    ASSUME NEW s \in Seq(Nat), NEW f, Sums(f, s)
    PROVE  Grows(f, Len(s)) /\ Len(s) \in Nat
<1>1. Len(s) \in Nat
    BY LenProperties
<1>2. ASSUME NEW i \in 1 .. Len(s)
      PROVE  f[i - 1] <= f[i]
  <2>1. i - 1 \in 0 .. Len(s) /\ s[i] \in Nat
    BY <1>1, ElementOfSeq
  <2>2. f[i - 1] \in Nat /\ f[i] = f[i - 1] + s[i]
    BY <2>1 DEF Sums
  <2> QED
    BY <2>1, <2>2
<1> QED
    BY <1>1, <1>2 DEF Sums, Grows

\* Up to place m there are only zeros.
Zeros(t, m) == \A j \in 1 .. m : t[j] = 0
\* u is what follows in t.
Follows(u, t, m) == \A k \in 1 .. Len(u) : u[k] = t[m + k]

LEMMA TotalOfRest ==
    ASSUME NEW t \in Seq(Nat), NEW u \in Seq(Nat), NEW m \in Nat, Len(t) = m + Len(u),
           Zeros(t, m), Follows(u, t, m)
    PROVE  Total(t) = Total(u)
<1>1. PICK f : Sums(f, t)
    BY SumsExist
<1>2. Len(t) \in Nat /\ Len(u) \in Nat
    BY LenProperties
<1> DEFINE z == [j \in 0 .. m |-> 0]
           g == [k \in 0 .. Len(u) |-> f[m + k]]
<1>3. f[m] = 0
  <2>1. f[0] = z[0]
    BY <1>1 DEF Sums
  <2>2. ASSUME NEW j \in 0 + 1 .. m, f[j - 1] = z[j - 1]
        PROVE  f[j] = z[j]
    <3>1. j \in 1 .. m /\ j \in 1 .. Len(t) /\ j \in 0 .. m /\ j - 1 \in 0 .. m
      BY <1>2
    <3>2. f[j] = f[j - 1] + t[j] /\ t[j] = 0
      BY <1>1, <3>1 DEF Sums, Zeros
    <3> QED
      BY <2>2, <3>1, <3>2
  <2> HIDE DEF z
  <2>3. Agree(f, z, 0, m)
    BY <2>1, <2>2 DEF Agree
  <2>4. f[m] = z[m]
    <3>1. m \in 0 .. m
      OBVIOUS
    <3> QED
      BY <2>3, <3>1, SameSteps
  <2> QED
    BY <2>4 DEF z
<1>4. \A k \in 0 .. Len(u) : g[k] = f[m + k] /\ f[m + k] \in Nat
  <2>1. \A k \in 0 .. Len(u) : m + k \in 0 .. Len(t)
    BY <1>2
  <2> QED
    BY <1>1, <2>1 DEF Sums
<1>5. g \in [0 .. Len(u) -> Nat] /\ g[0] = 0
  <2>1. g \in [0 .. Len(u) -> Nat]
    BY <1>4
  <2>2. 0 \in 0 .. Len(u) /\ m + 0 = m
    BY <1>2
  <2> QED
    BY <1>3, <1>4, <2>1, <2>2
<1>6. ASSUME NEW k \in 1 .. Len(u)
      PROVE  g[k] = g[k - 1] + u[k]
  <2>1. /\ k \in 0 .. Len(u) /\ k - 1 \in 0 .. Len(u) /\ m + k \in 1 .. Len(t)
        /\ (m + k) - 1 = m + (k - 1)
    BY <1>2
  <2>2. f[m + k] = f[m + (k - 1)] + t[m + k]
    BY <1>1, <2>1 DEF Sums
  <2>3. u[k] = t[m + k]
    BY DEF Follows
  <2> QED
    BY <1>4, <2>1, <2>2, <2>3
<1>7. g[Len(u)] = f[Len(t)]
  <2>1. Len(u) \in 0 .. Len(u)
    BY <1>2
  <2> QED
    BY <1>4, <2>1
<1> HIDE DEF g
<1>8. Sums(g, u)
    BY <1>5, <1>6 DEF Sums
<1>9. Total(t) = f[Len(t)] /\ Total(u) = g[Len(u)]
    BY <1>1, <1>8, TotalBy
<1> QED
    BY <1>7, <1>9

\* A part from the front is no more than the whole.
LEMMA TotalOfPart ==
    ASSUME NEW s \in Seq(Nat), NEW k \in 1 .. Len(s),
           NEW p \in Seq(Nat), Len(p) = k - 1, \A j \in 1 .. Len(p) : p[j] = s[j]
    PROVE  Total(p) \in Nat /\ Total(p) + s[k] <= Total(s)
<1>1. PICK f : Sums(f, s)
    BY SumsExist
<1>2. Len(s) \in Nat /\ Grows(f, Len(s)) /\ k \in Nat /\ s[k] \in Nat
    BY <1>1, SumsGrow, ElementOfSeq
<1>3. /\ k - 1 \in 0 .. Len(s) /\ k \in 0 .. Len(s) /\ Len(s) \in 0 .. Len(s) /\ k <= Len(s)
      /\ k - 1 \in 0 .. k - 1
    BY <1>2
<1> DEFINE g == [j \in 0 .. k - 1 |-> f[j]]
<1>4. \A j \in 0 .. k - 1 : g[j] = f[j] /\ f[j] \in Nat
  <2>1. \A j \in 0 .. k - 1 : j \in 0 .. Len(s)
    BY <1>2
  <2> QED
    BY <1>1, <2>1 DEF Sums
<1>5. g \in [0 .. k - 1 -> Nat] /\ g[0] = 0
  <2>1. g \in [0 .. k - 1 -> Nat]
    BY <1>4
  <2>2. 0 \in 0 .. k - 1
    BY <1>2
  <2> QED
    BY <1>1, <1>4, <2>1, <2>2 DEF Sums
<1>6. ASSUME NEW j \in 1 .. k - 1
      PROVE  g[j] = g[j - 1] + p[j]
  <2>1. j \in 1 .. Len(s) /\ j \in 0 .. k - 1 /\ j - 1 \in 0 .. k - 1
    BY <1>2
  <2>2. f[j] = f[j - 1] + s[j] /\ p[j] = s[j]
    BY <1>1, <2>1 DEF Sums
  <2> QED
    BY <1>4, <2>1, <2>2
<1>7. g[k - 1] = f[k - 1]
    BY <1>3, <1>4
<1> HIDE DEF g
<1>8. Sums(g, p)
    BY <1>5, <1>6 DEF Sums
<1>9. Total(p) = f[k - 1] /\ Total(s) = f[Len(s)]
    BY <1>1, <1>7, <1>8, TotalBy
<1>10. f[k] <= f[Len(s)] /\ f[k] \in Nat /\ f[k - 1] \in Nat /\ f[Len(s)] \in Nat
    BY <1>2, <1>3, GrowsFurther DEF Grows
<1>11. f[k] = f[k - 1] + s[k]
    BY <1>1 DEF Sums
<1> QED
    BY <1>9, <1>10, <1>11

LEMMA SizesAre ==
    ASSUME NEW s \in Seq(Item)
    PROVE  /\ SizesOf(s) \in Seq(Nat) /\ Len(SizesOf(s)) = Len(s) /\ Len(s) \in Nat
           /\ \A i \in 1 .. Len(s) : SizesOf(s)[i] = s[i].size /\ s[i].size \in Nat
<1>1. Len(s) \in Nat /\ DOMAIN s = 1 .. Len(s) /\ \A i \in 1 .. Len(s) : s[i] \in Item
    BY LenProperties, ElementOfSeq
<1>2. \A i \in 1 .. Len(s) : s[i].size \in Nat
    BY <1>1 DEF Item
<1>3. SizesOf(s) = [i \in 1 .. Len(s) |-> s[i].size]
    BY <1>1 DEF SizesOf
<1> QED
    BY <1>1, <1>2, <1>3

\* Leaving out the items without a stream changes nothing.
LEMMA StreamsTotal ==
    ASSUME NEW s \in Seq(Item)
    PROVE  Total(SizesOf(Those(s, TRUE))) = Total(SizesOf(s))
<1> DEFINE t == Those(s, TRUE)
<1>1. PICK m : Selects(t, m, s, TRUE)
    BY ThoseSelects
<1> HIDE DEF t
<1>2. Counts(m, s, TRUE) /\ t \in Seq(Item) /\ Len(t) = m[Len(s)]
    BY <1>1 DEF Selects
<1>3. /\ SizesOf(s) \in Seq(Nat) /\ Len(SizesOf(s)) = Len(s) /\ Len(s) \in Nat
      /\ \A i \in 1 .. Len(s) : SizesOf(s)[i] = s[i].size /\ s[i].size \in Nat
    BY SizesAre
<1>4. /\ SizesOf(t) \in Seq(Nat) /\ Len(SizesOf(t)) = Len(t) /\ Len(t) \in Nat
      /\ \A i \in 1 .. Len(t) : SizesOf(t)[i] = t[i].size
    BY <1>2, SizesAre
<1>5. PICK f : Sums(f, SizesOf(s))
    BY <1>3, SumsExist
<1>6. PICK g : Sums(g, SizesOf(t))
    BY <1>4, SumsExist
<1> DEFINE e == [i \in 0 .. Len(s) |-> g[m[i]]]
<1>7. f[0] = e[0]
    BY <1>2, <1>3, <1>5, <1>6 DEF Sums, Counts
<1>8. ASSUME NEW i \in 0 + 1 .. Len(s), f[i - 1] = e[i - 1]
      PROVE  f[i] = e[i]
  <2>1. i \in 1 .. Len(s) /\ i \in 0 .. Len(s) /\ i - 1 \in 0 .. Len(s)
    BY <1>3
  <2>2. f[i] = f[i - 1] + s[i].size /\ s[i].size \in Nat /\ f[i - 1] \in Nat
    BY <1>3, <1>5, <2>1 DEF Sums
  <2>3. m[i] = IF HasStream(s[i]) = TRUE THEN m[i - 1] + 1 ELSE m[i - 1]
    BY <1>2, <2>1 DEF Counts
  <2>4. m[i - 1] \in Nat
    BY <1>2, <2>1 DEF Counts
  <2>5. CASE HasStream(s[i])
    <3>1. (HasStream(s[i]) = TRUE) /\ m[i] = m[i - 1] + 1
      BY <2>3, <2>5 DEF HasStream
    <3>2. m[i] \in 1 .. Len(t) /\ t[m[i]] = s[i]
      BY <1>1, <2>1, <3>1 DEF Selects
    <3>3. g[m[i]] = g[m[i] - 1] + s[i].size
      BY <1>4, <1>6, <3>2 DEF Sums
    <3>4. m[i] - 1 = m[i - 1]
      BY <2>4, <3>1
    <3> QED
      BY <1>8, <2>1, <2>2, <3>3, <3>4
  <2>6. CASE ~HasStream(s[i])
    <3>1. m[i] = m[i - 1]
      BY <2>3, <2>6 DEF HasStream
    <3>2. s[i].size = 0
      BY <2>2, <2>6 DEF HasStream
    <3> QED
      BY <1>8, <2>1, <2>2, <3>1, <3>2
  <2> QED
    BY <2>5, <2>6
<1>9. f[Len(s)] = g[Len(t)]
  <2> HIDE DEF e
  <2>1. Agree(f, e, 0, Len(s))
    BY <1>7, <1>8 DEF Agree
  <2>2. Len(s) \in 0 .. Len(s)
    BY <1>3
  <2>3. f[Len(s)] = e[Len(s)]
    BY <1>3, <2>1, <2>2, SameSteps
  <2> QED
    BY <1>2, <2>2, <2>3 DEF e
<1>10. Total(SizesOf(s)) = f[Len(s)]
    BY <1>3, <1>5, TotalBy
<1>11. Total(SizesOf(t)) = g[Len(t)]
    BY <1>4, <1>6, TotalBy
<1> QED
    BY <1>9, <1>10, <1>11 DEF t

-----------------------------------------------------------------------------

\* The decoder gives an item with a stream the block it is in, and the first
\* item of the block that has one.
FoundIn(off, i, s, map, start, b) ==
    /\ map[i] = b /\ start[b] \in 1 .. i /\ off[b - 1] < start[b]
    /\ \A j \in off[b - 1] + 1 .. start[b] - 1 : ~HasStream(s[j])

LEMMA FoundWhereItIs ==
    ASSUME NEW off, NEW n, Laid(archive.blocks, off, Items(archive), n),
           NEW i \in 1 .. Len(Items(archive)), HasStream(Items(archive)[i]),
           NEW b \in 1 .. Len(archive.blocks), InBlock(off, i, b)
    PROVE  FoundIn(off, i, Items(archive), Fill(Header(archive)).map, Fill(Header(archive)).start, b)
<1> DEFINE s == Items(archive)
           bs == archive.blocks
           h == Header(archive)
           c == BlockEnds(bs, off, n)
           w == Fill(h)
           x == w.map[i]
           st == w.start[x]
<1>1. Laid(bs, off, s, n)
    OBVIOUS
<1>2. /\ Streamed(h, c, n) /\ Len(h.streams) = Len(bs) /\ Len(h.emptyStream) = Len(s)
      /\ \A j \in 1 .. Len(s) : h.emptyStream[j] = ~HasStream(s[j])
    BY HeaderStreams
<1> HIDE DEF s, bs, h
<1>3. FillInv(h, c, n, w, Len(s))
  <2> HIDE DEF c, w
  <2>1. FillInv(h, c, n, Fill(h), Len(h.emptyStream))
    BY <1>2, AllPlaced
  <2> QED
    BY <1>2, <2>1 DEF w
<1> HIDE DEF w
<1>4. Placed(h, c, n, w.map, w.start, i)
  <2>1. ~h.emptyStream[i] /\ i \in 1 .. Len(s)
    BY <1>2 DEF s
  <2> QED
    BY <1>3, <2>1 DEF FillInv
<1>5. /\ x \in 1 .. Len(bs) /\ c[x - 1] < n[i] /\ n[i] <= c[x]
      /\ st \in 1 .. i /\ ~h.emptyStream[st] /\ n[st] = c[x - 1] + 1
    BY <1>2, <1>4 DEF Placed, Begun
<1> HIDE DEF x, st
<1>6. /\ s \in Seq(Item) /\ Counts(n, s, TRUE) /\ Offsets(off, bs) /\ bs \in Seq(Seq(Item))
    BY <1>1, Zenon DEF Laid
<1>7. /\ Len(s) \in Nat /\ Len(bs) \in Nat /\ Grows(n, Len(s)) /\ Grows(off, Len(bs))
      /\ Grows(c, Len(bs))
  <2>1. Grows(c, Len(h.streams))
    BY <1>2, StreamsGrow
  <2> QED
    BY <1>2, <1>6, <2>1, CountsGrow, OffsetsGrow
<1>8. \A y \in 0 .. Len(bs) : c[y] = n[off[y]] /\ c[y] \in Nat
    BY <1>7 DEF BlockEnds, Grows
<1> HIDE DEF c
<1>9. b \in 1 .. Len(bs) /\ i \in 1 .. Len(s) /\ off[b - 1] < i /\ i <= off[b]
    BY DEF bs, s, InBlock
<1>10. /\ b - 1 \in 0 .. Len(bs) /\ b \in 0 .. Len(bs) /\ i - 1 \in 0 .. Len(s) /\ i \in 0 .. Len(s)
    BY <1>7, <1>9
<1>11. off[b - 1] \in 0 .. Len(s) /\ off[b] \in 0 .. Len(s)
    BY <1>1, <1>9, BlockCounts
<1>12. n[i] = n[i - 1] + 1 /\ n[i] \in Nat /\ n[i - 1] \in Nat
  <2>1. HasStream(s[i]) = TRUE
    BY DEF s, HasStream
  <2>2. n[i] = n[i - 1] + 1
    BY <1>6, <1>9, <2>1 DEF Counts
  <2> QED
    BY <1>7, <1>10, <2>2 DEF Grows
<1>13. c[b - 1] < n[i] /\ n[i] <= c[b]
  <2>1. off[b - 1] <= i - 1
    BY <1>9, <1>11
  <2>2. n[off[b - 1]] <= n[i - 1]
    BY <1>7, <1>10, <1>11, <2>1, GrowsFurther
  <2>3. n[i] <= n[off[b]]
    BY <1>7, <1>9, <1>10, <1>11, GrowsFurther
  <2>4. c[b - 1] = n[off[b - 1]] /\ c[b] = n[off[b]] /\ c[b - 1] \in Nat
    BY <1>8, <1>10
  <2> QED
    BY <1>12, <2>2, <2>3, <2>4
<1>14. x = b
  <2>1. x - 1 \in 0 .. Len(bs) /\ x \in 0 .. Len(bs) /\ x \in Nat /\ b \in Nat
    BY <1>5, <1>7, <1>9
  <2>2. CASE x < b
    <3>1. x <= b - 1
      BY <2>1, <2>2
    <3>2. c[x] <= c[b - 1]
      BY <1>7, <1>10, <2>1, <3>1, GrowsFurther
    <3>3. c[x] \in Nat /\ c[b - 1] \in Nat
      BY <1>8, <1>10, <2>1
    <3> QED
      BY <1>5, <1>12, <1>13, <3>2, <3>3
  <2>3. CASE b < x
    <3>1. b <= x - 1
      BY <2>1, <2>3
    <3>2. c[b] <= c[x - 1]
      BY <1>7, <1>10, <2>1, <3>1, GrowsFurther
    <3>3. c[x - 1] \in Nat /\ c[b] \in Nat
      BY <1>8, <1>10, <2>1
    <3> QED
      BY <1>5, <1>12, <1>13, <3>2, <3>3
  <2> QED
    BY <2>1, <2>2, <2>3
<1>15. st \in Nat /\ st \in 0 .. Len(s) /\ st \in 1 .. i /\ n[st] \in Nat /\ n[st] = n[off[b - 1]] + 1
  <2>1. st \in Nat /\ st \in 0 .. Len(s)
    BY <1>5, <1>7, <1>9
  <2>2. n[st] \in Nat
    BY <1>7, <2>1 DEF Grows
  <2> QED
    BY <1>5, <1>8, <1>10, <1>14, <2>1, <2>2
<1>16. off[b - 1] < st
  <2> SUFFICES ASSUME ~(off[b - 1] < st) PROVE FALSE
    OBVIOUS
  <2>1. st <= off[b - 1]
    BY <1>11, <1>15
  <2>2. n[st] <= n[off[b - 1]]
    BY <1>7, <1>11, <1>15, <2>1, GrowsFurther
  <2>3. n[off[b - 1]] \in Nat
    BY <1>7, <1>11 DEF Grows
  <2> QED
    BY <1>15, <2>2, <2>3
<1>17. ASSUME NEW j \in off[b - 1] + 1 .. st - 1, HasStream(s[j])
       PROVE  FALSE
  <2>1. /\ j \in 1 .. Len(s) /\ j \in 0 .. Len(s) /\ j - 1 \in 0 .. Len(s) /\ st - 1 \in 0 .. Len(s)
        /\ off[b - 1] <= j - 1 /\ j <= st - 1 /\ st \in 1 .. Len(s)
    BY <1>7, <1>9, <1>11, <1>15
  <2>2. n[off[b - 1]] <= n[j - 1] /\ n[j] <= n[st - 1]
    BY <1>7, <1>11, <2>1, GrowsFurther
  <2>3. n[j] = n[j - 1] + 1
    <3>1. HasStream(s[j]) = TRUE
      BY <1>17 DEF HasStream
    <3> QED
      BY <1>6, <2>1, <3>1 DEF Counts
  <2>4. n[st] = n[st - 1] + 1
    <3>1. HasStream(s[st]) = TRUE
      BY <1>2, <1>5, <2>1 DEF HasStream
    <3> QED
      BY <1>6, <2>1, <3>1 DEF Counts
  <2>5. n[off[b - 1]] \in Nat /\ n[j - 1] \in Nat /\ n[j] \in Nat /\ n[st - 1] \in Nat
    BY <1>7, <1>11, <2>1 DEF Grows
  <2>6. n[st] = n[off[b - 1]] + 1
    BY <1>15
  <2>7. n[st - 1] = n[off[b - 1]]
    BY <2>4, <2>5, <2>6
  <2>8. n[j] <= n[off[b - 1]]
    BY <2>2, <2>7
  <2> QED
    BY <2>2, <2>3, <2>5, <2>8
<1>18. w.map[i] = b /\ w.start[b] = st
    BY <1>14 DEF x, st
<1>19. FoundIn(off, i, s, w.map, w.start, b)
    BY <1>15, <1>16, <1>17, <1>18 DEF FoundIn
<1> QED
    BY <1>19 DEF s, h, w

-----------------------------------------------------------------------------
(* The bytes the decoder takes for a file                                   *)

\* The sizes of the items before i that are in its block, and 0 for the others.
SizesBefore(i) ==
    [j \in 1 .. (i - 1) |->
        IF BlockOf(archive, j) = BlockOf(archive, i) THEN Items(archive)[j].size ELSE 0]

LEMMA SizesInBlock ==
    ASSUME NEW off, NEW n, Laid(archive.blocks, off, Items(archive), n),
           NEW i \in 1 .. Len(Items(archive)),
           NEW b \in 1 .. Len(archive.blocks), InBlock(off, i, b)
    PROVE  /\ BlockOf(archive, i) = b
           /\ SizesBefore(i) \in Seq(Nat) /\ Len(SizesBefore(i)) = i - 1
           /\ \A j \in 1 .. i - 1 :
                 SizesBefore(i)[j] = IF off[b - 1] < j THEN Items(archive)[j].size ELSE 0
<1> DEFINE s == Items(archive)
           bs == archive.blocks
<1>1. Laid(bs, off, s, n)
    OBVIOUS
<1>2. s \in Seq(Item) /\ Offsets(off, bs) /\ bs \in Seq(Seq(Item))
    BY <1>1, Zenon DEF Laid
<1>3. SizesBefore(i) = [j \in 1 .. (i - 1) |-> IF BlockOf(archive, j) = BlockOf(archive, i) THEN s[j].size ELSE 0]
    BY DEF SizesBefore
<1> HIDE DEF s
<1>4. Len(s) \in Nat /\ i \in 1 .. Len(s) /\ i \in Nat /\ \A j \in 1 .. Len(s) : s[j].size \in Nat
    BY <1>2, SizesAre DEF s
<1>5. BlockOf(archive, i) = b
    BY <1>2, <1>4, BlockIs
<1>6. /\ off[b - 1] \in Nat /\ off[b] \in Nat /\ off[b] <= off[Len(bs)] /\ off[Len(bs)] \in Nat
      /\ off[b - 1] < i /\ i <= off[b]
  <2>1. Len(bs) \in Nat /\ Grows(off, Len(bs))
    BY <1>2, OffsetsGrow
  <2>2. b \in 0 .. Len(bs) /\ b - 1 \in 0 .. Len(bs) /\ Len(bs) \in 0 .. Len(bs) /\ b <= Len(bs)
    BY <2>1
  <2> QED
    BY <2>1, <2>2, GrowsFurther DEF Grows, InBlock
<1>7. ASSUME NEW j \in 1 .. i - 1
      PROVE  (BlockOf(archive, j) = b) <=> off[b - 1] < j
  <2>1. j \in Nat /\ j \in 1 .. off[Len(bs)] /\ j <= off[b]
    BY <1>4, <1>6
  <2>2. PICK x \in 1 .. Len(bs) : InBlock(off, j, x)
    BY <1>2, <2>1, InSomeBlock
  <2>3. BlockOf(archive, j) = x
    BY <1>2, <2>1, <2>2, BlockIs
  <2>4. ASSUME off[b - 1] < j
        PROVE  BlockOf(archive, j) = b
    <3>1. InBlock(off, j, b)
      BY <2>1, <2>4 DEF InBlock
    <3> QED
      BY <1>2, <2>1, <3>1, BlockIs
  <2>5. ASSUME BlockOf(archive, j) = b
        PROVE  off[b - 1] < j
    BY <2>2, <2>3, <2>5 DEF InBlock
  <2> QED
    BY <2>4, <2>5
<1>8. \A j \in 1 .. i - 1 : SizesBefore(i)[j] = IF off[b - 1] < j THEN s[j].size ELSE 0
    BY <1>3, <1>5, <1>7
<1>9. \A j \in 1 .. i - 1 : SizesBefore(i)[j] \in Nat
  <2>1. \A j \in 1 .. i - 1 : j \in 1 .. Len(s)
    BY <1>4
  <2> QED
    BY <1>4, <1>8, <2>1
<1>10. i - 1 \in Nat
    BY <1>4
<1>11. SizesBefore(i) = [j \in 1 .. (i - 1) |-> SizesBefore(i)[j]]
    BY <1>3
<1>12. SizesBefore(i) \in Seq(Nat) /\ Len(SizesBefore(i)) = i - 1
  <2> DEFINE t == SizesBefore(i)
  <2>1. t = [j \in 1 .. (i - 1) |-> t[j]] /\ \A j \in 1 .. (i - 1) : t[j] \in Nat
    BY <1>9, <1>11
  <2> HIDE DEF t
  <2>2. t \in Seq(Nat) /\ Len(t) = i - 1
    BY <1>10, <2>1
  <2> QED
    BY <2>2 DEF t
<1> QED
    BY <1>5, <1>8, <1>12 DEF s

\* The sizes the decoder sums up.
SizesFrom(i, st) == [k \in 1 .. (i - st) |-> db.files[st + k - 1].size]

LEMMA SameOffset ==
    ASSUME SizesAreKnown, NEW off, NEW n, Laid(archive.blocks, off, Items(archive), n),
           NEW i \in 1 .. Len(Items(archive)),
           NEW b \in 1 .. Len(archive.blocks), InBlock(off, i, b),
           NEW map, NEW start, FoundIn(off, i, Items(archive), map, start, b)
    PROVE  Total(SizesFrom(i, start[b])) = Total(SizesBefore(i))
<1> DEFINE s == Items(archive)
           st == start[b]
           t == SizesBefore(i)
           u == SizesFrom(i, st)
<1>1. s \in Seq(Item) /\ Len(s) = NumFiles(archive)
    BY Zenon DEF Laid, NumFiles
<1>2. /\ t \in Seq(Nat) /\ Len(t) = i - 1
      /\ \A j \in 1 .. i - 1 : t[j] = IF off[b - 1] < j THEN s[j].size ELSE 0
    BY SizesInBlock
<1>3. off[b - 1] \in 0 .. Len(s)
    BY BlockCounts
<1>4. /\ st \in 1 .. i /\ off[b - 1] < st
      /\ \A j \in off[b - 1] + 1 .. st - 1 : ~HasStream(s[j])
    BY DEF FoundIn
<1>5. \A j \in 1 .. Len(s) : db.files[j].size = s[j].size
    BY <1>1 DEF SizesAreKnown
<1>6. u = [k \in 1 .. (i - st) |-> db.files[st + k - 1].size]
    BY DEF SizesFrom
<1> HIDE DEF s, st, t, u
<1>7. /\ Len(s) \in Nat /\ \A j \in 1 .. Len(s) : s[j].size \in Nat
      /\ i \in Nat /\ i \in 1 .. Len(s) /\ st \in Nat /\ off[b - 1] \in Nat
  <2>1. Len(s) \in Nat /\ \A j \in 1 .. Len(s) : s[j].size \in Nat
    BY <1>1, SizesAre
  <2> QED
    BY <1>3, <1>4, <2>1 DEF s
<1>8. ASSUME NEW k \in 1 .. (i - st)
      PROVE  u[k] = t[(st - 1) + k] /\ u[k] \in Nat
  <2>1. /\ st + k - 1 = (st - 1) + k /\ (st - 1) + k \in 1 .. i - 1 /\ (st - 1) + k \in 1 .. Len(s)
        /\ off[b - 1] < (st - 1) + k
    BY <1>4, <1>7
  <2>2. u[k] = db.files[(st - 1) + k].size
    BY <1>6, <2>1
  <2> QED
    BY <1>2, <1>5, <1>7, <2>1, <2>2
<1>9. i - st \in Nat
    BY <1>4, <1>7
<1>10. u \in Seq(Nat) /\ Len(u) = i - st
  <2>1. u = [k \in 1 .. (i - st) |-> u[k]]
    BY <1>6
  <2> QED
    BY <1>8, <1>9, <2>1
<1>11. Follows(u, t, st - 1)
    BY <1>8, <1>10 DEF Follows
<1>12. ASSUME NEW j \in 1 .. st - 1
       PROVE  t[j] = 0
  <2>1. j \in 1 .. i - 1 /\ j \in 1 .. Len(s)
    BY <1>4, <1>7
  <2>2. t[j] = IF off[b - 1] < j THEN s[j].size ELSE 0
    BY <1>2, <2>1
  <2>3. CASE off[b - 1] < j
    <3>1. j \in off[b - 1] + 1 .. st - 1
      BY <1>7, <2>3
    <3>2. ~HasStream(s[j]) /\ s[j].size \in Nat
      BY <1>4, <1>7, <2>1, <3>1
    <3> QED
      BY <2>2, <2>3, <3>2 DEF HasStream
  <2> QED
    BY <2>2, <2>3
<1>13. Zeros(t, st - 1)
    BY <1>12 DEF Zeros
<1>14. st - 1 \in Nat /\ Len(t) = (st - 1) + Len(u)
  <2>1. st - 1 \in Nat
    BY <1>4, <1>7
  <2>2. i - 1 = (st - 1) + (i - st)
    BY <1>7
  <2> QED
    BY <1>2, <1>10, <2>1, <2>2
<1>15. Total(t) = Total(u)
    BY <1>2, <1>10, <1>11, <1>13, <1>14, TotalOfRest
<1> QED
    BY <1>15 DEF t, u, st

\* What is before an item in its block and the item are not more than the block.
LEMMA FitsInBlock ==
    ASSUME NEW off, NEW n, Laid(archive.blocks, off, Items(archive), n),
           NEW i \in 1 .. Len(Items(archive)),
           NEW b \in 1 .. Len(archive.blocks), InBlock(off, i, b)
    PROVE  Total(SizesBefore(i)) + Items(archive)[i].size
               <= Total(SizesOf(StreamsIn(archive.blocks[b])))
<1> DEFINE s == Items(archive)
           bs == archive.blocks
           block == bs[b]
           t == SizesBefore(i)
           o == off[b - 1]
           p == [k \in 1 .. (i - 1) - o |-> block[k].size]
<1>1. Laid(bs, off, s, n)
    OBVIOUS
<1>2. /\ t \in Seq(Nat) /\ Len(t) = i - 1
      /\ \A j \in 1 .. i - 1 : t[j] = IF o < j THEN s[j].size ELSE 0
    BY SizesInBlock
<1>3. /\ block \in Seq(Item) /\ o \in 0 .. Len(s) /\ off[b] \in 0 .. Len(s)
      /\ off[b] = o + Len(block)
    BY BlockCounts
<1>4. o < i /\ i <= off[b] /\ i \in 1 .. Len(s) /\ b \in 1 .. Len(bs)
    BY DEF InBlock
<1> HIDE DEF s, bs, block, t, o
<1>5. /\ SizesOf(block) \in Seq(Nat) /\ Len(SizesOf(block)) = Len(block) /\ Len(block) \in Nat
      /\ \A k \in 1 .. Len(block) : SizesOf(block)[k] = block[k].size /\ block[k].size \in Nat
    BY <1>3, SizesAre
<1>6. /\ o \in Nat /\ i \in Nat /\ (i - 1) - o \in Nat /\ i - o \in 1 .. Len(block)
      /\ (i - o) - 1 = (i - 1) - o /\ i - 1 = o + ((i - 1) - o)
    BY <1>3, <1>4, <1>5
<1>7. \A k \in 1 .. Len(block) : s[o + k] = block[k]
    BY <1>1, <1>4 DEF Laid, o, block
<1>8. \A k \in 1 .. (i - 1) - o : k \in 1 .. Len(block) /\ p[k] = block[k].size
    BY <1>6
<1>9. p \in Seq(Nat) /\ Len(p) = (i - 1) - o
    BY <1>5, <1>6, <1>8
<1> HIDE DEF p
<1>10. Zeros(t, o)
  <2> SUFFICES ASSUME NEW j \in 1 .. o PROVE t[j] = 0
    BY DEF Zeros
  <2>1. j \in 1 .. i - 1 /\ ~(o < j)
    BY <1>4, <1>6
  <2> QED
    BY <1>2, <2>1
<1>11. Follows(p, t, o)
  <2> SUFFICES ASSUME NEW k \in 1 .. (i - 1) - o PROVE p[k] = t[o + k]
    BY <1>9 DEF Follows
  <2>1. k \in 1 .. Len(block) /\ p[k] = block[k].size /\ s[o + k] = block[k]
    BY <1>7, <1>8
  <2>2. o + k \in 1 .. i - 1 /\ o < o + k
    BY <1>6
  <2> QED
    BY <1>2, <2>1, <2>2
<1>12. Len(t) = o + Len(p)
    BY <1>2, <1>6, <1>9
<1>13. Total(t) = Total(p)
    BY <1>2, <1>6, <1>9, <1>10, <1>11, <1>12, TotalOfRest
<1>14. /\ Total(p) \in Nat
       /\ Total(p) + SizesOf(block)[i - o] <= Total(SizesOf(block))
  <2> DEFINE z == SizesOf(block)
             k == i - o
  <2>1. z \in Seq(Nat) /\ k \in 1 .. Len(z) /\ Len(p) = k - 1 /\ \A j \in 1 .. Len(p) : p[j] = z[j]
    BY <1>5, <1>6, <1>8, <1>9
  <2> HIDE DEF z, k
  <2>2. Total(p) \in Nat /\ Total(p) + z[k] <= Total(z)
    BY <1>9, <2>1, TotalOfPart
  <2> QED
    BY <2>2 DEF z, k
<1>15. SizesOf(block)[i - o] = s[i].size
  <2>1. o + (i - o) = i
    BY <1>6
  <2> QED
    BY <1>5, <1>6, <1>7, <2>1
<1>16. Total(SizesOf(StreamsIn(block))) = Total(SizesOf(block))
    BY <1>3, StreamsTotal DEF StreamsIn
<1>17. Total(t) + s[i].size <= Total(SizesOf(StreamsIn(block)))
    BY <1>13, <1>14, <1>15, <1>16
<1> QED
    BY <1>17 DEF t, s, block, bs

\* The place the decoder gives a file in a block is the one it was compressed
\* at, and the whole file is in the block.
LEMMA TakenIsContent ==
    ASSUME LaidOut, db = ReadHeader(Header(archive)), NEW i \in 1 .. NumFiles(archive)
    PROVE  Taken(db, i) = Content(archive, i) /\ WithinBuffer(db, i)
<1> DEFINE s == Items(archive)
           bs == archive.blocks
           h == Header(archive)
           w == Fill(h)
<1>1. s \in Seq(Item) /\ Len(s) = NumFiles(archive) /\ i \in 1 .. Len(s)
    BY NamesDiffer DEF NumFiles
<1>2. /\ Len(s) \in Nat /\ s[i].size \in Nat
    BY <1>1, SizesAre
<1>3. PICK off, n : Laid(bs, off, s, n)
    BY LaidDown
<1>4. SizesAreKnown
    BY SizesKnown
<1>5. db.files[i].size = s[i].size
    BY <1>4 DEF SizesAreKnown
<1>6. db.map = w.map /\ db.start = w.start /\ db.unpack = h.unpack
    BY DEF ReadHeader
<1>7. Taken(db, i) = IF db.map[i] = NoBlock THEN Nothing
                     ELSE Extent(db.map[i], Total(SizesFrom(i, db.start[db.map[i]])), db.files[i].size)
    BY DEF Taken, SizesFrom
<1>8. Content(archive, i) = IF BlockOf(archive, i) = NoBlock THEN Nothing
                            ELSE Extent(BlockOf(archive, i), Total(SizesBefore(i)), s[i].size)
    BY DEF Content, SizesBefore
<1>9. CASE ~HasStream(s[i])
  <2>1. s[i].size = 0
    BY <1>2, <1>9 DEF HasStream
  <2>2. Taken(db, i) = Nothing
    BY <1>5, <1>7, <2>1 DEF Extent
  <2>3. Content(archive, i) = Nothing
    BY <1>8, <2>1 DEF Extent
  <2>4. WithinBuffer(db, i)
    BY <2>2 DEF WithinBuffer, Nothing
  <2> QED
    BY <2>2, <2>3, <2>4
<1>10. CASE HasStream(s[i])
  <2>1. i \in 1 .. off[Len(bs)]
    <3>1. off[Len(bs)] \in Nat
      <4>1. Offsets(off, bs) /\ bs \in Seq(Seq(Item))
        BY <1>3, Zenon DEF Laid
      <4>2. Len(bs) \in Nat
        BY <4>1, LenProperties
      <4>3. Len(bs) \in 0 .. Len(bs)
        BY <4>2
      <4> QED
        BY <4>1, <4>3 DEF Offsets
    <3>2. ~(i > off[Len(bs)])
      BY <1>1, <1>3, <1>10 DEF Laid
    <3> QED
      BY <1>1, <3>1, <3>2
  <2>2. PICK b \in 1 .. Len(bs) : InBlock(off, i, b)
    <3>1. Offsets(off, bs) /\ bs \in Seq(Seq(Item))
      BY <1>3, Zenon DEF Laid
    <3> QED
      BY <2>1, <3>1, InSomeBlock
  <2>3. FoundIn(off, i, s, w.map, w.start, b)
    BY <1>1, <1>3, <1>10, <2>2, FoundWhereItIs
  <2>4. Total(SizesFrom(i, w.start[b])) = Total(SizesBefore(i))
    BY <1>1, <1>3, <1>4, <2>2, <2>3, SameOffset
  <2>5. /\ BlockOf(archive, i) = b /\ SizesBefore(i) \in Seq(Nat)
    BY <1>1, <1>3, <2>2, SizesInBlock
  <2>6. Total(SizesBefore(i)) + s[i].size <= Total(SizesOf(StreamsIn(bs[b])))
    BY <1>1, <1>3, <2>2, FitsInBlock
  <2>7. h.unpack[b] = Total(SizesOf(StreamsIn(bs[b])))
    BY <1>3, <2>2, HeaderStreams
  <2> HIDE DEF s, w, h, bs
  <2>8. b # NoBlock /\ w.map[i] = b
    <3>1. b # 0
      OBVIOUS
    <3> QED
      BY <2>3, <3>1 DEF FoundIn, NoBlock
  <2>9. Taken(db, i) = Extent(b, Total(SizesBefore(i)), s[i].size)
    BY <1>5, <1>6, <1>7, <2>4, <2>8
  <2>10. Content(archive, i) = Extent(b, Total(SizesBefore(i)), s[i].size)
    BY <1>8, <2>5, <2>8
  <2>11. s[i].size # 0
    BY <1>10 DEF HasStream
  <2>12. Taken(db, i) = [block |-> b, offset |-> Total(SizesBefore(i)), size |-> s[i].size]
    BY <2>9, <2>11 DEF Extent
  <2>13. WithinBuffer(db, i)
    BY <1>6, <2>6, <2>7, <2>12 DEF WithinBuffer
  <2> QED
    BY <2>9, <2>10, <2>13
<1> QED
    BY <1>9, <1>10

LEMMA NoError ==
    ASSUME LaidOut, db = ReadHeader(Header(archive))
    PROVE  ~db.error
<1>1. PICK off, n : Laid(archive.blocks, off, Items(archive), n)
    BY LaidDown
<1> DEFINE h == Header(archive)
           c == BlockEnds(archive.blocks, off, n)
<1>2. Streamed(h, c, n)
    BY <1>1, HeaderStreams
<1>3. db.error = Fill(h).error
    BY DEF ReadHeader
<1> HIDE DEF h, c
<1>4. FillInv(h, c, n, Fill(h), Len(h.emptyStream))
    BY <1>2, AllPlaced
<1>5. ~Fill(h).error
    BY <1>4, Zenon DEF FillInv
<1> QED
    BY <1>3, <1>5, Zenon

LEMMA HeaderUnderstood ==
    ASSUME LaidOut, db = ReadHeader(Header(archive))
    PROVE  HeaderIsUnderstood
<1>1. Len(db.files) = NumFiles(archive)
    BY AsManyFiles
<1>2. KindsAreKnown /\ SizesAreKnown
    BY KindsKnown, SizesKnown
<1>3. \A i \in 1 .. NumFiles(archive) : Taken(db, i) = Content(archive, i) /\ WithinBuffer(db, i)
    BY TakenIsContent
<1>4. ~db.error
    BY NoError
<1> QED
    BY <1>1, <1>2, <1>3, <1>4, Zenon DEF HeaderIsUnderstood, KindsAreKnown, SizesAreKnown

\* Whatever is packed, the decoder reads from the header what the compressor
\* meant (HeaderIsUnderstood): which items are directories, the size of every
\* file, and the block and the offset of its bytes.
THEOREM HeadersAreUnderstood == Spec => []HeaderIsUnderstood
<1>1. Sound => HeaderIsUnderstood
    BY HeaderUnderstood DEF Sound
<1> QED
    BY <1>1, DeletionInvariant, PTL

\* Python runs only with every file of the archive whole in targetdir, each
\* with the bytes that were packed (PythonHasItsFiles).
THEOREM PythonIsComplete == Spec => []PythonHasItsFiles
BY HeadersAreUnderstood, PythonIsCompleteIf, PTL
=============================================================================
