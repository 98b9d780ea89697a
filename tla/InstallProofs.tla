------------------------------ MODULE InstallProofs ------------------------------
(***************************************************************************)
(* The installer's writes, for every list of drives, place of the system   *)
(* drive, boot loader, set of commands and number of processes.            *)
(*                                                                         *)
(* The argument is that each step of a list finds what the step before it  *)
(* left.  Chained says which step may come directly after which, InOrder   *)
(* that what is left of a list respects it, and ReadyFor what a step that  *)
(* is next finds done.  Pending, Creates and Recorded account for every    *)
(* boot entry: it is the recorded one, or lost, or is being recorded.      *)
(*                                                                         *)
(* Work, the second invariant, follows what a list does.  A list goes      *)
(* through its stages in order (Plan), so that a step that destroys some   *)
(* of the work is always followed by the one that does it again: a step is *)
(* to be done, or its work is there (Worked).  Undoing the boot loader     *)
(* leaves what boots this installation alone (OnlyOurs), and no entry for  *)
(* a full installation is there before its files are (Hosting).            *)
(***************************************************************************)
EXTENDS Install, SequenceTheorems, WellFoundedInduction, TLAPS

\* The steps of the lists.
Undoing == {"delete_entry", "VistaBootDrive", "undo_bootini", "yldr", "yldr.mbr", "yldrd", "yldrd.mbr"}
Removing == {"remove_target", "remove_key", "rm_pre2", "rm_pre1"}
Writing == {"dirs", "uninstaller", "UninstallString", "InstallationDir", "rmtree_winboot", "winboot",
            "iso", "unlink_kernel", "kernel", "loader", "mbr", "bootini", "create_entry",
            "set_entry", "record_entry", "grub", "root", "swap", "root_size", "swap_size"}
Installs == Undoing \cup Writing
Uninstalls == Undoing \cup Removing
Allowed == IF job = "uninstall" THEN Uninstalls ELSE Installs

\* A step y may come directly after a step x.
Chained(x, y) ==
    /\ y = "VistaBootDrive" => x = "delete_entry"
    /\ y = "undo_bootini" => x = "VistaBootDrive"
    /\ y = "yldr" => x = "undo_bootini"
    /\ y = "yldr.mbr" => x = "yldr"
    /\ y = "yldrd" => x = "yldr.mbr"
    /\ y = "yldrd.mbr" => x = "yldrd"
    /\ y = "remove_target" => x = "yldrd.mbr"
    /\ y = "remove_key" => x = "remove_target"
    /\ y = "rm_pre2" => x = "remove_key"
    /\ y = "rm_pre1" => x = "rm_pre2"
    /\ y = "mbr" => x = "loader"
    /\ y = "bootini" => x = "mbr"
    /\ y = "record_entry" => x = "set_entry"
    /\ y \notin {"dirs", "set_entry", "root_size", "swap_size"}
InOrder(s) == \A i \in 2 .. Len(s) : Chained(s[i - 1], s[i])

\* What is left of a list is in order.
ListOK ==
    /\ pc # "tasks" => todo = <<>>
    /\ pc = "tasks" =>
          /\ job \in {"install", "fix", "uninstall"}
          /\ todo \in Seq(Allowed)
          /\ InOrder(todo)
          /\ job = "uninstall" /\ todo # <<>> => todo[Len(todo)] = "rm_pre1"

-----------------------------------------------------------------------------
(* Lists                                                                    *)

LEMMA JoinInOrder ==
    ASSUME NEW S, NEW s \in Seq(S), NEW t \in Seq(S), InOrder(s), InOrder(t),
           t # <<>> => \A x : Chained(x, t[1])
    PROVE  s \o t \in Seq(S) /\ InOrder(s \o t)
<1>1. /\ s \o t \in Seq(S) /\ Len(s \o t) = Len(s) + Len(t)
      /\ \A i \in 1 .. Len(s) + Len(t) :
             (s \o t)[i] = IF i <= Len(s) THEN s[i] ELSE t[i - Len(s)]
    BY ConcatProperties
<1>2. Len(s) \in Nat /\ Len(t) \in Nat
    BY LenProperties
<1>3. ASSUME NEW i \in 2 .. Len(s) + Len(t)
      PROVE  Chained((s \o t)[i - 1], (s \o t)[i])
  <2>1. CASE i <= Len(s)
    <3>1. (s \o t)[i] = s[i] /\ (s \o t)[i - 1] = s[i - 1] /\ i \in 2 .. Len(s)
      BY <1>1, <1>2, <2>1
    <3> QED BY <3>1 DEF InOrder
  <2>2. CASE i = Len(s) + 1
    <3>1. (s \o t)[i] = t[1] /\ Len(t) >= 1
      BY <1>1, <1>2, <1>3, <2>2
    <3>2. t # <<>>
      BY <3>1, EmptySeq
    <3> QED BY <3>1, <3>2
  <2>3. CASE i > Len(s) + 1
    <3>1. /\ i - Len(s) \in 2 .. Len(t)
          /\ (s \o t)[i] = t[i - Len(s)] /\ (s \o t)[i - 1] = t[(i - Len(s)) - 1]
      BY <1>1, <1>2, <1>3, <2>3
    <3> QED BY <3>1 DEF InOrder
  <2> QED BY <1>2, <2>1, <2>2, <2>3
<1> QED
    BY <1>1, <1>3 DEF InOrder

\* The pieces the lists are made of.
LEMMA Pieces ==
    /\ FileSteps \in Seq(Installs) /\ InOrder(FileSteps) /\ FileSteps[1] = "dirs" /\ Len(FileSteps) = 6
    /\ <<"iso">> \in Seq(Installs) /\ InOrder(<<"iso">>) /\ <<"iso">>[1] = "iso"
    /\ KernelSteps \in Seq(Installs) /\ InOrder(KernelSteps) /\ KernelSteps[1] = "unlink_kernel"
    /\ <<"grub">> \in Seq(Installs) /\ InOrder(<<"grub">>) /\ <<"grub">>[1] = "grub"
    /\ <<"root", "swap">> \in Seq(Installs) /\ InOrder(<<"root", "swap">>)
    /\ <<"root", "swap">>[1] = "root" /\ <<"grub", "root", "swap">>[1] = "grub"
    /\ <<"grub", "root", "swap">> \in Seq(Installs) /\ InOrder(<<"grub", "root", "swap">>)
    /\ <<>> \in Seq(Installs) /\ InOrder(<<>>)
    /\ UndoSteps \in Seq(Undoing) /\ UndoSteps \in Seq(Installs) /\ UndoSteps \in Seq(Uninstalls)
    /\ InOrder(UndoSteps) /\ UndoSteps[1] = "delete_entry" /\ Len(UndoSteps) = 7
BY DEF InOrder, Chained, FileSteps, KernelSteps, UndoSteps, Installs, Uninstalls, Undoing, Writing

LEMMA Frees == \A x : Chained(x, "loader") /\ Chained(x, "create_entry")
BY DEF Chained

LEMMA CreatesInOrder ==
    ASSUME NEW n \in Int
    PROVE  /\ CreateSteps(n) \in Seq(Installs) /\ InOrder(CreateSteps(n))
           /\ CreateSteps(n) # <<>> => CreateSteps(n)[1] = "create_entry"
<1>1. CASE n < 0
  <2>1. 1 .. n = 1 .. 0
    BY <1>1
  <2>2. CreateSteps(n) = [i \in 1 .. 0 |-> "create_entry"]
    BY <2>1 DEF CreateSteps
  <2>3. CreateSteps(n) = <<>>
    BY <2>2
  <2> QED BY <2>3, Pieces
<1>2. CASE n \in Nat
  <2>1. CreateSteps(n) \in [1 .. n -> Installs] /\ \A i \in 1 .. n : CreateSteps(n)[i] = "create_entry"
    BY DEF CreateSteps, Installs, Writing
  <2>2. CreateSteps(n) \in Seq(Installs) /\ Len(CreateSteps(n)) = n
    BY <1>2, <2>1
  <2>3. InOrder(CreateSteps(n))
    BY <1>2, <2>1, <2>2, Frees DEF InOrder
  <2>4. CreateSteps(n) # <<>> => n >= 1
    BY <1>2, <2>2, EmptySeq
  <2> QED BY <1>2, <2>1, <2>2, <2>3, <2>4
<1> QED BY <1>1, <1>2

\* What a piece in front of others is.
LEMMA FirstOfJoin ==
    ASSUME NEW S, NEW s \in Seq(S), NEW t \in Seq(S), s # <<>>
    PROVE  (s \o t)[1] = s[1] /\ s \o t # <<>>
<1>1. Len(s) \in Nat \ {0} /\ Len(t) \in Nat
    BY EmptySeq, LenProperties
<1>2. (s \o t)[1] = s[1] /\ Len(s \o t) = Len(s) + Len(t)
    BY <1>1, ConcatProperties
<1>3. Len(s \o t) # 0
    BY <1>1, <1>2
<1> QED BY <1>2, <1>3, EmptySeq

\* A list and one more piece, which begins with a step that may come after any.
Starts == {"iso", "unlink_kernel", "delete_entry", "loader", "create_entry", "grub", "root"}
LEMMA OneMorePiece ==
    ASSUME NEW s \in Seq(Installs), NEW t \in Seq(Installs), InOrder(s), InOrder(t),
           s # <<>>, t # <<>> => t[1] \in Starts
    PROVE  /\ s \o t \in Seq(Installs) /\ InOrder(s \o t)
           /\ s \o t # <<>> /\ (s \o t)[1] = s[1]
<1>1. t # <<>> => \A x : Chained(x, t[1])
    BY DEF Starts, Chained
<1> QED
    BY <1>1, JoinInOrder, FirstOfJoin

LEMMA BootInOrder ==
    BootSteps \in Seq(Installs) /\ InOrder(BootSteps) /\ BootSteps[1] \in Starts
<1>1. CASE bootloader = "xp"
  <2>1. BootSteps = <<"loader", "mbr", "bootini">>
    BY <1>1 DEF BootSteps
  <2> QED BY <2>1 DEF InOrder, Chained, Installs, Writing, Starts
<1>2. CASE bootloader # "xp"
  <2> DEFINE k == CHOOSE i \in DOMAIN Drives : Drives[i] = System
             files == <<"loader", "mbr">>
             first == CreateSteps(k - 1)
             last == CreateSteps(Len(Drives) - k + 1)
  <2>1. k \in 1 .. Len(Drives) /\ Len(Drives) \in Nat
    <3>1. \E i \in DOMAIN Drives : Drives[i] = System
      BY DrivesAssumption DEF ToSet
    <3>2. DOMAIN Drives = 1 .. Len(Drives) /\ Len(Drives) \in Nat
      BY DrivesAssumption, LenProperties
    <3> QED BY <3>1, <3>2
  <2>2. BootSteps = (first \o files) \o last
    BY <1>2 DEF BootSteps
  <2>3. k - 1 \in Int /\ Len(Drives) - k + 1 \in Int
    BY <2>1
  <2> HIDE DEF k
  <2>4. /\ first \in Seq(Installs) /\ InOrder(first)
        /\ first # <<>> => first[1] = "create_entry"
    BY <2>3, CreatesInOrder
  <2>5. /\ last \in Seq(Installs) /\ InOrder(last)
        /\ last # <<>> => last[1] = "create_entry"
    BY <2>3, CreatesInOrder
  <2>6. files \in Seq(Installs) /\ InOrder(files) /\ files[1] = "loader" /\ Len(files) = 2
    BY DEF InOrder, Chained, Installs, Writing
  <2> HIDE DEF files, first, last
  <2>7. first \o files \in Seq(Installs) /\ InOrder(first \o files)
    BY <2>4, <2>6, JoinInOrder, Frees
  <2>8. BootSteps \in Seq(Installs) /\ InOrder(BootSteps)
    BY <2>2, <2>5, <2>7, JoinInOrder, Frees
  <2>9. BootSteps[1] \in {"loader", "create_entry"}
    <3>1. first \o files # <<>> /\ (first \o files)[1] \in {"loader", "create_entry"}
      <4>1. CASE first = <<>>
        BY <2>6, <4>1
      <4>2. CASE first # <<>>
        BY <2>4, <2>6, <4>2, FirstOfJoin
      <4> QED BY <4>1, <4>2
    <3> QED BY <2>2, <2>5, <2>7, <3>1, FirstOfJoin
  <2> QED BY <2>8, <2>9 DEF Starts
<1> QED BY <1>1, <1>2

LEMMA ListsInOrder ==
    /\ \A kind : InstallSteps(kind) \in Seq(Installs) /\ InOrder(InstallSteps(kind))
                 /\ InstallSteps(kind) # <<>> /\ InstallSteps(kind)[1] = "dirs"
    /\ FixSteps \in Seq(Installs) /\ InOrder(FixSteps) /\ FixSteps # <<>> /\ FixSteps[1] = "dirs"
    /\ UninstallSteps \in Seq(Uninstalls) /\ InOrder(UninstallSteps) /\ UninstallSteps # <<>>
    /\ UninstallSteps[1] = "delete_entry" /\ UninstallSteps[Len(UninstallSteps)] = "rm_pre1"
<1>0. BootSteps \in Seq(Installs) /\ InOrder(BootSteps) /\ BootSteps[1] \in Starts
    BY BootInOrder
<1>a. FileSteps # <<>>
    BY Pieces
<1>1. ASSUME NEW kind
      PROVE  InstallSteps(kind) \in Seq(Installs) /\ InOrder(InstallSteps(kind))
             /\ InstallSteps(kind) # <<>> /\ InstallSteps(kind)[1] = "dirs"
  <2> DEFINE undo == IF command = "cd_boot" THEN <<>> ELSE UndoSteps
             disks == IF kind = "loop" THEN <<"root", "swap">> ELSE <<>>
             s1 == FileSteps \o <<"iso">>
             s2 == s1 \o KernelSteps
             s3 == s2 \o undo
             s4 == s3 \o BootSteps
             s5 == s4 \o <<"grub">>
  <2>1. undo \in Seq(Installs) /\ InOrder(undo) /\ (undo # <<>> => undo[1] = "delete_entry")
    BY Pieces
  <2>2. disks \in Seq(Installs) /\ InOrder(disks) /\ (disks # <<>> => disks[1] = "root")
    BY Pieces
  <2>3. InstallSteps(kind) = s5 \o disks
    BY DEF InstallSteps
  <2> HIDE DEF undo, disks
  <2>4. s1 \in Seq(Installs) /\ InOrder(s1) /\ s1 # <<>> /\ s1[1] = "dirs"
    BY <1>a, Pieces, OneMorePiece DEF Starts
  <2> HIDE DEF s1
  <2>5. s2 \in Seq(Installs) /\ InOrder(s2) /\ s2 # <<>> /\ s2[1] = "dirs"
    BY <2>4, Pieces, OneMorePiece DEF Starts
  <2> HIDE DEF s2
  <2>6. s3 \in Seq(Installs) /\ InOrder(s3) /\ s3 # <<>> /\ s3[1] = "dirs"
    BY <2>1, <2>5, OneMorePiece DEF Starts
  <2> HIDE DEF s3
  <2>7. s4 \in Seq(Installs) /\ InOrder(s4) /\ s4 # <<>> /\ s4[1] = "dirs"
    BY <1>0, <2>6, OneMorePiece
  <2> HIDE DEF s4
  <2>8. s5 \in Seq(Installs) /\ InOrder(s5) /\ s5 # <<>> /\ s5[1] = "dirs"
    BY <2>7, Pieces, OneMorePiece DEF Starts
  <2> HIDE DEF s5
  <2> QED
    BY <2>2, <2>3, <2>8, OneMorePiece DEF Starts
<1>2. FixSteps \in Seq(Installs) /\ InOrder(FixSteps) /\ FixSteps # <<>> /\ FixSteps[1] = "dirs"
  <2> DEFINE s1 == FileSteps \o KernelSteps
             s2 == s1 \o UndoSteps
             s3 == s2 \o BootSteps
  <2>1. FixSteps = s3 \o <<"grub", "root", "swap">>
    BY DEF FixSteps
  <2>2. s1 \in Seq(Installs) /\ InOrder(s1) /\ s1 # <<>> /\ s1[1] = "dirs"
    BY <1>a, Pieces, OneMorePiece DEF Starts
  <2> HIDE DEF s1
  <2>3. s2 \in Seq(Installs) /\ InOrder(s2) /\ s2 # <<>> /\ s2[1] = "dirs"
    BY <2>2, Pieces, OneMorePiece DEF Starts
  <2> HIDE DEF s2
  <2>4. s3 \in Seq(Installs) /\ InOrder(s3) /\ s3 # <<>> /\ s3[1] = "dirs"
    BY <1>0, <2>3, OneMorePiece
  <2> HIDE DEF s3
  <2> QED
    BY <2>1, <2>4, Pieces, OneMorePiece DEF Starts
<1>3. /\ UninstallSteps \in Seq(Uninstalls) /\ InOrder(UninstallSteps) /\ UninstallSteps # <<>>
      /\ UninstallSteps[1] = "delete_entry" /\ UninstallSteps[Len(UninstallSteps)] = "rm_pre1"
  <2> DEFINE rest == <<"remove_target", "remove_key", "rm_pre2", "rm_pre1">>
  <2>1. /\ rest \in Seq(Uninstalls) /\ InOrder(rest) /\ Len(rest) = 4
        /\ rest[1] = "remove_target" /\ rest[4] = "rm_pre1"
    BY DEF InOrder, Chained, Uninstalls, Removing
  <2>2. UninstallSteps = UndoSteps \o rest
    BY DEF UninstallSteps
  <2>3. UndoSteps[7] = "yldrd.mbr" /\ UndoSteps # <<>>
    BY DEF UndoSteps
  <2> HIDE DEF rest
  <2>4. /\ UninstallSteps \in Seq(Uninstalls) /\ Len(UninstallSteps) = 11
        /\ \A i \in 1 .. 11 : UninstallSteps[i] = IF i <= 7 THEN UndoSteps[i] ELSE rest[i - 7]
    <3>1. UndoSteps \in Seq(Uninstalls) /\ Len(UndoSteps) = 7
      BY Pieces
    <3> HIDE DEF UndoSteps
    <3>2. /\ UndoSteps \o rest \in Seq(Uninstalls) /\ Len(UndoSteps \o rest) = Len(UndoSteps) + Len(rest)
          /\ \A i \in 1 .. Len(UndoSteps) + Len(rest) :
                 (UndoSteps \o rest)[i] = IF i <= Len(UndoSteps) THEN UndoSteps[i] ELSE rest[i - Len(UndoSteps)]
      BY <2>1, <3>1, ConcatProperties
    <3>3. Len(UndoSteps) + Len(rest) = 11
      BY <2>1, <3>1
    <3> QED BY <2>2, <3>1, <3>2, <3>3
  <2>5. ASSUME NEW i \in 2 .. 11
        PROVE  Chained(UninstallSteps[i - 1], UninstallSteps[i])
    <3>1. CASE i <= 7
      BY <2>4, <3>1, Pieces DEF InOrder
    <3>2. CASE i = 8
      BY <2>1, <2>3, <2>4, <3>2 DEF Chained
    <3>3. CASE i > 8
      <4>1. i - 7 \in 2 .. 4 /\ (i - 1) - 7 = (i - 7) - 1
        BY <3>3
      <4> QED BY <2>1, <2>4, <3>3, <4>1 DEF InOrder
    <3> QED BY <3>1, <3>2, <3>3
  <2>6. UninstallSteps # <<>> /\ UninstallSteps[1] = "delete_entry"
    BY <2>1, <2>2, <2>3, Pieces, FirstOfJoin
  <2> QED BY <2>1, <2>4, <2>5, <2>6 DEF InOrder
<1> QED BY <1>1, <1>2, <1>3

-----------------------------------------------------------------------------
(* A step is done                                                           *)

\* What is behind the first entry of a sequence.
LEMMA TailOf ==
    ASSUME NEW S, NEW s \in Seq(S), s # <<>>
    PROVE  /\ Len(s) \in Nat \ {0} /\ Head(s) = s[1] /\ Head(s) \in S
           /\ Tail(s) \in Seq(S) /\ Len(Tail(s)) = Len(s) - 1
           /\ \A i \in 1 .. Len(s) - 1 : Tail(s)[i] = s[i + 1]
           /\ Tail(s) = <<>> => Len(s) = 1
           /\ Tail(s) # <<>> => /\ Len(s) >= 2 /\ s[2] \in S
                                /\ Head(Tail(s)) = s[2] /\ Tail(s)[1] = s[2]
                                /\ Tail(s)[Len(Tail(s))] = s[Len(s)]
<1>1. Len(s) \in Nat \ {0}
    BY EmptySeq
<1>2. /\ Head(s) = s[1] /\ Head(s) \in S
      /\ Tail(s) \in Seq(S) /\ Len(Tail(s)) = Len(s) - 1
    BY <1>1
<1>3. \A i \in 1 .. Len(s) - 1 : Tail(s)[i] = s[i + 1]
    BY <1>1
<1>4. ASSUME Tail(s) = <<>> PROVE Len(s) = 1
  <2>1. Len(Tail(s)) = 0
    BY <1>4, EmptySeq
  <2>2. Len(s) - 1 = 0
    BY <1>2, <2>1
  <2> QED BY <1>1, <2>2
<1>5. ASSUME Tail(s) # <<>>
      PROVE  /\ Len(s) >= 2 /\ s[2] \in S
             /\ Head(Tail(s)) = s[2] /\ Tail(s)[1] = s[2]
             /\ Tail(s)[Len(Tail(s))] = s[Len(s)]
  <2>1. Len(Tail(s)) \in Nat \ {0}
    BY <1>2, <1>5, EmptySeq
  <2>2. Len(s) >= 2
    BY <1>1, <1>2, <2>1
  <2>3. Tail(s)[1] = s[2] /\ s[2] \in S
    BY <2>2
  <2>4. Head(Tail(s)) = Tail(s)[1]
    BY <1>2, <1>5
  <2>5. Len(s) - 1 \in 1 .. Len(s) - 1 /\ (Len(s) - 1) + 1 = Len(s)
    BY <2>2
  <2>6. Tail(s)[Len(s) - 1] = s[(Len(s) - 1) + 1]
    BY <1>3, <2>5
  <2> QED BY <1>2, <2>2, <2>3, <2>4, <2>5, <2>6
<1> QED BY <1>1, <1>2, <1>3, <1>4, <1>5

LEMMA TailInOrder ==
    ASSUME NEW S, NEW s \in Seq(S), s # <<>>, InOrder(s)
    PROVE  InOrder(Tail(s)) /\ (Tail(s) # <<>> => Chained(Head(s), Head(Tail(s))))
<1>1. /\ Len(s) \in Nat \ {0} /\ Head(s) = s[1] /\ Len(Tail(s)) = Len(s) - 1
      /\ \A i \in 1 .. Len(s) - 1 : Tail(s)[i] = s[i + 1]
      /\ Tail(s) # <<>> => Len(s) >= 2 /\ Head(Tail(s)) = s[2]
    BY TailOf
<1>2. ASSUME NEW i \in 2 .. Len(s) - 1
      PROVE  Chained(Tail(s)[i - 1], Tail(s)[i])
  <2>1. /\ Tail(s)[i] = s[i + 1] /\ Tail(s)[i - 1] = s[i] /\ i + 1 \in 2 .. Len(s)
        /\ (i + 1) - 1 = i
    BY <1>1
  <2>2. Chained(s[(i + 1) - 1], s[i + 1])
    BY <2>1 DEF InOrder
  <2> QED BY <2>1, <2>2
<1>3. ASSUME Len(s) >= 2
      PROVE  Chained(s[1], s[2])
  <2>1. 2 \in 2 .. Len(s) /\ 2 - 1 = 1
    BY <1>1, <1>3
  <2>2. Chained(s[2 - 1], s[2])
    BY <2>1 DEF InOrder
  <2> QED BY <2>1, <2>2
<1> QED BY <1>1, <1>2, <1>3 DEF InOrder

LEMMA TailOfList ==
    ASSUME ListOK, pc = "tasks", todo # <<>>, todo' = Tail(todo), UNCHANGED <<pc, job>>
    PROVE  /\ ListOK' /\ Head(todo) \in Allowed
           /\ todo' # <<>> => Chained(Head(todo), Head(todo')) /\ Head(todo') \in Allowed /\ Head(todo') = todo[2]
           /\ job = "uninstall" /\ todo' = <<>> => Head(todo) = "rm_pre1"
<1>1. todo \in Seq(Allowed) /\ InOrder(todo)
    BY DEF ListOK
<1>2. /\ Head(todo) = todo[1] /\ Head(todo) \in Allowed /\ todo' \in Seq(Allowed)
      /\ todo' = <<>> => Len(todo) = 1
      /\ todo' # <<>> => /\ Head(todo') = todo[2] /\ todo[2] \in Allowed
                         /\ todo'[Len(todo')] = todo[Len(todo)]
    BY <1>1, TailOf
<1>3. InOrder(todo') /\ (todo' # <<>> => Chained(Head(todo), Head(todo')))
    BY <1>1, TailInOrder
<1>4. Allowed' = Allowed
    BY DEF Allowed
<1>5. ListOK'
    BY <1>2, <1>3, <1>4 DEF ListOK
<1> QED
    BY <1>2, <1>3, <1>5 DEF ListOK

\* A step that does its work in several.
LEMMA MoreOfList ==
    ASSUME ListOK, pc = "tasks", todo # <<>>, UNCHANGED <<pc, job>>,
           NEW p \in Seq(Writing), p # <<>>, InOrder(p), todo' = p \o Tail(todo),
           Head(todo) \in {"create_entry", "root", "swap"}
    PROVE  /\ job # "uninstall" /\ ListOK' /\ todo' # <<>> /\ Head(todo') = p[1]
           /\ Len(p) >= 2 => todo'[2] = p[2] /\ Len(todo') >= 2
<1>1. todo \in Seq(Allowed) /\ InOrder(todo)
    BY DEF ListOK
<1>2. Head(todo) \in Allowed /\ Tail(todo) \in Seq(Allowed) /\ (Tail(todo) # <<>> => Tail(todo)[1] = Head(Tail(todo)))
    BY <1>1, TailOf
<1>3. job # "uninstall" /\ Allowed = Installs
    BY <1>2 DEF Allowed, Uninstalls, Undoing, Removing
<1>4. p \in Seq(Installs) /\ Len(p) \in Nat \ {0} /\ Len(Tail(todo)) \in Nat
    BY <1>2, EmptySeq, LenProperties, SeqMonotonic DEF Installs
<1>5. InOrder(Tail(todo)) /\ (Tail(todo) # <<>> => \A x : Chained(x, Tail(todo)[1]))
    BY <1>1, <1>2, TailInOrder DEF Chained
<1>6. p \o Tail(todo) \in Seq(Installs) /\ InOrder(p \o Tail(todo))
    BY <1>2, <1>3, <1>4, <1>5, JoinInOrder
<1>7. p \o Tail(todo) # <<>> /\ (p \o Tail(todo))[1] = p[1]
    BY <1>2, <1>3, <1>4, FirstOfJoin
<1>8. Len(p) >= 2 => (p \o Tail(todo))[2] = p[2] /\ Len(p \o Tail(todo)) >= 2
    BY <1>2, <1>3, <1>4, ConcatProperties
<1>9. Allowed' = Allowed
    BY DEF Allowed
<1>10. ListOK'
    BY <1>3, <1>6, <1>9 DEF ListOK
<1> QED
    BY <1>3, <1>6, <1>7, <1>8, <1>10

-----------------------------------------------------------------------------
(* The invariant                                                            *)

Types ==
    /\ TypeOK
    /\ command \in {"install", "cd_boot", "uninstall"}
    /\ pc # "idle" => runs # 0
    /\ info.needfix # 0 => info.pre1 \in Place
    /\ pc = "tasks" /\ job # "uninstall" => target \in Place

\* What a step h that is next finds done.
Unlinking == {"yldr", "yldr.mbr", "yldrd", "yldrd.mbr"}
ReadyFor(h) ==
    /\ h = "VistaBootDrive" => \A e \in bcd : e.id = reg.vista => e.id \in lost
    /\ h \in {"undo_bootini"} \cup Unlinking \cup Removing => reg.vista = None
    /\ h \in Unlinking \cup Removing => bootini = {}
    /\ h \in {"yldr.mbr", "yldrd", "yldrd.mbr"} \cup Removing => "yldr" \notin bootfiles
    /\ h \in {"yldrd", "yldrd.mbr"} \cup Removing => "yldr.mbr" \notin bootfiles
    /\ h \in {"yldrd.mbr"} \cup Removing => "yldrd" \notin bootfiles
    /\ h \in Removing => "yldrd.mbr" \notin bootfiles
    /\ h \in {"remove_key", "rm_pre2", "rm_pre1"} => ~Exists(info.prev)
    /\ h \in {"rm_pre2", "rm_pre1"} => reg = NoValues
    /\ h = "rm_pre1" => ~Exists(info.pre2)
    /\ h \in {"mbr", "bootini"} => Loader \in bootfiles
    /\ h = "bootini" => Mbr \in bootfiles
    /\ job # "uninstall" /\ h # "dirs" => "dir" \in contents[target]
    /\ h \in {"set_entry", "record_entry"} => reg.vista = None
    /\ h = "set_entry" => Len(todo) >= 2 /\ todo[2] = "record_entry"
    /\ h = "root_size" => "root" \in contents[target]
    /\ h = "swap_size" => "swap" \in contents[target]
Ready == pc = "tasks" /\ todo # <<>> => ReadyFor(Head(todo))

\* Every entry is lost, recorded, or about to be; those of this process are of
\* its installation or fix, and name its target.
Pending == pc = "tasks" /\ todo # <<>> /\ Head(todo) \in {"set_entry", "record_entry"}
Creates == pc = "tasks" /\ job # "uninstall"
Recorded ==
    /\ \A e \in bcd : e.id <= runs
    /\ \A e \in bcd : e.id \in lost \/ e.id = reg.vista \/ (e.id = runs /\ Pending)
    /\ Creates \/ pc \in {"idle", "over", "refused"} \/ \A e \in bcd : e.id # runs
    /\ Creates => \A e \in bcd : e.id = runs => e.at \in {None, target, Refused}

\* An uninstallation that has ended.
Finished ==
    pc = "tasks" /\ job = "uninstall" /\ todo = <<>> =>
        /\ reg = NoValues /\ bootini = {} /\ bootfiles = {}
        /\ ~Exists(info.prev) /\ ~Exists(info.pre1) /\ ~Exists(info.pre2)

\* The recorded entry names a directory that is there, and a line of boot.ini
\* files that are.
MenuInPlace ==
    /\ \A e \in bcd : e.id = reg.vista /\ e.at \in Place => "dir" \in contents[e.at]
    /\ \A kind \in Kind : BootLine(kind) \in bootini =>
           (IF kind = "loop" THEN {"yldr", "yldr.mbr"} ELSE {"yldrd", "yldrd.mbr"}) \subseteq bootfiles

IInv == Types /\ ListOK /\ Ready /\ Recorded /\ Finished /\ MenuInPlace

-----------------------------------------------------------------------------
(* The tasks                                                                *)

LEMMA Sets ==
    /\ ToSet(WinbootFile) = Unlinking
    /\ Sized = {"root_size", "swap_size"} /\ Disk = {"root", "swap"}
    /\ Item = {"dir", "uninstaller", "winboot", "iso", "kernel", "grub",
               "root", "swap", "root_size", "swap_size"}
    /\ SizeOf("root") = "root_size" /\ SizeOf("swap") = "swap_size"
    /\ \A k1, k2 \in Kind : BootLine(k1) = BootLine(k2) => k1 = k2
    /\ Flavour \in Kind /\ Loader \in Unlinking /\ Mbr \in Unlinking
BY DEF WinbootFile, ToSet, Unlinking, Sized, Disk, Item, SizeOf, BootLine, Kind, Flavour, Loader, Mbr

\* The first step of the list is done and nothing else of the process changes.
LEMMA AfterStep ==
    ASSUME IInv, NEW h, Doing(h), Done
    PROVE  /\ pc = "tasks" /\ todo # <<>> /\ h = Head(todo) /\ h \in Allowed /\ ReadyFor(h)
           /\ ListOK' /\ pc' = "tasks" /\ Allowed' = Allowed
           /\ UNCHANGED <<command, info, flag, target, job, runs, wiped, bootloader>>
           /\ todo' # <<>> => Chained(h, Head(todo')) /\ Head(todo') \in Allowed /\ Head(todo') = todo[2]
           /\ job = "uninstall" /\ todo' = <<>> => h = "rm_pre1"
<1>1. pc = "tasks" /\ todo # <<>> /\ h = Head(todo)
    BY DEF Doing
<1>2. /\ todo' = Tail(todo) /\ pc' = pc
      /\ UNCHANGED <<command, info, flag, target, job, runs, wiped, bootloader>>
    BY DEF Done, proc, windows
<1> QED
    BY <1>1, <1>2, TailOfList DEF IInv, Ready, Allowed

\* Steps that no other step relies on.
Plain == Writing \ {"loader", "mbr", "set_entry"}
LEMMA PlainStep ==
    ASSUME IInv, NEW h \in Plain, Doing(h), Done,
           job # "uninstall" => "dir" \in contents'[target]
    PROVE  Ready' /\ Finished'
<1>1. /\ pc = "tasks" /\ h \in Allowed /\ pc' = "tasks" /\ UNCHANGED <<target, job>>
      /\ todo' # <<>> => Chained(h, Head(todo'))
      /\ job = "uninstall" /\ todo' = <<>> => h = "rm_pre1"
    BY AfterStep
<1>2. job # "uninstall"
    BY <1>1 DEF Allowed, Plain, Writing, Uninstalls, Undoing, Removing
<1>3. ASSUME todo' # <<>>
      PROVE  ReadyFor(Head(todo))'
    BY <1>1, <1>2, <1>3 DEF ReadyFor, Chained, Plain, Writing, Unlinking, Removing
<1> QED
    BY <1>1, <1>2, <1>3 DEF Ready, Finished

LEMMA RecordedStays ==
    ASSUME IInv, pc = "tasks", todo # <<>>, Head(todo) \notin {"set_entry", "record_entry"},
           UNCHANGED <<bcd, lost, runs, pc, job, target>>, reg'.vista = reg.vista
    PROVE  Recorded'
BY DEF IInv, Recorded, Pending, Creates

LEMMA MenuStays ==
    ASSUME IInv, UNCHANGED <<bcd, bootini>>, reg'.vista = reg.vista, bootfiles \subseteq bootfiles',
           \A p \in Place : "dir" \in contents[p] => "dir" \in contents'[p]
    PROVE  MenuInPlace'
BY DEF IInv, MenuInPlace

\* The target directory gets or loses something else than itself.
LEMMA ContentsTypes ==
    ASSUME Types, pc = "tasks", job # "uninstall", NEW S \in SUBSET Item,
           contents' = [contents EXCEPT ![target] = S],
           "dir" \in contents[target] => "dir" \in S,
           \A d \in Disk : SizeOf(d) \in S => d \in S
    PROVE  /\ contents' \in [Place -> SUBSET Item] /\ target \in Place /\ contents'[target] = S
           /\ \A p \in Place : \A d \in Disk : SizeOf(d) \in contents'[p] => d \in contents'[p]
           /\ \A p \in Place : "dir" \in contents[p] => "dir" \in contents'[p]
BY DEF Types, TypeOK

\* What the types need from a step of an installation or a fix.
LEMMA TypesStay ==
    ASSUME Types, pc = "tasks", UNCHANGED <<bcd, bootini, bootfiles, lost, runs, wiped, bootloader, pc,
               command, info, target, job>>,
           contents' \in [Place -> SUBSET Item],
           \A p \in Place : \A d \in Disk : SizeOf(d) \in contents'[p] => d \in contents'[p],
           reg' \in [dir : PlaceOrNone, exe : PlaceOrNone, vista : Id \cup {None}]
    PROVE  Types'
BY DEF Types, TypeOK

LEMMA AddsKeeps ==
    ASSUME IInv, NEW h \in Plain, NEW item \in Item, Adds(h, item),
           h # "record_entry", h = "dirs" => item = "dir",
           \A d \in Disk : item = SizeOf(d) => h = SizeOf(d)
    PROVE  IInv'
<1>1. /\ Doing(h) /\ Done /\ contents' = [contents EXCEPT ![target] = @ \cup {item}]
      /\ UNCHANGED <<reg, bcd, bootini, bootfiles, lost>>
    BY DEF Adds
<1>2. /\ pc = "tasks" /\ todo # <<>> /\ h = Head(todo) /\ h \in Allowed /\ ReadyFor(h)
      /\ ListOK' /\ UNCHANGED <<pc, command, info, flag, target, job, runs, wiped, bootloader>>
    BY <1>1, AfterStep
<1>3. job # "uninstall" /\ target \in Place /\ contents \in [Place -> SUBSET Item]
  <2>1. job # "uninstall"
    BY <1>2 DEF Allowed, Plain, Writing, Uninstalls, Undoing, Removing
  <2> QED BY <1>2, <2>1 DEF IInv, Types, TypeOK
<1> DEFINE S == contents[target] \cup {item}
<1>4. /\ S \in SUBSET Item /\ contents' = [contents EXCEPT ![target] = S]
      /\ "dir" \in contents[target] => "dir" \in S
    BY <1>1, <1>3
<1>5. \A d \in Disk : SizeOf(d) \in S => d \in S
  <2>1. \A d \in Disk : SizeOf(d) \in contents[target] => d \in contents[target]
    BY <1>3 DEF IInv, Types, TypeOK
  <2>2. \A d \in Disk : item = SizeOf(d) => d \in contents[target]
    BY <1>2, Sets DEF ReadyFor
  <2> QED BY <2>1, <2>2
<1> HIDE DEF S
<1>6. /\ contents' \in [Place -> SUBSET Item] /\ contents'[target] = S
      /\ \A p \in Place : \A d \in Disk : SizeOf(d) \in contents'[p] => d \in contents'[p]
      /\ \A p \in Place : "dir" \in contents[p] => "dir" \in contents'[p]
    BY <1>2, <1>3, <1>4, <1>5, ContentsTypes DEF IInv
<1>7. Types'
    BY <1>1, <1>2, <1>6, TypesStay DEF IInv, Types, TypeOK
<1>8. "dir" \in S
    BY <1>2, <1>3 DEF ReadyFor, S
<1>9. Ready' /\ Finished'
    BY <1>1, <1>6, <1>8, PlainStep
<1>10. Recorded'
    BY <1>1, <1>2, RecordedStays DEF Plain
<1>11. MenuInPlace'
    BY <1>1, <1>6, MenuStays
<1> QED
    BY <1>2, <1>7, <1>9, <1>10, <1>11 DEF IInv

LEMMA DropsKeeps ==
    ASSUME IInv, NEW h \in Plain, NEW item \in Item \ ({"dir"} \cup Disk), Drops(h, item),
           h \notin {"dirs", "record_entry"}
    PROVE  IInv'
<1>1. /\ Doing(h) /\ Done /\ contents' = [contents EXCEPT ![target] = @ \ {item}]
      /\ UNCHANGED <<reg, bcd, bootini, bootfiles, lost>>
    BY DEF Drops
<1>2. /\ pc = "tasks" /\ todo # <<>> /\ h = Head(todo) /\ h \in Allowed /\ ReadyFor(h)
      /\ ListOK' /\ UNCHANGED <<pc, command, info, flag, target, job, runs, wiped, bootloader>>
    BY <1>1, AfterStep
<1>3. job # "uninstall" /\ target \in Place /\ contents \in [Place -> SUBSET Item]
  <2>1. job # "uninstall"
    BY <1>2 DEF Allowed, Plain, Writing, Uninstalls, Undoing, Removing
  <2> QED BY <1>2, <2>1 DEF IInv, Types, TypeOK
<1> DEFINE S == contents[target] \ {item}
<1>4. /\ S \in SUBSET Item /\ contents' = [contents EXCEPT ![target] = S]
      /\ "dir" \in contents[target] => "dir" \in S
    BY <1>1, <1>3
<1>5. \A d \in Disk : SizeOf(d) \in S => d \in S
  <2>1. \A d \in Disk : SizeOf(d) \in contents[target] => d \in contents[target]
    BY <1>3 DEF IInv, Types, TypeOK
  <2> QED BY <2>1
<1> HIDE DEF S
<1>6. /\ contents' \in [Place -> SUBSET Item] /\ contents'[target] = S
      /\ \A p \in Place : \A d \in Disk : SizeOf(d) \in contents'[p] => d \in contents'[p]
      /\ \A p \in Place : "dir" \in contents[p] => "dir" \in contents'[p]
    BY <1>2, <1>3, <1>4, <1>5, ContentsTypes DEF IInv
<1>7. Types'
    BY <1>1, <1>2, <1>6, TypesStay DEF IInv, Types, TypeOK
<1>8. "dir" \in S
    BY <1>2, <1>3 DEF ReadyFor, S
<1>9. Ready' /\ Finished'
    BY <1>1, <1>6, <1>8, PlainStep
<1>10. Recorded'
    BY <1>1, <1>2, RecordedStays DEF Plain
<1>11. MenuInPlace'
    BY <1>1, <1>6, MenuStays
<1> QED
    BY <1>2, <1>7, <1>9, <1>10, <1>11 DEF IInv

LEMMA RegTypes ==
    ASSUME Types
    PROVE  /\ reg \in [dir : PlaceOrNone, exe : PlaceOrNone, vista : Id \cup {None}]
           /\ contents \in [Place -> SUBSET Item]
           /\ \A p \in Place : \A d \in Disk : SizeOf(d) \in contents[p] => d \in contents[p]
           /\ \A e \in bcd : e.id \in Id
           /\ None \notin Id /\ runs \in Nat /\ (pc = "tasks" => runs \in Id)
BY NoneAssumption, MaxRunsAssumption DEF Types, TypeOK, Id

\* What a key may be set to.
LEMMA RegistryKeeps ==
    ASSUME IInv, NEW h, NEW value, SetRegistry(h, value),
           value \in [dir : PlaceOrNone, exe : PlaceOrNone, vista : Id \cup {None}]
    PROVE  /\ Types' /\ ListOK' /\ reg' = value /\ UNCHANGED <<contents, bcd, bootini, bootfiles, lost>>
           /\ Doing(h) /\ Done
<1>1. Doing(h) /\ Done /\ reg' = value /\ UNCHANGED <<contents, bcd, bootini, bootfiles, lost>>
    BY DEF SetRegistry
<1>2. /\ pc = "tasks" /\ ListOK'
      /\ UNCHANGED <<pc, command, info, flag, target, job, runs, wiped, bootloader>>
    BY <1>1, AfterStep
<1>3. Types'
    BY <1>1, <1>2, RegTypes, TypesStay DEF IInv
<1> QED BY <1>1, <1>2, <1>3

LEMMA NameKeeps == ASSUME IInv, SetUninstallString \/ SetInstallationDir PROVE IInv'
<1>1. PICK h \in {"UninstallString", "InstallationDir"}, value \in {[reg EXCEPT !.exe = target], [reg EXCEPT !.dir = target]} :
          SetRegistry(h, value)
    BY DEF SetUninstallString, SetInstallationDir
<1>2. Doing(h) /\ Done
    BY <1>1 DEF SetRegistry
<1>3. /\ pc = "tasks" /\ todo # <<>> /\ h = Head(todo) /\ h \in Allowed /\ ReadyFor(h)
      /\ UNCHANGED <<pc, target, job, runs>>
    BY <1>2, AfterStep
<1>4. job # "uninstall" /\ target \in Place
  <2>1. job # "uninstall"
    BY <1>3 DEF Allowed, Uninstalls, Undoing, Removing
  <2> QED BY <1>3, <2>1 DEF IInv, Types
<1>5. reg \in [dir : PlaceOrNone, exe : PlaceOrNone, vista : Id \cup {None}]
    BY RegTypes DEF IInv
<1>6. value \in [dir : PlaceOrNone, exe : PlaceOrNone, vista : Id \cup {None}] /\ value.vista = reg.vista
    BY <1>4, <1>5 DEF PlaceOrNone
<1>7. Types' /\ ListOK' /\ reg' = value /\ UNCHANGED <<contents, bcd, bootini, bootfiles, lost>>
    BY <1>1, <1>6, RegistryKeeps
<1>8. h \in Plain
    BY DEF Plain, Writing
<1>9. Ready' /\ Finished'
    BY <1>2, <1>3, <1>4, <1>7, <1>8, PlainStep DEF ReadyFor
<1>10. Recorded'
    BY <1>3, <1>6, <1>7, RecordedStays
<1>11. MenuInPlace'
    BY <1>6, <1>7, MenuStays
<1> QED
    BY <1>7, <1>9, <1>10, <1>11 DEF IInv

LEMMA RecordKeeps == ASSUME IInv, RecordEntry PROVE IInv'
<1>0. SetRegistry("record_entry", [reg EXCEPT !.vista = runs])
    BY DEF RecordEntry
<1>1. Doing("record_entry") /\ Done
    BY <1>0 DEF SetRegistry
<1>2. /\ pc = "tasks" /\ todo # <<>> /\ "record_entry" = Head(todo) /\ "record_entry" \in Allowed
      /\ ReadyFor("record_entry") /\ UNCHANGED <<pc, target, job, runs>>
    BY <1>1, AfterStep
<1>3. job # "uninstall" /\ target \in Place
  <2>1. job # "uninstall"
    BY <1>2 DEF Allowed, Uninstalls, Undoing, Removing
  <2> QED BY <1>2, <2>1 DEF IInv, Types
<1>4. /\ reg \in [dir : PlaceOrNone, exe : PlaceOrNone, vista : Id \cup {None}] /\ runs \in Id
      /\ None \notin Id /\ \A e \in bcd : e.id \in Id
    BY <1>2, RegTypes DEF IInv
<1>5. [reg EXCEPT !.vista = runs] \in [dir : PlaceOrNone, exe : PlaceOrNone, vista : Id \cup {None}]
    BY <1>4
<1>6. /\ Types' /\ ListOK' /\ reg' = [reg EXCEPT !.vista = runs]
      /\ UNCHANGED <<contents, bcd, bootini, bootfiles, lost>>
    BY <1>0, <1>5, RegistryKeeps
<1>7. reg'.vista = runs /\ reg.vista = None /\ "dir" \in contents[target]
    BY <1>2, <1>3, <1>4, <1>6 DEF ReadyFor
<1>8. "record_entry" \in Plain
    BY DEF Plain, Writing
<1>9. Ready' /\ Finished'
    BY <1>1, <1>6, <1>7, <1>8, PlainStep
<1>10. Recorded'
    BY <1>2, <1>3, <1>4, <1>6, <1>7 DEF IInv, Recorded, Creates
<1>11. MenuInPlace'
    BY <1>2, <1>3, <1>6, <1>7, NoneAssumption, RefusedAssumption DEF IInv, MenuInPlace, Recorded, Creates
<1> QED
    BY <1>6, <1>9, <1>10, <1>11 DEF IInv

LEMMA ClearKeeps == ASSUME IInv, ClearVistaBootDrive PROVE IInv'
<1>0. SetRegistry("VistaBootDrive", [reg EXCEPT !.vista = None])
    BY DEF ClearVistaBootDrive
<1>1. Doing("VistaBootDrive") /\ Done
    BY <1>0 DEF SetRegistry
<1>2. /\ pc = "tasks" /\ todo # <<>> /\ "VistaBootDrive" = Head(todo) /\ pc' = "tasks"
      /\ ReadyFor("VistaBootDrive") /\ UNCHANGED <<pc, target, job, runs>>
      /\ todo' # <<>> => Chained("VistaBootDrive", Head(todo'))
      /\ job = "uninstall" => todo' # <<>>
    BY <1>1, AfterStep
<1>4. /\ reg \in [dir : PlaceOrNone, exe : PlaceOrNone, vista : Id \cup {None}]
      /\ None \notin Id /\ \A e \in bcd : e.id \in Id
    BY <1>2, RegTypes DEF IInv
<1>5. [reg EXCEPT !.vista = None] \in [dir : PlaceOrNone, exe : PlaceOrNone, vista : Id \cup {None}]
    BY <1>4
<1>6. /\ Types' /\ ListOK' /\ reg' = [reg EXCEPT !.vista = None]
      /\ UNCHANGED <<contents, bcd, bootini, bootfiles, lost>>
    BY <1>0, <1>5, RegistryKeeps
<1>7. reg'.vista = None /\ \A e \in bcd : e.id = reg.vista => e.id \in lost
    BY <1>2, <1>4, <1>6 DEF ReadyFor
<1>8. ASSUME todo' # <<>> PROVE ReadyFor(Head(todo))'
    BY <1>2, <1>6, <1>7, <1>8 DEF ReadyFor, Chained, Unlinking, Removing
<1>9. Ready' /\ Finished'
    BY <1>2, <1>8 DEF Ready, Finished
<1>10. Recorded'
    BY <1>2, <1>4, <1>6, <1>7 DEF IInv, Recorded, Creates, Pending
<1>11. MenuInPlace'
    BY <1>4, <1>6, <1>7 DEF IInv, MenuInPlace
<1> QED
    BY <1>6, <1>9, <1>10, <1>11 DEF IInv

LEMMA RemoveKeyKeeps == ASSUME IInv, RemoveRegistryKey PROVE IInv'
<1>0. SetRegistry("remove_key", NoValues)
    BY DEF RemoveRegistryKey
<1>1. Doing("remove_key") /\ Done
    BY <1>0 DEF SetRegistry
<1>2. /\ pc = "tasks" /\ todo # <<>> /\ "remove_key" = Head(todo) /\ "remove_key" \in Allowed
      /\ pc' = "tasks"
      /\ ReadyFor("remove_key") /\ UNCHANGED <<pc, target, job, runs, info>>
      /\ todo' # <<>> => Chained("remove_key", Head(todo'))
      /\ job = "uninstall" => todo' # <<>>
    BY <1>1, AfterStep
<1>3. job = "uninstall"
    BY <1>2 DEF Allowed, Installs, Undoing, Writing
<1>4. /\ reg \in [dir : PlaceOrNone, exe : PlaceOrNone, vista : Id \cup {None}]
      /\ None \notin Id /\ \A e \in bcd : e.id \in Id
    BY <1>2, RegTypes DEF IInv
<1>5. NoValues \in [dir : PlaceOrNone, exe : PlaceOrNone, vista : Id \cup {None}] /\ NoValues.vista = None
    BY DEF NoValues, PlaceOrNone
<1>6. /\ Types' /\ ListOK' /\ reg' = NoValues
      /\ UNCHANGED <<contents, bcd, bootini, bootfiles, lost>>
    BY <1>0, <1>5, RegistryKeeps
<1>7. reg'.vista = None /\ reg.vista = None
    BY <1>2, <1>5, <1>6 DEF ReadyFor, Removing
<1>8. ASSUME todo' # <<>> PROVE ReadyFor(Head(todo))'
    BY <1>2, <1>3, <1>6, <1>7, <1>8 DEF ReadyFor, Chained, Unlinking, Removing, Exists
<1>9. Ready' /\ Finished'
    BY <1>2, <1>3, <1>8 DEF Ready, Finished
<1>10. Recorded'
    BY <1>2, <1>6, <1>7, RecordedStays
<1>11. MenuInPlace'
    BY <1>6, <1>7, MenuStays
<1> QED
    BY <1>6, <1>9, <1>10, <1>11 DEF IInv

\* A step that leaves directories and registry alone.
LEMMA BootTypes ==
    ASSUME IInv, NEW h, Doing(h), Done, UNCHANGED <<contents, reg>>,
           bcd' \subseteq [id : Id, at : EntryPlace, mbr : ToSet(WinbootFile)],
           bootini' \subseteq {BootLine(k) : k \in Kind},
           bootfiles' \subseteq ToSet(WinbootFile), lost' \subseteq Id
    PROVE  Types'
<1>1. pc = "tasks" /\ pc' = "tasks"
      /\ UNCHANGED <<command, info, flag, target, job, runs, wiped, bootloader>>
    BY AfterStep
<1> QED
    BY <1>1 DEF IInv, Types, TypeOK

LEMMA DeleteKeeps == ASSUME IInv, DeleteEntry PROVE IInv'
<1>1. /\ Doing("delete_entry") /\ Done
      /\ UNCHANGED <<contents, reg, bootini, bootfiles>>
    BY DEF DeleteEntry
<1>2. /\ pc = "tasks" /\ todo # <<>> /\ "delete_entry" = Head(todo) /\ pc' = "tasks"
      /\ ReadyFor("delete_entry") /\ ListOK' /\ UNCHANGED <<pc, target, job, runs>>
      /\ todo' # <<>> => Chained("delete_entry", Head(todo'))
      /\ job = "uninstall" => todo' # <<>>
    BY <1>1, AfterStep
<1>3. /\ bcd' \subseteq bcd /\ lost \subseteq lost' /\ lost' \subseteq Id
      /\ \A e \in bcd' : e.id = reg.vista => e.id \in lost'
  <2>1. \A e \in bcd : e.id \in Id
    BY RegTypes DEF IInv
  <2>2. lost \subseteq Id
    BY DEF IInv, Types, TypeOK
  <2> QED BY <2>1, <2>2 DEF DeleteEntry
<1>4. bootini \subseteq {BootLine(k) : k \in Kind} /\ bootfiles \subseteq ToSet(WinbootFile)
      /\ bcd \subseteq [id : Id, at : EntryPlace, mbr : ToSet(WinbootFile)]
    BY DEF IInv, Types, TypeOK
<1>5. Types'
    BY <1>1, <1>3, <1>4, BootTypes
<1>6. ASSUME todo' # <<>> PROVE ReadyFor(Head(todo))'
    BY <1>1, <1>2, <1>3, <1>6 DEF ReadyFor, Chained, Unlinking, Removing
<1>7. Ready' /\ Finished'
    BY <1>2, <1>6 DEF Ready, Finished
<1>8. Recorded'
    BY <1>1, <1>2, <1>3 DEF IInv, Recorded, Creates, Pending
<1>9. MenuInPlace'
    BY <1>1, <1>3 DEF IInv, MenuInPlace
<1> QED
    BY <1>2, <1>5, <1>7, <1>8, <1>9 DEF IInv

LEMMA UndoBootiniKeeps == ASSUME IInv, UndoBootini PROVE IInv'
<1>1. /\ Doing("undo_bootini") /\ Done /\ bootini' = {}
      /\ UNCHANGED <<contents, reg, bcd, bootfiles, lost>>
    BY DEF UndoBootini
<1>2. /\ pc = "tasks" /\ todo # <<>> /\ "undo_bootini" = Head(todo) /\ pc' = "tasks"
      /\ ReadyFor("undo_bootini") /\ ListOK' /\ UNCHANGED <<pc, target, job, runs>>
      /\ todo' # <<>> => Chained("undo_bootini", Head(todo'))
      /\ job = "uninstall" => todo' # <<>>
    BY <1>1, AfterStep
<1>3. Types'
  <2>1. lost \subseteq Id /\ bootfiles \subseteq ToSet(WinbootFile)
        /\ bcd \subseteq [id : Id, at : EntryPlace, mbr : ToSet(WinbootFile)]
    BY DEF IInv, Types, TypeOK
  <2> QED BY <1>1, <2>1, BootTypes
<1>4. ASSUME todo' # <<>> PROVE ReadyFor(Head(todo))'
    BY <1>1, <1>2, <1>4 DEF ReadyFor, Chained, Unlinking, Removing
<1>5. Ready' /\ Finished'
    BY <1>2, <1>4 DEF Ready, Finished
<1>6. Recorded'
    BY <1>1, <1>2, RecordedStays
<1>7. MenuInPlace'
    BY <1>1 DEF IInv, MenuInPlace
<1> QED
    BY <1>2, <1>3, <1>5, <1>6, <1>7 DEF IInv

LEMMA UnlinkKeeps == ASSUME IInv, UnlinkWinbootFile PROVE IInv'
<1>1. PICK f \in Unlinking : Doing(f) /\ bootfiles' = bootfiles \ {f}
    BY Sets DEF UnlinkWinbootFile
<1>2. Done /\ UNCHANGED <<contents, reg, bcd, bootini, lost>>
    BY DEF UnlinkWinbootFile
<1>3. /\ pc = "tasks" /\ todo # <<>> /\ f = Head(todo) /\ pc' = "tasks"
      /\ ReadyFor(f) /\ ListOK' /\ UNCHANGED <<pc, target, job, runs, command, flag>>
      /\ todo' # <<>> => Chained(f, Head(todo'))
      /\ job = "uninstall" /\ todo' = <<>> => f = "rm_pre1"
    BY <1>1, <1>2, AfterStep
<1>4. Types'
  <2>1. lost \subseteq Id /\ bootfiles \subseteq ToSet(WinbootFile)
        /\ bootini \subseteq {BootLine(k) : k \in Kind}
        /\ bcd \subseteq [id : Id, at : EntryPlace, mbr : ToSet(WinbootFile)]
    BY DEF IInv, Types, TypeOK
  <2>2. bootfiles' \subseteq ToSet(WinbootFile)
    BY <1>1, <2>1
  <2> QED BY <1>1, <1>2, <2>1, <2>2, BootTypes
<1>5. bootini = {} /\ reg.vista = None
    BY <1>1, <1>3 DEF ReadyFor
<1>6. ASSUME todo' # <<>> PROVE ReadyFor(Head(todo))'
    BY <1>1, <1>2, <1>3, <1>5, <1>6 DEF ReadyFor, Chained, Unlinking, Removing
<1>7. Ready' /\ Finished'
    BY <1>1, <1>3, <1>6 DEF Ready, Finished, Unlinking
<1>8. Recorded'
    BY <1>1, <1>2, <1>3, RecordedStays DEF Unlinking
<1>9. MenuInPlace'
    BY <1>2, <1>5 DEF IInv, MenuInPlace
<1> QED
    BY <1>3, <1>4, <1>7, <1>8, <1>9 DEF IInv

LEMMA CopyKeeps == ASSUME IInv, CopyBootFile PROVE IInv'
<1>1. PICK h \in {"loader", "mbr"} :
          Doing(h) /\ bootfiles' = bootfiles \cup {IF h = "loader" THEN Loader ELSE Mbr}
    BY DEF CopyBootFile
<1>2. Done /\ UNCHANGED <<contents, reg, bcd, bootini, lost>>
    BY DEF CopyBootFile
<1>3. /\ pc = "tasks" /\ todo # <<>> /\ h = Head(todo) /\ pc' = "tasks" /\ h \in Allowed
      /\ ReadyFor(h) /\ ListOK' /\ UNCHANGED <<pc, target, job, runs, command, flag>>
      /\ todo' # <<>> => Chained(h, Head(todo'))
    BY <1>1, <1>2, AfterStep
<1>4. job # "uninstall"
    BY <1>3 DEF Allowed, Uninstalls, Undoing, Removing
<1>5. Types'
  <2>1. lost \subseteq Id /\ bootfiles \subseteq ToSet(WinbootFile)
        /\ bootini \subseteq {BootLine(k) : k \in Kind}
        /\ bcd \subseteq [id : Id, at : EntryPlace, mbr : ToSet(WinbootFile)]
    BY DEF IInv, Types, TypeOK
  <2>2. bootfiles' \subseteq ToSet(WinbootFile)
    BY <1>1, <2>1, Sets
  <2> QED BY <1>1, <1>2, <2>1, <2>2, BootTypes
<1>6. Flavour' = Flavour /\ Loader' = Loader /\ Mbr' = Mbr
    BY <1>3 DEF Flavour, Loader, Mbr
<1>7. ASSUME todo' # <<>> PROVE ReadyFor(Head(todo))'
    BY <1>1, <1>2, <1>3, <1>4, <1>6, <1>7 DEF ReadyFor, Chained, Unlinking, Removing
<1>8. Ready' /\ Finished'
    BY <1>3, <1>4, <1>7 DEF Ready, Finished
<1>9. Recorded'
    BY <1>1, <1>2, <1>3, RecordedStays
<1>10. MenuInPlace'
    BY <1>1, <1>2, MenuStays
<1> QED
    BY <1>3, <1>5, <1>8, <1>9, <1>10 DEF IInv

LEMMA BootiniKeeps == ASSUME IInv, ModifyBootini PROVE IInv'
<1>1. /\ Doing("bootini") /\ Done /\ bootini' = bootini \cup {BootLine(Flavour)}
      /\ UNCHANGED <<contents, reg, bcd, bootfiles, lost>>
    BY DEF ModifyBootini
<1>2. /\ pc = "tasks" /\ todo # <<>> /\ "bootini" = Head(todo) /\ pc' = "tasks"
      /\ ReadyFor("bootini") /\ ListOK' /\ UNCHANGED <<pc, target, job, runs>>
      /\ "bootini" \in Allowed
    BY <1>1, AfterStep
<1>3. job # "uninstall" /\ "bootini" \in Plain
    BY <1>2 DEF Allowed, Uninstalls, Undoing, Removing, Plain, Writing
<1>4. Types'
  <2>1. lost \subseteq Id /\ bootfiles \subseteq ToSet(WinbootFile)
        /\ bootini \subseteq {BootLine(k) : k \in Kind}
        /\ bcd \subseteq [id : Id, at : EntryPlace, mbr : ToSet(WinbootFile)]
    BY DEF IInv, Types, TypeOK
  <2>2. bootini' \subseteq {BootLine(k) : k \in Kind}
    BY <1>1, <2>1, Sets
  <2> QED BY <1>1, <2>1, <2>2, BootTypes
<1>5. Ready' /\ Finished'
    BY <1>1, <1>2, <1>3, PlainStep DEF ReadyFor
<1>6. Recorded'
    BY <1>1, <1>2, RecordedStays
<1>7. Loader \in bootfiles /\ Mbr \in bootfiles
    BY <1>2 DEF ReadyFor
<1>8. MenuInPlace'
  <2>1. (IF Flavour = "loop" THEN {"yldr", "yldr.mbr"} ELSE {"yldrd", "yldrd.mbr"}) \subseteq bootfiles
    BY <1>7 DEF Loader, Mbr
  <2>2. ASSUME NEW k \in Kind, BootLine(k) \in bootini'
        PROVE  (IF k = "loop" THEN {"yldr", "yldr.mbr"} ELSE {"yldrd", "yldrd.mbr"}) \subseteq bootfiles'
    <3>1. CASE BootLine(k) \in bootini
      BY <1>1, <3>1 DEF IInv, MenuInPlace
    <3>2. CASE BootLine(k) = BootLine(Flavour)
      <4>1. k = Flavour
        BY <3>2, Sets
      <4> QED BY <1>1, <2>1, <4>1
    <3> QED BY <1>1, <2>2, <3>1, <3>2
  <2> QED BY <1>1, <2>2 DEF IInv, MenuInPlace
<1> QED
    BY <1>2, <1>4, <1>5, <1>6, <1>8 DEF IInv

LEMMA CreateKeeps == ASSUME IInv, CreateEntry PROVE IInv'
<1> DEFINE p == <<"set_entry", "record_entry">>
           new == [id |-> runs, at |-> None, mbr |-> Mbr]
<1>1. /\ Doing("create_entry") /\ reg.vista = None /\ bcd' = bcd \cup {new}
      /\ todo' = p \o Tail(todo)
      /\ UNCHANGED <<contents, reg, bootini, bootfiles, lost, runs, pc>>
      /\ UNCHANGED <<command, info, flag, target, job, wiped, bootloader>>
    BY DEF CreateEntry, proc, windows
<1>2. pc = "tasks" /\ todo # <<>> /\ Head(todo) = "create_entry"
    BY <1>1 DEF Doing
<1>3. p \in Seq(Writing) /\ p # <<>> /\ InOrder(p) /\ p[1] = "set_entry" /\ p[2] = "record_entry" /\ Len(p) = 2
    BY DEF Writing, InOrder, Chained
<1> HIDE DEF p
<1>4. /\ job # "uninstall" /\ ListOK' /\ todo' # <<>> /\ Head(todo') = "set_entry"
      /\ todo'[2] = "record_entry" /\ Len(todo') >= 2
  <2>1. Head(todo) \in {"create_entry", "root", "swap"} /\ UNCHANGED <<pc, job>> /\ ListOK
    BY <1>1, <1>2 DEF IInv
  <2>2. p \in Seq(Writing) /\ p # <<>> /\ InOrder(p) /\ todo' = p \o Tail(todo)
    BY <1>1, <1>3
  <2>3. /\ job # "uninstall" /\ ListOK' /\ todo' # <<>> /\ Head(todo') = p[1]
        /\ Len(p) >= 2 => todo'[2] = p[2] /\ Len(todo') >= 2
    BY <1>2, <2>1, <2>2, MoreOfList
  <2> QED BY <1>3, <2>3
<1>5. ReadyFor("create_entry")
    BY <1>2 DEF IInv, Ready
<1>6. new.id = runs /\ new.at = None /\ runs \in Id /\ None \notin Id
      /\ new \in [id : Id, at : EntryPlace, mbr : ToSet(WinbootFile)]
    BY <1>2, Sets, RegTypes DEF IInv, PlaceOrNone, EntryPlace
<1> HIDE DEF new
<1>7. Types'
  <2>1. bcd' \subseteq [id : Id, at : EntryPlace, mbr : ToSet(WinbootFile)]
    BY <1>1, <1>6 DEF IInv, Types, TypeOK
  <2> QED BY <1>1, <2>1 DEF IInv, Types, TypeOK
<1>8. ReadyFor(Head(todo))'
    BY <1>1, <1>4, <1>5 DEF ReadyFor, Unlinking, Removing
<1>9. Ready' /\ Finished'
    BY <1>4, <1>8 DEF Ready, Finished
<1>10. Recorded'
  <2>1. Pending' /\ Creates /\ Creates'
    BY <1>1, <1>2, <1>4 DEF Pending, Creates
  <2>2. \A e \in bcd' : e \in bcd \/ (e.id = runs /\ e.at = None)
    BY <1>1, <1>6
  <2>3. runs <= runs
    BY <1>6 DEF Id
  <2>4. ~Pending
    BY <1>2 DEF Pending
  <2>5. \A e \in bcd : e.id <= runs /\ (e.id \in lost \/ e.id = reg.vista) /\ (e.id = runs => e.at \in {None, target, Refused})
    BY <2>1, <2>4 DEF IInv, Recorded
  <2> QED BY <1>1, <2>1, <2>2, <2>3, <2>5 DEF Recorded
<1>11. MenuInPlace'
    BY <1>1, <1>6 DEF IInv, MenuInPlace
<1> QED
    BY <1>4, <1>7, <1>9, <1>10, <1>11 DEF IInv

LEMMA AlreadyKeeps == ASSUME IInv, AlreadyModified PROVE IInv'
<1>1. /\ Doing("create_entry") /\ Done /\ UNCHANGED <<contents, reg, bcd, bootini, bootfiles, lost>>
    BY DEF AlreadyModified, host
<1>2. /\ pc = "tasks" /\ todo # <<>> /\ "create_entry" = Head(todo) /\ pc' = "tasks"
      /\ ReadyFor("create_entry") /\ ListOK' /\ UNCHANGED <<pc, target, job, runs>>
      /\ "create_entry" \in Plain
    BY <1>1, AfterStep DEF Plain, Writing
<1>3. Types'
    BY <1>1, BootTypes DEF IInv, Types, TypeOK
<1>4. Ready' /\ Finished'
    BY <1>1, <1>2, PlainStep DEF ReadyFor
<1>5. Recorded'
    BY <1>1, <1>2, RecordedStays
<1>6. MenuInPlace'
    BY <1>1, MenuStays
<1> QED
    BY <1>2, <1>3, <1>4, <1>5, <1>6 DEF IInv

LEMMA DisplayKeeps == ASSUME IInv, DisplayEntry PROVE IInv'
<1>0. PICK at \in {target, Refused} :
          bcd' = {IF e.id = runs THEN [e EXCEPT !.at = at] ELSE e : e \in bcd}
    BY DEF DisplayEntry
<1> DEFINE shown(e) == IF e.id = runs THEN [e EXCEPT !.at = at] ELSE e
<1>1. /\ Doing("set_entry") /\ Done /\ bcd' = {shown(e) : e \in bcd}
      /\ UNCHANGED <<contents, reg, bootini, bootfiles, lost>>
    BY <1>0 DEF DisplayEntry
<1>2. /\ pc = "tasks" /\ todo # <<>> /\ "set_entry" = Head(todo) /\ pc' = "tasks"
      /\ ReadyFor("set_entry") /\ ListOK' /\ UNCHANGED <<pc, target, job, runs>>
      /\ "set_entry" \in Allowed
      /\ todo' # <<>> => Head(todo') = todo[2]
    BY <1>1, AfterStep
<1>3. job # "uninstall" /\ target \in Place
  <2>1. job # "uninstall"
    BY <1>2 DEF Allowed, Uninstalls, Undoing, Removing
  <2> QED BY <1>2, <2>1 DEF IInv, Types
<1>4. todo' # <<>> /\ Head(todo') = "record_entry"
  <2>1. Len(todo) >= 2 /\ todo[2] = "record_entry" /\ todo \in Seq(Allowed)
    BY <1>2 DEF ReadyFor, IInv, ListOK
  <2>2. Len(todo) # 1 /\ todo' = Tail(todo)
    BY <1>1, <2>1 DEF Done
  <2>3. todo' # <<>>
    BY <1>2, <2>1, <2>2, TailOf
  <2> QED BY <1>2, <2>1, <2>3
<1>5. /\ reg.vista = None /\ runs \in Id /\ None \notin Id /\ \A e \in bcd : e.id \in Id
      /\ bcd \subseteq [id : Id, at : EntryPlace, mbr : ToSet(WinbootFile)]
    BY <1>2, RegTypes DEF ReadyFor, IInv, Types, TypeOK
<1>6. ASSUME NEW e \in bcd
      PROVE  /\ shown(e) \in [id : Id, at : EntryPlace, mbr : ToSet(WinbootFile)]
             /\ shown(e).id = e.id /\ (e.id = runs => shown(e).at \in {target, Refused})
    BY <1>3, <1>5 DEF PlaceOrNone, EntryPlace
<1> HIDE DEF shown
<1>7. Types'
  <2>1. lost \subseteq Id /\ bootfiles \subseteq ToSet(WinbootFile)
        /\ bootini \subseteq {BootLine(k) : k \in Kind}
    BY DEF IInv, Types, TypeOK
  <2>2. bcd' \subseteq [id : Id, at : EntryPlace, mbr : ToSet(WinbootFile)]
    BY <1>1, <1>6
  <2> QED BY <1>1, <2>1, <2>2, BootTypes
<1>8. ReadyFor(Head(todo))'
    BY <1>1, <1>2, <1>4, <1>5 DEF ReadyFor, Unlinking, Removing
<1>9. Ready' /\ Finished'
    BY <1>2, <1>3, <1>8 DEF Ready, Finished
<1>10. Recorded'
  <2>1. Pending' /\ Creates /\ Creates'
    BY <1>2, <1>3, <1>4 DEF Pending, Creates
  <2>2. \A e \in bcd' : \E f \in bcd : e.id = f.id /\ (e.id = runs => e.at \in {target, Refused})
    BY <1>1, <1>6
  <2>3. \A e \in bcd : e.id <= runs /\ (e.id \in lost \/ e.id = reg.vista \/ e.id = runs)
    BY DEF IInv, Recorded
  <2> QED BY <1>1, <1>2, <2>1, <2>2, <2>3 DEF Recorded
<1>11. MenuInPlace'
  <2>1. \A e \in bcd' : e.id \in Id
    BY <1>5, <1>6, <1>1
  <2> QED BY <1>1, <1>5, <2>1 DEF IInv, MenuInPlace
<1> QED
    BY <1>2, <1>7, <1>9, <1>10, <1>11 DEF IInv

LEMMA SkipKeeps == ASSUME IInv, SkipDisk PROVE IInv'
<1>1. PICK d \in Disk : Doing(d)
    BY DEF SkipDisk
<1>2. Done /\ UNCHANGED <<contents, reg, bcd, bootini, bootfiles, lost>>
    BY DEF SkipDisk, host
<1>3. /\ pc = "tasks" /\ todo # <<>> /\ d = Head(todo) /\ pc' = "tasks" /\ d \in Allowed
      /\ ReadyFor(d) /\ ListOK' /\ UNCHANGED <<pc, target, job, runs>>
      /\ d \in Plain /\ d \notin {"dirs", "set_entry", "record_entry"}
    BY <1>1, <1>2, AfterStep, Sets DEF Plain, Writing
<1>4. Types'
    BY <1>1, <1>2, BootTypes DEF IInv, Types, TypeOK
<1>5. Ready' /\ Finished'
    BY <1>1, <1>2, <1>3, PlainStep DEF ReadyFor
<1>6. Recorded'
    BY <1>2, <1>3, RecordedStays
<1>7. MenuInPlace'
    BY <1>2, MenuStays
<1> QED
    BY <1>3, <1>4, <1>5, <1>6, <1>7 DEF IInv

LEMMA DiskKeeps == ASSUME IInv, CreateDisk PROVE IInv'
<1>1. PICK d \in Disk :
          /\ Doing(d) /\ contents' = [contents EXCEPT ![target] = @ \cup {d}]
          /\ todo' = <<SizeOf(d)>> \o Tail(todo)
    BY DEF CreateDisk
<1>2. UNCHANGED <<reg, bcd, bootini, bootfiles, lost, runs, pc, command, info, flag, target, job, wiped, bootloader>>
    BY DEF CreateDisk, proc, windows
<1>3. pc = "tasks" /\ todo # <<>> /\ Head(todo) = d /\ d \in {"root", "swap"}
    BY <1>1, Sets DEF Doing
<1> DEFINE p == <<SizeOf(d)>>
<1>4. p \in Seq(Writing) /\ p # <<>> /\ InOrder(p) /\ p[1] = SizeOf(d)
    BY <1>3, Sets DEF Writing, InOrder
<1> HIDE DEF p
<1>5. job # "uninstall" /\ ListOK' /\ todo' # <<>> /\ Head(todo') = SizeOf(d)
  <2>1. todo' = p \o Tail(todo)
    BY <1>1 DEF p
  <2> QED BY <1>2, <1>3, <1>4, <2>1, MoreOfList DEF IInv
<1>6. ReadyFor(d) /\ target \in Place /\ contents \in [Place -> SUBSET Item]
    BY <1>3, <1>5 DEF IInv, Ready, Types, TypeOK
<1> DEFINE S == contents[target] \cup {d}
<1>7. /\ S \in SUBSET Item /\ contents' = [contents EXCEPT ![target] = S]
      /\ "dir" \in contents[target] => "dir" \in S
    BY <1>1, <1>3, <1>6, Sets
<1>8. \A x \in Disk : SizeOf(x) \in S => x \in S
  <2>1. \A x \in Disk : SizeOf(x) \in contents[target] => x \in contents[target]
    BY <1>6 DEF IInv, Types, TypeOK
  <2>2. \A x \in Disk : SizeOf(x) # d
    BY <1>3, Sets
  <2> QED BY <2>1, <2>2
<1>9. "dir" \in S /\ d \in S
    BY <1>3, <1>5, <1>6 DEF ReadyFor
<1> HIDE DEF S
<1>10. /\ contents' \in [Place -> SUBSET Item] /\ contents'[target] = S
       /\ \A q \in Place : \A x \in Disk : SizeOf(x) \in contents'[q] => x \in contents'[q]
       /\ \A q \in Place : "dir" \in contents[q] => "dir" \in contents'[q]
    BY <1>3, <1>5, <1>7, <1>8, ContentsTypes DEF IInv
<1>11. Types'
    BY <1>2, <1>3, <1>10, TypesStay DEF IInv, Types, TypeOK
<1>12. SizeOf(d) \in {"root_size", "swap_size"} /\ (SizeOf(d) = "root_size" => d = "root")
       /\ (SizeOf(d) = "swap_size" => d = "swap")
    BY <1>3, Sets
<1>13. ReadyFor(Head(todo))'
    BY <1>2, <1>5, <1>9, <1>10, <1>12 DEF ReadyFor, Unlinking, Removing
<1>14. Ready' /\ Finished'
    BY <1>5, <1>13 DEF Ready, Finished
<1>15. Recorded'
    BY <1>2, <1>3, RecordedStays
<1>16. MenuInPlace'
    BY <1>2, <1>10, MenuStays
<1> QED
    BY <1>5, <1>11, <1>14, <1>15, <1>16 DEF IInv

LEMMA Trees ==
    ASSUME IInv, NEW step \in RmTreeSteps, Doing(step)
    PROVE  /\ pc = "tasks" /\ todo # <<>> /\ Head(todo) = step /\ job = "uninstall"
           /\ ReadyFor(step) /\ step \in Removing
           /\ TreeAt(step) \in PlaceOrNone /\ reg.vista = None
           /\ TreeAt("remove_target") = info.prev /\ TreeAt("rm_pre2") = info.pre2
           /\ TreeAt("rm_pre1") = info.pre1
<1>1. pc = "tasks" /\ todo # <<>> /\ Head(todo) = step
    BY DEF Doing
<1>2. step \in Removing
    BY DEF RmTreeSteps, Removing
<1>3. step \in Allowed
  <2>1. todo \in Seq(Allowed)
    BY <1>1 DEF IInv, ListOK
  <2> QED BY <1>1, <2>1, TailOf
<1>4. job = "uninstall"
    BY <1>2, <1>3 DEF Allowed, Installs, Undoing, Writing, Removing
<1>5. ReadyFor(step) /\ reg.vista = None
    BY <1>1, <1>2 DEF IInv, Ready, ReadyFor
<1>6. /\ TreeAt("remove_target") = info.prev /\ TreeAt("rm_pre2") = info.pre2
      /\ TreeAt("rm_pre1") = info.pre1
    BY DEF TreeAt
<1>7. info.prev \in PlaceOrNone /\ info.pre1 \in PlaceOrNone /\ info.pre2 \in PlaceOrNone
    BY DEF IInv, Types, TypeOK
<1>8. TreeAt(step) \in PlaceOrNone
    BY <1>6, <1>7 DEF RmTreeSteps
<1> QED BY <1>1, <1>2, <1>4, <1>5, <1>6, <1>8

\* A directory that is removed takes nothing with it.
LEMMA RemovedTypes ==
    ASSUME IInv, pc = "tasks", job = "uninstall", reg.vista = None, NEW p \in Place, NEW S,
           S \subseteq contents[p], \A d \in Disk : SizeOf(d) \in S => d \in S,
           contents' = [contents EXCEPT ![p] = S],
           UNCHANGED <<reg, bcd, bootini, bootfiles, lost, runs, pc, command, info, flag, target, job,
                       wiped, bootloader>>
    PROVE  Types' /\ MenuInPlace' /\ \A q : ~Exists(q) /\ q \in PlaceOrNone => ~Exists(q)'
<1>1. contents \in [Place -> SUBSET Item] /\ \A q \in Place : \A d \in Disk : SizeOf(d) \in contents[q] => d \in contents[q]
    BY DEF IInv, Types, TypeOK
<1>2. /\ contents' \in [Place -> SUBSET Item]
      /\ \A q \in Place : contents'[q] \subseteq contents[q]
      /\ \A q \in Place : \A d \in Disk : SizeOf(d) \in contents'[q] => d \in contents'[q]
    BY <1>1
<1>3. Types'
    BY <1>2 DEF IInv, Types, TypeOK
<1>4. MenuInPlace'
  <2>1. None \notin Id /\ \A e \in bcd : e.id \in Id
    BY RegTypes DEF IInv
  <2> QED BY <2>1 DEF IInv, MenuInPlace
<1>5. \A q : ~Exists(q) /\ q \in PlaceOrNone => ~Exists(q)'
    BY <1>2 DEF Exists, PlaceOrNone
<1> QED BY <1>3, <1>4, <1>5

LEMMA RemoveFileKeeps == ASSUME IInv, RemoveFile PROVE IInv'
<1>1. PICK step \in RmTreeSteps, f \in Item \ ({"dir"} \cup Sized) :
          /\ Doing(step) /\ Exists(TreeAt(step))
          /\ contents' = [contents EXCEPT ![TreeAt(step)] = @ \ ({f} \cup (IF f \in Disk THEN {SizeOf(f)} ELSE {}))]
    BY DEF RemoveFile
<1>2. UNCHANGED <<reg, bcd, bootini, bootfiles, lost, runs, pc, command, info, flag, target, job,
                  wiped, bootloader, todo>>
    BY DEF RemoveFile, proc, windows
<1>3. /\ pc = "tasks" /\ todo # <<>> /\ Head(todo) = step /\ job = "uninstall"
      /\ ReadyFor(step) /\ step \in Removing /\ step \in RmTreeSteps
      /\ TreeAt(step) \in PlaceOrNone /\ reg.vista = None
    BY <1>1, Trees
<1>4. TreeAt(step) \in Place
    BY <1>1, <1>3 DEF Exists, PlaceOrNone
<1> DEFINE S == contents[TreeAt(step)] \ ({f} \cup (IF f \in Disk THEN {SizeOf(f)} ELSE {}))
<1>5. /\ contents \in [Place -> SUBSET Item]
      /\ \A d \in Disk : SizeOf(d) \in contents[TreeAt(step)] => d \in contents[TreeAt(step)]
    BY <1>4 DEF IInv, Types, TypeOK
<1>6. S \subseteq contents[TreeAt(step)] /\ contents' = [contents EXCEPT ![TreeAt(step)] = S]
    BY <1>1, <1>4, <1>5
<1>7. ASSUME NEW d \in Disk, SizeOf(d) \in S
      PROVE  d \in S
  <2>1. d \in contents[TreeAt(step)]
    BY <1>5, <1>7
  <2>2. d # f
    BY <1>7
  <2>3. \A x \in Disk : d # SizeOf(x)
    BY Sets
  <2> QED BY <2>1, <2>2, <2>3
<1> HIDE DEF S
<1>8. Types' /\ MenuInPlace' /\ \A q : ~Exists(q) /\ q \in PlaceOrNone => ~Exists(q)'
    BY <1>2, <1>3, <1>4, <1>6, <1>7, RemovedTypes
<1>9. ListOK'
    BY <1>2 DEF IInv, ListOK, Allowed
<1>10. info.prev \in PlaceOrNone /\ info.pre2 \in PlaceOrNone
    BY DEF IInv, Types, TypeOK
<1>11. ~Exists(info.prev) => ~Exists(info.prev)'
    BY <1>2, <1>8, <1>10
<1>12. ~Exists(info.pre2) => ~Exists(info.pre2)'
    BY <1>2, <1>8, <1>10
<1>13. ReadyFor(step)'
  <2>1. step \notin Unlinking /\ step \notin {"VistaBootDrive", "undo_bootini", "yldr.mbr", "yldrd", "yldrd.mbr",
            "mbr", "bootini", "set_entry", "record_entry", "root_size", "swap_size"}
    BY <1>3 DEF Unlinking, RmTreeSteps
  <2>2. (step = "remove_target") \/ (step = "rm_pre2") \/ (step = "rm_pre1")
    BY <1>3 DEF RmTreeSteps
  <2>3. CASE step = "remove_target"
    BY <1>2, <1>3, <2>3 DEF ReadyFor, Removing, Unlinking
  <2>4. CASE step = "rm_pre2"
    BY <1>2, <1>3, <1>11, <2>4 DEF ReadyFor, Removing, Unlinking
  <2>5. CASE step = "rm_pre1"
    BY <1>2, <1>3, <1>11, <1>12, <2>5 DEF ReadyFor, Removing, Unlinking
  <2> QED BY <2>2, <2>3, <2>4, <2>5
<1>14. Ready' /\ Finished'
    BY <1>2, <1>3, <1>13 DEF Ready, Finished
<1>15. Recorded'
    BY <1>2, <1>3, RecordedStays DEF Removing
<1> QED
    BY <1>8, <1>9, <1>14, <1>15 DEF IInv

LEMMA RemoveDirKeeps == ASSUME IInv, RemoveDir PROVE IInv'
<1>1. PICK step \in RmTreeSteps :
          /\ Doing(step)
          /\ contents' = IF Exists(TreeAt(step)) THEN [contents EXCEPT ![TreeAt(step)] = {}] ELSE contents
    BY DEF RemoveDir
<1>2. Done /\ UNCHANGED <<reg, bcd, bootini, bootfiles, lost>>
    BY DEF RemoveDir
<1>3. /\ pc = "tasks" /\ todo # <<>> /\ Head(todo) = step /\ job = "uninstall"
      /\ ReadyFor(step) /\ step \in Removing /\ step \in RmTreeSteps
      /\ TreeAt(step) \in PlaceOrNone /\ reg.vista = None
      /\ TreeAt("remove_target") = info.prev /\ TreeAt("rm_pre2") = info.pre2
      /\ TreeAt("rm_pre1") = info.pre1
    BY <1>1, Trees
<1>4. /\ ListOK' /\ pc' = "tasks"
      /\ UNCHANGED <<command, info, flag, target, job, runs, wiped, bootloader>>
      /\ todo' # <<>> => Chained(step, Head(todo'))
      /\ todo' = <<>> => step = "rm_pre1"
    BY <1>1, <1>2, <1>3, AfterStep
<1>5. contents \in [Place -> SUBSET Item] /\ info.prev \in PlaceOrNone /\ info.pre2 \in PlaceOrNone
    BY DEF IInv, Types, TypeOK
<1>6. Types' /\ MenuInPlace' /\ \A q : ~Exists(q) /\ q \in PlaceOrNone => ~Exists(q)'
  <2>1. CASE Exists(TreeAt(step))
    <3>1. TreeAt(step) \in Place
      BY <1>3, <2>1 DEF Exists, PlaceOrNone
    <3>2. contents' = [contents EXCEPT ![TreeAt(step)] = {}] /\ pc' = pc
      BY <1>1, <1>3, <1>4, <2>1
    <3>3. {} \subseteq contents[TreeAt(step)] /\ \A d \in Disk : SizeOf(d) \in {} => d \in {}
      OBVIOUS
    <3>4. UNCHANGED <<reg, bcd, bootini, bootfiles, lost, runs, pc, command, info, flag, target, job,
                      wiped, bootloader>>
      BY <1>2, <1>3, <1>4
    <3> DEFINE none == contents[TreeAt(step)] \ contents[TreeAt(step)]
    <3>5. none = {}
      OBVIOUS
    <3>6. none \subseteq contents[TreeAt(step)] /\ (\A d \in Disk : SizeOf(d) \in none => d \in none)
          /\ contents' = [contents EXCEPT ![TreeAt(step)] = none]
      BY <3>2, <3>5
    <3> HIDE DEF none
    <3> QED BY <1>3, <3>1, <3>4, <3>6, RemovedTypes
  <2>2. CASE ~Exists(TreeAt(step))
    <3>1. contents' = contents
      BY <1>1, <2>2
    <3>2. Types'
      BY <1>1, <1>2, <3>1, BootTypes DEF IInv, Types, TypeOK
    <3>3. MenuInPlace'
      BY <1>2, <3>1, MenuStays
    <3> QED BY <3>1, <3>2, <3>3 DEF Exists
  <2> QED BY <2>1, <2>2
<1>7. ~Exists(TreeAt(step))'
  <2>1. info' = info
    BY <1>4
  <2>2. TreeAt(step)' = TreeAt(step)
    BY <2>1 DEF TreeAt
  <2>3. TreeAt(step) = None \/ contents'[TreeAt(step)] = {}
    BY <1>1, <1>3, <1>5 DEF Exists, PlaceOrNone
  <2> QED BY <2>2, <2>3 DEF Exists
<1>8. ~Exists(info.prev) => ~Exists(info.prev)'
    BY <1>4, <1>5, <1>6
<1>9. ~Exists(info.pre2) => ~Exists(info.pre2)'
    BY <1>4, <1>5, <1>6
<1>10. bootini = {} /\ bootfiles = {}
  <2>1. bootfiles \subseteq Unlinking
    BY Sets DEF IInv, Types, TypeOK
  <2> QED BY <1>3, <2>1 DEF ReadyFor, Unlinking
<1>11. CASE step = "remove_target"
  <2>1. ~Exists(info.prev)'
    BY <1>3, <1>4, <1>7, <1>11 DEF TreeAt
  <2>2. todo' # <<>> /\ Head(todo') \notin {"rm_pre2", "rm_pre1"}
    BY <1>4, <1>11 DEF Chained
  <2>3. ReadyFor(Head(todo))'
    BY <1>2, <1>3, <1>4, <1>10, <1>11, <2>1, <2>2 DEF ReadyFor, Chained, Unlinking, Removing
  <2>4. Ready' /\ Finished'
    BY <2>2, <2>3 DEF Ready, Finished
  <2>5. Recorded'
    BY <1>2, <1>3, <1>4, RecordedStays DEF Removing
  <2> QED BY <1>4, <1>6, <2>4, <2>5 DEF IInv
<1>12. CASE step = "rm_pre2"
  <2>1. ~Exists(info.pre2)' /\ ~Exists(info.prev)'
    BY <1>3, <1>4, <1>7, <1>8, <1>12 DEF TreeAt, ReadyFor
  <2>2. todo' # <<>>
    BY <1>4, <1>12
  <2>3. reg = NoValues
    BY <1>3, <1>12 DEF ReadyFor
  <2>4. ReadyFor(Head(todo))'
    BY <1>2, <1>3, <1>4, <1>10, <1>12, <2>1, <2>2, <2>3 DEF ReadyFor, Chained, Unlinking, Removing, NoValues
  <2>5. Ready' /\ Finished'
    BY <2>2, <2>4 DEF Ready, Finished
  <2>6. Recorded'
    BY <1>2, <1>3, <1>4, RecordedStays DEF Removing
  <2> QED BY <1>4, <1>6, <2>5, <2>6 DEF IInv
<1>13. CASE step = "rm_pre1"
  <2>1. ~Exists(info.prev)' /\ ~Exists(info.pre2)' /\ ~Exists(info.pre1)'
    BY <1>3, <1>4, <1>7, <1>8, <1>9, <1>13 DEF TreeAt, ReadyFor
  <2>2. reg = NoValues
    BY <1>3, <1>13 DEF ReadyFor
  <2>3. ASSUME todo' # <<>> PROVE ReadyFor(Head(todo))'
    BY <1>2, <1>3, <1>4, <1>10, <1>13, <2>1, <2>2, <2>3 DEF ReadyFor, Chained, Unlinking, Removing, NoValues
  <2>4. Ready' /\ Finished'
    BY <1>2, <1>10, <2>1, <2>2, <2>3 DEF Ready, Finished, NoValues
  <2>5. Recorded'
    BY <1>2, <1>3, <1>4, RecordedStays DEF Removing
  <2> QED BY <1>4, <1>6, <2>4, <2>5 DEF IInv
<1> QED
    BY <1>3, <1>11, <1>12, <1>13 DEF RmTreeSteps

LEMMA TaskKeeps == ASSUME IInv, Task PROVE IInv'
<1> USE Sets
<1>1. ASSUME NEW h, NEW item, Adds(h, item),
             <<h, item>> \in {<<"dirs", "dir">>, <<"uninstaller", "uninstaller">>, <<"winboot", "winboot">>,
                <<"iso", "iso">>, <<"kernel", "kernel">>, <<"grub", "grub">>,
                <<"root_size", "root_size">>, <<"swap_size", "swap_size">>}
      PROVE  IInv'
  <2>1. h \in Plain /\ item \in Item /\ h # "record_entry" /\ (h = "dirs" => item = "dir")
    BY <1>1 DEF Plain, Writing
  <2>2. \A d \in Disk : item = SizeOf(d) => h = SizeOf(d)
    BY <1>1
  <2> QED BY <1>1, <2>1, <2>2, AddsKeeps
<1>2. ASSUME NEW h, NEW item, Drops(h, item),
             <<h, item>> \in {<<"rmtree_winboot", "winboot">>, <<"unlink_kernel", "kernel">>}
      PROVE  IInv'
  <2>1. h \in Plain /\ item \in Item \ ({"dir"} \cup Disk) /\ h \notin {"dirs", "record_entry"}
    BY <1>2 DEF Plain, Writing
  <2> QED BY <1>2, <2>1, DropsKeeps
<1>3. CASE CreateDirStructure
  BY <1>1, <1>3 DEF CreateDirStructure
<1>4. CASE CopyUninstaller
  BY <1>1, <1>4 DEF CopyUninstaller
<1>5. CASE RemoveOldFiles
  BY <1>2, <1>5 DEF RemoveOldFiles
<1>6. CASE CopyInstallationFiles
  BY <1>1, <1>6 DEF CopyInstallationFiles
<1>7. CASE GetIso
  BY <1>1, <1>7 DEF GetIso
<1>8. CASE UnlinkKernel
  BY <1>2, <1>8 DEF UnlinkKernel
<1>9. CASE ExtractKernel
  BY <1>1, <1>9 DEF ExtractKernel
<1>10. CASE ModifyGrubConfiguration
  BY <1>1, <1>10 DEF ModifyGrubConfiguration
<1>11. CASE SetEndOfFile
  BY <1>1, <1>11 DEF SetEndOfFile
<1> QED
    BY <1>3, <1>4, <1>5, <1>6, <1>7, <1>8, <1>9, <1>10, <1>11, NameKeeps, DeleteKeeps, ClearKeeps,
       UndoBootiniKeeps, UnlinkKeeps, CopyKeeps, BootiniKeeps, CreateKeeps, AlreadyKeeps, DisplayKeeps,
       RecordKeeps, SkipKeeps, DiskKeeps, RemoveFileKeeps, RemoveDirKeeps, RemoveKeyKeeps
    DEF Task

-----------------------------------------------------------------------------
(* What fetch_basic_info finds                                              *)

LEMMA LeastNumber ==
    ASSUME NEW S \in SUBSET Nat, S # {}
    PROVE  \E x \in S : \A y \in S : x <= y
<1>1. PICK x \in S : \A y \in S : ~(<<y, x>> \in OpToRel(<, Nat))
    BY NatLessThanWellFounded, WFMin
<1>2. \A y \in S : ~(y < x)
    BY <1>1 DEF OpToRel
<1>3. \A y \in S : x <= y
    BY <1>2
<1> QED BY <1>3

\* A set of drives has a first and a last one.
LEMMA FirstAndLast ==
    ASSUME NEW S \in SUBSET DOMAIN Drives, S # {}
    PROVE  Min(S) \in S /\ Max(S) \in S
<1>1. DOMAIN Drives = 1 .. Len(Drives) /\ Len(Drives) \in Nat
    BY DrivesAssumption, LenProperties
<1>2. \E x \in S : \A y \in S : x <= y
    BY <1>1, LeastNumber
<1>3. \E x \in S : \A y \in S : x >= y
  <2> DEFINE n == Len(Drives)
             T == {n - x : x \in S}
  <2>1. T \in SUBSET Nat /\ T # {}
    BY <1>1
  <2>2. \E x \in T : \A y \in T : x <= y
    BY <2>1, LeastNumber
  <2>3. PICK x \in S : \A y \in T : n - x <= y
    BY <2>2
  <2>4. \A y \in S : n - x <= n - y
    BY <2>3
  <2>5. \A y \in S : x >= y
    BY <1>1, <2>4
  <2> QED BY <2>5
<1>4. Min(S) \in S
    BY <1>2 DEF Min
<1>5. Max(S) \in S
    BY <1>3 DEF Max
<1> QED BY <1>4, <1>5

LEMMA Found ==
    /\ PreInstallPath \in PlaceOrNone /\ PreInstallPath2 \in PlaceOrNone
    /\ PreInstallPath = None /\ PreInstallPath2 = None => \A p \in Place : contents[p] = {}
<1>1. LoopAt \in SUBSET DOMAIN Drives /\ LivecdAt \in SUBSET DOMAIN Drives
    BY DEF LoopAt, LivecdAt
<1>2. \A i \in DOMAIN Drives : \A k \in Kind : <<Drives[i], k>> \in Place
    BY DrivesAssumption DEF Place, ToSet
<1>3. /\ LoopAt # {} => PreInstallPath \in Place
      /\ LivecdAt # {} => PreInstallPath2 \in Place
    BY <1>1, <1>2, FirstAndLast DEF PreInstallPath, PreInstallPath2, Kind
<1>4. PreInstallPath \in PlaceOrNone /\ PreInstallPath2 \in PlaceOrNone
    BY <1>3 DEF PlaceOrNone, PreInstallPath, PreInstallPath2
<1>5. ASSUME PreInstallPath = None, PreInstallPath2 = None
      PROVE  \A p \in Place : contents[p] = {}
  <2>1. LoopAt = {} /\ LivecdAt = {}
    BY <1>3, <1>5, NoneAssumption
  <2>2. \A i \in DOMAIN Drives : contents[<<Drives[i], "loop">>] = {} /\ contents[<<Drives[i], "livecd">>] = {}
    BY <2>1 DEF LoopAt, LivecdAt
  <2>3. \A p \in Place : \E i \in DOMAIN Drives : p = <<Drives[i], "loop">> \/ p = <<Drives[i], "livecd">>
    BY DEF Place, Kind, ToSet
  <2> QED BY <2>2, <2>3
<1> QED BY <1>4, <1>5

Info == [prev : PlaceOrNone, uninst : PlaceOrNone, pre1 : PlaceOrNone, pre2 : PlaceOrNone, needfix : 0 .. 2]
LEMMA FetchedTypes ==
    ASSUME TypeOK
    PROVE  /\ Fetched \in Info /\ (Fetched.needfix # 0 => Fetched.pre1 \in Place)
           /\ Fetched.pre1 = PreInstallPath /\ Fetched.pre2 = PreInstallPath2
<1>1. reg.dir \in PlaceOrNone /\ reg.exe \in PlaceOrNone
    BY DEF TypeOK
<1>2. NeedfixOnHost \in 0 .. 2 /\ (NeedfixOnHost # 0 => PreInstallPath # None)
    BY DEF NeedfixOnHost, RootDiskFound
<1> QED
    BY <1>1, <1>2, Found DEF Fetched, Info, PlaceOrNone

-----------------------------------------------------------------------------
(* The application                                                          *)

Elsewhere == {"dispatch", "uninstaller", "fix_page", "page", "again", "over", "refused"}

LEMMA InitHolds == ASSUME Init PROVE IInv
<1>1. Nothing \in Info /\ Nothing.needfix = 0
  BY DEF Nothing, Info, PlaceOrNone
<1>2. reg \in [dir : PlaceOrNone, exe : PlaceOrNone, vista : Id \cup {None}]
  BY DEF Init, NoValues, PlaceOrNone
<1>3. Types
  <2>1. contents \in [Place -> SUBSET Item] /\ \A p \in Place : contents[p] = {}
    BY DEF Init
  <2>2. runs \in 0 .. MaxRuns
    BY MaxRunsAssumption DEF Init
  <2> QED BY <1>1, <1>2, <2>1, <2>2 DEF Init, Types, TypeOK, PlaceOrNone, Info
<1>4. ListOK /\ Ready /\ Finished
  BY DEF Init, ListOK, Ready, Finished
<1>5. Recorded /\ MenuInPlace
  BY DEF Init, Recorded, MenuInPlace
<1> QED BY <1>3, <1>4, <1>5 DEF IInv

\* A step between the lists leaves the host alone.
LEMMA WalkKeeps ==
    ASSUME IInv, todo = <<>>, pc # "idle", pc' \in Elsewhere, UNCHANGED <<host, lost, runs, windows, todo>>,
           command' \in {"install", "cd_boot", "uninstall"},
           info' \in Info, info'.needfix # 0 => info'.pre1 \in Place, target' \in PlaceOrNone,
           pc' \in {"over", "refused"} \/ (pc \notin {"over", "refused"} /\ ~Creates)
    PROVE  IInv'
<1>1. UNCHANGED <<contents, reg, bcd, bootini, bootfiles, lost, runs, wiped, bootloader, todo>>
      /\ pc' # "tasks" /\ pc' # "idle"
    BY DEF host, windows, Elsewhere
<1>2. Types'
    BY <1>1 DEF IInv, Types, TypeOK, Info, Elsewhere
<1>3. ListOK' /\ Ready' /\ Finished'
    BY <1>1 DEF ListOK, Ready, Finished
<1>4. Recorded'
    BY <1>1 DEF IInv, Recorded, Pending, Creates
<1>5. MenuInPlace'
    BY <1>1 DEF IInv, MenuInPlace
<1> QED BY <1>2, <1>3, <1>4, <1>5 DEF IInv

\* A list is begun.
LEMMA BeginKeeps ==
    ASSUME IInv, pc \in {"fix_page", "page"}, NEW list \in {"install", "fix", "uninstall"}, NEW steps,
           Begin(list, steps), info' \in Info, info'.needfix # 0 => info'.pre1 \in Place,
           IF list = "uninstall" THEN target' \in PlaceOrNone ELSE target' \in Place,
           steps \in Seq(IF list = "uninstall" THEN Uninstalls ELSE Installs), InOrder(steps), steps # <<>>,
           IF list = "uninstall" THEN steps[1] = "delete_entry" /\ steps[Len(steps)] = "rm_pre1"
           ELSE steps[1] = "dirs"
    PROVE  IInv'
<1>1. /\ UNCHANGED <<contents, reg, bcd, bootini, bootfiles, lost, runs, wiped, bootloader, command>>
      /\ pc' = "tasks" /\ job' = list /\ todo' = steps
    BY DEF Begin, host, windows
<1>2. Types'
  <2>1. target' \in PlaceOrNone /\ (job' # "uninstall" => target' \in Place)
    BY <1>1 DEF PlaceOrNone
  <2> QED BY <1>1, <2>1 DEF IInv, Types, TypeOK, Info
<1>3. ListOK'
  <2>1. Allowed' = IF list = "uninstall" THEN Uninstalls ELSE Installs
    BY <1>1 DEF Allowed
  <2> QED BY <1>1, <2>1 DEF ListOK
<1>4. Head(steps) = steps[1]
    BY TailOf
<1>5. ReadyFor(Head(todo))'
    BY <1>1, <1>4 DEF ReadyFor, Unlinking, Removing
<1>6. Ready' /\ Finished'
    BY <1>1, <1>5 DEF Ready, Finished
<1>7. Recorded'
    BY <1>1 DEF IInv, Recorded, Pending, Creates
<1>8. MenuInPlace'
    BY <1>1 DEF IInv, MenuInPlace
<1> QED BY <1>2, <1>3, <1>6, <1>7, <1>8 DEF IInv

LEMMA StartKeeps ==
    ASSUME IInv, NEW c \in Commands, NEW e, Start(c, e) PROVE IInv'
<1>1. /\ pc = "idle" /\ runs < MaxRuns /\ runs' = runs + 1 /\ pc' = "dispatch" /\ command' = c
      /\ info' = Fetched
      /\ UNCHANGED <<contents, reg, bcd, bootini, bootfiles, lost, wiped, bootloader, target, job, todo>>
    BY DEF Start, host, windows
<1>2. /\ Fetched \in Info /\ (Fetched.needfix # 0 => Fetched.pre1 \in Place)
    BY FetchedTypes DEF IInv, Types
<1>3. runs \in 0 .. MaxRuns /\ runs' \in 0 .. MaxRuns /\ runs' # 0 /\ c \in {"install", "cd_boot", "uninstall"}
    BY <1>1, MaxRunsAssumption, CommandsAssumption DEF IInv, Types, TypeOK
<1>4. Types'
    BY <1>1, <1>2, <1>3 DEF IInv, Types, TypeOK, Info
<1>5. ListOK' /\ Ready' /\ Finished'
    BY <1>1 DEF IInv, ListOK, Ready, Finished
<1>6. Recorded'
  <2>1. \A x \in bcd : x.id \in Nat /\ x.id <= runs
    BY RegTypes DEF IInv, Recorded, Id
  <2>2. \A x \in bcd : x.id <= runs' /\ x.id # runs'
    BY <1>1, <1>3, <2>1
  <2>3. \A x \in bcd : x.id \in lost \/ x.id = reg.vista
    BY <1>1 DEF IInv, Recorded, Pending
  <2> QED BY <1>1, <2>2, <2>3 DEF Recorded, Creates
<1>7. MenuInPlace'
    BY <1>1 DEF IInv, MenuInPlace
<1> QED BY <1>4, <1>5, <1>6, <1>7 DEF IInv

\* The process ends, in its own time or not.
LEMMA EndKeeps ==
    ASSUME IInv, Exit \/ Die PROVE IInv'
<1>1. /\ pc' = "idle" /\ command' = "install" /\ info' = Nothing /\ target' = None /\ todo' = <<>>
      /\ UNCHANGED <<contents, reg, bcd, bootini, bootfiles, runs, wiped, bootloader>>
      /\ lost' = lost \/ lost' = lost \cup {e.id : e \in {f \in bcd : f.id = runs /\ reg.vista # runs}}
    BY DEF Exit, Die, Idle, host, windows
<1>2. Nothing \in Info /\ Nothing.needfix = 0
    BY DEF Nothing, Info, PlaceOrNone
<1>3. lost \subseteq lost' /\ lost' \subseteq Id
    BY <1>1, RegTypes DEF IInv, Types, TypeOK
<1>4. Types'
    BY <1>1, <1>2, <1>3 DEF IInv, Types, TypeOK, Info, PlaceOrNone
<1>5. ListOK' /\ Ready' /\ Finished'
    BY <1>1 DEF ListOK, Ready, Finished
<1>6. Recorded'
  <2>1. ASSUME NEW x \in bcd PROVE x.id \in lost' \/ x.id = reg.vista
    <3>1. CASE x.id \in lost \/ x.id = reg.vista
      BY <1>3, <3>1
    <3>2. CASE x.id = runs /\ Pending /\ x.id # reg.vista
      <4>1. pc = "tasks"
        BY <3>2 DEF Pending
      <4>2. lost' = lost \cup {e.id : e \in {f \in bcd : f.id = runs /\ reg.vista # runs}}
        BY <4>1 DEF Exit, Die
      <4> QED BY <3>2, <4>2
    <3> QED BY <3>1, <3>2 DEF IInv, Recorded
  <2>2. ~Creates'
    BY <1>1 DEF Creates
  <2> QED BY <1>1, <2>1, <2>2 DEF IInv, Recorded
<1>7. MenuInPlace'
    BY <1>1 DEF IInv, MenuInPlace
<1> QED BY <1>4, <1>5, <1>6, <1>7 DEF IInv

LEMMA ReinstallKeeps ==
    ASSUME IInv, ReinstallWindows PROVE IInv'
<1>1. /\ pc = "idle" /\ wiped' = TRUE /\ reg' = NoValues /\ bcd' = {} /\ bootini' = {} /\ bootfiles' = {} /\ lost' = {}
      /\ UNCHANGED <<bootloader, runs, pc, command, info, flag, target, job, todo>>
    BY DEF ReinstallWindows, proc
<1>2. NoValues \in [dir : PlaceOrNone, exe : PlaceOrNone, vista : Id \cup {None}]
    BY DEF NoValues, PlaceOrNone
<1>3. /\ contents' \in [Place -> SUBSET Item]
      /\ \A p \in Place : contents'[p] \in {{}, contents[p]}
    BY DEF ReinstallWindows, IInv, Types, TypeOK
<1>4. \A p \in Place : \A d \in Disk : SizeOf(d) \in contents'[p] => d \in contents'[p]
    BY <1>3 DEF IInv, Types, TypeOK
<1>5. Types'
    BY <1>1, <1>2, <1>3, <1>4 DEF IInv, Types, TypeOK
<1>6. ListOK' /\ Ready' /\ Finished'
    BY <1>1 DEF IInv, ListOK, Ready, Finished
<1>7. Recorded' /\ MenuInPlace'
    BY <1>1 DEF Recorded, Creates, MenuInPlace
<1> QED BY <1>5, <1>6, <1>7 DEF IInv

LEMMA QuietKeeps ==
    ASSUME IInv, UNCHANGED ivars PROVE IInv'
<1>1. UNCHANGED <<contents, reg, bcd, bootini, bootfiles, lost, runs, wiped, bootloader, pc, command, info,
                  flag, target, job, todo>>
    BY DEF ivars, host, windows, proc
<1>2. Types' /\ ListOK'
    BY <1>1 DEF IInv, Types, TypeOK, ListOK, Allowed
<1>3. Ready'
    BY <1>1 DEF IInv, Ready, ReadyFor, Exists, Loader, Mbr, Flavour
<1>4. Recorded' /\ Finished' /\ MenuInPlace'
    BY <1>1 DEF IInv, Recorded, Pending, Creates, Finished, Exists, MenuInPlace
<1> QED BY <1>2, <1>3, <1>4 DEF IInv

LEMMA ApplicationKeeps == ASSUME IInv, Application PROVE IInv'
<1>1. /\ info \in Info /\ target \in PlaceOrNone /\ (info.needfix # 0 => info.pre1 \in Place)
      /\ command \in {"install", "cd_boot", "uninstall"} /\ (pc # "tasks" => todo = <<>>)
    BY DEF IInv, Types, TypeOK, ListOK, Info
<1>2. /\ Fetched \in Info /\ (Fetched.needfix # 0 => Fetched.pre1 \in Place)
    BY FetchedTypes DEF IInv, Types
<1>3. Previous \in PlaceOrNone /\ [info EXCEPT !.prev = Previous] \in Info
      /\ [info EXCEPT !.prev = Previous].needfix = info.needfix
      /\ [info EXCEPT !.prev = Previous].pre1 = info.pre1
  <2>1. Previous \in PlaceOrNone
    BY <1>1 DEF Previous, Info
  <2> QED BY <1>1, <2>1 DEF Info
<1>4. [info EXCEPT !.needfix = 0] \in Info /\ [info EXCEPT !.needfix = 0].needfix = 0
  BY <1>1 DEF Info
<1>5. CASE \E c \in Commands, e \in {"setup", "same", "uninstall"} : Start(c, e)
  BY <1>5, StartKeeps
<1>6. CASE Dispatch
  <2>1. pc = "dispatch" /\ pc' \in {"uninstaller", "page"} /\ UNCHANGED <<host, lost, runs, windows, todo>>
        /\ UNCHANGED <<command, info, target>> /\ ~Creates
    BY <1>6 DEF Dispatch, Go, Creates
  <2> QED BY <1>1, <2>1, WalkKeeps DEF Elsewhere
<1>7. CASE NothingToUninstall
  <2>1. pc = "uninstaller" /\ pc' \in {"again", "over"} /\ UNCHANGED <<host, lost, runs, windows, todo>>
        /\ UNCHANGED <<command, target>> /\ info' = [info EXCEPT !.prev = Previous] /\ ~Creates
    BY <1>7 DEF NothingToUninstall, Go, Creates
  <2> QED BY <1>1, <1>3, <2>1, WalkKeeps DEF Elsewhere
<1>8. CASE RunPreviousUninstaller
  <2>1. pc = "uninstaller" /\ pc' = "uninstaller" /\ UNCHANGED <<host, lost, runs, windows, todo>>
        /\ command' = "uninstall" /\ UNCHANGED target /\ info' = Fetched /\ ~Creates
    BY <1>8 DEF RunPreviousUninstaller, Go, Creates
  <2> QED BY <1>1, <1>2, <2>1, WalkKeeps DEF Elsewhere
<1>9. CASE ShowFixSettings
  <2>1. pc = "uninstaller" /\ pc' = "fix_page" /\ UNCHANGED <<host, lost, runs, windows, todo>>
        /\ UNCHANGED <<command, target>> /\ info' = [info EXCEPT !.prev = Previous] /\ ~Creates
    BY <1>9 DEF ShowFixSettings, Go, Creates
  <2> QED BY <1>1, <1>3, <2>1, WalkKeeps DEF Elsewhere
<1>10. CASE ConfirmUninstall
  <2>1. pc = "fix_page" /\ Begin("uninstall", UninstallSteps) /\ info' = [info EXCEPT !.needfix = 0]
        /\ target' = target
    BY <1>10 DEF ConfirmUninstall
  <2> QED BY <1>1, <1>4, <2>1, ListsInOrder, BeginKeeps
<1>11. CASE RunFixboot
  <2>1. pc = "fix_page" /\ Begin("fix", FixSteps) /\ info' = info /\ target' \in Place
    BY <1>1, <1>11 DEF RunFixboot
  <2> QED BY <1>1, <2>1, ListsInOrder, BeginKeeps
<1>12. CASE ReceiveSettings
  <2>1. PICK d \in ToSet(Drives), kind \in Kind : target' = <<d, kind>> /\ Begin("install", InstallSteps(kind))
    BY <1>12 DEF ReceiveSettings, Kind
  <2>2. pc = "page" /\ info' = info /\ target' \in Place
    BY <1>12, <2>1 DEF ReceiveSettings, Place
  <2> QED BY <1>1, <2>1, <2>2, ListsInOrder, BeginKeeps
<1>13. CASE AfterTasks
  <2>1. pc = "tasks" /\ todo = <<>> /\ UNCHANGED <<host, lost, runs, windows, todo>>
        /\ UNCHANGED <<command, target, info>>
        /\ (pc' = "over" \/ (pc' = "again" /\ ~Creates))
    BY <1>13 DEF AfterTasks, ListDone, Go, Creates, proc
  <2> QED BY <1>1, <2>1, WalkKeeps DEF Elsewhere
<1>14. CASE LookAgain
  <2>1. pc = "again" /\ pc' \in {"refused", "page"} /\ UNCHANGED <<host, lost, runs, windows, todo>>
        /\ UNCHANGED <<command, target>> /\ info' = Fetched /\ ~Creates
    BY <1>14 DEF LookAgain, Go, Creates
  <2> QED BY <1>1, <1>2, <2>1, WalkKeeps DEF Elsewhere
<1> QED
  BY <1>5, <1>6, <1>7, <1>8, <1>9, <1>10, <1>11, <1>12, <1>13, <1>14, EndKeeps DEF Application

-----------------------------------------------------------------------------
(* What is shown                                                            *)

\* The invariant the others follow from, and what it is made of: each step of a
\* list finds what the one before it left, and every entry is accounted for.
THEOREM HostInvariant == Spec => []IInv
<1>1. Init => IInv
  BY InitHolds
<1>2. IInv /\ [Next]_ivars => IInv'
  BY TaskKeeps, ApplicationKeeps, ReinstallKeeps, QuietKeeps DEF Next
<1> QED BY <1>1, <1>2, PTL DEF Spec

\* Every variable has its type (win32/backend.py, common/backend.py).
THEOREM InstallTypes == Spec => []TypeOK
<1>1. IInv => TypeOK
  BY DEF IInv, Types
<1> QED BY <1>1, HostInvariant, PTL

\* An uninstallation that ends leaves nothing it knew of (undo_bootloader,
\* remove_target_dir and remove_registry_key of win32/backend.py).
THEOREM UninstallationIsComplete == Spec => []UninstalledIsGone
<1>1. ASSUME IInv, ListDone, job = "uninstall"
      PROVE  /\ reg = NoValues /\ bootini = {} /\ bootfiles = {}
             /\ \A p \in {info.prev, info.pre1, info.pre2} : ~Exists(p)
             /\ {e.id : e \in bcd} \subseteq lost
  <2>1. /\ reg = NoValues /\ bootini = {} /\ bootfiles = {}
        /\ ~Exists(info.prev) /\ ~Exists(info.pre1) /\ ~Exists(info.pre2)
    BY <1>1 DEF IInv, Finished, ListDone
  <2>2. NoValues.vista = None /\ None \notin Id /\ \A e \in bcd : e.id \in Id
    BY <1>1, RegTypes DEF NoValues, IInv
  <2>3. ~Pending
    BY <1>1 DEF Pending, ListDone
  <2>4. \A e \in bcd : e.id \in lost
    BY <1>1, <2>1, <2>2, <2>3 DEF IInv, Recorded
  <2> QED BY <2>1, <2>4
<1>2. IInv => UninstalledIsGone
  BY <1>1 DEF UninstalledIsGone
<1> QED BY <1>2, HostInvariant, PTL

\* What a process takes the drives for is what they are, for as long as it asks.
CleanLook ==
    /\ pc = "dispatch" => info.pre1 = PreInstallPath /\ info.pre2 = PreInstallPath2
    /\ pc = "page" /\ command = "install" => \A p \in Place : contents[p] = {}

LEMMA LookIsClean == ASSUME IInv, CleanLook, [Next]_ivars PROVE CleanLook'
<1>1. Fetched.pre1 = PreInstallPath /\ Fetched.pre2 = PreInstallPath2
  BY FetchedTypes DEF IInv, Types
<1>2. contents' = contents => PreInstallPath' = PreInstallPath /\ PreInstallPath2' = PreInstallPath2
  BY DEF PreInstallPath, PreInstallPath2, LoopAt, LivecdAt
<1>3. CASE Task
  <2>1. pc' = "tasks"
    BY <1>3 DEF Task, CreateDirStructure, CopyUninstaller, SetUninstallString, SetInstallationDir,
       RemoveOldFiles, CopyInstallationFiles, GetIso, UnlinkKernel, ExtractKernel, DeleteEntry,
       ClearVistaBootDrive, UndoBootini, UnlinkWinbootFile, CopyBootFile, ModifyBootini, CreateEntry,
       AlreadyModified, DisplayEntry, RecordEntry, ModifyGrubConfiguration, SkipDisk, CreateDisk,
       SetEndOfFile, RemoveFile, RemoveDir, RemoveRegistryKey, Adds, Drops, SetRegistry, Doing, Done
  <2> QED BY <2>1 DEF CleanLook
<1>4. CASE \E c \in Commands, e \in {"setup", "same", "uninstall"} : Start(c, e)
  <2>1. pc' = "dispatch" /\ info' = Fetched /\ contents' = contents
    BY <1>4 DEF Start, host
  <2> QED BY <1>1, <1>2, <2>1 DEF CleanLook
<1>5. CASE Dispatch
  <2>1. pc = "dispatch" /\ contents' = contents /\ command' = command /\ pc' \in {"uninstaller", "page"}
        /\ (pc' = "page" /\ command = "install" => info.pre1 = None /\ info.pre2 = None)
    BY <1>5 DEF Dispatch, Go, host, OldFound
  <2> QED BY <2>1, Found DEF CleanLook
<1>6. CASE LookAgain
  <2>1. pc = "again" /\ contents' = contents /\ command' = command /\ pc' \in {"refused", "page"}
        /\ (pc' = "page" /\ command = "install" => Fetched.pre1 = None /\ Fetched.pre2 = None)
    BY <1>6 DEF LookAgain, Go, host, OldFound
  <2> QED BY <1>1, <2>1, Found DEF CleanLook
<1>7. CASE \/ NothingToUninstall \/ RunPreviousUninstaller \/ ShowFixSettings \/ ConfirmUninstall
           \/ RunFixboot \/ ReceiveSettings \/ AfterTasks \/ Exit \/ Die \/ ReinstallWindows
  <2>1. pc' \notin {"dispatch", "page"}
    BY <1>7 DEF NothingToUninstall, RunPreviousUninstaller, ShowFixSettings, ConfirmUninstall,
       RunFixboot, ReceiveSettings, AfterTasks, Exit, Die, ReinstallWindows, Go, Begin, Idle
  <2> QED BY <2>1 DEF CleanLook
<1>8. CASE UNCHANGED ivars
  <2>1. UNCHANGED <<pc, info, command, contents>>
    BY <1>8 DEF ivars, host, proc
  <2> QED BY <1>2, <2>1 DEF CleanLook
<1> QED
  BY <1>3, <1>4, <1>5, <1>6, <1>7, <1>8 DEF Next, Application

\* A full installation starts only where nothing of an earlier one is left, on
\* any drive (run_installer and check_pre_install_path).
THEOREM InstallationsStartClean == Spec => InstallsOnCleanDrives
<1>1. Init => CleanLook
  BY DEF Init, CleanLook
<1>2. CleanLook /\ [Next]_ivars =>
          [pc = "page" /\ command = "install" /\ pc' = "tasks" => \A p \in Place : contents[p] = {}]_ivars
  BY DEF CleanLook
<1>3. IInv /\ CleanLook /\ [Next]_ivars => CleanLook'
  BY LookIsClean
<1> QED BY <1>1, <1>2, <1>3, HostInvariant, PTL DEF Spec, InstallsOnCleanDrives

-----------------------------------------------------------------------------
(* The work of a list                                                      *)

\* When a step comes: a list never goes back to an earlier stage.
Stage(step) ==
    CASE step = "dirs" -> 1
      [] step = "uninstaller" -> 2
      [] step = "UninstallString" -> 3
      [] step = "InstallationDir" -> 4
      [] step = "rmtree_winboot" -> 5
      [] step = "winboot" -> 6
      [] step = "iso" -> 7
      [] step = "unlink_kernel" -> 8
      [] step = "kernel" -> 9
      [] step \in Undoing \ {"yldrd.mbr"} -> 10
      [] step = "yldrd.mbr" -> 11
      [] step \in {"loader", "mbr", "bootini", "create_entry", "set_entry", "record_entry"} -> 12
      [] step = "grub" -> 13
      [] step \in {"root", "root_size"} -> 14
      [] OTHER -> 15
Sorted(s) == \A i, j \in 1 .. Len(s) : i < j => Stage(s[i]) <= Stage(s[j])
Has(s, y) == \E i \in 1 .. Len(s) : s[i] = y

Loop == {p \in Place : p[2] = "loop"}
ToServe == {"uninstaller", "winboot", "kernel"}

\* The steps whose work the end of a list relies on.
Required ==
    {"dirs", "UninstallString", "InstallationDir", "loader", "mbr", "grub"} \cup ToServe
    \cup (IF bootloader = "xp" THEN {"bootini"} ELSE {"create_entry"})
    \cup (IF job = "install" THEN {"iso"} ELSE {})
    \cup (IF job = "fix" \/ Flavour = "loop" THEN Disk ELSE {})

Early == todo # <<>> /\ Stage(Head(todo)) < 12

\* What is left of a list of an installation or a fix.
Plan ==
    /\ Sorted(todo)
    /\ todo # <<>> => \A y \in Required : Stage(Head(todo)) < Stage(y) => Has(todo, y)
    /\ \A i \in 1 .. Len(todo) : Stage(todo[i]) = 10 => Has(todo, "yldrd.mbr")

\* A step is to be done or its work is.
Worked ==
    /\ Has(todo, "dirs") \/ "dir" \in contents[target]
    /\ \A y \in Required \cap Item : Has(todo, y) \/ y \in contents[target]
    /\ Has(todo, "UninstallString") \/ reg.exe = target
    /\ Has(todo, "InstallationDir") \/ reg.dir = target
    /\ Has(todo, "loader") \/ Loader \in bootfiles
    /\ Has(todo, "mbr") \/ Mbr \in bootfiles
    /\ bootloader = "xp" => Has(todo, "bootini") \/ BootLine(Flavour) \in bootini
    /\ bootloader # "xp" => Has(todo, "create_entry") \/ reg.vista # None \/ Pending
SizedDisks ==
    job = "install" /\ Flavour = "loop" =>
        \A d \in Disk : d \in contents[target] =>
            SizeOf(d) \in contents[target] \/ (todo # <<>> /\ Head(todo) = SizeOf(d))

\* What boots the machine is this installation only.
OnlyOurs ==
    /\ bootfiles \subseteq {Loader, Mbr}
    /\ bootini \subseteq {BootLine(Flavour)}
    /\ reg.vista # None => \E e \in bcd : e.id = reg.vista /\ e.at \in {target, Refused} /\ e.mbr = Mbr
    /\ todo # <<>> /\ Head(todo) = "set_entry" => \E e \in bcd : e.id = runs /\ e.mbr = Mbr
    /\ todo # <<>> /\ Head(todo) = "record_entry" =>
           \E e \in bcd : e.id = runs /\ e.at \in {target, Refused} /\ e.mbr = Mbr

Working ==
    Creates =>
        /\ Plan /\ Worked /\ SizedDisks
        /\ Has(todo, "yldrd.mbr") \/ OnlyOurs
        /\ Early => ~BootEntryFound
        /\ target \in Loop => \A p \in Loop : p # target => contents[p] = {}
        /\ Flavour = "loop" => target \in Loop

\* The values the process goes by.
Walking ==
    /\ command = "uninstall" => ~before
    /\ pc = "again" => before
    /\ pc = "page" => command # "uninstall"
    /\ flag \/ (pc = "tasks" /\ job = "install") \/ pc = "over"
    /\ pc = "idle" => ~before
    /\ pc \in {"dispatch", "uninstaller", "fix_page"} =>
           info.pre1 = PreInstallPath /\ info.needfix = NeedfixOnHost
    /\ pc = "dispatch" /\ info.prev = None => reg.dir = None
    /\ pc = "page" /\ command = "cd_boot" => reg.dir = None

Unbooted == reg.vista = None /\ bootini = {} /\ bootfiles = {}
Hosting ==
    /\ reg.dir = None => Unbooted
    /\ \A p, q \in Loop : contents[p] # {} /\ contents[q] # {} => p = q
    /\ BootEntryFound => \E p \in Loop : ToServe \subseteq contents[p]

Work == Working /\ Walking /\ Hosting

-----------------------------------------------------------------------------
(* The lists and their stages                                               *)

\* The stages by name.
LEMMA Stages ==
    /\ \A x : Stage(x) \in 1 .. 15
    /\ \A x : /\ x # "dirs" => Stage(x) # 1
              /\ x # "uninstaller" => Stage(x) # 2
              /\ x # "UninstallString" => Stage(x) # 3
              /\ x # "InstallationDir" => Stage(x) # 4
              /\ x # "winboot" => Stage(x) # 6
              /\ x # "iso" => Stage(x) # 7
              /\ x # "kernel" => Stage(x) # 9
              /\ x # "yldrd.mbr" => Stage(x) # 11
              /\ x # "grub" => Stage(x) # 13
    /\ Stage("dirs") = 1 /\ Stage("uninstaller") = 2 /\ Stage("UninstallString") = 3
    /\ Stage("InstallationDir") = 4 /\ Stage("rmtree_winboot") = 5 /\ Stage("winboot") = 6
    /\ Stage("iso") = 7 /\ Stage("unlink_kernel") = 8 /\ Stage("kernel") = 9
    /\ Stage("delete_entry") = 10 /\ Stage("VistaBootDrive") = 10 /\ Stage("undo_bootini") = 10
    /\ Stage("yldr") = 10 /\ Stage("yldr.mbr") = 10 /\ Stage("yldrd") = 10 /\ Stage("yldrd.mbr") = 11
    /\ Stage("loader") = 12 /\ Stage("mbr") = 12 /\ Stage("bootini") = 12 /\ Stage("create_entry") = 12
    /\ Stage("set_entry") = 12 /\ Stage("record_entry") = 12 /\ Stage("grub") = 13
    /\ Stage("root") = 14 /\ Stage("root_size") = 14 /\ Stage("swap") = 15 /\ Stage("swap_size") = 15
<1>1. ASSUME NEW x PROVE Stage(x) \in 1 .. 15
  BY DEF Stage
<1>2. ASSUME NEW x
      PROVE  /\ x # "dirs" => Stage(x) # 1
             /\ x # "uninstaller" => Stage(x) # 2
             /\ x # "UninstallString" => Stage(x) # 3
             /\ x # "InstallationDir" => Stage(x) # 4
             /\ x # "winboot" => Stage(x) # 6
             /\ x # "iso" => Stage(x) # 7
             /\ x # "kernel" => Stage(x) # 9
             /\ x # "yldrd.mbr" => Stage(x) # 11
             /\ x # "grub" => Stage(x) # 13
  <2>1. x # "dirs" => Stage(x) # 1
    BY DEF Stage
  <2>2. x # "uninstaller" => Stage(x) # 2
    BY DEF Stage
  <2>3. x # "UninstallString" => Stage(x) # 3
    BY DEF Stage
  <2>4. x # "InstallationDir" => Stage(x) # 4
    BY DEF Stage
  <2>5. x # "winboot" => Stage(x) # 6
    BY DEF Stage
  <2>6. x # "iso" => Stage(x) # 7
    BY DEF Stage
  <2>7. x # "kernel" => Stage(x) # 9
    BY DEF Stage
  <2>8. x # "yldrd.mbr" => Stage(x) # 11
    BY DEF Stage
  <2>9. x # "grub" => Stage(x) # 13
    BY DEF Stage
  <2> QED BY <2>1, <2>2, <2>3, <2>4, <2>5, <2>6, <2>7, <2>8, <2>9
<1>3. /\ Stage("dirs") = 1 /\ Stage("uninstaller") = 2 /\ Stage("UninstallString") = 3
      /\ Stage("InstallationDir") = 4 /\ Stage("rmtree_winboot") = 5 /\ Stage("winboot") = 6
      /\ Stage("iso") = 7 /\ Stage("unlink_kernel") = 8 /\ Stage("kernel") = 9
  BY DEF Stage, Undoing
<1>4. /\ Stage("delete_entry") = 10 /\ Stage("VistaBootDrive") = 10 /\ Stage("undo_bootini") = 10
      /\ Stage("yldr") = 10 /\ Stage("yldr.mbr") = 10 /\ Stage("yldrd") = 10 /\ Stage("yldrd.mbr") = 11
  BY DEF Stage, Undoing
<1>5. /\ Stage("loader") = 12 /\ Stage("mbr") = 12 /\ Stage("bootini") = 12 /\ Stage("create_entry") = 12
      /\ Stage("set_entry") = 12 /\ Stage("record_entry") = 12 /\ Stage("grub") = 13
      /\ Stage("root") = 14 /\ Stage("root_size") = 14 /\ Stage("swap") = 15 /\ Stage("swap_size") = 15
  BY DEF Stage, Undoing
<1> QED BY <1>1, <1>2, <1>3, <1>4, <1>5

LEMMA WritingIsNotUndoing == \A x \in Writing : Stage(x) # 10
BY Stages DEF Writing

\* A piece whose steps come in the stages from a to b.
Planned(S, s, a, b) ==
    /\ s \in Seq(S)
    /\ \A i \in 1 .. Len(s) : Stage(s[i]) \in a .. b
    /\ Sorted(s)

LEMMA JoinPlanned ==
    ASSUME NEW S, NEW s, NEW t, NEW a \in Nat, NEW b \in Nat, NEW c \in Nat, NEW d \in Nat,
           Planned(S, s, a, b), Planned(S, t, c, d), a <= b, b <= c, c <= d
    PROVE  /\ Planned(S, s \o t, a, d)
           /\ \A y : Has(s, y) \/ Has(t, y) => Has(s \o t, y)
<1>1. s \in Seq(S) /\ t \in Seq(S)
  BY DEF Planned
<1>2. /\ s \o t \in Seq(S) /\ Len(s \o t) = Len(s) + Len(t) /\ Len(s) \in Nat /\ Len(t) \in Nat
      /\ \A i \in 1 .. Len(s) + Len(t) :
             (s \o t)[i] = IF i <= Len(s) THEN s[i] ELSE t[i - Len(s)]
  BY <1>1, ConcatProperties, LenProperties
<1>3. ASSUME NEW i \in 1 .. Len(s) + Len(t)
      PROVE  /\ i <= Len(s) => (s \o t)[i] = s[i] /\ Stage((s \o t)[i]) \in a .. b
             /\ i > Len(s) => /\ i - Len(s) \in 1 .. Len(t) /\ (s \o t)[i] = t[i - Len(s)]
                              /\ Stage((s \o t)[i]) \in c .. d
  <2>1. CASE i <= Len(s)
    <3>1. i \in 1 .. Len(s) /\ (s \o t)[i] = s[i]
      BY <1>2, <2>1
    <3> QED BY <1>2, <2>1, <3>1 DEF Planned
  <2>2. CASE i > Len(s)
    <3>1. i - Len(s) \in 1 .. Len(t) /\ (s \o t)[i] = t[i - Len(s)]
      BY <1>2, <2>2
    <3> QED BY <1>2, <2>2, <3>1 DEF Planned
  <2> QED BY <1>2, <2>1, <2>2
<1>4. ASSUME NEW i \in 1 .. Len(s) + Len(t) PROVE Stage((s \o t)[i]) \in a .. d
  <2>1. CASE i <= Len(s)
    BY <1>3, <2>1
  <2>2. CASE i > Len(s)
    BY <1>3, <2>2
  <2> QED BY <1>2, <2>1, <2>2
<1>5. ASSUME NEW i \in 1 .. Len(s) + Len(t), NEW j \in 1 .. Len(s) + Len(t), i < j
      PROVE  Stage((s \o t)[i]) <= Stage((s \o t)[j])
  <2>1. CASE j <= Len(s)
    <3>1. i \in 1 .. Len(s) /\ j \in 1 .. Len(s) /\ (s \o t)[i] = s[i] /\ (s \o t)[j] = s[j]
      BY <1>2, <1>3, <1>5, <2>1
    <3>2. Stage(s[i]) <= Stage(s[j])
      BY <1>5, <3>1 DEF Planned, Sorted
    <3> QED BY <3>1, <3>2
  <2>2. CASE i > Len(s)
    <3>1. /\ i - Len(s) \in 1 .. Len(t) /\ j - Len(s) \in 1 .. Len(t) /\ i - Len(s) < j - Len(s)
          /\ (s \o t)[i] = t[i - Len(s)] /\ (s \o t)[j] = t[j - Len(s)]
      BY <1>2, <1>3, <1>5, <2>2
    <3>2. Stage(t[i - Len(s)]) <= Stage(t[j - Len(s)])
      BY <3>1 DEF Planned, Sorted
    <3> QED BY <3>1, <3>2
  <2>3. CASE i <= Len(s) /\ j > Len(s)
    <3>1. Stage((s \o t)[i]) \in a .. b /\ Stage((s \o t)[j]) \in c .. d
      BY <1>3, <2>3
    <3> QED BY <3>1
  <2> QED BY <1>2, <2>1, <2>2, <2>3
<1>6. ASSUME NEW y, Has(s, y) PROVE Has(s \o t, y)
  <2>1. PICK i \in 1 .. Len(s) : s[i] = y
    BY <1>6 DEF Has
  <2>2. i \in 1 .. Len(s) + Len(t) /\ (s \o t)[i] = y
    BY <1>2, <2>1
  <2> QED BY <1>2, <2>2 DEF Has
<1>7. ASSUME NEW y, Has(t, y) PROVE Has(s \o t, y)
  <2>1. PICK i \in 1 .. Len(t) : t[i] = y
    BY <1>7 DEF Has
  <2>2. i + Len(s) \in 1 .. Len(s) + Len(t) /\ (i + Len(s)) - Len(s) = i /\ ~(i + Len(s) <= Len(s))
    BY <1>2
  <2>3. (s \o t)[i + Len(s)] = y
    BY <1>2, <2>1, <2>2
  <2> QED BY <1>2, <2>2, <2>3 DEF Has
<1>8. Sorted(s \o t)
  BY <1>2, <1>5 DEF Sorted
<1> QED
  BY <1>2, <1>4, <1>6, <1>7, <1>8 DEF Planned

\* The pieces with their stages.
LEMMA PlannedPieces ==
    ASSUME NEW S, Writing \subseteq S
    PROVE  /\ Planned(S, FileSteps, 1, 6)
           /\ Planned(S, <<"iso">>, 7, 7)
           /\ Planned(S, KernelSteps, 8, 9)
           /\ Undoing \subseteq S => Planned(S, UndoSteps, 10, 11)
           /\ Planned(S, <<>>, 10, 11) /\ Planned(S, <<>>, 14, 15)
           /\ Planned(S, <<"grub">>, 13, 13)
           /\ Planned(S, <<"root", "swap">>, 14, 15)
           /\ Planned(S, <<"grub", "root", "swap">>, 13, 15)
           /\ Planned(S, <<"loader", "mbr">>, 12, 12)
           /\ Planned(S, <<"loader", "mbr", "bootini">>, 12, 12)
<1>1. Planned(S, FileSteps, 1, 6)
  BY Stages DEF FileSteps, Planned, Sorted, Writing
<1>2. Planned(S, <<"iso">>, 7, 7) /\ Planned(S, <<"grub">>, 13, 13)
  BY Stages DEF Planned, Sorted, Writing
<1>3. Planned(S, KernelSteps, 8, 9)
  BY Stages DEF KernelSteps, Planned, Sorted, Writing
<1>4. ASSUME Undoing \subseteq S PROVE Planned(S, UndoSteps, 10, 11)
  BY <1>4, Stages DEF UndoSteps, Planned, Sorted, Undoing
<1>5. Planned(S, <<>>, 10, 11) /\ Planned(S, <<>>, 14, 15)
  BY DEF Planned, Sorted
<1>6. Planned(S, <<"root", "swap">>, 14, 15) /\ Planned(S, <<"grub", "root", "swap">>, 13, 15)
  BY Stages DEF Planned, Sorted, Writing
<1>7. Planned(S, <<"loader", "mbr">>, 12, 12) /\ Planned(S, <<"loader", "mbr", "bootini">>, 12, 12)
  BY Stages DEF Planned, Sorted, Writing
<1> QED BY <1>1, <1>2, <1>3, <1>4, <1>5, <1>6, <1>7

LEMMA PiecesHave ==
    /\ \A y \in {"dirs", "uninstaller", "UninstallString", "InstallationDir", "winboot"} : Has(FileSteps, y)
    /\ Has(<<"iso">>, "iso") /\ Has(KernelSteps, "kernel") /\ Has(UndoSteps, "yldrd.mbr")
    /\ Has(<<"grub">>, "grub") /\ \A d \in Disk : Has(<<"root", "swap">>, d)
    /\ \A y \in {"grub"} \cup Disk : Has(<<"grub", "root", "swap">>, y)
    /\ Has(<<"loader", "mbr">>, "loader") /\ Has(<<"loader", "mbr">>, "mbr")
    /\ \A y \in {"loader", "mbr", "bootini"} : Has(<<"loader", "mbr", "bootini">>, y)
<1>1. \A y \in {"dirs", "uninstaller", "UninstallString", "InstallationDir", "winboot"} : Has(FileSteps, y)
  <2>1. /\ Len(FileSteps) = 6 /\ FileSteps[1] = "dirs" /\ FileSteps[2] = "uninstaller"
        /\ FileSteps[3] = "UninstallString" /\ FileSteps[4] = "InstallationDir" /\ FileSteps[6] = "winboot"
    BY DEF FileSteps
  <2>2. 1 \in 1 .. 6 /\ 2 \in 1 .. 6 /\ 3 \in 1 .. 6 /\ 4 \in 1 .. 6 /\ 6 \in 1 .. 6
    OBVIOUS
  <2> QED BY <2>1, <2>2 DEF Has
<1>2. Has(<<"iso">>, "iso") /\ Has(<<"grub">>, "grub")
  BY DEF Has
<1>3. Has(KernelSteps, "kernel")
  <2>1. KernelSteps[2] = "kernel" /\ Len(KernelSteps) = 2 /\ 2 \in 1 .. 2
    BY DEF KernelSteps
  <2> QED BY <2>1 DEF Has
<1>4. Has(UndoSteps, "yldrd.mbr")
  <2>1. UndoSteps[7] = "yldrd.mbr" /\ Len(UndoSteps) = 7 /\ 7 \in 1 .. 7
    BY DEF UndoSteps
  <2> QED BY <2>1 DEF Has
<1>5. \A d \in Disk : Has(<<"root", "swap">>, d)
  <2>1. <<"root", "swap">>[1] = "root" /\ <<"root", "swap">>[2] = "swap" /\ Len(<<"root", "swap">>) = 2
        /\ 1 \in 1 .. 2 /\ 2 \in 1 .. 2
    OBVIOUS
  <2> QED BY <2>1, Sets DEF Has
<1>6. \A y \in {"grub"} \cup Disk : Has(<<"grub", "root", "swap">>, y)
  <2> DEFINE s == <<"grub", "root", "swap">>
  <2>1. s[1] = "grub" /\ s[2] = "root" /\ s[3] = "swap" /\ Len(s) = 3
        /\ 1 \in 1 .. 3 /\ 2 \in 1 .. 3 /\ 3 \in 1 .. 3
    OBVIOUS
  <2> HIDE DEF s
  <2>2. \A y \in {"grub"} \cup Disk : Has(s, y)
    BY <2>1, Sets DEF Has
  <2> QED BY <2>2 DEF s
<1>7. Has(<<"loader", "mbr">>, "loader") /\ Has(<<"loader", "mbr">>, "mbr")
  <2>1. <<"loader", "mbr">>[1] = "loader" /\ <<"loader", "mbr">>[2] = "mbr" /\ Len(<<"loader", "mbr">>) = 2
        /\ 1 \in 1 .. 2 /\ 2 \in 1 .. 2
    OBVIOUS
  <2> QED BY <2>1 DEF Has
<1>8. \A y \in {"loader", "mbr", "bootini"} : Has(<<"loader", "mbr", "bootini">>, y)
  <2> DEFINE s == <<"loader", "mbr", "bootini">>
  <2>1. s[1] = "loader" /\ s[2] = "mbr" /\ s[3] = "bootini" /\ Len(s) = 3
        /\ 1 \in 1 .. 3 /\ 2 \in 1 .. 3 /\ 3 \in 1 .. 3
    OBVIOUS
  <2> HIDE DEF s
  <2>2. \A y \in {"loader", "mbr", "bootini"} : Has(s, y)
    BY <2>1 DEF Has
  <2> QED BY <2>2 DEF s
<1> QED BY <1>1, <1>2, <1>3, <1>4, <1>5, <1>6, <1>7, <1>8

LEMMA CreatesPlanned ==
    ASSUME NEW n \in Int, NEW S, Writing \subseteq S
    PROVE  Planned(S, CreateSteps(n), 12, 12) /\ (n >= 1 => Has(CreateSteps(n), "create_entry"))
<1>1. CASE n < 0
  <2>1. 1 .. n = 1 .. 0
    BY <1>1
  <2>2. CreateSteps(n) = [i \in 1 .. 0 |-> "create_entry"]
    BY <2>1 DEF CreateSteps
  <2>3. CreateSteps(n) = <<>>
    BY <2>2
  <2> QED BY <1>1, <2>3 DEF Planned, Sorted
<1>2. CASE n \in Nat
  <2>1. CreateSteps(n) \in [1 .. n -> S] /\ \A i \in 1 .. n : CreateSteps(n)[i] = "create_entry"
    BY DEF CreateSteps, Writing
  <2>2. CreateSteps(n) \in Seq(S) /\ Len(CreateSteps(n)) = n
    BY <1>2, <2>1
  <2>3. Planned(S, CreateSteps(n), 12, 12)
    BY <2>1, <2>2, Stages DEF Planned, Sorted
  <2>4. ASSUME n >= 1 PROVE Has(CreateSteps(n), "create_entry")
    <3>1. 1 \in 1 .. n
      BY <2>4
    <3> QED BY <2>1, <2>2, <3>1 DEF Has
  <2> QED BY <2>3, <2>4
<1> QED BY <1>1, <1>2

LEMMA BootPlanned ==
    ASSUME NEW S, Writing \subseteq S
    PROVE  /\ Planned(S, BootSteps, 12, 12) /\ Has(BootSteps, "loader") /\ Has(BootSteps, "mbr")
           /\ Has(BootSteps, IF bootloader = "xp" THEN "bootini" ELSE "create_entry")
<1>1. CASE bootloader = "xp"
  <2>1. BootSteps = <<"loader", "mbr", "bootini">>
    BY <1>1 DEF BootSteps
  <2> QED BY <1>1, <2>1, PlannedPieces, PiecesHave
<1>2. CASE bootloader # "xp"
  <2> DEFINE k == CHOOSE i \in DOMAIN Drives : Drives[i] = System
             files == <<"loader", "mbr">>
             first == CreateSteps(k - 1)
             last == CreateSteps(Len(Drives) - k + 1)
  <2>1. k \in 1 .. Len(Drives) /\ Len(Drives) \in Nat
    <3>1. \E i \in DOMAIN Drives : Drives[i] = System
      BY DrivesAssumption DEF ToSet
    <3>2. DOMAIN Drives = 1 .. Len(Drives) /\ Len(Drives) \in Nat
      BY DrivesAssumption, LenProperties
    <3> QED BY <3>1, <3>2
  <2>2. BootSteps = (first \o files) \o last
    BY <1>2 DEF BootSteps
  <2>3. k - 1 \in Int /\ Len(Drives) - k + 1 \in Int /\ Len(Drives) - k + 1 >= 1
    BY <2>1
  <2> HIDE DEF k
  <2>4. Planned(S, first, 12, 12) /\ Planned(S, last, 12, 12) /\ Has(last, "create_entry")
    BY <2>3, CreatesPlanned
  <2>5. Planned(S, files, 12, 12) /\ Has(files, "loader") /\ Has(files, "mbr")
    BY PlannedPieces, PiecesHave
  <2> HIDE DEF files, first, last
  <2>6. /\ Planned(S, first \o files, 12, 12)
        /\ Has(first \o files, "loader") /\ Has(first \o files, "mbr")
    BY <2>4, <2>5, JoinPlanned
  <2> DEFINE front == first \o files
  <2>7. Planned(S, front, 12, 12) /\ Has(front, "loader") /\ Has(front, "mbr") /\ BootSteps = front \o last
    BY <2>2, <2>6
  <2> HIDE DEF front
  <2>8. Planned(S, front \o last, 12, 12) /\ \A y : Has(front, y) \/ Has(last, y) => Has(front \o last, y)
    BY <2>4, <2>7, JoinPlanned
  <2> QED BY <1>2, <2>4, <2>7, <2>8
<1> QED BY <1>1, <1>2

\* A list has all it needs, in the order of the stages.
Complete(steps) ==
    /\ Sorted(steps)
    /\ \A y \in {"dirs", "UninstallString", "InstallationDir", "loader", "mbr", "grub"} \cup ToServe : Has(steps, y)
    /\ Has(steps, IF bootloader = "xp" THEN "bootini" ELSE "create_entry")

LEMMA ListsComplete ==
    /\ \A kind : /\ Complete(InstallSteps(kind)) /\ Has(InstallSteps(kind), "iso")
                 /\ kind = "loop" => \A d \in Disk : Has(InstallSteps(kind), d)
                 /\ command = "cd_boot" => InstallSteps(kind) \in Seq(Writing)
                 /\ command # "cd_boot" => Has(InstallSteps(kind), "yldrd.mbr")
    /\ Complete(FixSteps) /\ Has(FixSteps, "yldrd.mbr") /\ \A d \in Disk : Has(FixSteps, d)
<1>1. ASSUME NEW kind
      PROVE  /\ Complete(InstallSteps(kind)) /\ Has(InstallSteps(kind), "iso")
             /\ kind = "loop" => \A d \in Disk : Has(InstallSteps(kind), d)
             /\ command = "cd_boot" => InstallSteps(kind) \in Seq(Writing)
             /\ command # "cd_boot" => Has(InstallSteps(kind), "yldrd.mbr")
  <2> DEFINE S == IF command = "cd_boot" THEN Writing ELSE Installs
             undo == IF command = "cd_boot" THEN <<>> ELSE UndoSteps
             disks == IF kind = "loop" THEN <<"root", "swap">> ELSE <<>>
             s1 == FileSteps \o <<"iso">>
             s2 == s1 \o KernelSteps
             s3 == s2 \o undo
             s4 == s3 \o BootSteps
             s5 == s4 \o <<"grub">>
             s6 == s5 \o disks
             made == {"dirs", "uninstaller", "UninstallString", "InstallationDir", "winboot"}
  <2>0. Writing \subseteq S /\ (command # "cd_boot" => Undoing \subseteq S) /\ (command = "cd_boot" => S = Writing)
    BY DEF Installs
  <2>1. Planned(S, undo, 10, 11) /\ (command # "cd_boot" => Has(undo, "yldrd.mbr"))
    BY <2>0, PlannedPieces, PiecesHave
  <2>2. Planned(S, disks, 14, 15) /\ (kind = "loop" => \A d \in Disk : Has(disks, d))
    BY <2>0, PlannedPieces, PiecesHave
  <2>3. InstallSteps(kind) = s6
    BY DEF InstallSteps
  <2> HIDE DEF undo, disks, S
  <2>4. /\ Planned(S, FileSteps, 1, 6) /\ Planned(S, <<"iso">>, 7, 7)
        /\ Planned(S, KernelSteps, 8, 9) /\ Planned(S, <<"grub">>, 13, 13)
    BY <2>0, PlannedPieces
  <2>5. Planned(S, s1, 1, 7) /\ (\A y \in made : Has(s1, y)) /\ Has(s1, "iso")
    <3>1. Planned(S, s1, 1, 7) /\ \A y : Has(FileSteps, y) \/ Has(<<"iso">>, y) => Has(s1, y)
      BY <2>4, JoinPlanned
    <3> QED BY <3>1, PiecesHave
  <2> HIDE DEF s1
  <2>6. Planned(S, s2, 1, 9) /\ (\A y \in made \cup {"iso", "kernel"} : Has(s2, y))
    <3>1. Planned(S, s2, 1, 9) /\ \A y : Has(s1, y) \/ Has(KernelSteps, y) => Has(s2, y)
      BY <2>4, <2>5, JoinPlanned
    <3> QED BY <2>5, <3>1, PiecesHave
  <2> HIDE DEF s2
  <2>7. Planned(S, s3, 1, 11) /\ (\A y \in made \cup {"iso", "kernel"} : Has(s3, y))
        /\ (command # "cd_boot" => Has(s3, "yldrd.mbr"))
    <3>1. Planned(S, s3, 1, 11) /\ \A y : Has(s2, y) \/ Has(undo, y) => Has(s3, y)
      BY <2>1, <2>6, JoinPlanned
    <3> QED BY <2>1, <2>6, <3>1
  <2> HIDE DEF s3
  <2> DEFINE booted == {"loader", "mbr", IF bootloader = "xp" THEN "bootini" ELSE "create_entry"}
  <2>8. Planned(S, s4, 1, 12) /\ (\A y \in made \cup {"iso", "kernel"} \cup booted : Has(s4, y))
        /\ (command # "cd_boot" => Has(s4, "yldrd.mbr"))
    <3>1. Planned(S, BootSteps, 12, 12) /\ \A y \in booted : Has(BootSteps, y)
      BY <2>0, BootPlanned
    <3>2. Planned(S, s4, 1, 12) /\ \A y : Has(s3, y) \/ Has(BootSteps, y) => Has(s4, y)
      BY <2>7, <3>1, JoinPlanned
    <3> QED BY <2>7, <3>1, <3>2
  <2> HIDE DEF s4
  <2>9. Planned(S, s5, 1, 13) /\ (\A y \in made \cup {"iso", "kernel", "grub"} \cup booted : Has(s5, y))
        /\ (command # "cd_boot" => Has(s5, "yldrd.mbr"))
    <3>1. Planned(S, s5, 1, 13) /\ \A y : Has(s4, y) \/ Has(<<"grub">>, y) => Has(s5, y)
      BY <2>4, <2>8, JoinPlanned
    <3> QED BY <2>8, <3>1, PiecesHave
  <2> HIDE DEF s5
  <2>10. Planned(S, s6, 1, 15) /\ (\A y \in made \cup {"iso", "kernel", "grub"} \cup booted : Has(s6, y))
        /\ (command # "cd_boot" => Has(s6, "yldrd.mbr")) /\ (kind = "loop" => \A d \in Disk : Has(s6, d))
    <3>1. Planned(S, s6, 1, 15) /\ \A y : Has(s5, y) \/ Has(disks, y) => Has(s6, y)
      BY <2>2, <2>9, JoinPlanned
    <3> QED BY <2>2, <2>9, <3>1
  <2> HIDE DEF s6
  <2>11. Complete(s6)
    BY <2>10 DEF Complete, ToServe, Planned
  <2> QED BY <2>0, <2>3, <2>10, <2>11 DEF Planned
<1>2. Complete(FixSteps) /\ Has(FixSteps, "yldrd.mbr") /\ \A d \in Disk : Has(FixSteps, d)
  <2> DEFINE s1 == FileSteps \o KernelSteps
             s2 == s1 \o UndoSteps
             s3 == s2 \o BootSteps
             s4 == s3 \o <<"grub", "root", "swap">>
             made == {"dirs", "uninstaller", "UninstallString", "InstallationDir", "winboot"}
             booted == {"loader", "mbr", IF bootloader = "xp" THEN "bootini" ELSE "create_entry"}
  <2>0. Writing \subseteq Installs /\ Undoing \subseteq Installs
    BY DEF Installs
  <2>1. FixSteps = s4
    BY DEF FixSteps
  <2>2. Planned(Installs, s1, 1, 9) /\ (\A y \in made : Has(s1, y)) /\ Has(s1, "kernel")
    <3>1. Planned(Installs, FileSteps, 1, 6) /\ Planned(Installs, KernelSteps, 8, 9)
      BY <2>0, PlannedPieces
    <3>2. Planned(Installs, s1, 1, 9) /\ \A y : Has(FileSteps, y) \/ Has(KernelSteps, y) => Has(s1, y)
      BY <3>1, JoinPlanned
    <3> QED BY <3>2, PiecesHave
  <2> HIDE DEF s1
  <2>3. Planned(Installs, s2, 1, 11) /\ (\A y \in made : Has(s2, y)) /\ Has(s2, "kernel") /\ Has(s2, "yldrd.mbr")
    <3>1. Planned(Installs, UndoSteps, 10, 11)
      BY <2>0, PlannedPieces
    <3>2. Planned(Installs, s2, 1, 11) /\ \A y : Has(s1, y) \/ Has(UndoSteps, y) => Has(s2, y)
      BY <2>2, <3>1, JoinPlanned
    <3> QED BY <2>2, <3>2, PiecesHave
  <2> HIDE DEF s2
  <2>4. Planned(Installs, s3, 1, 12) /\ (\A y \in made \cup booted : Has(s3, y)) /\ Has(s3, "kernel")
        /\ Has(s3, "yldrd.mbr")
    <3>1. Planned(Installs, BootSteps, 12, 12) /\ \A y \in booted : Has(BootSteps, y)
      BY <2>0, BootPlanned
    <3>2. Planned(Installs, s3, 1, 12) /\ \A y : Has(s2, y) \/ Has(BootSteps, y) => Has(s3, y)
      BY <2>3, <3>1, JoinPlanned
    <3> QED BY <2>3, <3>1, <3>2
  <2> HIDE DEF s3
  <2>5. Planned(Installs, s4, 1, 15) /\ (\A y \in made \cup booted : Has(s4, y)) /\ Has(s4, "kernel")
        /\ Has(s4, "yldrd.mbr") /\ Has(s4, "grub") /\ \A d \in Disk : Has(s4, d)
    <3>1. Planned(Installs, <<"grub", "root", "swap">>, 13, 15)
      BY <2>0, PlannedPieces
    <3>2. Planned(Installs, s4, 1, 15) /\ \A y : Has(s3, y) \/ Has(<<"grub", "root", "swap">>, y) => Has(s4, y)
      BY <2>4, <3>1, JoinPlanned
    <3> QED BY <2>4, <3>2, PiecesHave
  <2> HIDE DEF s4
  <2> QED BY <2>1, <2>5 DEF Complete, ToServe, Planned
<1> QED BY <1>1, <1>2

-----------------------------------------------------------------------------
(* A list goes on                                                           *)

\* The list goes on: what was to be done is done or still to be done.
Onward ==
    /\ Plan'
    /\ \A y : Has(todo, y) => y = Head(todo) \/ Has(todo', y)
    /\ Early' => Early

LEMMA SortedTail ==
    ASSUME NEW S, NEW s \in Seq(S), s # <<>>, Sorted(s)
    PROVE  /\ Sorted(Tail(s))
           /\ \A i \in 1 .. Len(Tail(s)) : Stage(Head(s)) <= Stage(Tail(s)[i])
           /\ \A i \in 1 .. Len(Tail(s)) : \E j \in 1 .. Len(s) : Tail(s)[i] = s[j]
           /\ \A y : Has(s, y) => y = Head(s) \/ Has(Tail(s), y)
<1>1. /\ Len(s) \in Nat \ {0} /\ Head(s) = s[1] /\ Len(Tail(s)) = Len(s) - 1
      /\ \A i \in 1 .. Len(s) - 1 : Tail(s)[i] = s[i + 1]
  BY TailOf
<1>2. ASSUME NEW i \in 1 .. Len(Tail(s)), NEW j \in 1 .. Len(Tail(s)), i < j
      PROVE  Stage(Tail(s)[i]) <= Stage(Tail(s)[j])
  <2>1. i + 1 \in 1 .. Len(s) /\ j + 1 \in 1 .. Len(s) /\ i + 1 < j + 1
    BY <1>1, <1>2
  <2>2. Stage(s[i + 1]) <= Stage(s[j + 1])
    BY <2>1 DEF Sorted
  <2> QED BY <1>1, <2>2
<1>3. ASSUME NEW i \in 1 .. Len(Tail(s))
      PROVE  Stage(Head(s)) <= Stage(Tail(s)[i]) /\ \E j \in 1 .. Len(s) : Tail(s)[i] = s[j]
  <2>1. i + 1 \in 1 .. Len(s) /\ 1 \in 1 .. Len(s) /\ 1 < i + 1
    BY <1>1, <1>3
  <2>2. Stage(s[1]) <= Stage(s[i + 1]) /\ Tail(s)[i] = s[i + 1]
    BY <1>1, <2>1 DEF Sorted
  <2> QED BY <1>1, <2>1, <2>2
<1>4. ASSUME NEW y, Has(s, y), y # Head(s) PROVE Has(Tail(s), y)
  <2>1. PICK i \in 1 .. Len(s) : s[i] = y
    BY <1>4 DEF Has
  <2>2. i # 1
    BY <1>1, <1>4, <2>1
  <2>3. i - 1 \in 1 .. Len(s) - 1 /\ (i - 1) + 1 = i
    BY <1>1, <2>2
  <2>4. Tail(s)[i - 1] = y
    BY <1>1, <2>1, <2>3
  <2> QED BY <1>1, <2>3, <2>4 DEF Has
<1> QED BY <1>2, <1>3, <1>4 DEF Sorted

LEMMA TailOfPlan ==
    ASSUME ListOK, Plan, pc = "tasks", todo # <<>>, todo' = Tail(todo),
           UNCHANGED <<job, command, flag, bootloader>>
    PROVE  Onward
<1>1. todo \in Seq(Allowed) /\ Sorted(todo)
  BY DEF ListOK, Plan
<1>2. Required' = Required
  BY DEF Required, Flavour
<1>3. /\ Sorted(todo')
      /\ \A i \in 1 .. Len(todo') : Stage(Head(todo)) <= Stage(todo'[i])
      /\ \A i \in 1 .. Len(todo') : \E j \in 1 .. Len(todo) : todo'[i] = todo[j]
      /\ \A y : Has(todo, y) => y = Head(todo) \/ Has(todo', y)
  BY <1>1, SortedTail
<1>4. /\ Len(todo) \in Nat \ {0} /\ Head(todo) = todo[1] /\ Len(todo') = Len(todo) - 1
      /\ todo' # <<>> => Head(todo') = todo'[1] /\ Len(todo') \in Nat \ {0}
  BY <1>1, TailOf, EmptySeq
<1>5. todo' # <<>> => Stage(Head(todo)) <= Stage(Head(todo'))
  <2>1. todo' # <<>> => 1 \in 1 .. Len(todo')
    BY <1>4
  <2> QED BY <1>3, <1>4, <2>1
<1>6. \A y : Stage(y) \in Nat
  BY Stages
<1>7. ASSUME todo' # <<>>, NEW y \in Required, Stage(Head(todo')) < Stage(y)
      PROVE  Has(todo', y)
  <2>1. Stage(Head(todo)) < Stage(y)
    BY <1>5, <1>6, <1>7
  <2>2. Has(todo, y) /\ y # Head(todo)
    BY <1>6, <1>7, <2>1 DEF Plan
  <2> QED BY <1>3, <2>2
<1>8. ASSUME NEW i \in 1 .. Len(todo'), Stage(todo'[i]) = 10
      PROVE  Has(todo', "yldrd.mbr")
  <2>1. Has(todo, "yldrd.mbr")
    BY <1>3, <1>8 DEF Plan
  <2>2. Stage(Head(todo)) <= 10
    BY <1>3, <1>8
  <2>3. Head(todo) # "yldrd.mbr"
    BY <2>2, Stages
  <2> QED BY <1>3, <2>1, <2>3
<1>9. Plan'
  BY <1>2, <1>3, <1>7, <1>8 DEF Plan
<1>10. Early' => Early
  BY <1>5, <1>6 DEF Early
<1> QED BY <1>3, <1>9, <1>10 DEF Onward

LEMMA MoreOfPlan ==
    ASSUME ListOK, Plan, pc = "tasks", todo # <<>>,
           NEW p \in Seq(Writing), p # <<>>, todo' = p \o Tail(todo),
           NEW b \in 12 .. 15, Stage(Head(todo)) = b, Planned(Writing, p, b, b),
           UNCHANGED <<job, command, flag, bootloader>>
    PROVE  Onward
<1>1. todo \in Seq(Allowed) /\ Sorted(todo)
  BY DEF ListOK, Plan
<1>2. Required' = Required
  BY DEF Required, Flavour
<1> DEFINE rest == Tail(todo)
<1>3. /\ Sorted(rest) /\ rest \in Seq(Allowed)
      /\ \A i \in 1 .. Len(rest) : Stage(Head(todo)) <= Stage(rest[i])
      /\ \A i \in 1 .. Len(rest) : \E j \in 1 .. Len(todo) : rest[i] = todo[j]
      /\ \A y : Has(todo, y) => y = Head(todo) \/ Has(rest, y)
  BY <1>1, SortedTail, TailOf
<1> DEFINE S == Writing \cup Allowed
<1>4. p \in Seq(S) /\ rest \in Seq(S)
  BY <1>3, SeqMonotonic
<1> HIDE DEF rest, S
<1>5. \A y : Stage(y) \in 1 .. 15
  BY Stages
<1>6. Planned(S, p, b, b)
  BY <1>4 DEF Planned
<1>7. Planned(S, rest, b, 15)
  <2>1. ASSUME NEW i \in 1 .. Len(rest) PROVE Stage(rest[i]) \in b .. 15
    <3>1. Stage(rest[i]) \in 1 .. 15 /\ b <= Stage(rest[i])
      BY <1>3, <1>5
    <3> QED BY <3>1
  <2> QED BY <1>3, <1>4, <2>1 DEF Planned
<1>8. todo' = p \o rest
  BY DEF rest
<1>9. Planned(S, todo', b, 15) /\ \A y : Has(p, y) \/ Has(rest, y) => Has(todo', y)
  <2>1. b \in Nat /\ 15 \in Nat /\ b <= b /\ b <= 15
    OBVIOUS
  <2>2. Planned(S, p \o rest, b, 15) /\ \A y : Has(p, y) \/ Has(rest, y) => Has(p \o rest, y)
    BY <1>6, <1>7, <2>1, JoinPlanned
  <2> QED BY <1>8, <2>2
<1>10. Stage(Head(todo')) = b
  <2>1. todo' # <<>> /\ todo'[1] = p[1] /\ Head(todo') = todo'[1]
    BY <1>4, <1>8, <1>9, FirstOfJoin, TailOf DEF Planned
  <2>2. Len(p) \in Nat \ {0}
    BY EmptySeq
  <2>3. 1 \in 1 .. Len(p)
    BY <2>2
  <2>4. Stage(p[1]) \in b .. b
    BY <1>6, <2>3 DEF Planned
  <2> QED BY <2>1, <2>4
<1>11. \A y : Has(todo, y) => y = Head(todo) \/ Has(todo', y)
  BY <1>3, <1>9
<1>12. ASSUME NEW y \in Required, Stage(Head(todo')) < Stage(y)
      PROVE  Has(todo', y)
  <2>1. Stage(Head(todo)) < Stage(y)
    BY <1>10, <1>12
  <2>2. Has(todo, y) /\ y # Head(todo)
    BY <1>5, <2>1 DEF Plan
  <2> QED BY <1>11, <2>2
<1>13. ASSUME NEW i \in 1 .. Len(todo') PROVE Stage(todo'[i]) # 10
  <2>1. Stage(todo'[i]) \in b .. 15
    BY <1>9 DEF Planned
  <2> QED BY <2>1
<1>14. Sorted(todo')
  BY <1>9 DEF Planned
<1>15. Plan'
  BY <1>2, <1>12, <1>13, <1>14 DEF Plan
<1>16. Early' => Early
  BY <1>10 DEF Early
<1> QED BY <1>11, <1>15, <1>16 DEF Onward

-----------------------------------------------------------------------------
(* What a step does for the work                                            *)

\* What step h of an installation or a fix leaves of the work, and adds to it.
Progresses(h) ==
    /\ h = "dirs" \/ "dir" \in contents[target] => "dir" \in contents'[target]
    /\ \A y \in Required \cap Item :
           h = y \/ y \in contents[target] => y \in contents'[target] \/ Stage(h) < Stage(y)
    /\ h = "UninstallString" \/ reg.exe = target => reg'.exe = target
    /\ h = "InstallationDir" \/ reg.dir = target => reg'.dir = target
    /\ h = "loader" \/ Loader \in bootfiles => Loader \in bootfiles' \/ Stage(h) < 12
    /\ h = "mbr" \/ Mbr \in bootfiles => Mbr \in bootfiles' \/ Stage(h) < 12
    /\ bootloader = "xp" =>
           (h = "bootini" \/ BootLine(Flavour) \in bootini => BootLine(Flavour) \in bootini' \/ Stage(h) < 12)
    /\ bootloader # "xp" =>
           (h = "create_entry" \/ reg.vista # None \/ Pending => reg'.vista # None \/ Pending' \/ Stage(h) < 12)

LEMMA WorkedGoesOn ==
    ASSUME Plan, Worked, Onward, todo # <<>>, Progresses(Head(todo)),
           UNCHANGED <<target, job, command, flag, bootloader>>
    PROVE  Worked'
<1> DEFINE h == Head(todo)
<1>1. Required' = Required /\ Loader' = Loader /\ Mbr' = Mbr /\ Flavour' = Flavour
  BY DEF Required, Flavour, Loader, Mbr
<1>2. \A y : Has(todo, y) => y = h \/ Has(todo', y)
  BY DEF Onward
<1>3. ASSUME NEW y \in Required, Stage(h) < Stage(y) PROVE Has(todo', y)
  <2>1. Stage(h) \in Nat
    BY Stages
  <2>2. y # h
    BY <1>3, <2>1
  <2>3. Has(todo, y)
    BY <1>3 DEF Plan
  <2> QED BY <1>2, <2>2, <2>3
<1>4. Stage("loader") = 12 /\ Stage("mbr") = 12 /\ Stage("bootini") = 12 /\ Stage("create_entry") = 12
  BY Stages
<1>5. "loader" \in Required /\ "mbr" \in Required
      /\ (bootloader = "xp" => "bootini" \in Required) /\ (bootloader # "xp" => "create_entry" \in Required)
  BY DEF Required
<1> HIDE DEF h
<1>6. Progresses(h)
  BY DEF h
<1>7. ASSUME NEW y \in Required \cap Item PROVE Has(todo', y) \/ y \in contents'[target]
  BY <1>2, <1>3, <1>6, <1>7 DEF Worked, Progresses
<1>8. Has(todo', "dirs") \/ "dir" \in contents'[target]
  BY <1>2, <1>6 DEF Worked, Progresses
<1>9. Has(todo', "UninstallString") \/ reg'.exe = target
  BY <1>2, <1>6 DEF Worked, Progresses
<1>10. Has(todo', "InstallationDir") \/ reg'.dir = target
  BY <1>2, <1>6 DEF Worked, Progresses
<1>11. Has(todo', "loader") \/ Loader \in bootfiles'
  BY <1>2, <1>3, <1>4, <1>5, <1>6 DEF Worked, Progresses
<1>12. Has(todo', "mbr") \/ Mbr \in bootfiles'
  BY <1>2, <1>3, <1>4, <1>5, <1>6 DEF Worked, Progresses
<1>13. bootloader = "xp" => Has(todo', "bootini") \/ BootLine(Flavour) \in bootini'
  BY <1>2, <1>3, <1>4, <1>5, <1>6 DEF Worked, Progresses
<1>14. bootloader # "xp" => Has(todo', "create_entry") \/ reg'.vista # None \/ Pending'
  BY <1>2, <1>3, <1>4, <1>5, <1>6 DEF Worked, Progresses
<1> QED BY <1>1, <1>7, <1>8, <1>9, <1>10, <1>11, <1>12, <1>13, <1>14 DEF Worked

\* A step of an earlier stage is not to come any more.
LEMMA NotAgain ==
    ASSUME ListOK, pc = "tasks", todo # <<>>, Sorted(todo), NEW y, Stage(y) < Stage(Head(todo))
    PROVE  ~Has(todo, y)
<1>1. Len(todo) \in Nat \ {0} /\ Head(todo) = todo[1]
  BY TailOf DEF ListOK
<1>2. ASSUME NEW i \in 1 .. Len(todo), todo[i] = y PROVE FALSE
  <2>1. Stage(y) \in Nat /\ Stage(Head(todo)) \in Nat
    BY Stages, SMTT(40)
  <2>2. i # 1
    BY <1>1, <1>2, <2>1
  <2>3. 1 \in 1 .. Len(todo) /\ 1 < i
    BY <1>1, <2>2
  <2>4. Stage(Head(todo)) <= Stage(y)
    BY <1>1, <1>2, <2>3 DEF Sorted
  <2> QED BY <2>1, <2>4
<1> QED BY <1>2 DEF Has

\* chk_bootini_entry never finds its line, whatever boot.ini holds.
LEMMA BootEntry ==
    IInv => (BootEntryFound <=> /\ bootloader = "vista" /\ {"yldr", "yldr.mbr"} \subseteq bootfiles
                                /\ reg.vista # None)
<1> SUFFICES ASSUME IInv
             PROVE  BootEntryFound <=> /\ bootloader = "vista" /\ {"yldr", "yldr.mbr"} \subseteq bootfiles
                                       /\ reg.vista # None
  OBVIOUS
<1>1. bootloader \in {"xp", "vista"} /\ bootini \subseteq {BootLine(k) : k \in Kind}
  BY BootloadersAssumption DEF IInv, Types, TypeOK
<1>2. BootLine("loop") \notin {Lower(l) : l \in bootini}
  <2>1. BootLine("loop").name = "StartOS"
    BY DEF BootLine
  <2>2. ASSUME NEW l \in bootini PROVE Lower(l).name = "startos"
    <3>1. PICK k \in Kind : l = BootLine(k)
      BY <1>1
    <3> QED BY <3>1 DEF BootLine, Lower
  <2> QED BY <2>1, <2>2
<1>3. CASE bootloader = "xp"
  BY <1>2, <1>3 DEF BootEntryFound
<1>4. CASE bootloader = "vista"
  BY <1>4 DEF BootEntryFound
<1> QED BY <1>1, <1>3, <1>4

\* What boots a full installation has the files it needs, while one is made.
LEMMA MadeIsServed ==
    IInv /\ Creates /\ Working /\ BootEntryFound => target \in Loop /\ ToServe \subseteq contents[target]
<1> SUFFICES ASSUME IInv, Creates, Working, BootEntryFound
             PROVE  target \in Loop /\ ToServe \subseteq contents[target]
  OBVIOUS
<1>1. ~Early /\ pc = "tasks" /\ ListOK /\ Plan /\ Worked
  BY DEF Working, Creates, IInv
<1>2. \A y \in ToServe \cup {"yldrd.mbr"} : Stage(y) < 12
  BY Stages DEF ToServe
<1>3. \A y : Stage(y) \in Nat
  BY Stages
<1>4. ASSUME NEW y \in ToServe \cup {"yldrd.mbr"} PROVE ~Has(todo, y)
  <2>1. CASE todo = <<>>
    BY <2>1 DEF Has
  <2>2. CASE todo # <<>>
    <3>1. ~(Stage(Head(todo)) < 12)
      BY <1>1, <2>2 DEF Early
    <3>2. Stage(y) < Stage(Head(todo))
      BY <1>2, <1>3, <3>1
    <3> QED BY <1>1, <2>2, <3>2, NotAgain DEF Plan
  <2> QED BY <2>1, <2>2
<1>5. ToServe \subseteq contents[target]
  <2>1. ToServe \subseteq Required \cap Item
    BY Sets DEF ToServe, Required
  <2> QED BY <1>1, <1>4, <2>1 DEF Worked
<1>6. Flavour = "loop"
  <2>1. bootfiles \subseteq {Loader, Mbr} /\ "yldr" \in bootfiles
    BY <1>4, BootEntry DEF Working, OnlyOurs
  <2> QED BY <2>1 DEF Loader, Mbr
<1> QED BY <1>5, <1>6 DEF Working

-----------------------------------------------------------------------------
(* The steps in the target directory                                        *)

LEMMA WorkGoesOn ==
    ASSUME IInv, IInv', Work, Creates, todo # <<>>, Onward, Progresses(Head(todo)), SizedDisks',
           UNCHANGED <<pc, command, before, flag, target, job, bootloader>>,
           Head(todo) = "yldrd.mbr" \/ OnlyOurs => OnlyOurs' \/ Stage(Head(todo)) = 10,
           Early /\ ~BootEntryFound => ~BootEntryFound',
           \A p \in Place : p # target => contents'[p] = contents[p],
           reg'.dir = None => Unbooted'
    PROVE  Work'
<1>1. Creates' /\ pc = "tasks" /\ job # "uninstall"
  BY DEF Creates
<1>2. Plan /\ Worked /\ (Has(todo, "yldrd.mbr") \/ OnlyOurs) /\ (Early => ~BootEntryFound)
      /\ (target \in Loop => \A p \in Loop : p # target => contents[p] = {})
      /\ (Flavour = "loop" => target \in Loop)
  BY DEF Work, Working
<1>3. Plan' /\ Worked'
  BY <1>2, WorkedGoesOn DEF Onward
<1>4. Has(todo', "yldrd.mbr") \/ OnlyOurs'
  <2>1. ASSUME Stage(Head(todo)) = 10 PROVE Has(todo', "yldrd.mbr")
    <3>1. /\ Len(todo) \in Nat \ {0} /\ Head(todo) = todo[1]
      BY <1>1, TailOf DEF IInv, ListOK
    <3>2. Has(todo, "yldrd.mbr") /\ Head(todo) # "yldrd.mbr"
      BY <1>2, <2>1, <3>1, Stages DEF Plan
    <3> QED BY <3>2 DEF Onward
  <2>2. CASE OnlyOurs
    BY <2>1, <2>2
  <2>3. CASE Has(todo, "yldrd.mbr")
    BY <2>1, <2>3 DEF Onward
  <2> QED BY <1>2, <2>2, <2>3
<1>5. Early' => ~BootEntryFound'
  BY <1>2 DEF Onward
<1>6. Loop \subseteq Place
  BY DEF Loop
<1>7. /\ target \in Loop => \A p \in Loop : p # target => contents'[p] = {}
      /\ Flavour' = Flavour
  BY <1>2, <1>6 DEF Flavour
<1>8. Working'
  BY <1>2, <1>3, <1>4, <1>5, <1>7 DEF Working
<1>9. Walking'
  BY <1>1 DEF Work, Walking
<1>10. ASSUME NEW p \in Loop, NEW q \in Loop, contents'[p] # {}, contents'[q] # {} PROVE p = q
  <2>1. CASE target \in Loop
    BY <1>7, <1>10, <2>1
  <2>2. CASE target \notin Loop
    BY <1>6, <1>10, <2>2 DEF Work, Hosting
  <2> QED BY <2>1, <2>2
<1>11. BootEntryFound' => \E p \in Loop : ToServe \subseteq contents'[p]
  <2>1. IInv' /\ Creates' /\ Working' /\ BootEntryFound' => (target \in Loop /\ ToServe \subseteq contents[target])'
    BY MadeIsServed, PTL
  <2> QED BY <1>1, <1>8, <2>1
<1>12. Hosting'
  BY <1>10, <1>11 DEF Hosting
<1> QED BY <1>8, <1>9, <1>12 DEF Work

\* A step of an installation or a fix is done.
LEMMA OneStep ==
    ASSUME IInv, Work, NEW h, Doing(h), Done, job # "uninstall"
    PROVE  /\ pc = "tasks" /\ todo # <<>> /\ h = Head(todo) /\ Creates /\ ReadyFor(h) /\ Onward
           /\ UNCHANGED <<pc, command, before, flag, target, job, bootloader, runs>>
           /\ Loader' = Loader /\ Mbr' = Mbr /\ Flavour' = Flavour
           /\ target \in Place /\ contents \in [Place -> SUBSET Item]
           /\ reg \in [dir : PlaceOrNone, exe : PlaceOrNone, vista : Id \cup {None}]
           /\ todo' # <<>> => Head(todo') # "set_entry" /\ (h # "set_entry" => Head(todo') # "record_entry")
           /\ Stage(h) > 4 => reg.dir # None
<1>1. /\ pc = "tasks" /\ todo # <<>> /\ h = Head(todo) /\ ReadyFor(h)
      /\ UNCHANGED <<pc, command, flag, target, job, bootloader, runs>>
      /\ todo' # <<>> => Chained(h, Head(todo'))
      /\ todo' = Tail(todo) /\ UNCHANGED before
  BY AfterStep DEF Done, proc, Doing
<1>2. Creates /\ Plan /\ Worked
  BY <1>1 DEF Creates, Work, Working
<1>3. Onward
  BY <1>1, <1>2, TailOfPlan DEF IInv
<1>4. target \in Place /\ contents \in [Place -> SUBSET Item]
      /\ reg \in [dir : PlaceOrNone, exe : PlaceOrNone, vista : Id \cup {None}]
  BY <1>1 DEF IInv, Types, TypeOK
<1>5. todo' # <<>> => Head(todo') # "set_entry" /\ (h # "set_entry" => Head(todo') # "record_entry")
  BY <1>1 DEF Chained
<1>6. ASSUME Stage(h) > 4 PROVE reg.dir # None
  <2>1. Stage("InstallationDir") = 4
    BY Stages
  <2>2. Stage("InstallationDir") < Stage(Head(todo))
    BY <1>1, <1>6, <2>1
  <2>3. ~Has(todo, "InstallationDir")
    BY <1>1, <1>2, <2>2, NotAgain DEF IInv, Plan
  <2>4. reg.dir = target
    BY <1>2, <2>3 DEF Worked
  <2> QED BY <1>4, <2>4, NoneAssumption
<1>7. Loader' = Loader /\ Mbr' = Mbr /\ Flavour' = Flavour
  BY <1>1 DEF Loader, Mbr, Flavour
<1> QED BY <1>1, <1>2, <1>3, <1>4, <1>5, <1>6, <1>7

\* What boots the machine stays.
LEMMA BootStays ==
    ASSUME Work, UNCHANGED <<bcd, bootini, bootfiles, bootloader, command, flag, target>>,
           reg'.vista = reg.vista, reg'.dir = None => reg.dir = None,
           todo' # <<>> => Head(todo') \notin {"set_entry", "record_entry"}
    PROVE  /\ OnlyOurs => OnlyOurs'
           /\ BootEntryFound' = BootEntryFound
           /\ reg'.dir = None => Unbooted'
<1>1. Loader' = Loader /\ Mbr' = Mbr /\ Flavour' = Flavour
  BY DEF Loader, Mbr, Flavour
<1>2. OnlyOurs => OnlyOurs'
  BY <1>1 DEF OnlyOurs
<1>3. BootEntryFound' = BootEntryFound
  BY DEF BootEntryFound
<1>4. reg'.dir = None => Unbooted'
  BY DEF Work, Hosting, Unbooted
<1> QED BY <1>2, <1>3, <1>4

\* Steps that put something into the target directory, or take it out.
LEMMA ContentsWork ==
    ASSUME IInv, IInv', Work, NEW h \in Plain \ {"UninstallString", "InstallationDir", "bootini", "create_entry", "record_entry"},
           Doing(h), Done, UNCHANGED <<reg, bcd, bootini, bootfiles, lost>>,
           NEW S \in SUBSET Item, contents' = [contents EXCEPT ![target] = S],
           h = "dirs" \/ "dir" \in contents[target] => "dir" \in S,
           \A y \in Required \cap Item : h = y \/ y \in contents[target] => y \in S \/ Stage(h) < Stage(y),
           SizedDisks'
    PROVE  Work'
<1>1. job # "uninstall"
  BY AfterStep DEF Allowed, Plain, Writing, Uninstalls, Undoing, Removing
<1>2. /\ pc = "tasks" /\ todo # <<>> /\ h = Head(todo) /\ Creates /\ Onward
      /\ UNCHANGED <<pc, command, before, flag, target, job, bootloader, runs>>
      /\ target \in Place /\ contents \in [Place -> SUBSET Item]
      /\ todo' # <<>> => Head(todo') # "set_entry" /\ (h # "set_entry" => Head(todo') # "record_entry")
  BY <1>1, OneStep
<1>3. h \notin {"set_entry", "record_entry", "UninstallString", "InstallationDir", "loader", "mbr", "bootini",
                "create_entry", "yldrd.mbr"}
  BY DEF Plain, Writing
<1>4. contents'[target] = S /\ \A p \in Place : p # target => contents'[p] = contents[p]
  BY <1>2
<1>5. ~Pending
  BY <1>2, <1>3 DEF Pending
<1>6. Progresses(h)
  BY <1>3, <1>4, <1>5 DEF Progresses
<1>7. /\ OnlyOurs => OnlyOurs'
      /\ BootEntryFound' = BootEntryFound
      /\ reg'.dir = None => Unbooted'
  BY <1>2, <1>3, BootStays
<1> QED BY <1>2, <1>3, <1>4, <1>6, <1>7, WorkGoesOn

LEMMA AddsWork ==
    ASSUME IInv, IInv', Work,
           NEW h \in {"dirs", "uninstaller", "winboot", "iso", "kernel", "grub", "root_size", "swap_size"},
           NEW item \in Item, Adds(h, item), item = IF h = "dirs" THEN "dir" ELSE h
    PROVE  Work'
<1> DEFINE S == contents[target] \cup {item}
<1>1. /\ Doing(h) /\ Done /\ contents' = [contents EXCEPT ![target] = @ \cup {item}]
      /\ UNCHANGED <<reg, bcd, bootini, bootfiles, lost>>
  BY DEF Adds
<1>2. h \in Plain \ {"UninstallString", "InstallationDir", "bootini", "create_entry", "record_entry"}
  BY DEF Plain, Writing
<1>3. job # "uninstall"
  BY <1>1, <1>2, AfterStep DEF Allowed, Plain, Writing, Uninstalls, Undoing, Removing
<1>4. /\ target \in Place /\ contents \in [Place -> SUBSET Item] /\ h = Head(todo) /\ Creates
      /\ UNCHANGED <<command, flag, target, job>> /\ Flavour' = Flavour
  BY <1>1, <1>3, OneStep
<1>5. S \in SUBSET Item /\ contents' = [contents EXCEPT ![target] = S] /\ contents'[target] = S
  BY <1>1, <1>4
<1>6. h = "dirs" \/ "dir" \in contents[target] => "dir" \in S
  OBVIOUS
<1>7. \A y \in Required \cap Item : h = y \/ y \in contents[target] => y \in S
  BY Sets
<1>8. SizedDisks'
  <2>1. SizedDisks
    BY <1>4 DEF Work, Working
  <2>2. ASSUME job = "install", Flavour = "loop", NEW d \in Disk, d \in S
        PROVE  SizeOf(d) \in S
    BY <1>4, <2>1, <2>2, Sets DEF SizedDisks
  <2> QED BY <1>4, <1>5, <2>2 DEF SizedDisks
<1> HIDE DEF S
<1> QED BY <1>1, <1>2, <1>5, <1>6, <1>7, <1>8, ContentsWork

LEMMA DropsWork ==
    ASSUME IInv, IInv', Work,
           NEW h, NEW item,
           (h = "rmtree_winboot" /\ item = "winboot") \/ (h = "unlink_kernel" /\ item = "kernel"),
           Drops(h, item)
    PROVE  Work'
<1> DEFINE S == contents[target] \ {item}
<1>0. (h = "rmtree_winboot" /\ item = "winboot") \/ (h = "unlink_kernel" /\ item = "kernel")
  OBVIOUS
<1>1. /\ Doing(h) /\ Done /\ contents' = [contents EXCEPT ![target] = @ \ {item}]
      /\ UNCHANGED <<reg, bcd, bootini, bootfiles, lost>>
  BY DEF Drops
<1>2. h \in Plain \ {"UninstallString", "InstallationDir", "bootini", "create_entry", "record_entry"}
  BY <1>0 DEF Plain, Writing
<1>3. job # "uninstall"
  BY <1>1, <1>2, AfterStep DEF Allowed, Plain, Writing, Uninstalls, Undoing, Removing
<1>4. /\ target \in Place /\ contents \in [Place -> SUBSET Item] /\ h = Head(todo) /\ Creates
      /\ UNCHANGED <<command, flag, target, job>> /\ Flavour' = Flavour
  BY <1>1, <1>3, OneStep
<1>5. S \in SUBSET Item /\ contents' = [contents EXCEPT ![target] = S] /\ contents'[target] = S
  BY <1>1, <1>4
<1>6. h = "dirs" \/ "dir" \in contents[target] => "dir" \in S
  BY <1>0
<1>7. \A y \in Required \cap Item : h = y \/ y \in contents[target] => y \in S \/ Stage(h) < Stage(y)
  <2>1. Stage(h) < Stage(item)
    BY <1>0, Stages
  <2>2. h \notin Item
    BY <1>0, Sets
  <2> QED BY <2>1, <2>2
<1>8. SizedDisks'
  <2>1. SizedDisks
    BY <1>4 DEF Work, Working
  <2>2. ASSUME job = "install", Flavour = "loop", NEW d \in Disk, d \in S
        PROVE  SizeOf(d) \in S
    BY <1>0, <1>4, <2>1, <2>2, Sets DEF SizedDisks
  <2> QED BY <1>4, <1>5, <2>2 DEF SizedDisks
<1> HIDE DEF S
<1> QED BY <1>1, <1>2, <1>5, <1>6, <1>7, <1>8, ContentsWork

-----------------------------------------------------------------------------
(* The steps on the registry and the boot loader                            *)

\* The target directory is left as it is.
LEMMA SameContents ==
    ASSUME Work, Creates, todo # <<>>, Head(todo) \notin Sized, contents' = contents,
           UNCHANGED <<job, target, command, flag>>
    PROVE  SizedDisks'
<1>1. Flavour' = Flavour /\ SizedDisks
  BY DEF Flavour, Work, Working
<1>2. \A d \in Disk : SizeOf(d) \in Sized
  BY DEF Sized
<1> QED BY <1>1, <1>2 DEF SizedDisks

\* A step that leaves the directories alone and keeps or adds to the rest.
LEMMA HostWork ==
    ASSUME IInv, IInv', Work, NEW h \in Installs \ (Item \cup {"dirs"}), Doing(h), Done, job # "uninstall",
           contents' = contents,
           h = "UninstallString" \/ reg.exe = target => reg'.exe = target,
           h = "InstallationDir" \/ reg.dir = target => reg'.dir = target,
           reg'.dir = None => reg.dir = None,
           Stage(h) < 12 \/ bootfiles \subseteq bootfiles',
           h = "loader" => Loader \in bootfiles', h = "mbr" => Mbr \in bootfiles',
           Stage(h) < 12 \/ bootini \subseteq bootini',
           h = "bootini" => BootLine(Flavour) \in bootini',
           bootloader # "xp" =>
               (h = "create_entry" \/ reg.vista # None \/ Pending => reg'.vista # None \/ Pending' \/ Stage(h) < 12),
           h = "yldrd.mbr" \/ OnlyOurs => OnlyOurs' \/ Stage(h) = 10,
           Stage(h) < 12 => bootfiles' \subseteq bootfiles /\ bootini' \subseteq bootini
                            /\ reg'.vista \in {reg.vista, None}
    PROVE  Work'
<1>1. /\ pc = "tasks" /\ todo # <<>> /\ h = Head(todo) /\ Creates /\ Onward
      /\ UNCHANGED <<pc, command, before, flag, target, job, bootloader, runs>>
      /\ Stage(h) > 4 => reg.dir # None
  BY OneStep
<1>2. /\ h \notin Item /\ h # "dirs" /\ h \notin Sized
  BY Sets
<1>3. Progresses(h)
  BY <1>2 DEF Progresses
<1>4. SizedDisks'
  BY <1>1, <1>2, SameContents
<1>5. Stage(h) \in Nat
  BY Stages
<1>6. Early /\ ~BootEntryFound => ~BootEntryFound'
  <2>1. IInv' => (BootEntryFound <=> /\ bootloader = "vista" /\ {"yldr", "yldr.mbr"} \subseteq bootfiles
                                     /\ reg.vista # None)'
    BY BootEntry, PTL
  <2>2. ASSUME Early PROVE BootEntryFound' => BootEntryFound
    BY <1>1, <2>1, <2>2, BootEntry DEF Early
  <2> QED BY <2>2
<1>7. reg'.dir = None => Unbooted'
  <2>1. ASSUME reg'.dir = None PROVE Stage(h) < 12 /\ Unbooted
    BY <1>1, <1>5, <2>1 DEF Work, Hosting
  <2> QED BY <2>1 DEF Unbooted
<1> QED BY <1>1, <1>3, <1>4, <1>6, <1>7, WorkGoesOn

LEMMA NameWork == ASSUME IInv, IInv', Work, SetUninstallString \/ SetInstallationDir PROVE Work'
<1>1. PICK h \in {"UninstallString", "InstallationDir"} :
          SetRegistry(h, IF h = "UninstallString" THEN [reg EXCEPT !.exe = target] ELSE [reg EXCEPT !.dir = target])
  BY DEF SetUninstallString, SetInstallationDir
<1>2. /\ Doing(h) /\ Done /\ UNCHANGED <<contents, bcd, bootini, bootfiles, lost>>
      /\ reg' = IF h = "UninstallString" THEN [reg EXCEPT !.exe = target] ELSE [reg EXCEPT !.dir = target]
  BY <1>1 DEF SetRegistry
<1>3. job # "uninstall"
  BY <1>2, AfterStep DEF Allowed, Uninstalls, Undoing, Removing
<1>4. /\ target \in Place /\ reg \in [dir : PlaceOrNone, exe : PlaceOrNone, vista : Id \cup {None}]
      /\ UNCHANGED <<command, flag, target, bootloader>> /\ h = Head(todo)
      /\ todo' # <<>> => Head(todo') # "set_entry" /\ (h # "set_entry" => Head(todo') # "record_entry")
  BY <1>2, <1>3, OneStep
<1>5. /\ reg'.vista = reg.vista
      /\ h = "UninstallString" \/ reg.exe = target => reg'.exe = target
      /\ h = "InstallationDir" \/ reg.dir = target => reg'.dir = target
      /\ reg'.dir = None => reg.dir = None
  BY <1>2, <1>4, NoneAssumption
<1>6. OnlyOurs => OnlyOurs'
  BY <1>2, <1>4, <1>5, BootStays
<1>7. h \in Installs \ (Item \cup {"dirs"})
  BY Sets DEF Installs, Writing
<1>8. ~Pending
  BY <1>4 DEF Pending
<1> QED BY <1>2, <1>3, <1>5, <1>6, <1>7, <1>8, HostWork

LEMMA RecordWork == ASSUME IInv, IInv', Work, RecordEntry PROVE Work'
<1> DEFINE h == "record_entry"
<1>1. /\ Doing(h) /\ Done /\ UNCHANGED <<contents, bcd, bootini, bootfiles, lost>>
      /\ reg' = [reg EXCEPT !.vista = runs]
  BY DEF RecordEntry, SetRegistry
<1>2. job # "uninstall"
  BY <1>1, AfterStep DEF Allowed, Uninstalls, Undoing, Removing
<1>3. /\ reg \in [dir : PlaceOrNone, exe : PlaceOrNone, vista : Id \cup {None}]
      /\ UNCHANGED <<target, command, flag>> /\ h = Head(todo) /\ todo # <<>> /\ pc = "tasks"
      /\ Loader' = Loader /\ Mbr' = Mbr /\ Flavour' = Flavour
      /\ todo' # <<>> => Head(todo') # "set_entry" /\ (h # "set_entry" => Head(todo') # "record_entry")
  BY <1>1, <1>2, OneStep
<1>4. reg'.vista = runs /\ reg'.dir = reg.dir /\ reg'.exe = reg.exe /\ runs # None
  BY <1>1, <1>3, RegTypes DEF IInv
<1>5. OnlyOurs => OnlyOurs'
  BY <1>1, <1>3, <1>4 DEF OnlyOurs
<1>6. h \in Installs \ (Item \cup {"dirs"}) /\ Stage(h) = 12
  BY Sets, Stages DEF Installs, Writing
<1> QED BY <1>1, <1>2, <1>4, <1>5, <1>6, HostWork

LEMMA UndoneWork ==
    ASSUME IInv, IInv', Work, job # "uninstall", NEW h \in Undoing, Doing(h), Done, contents' = contents,
           reg'.exe = reg.exe, reg'.dir = reg.dir, reg'.vista \in {reg.vista, None},
           bootfiles' \subseteq bootfiles, bootini' \subseteq bootini,
           h = "yldrd.mbr" => bootfiles' = bootfiles \ {h} /\ UNCHANGED <<reg, bootini>>
    PROVE  Work'
<1>1. /\ h = Head(todo) /\ ReadyFor(h) /\ UNCHANGED <<target, command, flag>>
      /\ todo' # <<>> => Head(todo') # "set_entry" /\ (h # "set_entry" => Head(todo') # "record_entry")
  BY OneStep
<1>2. Stage(h) < 12 /\ (h # "yldrd.mbr" => Stage(h) = 10) /\ h \in Installs \ (Item \cup {"dirs"})
      /\ h \notin {"UninstallString", "InstallationDir", "loader", "mbr", "bootini", "set_entry"}
  BY Sets, Stages DEF Undoing, Installs
<1>3. ASSUME h = "yldrd.mbr" PROVE OnlyOurs'
  <2>1. reg.vista = None /\ bootini = {} /\ bootfiles \cap {"yldr", "yldr.mbr", "yldrd"} = {}
    BY <1>1, <1>3 DEF ReadyFor, Unlinking
  <2>2. bootfiles \subseteq {"yldr", "yldr.mbr", "yldrd", "yldrd.mbr"}
    BY Sets DEF IInv, Types, TypeOK, Unlinking
  <2>3. bootfiles' = {} /\ reg'.vista = None /\ bootini' = {}
    BY <1>3, <2>1, <2>2
  <2> QED BY <1>1, <1>2, <2>3 DEF OnlyOurs
<1> QED BY <1>2, <1>3, HostWork

LEMMA CopyWork == ASSUME IInv, IInv', Work, CopyBootFile PROVE Work'
<1>1. PICK h \in {"loader", "mbr"} : Doing(h) /\ bootfiles' = bootfiles \cup {IF h = "loader" THEN Loader ELSE Mbr}
  BY DEF CopyBootFile
<1>2. Done /\ UNCHANGED <<contents, reg, bcd, bootini, lost>>
  BY DEF CopyBootFile
<1>3. job # "uninstall"
  BY <1>1, <1>2, AfterStep DEF Allowed, Uninstalls, Undoing, Removing
<1>4. /\ UNCHANGED <<target, command, flag>> /\ h = Head(todo)
      /\ Loader' = Loader /\ Mbr' = Mbr /\ Flavour' = Flavour
      /\ todo' # <<>> => Head(todo') # "set_entry" /\ (h # "set_entry" => Head(todo') # "record_entry")
  BY <1>1, <1>2, <1>3, OneStep
<1>5. OnlyOurs => OnlyOurs'
  BY <1>1, <1>2, <1>4 DEF OnlyOurs
<1>6. h \in Installs \ (Item \cup {"dirs"}) /\ Stage(h) = 12
  BY Sets, Stages DEF Installs, Writing
<1>7. ~Pending
  BY <1>4 DEF Pending
<1> QED BY <1>1, <1>2, <1>3, <1>5, <1>6, <1>7, HostWork

LEMMA BootiniWork == ASSUME IInv, IInv', Work, ModifyBootini PROVE Work'
<1> DEFINE h == "bootini"
<1>1. Doing(h) /\ Done /\ bootini' = bootini \cup {BootLine(Flavour)} /\ UNCHANGED <<contents, reg, bcd, bootfiles, lost>>
  BY DEF ModifyBootini
<1>2. job # "uninstall"
  BY <1>1, AfterStep DEF Allowed, Uninstalls, Undoing, Removing
<1>3. /\ UNCHANGED <<target, command, flag>> /\ h = Head(todo)
      /\ Loader' = Loader /\ Mbr' = Mbr /\ Flavour' = Flavour
      /\ todo' # <<>> => Head(todo') # "set_entry" /\ (h # "set_entry" => Head(todo') # "record_entry")
  BY <1>1, <1>2, OneStep
<1>4. OnlyOurs => OnlyOurs'
  BY <1>1, <1>3 DEF OnlyOurs
<1>5. h \in Installs \ (Item \cup {"dirs"}) /\ Stage(h) = 12
  BY Sets, Stages DEF Installs, Writing
<1>6. ~Pending
  BY <1>3 DEF Pending
<1> QED BY <1>1, <1>2, <1>4, <1>5, <1>6, HostWork

LEMMA AlreadyWork == ASSUME IInv, IInv', Work, AlreadyModified PROVE Work'
<1> DEFINE h == "create_entry"
<1>1. Doing(h) /\ Done /\ reg.vista # None /\ UNCHANGED <<contents, reg, bcd, bootini, bootfiles, lost>>
  BY DEF AlreadyModified, host
<1>2. job # "uninstall"
  BY <1>1, AfterStep DEF Allowed, Uninstalls, Undoing, Removing
<1>3. /\ UNCHANGED <<target, command, flag>> /\ h = Head(todo)
      /\ Loader' = Loader /\ Mbr' = Mbr /\ Flavour' = Flavour
      /\ todo' # <<>> => Head(todo') # "set_entry" /\ (h # "set_entry" => Head(todo') # "record_entry")
  BY <1>1, <1>2, OneStep
<1>4. OnlyOurs => OnlyOurs'
  BY <1>1, <1>3 DEF OnlyOurs
<1>5. h \in Installs \ (Item \cup {"dirs"}) /\ Stage(h) = 12
  BY Sets, Stages DEF Installs, Writing
<1> QED BY <1>1, <1>2, <1>4, <1>5, HostWork

LEMMA DisplayWork == ASSUME IInv, IInv', Work, DisplayEntry PROVE Work'
<1> DEFINE h == "set_entry"
<1>0. PICK at \in {target, Refused} :
          bcd' = {IF e.id = runs THEN [e EXCEPT !.at = at] ELSE e : e \in bcd}
  BY DEF DisplayEntry
<1>1. /\ Doing(h) /\ Done /\ UNCHANGED <<contents, reg, bootini, bootfiles, lost>>
  BY DEF DisplayEntry
<1>2. job # "uninstall"
  BY <1>1, AfterStep DEF Allowed, Uninstalls, Undoing, Removing
<1>3. /\ UNCHANGED <<target, command, flag, runs, pc>> /\ h = Head(todo) /\ ReadyFor(h) /\ todo # <<>>
      /\ Loader' = Loader /\ Mbr' = Mbr /\ Flavour' = Flavour
      /\ todo' # <<>> => Head(todo') # "set_entry"
  BY <1>1, <1>2, OneStep
<1>4. OnlyOurs => OnlyOurs'
  <2> SUFFICES ASSUME OnlyOurs PROVE OnlyOurs'
    OBVIOUS
  <2>1. reg.vista = None
    BY <1>3 DEF ReadyFor
  <2>2. PICK e \in bcd : e.id = runs /\ e.mbr = Mbr
    BY <1>3 DEF OnlyOurs
  <2>3. e \in [id : Id, at : EntryPlace, mbr : ToSet(WinbootFile)]
    BY DEF IInv, Types, TypeOK
  <2> DEFINE f == [e EXCEPT !.at = at]
  <2>4. f \in bcd'
    BY <1>0, <2>2
  <2>5. f.id = runs /\ f.at \in {target, Refused} /\ f.mbr = Mbr
    BY <2>2, <2>3
  <2> QED BY <1>1, <1>3, <2>1, <2>4, <2>5 DEF OnlyOurs
<1>5. h \in Installs \ (Item \cup {"dirs"}) /\ Stage(h) = 12
  BY Sets, Stages DEF Installs, Writing
<1>6. Pending'
  <2>1. Len(todo) >= 2 /\ todo[2] = "record_entry"
    BY <1>3 DEF ReadyFor
  <2>2. todo \in Seq(Allowed) /\ todo' = Tail(todo) /\ pc = "tasks" /\ pc' = pc
    BY <1>1, <1>3 DEF IInv, ListOK, Done, Doing
  <2>3. Tail(todo) # <<>>
    BY <1>3, <2>1, <2>2, TailOf
  <2>4. Head(Tail(todo)) = todo[2]
    BY <1>3, <2>2, <2>3, TailOf
  <2> QED BY <2>1, <2>2, <2>3, <2>4 DEF Pending
<1> QED BY <1>1, <1>2, <1>4, <1>5, <1>6, HostWork

-----------------------------------------------------------------------------
(* The steps that take several, and those of an uninstallation              *)

LEMMA CreateWork == ASSUME IInv, IInv', Work, CreateEntry PROVE Work'
<1> DEFINE h == "create_entry"
           p == <<"set_entry", "record_entry">>
<1>1. /\ Doing(h) /\ reg.vista = None /\ bcd' = bcd \cup {[id |-> runs, at |-> None, mbr |-> Mbr]}
      /\ todo' = p \o Tail(todo)
      /\ UNCHANGED <<contents, reg, bootini, bootfiles, lost, runs, bootloader, pc, command, before, flag, target, job>>
  BY DEF CreateEntry, windows, proc
<1>2. pc = "tasks" /\ todo # <<>> /\ Head(todo) = h /\ todo \in Seq(Allowed) /\ ListOK
  BY <1>1 DEF Doing, IInv, ListOK
<1>3. job # "uninstall"
  <2>1. Head(todo) \in Allowed
    BY <1>2, TailOf
  <2> QED BY <1>2, <2>1 DEF Allowed, Uninstalls, Undoing, Removing
<1>4. p \in Seq(Writing) /\ p # <<>> /\ InOrder(p) /\ Len(p) = 2 /\ p[1] = "set_entry" /\ p[2] = "record_entry"
  BY DEF InOrder, Chained, Writing
<1>5. Planned(Writing, p, 12, 12) /\ Stage(h) = 12
  BY <1>4, Stages DEF Planned, Sorted
<1> HIDE DEF p
<1>6. Creates /\ Plan
  BY <1>2, <1>3 DEF Creates, Work, Working
<1>7. Onward
  <2>1. 12 \in 12 .. 15 /\ Stage(Head(todo)) = 12 /\ todo' = p \o Tail(todo)
        /\ UNCHANGED <<job, command, flag, bootloader>>
    BY <1>1, <1>2, <1>5
  <2> QED BY <1>2, <1>4, <1>5, <1>6, <2>1, MoreOfPlan
<1>8. todo' # <<>> /\ Head(todo') = "set_entry"
  BY <1>1, <1>2, <1>4, MoreOfList
<1>9. Pending'
  BY <1>1, <1>2, <1>8 DEF Pending
<1>10. h \notin Item /\ h \notin Sized
  BY Sets
<1>11. Progresses(h)
  BY <1>1, <1>9, <1>10 DEF Progresses
<1>12. SizedDisks'
  BY <1>1, <1>2, <1>6, <1>10, SameContents
<1>13. Loader' = Loader /\ Mbr' = Mbr /\ Flavour' = Flavour
  BY <1>1 DEF Loader, Mbr, Flavour
<1>14. OnlyOurs => OnlyOurs'
  <2> DEFINE e == [id |-> runs, at |-> None, mbr |-> Mbr]
  <2>1. e \in bcd' /\ e.id = runs /\ e.mbr = Mbr
    BY <1>1
  <2> QED BY <1>1, <1>8, <1>13, <2>1 DEF OnlyOurs
<1>15. reg'.dir = None => Unbooted'
  BY <1>1 DEF Work, Hosting, Unbooted
<1>16. ~Early
  BY <1>2, <1>5 DEF Early
<1> QED BY <1>1, <1>2, <1>6, <1>7, <1>11, <1>12, <1>14, <1>15, <1>16, WorkGoesOn

LEMMA SkipWork == ASSUME IInv, IInv', Work, SkipDisk PROVE Work'
<1>1. PICK h \in Disk : Doing(h) /\ h \in contents[target]
  BY DEF SkipDisk
<1>2. Done /\ UNCHANGED <<contents, reg, bcd, bootini, bootfiles, lost>>
  BY DEF SkipDisk, host
<1>3. h \in Plain \ {"UninstallString", "InstallationDir", "bootini", "create_entry", "record_entry"}
      /\ h # "dirs" /\ h \notin Sized
  BY Sets DEF Plain, Writing
<1>4. job # "uninstall"
  BY <1>1, <1>2, <1>3, AfterStep DEF Allowed, Plain, Writing, Uninstalls, Undoing, Removing
<1>5. /\ target \in Place /\ contents \in [Place -> SUBSET Item] /\ h = Head(todo) /\ Creates /\ todo # <<>>
      /\ UNCHANGED <<command, flag, target, job>>
  BY <1>1, <1>2, <1>4, OneStep
<1> DEFINE S == contents[target]
<1>6. S \in SUBSET Item /\ contents' = [contents EXCEPT ![target] = S]
  BY <1>2, <1>5
<1>7. h = "dirs" \/ "dir" \in contents[target] => "dir" \in S
  BY <1>3
<1>8. \A y \in Required \cap Item : h = y \/ y \in contents[target] => y \in S
  BY <1>1
<1>9. SizedDisks'
  BY <1>2, <1>3, <1>5, SameContents
<1> HIDE DEF S
<1> QED BY <1>1, <1>2, <1>3, <1>6, <1>7, <1>8, <1>9, ContentsWork

LEMMA DiskWork == ASSUME IInv, IInv', Work, CreateDisk PROVE Work'
<1>1. PICK d \in Disk :
          /\ Doing(d) /\ d \notin contents[target]
          /\ contents' = [contents EXCEPT ![target] = @ \cup {d}]
          /\ todo' = <<SizeOf(d)>> \o Tail(todo)
  BY DEF CreateDisk
<1>2. UNCHANGED <<reg, bcd, bootini, bootfiles, lost, runs, bootloader, pc, command, before, flag, target, job>>
  BY DEF CreateDisk, windows, proc
<1>3. pc = "tasks" /\ todo # <<>> /\ Head(todo) = d /\ todo \in Seq(Allowed) /\ ListOK
      /\ d \in {"root", "swap"} /\ SizeOf(d) \in {"root_size", "swap_size"}
  BY <1>1, Sets DEF Doing, IInv, ListOK
<1>4. job # "uninstall"
  <2>1. Head(todo) \in Allowed
    BY <1>3, TailOf
  <2> QED BY <1>3, <2>1 DEF Allowed, Uninstalls, Undoing, Removing
<1> DEFINE p == <<SizeOf(d)>>
           S == contents[target] \cup {d}
<1>5. p \in Seq(Writing) /\ p # <<>> /\ InOrder(p) /\ Len(p) = 1 /\ p[1] = SizeOf(d)
  BY <1>3 DEF InOrder, Writing
<1>6. PICK b \in {14, 15} : Stage(d) = b /\ Stage(SizeOf(d)) = b
  BY <1>3, Sets, Stages
<1>7. Planned(Writing, p, b, b)
  BY <1>5, <1>6 DEF Planned, Sorted
<1>8. todo' = p \o Tail(todo) /\ b \in 12 .. 15
  BY <1>1
<1> HIDE DEF p
<1>9. Creates /\ Plan /\ SizedDisks
  BY <1>3, <1>4 DEF Creates, Work, Working
<1>10. Onward
  BY <1>2, <1>3, <1>5, <1>6, <1>7, <1>8, <1>9, MoreOfPlan
<1>11. todo' # <<>> /\ Head(todo') = SizeOf(d)
  BY <1>2, <1>3, <1>5, <1>8, MoreOfList
<1>12. target \in Place /\ contents \in [Place -> SUBSET Item]
  BY <1>3, <1>4 DEF IInv, Types, TypeOK
<1>13. contents'[target] = S /\ \A q \in Place : q # target => contents'[q] = contents[q]
  BY <1>1, <1>12
<1>14. ~Pending
  BY <1>3 DEF Pending
<1>15. Progresses(d)
  BY <1>2, <1>3, <1>13, <1>14 DEF Progresses
<1>16. SizedDisks'
  <2>1. Flavour' = Flavour
    BY <1>2 DEF Flavour
  <2>2. ASSUME job = "install", Flavour = "loop", NEW f \in Disk, f \in S
        PROVE  SizeOf(f) \in S \/ f = d
    BY <1>3, <1>9, <2>2, Sets DEF SizedDisks
  <2> QED BY <1>2, <1>11, <1>13, <2>1, <2>2 DEF SizedDisks
<1>17. /\ OnlyOurs => OnlyOurs'
       /\ BootEntryFound' = BootEntryFound
       /\ reg'.dir = None => Unbooted'
  BY <1>2, <1>3, <1>11, BootStays
<1> QED BY <1>2, <1>3, <1>9, <1>10, <1>13, <1>15, <1>16, <1>17, WorkGoesOn

\* A step of an uninstallation takes away only, and the directories last.
LEMMA RemovalWork ==
    ASSUME IInv, IInv', Work, pc = "tasks", job = "uninstall",
           UNCHANGED <<pc, command, before, flag, job, bootloader>>,
           bootfiles' \subseteq bootfiles, reg'.vista \in {reg.vista, None},
           contents' = contents \/ (reg.vista = None /\ \A p \in Place : contents'[p] \subseteq contents[p]),
           reg'.dir = None => Unbooted'
    PROVE  Work'
<1>1. Working'
  BY DEF Working, Creates
<1>2. Walking'
  BY DEF Work, Walking
<1>3. \A p \in Loop : contents'[p] \subseteq contents[p]
  BY DEF Loop
<1>4. \A p, q \in Loop : contents'[p] # {} /\ contents'[q] # {} => p = q
  BY <1>3 DEF Work, Hosting
<1>5. ASSUME BootEntryFound' PROVE \E p \in Loop : ToServe \subseteq contents'[p]
  <2>1. IInv' => (BootEntryFound <=> /\ bootloader = "vista" /\ {"yldr", "yldr.mbr"} \subseteq bootfiles
                                     /\ reg.vista # None)'
    BY BootEntry, PTL
  <2>2. reg.vista # None /\ contents' = contents
    BY <1>5, <2>1
  <2>3. BootEntryFound
    BY <1>5, <2>1, <2>2, BootEntry
  <2> QED BY <2>2, <2>3 DEF Work, Hosting
<1>6. Hosting'
  BY <1>4, <1>5 DEF Hosting
<1> QED BY <1>1, <1>2, <1>6 DEF Work

\* The steps of undo_bootloader, in every list.
LEMMA UndoWork ==
    ASSUME IInv, IInv', Work, ClearVistaBootDrive \/ DeleteEntry \/ UndoBootini \/ UnlinkWinbootFile PROVE Work'
<1>1. \E h \in Undoing :
          /\ Doing(h) /\ Done /\ contents' = contents
          /\ reg'.exe = reg.exe /\ reg'.dir = reg.dir /\ reg'.vista \in {reg.vista, None}
          /\ bootfiles' \subseteq bootfiles /\ bootini' \subseteq bootini
          /\ h = "yldrd.mbr" => bootfiles' = bootfiles \ {h} /\ UNCHANGED <<reg, bootini>>
  <2>1. CASE ClearVistaBootDrive
    <3>1. reg \in [dir : PlaceOrNone, exe : PlaceOrNone, vista : Id \cup {None}]
      BY DEF IInv, Types, TypeOK
    <3>2. /\ Doing("VistaBootDrive") /\ Done /\ UNCHANGED <<contents, bootini, bootfiles>>
          /\ reg' = [reg EXCEPT !.vista = None]
      BY <2>1 DEF ClearVistaBootDrive, SetRegistry
    <3>3. reg'.exe = reg.exe /\ reg'.dir = reg.dir /\ reg'.vista = None
      BY <3>1, <3>2
    <3> QED BY <3>2, <3>3 DEF Undoing
  <2>2. CASE DeleteEntry
    <3>1. Doing("delete_entry") /\ Done /\ UNCHANGED <<contents, reg, bootini, bootfiles>>
      BY <2>2 DEF DeleteEntry
    <3> QED BY <3>1 DEF Undoing
  <2>3. CASE UndoBootini
    <3>1. Doing("undo_bootini") /\ Done /\ UNCHANGED <<contents, reg, bootfiles>> /\ bootini' = {}
      BY <2>3 DEF UndoBootini
    <3> QED BY <3>1 DEF Undoing
  <2>4. CASE UnlinkWinbootFile
    <3>1. PICK f \in Unlinking : Doing(f) /\ bootfiles' = bootfiles \ {f}
      BY <2>4, Sets DEF UnlinkWinbootFile
    <3>2. Done /\ UNCHANGED <<contents, reg, bootini>>
      BY <2>4 DEF UnlinkWinbootFile
    <3> QED BY <3>1, <3>2 DEF Undoing, Unlinking
  <2> QED BY <2>1, <2>2, <2>3, <2>4
<1>2. PICK h \in Undoing :
          /\ Doing(h) /\ Done /\ contents' = contents
          /\ reg'.exe = reg.exe /\ reg'.dir = reg.dir /\ reg'.vista \in {reg.vista, None}
          /\ bootfiles' \subseteq bootfiles /\ bootini' \subseteq bootini
          /\ h = "yldrd.mbr" => bootfiles' = bootfiles \ {h} /\ UNCHANGED <<reg, bootini>>
  BY <1>1
<1>3. CASE job # "uninstall"
  BY <1>2, <1>3, UndoneWork
<1>4. CASE job = "uninstall"
  <2>1. pc = "tasks" /\ UNCHANGED <<pc, command, before, flag, job, bootloader>>
    BY <1>2, AfterStep DEF Done, proc
  <2>2. reg'.dir = None => Unbooted'
    BY <1>2 DEF Work, Hosting, Unbooted
  <2> QED BY <1>2, <1>4, <2>1, <2>2, RemovalWork
<1> QED BY <1>3, <1>4

LEMMA RemoveKeyWork == ASSUME IInv, IInv', Work, RemoveRegistryKey PROVE Work'
<1>1. /\ Doing("remove_key") /\ Done /\ reg' = NoValues /\ UNCHANGED <<contents, bcd, bootini, bootfiles, lost>>
  BY DEF RemoveRegistryKey, SetRegistry
<1>2. /\ pc = "tasks" /\ "remove_key" \in Allowed /\ ReadyFor("remove_key")
      /\ UNCHANGED <<pc, command, before, flag, job, bootloader>>
  BY <1>1, AfterStep DEF Done, proc
<1>3. job = "uninstall"
  BY <1>2 DEF Allowed, Installs, Undoing, Writing
<1>4. bootini = {} /\ bootfiles = {}
  <2>1. bootfiles \subseteq Unlinking
    BY Sets DEF IInv, Types, TypeOK
  <2>2. bootini = {} /\ \A f \in Unlinking : f \notin bootfiles
    BY <1>2 DEF ReadyFor, Removing, Unlinking
  <2> QED BY <2>1, <2>2
<1>5. reg'.vista = None /\ Unbooted'
  BY <1>1, <1>4 DEF NoValues, Unbooted
<1> QED BY <1>1, <1>2, <1>3, <1>5, RemovalWork

LEMMA RmTreeWork == ASSUME IInv, IInv', Work, RemoveFile \/ RemoveDir PROVE Work'
<1>1. PICK h \in RmTreeSteps : Doing(h)
  BY DEF RemoveFile, RemoveDir
<1>2. /\ UNCHANGED <<reg, bcd, bootini, bootfiles, lost, pc, command, before, flag, job, bootloader>>
  BY DEF RemoveFile, RemoveDir, Done, windows, proc
<1>3. pc = "tasks" /\ todo # <<>> /\ Head(todo) = h /\ todo \in Seq(Allowed) /\ h \in Removing
  BY <1>1 DEF Doing, IInv, ListOK, RmTreeSteps, Removing
<1>4. Head(todo) \in Allowed /\ ReadyFor(h)
  BY <1>3, TailOf DEF IInv, Ready
<1>5. job = "uninstall"
  BY <1>3, <1>4 DEF Allowed, Installs, Undoing, Writing, Removing
<1>6. reg.vista = None
  BY <1>3, <1>4 DEF ReadyFor
<1>7. contents \in [Place -> SUBSET Item]
  BY DEF IInv, Types, TypeOK
<1>8. \A p \in Place : contents'[p] \subseteq contents[p]
  <2>1. CASE RemoveFile
    <3>1. PICK t, X : contents' = [contents EXCEPT ![t] = @ \ X]
      BY <2>1 DEF RemoveFile
    <3> QED BY <1>7, <3>1
  <2>2. CASE RemoveDir
    <3>1. contents' = contents \/ \E t : contents' = [contents EXCEPT ![t] = {}]
      BY <2>2 DEF RemoveDir
    <3> QED BY <1>7, <3>1
  <2> QED BY <2>1, <2>2
<1>9. reg'.dir = None => Unbooted'
  BY <1>2 DEF Work, Hosting, Unbooted
<1> QED BY <1>2, <1>3, <1>5, <1>6, <1>8, <1>9, RemovalWork

-----------------------------------------------------------------------------
(* The tasks and the walk between them                                      *)

LEMMA TaskWork == ASSUME IInv, IInv', Work, Task PROVE Work'
<1>1. CASE CreateDirStructure
  BY <1>1, AddsWork, Sets DEF CreateDirStructure
<1>2. CASE CopyUninstaller
  BY <1>2, AddsWork, Sets DEF CopyUninstaller
<1>3. CASE CopyInstallationFiles
  BY <1>3, AddsWork, Sets DEF CopyInstallationFiles
<1>4. CASE GetIso
  BY <1>4, AddsWork, Sets DEF GetIso
<1>5. CASE ExtractKernel
  BY <1>5, AddsWork, Sets DEF ExtractKernel
<1>6. CASE ModifyGrubConfiguration
  BY <1>6, AddsWork, Sets DEF ModifyGrubConfiguration
<1>7. CASE SetEndOfFile
  BY <1>7, AddsWork, Sets DEF SetEndOfFile
<1>8. CASE RemoveOldFiles
  BY <1>8, DropsWork DEF RemoveOldFiles
<1>9. CASE UnlinkKernel
  BY <1>9, DropsWork DEF UnlinkKernel
<1> QED
  BY <1>1, <1>2, <1>3, <1>4, <1>5, <1>6, <1>7, <1>8, <1>9, NameWork, RecordWork, UndoWork, CopyWork,
     BootiniWork, AlreadyWork, DisplayWork, CreateWork, SkipWork, DiskWork, RemoveKeyWork, RmTreeWork
  DEF Task

\* The host is left alone.
LEMMA HostStays ==
    ASSUME UNCHANGED <<contents, reg, bcd, bootini, bootfiles, bootloader>>
    PROVE  /\ PreInstallPath' = PreInstallPath /\ NeedfixOnHost' = NeedfixOnHost
           /\ BootEntryFound' = BootEntryFound
           /\ Hosting => Hosting'
<1>1. PreInstallPath' = PreInstallPath
  BY DEF PreInstallPath, LoopAt
<1>2. BootEntryFound' = BootEntryFound
  BY DEF BootEntryFound
<1>3. RootDiskFound' = RootDiskFound
  BY <1>1 DEF RootDiskFound
<1>4. NeedfixOnHost' = NeedfixOnHost
  BY <1>2, <1>3 DEF NeedfixOnHost
<1>5. Hosting => Hosting'
  BY <1>2 DEF Hosting, Unbooted
<1> QED BY <1>1, <1>2, <1>4, <1>5

\* What fetch_basic_info says of the registry key.
LEMMA FetchedValues ==
    /\ Fetched.pre1 = PreInstallPath /\ Fetched.needfix = NeedfixOnHost
    /\ Fetched.prev = None => reg.dir = None
BY DEF Fetched

\* A step between the lists, which may look at the host again.
LEMMA WalkWork ==
    ASSUME IInv, Work, UNCHANGED <<contents, reg, bcd, bootini, bootfiles, bootloader, flag>>,
           pc' # "tasks", pc' # "idle", pc' = "over" \/ flag,
           command' = "uninstall" => ~before', pc' = "again" => before', pc' = "page" => command' # "uninstall",
           pc' \in {"dispatch", "uninstaller", "fix_page"} =>
               info'.pre1 = PreInstallPath /\ info'.needfix = NeedfixOnHost,
           pc' = "dispatch" /\ info'.prev = None => reg.dir = None,
           pc' = "page" /\ command' = "cd_boot" => reg.dir = None
    PROVE  Work'
<1>1. Hosting'
  BY HostStays DEF Work
<1>2. PreInstallPath' = PreInstallPath /\ NeedfixOnHost' = NeedfixOnHost
  BY HostStays
<1>3. Walking'
  BY <1>2 DEF Walking
<1>4. Working'
  BY DEF Working, Creates
<1> QED BY <1>1, <1>3, <1>4 DEF Work

\* A list for an installation or a fix is begun.
LEMMA BeginWork ==
    ASSUME IInv, Work, UNCHANGED <<contents, reg, bcd, bootini, bootfiles, bootloader, command, before, runs>>,
           pc' = "tasks", job' \in {"install", "fix"}, NEW steps, todo' = steps,
           steps \in Seq(Installs), steps # <<>>, steps[1] = "dirs",
           Complete(steps),
           job' = "install" => Has(steps, "iso"),
           job' = "fix" \/ Flavour' = "loop" => \A d \in Disk : Has(steps, d),
           Has(steps, "yldrd.mbr") \/ (Unbooted /\ steps \in Seq(Writing)),
           target' \in Place, Flavour' = "loop" => target' \in Loop,
           target' \in Loop => \A p \in Loop : p # target' => contents[p] = {},
           job' = "install" /\ Flavour' = "loop" => contents[target'] = {},
           ~BootEntryFound, flag' \/ job' = "install"
    PROVE  Work'
<1>1. Head(steps) = "dirs"
  BY TailOf
<1>2. ASSUME NEW y \in Required' PROVE Has(steps, y)
  BY <1>2 DEF Required, Complete
<1>3. ASSUME NEW i \in 1 .. Len(steps), Stage(steps[i]) = 10 PROVE Has(steps, "yldrd.mbr")
  <2>1. CASE steps \in Seq(Writing)
    <3>1. steps[i] \in Writing
      BY <2>1
    <3> QED BY <1>3, <3>1, WritingIsNotUndoing
  <2> QED BY <2>1
<1>4. Plan'
  BY <1>2, <1>3 DEF Plan, Complete
<1>5. Worked'
  <2>1. /\ "dirs" \in Required' /\ "UninstallString" \in Required' /\ "InstallationDir" \in Required'
        /\ "loader" \in Required' /\ "mbr" \in Required'
        /\ bootloader' = "xp" => "bootini" \in Required'
        /\ bootloader' # "xp" => "create_entry" \in Required'
    BY DEF Required
  <2>2. \A y \in Required' \cap Item : Has(todo', y)
    BY <1>2
  <2> QED BY <1>2, <2>1, <2>2 DEF Worked
<1>6. SizedDisks'
  BY DEF SizedDisks
<1>7. ASSUME Unbooted PROVE OnlyOurs'
  BY <1>1, <1>7 DEF OnlyOurs, Unbooted
<1>8. Has(todo', "yldrd.mbr") \/ OnlyOurs'
  BY <1>7
<1>9. BootEntryFound' = BootEntryFound /\ Hosting'
  BY HostStays DEF Work
<1>10. Working'
  BY <1>4, <1>5, <1>6, <1>8, <1>9 DEF Working
<1>11. Walking'
  BY DEF Work, Walking
<1> QED BY <1>9, <1>10, <1>11 DEF Work

-----------------------------------------------------------------------------
(* The application, and what is shown of the work                           *)

\* An installation with a root disk is the one full installation there is.
LEMMA RootIsInLoop ==
    ASSUME RootDiskFound
    PROVE  PreInstallPath \in Loop /\ contents[PreInstallPath] # {}
<1>1. PreInstallPath # None /\ "root_size" \in contents[PreInstallPath]
  BY DEF RootDiskFound
<1>2. PreInstallPath \in Place
  BY <1>1, Found DEF PlaceOrNone
<1>3. PreInstallPath = <<Drives[Min(LoopAt)], "loop">>
  BY <1>1 DEF PreInstallPath
<1>4. PreInstallPath[2] = "loop"
  BY <1>3
<1> QED BY <1>1, <1>2, <1>4 DEF Loop

LEMMA FixWork == ASSUME IInv, Work, RunFixboot PROVE Work'
<1>1. /\ UNCHANGED <<contents, reg, bcd, bootini, bootfiles, bootloader, command, before, runs, flag>>
      /\ pc' = "tasks" /\ job' = "fix" /\ todo' = FixSteps /\ target' = info.pre1
  BY DEF RunFixboot, Begin, host, windows
<1>2. info.needfix # 0 /\ info.needfix = NeedfixOnHost /\ info.pre1 = PreInstallPath /\ flag
  BY DEF RunFixboot, Work, Walking
<1>3. RootDiskFound /\ ~(reg.dir # None /\ BootEntryFound)
  BY <1>2 DEF NeedfixOnHost
<1>4. ~BootEntryFound
  <2>1. ASSUME reg.dir = None PROVE ~BootEntryFound
    BY <2>1, BootEntry DEF Work, Hosting, Unbooted
  <2> QED BY <1>3, <2>1
<1>5. target' \in Loop /\ contents[target'] # {}
  BY <1>1, <1>2, <1>3, RootIsInLoop
<1>6. \A p \in Loop : p # target' => contents[p] = {}
  BY <1>5 DEF Work, Hosting
<1>7. target' \in Place
  BY <1>5 DEF Loop
<1> QED BY <1>1, <1>2, <1>4, <1>5, <1>6, <1>7, ListsInOrder, ListsComplete, BeginWork

LEMMA SettingsWork == ASSUME IInv, CleanLook, Work, ReceiveSettings PROVE Work'
<1>1. PICK d \in ToSet(Drives), f \in BOOLEAN :
          /\ flag' = f
          /\ target' = <<d, IF command # "cd_boot" /\ f THEN "loop" ELSE "livecd">>
          /\ Begin("install", InstallSteps(IF command # "cd_boot" /\ f THEN "loop" ELSE "livecd"))
  BY DEF ReceiveSettings
<1> DEFINE kind == IF command # "cd_boot" /\ f THEN "loop" ELSE "livecd"
           steps == InstallSteps(kind)
<1>2. /\ UNCHANGED <<contents, reg, bcd, bootini, bootfiles, bootloader, command, before, runs>>
      /\ pc = "page" /\ pc' = "tasks" /\ job' = "install" /\ todo' = steps /\ Flavour' = kind
  BY <1>1 DEF ReceiveSettings, Begin, host, windows, Flavour
<1>3. command \in {"install", "cd_boot"}
  BY <1>2 DEF IInv, Types, Work, Walking
<1>4. target' = <<d, kind>> /\ target' \in Place /\ target'[2] = kind /\ kind \in {"loop", "livecd"}
  BY <1>1 DEF Place, Kind
<1>5. command = "install" => \A p \in Place : contents[p] = {}
  BY <1>2 DEF CleanLook
<1>6. kind = "loop" => command = "install"
  BY <1>3
<1>7. target' \in Loop <=> kind = "loop"
  BY <1>4 DEF Loop
<1>8. command = "cd_boot" => Unbooted
  BY <1>2 DEF Work, Walking, Hosting
<1>9. ~BootEntryFound
  <2>1. CASE command = "install"
    BY <1>5, <2>1 DEF Work, Hosting, Loop, ToServe
  <2>2. CASE command = "cd_boot"
    BY <1>8, <2>2, BootEntry DEF Unbooted
  <2> QED BY <1>3, <2>1, <2>2
<1>10. /\ steps \in Seq(Installs) /\ steps # <<>> /\ steps[1] = "dirs"
  BY ListsInOrder
<1>11. /\ Complete(steps) /\ Has(steps, "iso")
       /\ kind = "loop" => \A x \in Disk : Has(steps, x)
       /\ command = "cd_boot" => steps \in Seq(Writing)
       /\ command # "cd_boot" => Has(steps, "yldrd.mbr")
  BY ListsComplete
<1>12. \A p \in Loop : p \in Place
  BY DEF Loop
<1> HIDE DEF steps, kind
<1> QED
  BY <1>2, <1>3, <1>4, <1>5, <1>6, <1>7, <1>8, <1>9, <1>10, <1>11, <1>12, BeginWork

LEMMA StartWork == ASSUME IInv, Work, NEW c \in Commands, NEW e, Start(c, e) PROVE Work'
<1>1. /\ pc = "idle" /\ pc' = "dispatch" /\ command' = c /\ info' = Fetched
      /\ UNCHANGED <<contents, reg, bcd, bootini, bootfiles, bootloader, before, flag, target, job>>
  BY DEF Start, host, windows
<1>2. flag /\ ~before
  BY <1>1 DEF Work, Walking
<1>3. info'.pre1 = PreInstallPath /\ info'.needfix = NeedfixOnHost /\ (info'.prev = None => reg.dir = None)
  BY <1>1, FetchedValues
<1> QED BY <1>1, <1>2, <1>3, WalkWork

LEMMA EndWork == ASSUME IInv, Work, Exit \/ Die PROVE Work'
<1>1. /\ pc' = "idle" /\ command' = "install" /\ flag' = TRUE /\ before' = FALSE
      /\ UNCHANGED <<contents, reg, bcd, bootini, bootfiles, bootloader>>
  BY DEF Exit, Die, Idle, host, windows
<1>2. Walking' /\ Working'
  BY <1>1 DEF Walking, Working, Creates
<1>3. Hosting'
  BY <1>1, HostStays DEF Work
<1> QED BY <1>2, <1>3 DEF Work

LEMMA ReinstallWork == ASSUME IInv, IInv', Work, ReinstallWindows PROVE Work'
<1>1. /\ pc = "idle" /\ reg' = NoValues /\ bootini' = {} /\ bootfiles' = {}
      /\ UNCHANGED <<pc, command, before, flag>>
  BY DEF ReinstallWindows, proc
<1>2. Walking' /\ Working'
  BY <1>1 DEF Work, Walking, Working, Creates
<1>3. Unbooted'
  BY <1>1 DEF Unbooted, NoValues
<1>4. IInv' => (BootEntryFound <=> /\ bootloader = "vista" /\ {"yldr", "yldr.mbr"} \subseteq bootfiles
                                   /\ reg.vista # None)'
  BY BootEntry, PTL
<1>5. ~BootEntryFound'
  BY <1>1, <1>4
<1>6. \A p \in Place : contents'[p] # {} => contents[p] # {}
  BY DEF ReinstallWindows
<1>7. \A p, q \in Loop : contents'[p] # {} /\ contents'[q] # {} => p = q
  BY <1>6 DEF Work, Hosting, Loop
<1> QED BY <1>2, <1>3, <1>5, <1>7 DEF Work, Hosting

LEMMA QuietWork == ASSUME IInv, Work, UNCHANGED ivars PROVE Work'
<1>1. UNCHANGED <<contents, reg, bcd, bootini, bootfiles, runs, bootloader, pc, command, info,
                  before, flag, target, job, todo>>
  BY DEF ivars, host, windows, proc
<1>2. PreInstallPath' = PreInstallPath /\ NeedfixOnHost' = NeedfixOnHost
      /\ BootEntryFound' = BootEntryFound /\ Hosting'
  BY <1>1, HostStays DEF Work
<1>3. Walking'
  BY <1>1, <1>2 DEF Work, Walking
<1>4. Loader' = Loader /\ Mbr' = Mbr /\ Flavour' = Flavour /\ Required' = Required
  BY <1>1 DEF Loader, Mbr, Flavour, Required
<1>5. Working'
  BY <1>1, <1>2, <1>4 DEF Work, Working, Creates, Plan, Worked, SizedDisks, OnlyOurs, Early, Pending
<1> QED BY <1>2, <1>3, <1>5 DEF Work

LEMMA ApplicationWork == ASSUME IInv, CleanLook, Work, Application PROVE Work'
<1>0. ASSUME UNCHANGED host PROVE UNCHANGED <<contents, reg, bcd, bootini, bootfiles>>
  BY <1>0 DEF host
<1>a. /\ command \in {"install", "cd_boot", "uninstall"}
      /\ info \in Info
  BY DEF IInv, Types, TypeOK, Info
<1>b. [info EXCEPT !.prev = Previous].pre1 = info.pre1 /\ [info EXCEPT !.prev = Previous].needfix = info.needfix
  BY <1>a DEF Info
<1>1. CASE \E c \in Commands, e \in {"setup", "same", "uninstall"} : Start(c, e)
  BY <1>1, StartWork
<1>2. CASE Dispatch
  <2>1. /\ pc = "dispatch" /\ UNCHANGED <<contents, reg, bcd, bootini, bootfiles, bootloader, command, info, flag>>
        /\ before' = OldFound(info) /\ pc' \in {"uninstaller", "page"}
        /\ (pc' = "page" <=> ~(command = "uninstall" \/ OldFound(info)))
    BY <1>2 DEF Dispatch, Go, host, windows
  <2>2. command = "uninstall" => ~OldFound(info)
    BY DEF OldFound
  <2>3. command = "cd_boot" => (OldFound(info) <=> info.prev # None)
    BY DEF OldFound
  <2>4. flag /\ info.pre1 = PreInstallPath /\ info.needfix = NeedfixOnHost /\ (info.prev = None => reg.dir = None)
    BY <2>1 DEF Work, Walking
  <2> QED BY <2>1, <2>2, <2>3, <2>4, WalkWork
<1>3. CASE NothingToUninstall
  <2>1. /\ pc = "uninstaller" /\ UNCHANGED <<contents, reg, bcd, bootini, bootfiles, bootloader, command, before, flag>>
        /\ pc' = IF before THEN "again" ELSE "over"
    BY <1>3 DEF NothingToUninstall, Go, host, windows
  <2>2. flag /\ (command = "uninstall" => ~before)
    BY <2>1 DEF Work, Walking
  <2> QED BY <2>1, <2>2, WalkWork
<1>4. CASE RunPreviousUninstaller
  <2>1. /\ pc = "uninstaller" /\ UNCHANGED <<contents, reg, bcd, bootini, bootfiles, bootloader, flag>>
        /\ pc' = "uninstaller" /\ command' = "uninstall" /\ before' = FALSE /\ info' = Fetched
    BY <1>4 DEF RunPreviousUninstaller, Go, host, windows
  <2>2. flag
    BY <2>1 DEF Work, Walking
  <2> QED BY <2>1, <2>2, FetchedValues, WalkWork
<1>5. CASE ShowFixSettings
  <2>1. /\ pc = "uninstaller" /\ UNCHANGED <<contents, reg, bcd, bootini, bootfiles, bootloader, command, before, flag>>
        /\ pc' = "fix_page" /\ info' = [info EXCEPT !.prev = Previous]
    BY <1>5 DEF ShowFixSettings, Go, host, windows
  <2>2. flag /\ info.pre1 = PreInstallPath /\ info.needfix = NeedfixOnHost /\ (command = "uninstall" => ~before)
    BY <2>1 DEF Work, Walking
  <2> QED BY <1>b, <2>1, <2>2, WalkWork
<1>6. CASE ConfirmUninstall
  <2>1. /\ pc = "fix_page" /\ UNCHANGED <<contents, reg, bcd, bootini, bootfiles, bootloader, command, before, flag>>
        /\ pc' = "tasks" /\ job' = "uninstall"
    BY <1>6 DEF ConfirmUninstall, Begin, host, windows
  <2>2. Hosting' /\ Working'
    BY <2>1, HostStays DEF Work, Working, Creates
  <2>3. Walking'
    BY <2>1 DEF Work, Walking
  <2> QED BY <2>2, <2>3 DEF Work
<1>7. CASE AfterTasks
  <2>1. /\ pc = "tasks" /\ UNCHANGED <<contents, reg, bcd, bootini, bootfiles, bootloader, command, before, flag>>
        /\ pc' \in {"again", "over"} /\ (pc' = "again" => before /\ job = "uninstall")
    BY <1>7 DEF AfterTasks, ListDone, Go, host, windows, proc
  <2>2. (flag \/ job = "install") /\ (command = "uninstall" => ~before)
    BY <2>1 DEF Work, Walking
  <2> QED BY <2>1, <2>2, WalkWork
<1>8. CASE LookAgain
  <2>1. /\ pc = "again" /\ UNCHANGED <<contents, reg, bcd, bootini, bootfiles, bootloader, command, before, flag>>
        /\ pc' \in {"refused", "page"} /\ (pc' = "page" => ~OldFound(Fetched))
    BY <1>8 DEF LookAgain, Go, host, windows
  <2>2. flag /\ before /\ command # "uninstall"
    BY <2>1 DEF Work, Walking
  <2>3. command = "cd_boot" => (OldFound(Fetched) <=> Fetched.prev # None)
    BY DEF OldFound
  <2> QED BY <2>1, <2>2, <2>3, FetchedValues, WalkWork
<1> QED
  BY <1>1, <1>2, <1>3, <1>4, <1>5, <1>6, <1>7, <1>8, FixWork, SettingsWork, EndWork DEF Application

\* What an installation or a fix has done, and what it leaves when it dies, in
\* every state (common/backend.py, win32/backend.py, application.py).
THEOREM WorkInvariant == Spec => []Work
<1>1. Init => CleanLook /\ Work
  <2>1. ASSUME Init PROVE CleanLook
    BY <2>1 DEF Init, CleanLook
  <2>2. ASSUME Init PROVE Work
    <3>1. pc = "idle" /\ flag = TRUE /\ before = FALSE /\ command = "install"
      BY <2>2 DEF Init
    <3>2. Working /\ Walking
      BY <3>1 DEF Working, Walking, Creates
    <3>3. \A p \in Loop : contents[p] = {}
      BY <2>2 DEF Init, Loop
    <3>4. Unbooted
      BY <2>2 DEF Init, Unbooted, NoValues
    <3>5. ~BootEntryFound
      BY <2>2, <3>4, InitHolds, BootEntry DEF Unbooted
    <3> QED BY <3>2, <3>3, <3>4, <3>5 DEF Work, Hosting
  <2> QED BY <2>1, <2>2
<1>2. IInv /\ IInv' /\ CleanLook /\ Work /\ [Next]_ivars => CleanLook' /\ Work'
  BY LookIsClean, TaskWork, ApplicationWork, ReinstallWork, QuietWork DEF Next
<1> QED BY <1>1, <1>2, HostInvariant, PTL DEF Spec

-----------------------------------------------------------------------------
(* The entry that boots, and the files it names                             *)

\* The places the recorded entry names.
Named == {p \in Place : \E e \in bcd : e.id = reg.vista /\ e.at = p}
Repairable(p) == p = PreInstallPath /\ NeedfixOnHost # 0

\* Outside the lists that write, a named place has its loader or is repaired.  In
\* those lists the entry is an older one until undo_bcd has removed it, which only a
\* fix of its own place meets without a loader, and this process' own afterwards.
Served ==
    /\ ~Creates => \A p \in Named : "winboot" \in contents[p] \/ Repairable(p)
    /\ Creates => Has(todo, "yldrd.mbr") \/ reg.vista = None \/ (reg.vista = runs /\ ~Early)
    /\ Creates /\ Has(todo, "yldrd.mbr") =>
           \A p \in Named : job = "fix" /\ ("winboot" \in contents[p] \/ p = target)
    /\ Creates /\ job = "fix" => target \in Loop /\ "root_size" \in contents[target]

\* Nothing is named without a recorded entry.
LEMMA NothingNamed == IInv /\ reg.vista = None => Named = {}
BY RegTypes DEF IInv, Named

\* The one full installation is where check_pre_install_path finds it.
LEMMA LoopIsFound ==
    ASSUME Work, NEW p \in Loop, "root_size" \in contents[p]
    PROVE  PreInstallPath = p /\ RootDiskFound
<1>1. PICK i \in DOMAIN Drives : p = <<Drives[i], "loop">>
  BY DrivesAssumption DEF Loop, Place, ToSet
<1>2. LoopAt \in SUBSET DOMAIN Drives /\ i \in LoopAt
  BY <1>1 DEF LoopAt
<1>3. Min(LoopAt) \in LoopAt
  BY <1>2, FirstAndLast
<1>4. PreInstallPath = <<Drives[Min(LoopAt)], "loop">> /\ contents[PreInstallPath] # {}
  BY <1>2, <1>3 DEF PreInstallPath, LoopAt
<1>5. Drives[Min(LoopAt)] \in ToSet(Drives)
  BY <1>2, <1>3 DEF ToSet
<1>6. PreInstallPath \in Place /\ PreInstallPath[2] = "loop"
  BY <1>4, <1>5 DEF Place, Kind
<1>7. PreInstallPath = p
  BY <1>4, <1>6 DEF Work, Hosting, Loop
<1>8. p # None
  BY NoneAssumption DEF Loop
<1> QED BY <1>7, <1>8 DEF RootDiskFound

\* In every state, whatever the process does.
LEMMA ServedIsLive ==
    ASSUME IInv, Work, Served
    PROVE  \A p \in Named : "winboot" \in contents[p] \/ Repairable(p)
<1>1. CASE ~Creates
  BY <1>1 DEF Served
<1>2. CASE Creates /\ Has(todo, "yldrd.mbr")
  <2> SUFFICES ASSUME NEW p \in Named, "winboot" \notin contents[p] PROVE Repairable(p)
    OBVIOUS
  <2>1. p = target /\ job = "fix" /\ target \in Loop /\ "root_size" \in contents[target]
    BY <1>2 DEF Served
  <2>2. PreInstallPath = target /\ RootDiskFound
    BY <2>1, LoopIsFound
  <2>3. pc = "tasks" /\ todo # <<>> /\ ListOK /\ Plan
    BY <1>2 DEF Creates, Has, IInv, Work, Working
  <2>4. Early
    <3>1. Stage("yldrd.mbr") = 11 /\ Stage(Head(todo)) \in Nat
      BY Stages
    <3>2. ~(11 < Stage(Head(todo)))
      BY <1>2, <2>3, <3>1, NotAgain DEF Plan
    <3> QED BY <2>3, <3>1, <3>2 DEF Early
  <2>5. ~BootEntryFound
    BY <1>2, <2>4 DEF Work, Working
  <2>6. NeedfixOnHost # 0
    BY <2>2, <2>5 DEF NeedfixOnHost
  <2> QED BY <2>1, <2>2, <2>6 DEF Repairable
<1>3. CASE Creates /\ ~Has(todo, "yldrd.mbr") /\ reg.vista # None
  <2>1. reg.vista = runs /\ ~Early
    BY <1>3 DEF Served
  <2>2. ASSUME NEW p \in Named PROVE p = target
    BY <1>3, <2>1, <2>2, NoneAssumption, RefusedAssumption DEF Named, IInv, Recorded
  <2>3. pc = "tasks" /\ ListOK /\ Plan /\ Worked
    BY <1>3 DEF Creates, IInv, Work, Working
  <2>4. ~Has(todo, "winboot")
    <3>1. CASE todo = <<>>
      BY <3>1 DEF Has
    <3>2. CASE todo # <<>>
      <4>1. Stage("winboot") = 6 /\ Stage(Head(todo)) \in Nat /\ ~(Stage(Head(todo)) < 12)
        BY <2>1, <3>2, Stages DEF Early
      <4>2. Stage("winboot") < Stage(Head(todo))
        BY <4>1
      <4> QED BY <2>3, <3>2, <4>2, NotAgain DEF Plan
    <3> QED BY <3>1, <3>2
  <2>5. "winboot" \in contents[target]
    <3>1. "winboot" \in Required \cap Item
      BY Sets DEF Required, ToServe
    <3> QED BY <2>3, <2>4, <3>1 DEF Worked
  <2> QED BY <2>2, <2>5
<1>4. CASE Creates /\ ~Has(todo, "yldrd.mbr") /\ reg.vista = None
  BY <1>4, NothingNamed
<1> QED BY <1>1, <1>2, <1>3, <1>4

\* A step of a list that writes: the list goes on, and what is named stays named
\* or is no more, or is what this process has recorded.
LEMMA WritingServed ==
    ASSUME IInv, IInv', Work, Served, Creates, todo # <<>>, Onward,
           UNCHANGED <<pc, job, target, runs>>,
           \A y : Has(todo', y) => Has(todo, y) \/ y # "yldrd.mbr",
           \A p \in Place : p # target => contents'[p] = contents[p],
           "root_size" \in contents[target] => "root_size" \in contents'[target],
           Head(todo) = "yldrd.mbr" => reg.vista = None,
           \/ reg'.vista = reg.vista /\ Named' \subseteq Named
           \/ reg'.vista = None
           \/ reg'.vista = runs /\ Stage(Head(todo)) = 12
    PROVE  Served'
<1>1. Creates' /\ ListOK /\ pc = "tasks" /\ Plan
  BY DEF Creates, IInv, Work, Working
<1>2. ASSUME Stage(Head(todo)) = 12 PROVE ~Early /\ ~Early' /\ ~Has(todo, "yldrd.mbr") /\ ~Has(todo', "yldrd.mbr")
  <2>1. ~Early
    BY <1>2 DEF Early
  <2>2. Stage("yldrd.mbr") = 11
    BY Stages
  <2>3. Stage("yldrd.mbr") < Stage(Head(todo))
    BY <1>2, <2>2
  <2>4. ~Has(todo, "yldrd.mbr")
    BY <1>1, <2>3, NotAgain DEF Plan
  <2> QED BY <2>1, <2>4 DEF Onward
<1>3. Has(todo', "yldrd.mbr") => Has(todo, "yldrd.mbr")
  OBVIOUS
<1>4. Has(todo', "yldrd.mbr") \/ reg'.vista = None \/ (reg'.vista = runs /\ ~Early')
  <2>1. CASE reg'.vista = None \/ (Stage(Head(todo)) = 12 /\ reg'.vista = runs)
    BY <1>2, <2>1
  <2>2. CASE reg'.vista = reg.vista
    <3>1. Has(todo, "yldrd.mbr") => Has(todo', "yldrd.mbr") \/ reg.vista = None
      BY DEF Onward
    <3> QED BY <2>2, <3>1 DEF Served, Onward
  <2> QED BY <2>1, <2>2
<1>5. IInv' /\ reg'.vista = None => Named' = {}
  <2>1. (IInv /\ reg.vista = None => Named = {})'
    BY NothingNamed, PTL
  <2> QED BY <2>1
<1>6. ASSUME Has(todo', "yldrd.mbr"), NEW p \in Named'
      PROVE  job = "fix" /\ ("winboot" \in contents'[p] \/ p = target)
  <2>1. Has(todo, "yldrd.mbr") /\ p \in Named
    BY <1>2, <1>3, <1>5, <1>6
  <2>2. job = "fix" /\ ("winboot" \in contents[p] \/ p = target)
    BY <2>1 DEF Served
  <2>3. p \in Place
    BY <2>1 DEF Named
  <2> QED BY <2>2, <2>3
<1>7. job = "fix" => target \in Loop /\ "root_size" \in contents'[target]
  BY DEF Served
<1> QED BY <1>1, <1>4, <1>6, <1>7 DEF Served

\* The entries that name a place stay, but for those that bcdedit deletes.
LEMMA NamedStays ==
    ASSUME bcd' \subseteq bcd, reg'.vista = reg.vista
    PROVE  Named' \subseteq Named
BY DEF Named

\* The steps that are one of a list.
LEMMA OneStepServed ==
    ASSUME IInv, IInv', Work, Served, NEW h, Doing(h), Done, job # "uninstall",
           \/ contents' = contents
           \/ \E X : contents' = [contents EXCEPT ![target] = @ \cup X]
           \/ \E x \in {"winboot", "kernel"} : contents' = [contents EXCEPT ![target] = @ \ {x}],
           \/ reg'.vista = reg.vista /\ Named' \subseteq Named
           \/ reg'.vista = None
           \/ reg'.vista = runs /\ h = "record_entry"
    PROVE  Served'
<1>1. /\ pc = "tasks" /\ todo # <<>> /\ h = Head(todo) /\ Creates /\ ReadyFor(h) /\ Onward
      /\ UNCHANGED <<pc, target, job, runs>> /\ todo' = Tail(todo)
      /\ target \in Place /\ contents \in [Place -> SUBSET Item]
  BY OneStep DEF Done
<1>2. \A y : Has(todo', y) => Has(todo, y)
  <2>1. todo \in Seq(Allowed)
    BY <1>1 DEF IInv, ListOK
  <2>2. /\ Len(todo) \in Nat \ {0} /\ Len(todo') = Len(todo) - 1
        /\ \A i \in 1 .. Len(todo) - 1 : todo'[i] = todo[i + 1]
    BY <1>1, <2>1, TailOf
  <2>3. \A i \in 1 .. Len(todo') : i + 1 \in 1 .. Len(todo) /\ todo'[i] = todo[i + 1]
    BY <2>2
  <2> QED BY <2>3 DEF Has
<1>3. \A p \in Place : p # target => contents'[p] = contents[p]
  BY <1>1
<1>4. "root_size" \in contents[target] => "root_size" \in contents'[target]
  BY <1>1
<1>5. h = "yldrd.mbr" => reg.vista = None
  BY <1>1 DEF ReadyFor, Unlinking
<1>6. h = "record_entry" => Stage(h) = 12
  BY Stages
<1> QED BY <1>1, <1>2, <1>3, <1>4, <1>5, <1>6, WritingServed

\* A step that puts others in front of the list: an entry that is created names
\* nothing yet, and a disk is added.
LEMMA MoreServed == ASSUME IInv, IInv', Work, Served, CreateEntry \/ CreateDisk PROVE Served'
<1> DEFINE p == IF CreateEntry THEN <<"set_entry", "record_entry">> ELSE <<SizeOf(Head(todo))>>
<1>1. /\ pc = "tasks" /\ todo # <<>> /\ todo' = p \o Tail(todo) /\ UNCHANGED reg
      /\ Head(todo) \in {"create_entry"} \cup Disk
      /\ (Head(todo) = "create_entry") <=> CreateEntry
      /\ UNCHANGED <<runs, bootloader, pc, command, before, flag, target, job>>
  BY Sets DEF CreateEntry, CreateDisk, Doing, windows, proc
<1>2. todo \in Seq(Allowed) /\ ListOK
  BY <1>1 DEF IInv, ListOK
<1>3. job # "uninstall" /\ Creates
  <2>1. Head(todo) \in Allowed
    BY <1>1, <1>2, TailOf
  <2>2. job # "uninstall"
    BY <1>1, <2>1, Sets DEF Allowed, Uninstalls, Undoing, Removing
  <2> QED BY <1>1, <2>2 DEF Creates
<1>4. Plan
  BY <1>3 DEF Work, Working
<1>5. /\ p \in Seq(Writing) /\ p # <<>>
      /\ Len(p) \in {1, 2} /\ \A i \in 1 .. Len(p) : p[i] # "yldrd.mbr"
      /\ \E b \in 12 .. 15 : Stage(Head(todo)) = b /\ Planned(Writing, p, b, b)
  <2>1. CASE CreateEntry
    <3>1. p = <<"set_entry", "record_entry">> /\ Stage(Head(todo)) = 12
      BY <1>1, <2>1, Stages
    <3>2. Planned(Writing, <<"set_entry", "record_entry">>, 12, 12)
      BY Stages DEF Planned, Sorted, Writing
    <3>3. /\ <<"set_entry", "record_entry">> \in Seq(Writing) /\ <<"set_entry", "record_entry">> # <<>>
          /\ Len(<<"set_entry", "record_entry">>) = 2
          /\ \A i \in 1 .. 2 : <<"set_entry", "record_entry">>[i] # "yldrd.mbr"
      BY DEF Writing
    <3>4. 12 \in 12 .. 15
      OBVIOUS
    <3> QED BY <3>1, <3>2, <3>3, <3>4
  <2>2. CASE ~CreateEntry
    <3> DEFINE d == Head(todo)
    <3>1. d \in Disk /\ p = <<SizeOf(d)>> /\ SizeOf(d) \in {"root_size", "swap_size"}
      BY <1>1, <2>2, Sets
    <3>2. PICK b \in {14, 15} : Stage(d) = b /\ Stage(SizeOf(d)) = b
      BY <3>1, Sets, Stages
    <3> HIDE DEF d
    <3>3. <<SizeOf(d)>> \in Seq(Writing) /\ <<SizeOf(d)>> # <<>> /\ Len(<<SizeOf(d)>>) = 1
          /\ \A i \in 1 .. 1 : <<SizeOf(d)>>[i] # "yldrd.mbr"
      BY <3>1 DEF Writing
    <3>4. Planned(Writing, <<SizeOf(d)>>, b, b)
      BY <3>2, <3>3 DEF Planned, Sorted
    <3>5. b \in 12 .. 15
      OBVIOUS
    <3> QED BY <3>1, <3>2, <3>3, <3>4, <3>5 DEF d
  <2> QED BY <2>1, <2>2
<1> HIDE DEF p
<1>6. Onward
  <2>1. PICK b \in 12 .. 15 : Stage(Head(todo)) = b /\ Planned(Writing, p, b, b)
    BY <1>5
  <2> QED BY <1>1, <1>2, <1>4, <1>5, <2>1, MoreOfPlan
<1>7. ~Has(todo', "yldrd.mbr")
  <2>1. PICK b \in 12 .. 15 : Stage(Head(todo)) = b
    BY <1>5
  <2>2. Stage("yldrd.mbr") = 11 /\ Stage("yldrd.mbr") < Stage(Head(todo))
    BY <2>1, Stages
  <2>3. ~Has(todo, "yldrd.mbr")
    BY <1>1, <1>2, <1>4, <2>2, NotAgain DEF Plan
  <2>4. /\ Len(todo) \in Nat \ {0} /\ Tail(todo) \in Seq(Allowed) /\ Len(Tail(todo)) = Len(todo) - 1
        /\ \A i \in 1 .. Len(todo) - 1 : Tail(todo)[i] = todo[i + 1]
    BY <1>1, <1>2, TailOf
  <2>5. \A i \in 1 .. Len(todo) - 1 : i + 1 \in 1 .. Len(todo)
    BY <2>4
  <2>6. \A i \in 1 .. Len(Tail(todo)) : Tail(todo)[i] # "yldrd.mbr"
    BY <2>3, <2>4, <2>5 DEF Has
  <2>7. p \in Seq(Writing \cup Allowed) /\ Tail(todo) \in Seq(Writing \cup Allowed)
    BY <1>5, <2>4, SeqMonotonic
  <2>8. /\ Len(todo') = Len(p) + Len(Tail(todo)) /\ Len(p) \in Nat /\ Len(Tail(todo)) \in Nat
        /\ \A i \in 1 .. Len(p) + Len(Tail(todo)) :
               todo'[i] = IF i <= Len(p) THEN p[i] ELSE Tail(todo)[i - Len(p)]
    BY <1>1, <2>7, ConcatProperties, LenProperties
  <2>9. ASSUME NEW i \in 1 .. Len(todo') PROVE todo'[i] # "yldrd.mbr"
    <3>1. CASE i <= Len(p)
      <4>1. i \in 1 .. Len(p) /\ todo'[i] = p[i]
        BY <2>8, <3>1
      <4> QED BY <1>5, <4>1
    <3>2. CASE ~(i <= Len(p))
      <4>1. i - Len(p) \in 1 .. Len(Tail(todo)) /\ todo'[i] = Tail(todo)[i - Len(p)]
        BY <2>8, <3>2
      <4> QED BY <2>6, <4>1
    <3> QED BY <3>1, <3>2
  <2> QED BY <2>9 DEF Has
<1>8. target \in Place /\ contents \in [Place -> SUBSET Item]
  BY <1>1, <1>3 DEF IInv, Types, TypeOK
<1>9. contents' = contents \/ \E X : contents' = [contents EXCEPT ![target] = @ \cup X]
  BY DEF CreateEntry, CreateDisk
<1>10. /\ \A q \in Place : q # target => contents'[q] = contents[q]
       /\ "root_size" \in contents[target] => "root_size" \in contents'[target]
  BY <1>8, <1>9
<1>11. Head(todo) # "yldrd.mbr"
  BY <1>1, Sets
<1>12. Named' \subseteq Named
  <2>1. CASE CreateEntry
    <3>1. bcd' = bcd \cup {[id |-> runs, at |-> None, mbr |-> Mbr]} /\ reg' = reg
      BY <1>1, <2>1 DEF CreateEntry
    <3>2. ASSUME NEW e \in bcd', e.at \in Place PROVE e \in bcd
      BY <3>1, <3>2, NoneAssumption
    <3> QED BY <3>1, <3>2 DEF Named
  <2>2. CASE CreateDisk
    <3>1. bcd' = bcd /\ reg' = reg
      BY <1>1, <2>2 DEF CreateDisk
    <3> QED BY <3>1 DEF Named
  <2> QED BY <2>1, <2>2
<1> QED BY <1>1, <1>3, <1>6, <1>7, <1>10, <1>11, <1>12, WritingServed

\* The steps of the lists that write.
LEMMA WriteServed == ASSUME IInv, IInv', Work, Served, Task, job # "uninstall" PROVE Served'
<1>0. contents \in [Place -> SUBSET Item] /\ reg \in [dir : PlaceOrNone, exe : PlaceOrNone, vista : Id \cup {None}]
  BY DEF IInv, Types, TypeOK
<1>1. CASE \E h, item : Adds(h, item)
  <2>1. PICK h, item : Adds(h, item)
    BY <1>1
  <2>2. Doing(h) /\ Done /\ contents' = [contents EXCEPT ![target] = @ \cup {item}] /\ UNCHANGED <<reg, bcd>>
    BY <2>1 DEF Adds
  <2> QED BY <2>2, OneStepServed, NamedStays
<1>2. CASE RemoveOldFiles \/ UnlinkKernel
  <2>1. PICK h \in {"rmtree_winboot", "unlink_kernel"}, item \in {"winboot", "kernel"} : Drops(h, item)
    BY <1>2 DEF RemoveOldFiles, UnlinkKernel
  <2>2. Doing(h) /\ Done /\ contents' = [contents EXCEPT ![target] = @ \ {item}] /\ UNCHANGED <<reg, bcd>>
    BY <2>1 DEF Drops
  <2> QED BY <2>2, OneStepServed, NamedStays
<1>3. CASE SetUninstallString \/ SetInstallationDir
  <2>1. PICK h : /\ Doing(h) /\ Done /\ UNCHANGED <<contents, bcd>>
                 /\ reg' = [reg EXCEPT !.exe = target] \/ reg' = [reg EXCEPT !.dir = target]
    BY <1>3 DEF SetUninstallString, SetInstallationDir, SetRegistry
  <2>2. reg'.vista = reg.vista
    BY <1>0, <2>1
  <2> QED BY <2>1, <2>2, OneStepServed, NamedStays
<1>4. CASE ClearVistaBootDrive
  <2>1. Doing("VistaBootDrive") /\ Done /\ reg' = [reg EXCEPT !.vista = None] /\ contents' = contents
    BY <1>4 DEF ClearVistaBootDrive, SetRegistry
  <2>2. reg'.vista = None
    BY <1>0, <2>1
  <2> QED BY <2>1, <2>2, OneStepServed
<1>5. CASE RecordEntry
  <2>1. Doing("record_entry") /\ Done /\ reg' = [reg EXCEPT !.vista = runs] /\ contents' = contents
    BY <1>5 DEF RecordEntry, SetRegistry
  <2>2. reg'.vista = runs
    BY <1>0, <2>1
  <2> QED BY <2>1, <2>2, OneStepServed
<1>6. CASE \/ DeleteEntry \/ UndoBootini \/ UnlinkWinbootFile \/ CopyBootFile \/ ModifyBootini
           \/ AlreadyModified \/ SkipDisk
  <2>1. PICK h : Doing(h) /\ Done /\ UNCHANGED <<contents, reg>> /\ bcd' \subseteq bcd
    BY <1>6 DEF DeleteEntry, UndoBootini, UnlinkWinbootFile, CopyBootFile, ModifyBootini,
       AlreadyModified, SkipDisk, host
  <2> QED BY <2>1, OneStepServed, NamedStays
<1>7. CASE DisplayEntry
  <2>1. Doing("set_entry") /\ Done /\ UNCHANGED <<contents, reg>>
    BY <1>7 DEF DisplayEntry
  <2>2. reg'.vista = None
    BY <2>1, AfterStep DEF ReadyFor
  <2> QED BY <2>1, <2>2, OneStepServed
<1>8. CASE RemoveFile \/ RemoveDir \/ RemoveRegistryKey
  <2>1. PICK h \in Removing : Doing(h)
    BY <1>8 DEF RemoveFile, RemoveDir, RemoveRegistryKey, SetRegistry, RmTreeSteps, Removing
  <2>2. pc = "tasks" /\ todo # <<>> /\ Head(todo) = h /\ todo \in Seq(Allowed)
    BY <2>1 DEF Doing, IInv, ListOK
  <2>3. h \in Allowed
    BY <2>2, TailOf
  <2> QED BY <2>3 DEF Allowed, Installs, Undoing, Writing, Removing
<1> QED
  BY <1>1, <1>2, <1>3, <1>4, <1>5, <1>6, <1>7, <1>8, MoreServed
  DEF Task, CreateDirStructure, CopyUninstaller, CopyInstallationFiles, GetIso, ExtractKernel,
      ModifyGrubConfiguration, SetEndOfFile

\* The steps of an uninstallation take the entry off before the files it names.
LEMMA RemoveServed == ASSUME IInv, IInv', Work, Served, Task, job = "uninstall" PROVE Served'
<1>0. contents \in [Place -> SUBSET Item] /\ reg \in [dir : PlaceOrNone, exe : PlaceOrNone, vista : Id \cup {None}]
  BY DEF IInv, Types, TypeOK
<1>1. PICK h : Doing(h)
  BY DEF Task, CreateDirStructure, CopyUninstaller, SetUninstallString, SetInstallationDir,
     RemoveOldFiles, CopyInstallationFiles, GetIso, UnlinkKernel, ExtractKernel, DeleteEntry,
     ClearVistaBootDrive, UndoBootini, UnlinkWinbootFile, CopyBootFile, ModifyBootini, CreateEntry,
     AlreadyModified, DisplayEntry, RecordEntry, ModifyGrubConfiguration, SkipDisk, CreateDisk,
     SetEndOfFile, RemoveFile, RemoveDir, RemoveRegistryKey, Adds, Drops, SetRegistry
<1>2. pc = "tasks" /\ todo # <<>> /\ Head(todo) = h /\ todo \in Seq(Allowed) /\ ReadyFor(h)
  BY <1>1 DEF Doing, IInv, ListOK, Ready
<1>3. h \in Uninstalls
  BY <1>2, TailOf DEF Allowed
<1>4. ~Creates /\ ~Creates'
  <2>1. job' = job
    BY DEF Task, CreateDirStructure, CopyUninstaller, SetUninstallString, SetInstallationDir,
     RemoveOldFiles, CopyInstallationFiles, GetIso, UnlinkKernel, ExtractKernel, DeleteEntry,
     ClearVistaBootDrive, UndoBootini, UnlinkWinbootFile, CopyBootFile, ModifyBootini, CreateEntry,
     AlreadyModified, DisplayEntry, RecordEntry, ModifyGrubConfiguration, SkipDisk, CreateDisk,
     SetEndOfFile, RemoveFile, RemoveDir, RemoveRegistryKey, Adds, Drops, SetRegistry, Done, proc
  <2> QED BY <2>1 DEF Creates
<1>5. CASE reg'.vista = None
  <2>1. (IInv /\ reg.vista = None => Named = {})'
    BY NothingNamed, PTL
  <2> QED BY <1>4, <1>5, <2>1 DEF Served
<1>6. CASE h \in Removing /\ reg'.vista # None
  <2>1. reg.vista = None
    BY <1>2, <1>6 DEF ReadyFor, Removing
  <2>2. reg' = reg \/ reg' = NoValues
    BY <1>1, <1>2, <1>6 DEF Task, CreateDirStructure, CopyUninstaller, SetUninstallString, SetInstallationDir,
     RemoveOldFiles, CopyInstallationFiles, GetIso, UnlinkKernel, ExtractKernel, DeleteEntry,
     ClearVistaBootDrive, UndoBootini, UnlinkWinbootFile, CopyBootFile, ModifyBootini, CreateEntry,
     AlreadyModified, DisplayEntry, RecordEntry, ModifyGrubConfiguration, SkipDisk, CreateDisk,
     SetEndOfFile, RemoveFile, RemoveDir, RemoveRegistryKey, Adds, Drops, SetRegistry, Doing, Removing,
     host
  <2> QED BY <1>6, <2>1, <2>2 DEF NoValues
<1>7. CASE h \in Undoing /\ reg'.vista # None
  <2>1. DeleteEntry \/ ClearVistaBootDrive \/ UndoBootini \/ UnlinkWinbootFile
    BY <1>2, <1>7, Sets DEF Task, CreateDirStructure, CopyUninstaller, SetUninstallString, SetInstallationDir,
     RemoveOldFiles, CopyInstallationFiles, GetIso, UnlinkKernel, ExtractKernel,
     CopyBootFile, ModifyBootini, CreateEntry,
     AlreadyModified, DisplayEntry, RecordEntry, ModifyGrubConfiguration, SkipDisk, CreateDisk,
     SetEndOfFile, RemoveFile, RemoveDir, RemoveRegistryKey, Adds, Drops, SetRegistry, Doing, Undoing,
     RmTreeSteps
  <2>2. ~ClearVistaBootDrive
    BY <1>0, <1>7 DEF ClearVistaBootDrive, SetRegistry
  <2>3. /\ UNCHANGED <<contents, reg>> /\ bcd' \subseteq bcd /\ bootfiles' \subseteq bootfiles
        /\ UNCHANGED bootloader
    BY <2>1, <2>2 DEF DeleteEntry, UndoBootini, UnlinkWinbootFile, Done, windows
  <2>4. Named' \subseteq Named
    BY <2>3, NamedStays
  <2>5. BootEntryFound' => BootEntryFound
    <3>1. (IInv => (BootEntryFound <=> /\ bootloader = "vista" /\ {"yldr", "yldr.mbr"} \subseteq bootfiles
                                       /\ reg.vista # None))'
      BY BootEntry, PTL
    <3> QED BY <2>3, <3>1, BootEntry
  <2>6. PreInstallPath' = PreInstallPath /\ RootDiskFound' = RootDiskFound
    BY <2>3 DEF PreInstallPath, LoopAt, RootDiskFound
  <2>7. NeedfixOnHost # 0 => NeedfixOnHost' # 0
    BY <2>3, <2>5, <2>6 DEF NeedfixOnHost
  <2> QED BY <1>4, <2>3, <2>4, <2>6, <2>7 DEF Served, Repairable
<1> QED BY <1>3, <1>5, <1>6, <1>7 DEF Uninstalls

\* The walk between the lists leaves the host alone.
LEMMA WalkServed ==
    ASSUME IInv, Work, Served, UNCHANGED <<contents, reg, bcd, bootini, bootfiles, bootloader>>, ~Creates'
    PROVE  Served'
<1>1. \A p \in Named : "winboot" \in contents[p] \/ Repairable(p)
  BY ServedIsLive
<1>2. Named' = Named
  BY DEF Named
<1>3. PreInstallPath' = PreInstallPath /\ NeedfixOnHost' = NeedfixOnHost
  BY HostStays
<1> QED BY <1>1, <1>2, <1>3 DEF Served, Repairable

\* An installation finds no entry recorded; a fix is of the place found.
LEMMA BeginServed ==
    ASSUME IInv, CleanLook, Work, Work', Served, RunFixboot \/ ReceiveSettings
    PROVE  Served'
<1>1. /\ UNCHANGED <<contents, reg, bcd, command, runs>> /\ pc' = "tasks" /\ ~Creates /\ Creates'
  BY DEF RunFixboot, ReceiveSettings, Begin, host, Creates
<1>2. Named' = Named
  BY <1>1 DEF Named
<1>3. CASE RunFixboot
  <2>1. job' = "fix" /\ todo' = FixSteps /\ target' = info.pre1 /\ pc = "fix_page" /\ info.needfix # 0
    BY <1>3 DEF RunFixboot, Begin
  <2>2. NeedfixOnHost # 0 /\ target' = PreInstallPath
    BY <2>1 DEF Work, Walking
  <2>3. RootDiskFound
    BY <2>2 DEF NeedfixOnHost
  <2>4. target' \in Loop /\ "root_size" \in contents[target']
    BY <2>2, <2>3, RootIsInLoop DEF RootDiskFound
  <2>5. Has(todo', "yldrd.mbr")
    BY <2>1, ListsComplete
  <2>6. \A p \in Named : "winboot" \in contents[p] \/ p = target'
    BY <1>1, <2>2 DEF Served, Repairable
  <2> QED BY <1>1, <1>2, <2>1, <2>4, <2>5, <2>6 DEF Served
<1>4. CASE ReceiveSettings
  <2>1. job' = "install" /\ pc = "page" /\ \E kind : todo' = InstallSteps(kind)
    BY <1>4 DEF ReceiveSettings, Begin
  <2>2. Named = {}
    <3>1. CASE command = "install"
      <4>1. \A p \in Place : contents[p] = {}
        BY <2>1, <3>1 DEF CleanLook
      <4> QED BY <4>1 DEF IInv, MenuInPlace, Named
    <3>2. CASE command = "cd_boot"
      BY <2>1, <3>2, NothingNamed DEF Work, Walking, Hosting, Unbooted
    <3> QED BY <2>1, <3>1, <3>2 DEF IInv, Types, Work, Walking
  <2>3. Has(todo', "yldrd.mbr") \/ reg.vista = None
    <3>1. command # "cd_boot" => Has(todo', "yldrd.mbr")
      BY <2>1, ListsComplete
    <3>2. command = "cd_boot" => reg.vista = None
      BY <2>1 DEF Work, Walking, Hosting, Unbooted
    <3> QED BY <3>1, <3>2
  <2> QED BY <1>1, <1>2, <2>1, <2>2, <2>3 DEF Served
<1> QED BY <1>3, <1>4

LEMMA ApplicationServed == ASSUME IInv, CleanLook, Work, Work', Served, Application PROVE Served'
<1>1. CASE RunFixboot \/ ReceiveSettings
  BY <1>1, BeginServed
<1>2. CASE \/ \E c \in Commands, e \in {"setup", "same", "uninstall"} : Start(c, e)
           \/ Dispatch \/ NothingToUninstall \/ RunPreviousUninstaller \/ ShowFixSettings
           \/ ConfirmUninstall \/ AfterTasks \/ LookAgain \/ Exit \/ Die
  <2>1. UNCHANGED <<contents, reg, bcd, bootini, bootfiles, bootloader>> /\ ~Creates'
    BY <1>2 DEF Start, Dispatch, NothingToUninstall, RunPreviousUninstaller, ShowFixSettings,
       ConfirmUninstall, AfterTasks, LookAgain, Exit, Die, Go, Begin, Idle, host, windows, Creates
  <2> QED BY <2>1, WalkServed
<1> QED BY <1>1, <1>2 DEF Application

\* What the recorded entry names can be started, or is about to be repaired.
THEOREM EntryIsServed == Spec => []Served
<1>1. Init => Served
  BY DEF Init, Served, Named, Creates
<1>2. Init => CleanLook
  BY DEF Init, CleanLook
<1>3. IInv /\ IInv' /\ CleanLook /\ Work /\ Work' /\ Served /\ [Next]_ivars => Served'
  <2> SUFFICES ASSUME IInv, IInv', CleanLook, Work, Work', Served, [Next]_ivars PROVE Served'
    OBVIOUS
  <2>1. CASE Task
    BY <2>1, WriteServed, RemoveServed
  <2>2. CASE Application
    BY <2>2, ApplicationServed
  <2>3. CASE ReinstallWindows
    BY <2>3 DEF ReinstallWindows, Served, Named, Creates, Work
  <2>4. CASE UNCHANGED ivars
    <3>1. UNCHANGED <<contents, reg, bcd, bootini, bootfiles, bootloader, runs, pc, job, target, todo>>
      BY <2>4 DEF ivars, host, windows, proc
    <3>2. PreInstallPath' = PreInstallPath /\ NeedfixOnHost' = NeedfixOnHost
      BY <3>1, HostStays
    <3> QED BY <3>1, <3>2 DEF Served, Named, Repairable, Creates, Early
  <2> QED BY <2>1, <2>2, <2>3, <2>4 DEF Next
<1>4. IInv /\ CleanLook /\ [Next]_ivars => CleanLook'
  BY LookIsClean
<1> QED BY <1>1, <1>2, <1>3, <1>4, HostInvariant, WorkInvariant, PTL DEF Spec

\* What the boot menu offers can be started wherever a process dies, but for an
\* entry whose repair will be offered again (modify_bcd, modify_bootini,
\* undo_bootloader, copy_installation_files).
THEOREM MenuStaysLive == Spec => []MenuIsLive
<1>1. IInv /\ Work /\ Served => MenuIsLive
  <2>1. ASSUME IInv, Work, Served, NEW e \in bcd, e.id = reg.vista, e.at \in Place
        PROVE  "winboot" \in contents[e.at] \/ (e.at = PreInstallPath /\ NeedfixOnHost # 0)
    <3>1. e.at \in Named
      BY <2>1 DEF Named
    <3> QED BY <2>1, <3>1, ServedIsLive DEF Repairable
  <2> QED BY <2>1 DEF IInv, MenuInPlace, MenuIsLive
<1> QED BY <1>1, HostInvariant, WorkInvariant, EntryIsServed, PTL

\* Whatever died before it, an installation or a repair that ends has done its
\* work, but for an entry that bcdedit refused and a swap disk without length.
THEOREM InstallationIsComplete == Spec => []InstalledIsComplete
<1>1. ASSUME IInv, Work, Served, ListDone, job \in {"install", "fix"}
      PROVE  /\ {"dir", "uninstaller", "winboot", "kernel", "grub"} \subseteq contents[target]
             /\ job = "install" => "iso" \in contents[target]
             /\ job = "install" /\ Flavour = "loop" => Disk \cup Sized \subseteq contents[target]
             /\ job = "fix" => Disk \cup {"root_size"} \subseteq contents[target]
             /\ reg.dir = target /\ reg.exe = target
             /\ Booted
  <2>1. Creates /\ todo = <<>> /\ ~Pending
    BY <1>1 DEF ListDone, Creates, Pending
  <2>2. \A y : ~Has(todo, y)
    BY <2>1 DEF Has
  <2>3. Worked /\ SizedDisks /\ OnlyOurs
    BY <1>1, <2>1, <2>2 DEF Work, Working
  <2>4. Required \cap Item \subseteq contents[target] /\ "dir" \in contents[target]
    BY <2>2, <2>3 DEF Worked
  <2>5. {"dir", "uninstaller", "winboot", "kernel", "grub"} \subseteq contents[target]
    BY <2>4, Sets DEF Required, ToServe
  <2>6. job = "install" => "iso" \in contents[target]
    BY <2>4, Sets DEF Required
  <2>7. job = "fix" \/ Flavour = "loop" => Disk \subseteq contents[target]
    BY <2>4, Sets DEF Required
  <2>8. job = "install" /\ Flavour = "loop" => Sized \subseteq contents[target]
    BY <2>1, <2>3, <2>7 DEF SizedDisks, Sized
  <2>9. job = "fix" => "root_size" \in contents[target]
    BY <1>1, <2>1 DEF Served
  <2>10. reg.dir = target /\ reg.exe = target
    BY <2>2, <2>3 DEF Worked
  <2>11. Booted
    <3>1. bootfiles = {Loader, Mbr}
      BY <2>2, <2>3 DEF Worked, OnlyOurs
    <3>2. ToSet(WinbootFile) \cap bootfiles = {Loader, Mbr}
      BY <3>1, Sets
    <3>3. bootloader \in {"xp", "vista"}
      BY <1>1, BootloadersAssumption DEF IInv, Types, TypeOK
    <3>4. CASE bootloader = "xp"
      <4>1. bootini = {BootLine(Flavour)}
        BY <2>2, <2>3, <3>4 DEF Worked, OnlyOurs
      <4> QED BY <3>2, <3>4, <4>1 DEF Booted
    <3>5. CASE bootloader = "vista"
      <4>1. reg.vista # None
        BY <2>1, <2>2, <2>3, <3>5 DEF Worked
      <4>2. \E e \in bcd : e.id = reg.vista /\ e.at \in {target, Refused} /\ e.mbr = Mbr
        BY <2>3, <4>1 DEF OnlyOurs
      <4> QED BY <3>2, <3>5, <4>2 DEF Booted
    <3> QED BY <3>3, <3>4, <3>5
  <2> QED BY <2>5, <2>6, <2>7, <2>8, <2>9, <2>10, <2>11
<1>2. IInv /\ Work /\ Served => InstalledIsComplete
  BY <1>1 DEF InstalledIsComplete
<1> QED BY <1>2, HostInvariant, WorkInvariant, EntryIsServed, PTL

\* A fix that dies is offered again: with no fix to offer, the files it would
\* restore are there (fetch_basic_info and chk_needfix of win32/backend.py).
THEOREM FixesAreOfferedAgain == Spec => []FixIsOfferedAgain
<1>1. ASSUME Work, RootDiskFound, NeedfixOnHost = 0 PROVE ToServe \subseteq contents[PreInstallPath]
  <2>1. reg.dir # None /\ BootEntryFound
    <3>1. CASE reg.dir = None /\ BootEntryFound
      BY <1>1, <3>1 DEF NeedfixOnHost
    <3>2. CASE reg.dir # None /\ ~BootEntryFound
      BY <1>1, <3>2 DEF NeedfixOnHost
    <3>3. CASE reg.dir = None /\ ~BootEntryFound
      BY <1>1, <3>3 DEF NeedfixOnHost
    <3> QED BY <3>1, <3>2, <3>3
  <2>2. PICK p \in Loop : ToServe \subseteq contents[p]
    BY <1>1, <2>1 DEF Work, Hosting
  <2>3. contents[p] # {}
    BY <2>2 DEF ToServe
  <2>4. p = PreInstallPath
    BY <1>1, <2>3, RootIsInLoop DEF Work, Hosting
  <2> QED BY <2>2, <2>4
<1>2. Work => FixIsOfferedAgain
  BY <1>1 DEF FixIsOfferedAgain, ToServe
<1> QED BY <1>2, WorkInvariant, PTL

\* A fix begun from the installer repairs what made it necessary, on a host with
\* boot configuration data.
THEOREM FixesFix == Spec => []FixedFromInstaller
<1>1. ASSUME IInv, Work, bootloader = "vista", command # "cd_boot", ListDone, job = "fix"
      PROVE  NeedfixOnHost = 0
  <2>1. Creates /\ todo = <<>> /\ ~Pending /\ pc = "tasks"
    BY <1>1 DEF ListDone, Creates, Pending
  <2>2. \A y : ~Has(todo, y)
    BY <2>1 DEF Has
  <2>3. Worked /\ flag /\ target \in Place
    BY <1>1, <2>1 DEF Work, Working, Walking, IInv, Types
  <2>4. Loader = "yldr" /\ Mbr = "yldr.mbr"
    BY <1>1, <2>3 DEF Loader, Mbr, Flavour
  <2>5. reg.dir = target /\ reg.vista # None /\ {"yldr", "yldr.mbr"} \subseteq bootfiles
    BY <1>1, <2>1, <2>2, <2>3, <2>4 DEF Worked
  <2>6. reg.dir # None /\ BootEntryFound
    BY <1>1, <2>3, <2>5, BootEntry, NoneAssumption
  <2> QED BY <2>6 DEF NeedfixOnHost
<1>2. IInv /\ Work => FixedFromInstaller
  BY <1>1 DEF FixedFromInstaller
<1> QED BY <1>2, HostInvariant, WorkInvariant, PTL
=============================================================================
