------------------------ MODULE InstallationSizeProofs ------------------------
(* What the settings page confirms fits on its drive, for every set of       *)
(* drives, every amount of free space and every size of ISO.                 *)
EXTENDS InstallationSize, TLAPS

\* What is confirmed is one of the sizes of the drive that is selected, and the
\* disks are those of the size confirmed.
Confirmed ==
    /\ free \in [Drive -> Nat] /\ drive \in Drive \cup {None}
    /\ page = "opening" => size = None /\ asked = None
    /\ size # None => drive \in Drive /\ size \in Sizes(drive, skip)
    /\ page \in {"confirmed", "sized"} => size # None /\ asked = size * 1000
    /\ page = "sized" => disks = DisksOf(asked, drive \in fat)

\* A cut root takes no more than what was to be cut (choose_disk_sizes).
LEMMA DisksFit ==
    ASSUME NEW total \in Nat, NEW isFat \in BOOLEAN, total >= 256
    PROVE  LET d == DisksOf(total, isFat) IN
             /\ d \in [root : Int, swap : Int, home : Int, usr : Int]
             /\ d.root + d.swap + d.home + d.usr <= total
<1>1. CASE ~isFat
  BY <1>1 DEF DisksOf
<1>2. CASE isFat
  <2> DEFINE root == total - 256
  <2>1. root \in Nat
    OBVIOUS
  <2>2. CASE root > 8500
    BY <1>2, <2>1, <2>2 DEF DisksOf, DisksOnFat, Lesser
  <2>3. CASE root > 5500 /\ root <= 8500
    BY <1>2, <2>1, <2>3 DEF DisksOf, DisksOnFat
  <2>4. CASE root > 4000 /\ root <= 5500
    BY <1>2, <2>1, <2>4 DEF DisksOf, DisksOnFat
  <2>5. CASE root <= 4000
    BY <1>2, <2>1, <2>5 DEF DisksOf, DisksOnFat
  <2> QED
    BY <2>1, <2>2, <2>3, <2>4, <2>5
<1> QED
  BY <1>1, <1>2

\* Showing the sizes of a drive selects one of them or nothing.
LEMMA ShowSelects ==
    ASSUME NEW d \in Drive, NEW s, ShowSizes(d, Sizes(d, s))
    PROVE  drive' = d /\ (size' # None => size' \in Sizes(d, s))
BY DEF ShowSizes, AsAsked

\* What is confirmed stays what was shown, from the first page to the disks.
THEOREM ConfirmedHolds == Spec => []Confirmed
<1>1. Init => Confirmed
  BY FreeSpaceAssumption DEF Init, Confirmed
<1>2. Confirmed /\ [Next]_svars => Confirmed'
  <2> SUFFICES ASSUME Confirmed, [Next]_svars
               PROVE  Confirmed'
    OBVIOUS
  <2>a. ASSUME free' = free
        PROVE  \A d, s : Sizes(d, s)' = Sizes(d, s')
    BY <2>a DEF Sizes
  <2>1. CASE Quit
    BY <2>1 DEF Quit, Confirmed, Sizes
  <2>2. CASE Open
    <3>1. CASE Offered(skip') = {} /\ page' = "open" /\ UNCHANGED <<drive, size, asked>>
      BY <2>2, <3>1 DEF Open, Confirmed
    <3>2. CASE \E d \in Drive : ShowSizes(d, Sizes(d, skip')) /\ page' \in {"error", "open"}
      <4>1. PICK d \in Drive : ShowSizes(d, Sizes(d, skip')) /\ page' \in {"error", "open"}
        BY <3>2
      <4>2. drive' = d /\ (size' # None => size' \in Sizes(d, skip'))
        BY <4>1, ShowSelects
      <4> QED
        BY <2>2, <4>1, <4>2 DEF Open, Confirmed, Sizes
    <3> QED
      BY <2>2, <3>1, <3>2 DEF Open
  <2>3. CASE ChangeDrive
    <3>1. PICK d \in Drive : ShowSizes(d, Sizes(d, skip))
      BY <2>3 DEF ChangeDrive, Offered
    <3>2. drive' = d /\ (size' # None => size' \in Sizes(d, skip))
      BY <3>1, ShowSelects
    <3> QED
      BY <2>3, <3>1, <3>2 DEF ChangeDrive, Confirmed, Sizes
  <2>4. CASE ChangeSize
    BY <2>4, NoneAssumption DEF ChangeSize, Confirmed, Sizes
  <2>5. CASE OnInstall
    BY <2>5 DEF OnInstall, Confirmed, Sizes
  <2>6. CASE ChooseDiskSizes
    BY <2>6 DEF ChooseDiskSizes, Confirmed, Sizes
  <2>7. CASE UNCHANGED svars
    BY <2>7 DEF svars, Confirmed, Sizes, DisksOf, DisksOnFat, Lesser
  <2> QED
    BY <2>1, <2>2, <2>3, <2>4, <2>5, <2>6, <2>7 DEF Next
<1> QED
  BY <1>1, <1>2, PTL DEF Spec

\* The disks and the ISO fit on the drive they go to, for every drive, every
\* amount of free space and every size of the ISO (FitsOnDrive).
THEOREM DisksFitOnDrive == Spec => []FitsOnDrive
<1>1. Confirmed => FitsOnDrive
  <2> SUFFICES ASSUME Confirmed, page = "sized"
               PROVE  drive # None /\ Total + MaxIso <= free[drive]
    BY DEF FitsOnDrive
  <2>1. size \in Sizes(drive, skip) /\ drive \in Drive /\ asked = size * 1000
        /\ disks = DisksOf(asked, drive \in fat)
    BY DEF Confirmed
  <2>2. size \in 1 .. 30 /\ asked + MaxIso + 100 <= free[drive]
    BY <2>1 DEF Sizes
  <2>3. asked \in Nat /\ asked >= 256
    BY <2>1, <2>2
  <2>4. Total \in Int /\ Total <= asked
    <3> DEFINE isFat == drive \in fat
    <3>1. isFat \in BOOLEAN
      OBVIOUS
    <3> HIDE DEF isFat
    <3>2. LET d == DisksOf(asked, isFat) IN
             /\ d \in [root : Int, swap : Int, home : Int, usr : Int]
             /\ d.root + d.swap + d.home + d.usr <= asked
      BY <2>3, <3>1, DisksFit
    <3>3. disks = DisksOf(asked, isFat)
      BY <2>1 DEF isFat
    <3> QED
      BY <3>2, <3>3 DEF Total
  <2>5. free[drive] \in Nat
    BY <2>1 DEF Confirmed
  <2> QED
    BY <2>1, <2>2, <2>3, <2>4, <2>5, MaxIsoAssumption, NoneAssumption DEF Drive
<1> QED
  BY <1>1, ConfirmedHolds, PTL

\* A drive that is offered has a size to offer, although populate_drive_list
\* rounds to 1024 MB and populate_size_list counts in 1000 (OfferedHasRoom).
THEOREM OfferedDrivesHaveRoom == Spec => []OfferedHasRoom
<1>1. Confirmed => OfferedHasRoom
  <2> SUFFICES ASSUME Confirmed, ~skip, NEW d \in Offered(skip)
               PROVE  Sizes(d, skip) # {}
    BY DEF OfferedHasRoom
  <2>1. d \in Drive /\ free[d] \in Nat /\ Rounded(d) > Needed
    BY DEF Offered, Confirmed
  <2>2. PICK gb \in 1 .. 30 : MinDisk = gb * 1000
    BY MinDiskAssumption
  <2>3. free[d] >= Rounded(d)
    BY <2>1 DEF Rounded
  <2>4. gb * 1000 + MaxIso + 100 <= free[d]
    BY <2>1, <2>2, <2>3, MaxIsoAssumption DEF Needed, Rounded
  <2>5. gb * 1000 >= MinDisk
    BY <2>2
  <2>6. gb \in Sizes(d, skip)
    BY <2>4, <2>5 DEF Sizes
  <2> QED
    BY <2>6
<1> QED
  BY <1>1, ConfirmedHolds, PTL

\* The parts of the disks are never negative: a drive is cut only where enough is
\* left for each part.
LEMMA DisksAreNat ==
    ASSUME NEW total \in Nat, NEW isFat \in BOOLEAN, total >= 256
    PROVE  DisksOf(total, isFat) \in [{"root", "swap", "home", "usr"} -> Nat]
<1>1. CASE ~isFat
  BY <1>1 DEF DisksOf
<1>2. CASE isFat
  <2> DEFINE root == total - 256
  <2>1. root \in Nat /\ DisksOf(total, isFat) = DisksOnFat(root)
    BY <1>2 DEF DisksOf
  <2> HIDE DEF root
  <2>2. CASE root > 8500
    BY <2>1, <2>2 DEF DisksOnFat, Lesser
  <2>3. CASE root > 5500 /\ root <= 8500
    BY <2>1, <2>3 DEF DisksOnFat
  <2>4. CASE root > 4000 /\ root <= 5500
    BY <2>1, <2>4 DEF DisksOnFat
  <2>5. CASE root <= 4000
    BY <2>1, <2>5 DEF DisksOnFat
  <2> QED
    BY <2>1, <2>2, <2>3, <2>4, <2>5
<1> QED
  BY <1>1, <1>2

Amounts == {gb * 1000 : gb \in 1 .. 30} \cup {None}

\* Whatever is shown or typed, the size asked for is one of the list or none.
THEOREM SizesTypeCorrect == Spec => []TypeOK
<1>1. Init => TypeOK
  BY DEF Init, TypeOK, NoDisks
<1>2. Confirmed /\ TypeOK /\ [Next]_svars => TypeOK'
  <2> SUFFICES ASSUME Confirmed, TypeOK, [Next]_svars PROVE TypeOK'
    OBVIOUS
  <2>0. asked \in Amounts
    BY DEF TypeOK, Amounts
  <2>1. ASSUME NEW d \in Drive, NEW sk \in BOOLEAN, ShowSizes(d, Sizes(d, sk))
        PROVE  drive' \in Drive /\ drive' # None /\ asked' \in Amounts
               /\ (size' # None => size' \in Sizes(d, sk))
    <3>1. drive' = d /\ d # None /\ (size' # None => size' \in Sizes(d, sk))
      BY <2>1, ShowSelects, NoneAssumption DEF Drive
    <3>2. asked' = asked \/ asked' = None \/ (size' # None /\ asked' = size' * 1000)
      BY <2>1 DEF ShowSizes
    <3>3. size' # None => size' \in 1 .. 30
      BY <3>1 DEF Sizes
    <3> QED BY <2>0, <3>1, <3>2, <3>3 DEF Amounts
  <2>2. CASE Quit
    BY <2>2 DEF Quit, TypeOK, Sizes
  <2>3. CASE Open
    <3>1. skip' \in BOOLEAN
      BY <2>3 DEF Open
    <3>2. CASE UNCHANGED <<drive, size, asked>> /\ page' = "open"
      BY <2>3, <3>1, <3>2 DEF Open, TypeOK, Confirmed
    <3>3. CASE \E d \in Drive : ShowSizes(d, Sizes(d, skip')) /\ page' \in {"error", "open"}
      <4>1. PICK d \in Drive : ShowSizes(d, Sizes(d, skip')) /\ page' \in {"error", "open"}
        BY <3>3
      <4>2. drive' = d
        BY <4>1 DEF ShowSizes
      <4>3. /\ drive' \in Drive /\ drive' # None /\ asked' \in Amounts
            /\ size' # None => size' \in Sizes(d, skip')
        BY <2>1, <3>1, <4>1
      <4>4. UNCHANGED <<free, fat, disks>>
        BY <2>3 DEF Open
      <4>5. Sizes(drive, skip)' = Sizes(d, skip')
        BY <4>4, <4>2 DEF Sizes
      <4> QED BY <3>1, <4>1, <4>3, <4>4, <4>5 DEF TypeOK, Amounts
    <3> QED BY <2>3, <3>2, <3>3 DEF Open
  <2>4. CASE ChangeDrive
    <3>1. PICK d \in Drive : ShowSizes(d, Sizes(d, skip))
      BY <2>4 DEF ChangeDrive, Offered
    <3>2. drive' = d /\ skip \in BOOLEAN
      BY <3>1 DEF ShowSizes, TypeOK
    <3> QED BY <2>1, <2>4, <3>1, <3>2 DEF ChangeDrive, TypeOK, Sizes, Amounts
  <2>5. CASE ChangeSize
    BY <2>5 DEF ChangeSize, TypeOK, Sizes
  <2>6. CASE OnInstall
    <3>1. size \in Sizes(drive, skip)
      BY <2>6 DEF OnInstall, TypeOK
    <3>2. size \in 1 .. 30
      BY <3>1 DEF Sizes
    <3> QED BY <2>6, <3>2 DEF OnInstall, TypeOK, Sizes
  <2>7. CASE ChooseDiskSizes
    <3>1. size # None /\ asked = size * 1000
      BY <2>7 DEF ChooseDiskSizes, Confirmed
    <3>2. size \in 1 .. 30
      BY <3>1 DEF TypeOK, Sizes
    <3>3. asked \in Nat /\ asked >= 256
      BY <3>1, <3>2
    <3>4. (drive \in fat) \in BOOLEAN
      OBVIOUS
    <3>5. disks' \in [{"root", "swap", "home", "usr"} -> Nat]
      BY <2>7, <3>3, <3>4, DisksAreNat DEF ChooseDiskSizes
    <3> QED BY <2>7, <3>5 DEF ChooseDiskSizes, TypeOK, Sizes
  <2>8. CASE UNCHANGED svars
    BY <2>8 DEF svars, TypeOK, Sizes
  <2> QED BY <2>2, <2>3, <2>4, <2>5, <2>6, <2>7, <2>8 DEF Next
<1> QED
  BY <1>1, <1>2, ConfirmedHolds, PTL DEF Spec
=============================================================================
