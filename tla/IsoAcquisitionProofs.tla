------------------------- MODULE IsoAcquisitionProofs -------------------------
(***************************************************************************)
(* What is installed is taken from one image that has been checked, for    *)
(* every set of images and files and any number of changes of the disc.    *)
(***************************************************************************)
EXTENDS IsoAcquisition, TLAPS

\* What the program remembers of the disc: read once, and read before a
\* distro was chosen for it.
Remembered ==
    /\ cdDistro # None => cdInfo # None
    /\ CheckArch /\ cdDistro # None => cdInfo.arch = cdDistro
    /\ changes = 0 /\ cdInfo # None => cdInfo = disc

\* What has been copied, place by place.
Copied ==
    /\ pc # "fetch" => isoPath \in {None, "installation.iso"}
    /\ pc \in {"page", "use_cd"} => isoPath = None
    /\ pc = "check_iso" =>
          /\ cdPath /\ isoPath = "installation.iso"
          /\ ~changed => iso = disc
          /\ CheckArch /\ changes = 0 => iso.arch = distro
    /\ pc \in {"extract", "grub", "done"} /\ isoPath # None /\ cdPath /\ ~changed => iso = disc

\* What has been accepted.
Accepted ==
    pc \in {"extract", "grub", "done"} /\ isoPath # None /\ ~Beta =>
        /\ iso.ours /\ iso.size /\ iso.listed
        /\ (CheckArch => changes = 0) => distro = iso.arch

\* Where the kernel has been taken from.
Extracted ==
    /\ pc = "done" => isoPath # None
    /\ pc \in {"grub", "done"} /\ isoPath # None /\ (changed => ~cdPath) => kernel = iso

QInv == TypeOK /\ Remembered /\ (command # "fix" => Copied /\ Accepted /\ Extracted)

USE ImageAssumption, FilesAssumption, CommandsAssumption, MaxChangesAssumption, NoneAssumption
    DEF Arch, Place, CheckArch, host_, infos, made

\* Nothing is remembered, copied or accepted when a process starts.
LEMMA InitHolds == Init => QInv
<1> SUFFICES ASSUME Init PROVE QInv
    OBVIOUS
<1>1. TypeOK
  <2>1. file \in [Place -> Image \cup {None}] /\ isoPath \in {None, "given"}
      BY DEF Init
  <2>2. {disc, cdInfo, iso, kernel} \subseteq Image \cup {None}
      BY DEF Init
  <2>3. /\ host \in {"i686", "amd64"} /\ command \in Commands /\ pc = "fetch"
        /\ changes = 0 /\ changed = FALSE /\ cdPath = FALSE
        /\ cdDistro = None /\ distro = None
      BY DEF Init
  <2>4. isoPath # "installation.iso" /\ isoPath \in {None, "installation.iso", "given", "drive"}
      BY <2>1
  <2>5. changes \in 0 .. MaxChanges
      BY <2>3
  <2>a. changed \in BOOLEAN /\ cdPath \in BOOLEAN
      BY <2>3, Zenon
  <2>6. {cdDistro, distro} \subseteq Arch \cup {None}
      BY <2>3
  <2> QED
      BY <2>1, <2>2, <2>3, <2>4, <2>5, <2>a, <2>6, Zenon DEF TypeOK
<1>2. Remembered
    BY DEF Init, Remembered
<1>3. Copied /\ Accepted /\ Extracted
    BY DEF Init, Copied, Accepted, Extracted
<1> QED
    BY <1>1, <1>2, <1>3 DEF QInv

\* What find_any_cd has accepted is what get_info has read.
LEMMA FetchKeeps == QInv /\ FetchBasicInfo => QInv'
BY DEF FetchBasicInfo, AnyCdDistro, IsValidCd, CdInfoRead, Fits, QInv, TypeOK, Remembered,
       Copied, Accepted, Extracted
\* The pages choose a distro; only a fix starts with an ISO.
LEMMA ConfirmKeeps == QInv /\ Confirm => QInv'
BY DEF Confirm, InstallationIso, QInv, TypeOK, Remembered, Copied, Accepted, Extracted
\* Without a CD nothing has been copied.
LEMMA NoCdKeeps == QInv /\ NoCd => QInv'
BY DEF NoCd, After, CdInfoRead, QInv, TypeOK, Remembered, Copied, Accepted, Extracted
\* What is copied is in the drive; if the disc was never changed, it is what was
\* read, and has the arch of the distro.
LEMMA CopyCdKeeps == QInv /\ CopyCd => QInv'
BY DEF CopyCd, KnownCd, IsValidCd, Fits, CdInfoRead, QInv, TypeOK, Remembered, Copied, Accepted, Extracted
\* The copy that passes is accepted as what it is itself.
LEMMA CheckPassesKeeps == QInv /\ CheckPasses => QInv'
BY DEF CheckPasses, IsValidIso, SetDistroFromArch, QInv, TypeOK, Remembered, Copied, Accepted, Extracted
\* A check is ignored only for a beta.
LEMMA CheckIgnoredKeeps == QInv /\ CheckIgnored => QInv'
BY DEF CheckIgnored, Beta, QInv, TypeOK, Remembered, Copied, Accepted, Extracted
\* A copy that does not pass is forgotten, with the CD.
LEMMA CheckFailsKeeps == QInv /\ CheckFails => QInv'
BY DEF CheckFails, After, QInv, TypeOK, Remembered, Copied, Accepted, Extracted
\* find_iso answers with a file that is_valid_iso has accepted.
LEMMA FoundIsUsable ==
    FindIso # None => FindIso \in {"folder", "backup"} /\ Usable(FindIso)
BY DEF FindIso
\* copy_iso checks the file it copies, sets the distro and forgets the CD.
LEMMA CopyIsoKeeps == QInv /\ CopyIso => QInv'
<1> SUFFICES ASSUME QInv, CopyIso PROVE QInv'
    OBVIOUS
<1>1. FindIso \in {"folder", "backup"} /\ Usable(FindIso)
    BY FoundIsUsable DEF CopyIso
<1>2. /\ file[FindIso] \in Image /\ file[FindIso] # None
      /\ IsValidIso(file[FindIso], distro, CheckArch)
    BY <1>1 DEF Usable, QInv, TypeOK
<1>3. CASE distro' = None /\ pc' = "failed" /\ UNCHANGED <<file, cdPath, isoPath, iso, changed>>
    BY <1>3 DEF CopyIso, QInv, TypeOK, Remembered, Copied, Accepted, Extracted
<1>4. CASE distro' # None /\ pc' = "extract"
  <2> DEFINE image == file[FindIso]
  <2>1. /\ iso' = image /\ isoPath' = "installation.iso" /\ ~cdPath' /\ changed' = FALSE
        /\ distro' = SetDistroFromArch(image)
        /\ UNCHANGED <<host, command, disc, changes, cdInfo, cdDistro, kernel>>
        /\ file' \in [Place -> Image \cup {None}]
      BY <1>4 DEF CopyIso, QInv, TypeOK
  <2>2. image \in Image /\ image # None /\ IsValidIso(image, distro, CheckArch)
      BY <1>2
  <2> HIDE DEF image
  <2>3. TypeOK'
    <3>1. distro' \in Arch /\ changed' \in BOOLEAN /\ cdPath' \in BOOLEAN
        BY <1>4, <2>1, <2>2 DEF QInv, TypeOK, SetDistroFromArch, CopyIso
    <3>2. {disc', cdInfo', iso', kernel'} \subseteq Image \cup {None}
        BY <2>1, <2>2 DEF QInv, TypeOK
    <3> QED
        BY <1>4, <2>1, <2>2, <3>1, <3>2 DEF QInv, TypeOK
  <2>4. Remembered'
      BY <2>1 DEF QInv, Remembered
  <2>5. Copied' /\ Extracted'
      BY <1>4, <2>1 DEF Copied, Extracted
  <2>6. Accepted'
      BY <1>4, <2>1, <2>2 DEF Accepted, IsValidIso, SetDistroFromArch
  <2> QED
      BY <2>3, <2>4, <2>5, <2>6 DEF QInv
<1> QED
    BY <1>3, <1>4 DEF CopyIso
\* extract_kernel takes the medium the ISO was made of.
LEMMA ExtractKeeps == QInv /\ ExtractKernel => QInv'
BY DEF ExtractKernel, Medium, Beta, QInv, TypeOK, Remembered, Copied, Accepted, Extracted
\* There is no configuration without an ISO.
LEMMA GrubKeeps == QInv /\ ModifyGrubConfiguration => QInv'
BY DEF ModifyGrubConfiguration, Beta, QInv, TypeOK, Remembered, Copied, Accepted, Extracted
\* A disc changed later spoils only what will still be taken from it.
LEMMA ChangeKeeps == QInv /\ ChangeDisc => QInv'
BY DEF ChangeDisc, Beta, QInv, TypeOK, Remembered, Copied, Accepted, Extracted
\* A list that has failed promises nothing.
LEMMA EndKeeps == QInv /\ (CopyCdFails \/ CheckRaises \/ CopyIsoFails \/ NoIso) => QInv'
<1> SUFFICES ASSUME QInv, CopyCdFails \/ CheckRaises \/ CopyIsoFails \/ NoIso PROVE QInv'
    OBVIOUS
<1>1. /\ pc' \in {"failed", "not_found", "not_retrieved"} /\ pc # "fetch"
      /\ UNCHANGED <<host, command, file, disc, changes, cdInfo, cdPath, cdDistro, distro,
                     isoPath, iso, kernel, changed>>
    BY DEF CopyCdFails, CheckRaises, CopyIsoFails, NoIso
<1> QED
    BY <1>1 DEF QInv, TypeOK, Remembered, Copied, Accepted, Extracted

\* The strengthening is an invariant of get_iso, extract_kernel and what comes
\* before them.
THEOREM AcquisitionInvariant == Spec => []QInv
<1>1. QInv /\ [Next]_qvars => QInv'
  <2> SUFFICES ASSUME QInv, [Next]_qvars PROVE QInv'
      OBVIOUS
  <2>1. CASE UNCHANGED qvars
      BY <2>1 DEF qvars, QInv, TypeOK, Remembered, Copied, Accepted, Extracted, Beta
  <2>2. CASE Next
      BY <2>2, FetchKeeps, ConfirmKeeps, NoCdKeeps, CopyCdKeeps, CheckPassesKeeps, CheckIgnoredKeeps,
         CheckFailsKeeps, CopyIsoKeeps, ExtractKeeps, GrubKeeps, ChangeKeeps, EndKeeps
      DEF Next
  <2> QED
      BY <2>1, <2>2
<1> QED
    BY InitHolds, <1>1, PTL DEF Spec

\* Every variable has its type, and installation.iso exists when info.iso_path
\* names it.
THEOREM MediaTypeCorrect == Spec => []TypeOK
BY AcquisitionInvariant, PTL DEF QInv

\* Kernel and ISO of an installation are of one image, unless the disc is changed
\* between copying it and extracting its kernel (copy_iso, extract_kernel).
THEOREM KernelIsOfTheIso == Spec => []KernelFitsIso
<1>1. QInv => KernelFitsIso
    BY DEF QInv, Extracted, KernelFitsIso, Made
<1> QED
    BY <1>1, AcquisitionInvariant, PTL

\* Whatever is in the drive and beside the program, and however often the disc is
\* changed, what is installed is a listed image of our product (check_iso).
THEOREM InstalledIsOurs == Spec => []AcceptedIsOurs
<1>1. QInv => AcceptedIsOurs
    BY DEF QInv, Accepted, Extracted, AcceptedIsOurs, Made
<1> QED
    BY <1>1, AcquisitionInvariant, PTL

\* The distro installed has the arch of its image (set_distro_from_arch).
THEOREM DistroFitsImage == Spec => []DistroInLine
<1>1. QInv => DistroInLine
    BY DEF QInv, Accepted, Extracted, DistroInLine, Made
<1> QED
    BY <1>1, AcquisitionInvariant, PTL

\* The installation page asks for the 32 bit distro, and until get_iso has found
\* something that is the distro it looks for.
Chosen == command = "install" /\ pc \in {"use_cd", "check_iso", "use_iso"} => distro = "i686"

\* find_iso refuses no good image when it looks for that distro.
LEMMA GoodIsUsable ==
    ASSUME distro = "i686", NEW p \in {"folder", "backup"}, Good(file[p])
    PROVE  Usable(p)
BY DEF Good, Usable, IsValidIso

\* get_iso has looked in both places when it gives up.
LEMMA GivesUpLast == Chosen /\ command = "install" /\ NoIso => IsoIsFallback'
<1> SUFFICES ASSUME Chosen, command = "install", NoIso, NEW p \in {"folder", "backup"}, Good(file[p])
             PROVE FALSE
    BY DEF IsoIsFallback, NoIso, Good
<1>1. Usable(p)
    BY GoodIsUsable DEF Chosen, NoIso
<1>2. FindIso \in {"folder", "backup"}
    BY <1>1 DEF FindIso
<1> QED
    BY <1>2 DEF NoIso

\* An ISO that could have been used is never passed over: no disc, no failed
\* copy of it and no change of it leads past find_iso (get_iso).
THEOREM AnIsoIsNotPassedOver == Spec => []IsoIsFallback
<1>1. Init => Chosen /\ IsoIsFallback
    BY DEF Init, Chosen, IsoIsFallback
<1>2. Chosen /\ IsoIsFallback /\ [Next]_qvars => (Chosen /\ IsoIsFallback)'
  <2> SUFFICES ASSUME Chosen, IsoIsFallback, [Next]_qvars PROVE (Chosen /\ IsoIsFallback)'
      OBVIOUS
  <2>1. CASE UNCHANGED qvars
      BY <2>1 DEF qvars, Chosen, IsoIsFallback, Good
  <2>2. CASE FetchBasicInfo
      BY <2>2 DEF FetchBasicInfo, Chosen, IsoIsFallback
  <2>3. CASE Confirm
      BY <2>3 DEF Confirm, Chosen, IsoIsFallback
  <2>4. CASE NoCd \/ CheckFails
    <3>1. pc' = After /\ pc \in {"use_cd", "check_iso"} /\ UNCHANGED <<command, distro>>
        BY <2>4 DEF NoCd, CheckFails
    <3> QED
        BY <3>1 DEF After, Chosen, IsoIsFallback
  <2>5. CASE CopyCd
      BY <2>5 DEF CopyCd, Chosen, IsoIsFallback
  <2>6. CASE CopyCdFails \/ CheckRaises \/ CheckPasses \/ CheckIgnored \/ CopyIso \/ CopyIsoFails
             \/ ExtractKernel \/ ModifyGrubConfiguration
    <3>1. pc' \in {"not_retrieved", "failed", "extract", "grub", "done"}
        BY <2>6 DEF CopyCdFails, CheckRaises, CheckPasses, CheckIgnored, CopyIso, CopyIsoFails,
                    ExtractKernel, ModifyGrubConfiguration
    <3> QED
        BY <3>1 DEF Chosen, IsoIsFallback
  <2>7. CASE NoIso
    <3>1. pc' = "not_found" /\ UNCHANGED command
        BY <2>7 DEF NoIso
    <3>2. Chosen'
        BY <3>1 DEF Chosen
    <3>3. IsoIsFallback'
        BY <2>7, <3>1, GivesUpLast DEF IsoIsFallback
    <3> QED
        BY <3>2, <3>3
  <2>8. CASE ChangeDisc
      BY <2>8 DEF ChangeDisc, Over, Chosen, IsoIsFallback
  <2> QED
      BY <2>1, <2>2, <2>3, <2>4, <2>5, <2>6, <2>7, <2>8 DEF Next
<1> QED
    BY <1>1, <1>2, PTL DEF Spec
=============================================================================
