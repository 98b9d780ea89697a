----------------------------- MODULE IsoAcquisition -----------------------------
(***************************************************************************)
(* Where the installation files come from: the CD found at start, the ISO  *)
(* files searched for, the tasks get_iso, use_cd and extract_kernel, and   *)
(* what the fixer uses (common/backend.py, distro.py).  The user may       *)
(* change the disc at any moment, while the program keeps what it has read *)
(* of the first one; reading or writing may fail.                          *)
(***************************************************************************)
EXTENDS Naturals

CONSTANTS
    Image,       \* what a disc or an ISO file may hold, see ImageAssumption
    Files,       \* the ISO files there may be
    Commands,    \* "install", "cd_boot" (the boot helper) and "fix" considered
    MaxChanges,  \* bound: changes of the disc
    None         \* Python's None; no disc, no file

Arch == {"i686", "x86_64"}                 \* the distros of isolist.ini
Place == {"given", "folder", "backup", "drive"}

\* ours: .disk/info names our product; beta: its subversion; size: that of an
\* ISO; listed: 7z lists it; intact: the kernel has the md5 the image gives it.
ASSUME ImageAssumption ==
    /\ Image \subseteq [ours : BOOLEAN, arch : Arch \cup {"amd64"}, beta : BOOLEAN,
                        size : BOOLEAN, listed : BOOLEAN, intact : BOOLEAN]
    /\ None \notin Image
ASSUME NoneAssumption == None \notin Arch \cup Place \cup {"installation.iso"}
ASSUME FilesAssumption == Files \subseteq [Place -> Image \cup {None}]
ASSUME CommandsAssumption == Commands \subseteq {"install", "cd_boot", "fix"}
ASSUME MaxChangesAssumption == MaxChanges \in Nat

VARIABLES
    host,      \* what get_arch answers: "i686" or "amd64"
    command,
    file,      \* ISO files: --isopath, beside the program, in the backup
               \* directory, in the root of a drive
    disc,      \* in the CD drive
    changes,   \* of the disc so far
    cdInfo,    \* Distro.cache of the CD drive: the image it was read from
    cdPath,    \* info.cd_path is set
    cdDistro,  \* the arch of info.cd_distro
    distro,    \* the arch of info.distro
    isoPath,   \* info.iso_path: None, "installation.iso" or a place of file
    iso,       \* the image in installation.iso
    kernel,    \* the image the kernel was extracted from
    changed,   \* the disc has been changed since installation.iso was made
    pc

host_ == <<host, command>>
infos == <<cdPath, cdDistro, distro, isoPath>>
made == <<iso, kernel>>
qvars == <<host_, file, disc, changes, cdInfo, infos, made, changed, pc>>

CheckArch == host = "i686"

Init ==
    /\ host \in {"i686", "amd64"}
    /\ command \in Commands
    /\ file \in Files
    /\ disc \in Image \cup {None}
    /\ iso \in IF command = "fix" THEN Image \cup {None} ELSE {None}
    /\ kernel = None
    /\ changes = 0 /\ changed = FALSE
    /\ cdInfo = None /\ cdPath = FALSE /\ cdDistro = None /\ distro = None
    /\ isoPath = IF file["given"] = None THEN None ELSE "given"
    /\ pc = "fetch"

-----------------------------------------------------------------------------
(* distro.py                                                                *)

\* check_info of a distro
Fits(image, arch) == image.ours /\ (CheckArch => image.arch = arch)

\* get_info reads the CD once; every image has the required files.
CdInfoRead == IF cdInfo = None THEN disc ELSE cdInfo
IsValidCd(arch) == disc # None /\ Fits(CdInfoRead, arch)

IsValidIsoAnyName(image, arch, check_arch) ==
    image.size /\ image.listed /\ (check_arch => image.arch = arch)
IsValidIso(image, arch, check_arch) ==
    image.size /\ image.listed /\ image.ours /\ (check_arch => image.arch = arch)

\* set_distro_from_arch: no distro has the arch "amd64".
KeepDistro(image) == distro
SetDistroFromArch(image) ==
    IF CheckArch THEN distro
    ELSE IF image.arch \in Arch THEN image.arch ELSE None

-----------------------------------------------------------------------------
(* fetch_basic_info, and the page that follows                              *)

\* find_any_cd tries the distros in their order.
AnyCdDistro ==
    IF IsValidCd("i686") THEN "i686" ELSE IF IsValidCd("x86_64") THEN "x86_64" ELSE None

\* find_any_iso asks each distro in turn; what 7z cannot list is an empty list
\* for the first, and None for the second, which raises.
Unlisted(image) == image # None /\ image.size /\ ~image.listed
AnyIso ==
    /\ file["drive"] # None
    /\ \E arch \in Arch : IsValidIso(file["drive"], arch, CheckArch)

\* check_pre_install_files: info.installationiso
InstallationIso ==
    IF iso # None THEN "installation.iso" ELSE IF AnyIso THEN "drive" ELSE None

FetchBasicInfo ==
    /\ pc = "fetch"
    /\ cdInfo' = CdInfoRead
    /\ cdDistro' = AnyCdDistro
    /\ cdPath' = (AnyCdDistro # None)
    /\ isoPath' = None
    /\ pc' = IF command = "fix" /\ iso = None /\ Unlisted(file["drive"]) THEN "crashed" ELSE "page"
    /\ UNCHANGED <<host_, file, disc, changes, distro, made, changed>>

\* installation_page.py: there is no distro for "amd64", so it is always i686;
\* cdboot_page.py takes that of the CD, run_uninstaller i686; run_fixboot
\* takes the ISO found.
Confirm ==
    /\ pc = "page"
    /\ isoPath' = IF command = "fix" THEN InstallationIso ELSE isoPath
    /\ distro' = IF command = "cd_boot" THEN cdDistro ELSE "i686"
    /\ pc' = CASE command = "install" -> "use_cd"
               [] command = "cd_boot" -> IF cdDistro = None THEN "not_found" ELSE "use_cd"
               [] command = "fix" -> IF isoPath' = None THEN "not_found" ELSE "extract"
    /\ UNCHANGED <<host_, file, disc, changes, cdInfo, cdPath, cdDistro, made, changed>>

-----------------------------------------------------------------------------
(* The tasks                                                                *)

\* use_cd: the CD found at start, if it is for the distro chosen and there is
\* still a disc, or the one find_cd accepts.
KnownCd == cdDistro # None /\ distro = cdDistro /\ cdPath /\ disc # None
After == IF command = "install" THEN "use_iso" ELSE "extract"

NoCd ==
    /\ pc = "use_cd" /\ ~KnownCd /\ ~IsValidCd(distro)
    /\ cdInfo' = CdInfoRead
    /\ pc' = After
    /\ UNCHANGED <<host_, file, disc, changes, infos, made, changed>>

CopyCd ==
    /\ pc = "use_cd" /\ (KnownCd \/ IsValidCd(distro))
    /\ cdInfo' = CdInfoRead
    /\ cdPath' = TRUE /\ isoPath' = "installation.iso"
    /\ iso' = disc /\ changed' = FALSE
    /\ pc' = "check_iso"
    /\ UNCHANGED <<host_, file, disc, changes, cdDistro, distro, kernel>>

\* A required task raises: Task.__call__ cancels the list, and no task that
\* use_cd or get_iso still add is admitted.  The except clauses around the
\* calls see nothing.
CopyCdFails ==
    /\ pc = "use_cd" /\ (KnownCd \/ IsValidCd(distro))
    /\ pc' = "not_retrieved"
    /\ UNCHANGED <<host_, file, disc, changes, cdInfo, infos, made, changed>>

\* check_iso of what was copied: it is read from the file itself.
CheckPasses ==
    /\ pc = "check_iso" /\ IsValidIso(iso, distro, FALSE)
    /\ distro' = SetDistroFromArch(iso)
    /\ pc' = IF distro' = None THEN "not_retrieved" ELSE "extract"
    /\ UNCHANGED <<host_, file, disc, changes, cdInfo, cdPath, cdDistro, isoPath, made, changed>>

\* "CD check failed, but ignoring because CD is ...": by what was read at first.
CheckIgnored ==
    /\ pc = "check_iso" /\ ~IsValidIso(iso, distro, FALSE)
    /\ cdDistro # None /\ cdInfo.beta
    /\ pc' = "extract"
    /\ UNCHANGED <<host_, file, disc, changes, cdInfo, infos, made, changed>>

CheckFails ==
    /\ pc = "check_iso" /\ ~IsValidIso(iso, distro, FALSE)
    /\ cdDistro # None /\ ~cdInfo.beta
    /\ cdPath' = FALSE /\ isoPath' = None
    /\ pc' = After
    /\ UNCHANGED <<host_, file, disc, changes, cdInfo, cdDistro, distro, made, changed>>

\* self.info.cd_distro.get_info, when no CD had been found at start.
CheckRaises ==
    /\ pc = "check_iso" /\ ~IsValidIso(iso, distro, FALSE)
    /\ cdDistro = None
    /\ pc' = "not_retrieved"
    /\ UNCHANGED <<host_, file, disc, changes, cdInfo, infos, made, changed>>

\* find_iso, in the order of the search paths
Usable(p) == file[p] # None /\ IsValidIso(file[p], distro, CheckArch)
FirstIso ==
    LET p == IF file["folder"] # None THEN "folder" ELSE "backup" IN IF Usable(p) THEN p ELSE None
FindIso ==
    IF Usable("folder") THEN "folder" ELSE IF Usable("backup") THEN "backup" ELSE None

CopyIsoKeepCd ==
    /\ pc = "use_iso" /\ FindIso # None
    /\ distro' = SetDistroFromArch(file[FindIso])
    /\ \/ distro' = None /\ pc' = "failed" /\ UNCHANGED <<file, cdPath, isoPath, iso, changed>>
       \/ /\ distro' # None
          /\ iso' = file[FindIso]
          /\ file' = IF FindIso = "backup" THEN [file EXCEPT !["backup"] = None] ELSE file
          /\ isoPath' = "installation.iso" /\ changed' = FALSE /\ cdPath' = cdPath
          /\ pc' = "extract"
    /\ UNCHANGED <<host_, disc, changes, cdInfo, cdDistro, kernel>>

\* copy_iso checks the file, copies it (or moves it out of the backup
\* directory) and forgets the CD.
CopyIso ==
    /\ pc = "use_iso" /\ FindIso # None
    /\ distro' = SetDistroFromArch(file[FindIso])
    /\ \/ distro' = None /\ pc' = "failed" /\ UNCHANGED <<file, cdPath, isoPath, iso, changed>>
       \/ /\ distro' # None
          /\ iso' = file[FindIso]
          /\ file' = IF FindIso = "backup" THEN [file EXCEPT !["backup"] = None] ELSE file
          /\ isoPath' = "installation.iso" /\ changed' = FALSE /\ cdPath' = FALSE
          /\ pc' = "extract"
    /\ UNCHANGED <<host_, disc, changes, cdInfo, cdDistro, kernel>>

CopyIsoFails ==
    /\ pc = "use_iso" /\ FindIso # None
    /\ pc' = "failed"
    /\ UNCHANGED <<host_, file, disc, changes, cdInfo, infos, made, changed>>

NoIso ==
    /\ pc = "use_iso" /\ FindIso = None
    /\ pc' = "not_found"
    /\ UNCHANGED <<host_, file, disc, changes, cdInfo, infos, made, changed>>

\* extract_kernel takes the CD before the ISO, and compares the md5 sums with
\* those of the same medium.
Medium ==
    CASE cdPath -> disc
      [] ~cdPath /\ isoPath = "installation.iso" -> iso
      [] ~cdPath /\ isoPath = "drive" -> file["drive"]
      [] OTHER -> None

ExtractKernel ==
    /\ pc = "extract"
    /\ \/ /\ Medium # None /\ Medium.intact
          /\ kernel' = Medium
          /\ pc' = "grub"
       \/ pc' = "failed" /\ kernel' = kernel
    /\ UNCHANGED <<host_, file, disc, changes, cdInfo, infos, iso, changed>>

\* modify_grub_configuration has no isopath without an ISO.
ModifyGrubConfiguration ==
    /\ pc = "grub"
    /\ pc' = IF isoPath = None THEN "failed" ELSE "done"
    /\ UNCHANGED <<host_, file, disc, changes, cdInfo, infos, made, changed>>

-----------------------------------------------------------------------------
Over == pc \in {"done", "failed", "not_found", "not_retrieved", "crashed"}

ChangeDisc ==
    /\ ~Over /\ changes < MaxChanges
    /\ disc' \in (Image \cup {None}) \ {disc}
    /\ changes' = changes + 1 /\ changed' = TRUE
    /\ UNCHANGED <<host_, file, cdInfo, infos, made, pc>>

Next ==
    \/ FetchBasicInfo \/ Confirm
    \/ NoCd \/ CopyCd \/ CopyCdFails
    \/ CheckPasses \/ CheckIgnored \/ CheckFails \/ CheckRaises
    \/ CopyIso \/ CopyIsoFails \/ NoIso \/ ExtractKernel \/ ModifyGrubConfiguration
    \/ ChangeDisc

Spec == Init /\ [][Next]_qvars
-----------------------------------------------------------------------------
\* Types; a file is always where info.iso_path says, while there is a list.
TypeOK ==
    /\ host \in {"i686", "amd64"} /\ command \in Commands
    /\ file \in [Place -> Image \cup {None}]
    /\ {disc, cdInfo, iso, kernel} \subseteq Image \cup {None}
    /\ changes \in 0 .. MaxChanges /\ changed \in BOOLEAN /\ cdPath \in BOOLEAN
    /\ {cdDistro, distro} \subseteq Arch \cup {None}
    /\ isoPath \in {None, "installation.iso", "given", "drive"}
    /\ isoPath = "installation.iso" => iso # None
    /\ pc \in {"fetch", "page", "use_cd", "check_iso", "use_iso", "extract", "grub",
               "done", "failed", "not_found", "not_retrieved", "crashed"}

\* The CD was read for an alpha or a beta: its check may fail.
Beta == cdPath /\ cdInfo # None /\ cdInfo.beta
Made == pc = "done" /\ command # "fix"

\* The kernel and the ISO of an installation come from the same image, whichever
\* of them was tried first, unless the disc is changed between the two tasks
\* (copy_iso forgets the CD, extract_kernel prefers it).
KernelFitsIso == Made /\ (changed => ~cdPath) => kernel = iso

\* What is installed is an image of our product that 7z can read, even if the
\* disc is not the one that was read at start.
AcceptedIsOurs == Made /\ ~Beta => iso.ours /\ iso.size /\ iso.listed

\* The distro that is installed has the arch of the image; on a 32 bit host, if
\* the disc is the one that was read (set_distro_from_arch).
DistroInLine == Made /\ ~Beta /\ (CheckArch => changes = 0) => distro = iso.arch

Good(image) ==
    image # None /\ image.ours /\ image.size /\ image.listed
    /\ IF CheckArch THEN image.arch = "i686" ELSE image.arch \in Arch

\* get_iso gives up only when there is no ISO it could have used: whatever a CD
\* led it to try first.
IsoIsFallback ==
    pc = "not_found" /\ command = "install" => ~\E p \in {"folder", "backup"} : Good(file[p])

\* The same, also when reading the CD fails (backend.py:709).
RetrievedIfThere ==
    pc \in {"not_found", "not_retrieved"} /\ command = "install" =>
        ~\E p \in {"folder", "backup"} : Good(file[p])
=============================================================================
