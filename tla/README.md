# Verification of the Windows installer (wubi / StartOS)

The repository holds a Windows program that installs a Linux distribution into
files of a Windows drive, adds it to the Windows boot menu, repairs such an
installation and removes it again. This directory holds TLA+ specifications of
its own logic, model-checked with TLC, and theorems about them proved with
TLAPS. Paths below are relative to `src/src/wubi` unless they say otherwise;
line numbers are in `PROJECT.json` (`map`).

Contents: [1 inventory](#1-inventory) · [2 modules](#2-modules-and-how-they-correspond-to-the-code)
· [3 runs](#3-runs-bounds-and-what-they-show) · [4 fairness](#4-fairness) ·
[5 proofs](#5-proofs) · [6 findings](#6-findings) · [7 not
modelled](#7-what-is-not-modelled) · [8 plan](#8-plan)

## 1 Inventory

### The program at run time

What the user starts is `header.exe` of the C launcher (`src/src/pylauncher`)
with an archive behind it: it unpacks the archive into a temporary directory and
starts a copy of `pylauncher.exe`, which starts `pyrun.exe` in that directory,
waits for it and deletes the directory. `pyrun.exe` runs `main.py`; from there on
one process at a time matters. `application.py` (class `Wubi`) parses the command line,
asks the *backend* what is on the host, and shows pages of the *frontend* until
there is a list of tasks to run. The list is a thread: its tasks are methods of
the backend. The interface thread meanwhile shows a progress page, fed by
callbacks the worker makes, and may cancel the list or end the process.

    application.py ──calls──▶ backend.fetch_basic_info      (reads the host)
         │                    frontend.show_*_page          (asks the user)
         └──frontend.run_tasks(list)
               │ starts                     ▲ SendMessage, stop()
               ▼                            │
        ThreadedTaskList (worker) ──▶ on_progress (callback) ──▶ window thread
               │ runs
               ▼
        backend methods: write the host (directories, registry, BCD/boot.ini,
                         boot files, virtual disks, ISO, kernel)

### Components

| Component | State | Operations | Talks to | What is hard | Correct when |
|---|---|---|---|---|---|
| **Task engine** `backends/common/tasklist.py` | tree of tasks; status, error, subtasks and parent of each; stop event; the thread's call stack | `__call__`, `set_progress`, `finish`, `add_subtask`, `cancel`, `_run_subtasks`, `_notify_listeners` | calls backend functions, which call back into it; is cancelled by the interface thread | re-entrance (a report may run subtasks), an exception swallowed in the middle of another function, no lock between the two threads | nothing starts after a failure or a stop; success is told from failure; the list ends and says so |
| **Progress page and message loop** `frontends/win32/frontend.py`, `progress_page.py`, `winui/ui.py` | `_keep_running`, Windows message queue, `quitting`, `force_exit` | `run_tasks`, `on_progress`, `stop`, `cancel`, `on_quit`, `run` | task list (start, cancel, join), Windows | messages sent from the worker block it; one flag for all loops; a modal box with a loop of its own; join of a thread waiting for the joining one | the loop ends exactly when the list has; the page after it is earned; quitting quits |
| **Application** `application.py` | `info` (everything known), the frontend | `run`, `select_task`, `run_installer`, `run_uninstaller`, `run_fixboot`, `run_cd_boot`, `run_cd_menu` | everything | decisions taken from state read earlier, other processes (the installed uninstaller) in between | no installation over what the last look found; what is offered can be done |
| **Installation, repair, removal** the task lists of `backends/common/backend.py`, `backends/win32/backend.py` | the host: target directories, registry key, BCD entries, boot.ini, boot files | one task per step | task engine, Windows tools | nothing is transactional: a failure, the user or a power cut may end it between any two writes, and the next process goes by what is left | what ends is complete; what is removed is gone; what the boot menu offers can be started or its repair is offered again |
| **Detection** `fetch_basic_info` and what it calls | none of its own | reads the host | registry, drives, BCD, boot.ini | partial installations | the answer fits what later steps need |
| **Settings page and sizes** `frontends/win32/installation_page.py`, `choose_disk_sizes` | selected drive and size, `installation_size_mb` | open, change drive, change size, install | info.drives | three rules for the same drive, in GB of 1000 and of 1024 MB | what is chosen fits |
| **Virtual disks** `backends/win32/virtualdisk.py` | file handle, pointer, length | `create_virtual_disk`, `zero_file` | Windows, other users of the drive | each call may fail and only logs it | a disk that is done has its length and end blocks, each unless the seek to it failed |
| **Installation files** `find_*`, `get_iso`, `use_cd`, `use_iso`, `check_iso`, `extract_kernel`, `distro.py` | caches of CD and ISO information, `cd_path`, `iso_path`, `distro` | search, validate, copy, check, extract | CD drive, ISO files, task engine | the disc changes while the cache does not; several media, kernel and ISO taken one after the other | kernel and ISO are of one valid image of the right arch |
| **boot.ini editing** `modify_bootini`, `undo_bootini`, `backends/common/utils.py` | text of boot.ini, its attributes, the boot loader files beside it | insert and remove lines, rewrite the file, copy and delete files | the file system; the lists of `backend.py` | written in place, edited while enumerated; any step may be the last | other systems' lines survive; an entry has its two files; an installation that ends has its entry |
| **Page navigation** `application.py`, `cd_menu_page.py`, `cdboot_page.py`, `cd_finish_page.py`, the finish, fix, uninstall and accessibility pages | stack of message loops, one `_keep_running`, `info.run_task`, `quitting` | nested `show_page`, `select_task` from a handler, `quit` | application, Windows | a loop inside a loop with one flag; `sys.exit` in a window procedure may be swallowed | only what was asked for is started, each list once, nothing after a quit |
| **Progress arithmetic** `tasklist.py` | counts and times | percent, speed, remaining | – | zero sizes, counts above the size | the numbers are shown and decide nothing |
| **Launcher** `src/src/pylauncher/*.c`, `src/src/7z` as far as it is linked in | temporary directory, archive, three processes and the directory each is in | `unpack`, `SzExtract`, `CreateProcess`, `delete_directory` | Windows, the program | every call may fail; a process keeps its directory from being removed; the recursion deletes what it finds | Python runs only on whole files; only the temporary directory is deleted, and all of it unless something outside hinders |
| **Boot configuration** `src/data/*.cfg` | – | GRUB scripts | boot files | – | finds the disk |
| Host information, widgets, downloads, eject, linux backend, installer hooks, packaging, vendored code | | | | | see [7](#7-what-is-not-modelled) |

The hazards of each, at their lines, are in `PROJECT.json` (`hazards`), with
the properties that would show them going wrong.

## 2 Modules and how they correspond to the code

| Module | Models | Composed with |
|---|---|---|
| `AdmissionControl` | abstract specification: what a list of tasks promises | implemented by `TaskList` |
| `TaskList` | `Task`, `ThreadedTaskList` | – |
| `RunTasks` | `run_tasks`, progress page, message loop, `on_quit` | EXTENDS `TaskList`: the same worker, its callbacks split into the window messages they are made of |
| `Install` | `application.py` and what the task lists write, over several processes | – |
| `InstallationSize` | settings page, `choose_disk_sizes` | – |
| `VirtualDisk` | `create_virtual_disk`, `zero_file` | – |
| `IsoAcquisition` | search, validation and use of CDs and ISO files | – |
| `BootMenu` | abstract specification: what Windows may expect of boot.ini | implemented by `BootIni` |
| `BootIni` | text of boot.ini and the boot loader files, step by step | – |
| `Dispatcher` | `select_task` and all it calls, the pages and their nested loops, in one process | – |
| `TargetDirectory` | the file system as the launcher uses it (external) | – |
| `SevenZip` | header of the archive: what the compressor writes, how the decoder reads it | – |
| `Unpack` | `unpack()` and `SzExtract` | EXTENDS `SevenZip`, `TargetDirectory` |
| `DeleteDirectory` | `delete_directory()`, its recursion as a stack of frames | EXTENDS `TargetDirectory` |
| `Launcher` | header, pylauncher and pyrun | EXTENDS `Unpack`, `DeleteDirectory` |
| `*Proofs` (eight) | theorems and lemmas | EXTEND the module they are about; `RunTasksProofs` has `TaskList`'s too, since the engine's theorems hold of the program around it |
| `MC*` | constants for TLC | EXTEND the module they instantiate |

**`TaskList`.** A task is called only by its parent, so the Python stack of the
worker is the path from the root to `cur`; `pc[t]` is the place of the frame of
`t` in `Task.__call__`, `next[t]` the index of its loop in `_run_subtasks`.
The test of line 179 and the assignment of line 185 are two steps (`Admit`,
`Activate`) because the interface thread may run in between. Each notification
is a step (`Notify`), because it waits for that thread. The associated functions
are the environment: at place *function* a task may add a subtask and call it or
leave it (`AddSubtask`, `CallAdded`, `LeaveAdded`), report progress
(`SetProgress`), finish itself (`FinishSelf`), raise (`Raise`) or return.
Assumed of them, from reading each function the lists use: they obey
`set_progress` when it returns True; they add no subtask to a task already
reported complete; they finish their own task only when no subtask they added is
waiting. Of the user: the list is cancelled at most once (`on_quit` destroys the
window).

**`RunTasks`.** Frontend state is `keep` (`_keep_running`), `posted`, `quitting`,
`forceExit`; `loop` is where the interface thread is; `callback` where the worker
is inside `on_progress`. Windows is external and stated in the module's header.
`join(3)` may return before the thread has ended.

**`Install`.** `contents[<<drive, kind>>]` is what the directory holds
(`\startos-loop`, `\startos-livecd`); `reg`, `bcd`, `bootini`, `bootfiles` are
the registry key, our BCD entries, our lines of boot.ini and our files on the
system drive. `todo` is the rest of the task list of the process, one element per
write; a task that writes several things is several elements. `Die` stands for
a task that raises, a user who quits, a kill and a power cut, which leave the
same host: the writes done so far. A process starts with `Fetched`
(`fetch_basic_info`). Which drive is the system drive is given; that it is one of
`Drives` is assumed. The errors of `bcdedit`, which `run_command` swallows, are
modelled where they matter: an entry it has refused to set up or to display is
at `Refused`, one it has refused to delete is in `lost`, and the list goes on in
both cases. Assumed, in the module's header: a registry value can be set
(`set_value` logs that it cannot and goes on), `bcdedit.exe` is there (`modify_bcd`
and `undo_bcd` return without it), boot.ini has an empty line for the entry (the
other texts are `BootIni`'s), and a disk there is room for gets its length (the
failures are `VirtualDisk`'s).

**`InstallationSize`.** Amounts of MB; `Sizes` is `populate_size_list`,
`Offered` is `populate_drive_list`, `ShowSizes` is `select_default_size` after
either of them.

**`VirtualDisk`.** Sizes in buffers of `zero_file`; `content` keeps what each place
was last written with; `room` is what is left on the drive. Every call may fail,
on a good handle too: `failed` has the places `SetFilePointerEx` did not move the
pointer to, which the code logs before it goes on writing where the pointer is;
a single write fails for any reason (`WriteFails`), and from some moment the
drive may refuse all of them (`bad`).

**`IsoAcquisition`.** What is on a medium is one record of the six facts the code
asks about. `cdInfo` is the cache of `Distro.get_info` for the drive: written
once, never refreshed. A required task that raises ends the list
(`CopyCdFails` goes to *not_retrieved*): the `except` around the call of a task
is never entered, which `TaskList` shows (`FailureReachesRoot`, `KeepsPromise`).

**`BootIni`.** A line is its kind: blank, a section header, the timeout, one of our
two entries, or one of the kinds in `Other`, which nothing looks for. `Scan` is the
body of the loop of `modify_bootini`, applied to positions 1, 2, ... of a list that
the body itself shortens and lengthens, as Python's `enumerate` sees it
(`Scanned`); `Without` is the loop of `remove_line_in_file`. Both are recursive functions,
so that they can be proved about. A rewrite is two steps: `Truncate`
(open for writing) and `Write`; a stop in between leaves a prefix of the new
text. `guarded` are the read-only attributes, which make `open` and `copyfile`
fail: a second `cd_boot` list therefore stops at its first copy.

**`Dispatcher`.** `pc` is where the main thread is, `stack` the pages whose loops
run inside each other; a handler that calls `select_task` or shows a page adds a
loop, and clearing `keep` ends them all, from the inside out (`LeaveLoop`).
`Destroy` has two outcomes, because the `sys.exit` of `on_quit` is raised in a
window procedure, which may swallow it: then WM_QUIT waits in the queue and the
code after `quit()` goes on. Three questions are asked of an old installation and
kept apart in `info`: `found` is that of `run_installer` (is one of the directories
`fetch_basic_info` found there), `previous` that of `run_cd_boot` (has
`chk_needfix` or the key set `previous_target_dir`), `there` that of `run_uninstaller` (is
that directory there). `Infos` are the combinations a look can give; the second
look gives any of them again. `started` is the history of task lists, `pressed` of
answers. What a list writes is left to `Install`, how its page ends to
`RunTasks`.

**`Launcher`.** Three processes and the directory each is in (`LauncherIn`,
`OthersIn`): a directory a process is in cannot be removed. `unpack` is a loop
over the items with one step per call that may fail; `delete_directory` keeps one
frame per level, the listing it has read and the name it works on; a file in use
or a directory somebody is in makes a call fail and the recursion return.
`SevenZip` writes a header for an archive as the compressor does (items sorted,
blocks, streams, the size of the last stream of a block left out) and reads it as
`SzReadHeader2` does; `Launcher` then works on what was read.

Operators such as `AdmitUnderAny`, `RecordNothing`, `LookOnce`,
`EndsBlockLate` are *mutants*: what the definition after or before them would
be with a plausible mistake in the code. No specification uses them;
`PROJECT.json` lists, for each property, the one that breaks it.

## 3 Runs, bounds and what they show

| Run | Expect | States | Bounds | Shows |
|---|---|---|---|---|
| `task_list` | pass | 0.31 M | two listed tasks, two that functions may add anywhere (also below each other), one of each kind not required; one report per function | no task stays ACTIVE; a run that ends unstopped and without error is complete; every failure of a required task reaches the root; the reported error moves outward only; refinement of `AdmissionControl`; the interface is told of the end |
| `task_list_stop` | violation | | same | finding 1 |
| `run_tasks` | pass | 53 k | two listed tasks and one added | the loop ends, a stop is neither lost nor left over, success only for a list that has done its work, quitting ends the process |
| `install` | pass | 1.17 M | two drives, three processes, Windows reinstalled once, both boot loaders, any `bcdedit` may fail | what ends is complete, what is removed is gone, installations start on clean drives, at every step what the menu offers is there or will be repaired, a repair that dies is offered again, one that ends has repaired |
| `needfix_xp` | violation | | same, one boot loader | finding 2 |
| `installation_size` | pass | 17 k | two drives, twelve amounts of free space | what is confirmed fits; what is offered has room |
| `virtual_disk` | pass | 1.9 k | nine buffers, end blocks of three, 0 to 16 buffers free, any call may fail | whatever fails, each end block is written whose seek did not; with the length set the creation ends unless the drive refuses every write |
| `iso_acquisition` | pass | 2.1 M | eight images, each place empty or with one of a few, disc changed at most twice, both kinds of host | kernel and ISO are of one image of ours in line with the distro; the ISO is used when the CD does not pass |
| `iso_retrieved` | violation | | same | finding 3 |
| `launcher` | pass | 43 k | 31 archives (one to three blocks, sizes 0 to 2, directories in directories, files emptied while they were compressed, a block without streams, a name with a dot), undamaged or with the header or one of two blocks damaged; every call may fail | the decoder reads back what was written; directories exist before what is in them; Python has all its files; only the temporary directory is deleted, entirely unless hindered, and the deletion ends |
| `boot_ini` | pass | 0.41 M | 54 texts, three lists of tasks, a stop at every step and at every line of a write | an entry has its files, an installation that ends its entry, Windows its lines (refinement of `BootMenu`) |
| `dispatcher` | pass | 30 k | five loops inside each other, every state of the host, every button | each list is asked for, at most one of each rank, none against the answer its function had about an old installation, none after a quit; a stop unwinds every loop; quitting ends the process |

Type invariants are proved, for all constants, and therefore not among the
runs' properties.

Why the bounds are enough. *Task list*: each task meets its parent, a sibling and
a descendant, a failure can happen at, above, below and beside a required or
other task, and two failures or a failure and a cancellation can meet; a third
report per function repeats the first two. *Install*: every defect here is one
process leaving something (1), a second going by it (2) and a third seeing the
result (3); two drives tell the system drive from another one and give "first"
and "last found" different answers. *Sizes*: the amounts are those at which one
of the rules changes its answer, and one on each side. *Virtual disk*: the end
blocks neither touch nor overlap, and the drive has less than needed, as much or
more; the theorem holds for every size. *ISO*: the images differ in one fact
each, so that a check that is skipped or made against the wrong image is seen; a
disc put in and taken out again needs two changes. *Launcher*: the archives have each
case of the decoder's bookkeeping (a block with no, one or several streams, a
stream whose size is stored and one whose size is what is left, empty items
before and behind a directory), and a directory two levels deep meets the
recursion with a sibling on each level. *boot.ini*: one list may leave something,
a second trip over it and a third complete it; the texts have each kind of line at
each side of each other where the loop's answer depends on it. *Dispatcher*: going
to a page and back is two more loops (`ShowInside`), so five are two ways there and
back and the page they began on; what a further one adds is one more frame of the
same kind below the innermost.

`CHECK_DEADLOCK FALSE` is said where the system really stops: the list is over,
the process has exited or all processes have been used up.

## 4 Fairness

- `TaskList!FairSpec`: weak fairness of the worker thread, and of the interface
  thread once it is inside `cancel`. Both are OS threads and neither waits for
  the other there. That a user ever cancels is not assumed. Functions of tasks
  are assumed to return or raise: a download or a `7z` that hangs is outside.
- `RunTasks!RSpec`: weak fairness of the worker and of what the interface thread
  does without the user. The user owes nothing: `LoopEnds` allows for an
  unanswered question box.
- `VirtualDisk!Spec`: weak fairness of the thread. A write that fails leaves the
  state as it is, so this says that one the drive has room for and does not refuse
  for good succeeds at some try. Other programs and a drive that goes bad are
  environment and owe nothing.
- `Launcher!Spec`: weak fairness of header, of pylauncher and of pyrun until it
  runs Python: each is a process of its own. Python, programs it has started
  and users who should close an error box owe nothing.
- `Dispatcher!Spec`: weak fairness of the main thread where it runs by itself
  (`Main`, which includes leaving a loop whose flag is cleared). The user owes
  nothing, nor does a list of tasks owe its end, which is `RunTasks`' matter.
- `Install`, `InstallationSize`, `IsoAcquisition`, `BootIni` have safety
  properties only: their processes may stop anywhere for good.

## 5 Proofs

Every theorem is for all values of the constants that satisfy the named
assumptions of the module (each is checked by TLC on the instance).

**`RunTasksProofs`, the engine.** `TypeCorrect`, `Inductive`, `StackIsLineage` (WellStacked),
`NothingStaysActive` (ActiveOnStack), `EngineKeepsPromise` (KeepsPromise, the
refinement of `AdmissionControl`), `FailureIsReported` (FailureReachesRoot),
`CleanRunsAreComplete` (CleanRunIsComplete), `ReportsMoveOutward`
(ErrorMovesOutward). None is inductive: that the path
from `cur` to the root is the stack needs to know that a return goes to the
parent, that a call goes to a child not on the stack, and therefore the shape of
the tree (`lineage` closed under `parent`, children listed once, an added task
fresh). The invariant `IInv` has: types; the tree; the frames (which places a
frame below the top may be in); and the statuses along them. Each action is a
step, and one step per conjunct it disturbs. From `IInv` the refinement maps
`Activate` to `AStart`, `Admit` to `AAdmit`, the steps that change the root's
status to `AHalt` or a stutter, the rest to stutters. A failure is reported
because a task that is not yet linked has no error (`Fresh`). That a clean run is
complete needs what is true in the middle of one: the root is not stopped
(`Unstopped`), an error below the running frame is on its way up (`Failing`),
what is above is still running (`Above`), what a frame's loop has passed is
done or lies under a task allowed to fail (`Begun`), and what is not yet passed
is still in a list (`Pending`). That a reported error moves outward follows from
where the task that failed stands in the stack (`Reported`).

**`RunTasksProofs`, the two threads.** `RunsTheEngine`: every step of `RunTasks` is a step of
`TaskList` or leaves its variables alone, so every theorem above holds of the
program around the engine. `RunInvariant` (`RInv`) then says what the two threads
know of each other: the root (`RootOK`; by the lemma `LastWord` an unstopped root
that is seen not to be ACTIVE has completed), the callback under way (`CallbackOK`), the loop and its flag
(`LoopOK`). From it follow `RunTypes`, `NoStopIsLost` (StopNotLost),
`ReturnedListsAreDone` (ReturnMeansDone, with `CleanRunsAreComplete`) and
`NoStopIsLeftOver` (NoStrayStop).

**`InstallationSizeProofs`.** `SizesTypeCorrect`, `ConfirmedHolds`, `DisksFitOnDrive`
(FitsOnDrive), `OfferedDrivesHaveRoom` (OfferedHasRoom). The invariant
`Confirmed` says that what is asked on a confirmed page is the size shown, and
the size shown is one of the drive selected; FitsOnDrive follows by the
arithmetic of `DisksOf`, OfferedHasRoom by the rounding lemma, which needs that
`min_disk_space_mb` is whole thousands (isolist.ini has 3000).

**`VirtualDiskProofs`.** `DiskInvariant`, `DiskTypeCorrect`, `DiskIsWhole`
(ClosedIsWhole), `MiddleIsUntouched` (MiddleUntouched). Every call may fail; only
the two seeks before the blocks count, each for its own block: `AtStart` says that
the pointer was at 0 for the first one (moved there, or never moved from there),
`AtLast` that it was moved to the last one. That a closed disk is whole is not
inductive: `DInv` adds which seeks can have failed by now (`Sought`), phase by phase
where the pointer is relative to the count of `zero_file` (`Pointer`), that a count above 0
shows that the file is open (a failed CreateFile never gets past the first
block), and that the file reaches as far as the pointer and what lies between the
start of the block and the pointer has been written (`Written`). It needs only that
`clear_bytes` is positive and two of them fit into the size.

**`IsoAcquisitionProofs`.** `AcquisitionInvariant`, `MediaTypeCorrect`,
`KernelIsOfTheIso` (KernelFitsIso), `InstalledIsOurs` (AcceptedIsOurs),
`DistroFitsImage` (DistroInLine), for every set of images and files and any number
of changes of the disc. These three properties speak of the end of a list; `QInv`
carries back what makes them true: what is remembered of the disc (`Remembered`),
what has been copied and still equals the disc (`Copied`), what has been accepted
and how (`Accepted`), where the kernel came from (`Extracted`). One lemma per
action. `AnIsoIsNotPassedOver` (IsoIsFallback) needs only that get_iso still looks
for the distro the page chose (`Chosen`): find_iso then refuses no good image.
Assumed: the constants are of the kinds the module names, and Python's
None is no image, arch or place.

**`InstallProofs`.** `HostInvariant`, `InstallTypes`, `MenuStaysLive` (MenuIsLive),
`UninstallationIsComplete` (UninstalledIsGone), `InstallationsStartClean`
(InstallsOnCleanDrives), for every list of drives, wherever the system drive is
in it. The lists are sequences of several dozen steps whose length depends on the
drives, so no invariant can enumerate places. Instead `Chained` says which step may
come directly after which, `InOrder` that what is left of a list respects it, and
`ReadyFor(h)` what a step h that is next finds done: that an entry is forgotten
only once it is deleted or lost, that a loader is unlinked only once no line is
left, that the key goes after the directory. A step keeps this because
its successor is among those `Chained` allows. `Recorded` accounts for every
entry of the boot configuration: it is the recorded one, or lost, or of this
process and about to be recorded (`Pending`). `Finished` is the end of an
uninstallation. That installations start on clean drives is an action property;
`CleanLook` says that what `fetch_basic_info` found is still true where the
decision is taken, and `Found` that two answers of None mean that no directory
holds anything (first and last of a set of drives, by well-foundedness). Assumed:
the system drive is one of the drives, no drive is listed twice, None is neither a
place nor a number, and `Refused` is no place and not None.

`EntryIsServed` (`Served`) is what `MenuStaysLive` needs beside the files of boot.ini: the
directory an entry names has its loader or will be repaired. While a list that
creates is running, the recorded entry is an older one until `undo_bcd` removes it, and
then this process' own, set up after the loader was copied; only a fix meets an older
entry without a loader, and only in the place it repairs. If it stops there the next
look finds that place and its missing loader (`LoopIsFound`), which is the repair.

What a list has done when it ends is a second invariant, `Work` (`WorkInvariant`).
`Stage` numbers the parts of a list and a list never goes back to an earlier one
(`Sorted`). `Plan` says that what is left holds every step that is required and of a
later stage, `Worked` that each required step is still to come or has left its
work: nothing behind it undoes it, since what is removed is removed in a stage before
that of what replaces it. `OnlyOurs`: once the old boot entries are gone,
what boots is this installation. `Walking` is what the process goes by
between two decisions. `Hosting` is what holds of the host whenever a process may have died:
with no registered directory nothing boots, at most one directory holds a
loop installation, and if a boot entry is found, a directory has what it boots; the last
is kept because the steps that may take it away find no boot entry (`Early`).
At the end of a list nothing is left, so `Worked` gives `InstallationIsComplete`
(InstalledIsComplete) and `FixesFix` (FixedFromInstaller); `Booted`
excepts an entry `bcdedit` refused, which nobody notices. `Hosting` gives
`FixesAreOfferedAgain` (FixIsOfferedAgain).

**`LauncherProofs`.** Nothing is assumed of the decoder. `HeadersAreUnderstood`
(HeaderIsUnderstood): what `SzReadHeader2` reads from what the compressor wrote
is the archive. `Laid` says where each block begins among the items, `Counts`
and `Sums` what the prefix counts and sums of the two programs are (the streams up
to an item, the bytes up to a stream), `Streamed` that the numbers of streams of
the blocks add up to those of the items. The loop that assigns items to blocks
then has the invariant `FillInv`: the stream it is at is that of the item it is at,
and every item passed has the block that holds its stream (`Placed`), so the
loop ends without error; and the size left out of a block is what the others
leave of it. `PythonIsComplete` (PythonHasItsFiles) follows, without
a premise, by `PInv`: what is laid out where (`LaidOut`), what the items already
passed have left (`Written`, `AllThere`), and which process is where while
(`Phases`).
`DirectoriesAreMade` (DirectoriesAreThere): `DirInv` says that every
directory the first loop has passed was made, or it or one above it was refused; the loop
runs backwards, and the items are sorted so that a directory is met before what
is inside it, which needs the assumption that a directory is enumerated after it
was added.
`RecursionStaysInside`: the frames of the recursion are paths of targetdir, each
one name below the one before it, and no name begins with a dot (`LInv`).
`NothingElseIsDeleted` (OnlyTargetIsDeleted) follows. `NothingIsLeftOver`
(LeftoverOnlyIfHindered) is the other direction and speaks of the end of the
recursion only. `DeletionInvariant` carries it there: unless a call was hindered, what
lies in the directory of a level is in the listing the frame has still to go
through, or is the name it works on, or begins with a dot (`Covers`, `Levels`), so
a level whose listing is used up is empty and `RemoveDirectory` succeeds; `Sound`
is what is laid out and decoded. `LauncherTypes` is the type invariant.
Both here and in `BootIniProofs` what a loop computes is a recursive function, and
a statement about all its values is proved without the library's induction
theorems: a set of natural numbers that is not empty has a least element
(`Least`), and the least index at which the statement fails contradicts the
equation of the function (`Counting`, `Recursion`; `Agree` and `SameSteps` for two
functions with the same steps).

**`BootIniProofs`.** `LoaderInvariant`, `EntriesHaveTheirLoaders`
(EntryHasItsLoader), `TheMenuIsKept` (MenuIsKept, the refinement of `BootMenu`),
`MenuInvariant`, `InstallationsHaveTheirEntry` (InstalledHasEntry), for every set of
first texts, any kinds of other lines and any number of lists.
The three lists are parts of one plan of 19 steps (`Plan`, `Rest`); `Place` is where
a list is in it. `LoaderInv` says that the files of every entry shown are whole and
guarded (`Kept`), which is why no later copy opens them; what the running list has
made ready before it adds its entry (`Ready`); which entries are no longer there
while their files are removed (`Clear`); and what the text about to be written
lacks (`Rewriting`), since a stop in between leaves any prefix of it.
For the refinement each rewrite keeps the lines that are not ours in their order:
`Without` leaves a subsequence (`Within`) and each step of `Scan` changes only a
timeout, a blank line or our entry (`Replaced`).
That an installation ends with its entry, and with the timeout in the section of the
boot loader (`InBootLoader`), needs that `modify_bootini` always gets to
the place where it adds one, and adding and removing lines must not spoil the text for the
next list. `Sane` is what makes a text readable: room among the operating
systems, at most one head and one timeout, both before the other sections, and no section
behind a timeout without a head. The last is false of a text after a removal if it
only speaks of adjacent lines; `Led` therefore skips our own. `Sane` is kept by
lines put in and taken out (`Grown`). The invariant of the loop
is `Seeking` (nothing added yet, what was passed has no room) or `Settled` (added
once, among the operating systems); `SeekingEnds` says that a loop that is
still seeking is not at the end. `ContentsAssumption` states the same of the
first text, which Windows' own setup writes in that form; the finding list below names what
happens to other texts.

**`DispatcherProofs`.** `Together` (`DInv`), `InstallsOnCleanHost`
(InstallsOnlyIfClean), `NothingUnasked` (ListsAreAskedFor), `QuitMeansNoMore`
(NothingStartsAfterQuit), `OneListOfEach` (OneOfEach), `DispatcherTypes`, for any
depth of nesting. `DInv` ties the place of the main thread to the outermost loop
(`InnermostOfPage` and the places each page belongs to), to the answers pressed
on the way (`Asked`) and to what the last look found (`Clean`: each of the two
commands' own question); `History` adds that
the lists started so far are in rising order and below the rank of what comes next.

Only model-checked: liveness (`InterfaceIsTold`, `LoopEnds`, both `QuitEnds`,
`LengthMeansEnd`, `DeletionEnds`, `StopUnwinds`), which is out of the prover's
reach. Every safety property, action property and refinement of a passing run is
proved.

## 6 Findings

Each is a run TLC must find violated, of a property the repository's own text
states. The details and quotes are in `PROJECT.json`.

1. `StopAdmitsNothing` — a list cancelled between the test and the assignment
   of `Task.__call__` runs to its end (tasklist.py:185).
2. `InstalledNeedsNoFix` — with boot.ini, a complete installation is always
   offered for repair: a mixed-case name is looked for in lower-case text
   (common/backend.py:315).
3. `RetrievedIfThere` — when copying the CD fails, the ISO that would do is not
   tried (common/backend.py:673).

Also met while modelling, and visible in the models, without a run of their own:

- `bcdedit` refusing to set up or to display the entry is swallowed
  (common/utils.py:62) and the entry recorded all the same
  (win32/backend.py:788-792): an installation may end without a way to boot it
  (`Refused`).
- A fix removes `winboot` before it deletes the entry that names a file in it. If it
  dies there, the boot menu offers something that cannot be started until the
  repair is run again (`MenuIsLive`).
- The CD boot helper asks only for `previous_target_dir` (application.py:275,280), so
  it installs beside a `startos-livecd` it has found, or a `startos-loop` whose
  root.disk is missing or small (`InstallsOnlyIfClean`). A key whose directory is gone
  hides the directories that were found: `run_uninstaller` returns at once
  (application.py:215-221) and the second look finds the same (`NothingToUninstall`).
- `modify_bcd` makes its entry visible before it records its id, and
  `undo_bcd` forgets an id `bcdedit` refused to delete: `UninstalledIsGone`
  has to except the entries in `lost`.
- A `swap.disk` left empty by an installation that died is skipped by a fix
  (`SkipDisk`).
- After an uninstallation died between removing the directory and the key, the
  CD boot helper asks to uninstall first while the uninstaller finds nothing
  (place *refused* of `Install`, `OldFound` of the two commands).
- A user who continues in spite of the size warning may get a page with no size
  to select, whose Install button does nothing (`OnInstall`).
- `check_pre_install_files` ignores a root.disk below 1500 MB although its
  comment says 500 MB: a 1 GB installation is never offered for repair.
- The end blocks of a disk are filled with the character `0` (byte 48), where
  the docstring says zeroed (`WriteBuf`).
- On a 32-bit host a 64-bit disc put in after the start is installed as 32-bit
  (`DistroInLine` has to except it); a fix takes the kernel from whatever valid
  CD is in the drive (`Medium`); `--isopath` is overwritten before it is looked
  at (`FetchBasicInfo`); an ISO `7z` cannot list ends the program at start
  (place *crashed*).

- A repair chosen from the CD boot helper installs the LiveCD's loader, because
  `modify_bcd` takes the flavour from `info.run_task` (win32/backend.py:727):
  `FixedFromInstaller` has to except it.
- Where exactly one size fits, `select_default_size` reads past its list
  (installation_page.py:182, `ShowSizes`).
- After a failed CreateFile, on a full drive or one that refuses every write,
  and after a failed seek to the start of a disk without room behind it,
  `zero_file` repeats its failing write for ever (virtualdisk.py:146-158):
  `LengthMeansEnd` is about a disk that has got its length and its pointer.
- After a failed seek to the start, the first block is written behind the disk, which
  grows; after one to the last block, that block is never written, and the
  file is too short if `SetEndOfFile` failed too (virtualdisk.py:61-97).
- A disc changed between the copy of the files and the extraction of the kernel is
  not noticed (common/backend.py:713): `KernelFitsIso` has to except it.
- A second CD boot installation fails at its first copy, since `copyfile` cannot
  open the read-only loader of the first (`CanOpen` of `BootIni`).
- The loop of `modify_bootini` skips the line behind a timeout it removes, writes
  no entry into a section without an empty line at its end
  (`ContentsAssumption`), never meets an entry that is already there, because the
  list has removed it, and raises on an empty boot.ini (`Truncate`).
- A `sys.exit` swallowed in a nested loop leaves the outer loops waiting for ever:
  WM_QUIT is taken by the innermost (`QuitEnds` has to ask for a single loop).

## 7 What is not modelled

- `config.sys` (Windows 98), NTFS compression, the preseed file, icons and the
  pages' texts: no later decision depends on them.
- Downloads, metalinks, signatures: `get_iso` does not use them and the
  addresses in isolist.ini are empty; `download_iso` is disabled.
- `backup_iso`: it is the first task of `get_uninstallation_tasklist`
  (common/backend.py:213) and returns at once, since `info.backup_iso` is False: its check
  button is hidden and not checked. `check_cd`: nothing calls it.
- The string given with `--size`: the sizes modelled are those of the page.
- In `Install`: the error of `SetValueEx` that `set_value` swallows
  (win32/registry.py:46-50), a missing `bcdedit.exe`, a boot.ini section without an empty
  line (in `BootIni`), a disk left without its length (in `VirtualDisk`).
- Host information, language, keyboard and time-zone tables, widgets, eject: no
  state of their own.
- Progress arithmetic: percent, speed and remaining time are shown and decide
  nothing.
- The launcher: LZMA, CRC and filters, packed or encrypted headers, memory, the
  module table inside pyrun; the handle that makes Windows delete the copy of
  pylauncher; a `chdir` that fails although `CreateDirectory` succeeded.
- boot.ini on a second drive; Python's recursion limit for nested pages.
- `delete_key` that fails, `run_command` blocked on a full pipe, FAT drives
  that are not on the page: too far from any observable state.
- GRUB scripts, installer hooks, packaging: interpreted or run outside of the
  program.
- Vendored code: `grub4dos`, `grubutil`, `bittorrent`, `urlgrabber`, `openpgp`,
  `winboot` and most of `7z` are programs and libraries of others, by far the
  largest part of the C and C++ of the repository and not this program's logic.
  What the launcher compiles in of `7z` is modelled as far as it decides which
  bytes a file gets.
- `join(3)` nearly always times out while the worker waits for the window
  thread, so `force_exit` is the usual way out: `RunTasks` has both.

## 8 Plan

Order: the engine every list runs on, first; what the lists leave on the host;
what they take from the user and the media; then the rest.

| # | Module | State | Contents |
|---|---|---|---|
| 1 | `TaskList`, `AdmissionControl` | done | engine and its abstract specification, refinement checked and proved |
| 2 | `RunTasks` | done | engine beside the interface thread |
| 3 | `Install` | done | host over several processes with crashes |
| 4 | `InstallationSize` | done | settings page, proved |
| 5 | `VirtualDisk` | done | disk creation, proved |
| 6 | `IsoAcquisition` | done | media, proved |
| 7 | `BootIni`, `BootMenu` | done | boot.ini and the loader files, with torn writes; abstract specification; the loops and the refinement proved |
| 8 | `Dispatcher` | done | `select_task`, pages and nested loops, proved |
| 9 | `Launcher`, `Unpack`, `SevenZip`, `DeleteDirectory`, `TargetDirectory` | done | unpack, run, delete, proved with the decoder |
| 10 | `Progress` | dropped | the numbers decide nothing |
| 11 | boot chain | left | `yldr.cfg` finds what `Install` leaves |

Theorems left: none about what the runs check but liveness. Worth adding where
the models grow: the boot chain of row 11, from what `Install` is proved to leave.
