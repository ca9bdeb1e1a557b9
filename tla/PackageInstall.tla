--------------------------- MODULE PackageInstall ---------------------------
(***************************************************************************)
(* install_package (install.c) and the mounting of volumes (roots.c,       *)
(* mounts.c), over a sequence of installs from the menus.  A package on    *)
(* /data or /system is first copied to the ramdisk, the common roots are   *)
(* unmounted, the update binary of the package runs and sends commands     *)
(* back through a pipe, and the roots are mounted again.  A volume on      *)
(* which recovery has a file open cannot be unmounted.                     *)
(*                                                                         *)
(* A mount or unmount may fail at any time.  The paths of packages are     *)
(* abstracted to the volumes they are on; "/sdcard" is on /data.           *)
(***************************************************************************)
EXTENDS Integers, FiniteSets

CONSTANTS
    Sources,      \* the volumes packages are on
    MaxInstalls   \* bound on the installs

Roots == {"system", "cache", "data", "external"}   \* the common roots
Ram   == {"tmp", "install"}                        \* ramdisks, always mounted

ASSUME PackageAssumption == Sources \subseteq Roots \cup {"tmp"} /\ MaxInstalls \in Nat

VARIABLES
    volumes,      \* the roots that are mounted
    open_files,   \* per root: the files and maps recovery has open on it
    card,         \* 1 if the external card is in (device_node_exists)
    ipc,          \* where install_package is
    source, path, \* the volume of the package, and of the path installed from
    result,       \* INSTALL_SUCCESS, INSTALL_ERROR or INSTALL_CORRUPT
    wipe_cache,   \* the caller's flag
    requested,    \* history: this package's binary sent wipe_cache
    cut_short,    \* history: a copy has failed with the original open
    installs      \* history: the installs so far

pkgVars == <<volumes, open_files, card, ipc, source, path, result, wipe_cache, requested,
             cut_short, installs>>

-----------------------------------------------------------------------------
(***************************************************************************)
(* Volumes.                                                                *)
(***************************************************************************)
Busy(v) == open_files[v] > 0

\* ensure_path_mounted: nothing to do for a ramdisk or a mounted volume (by
\* scan_mounted_volumes); otherwise the device or the second device is mounted.
ensure_path_mounted(v) ==
    volumes' \in IF v \in Ram \cup volumes \/ (v = "external" /\ card = 0)
                 THEN {volumes} ELSE {volumes, volumes \cup {v}}

\* It returned 0.
Reachable(v) == v \in Ram \cup volumes'

\* The roots that ensure_common_roots_mounted and _unmounted go through.
Common == IF card = 1 THEN Roots ELSE Roots \ {"external"}

ensure_common_roots_mounted ==
    \E tried \in SUBSET Common : volumes' = volumes \cup tried

ensure_common_roots_unmounted ==
    \E gone \in SUBSET {v \in Common : ~Busy(v)} : volumes' = volumes \ gone

\* format_volume, for another volume than /data.  The file system is made only
\* if the volume could be unmounted, and stays unmounted.
format_volume(v) ==
    \/ v \in volumes /\ UNCHANGED volumes
    \/ ~(Busy(v) /\ v \in volumes) /\ volumes' = volumes \ {v}

-----------------------------------------------------------------------------
(***************************************************************************)
(* install_package.                                                        *)
(***************************************************************************)
\* Mutant: only packages on /system are copied.
NeedsCopy_Mutant(v) == v = "system"

\* requires_copy.
NeedsCopy(v) == v \notin {"external", "cache", "tmp"}

InstallBegin ==
    /\ ipc = "idle" /\ installs < MaxInstalls /\ installs' = installs + 1
    /\ \E v \in Sources :
           source' = v /\ path' = v /\ ipc' = (IF NeedsCopy(v) THEN "copy" ELSE "unmount")
    /\ result' = "success" /\ requested' = 0
    /\ UNCHANGED <<volumes, open_files, card, wipe_cache, cut_short>>

\* copy_package.  When the copy cannot be created, written or closed, the
\* original is left open.
CopyPackage ==
    /\ ipc = "copy" /\ ensure_path_mounted(source)
    /\ \/ /\ Reachable(source) /\ path' = "install" /\ ipc' = "unmount"
          /\ UNCHANGED <<open_files, cut_short, result>>
       \/ /\ result' = "corrupt" /\ ipc' = "end"
          /\ UNCHANGED <<open_files, cut_short, path>>
       \/ /\ Reachable(source) /\ result' = "corrupt" /\ ipc' = "end"
          /\ open_files' = [open_files EXCEPT ![source] = @ + 1] /\ cut_short' = 1
          /\ UNCHANGED path
    /\ UNCHANGED <<card, source, wipe_cache, requested, installs>>

UnmountRoots ==
    /\ ipc = "unmount" /\ ipc' = "keep_cache" /\ ensure_common_roots_unmounted
    /\ UNCHANGED <<open_files, card, source, path, result, wipe_cache, requested, cut_short, installs>>

KeepCache ==
    /\ ipc = "keep_cache" /\ ipc' = "open" /\ ensure_path_mounted("cache")
    /\ UNCHANGED <<open_files, card, source, path, result, wipe_cache, requested, cut_short, installs>>

Opened(n) == IF path \in Roots THEN [open_files EXCEPT ![path] = @ + n] ELSE open_files

\* really_install_package: the archive is mapped into memory.
really_install_package ==
    /\ ipc = "open" /\ ensure_path_mounted(path)
    /\ \/ /\ Reachable(path) /\ open_files' = Opened(1) /\ ipc' = "binary" /\ UNCHANGED result
       \/ result' = "corrupt" /\ ipc' = "mount" /\ UNCHANGED open_files
    /\ UNCHANGED <<card, source, path, wipe_cache, requested, cut_short, installs>>

\* try_update_binary: without a binary of its own the package goes to
\* /sbin/updater and the archive stays open; otherwise it is closed whether the
\* binary can be extracted or not.
ExtractBinary ==
    /\ ipc = "binary"
    /\ \/ ipc' = "fork" /\ open_files' \in {open_files, Opened(-1)} /\ UNCHANGED result
       \/ ipc' = "mount" /\ open_files' = Opened(-1) /\ result' = "error"
    /\ UNCHANGED <<volumes, card, source, path, wipe_cache, requested, cut_short, installs>>

\* Mutant: the flag of the last install stays.
Fork_Mutant ==
    /\ ipc = "fork" /\ ipc' = "run"
    /\ UNCHANGED <<volumes, open_files, card, source, path, result, wipe_cache, requested, cut_short, installs>>

Fork ==
    /\ ipc = "fork" /\ ipc' = "run" /\ wipe_cache' = 0
    /\ UNCHANGED <<volumes, open_files, card, source, path, result, requested, cut_short, installs>>

\* A line from the binary; of its commands only wipe_cache matters here.
BinaryCommand ==
    /\ ipc = "run" /\ wipe_cache' = 1 /\ requested' = 1
    /\ UNCHANGED <<volumes, open_files, card, ipc, source, path, result, cut_short, installs>>

\* External: the binary mounts and unmounts what it needs.
BinaryMounts ==
    /\ ipc = "run"
    /\ \E v \in Roots : \/ v \notin volumes /\ volumes' = volumes \cup {v}
                        \/ v \in volumes /\ ~Busy(v) /\ volumes' = volumes \ {v}
    /\ UNCHANGED <<open_files, card, ipc, source, path, result, wipe_cache, requested, cut_short, installs>>

\* The pipe is closed; waitpid.
BinaryExits ==
    /\ ipc = "run" /\ ipc' = "mount" /\ result' \in {"success", "error"}
    /\ UNCHANGED <<volumes, open_files, card, source, path, wipe_cache, requested, cut_short, installs>>

MountRoots ==
    /\ ipc = "mount" /\ ipc' = "end" /\ ensure_common_roots_mounted
    /\ UNCHANGED <<open_files, card, source, path, result, wipe_cache, requested, cut_short, installs>>

\* Back in the caller.
InstallReturns ==
    /\ ipc = "end"
    /\ ipc' = (IF result = "success" /\ wipe_cache = 1 THEN "erase" ELSE "idle")
    /\ UNCHANGED <<volumes, open_files, card, source, path, result, wipe_cache, requested, cut_short, installs>>

EraseCache ==
    /\ ipc = "erase" /\ ipc' = "idle" /\ format_volume("cache")
    /\ UNCHANGED <<open_files, card, source, path, result, wipe_cache, requested, cut_short, installs>>

\* External: the card is put in or, unmounted, taken out.
CardChanges ==
    /\ ipc = "idle" /\ "external" \notin volumes /\ card' = 1 - card
    /\ UNCHANGED <<volumes, open_files, ipc, source, path, result, wipe_cache, requested, cut_short, installs>>

-----------------------------------------------------------------------------
PackageInit ==
    /\ volumes = Roots /\ open_files = [v \in Roots |-> 0] /\ card = 1
    /\ ipc = "idle" /\ source = "tmp" /\ path = "tmp" /\ result = "success"
    /\ wipe_cache = 0 /\ requested = 0 /\ cut_short = 0 /\ installs = 0

PackageNext ==
    \/ InstallBegin \/ CopyPackage \/ UnmountRoots \/ KeepCache \/ really_install_package
    \/ ExtractBinary \/ Fork \/ BinaryCommand \/ BinaryMounts \/ BinaryExits
    \/ MountRoots \/ InstallReturns \/ EraseCache \/ CardChanges

PackageSpec == PackageInit /\ [][PackageNext]_pkgVars

-----------------------------------------------------------------------------
(***************************************************************************)
(* Properties.                                                             *)
(***************************************************************************)

\* /cache is wiped after an install only if the binary of that very package
\* asked for it, however the installs before it went: the flag of an earlier
\* package does not survive into a later one that succeeds.
WipeAsked == ipc = "erase" => requested = 1

\* While an update binary runs, recovery has no file of /system or /data open
\* that would keep the binary from unmounting and formatting them, unless an
\* earlier copy was cut short, which leaves the original open for good.
RootsFree ==
    ipc = "run" /\ cut_short = 0 => ~Busy("system") /\ ~Busy("data")

=============================================================================
