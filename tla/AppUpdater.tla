----------------------------- MODULE AppUpdater -----------------------------
(***************************************************************************)
(* The desktop updater: the home screen walks through check, download and  *)
(* install, while the main process keeps one release, one installer path   *)
(* and two file names for all of them.  The screen forgets where it was    *)
(* when it is mounted again, so downloads may overlap, each reading the    *)
(* shared fields and names after its awaits.                               *)
(*                                                                         *)
(* A download is an inode too: the file that its stream goes to.  Removing *)
(* or renaming a name leaves the stream alone.  Bytes are "part" while     *)
(* they arrive, then "whole" when they have the digest of their release.   *)
(***************************************************************************)
EXTENDS Integers, FiniteSets, FiniteSetsExt

CONSTANTS
  Releases,      \* newer releases that a check may select
  None,          \* no release, no file
  Old,           \* the file that an earlier run of the program left behind
  MaxMounts,     \* bound: how often the home screen is mounted
  MaxDownloads   \* bound: downloads

ASSUME UpdaterAssumption ==
  /\ MaxMounts \in Nat \ {0} /\ MaxDownloads \in Nat
  /\ None \notin Releases /\ None # Old
  /\ {None, Old} \cap (1..MaxDownloads) = {}

VARIABLES
  screen,     \* the mounted home screen: mount, stage, busy
  checks,     \* mounts whose checkForUpdate has not returned
  release,    \* this.release
  installer,  \* whether this.installer is set; it is always the target's path
  get,        \* get[d]: download d
  partial,    \* the inode under the partial's name
  target,     \* the inode under the installer's name
  ran,        \* what install has started: {} or {inode}, {None} if no file
  crowded     \* history: a download began beside two others, or beside one
              \* that was still about to remove the partial

vars == <<screen, checks, release, installer, get, partial, target, ran, crowded>>

Downloads == 1..MaxDownloads

\* useState of a fresh home screen.
Mounted(m) == [mount |-> m, stage |-> "check", busy |-> FALSE]

\* A download that has not begun, and what its end leaves but for the bytes.
Unused == [step |-> "unused", of |-> None, bytes |-> "part", mount |-> 0, ready |-> FALSE]

Init ==
  /\ screen = Mounted(1)
  /\ checks = {}
  /\ release = None
  /\ installer = FALSE
  /\ get = [d \in Downloads |-> Unused]
  /\ partial \in {None, Old}
  /\ target \in {None, Old}
  /\ ran = {}
  /\ crowded = FALSE

----------------------------------------------------------------------------
\* check.

Check ==
  /\ screen.stage = "check"
  /\ ~screen.busy
  /\ screen' = [screen EXCEPT !.busy = TRUE]
  /\ checks' = checks \cup {screen.mount}
  /\ UNCHANGED <<release, installer, get, partial, target, ran, crowded>>

\* The screen after the call of mount m, unless it is another one by now.
Returned(m, stage) ==
  IF m = screen.mount THEN [screen EXCEPT !.busy = FALSE, !.stage = stage] ELSE screen

\* The releases arrive; selectRelease may find none.
CheckAnswered(m) ==
  /\ m \in checks
  /\ checks' = checks \ {m}
  /\ \E r \in Releases \cup {None} :
       /\ release' = r
       /\ screen' = Returned(m, IF r = None THEN "check" ELSE "download")
  /\ installer' = FALSE
  /\ UNCHANGED <<get, partial, target, ran, crowded>>

\* openHttps fails or times out, or the answer cannot be read.
CheckFails(m) ==
  /\ m \in checks
  /\ checks' = checks \ {m}
  /\ screen' = Returned(m, "check")
  /\ UNCHANGED <<release, installer, get, partial, target, ran, crowded>>

\* The user leaves the home screen for a session and comes back.
Remount ==
  /\ screen.mount < MaxMounts
  /\ screen' = Mounted(screen.mount + 1)
  /\ UNCHANGED <<checks, release, installer, get, partial, target, ran, crowded>>

----------------------------------------------------------------------------
\* download, one action from await to await.

Running == {d \in Downloads : get[d].step \notin {"unused", "ended"}}

Steps(d, step) == get' = [get EXCEPT ![d].step = step]

\* download up to the removal of the partial.
StartDownload(d) ==
  /\ screen.stage = "download"
  /\ ~screen.busy
  /\ release # None
  /\ d = Min({e \in Downloads : get[e].step = "unused"} \cup {MaxDownloads})
  /\ get[d].step = "unused"
  /\ screen' = [screen EXCEPT !.busy = TRUE]
  /\ get' = [get EXCEPT ![d].step = "start", ![d].mount = screen.mount]
  /\ crowded' = (crowded \/ Cardinality(Running) >= 2
                         \/ \E e \in Running : get[e].step = "start")
  /\ UNCHANGED <<checks, release, installer, partial, target, ran>>

\* The partial is gone, and the request goes out for the release of now.
\* Without one the TypeError runs into finally.
RemovePartial(d) ==
  /\ get[d].step = "start"
  /\ partial' = None
  /\ get' = [get EXCEPT ![d].of = release,
               ![d].step = IF release = None THEN "clean" ELSE "request"]
  /\ UNCHANGED <<screen, checks, release, installer, target, ran, crowded>>

\* The response has come, and createWriteStream creates the partial; with the
\* flag wx it must not be there.
CreatePartial(d) ==
  /\ get[d].step = "request"
  /\ partial' = IF partial = None THEN d ELSE partial
  /\ Steps(d, IF partial = None THEN "stream" ELSE "clean")
  /\ UNCHANGED <<screen, checks, release, installer, target, ran, crowded>>

\* A chunk comes when a check has taken the release away: the TypeError leaves
\* the Transform without its callback being called, and no chunk goes through it
\* again.  The stream is "stalled" while some of the response is still to come,
\* which the socket's time limit ends, and "hung" once all of it is buffered.
ChunkThrows(d) ==
  /\ get[d].step = "stream"
  /\ release = None
  /\ \E step \in {"stalled", "hung"} : Steps(d, step)
  /\ UNCHANGED <<screen, checks, release, installer, partial, target, ran, crowded>>

\* Mutant of TimesOut: a request that is never answered has no time limit.
TimesOutInStream(d) ==
  /\ get[d].step \in {"stream", "stalled"}
  /\ Steps(d, "clean")
  /\ UNCHANGED <<screen, checks, release, installer, partial, target, ran, crowded>>

\* No response, a broken or silent stream, more bytes than the release has.
TimesOut(d) ==
  /\ get[d].step \in {"request", "stream", "stalled"}
  /\ Steps(d, "clean")
  /\ UNCHANGED <<screen, checks, release, installer, partial, target, ran, crowded>>

\* Mutant of Verified: the digest is not compared.
OfRelease(d, bytes) == get[d].of = release

\* What was streamed has the size and the digest of the release of now.
Verified(d, bytes) == bytes = "whole" /\ get[d].of = release

\* pipeline returns and the bytes are verified.
StreamEnds(d) ==
  /\ get[d].step = "stream"
  /\ \E bytes \in {"whole", "wrong"} :
       get' = [get EXCEPT ![d].bytes = bytes,
                 ![d].step = IF Verified(d, bytes) THEN "replace" ELSE "clean"]
  /\ UNCHANGED <<screen, checks, release, installer, partial, target, ran, crowded>>

RemoveTarget(d) ==
  /\ get[d].step = "replace"
  /\ target' = None
  /\ Steps(d, "rename")
  /\ UNCHANGED <<screen, checks, release, installer, partial, ran, crowded>>

\* Mutant of RenamePartial: the partial is linked under the installer's name.
LinkPartial(d) ==
  /\ get[d].step = "rename"
  /\ partial # None
  /\ target' = partial
  /\ installer' = TRUE
  /\ get' = [get EXCEPT ![d].step = "clean", ![d].ready = release # None]
  /\ UNCHANGED <<screen, checks, release, partial, ran, crowded>>

\* Whatever has the partial's name becomes the installer; the answer reads the
\* tag of the release of now.
RenamePartial(d) ==
  /\ get[d].step = "rename"
  /\ partial # None
  /\ target' = partial
  /\ partial' = None
  /\ installer' = TRUE
  /\ get' = [get EXCEPT ![d].step = "clean", ![d].ready = release # None]
  /\ UNCHANGED <<screen, checks, release, ran, crowded>>

\* The partial is not there, or the file system refuses one of the steps.
FileError(d) ==
  /\ get[d].step \in {"replace", "rename"}
  /\ Steps(d, "clean")
  /\ UNCHANGED <<screen, checks, release, installer, partial, target, ran, crowded>>

\* finally: the partial is removed, if the file system lets it, and the call
\* returns.  The first removal, before try, may fail as well.
Clean(d) ==
  /\ get[d].step \in {"start", "clean"}
  /\ get' = [get EXCEPT ![d] = [Unused EXCEPT !.step = "ended", !.bytes = get[d].bytes]]
  /\ \/ get[d].step = "clean" /\ partial' = None
        /\ screen' = Returned(get[d].mount, IF get[d].ready THEN "install" ELSE "download")
     \/ UNCHANGED partial /\ screen' = Returned(get[d].mount, "download")
  /\ UNCHANGED <<checks, release, installer, target, ran, crowded>>

----------------------------------------------------------------------------
\* install: the installer is started and the program quits.
Install ==
  /\ screen.stage = "install"
  /\ ~screen.busy
  /\ installer
  /\ ran' = {target}
  /\ UNCHANGED <<screen, checks, release, installer, get, partial, target, crowded>>

FileStep(d) ==
  \/ RemovePartial(d)
  \/ RemoveTarget(d)
  \/ RenamePartial(d)
  \/ FileError(d)
  \/ Clean(d)

Next ==
  /\ ran = {}
  /\ \/ Check
     \/ Remount
     \/ Install
     \/ \E m \in checks : CheckAnswered(m) \/ CheckFails(m)
     \/ \E d \in Downloads :
          \/ StartDownload(d) \/ CreatePartial(d) \/ ChunkThrows(d) \/ StreamEnds(d)
          \/ TimesOut(d) \/ FileStep(d)

Spec == Init /\ [][Next]_vars

\* Requests have a time limit and file operations return; servers and the user
\* owe nothing.
FairSpec ==
  /\ Spec
  /\ \A m \in 1..MaxMounts : WF_vars(ran = {} /\ CheckFails(m))
  /\ \A d \in Downloads :
       WF_vars(ran = {} /\ TimesOut(d)) /\ WF_vars(ran = {} /\ FileStep(d))

----------------------------------------------------------------------------
\* Types, and no inode has both names.
TypeOK ==
  /\ screen \in [mount : 1..MaxMounts, stage : {"check", "download", "install"},
                 busy : BOOLEAN]
  /\ checks \subseteq 1..MaxMounts
  /\ release \in Releases \cup {None}
  /\ installer \in BOOLEAN
  /\ get \in [Downloads -> [step : {"unused", "start", "request", "stream", "stalled", "hung",
                                    "replace", "rename", "clean", "ended"},
                            of : Releases \cup {None}, bytes : {"part", "whole", "wrong"},
                            mount : 0..MaxMounts, ready : BOOLEAN]]
  /\ {partial, target} \subseteq Downloads \cup {None, Old}
  /\ partial \in Downloads => partial # target
  /\ ran \subseteq Downloads \cup {None, Old}

\* "verifies GitHub's SHA-256 asset digest before starting the installer"
\* (UPDATES.md): a file that install starts is the whole file of a release,
\* though download renames whatever has the partial's name.  Two downloads at
\* a time cannot break it, unless the first is still at its own first removal;
\* three can.
InstalledIsVerified ==
  ~crowded => \A f \in ran \ {None} : f \in Downloads /\ get[f].bytes = "whole"

\* The button is not left busy by a server that says nothing, by a check that
\* failed, or by a download that lost its partial or its release to another
\* mount (handleUpdate).  One case is excepted, for the code has it: the screen's
\* own download lost its release while the rest of the response was buffered.
UpdateSettles ==
  screen.busy ~> \/ ~screen.busy
                 \/ \E d \in Downloads : get[d].step = "hung" /\ get[d].mount = screen.mount
=============================================================================
