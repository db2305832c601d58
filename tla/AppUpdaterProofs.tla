-------------------------- MODULE AppUpdaterProofs --------------------------
(***************************************************************************)
(* Proofs about AppUpdater, for any number of mounts and downloads and any *)
(* set of releases.                                                        *)
(***************************************************************************)
EXTENDS AppUpdater, FiniteSetTheorems, WellFoundedInduction, TLAPS

(***************************************************************************)
(* Types, and what each step changes.                                      *)
(***************************************************************************)

ScreenRecord ==
  [mount : 1..MaxMounts, stage : {"check", "download", "install"}, busy : BOOLEAN]

DownloadRecord ==
  [step : {"unused", "start", "request", "stream", "stalled", "hung", "replace", "rename",
           "clean", "ended"},
   of : Releases \cup {None}, bytes : {"part", "whole", "wrong"},
   mount : 0..MaxMounts, ready : BOOLEAN]

\* The type of every variable.
Types ==
  /\ screen \in ScreenRecord
  /\ checks \subseteq 1..MaxMounts
  /\ release \in Releases \cup {None}
  /\ installer \in BOOLEAN
  /\ get \in [Downloads -> DownloadRecord]
  /\ {partial, target} \subseteq Downloads \cup {None, Old}
  /\ ran \subseteq Downloads \cup {None, Old}
  /\ crowded \in BOOLEAN

\* Download d takes a step and no other does.
Turns(d, step, bytes, mount, ready) ==
  /\ get' \in [Downloads -> DownloadRecord]
  /\ \A e \in Downloads \ {d} : get'[e] = get[e]
  /\ get'[d].step = step
  /\ get'[d].bytes = bytes
  /\ get'[d].mount = mount
  /\ get'[d].ready = ready

\* A step that changes nothing else of its download.
LEMMA StepsTurn ==
  ASSUME Types, NEW d \in Downloads,
         NEW step \in {"start", "request", "stream", "stalled", "hung", "replace", "rename",
                       "clean"},
         Steps(d, step)
  PROVE  Turns(d, step, get[d].bytes, get[d].mount, get[d].ready)
BY DEF Types, DownloadRecord, Steps, Turns

Others == <<screen, checks, release, ran, crowded>>

\* The steps of a download after its start, as far as the invariants need them.
Removes(d) ==
  /\ get[d].step = "start" /\ partial' = None /\ UNCHANGED <<target, installer>>
  /\ UNCHANGED Others
  /\ \E step \in {"request", "clean"} :
       Turns(d, step, get[d].bytes, get[d].mount, get[d].ready)

Creates(d) ==
  /\ get[d].step = "request" /\ partial = None /\ partial' = d
  /\ UNCHANGED <<target, installer>> /\ UNCHANGED Others
  /\ Turns(d, "stream", get[d].bytes, get[d].mount, get[d].ready)

Breaks(d) ==
  /\ get[d].step \in {"request", "stream", "stalled", "replace", "rename"}
  /\ UNCHANGED <<partial, target, installer>> /\ UNCHANGED Others
  /\ \E bytes \in {"part", "whole", "wrong"} :
       /\ bytes = get[d].bytes \/ get[d].step = "stream"
       /\ Turns(d, "clean", bytes, get[d].mount, get[d].ready)

Hangs(d) ==
  /\ get[d].step = "stream"
  /\ UNCHANGED <<partial, target, installer>> /\ UNCHANGED Others
  /\ \E step \in {"stalled", "hung"} :
       Turns(d, step, get[d].bytes, get[d].mount, get[d].ready)

Passes(d) ==
  /\ get[d].step = "stream"
  /\ UNCHANGED <<partial, target, installer>> /\ UNCHANGED Others
  /\ Turns(d, "replace", "whole", get[d].mount, get[d].ready)

Unlinks(d) ==
  /\ get[d].step = "replace" /\ target' = None
  /\ UNCHANGED <<partial, installer>> /\ UNCHANGED Others
  /\ Turns(d, "rename", get[d].bytes, get[d].mount, get[d].ready)

Publishes(d) ==
  /\ get[d].step = "rename" /\ partial # None
  /\ target' = partial /\ partial' = None /\ installer' = TRUE
  /\ UNCHANGED Others
  /\ \E ready \in BOOLEAN : Turns(d, "clean", get[d].bytes, get[d].mount, ready)

Ends(d) ==
  /\ get[d].step \in {"start", "clean"}
  /\ partial' \in {None, partial}
  /\ UNCHANGED <<target, installer, checks, release, ran, crowded>>
  /\ Turns(d, "ended", get[d].bytes, 0, FALSE)
  /\ \E stage \in {"download", "install"} :
       /\ stage = "install" => get[d].ready
       /\ screen' = Returned(get[d].mount, stage)

Continues(d) ==
  \/ Removes(d) \/ Creates(d) \/ Breaks(d) \/ Hangs(d) \/ Passes(d)
  \/ Unlinks(d) \/ Publishes(d) \/ Ends(d)

\* The actions of a download are those steps.
LEMMA DownloadsContinue ==
  ASSUME Types, NEW d \in Downloads,
         \/ CreatePartial(d) \/ ChunkThrows(d) \/ StreamEnds(d) \/ TimesOut(d)
         \/ FileStep(d)
  PROVE  Continues(d)
<1>1. CASE RemovePartial(d)
  <2>1. PICK step \in {"request", "clean"} :
          get' = [get EXCEPT ![d].of = release, ![d].step = step]
    BY <1>1 DEF RemovePartial
  <2>2. Turns(d, step, get[d].bytes, get[d].mount, get[d].ready)
    BY <2>1, ZenonT(60) DEF Types, DownloadRecord, Turns
  <2>3. Removes(d)
    BY <1>1, <2>2 DEF RemovePartial, Removes, Others
  <2>4. QED
    BY <2>3 DEF Continues
<1>2. CASE CreatePartial(d)
  <2>1. CASE partial = None
    <3>1. Turns(d, "stream", get[d].bytes, get[d].mount, get[d].ready)
      BY <1>2, <2>1, StepsTurn DEF CreatePartial
    <3>2. Creates(d)
      BY <1>2, <2>1, <3>1 DEF CreatePartial, Creates, Others
    <3>3. QED
      BY <3>2 DEF Continues
  <2>2. CASE partial # None
    <3>1. Turns(d, "clean", get[d].bytes, get[d].mount, get[d].ready)
      BY <1>2, <2>2, StepsTurn DEF CreatePartial
    <3>2. get[d].bytes \in {"part", "whole", "wrong"}
      BY DEF Types, DownloadRecord
    <3>3. Breaks(d)
      BY <1>2, <2>2, <3>1, <3>2 DEF CreatePartial, Breaks, Others
    <3>4. QED
      BY <3>3 DEF Continues
  <2>3. QED
    BY <2>1, <2>2
<1>3. CASE TimesOut(d) \/ FileError(d)
  <2>1. Turns(d, "clean", get[d].bytes, get[d].mount, get[d].ready)
    BY <1>3, StepsTurn DEF TimesOut, FileError
  <2>2. get[d].bytes \in {"part", "whole", "wrong"}
    BY DEF Types, DownloadRecord
  <2>3. Breaks(d)
    BY <1>3, <2>1, <2>2 DEF TimesOut, FileError, Breaks, Others
  <2>4. QED
    BY <2>3 DEF Continues
<1>4. CASE StreamEnds(d)
  <2>1. PICK bytes \in {"whole", "wrong"}, step \in {"replace", "clean"} :
          /\ step = "replace" => bytes = "whole"
          /\ get' = [get EXCEPT ![d].bytes = bytes, ![d].step = step]
    BY <1>4 DEF StreamEnds, Verified
  <2>2. Turns(d, step, bytes, get[d].mount, get[d].ready)
    BY <2>1, ZenonT(60) DEF Types, DownloadRecord, Turns
  <2>3. get[d].step = "stream" /\ UNCHANGED <<partial, target, installer>>
        /\ UNCHANGED Others
    BY <1>4 DEF StreamEnds, Others
  <2>4. Passes(d) \/ Breaks(d)
    BY <2>1, <2>2, <2>3 DEF Passes, Breaks
  <2>5. QED
    BY <2>4 DEF Continues
<1>5. CASE RemoveTarget(d)
  <2>1. Turns(d, "rename", get[d].bytes, get[d].mount, get[d].ready)
    BY <1>5, StepsTurn DEF RemoveTarget
  <2>2. Unlinks(d)
    BY <1>5, <2>1 DEF RemoveTarget, Unlinks, Others
  <2>3. QED
    BY <2>2 DEF Continues
<1>6. CASE RenamePartial(d)
  <2>1. PICK ready \in BOOLEAN : ready = (release # None)
    OBVIOUS
  <2>2. get' = [get EXCEPT ![d].step = "clean", ![d].ready = ready]
    BY <1>6, <2>1 DEF RenamePartial
  <2>3. Turns(d, "clean", get[d].bytes, get[d].mount, ready)
    BY <2>2, ZenonT(60) DEF Types, DownloadRecord, Turns
  <2>4. Publishes(d)
    BY <1>6, <2>3 DEF RenamePartial, Publishes, Others
  <2>5. QED
    BY <2>4 DEF Continues
<1>7. CASE Clean(d)
  <2>b. PICK bytes \in {"part", "whole", "wrong"} : bytes = get[d].bytes
    BY DEF Types, DownloadRecord
  <2>m. 0 \in 0..MaxMounts
    BY UpdaterAssumption
  <2>u. PICK u : u = Unused
    OBVIOUS
  <2>0. u \in DownloadRecord /\ u.mount = 0 /\ u.ready = FALSE
    BY <2>m, <2>u DEF DownloadRecord, Unused
  <2>1. PICK x : x = [u EXCEPT !.step = "ended", !.bytes = bytes]
    OBVIOUS
  <2>2. get' = [get EXCEPT ![d] = x]
    BY <1>7, <2>b, <2>u, <2>1 DEF Clean
  <2>3. /\ x \in DownloadRecord /\ x.step = "ended" /\ x.bytes = get[d].bytes
        /\ x.mount = 0 /\ x.ready = FALSE
    BY <2>b, <2>0, <2>1 DEF DownloadRecord
  <2>4. Turns(d, "ended", get[d].bytes, 0, FALSE)
    BY <2>2, <2>3 DEF Types, Turns
  <2>5. /\ get[d].step \in {"start", "clean"}
        /\ partial' \in {None, partial}
        /\ UNCHANGED <<target, installer, checks, release, ran, crowded>>
    BY <1>7 DEF Clean
  <2>6. \E stage \in {"download", "install"} :
          /\ stage = "install" => get[d].ready
          /\ screen' = Returned(get[d].mount, stage)
    BY <1>7 DEF Clean
  <2>7. Ends(d)
    BY <2>4, <2>5, <2>6 DEF Ends
  <2>8. QED
    BY <2>7 DEF Continues
<1>8. CASE ChunkThrows(d)
  <2>1. PICK step \in {"stalled", "hung"} : Steps(d, step)
    BY <1>8 DEF ChunkThrows
  <2>2. Turns(d, step, get[d].bytes, get[d].mount, get[d].ready)
    BY <2>1, StepsTurn
  <2>3. Hangs(d)
    BY <1>8, <2>2 DEF ChunkThrows, Hangs, Others
  <2>4. QED
    BY <2>3 DEF Continues
<1>9. QED
  BY <1>1, <1>2, <1>3, <1>4, <1>5, <1>6, <1>7, <1>8 DEF FileStep

\* A step of the screen: no download and no file changes, and the screen gets
\* no install that it did not have.
ScreenTurns ==
  /\ UNCHANGED <<get, partial, target, crowded>>
  /\ screen' \in ScreenRecord
  /\ checks' \subseteq 1..MaxMounts
  /\ release' \in Releases \cup {None}
  /\ installer' \in BOOLEAN
  /\ screen.mount <= screen'.mount
  /\ screen'.stage = "install" => screen.stage = "install"
  /\ \/ screen.mount < screen'.mount /\ checks' = checks
     \/ /\ screen'.mount = screen.mount /\ screen.stage = "check"
        /\ screen'.stage = "check" /\ checks' \subseteq checks \cup {screen.mount}
     \/ \E m \in checks : /\ checks' = checks \ {m}
                          /\ screen'.mount = screen.mount
                          /\ m # screen.mount => screen' = screen

\* What Returned makes of the screen.
LEMMA ReturnedScreens ==
  ASSUME screen \in ScreenRecord, NEW m, NEW stage \in {"check", "download", "install"}
  PROVE  /\ Returned(m, stage) \in ScreenRecord
         /\ Returned(m, stage).mount = screen.mount
         /\ m = screen.mount => /\ Returned(m, stage).stage = stage
                                /\ Returned(m, stage).busy = FALSE
         /\ m # screen.mount => Returned(m, stage) = screen
BY DEF Returned, ScreenRecord

\* The steps of the screen are such.
LEMMA ScreensTurn ==
  ASSUME Types, Check \/ Remount \/ \E m \in checks : CheckAnswered(m) \/ CheckFails(m)
  PROVE  ScreenTurns /\ UNCHANGED ran
<1>1. /\ screen \in ScreenRecord /\ screen.mount \in 1..MaxMounts
      /\ screen.busy \in BOOLEAN /\ screen.stage \in {"check", "download", "install"}
      /\ checks \subseteq 1..MaxMounts
  BY DEF Types, ScreenRecord
<1>2. screen.mount <= screen.mount
  BY <1>1
<1>3. CASE Check
  <2>1. screen' \in ScreenRecord /\ screen'.mount = screen.mount
        /\ screen'.stage = screen.stage
    BY <1>1, <1>3 DEF Check, ScreenRecord
  <2>2. UNCHANGED <<release, installer, get, partial, target, ran, crowded>>
        /\ checks' \subseteq 1..MaxMounts /\ checks' \subseteq checks \cup {screen.mount}
        /\ screen.stage = "check"
    BY <1>1, <1>3 DEF Check
  <2>3. QED
    BY <1>2, <2>1, <2>2 DEF ScreenTurns, Types
<1>4. CASE Remount
  <2>1. screen' = Mounted(screen.mount + 1)
        /\ UNCHANGED <<checks, release, installer, get, partial, target, ran, crowded>>
    BY <1>4 DEF Remount
  <2>2. screen.mount + 1 \in 1..MaxMounts
    BY <1>1, <1>4, UpdaterAssumption DEF Remount
  <2>3. screen' \in ScreenRecord /\ screen'.mount = screen.mount + 1
        /\ screen'.stage = "check"
    BY <2>1, <2>2 DEF Mounted, ScreenRecord
  <2>4. screen.mount <= screen'.mount /\ screen.mount < screen'.mount
    BY <1>1, <2>3
  <2>5. QED
    BY <1>1, <2>1, <2>3, <2>4 DEF ScreenTurns, Types
<1>5. CASE \E m \in checks : CheckAnswered(m)
  <2>1. PICK m \in checks, r \in Releases \cup {None}, stage \in {"check", "download"} :
          /\ screen' = Returned(m, stage) /\ release' = r
          /\ CheckAnswered(m)
    BY <1>5 DEF CheckAnswered
  <2>2. /\ UNCHANGED <<get, partial, target, ran, crowded>> /\ installer' = FALSE
        /\ checks' \subseteq 1..MaxMounts /\ checks' = checks \ {m}
    BY <1>1, <2>1 DEF CheckAnswered
  <2>3. /\ screen' \in ScreenRecord /\ screen'.mount = screen.mount
        /\ m # screen.mount => screen' = screen
        /\ screen'.stage = "install" => screen.stage = "install"
    BY <1>1, <2>1, ReturnedScreens
  <2>4. QED
    BY <1>2, <2>1, <2>2, <2>3 DEF ScreenTurns
<1>6. CASE \E m \in checks : CheckFails(m)
  <2>1. PICK m \in checks : CheckFails(m)
    BY <1>6
  <2>2. /\ screen' = Returned(m, "check")
        /\ UNCHANGED <<release, installer, get, partial, target, ran, crowded>>
        /\ checks' \subseteq 1..MaxMounts /\ checks' = checks \ {m}
    BY <1>1, <2>1 DEF CheckFails
  <2>3. /\ screen' \in ScreenRecord /\ screen'.mount = screen.mount
        /\ m # screen.mount => screen' = screen
        /\ screen'.stage = "install" => screen.stage = "install"
    BY <1>1, <2>2, ReturnedScreens
  <2>4. QED
    BY <1>2, <2>2, <2>3 DEF ScreenTurns, Types
<1>7. QED
  BY <1>3, <1>4, <1>5, <1>6

(***************************************************************************)
(* The order of the downloads, and the screen that each belongs to.        *)
(***************************************************************************)

Used == {d \in Downloads : get[d].step # "unused"}

\* The download that was started last.
Newest(d) == d \in Used /\ \A e \in Used : e <= d

\* Downloads are started in their order.
StartedInOrder == \A d \in Downloads, e \in Used : d < e => d \in Used

\* The beginning of download d, which is the newest then.
Begins(d) ==
  /\ screen.stage = "download" /\ ~screen.busy
  /\ screen' \in ScreenRecord
  /\ screen'.mount = screen.mount /\ screen'.stage = "download" /\ screen'.busy
  /\ d \notin Used
  /\ \A e \in Used : e < d
  /\ \A e \in Downloads : e < d => e \in Used
  /\ Turns(d, "start", get[d].bytes, screen.mount, get[d].ready)
  /\ UNCHANGED <<checks, release, installer, partial, target, ran>>
  /\ crowded' \in BOOLEAN
  /\ ~crowded' => /\ ~crowded
                  /\ Cardinality(Running) < 2
                  /\ \A e \in Running : get[e].step # "start"

\* StartDownload begins it.
LEMMA DownloadsBegin ==
  ASSUME Types, StartedInOrder, NEW d \in Downloads, StartDownload(d)
  PROVE  Begins(d)
<1>1. /\ screen \in ScreenRecord /\ screen.mount \in 0..MaxMounts
      /\ get \in [Downloads -> DownloadRecord] /\ crowded \in BOOLEAN
  BY UpdaterAssumption DEF Types, ScreenRecord
<1>2. /\ screen.stage = "download" /\ ~screen.busy
      /\ screen' = [screen EXCEPT !.busy = TRUE]
      /\ get[d].step = "unused"
      /\ get' = [get EXCEPT ![d].step = "start", ![d].mount = screen.mount]
      /\ UNCHANGED <<checks, release, installer, partial, target, ran>>
  BY DEF StartDownload
<1>3. /\ screen' \in ScreenRecord
      /\ screen'.mount = screen.mount /\ screen'.stage = "download" /\ screen'.busy
  BY <1>1, <1>2 DEF ScreenRecord
<1>4. Turns(d, "start", get[d].bytes, screen.mount, get[d].ready)
  BY <1>1, <1>2 DEF Turns, DownloadRecord
<1>5. d \notin Used
  BY <1>2 DEF Used
<1>6. \A e \in Used : e < d
  BY <1>5, UpdaterAssumption DEF StartedInOrder, Used, Downloads
<1>m. \A e \in Downloads : e < d => e \in Used
  <2>1. PICK S : S = {e \in Downloads : get[e].step = "unused"} \cup {MaxDownloads}
    OBVIOUS
  <2>2. S \subseteq Nat /\ S # {} /\ d = Min(S)
    BY <2>1, UpdaterAssumption DEF StartDownload, Downloads
  <2>3. PICK m \in S : \A k \in S : <<k, m>> \notin OpToRel(<, Nat)
    BY <2>2, WFMin, NatLessThanWellFounded, Zenon
  <2>4. \A k \in S : ~ (k < m)
    BY <2>2, <2>3, Zenon DEF OpToRel
  <2>5. \A k \in S : m <= k
    BY <2>2, <2>4
  <2>6. \A k \in S : d <= k
    BY <2>2, <2>5 DEF Min
  <2>7. QED
    BY <2>1, <2>2, <2>6, UpdaterAssumption DEF Used, Downloads
<1>7. crowded' = (crowded \/ Cardinality(Running) >= 2
                         \/ \E e \in Running : get[e].step = "start")
  BY DEF StartDownload
<1>8. IsFiniteSet(Running)
  <2>1. Running \in SUBSET (1..MaxDownloads)
    BY DEF Running, Downloads
  <2>2. IsFiniteSet(1..MaxDownloads)
    BY FS_Interval, UpdaterAssumption
  <2>3. QED
    BY <2>1, <2>2, FS_Subset
<1>9. Cardinality(Running) \in Nat
  BY <1>8, FS_CardinalityType
<1>10. ~crowded' => /\ ~crowded
                    /\ Cardinality(Running) < 2
                    /\ \A e \in Running : get[e].step # "start"
  <2>1. SUFFICES ASSUME ~crowded'
                 PROVE  /\ ~crowded
                        /\ Cardinality(Running) < 2
                        /\ \A e \in Running : get[e].step # "start"
    OBVIOUS
  <2>2. /\ ~crowded /\ ~(Cardinality(Running) >= 2)
        /\ ~\E e \in Running : get[e].step = "start"
    BY <1>7, <2>1, Zenon
  <2>3. Cardinality(Running) < 2
    BY <1>9, <2>2
  <2>4. QED
    BY <2>2, <2>3
<1>11. crowded' \in BOOLEAN
  BY <1>1, <1>7, Zenon
<1>12. QED
  BY <1>2, <1>3, <1>4, <1>5, <1>6, <1>m, <1>10, <1>11 DEF Begins

\* The steps of the specification.
LEMMA StepsOfTheUpdater ==
  ASSUME Types, StartedInOrder, [Next]_vars
  PROVE  \/ ScreenTurns /\ UNCHANGED ran
         \/ \E d \in Downloads : Begins(d)
         \/ \E d \in Downloads : Continues(d)
         \/ Install
         \/ UNCHANGED vars
<1>1. CASE Check \/ Remount \/ \E m \in checks : CheckAnswered(m) \/ CheckFails(m)
  BY <1>1, ScreensTurn
<1>2. CASE \E d \in Downloads : StartDownload(d)
  BY <1>2, DownloadsBegin
<1>3. CASE \E d \in Downloads :
             \/ CreatePartial(d) \/ ChunkThrows(d) \/ StreamEnds(d)
             \/ TimesOut(d) \/ FileStep(d)
  BY <1>3, DownloadsContinue
<1>4. QED
  BY <1>1, <1>2, <1>3 DEF Next

\* Every step keeps the types.
LEMMA TypesKept ==
  ASSUME Types, StartedInOrder, [Next]_vars
  PROVE  Types'
<1>1. CASE ScreenTurns /\ UNCHANGED ran
  BY <1>1 DEF ScreenTurns, Types
<1>2. CASE \E d \in Downloads : Begins(d)
  BY <1>2 DEF Begins, Turns, Types
<1>3. CASE \E d \in Downloads : Continues(d)
  <2>1. PICK d \in Downloads : Continues(d)
    BY <1>3
  <2>2. CASE Removes(d)
    BY <2>2 DEF Removes, Turns, Types, Others
  <2>3. CASE Creates(d)
    BY <2>3 DEF Creates, Turns, Types, Others
  <2>4. CASE Breaks(d)
    BY <2>4 DEF Breaks, Turns, Types, Others
  <2>h. CASE Hangs(d)
    BY <2>h DEF Hangs, Turns, Types, Others
  <2>5. CASE Passes(d)
    BY <2>5 DEF Passes, Turns, Types, Others
  <2>6. CASE Unlinks(d)
    BY <2>6 DEF Unlinks, Turns, Types, Others
  <2>7. CASE Publishes(d)
    BY <2>7 DEF Publishes, Turns, Types, Others
  <2>8. CASE Ends(d)
    <3>s. PICK stage \in {"download", "install"} : screen' = Returned(get[d].mount, stage)
      BY <2>8 DEF Ends
    <3>t. screen \in ScreenRecord /\ stage \in {"check", "download", "install"}
      BY DEF Types
    <3>1. screen' \in ScreenRecord
      BY <3>s, <3>t, ReturnedScreens
    <3>2. QED
      BY <2>8, <3>1 DEF Ends, Turns, Types
  <2>9. QED
    BY <2>1, <2>2, <2>3, <2>4, <2>h, <2>5, <2>6, <2>7, <2>8 DEF Continues
<1>4. CASE Install
  BY <1>4 DEF Install, Types
<1>5. CASE UNCHANGED vars
  BY <1>5 DEF vars, Types
<1>6. QED
  BY <1>1, <1>2, <1>3, <1>4, <1>5, StepsOfTheUpdater

\* A download that goes on was begun, stays begun, and keeps its mount unless it
\* ends.
LEMMA ContinuingDownloads ==
  ASSUME Types, NEW d \in Downloads, Continues(d)
  PROVE  /\ d \in Running
         /\ \A e \in Downloads \ {d} : get'[e] = get[e]
         /\ Used' = Used
         /\ Running' \subseteq Running
         /\ \A e \in Running' : get'[e].mount = get[e].mount
         /\ \/ get'[d].step = "ended"
            \/ screen' = screen
         /\ crowded' = crowded /\ checks' = checks
<1>1. /\ get' \in [Downloads -> DownloadRecord]
      /\ \A e \in Downloads \ {d} : get'[e] = get[e]
  BY DEF Continues, Removes, Creates, Breaks, Hangs, Passes, Unlinks, Publishes, Ends, Turns
<1>2. get[d].step \notin {"unused", "ended"} /\ get'[d].step # "unused"
  BY DEF Continues, Removes, Creates, Breaks, Hangs, Passes, Unlinks, Publishes, Ends, Turns
<1>3. get'[d].step = "ended" \/ (get'[d].mount = get[d].mount /\ screen' = screen)
  BY DEF Continues, Removes, Creates, Breaks, Hangs, Passes, Unlinks, Publishes, Ends, Turns,
         Others
<1>4. crowded' = crowded /\ checks' = checks
  BY DEF Continues, Removes, Creates, Breaks, Hangs, Passes, Unlinks, Publishes, Ends, Turns,
         Others
<1>5. QED
  BY <1>1, <1>2, <1>3, <1>4 DEF Running, Used

\* Downloads go on being started in their order.
LEMMA OrderKept ==
  ASSUME Types, StartedInOrder, [Next]_vars
  PROVE  StartedInOrder'
<1>1. CASE ScreenTurns /\ UNCHANGED ran
  BY <1>1 DEF ScreenTurns, StartedInOrder, Used
<1>2. CASE \E d \in Downloads : Begins(d)
  <2>1. PICK d \in Downloads : Begins(d)
    BY <1>2
  <2>2. Used' = Used \cup {d} /\ \A e \in Downloads : e < d => e \in Used
    BY <2>1 DEF Begins, Turns, Used
  <2>3. QED
    BY <2>2 DEF StartedInOrder
<1>3. CASE \E d \in Downloads : Continues(d)
  BY <1>3, ContinuingDownloads DEF StartedInOrder
<1>4. CASE Install \/ UNCHANGED vars
  BY <1>4 DEF Install, vars, StartedInOrder, Used
<1>5. QED
  BY <1>1, <1>2, <1>3, <1>4, StepsOfTheUpdater

\* A download that runs belongs to a screen that was mounted: to this one only
\* while it is busy with a download, and not once another one was started.  A
\* check of this screen is pending only before its download.
ScreensAreTheirs ==
  /\ \A d \in Running :
       /\ get[d].mount <= screen.mount
       /\ get[d].mount = screen.mount => screen.busy /\ screen.stage = "download"
  /\ \A d \in Running, f \in Used : d < f => get[d].mount < screen.mount
  /\ \A m \in checks :
       /\ m <= screen.mount
       /\ m = screen.mount => screen.stage = "check"

\* The numbers of the mounts.
LEMMA MountsAreNumbers ==
  ASSUME Types
  PROVE  /\ screen.mount \in Nat
         /\ \A d \in Downloads : get[d].mount \in Nat
         /\ checks \subseteq Nat
BY DEF Types, ScreenRecord, DownloadRecord

\* Every step keeps the screens of the downloads.
LEMMA ScreensKept ==
  ASSUME Types, Types', StartedInOrder, ScreensAreTheirs, [Next]_vars
  PROVE  ScreensAreTheirs'
<1>1. /\ screen.mount \in Nat /\ checks \subseteq Nat
      /\ \A d \in Downloads : get[d].mount \in Nat
  BY MountsAreNumbers
<1>2. screen'.mount \in Nat /\ \A d \in Downloads : get'[d].mount \in Nat
  BY DEF Types, ScreenRecord, DownloadRecord
<1>3. Running \subseteq Downloads /\ Used \subseteq Downloads /\ Running \subseteq Used
  BY DEF Running, Used
<1>4. CASE ScreenTurns /\ UNCHANGED ran
  <2>1. /\ Running' = Running /\ Used' = Used /\ get' = get
        /\ screen.mount <= screen'.mount
    BY <1>4 DEF ScreenTurns, Running, Used
  <2>2. CASE screen.mount < screen'.mount /\ checks' = checks
    BY <1>1, <1>2, <1>3, <2>1, <2>2 DEF ScreensAreTheirs
  <2>3. CASE /\ screen'.mount = screen.mount /\ screen.stage = "check"
             /\ screen'.stage = "check" /\ checks' \subseteq checks \cup {screen.mount}
    BY <1>1, <1>2, <1>3, <2>1, <2>3 DEF ScreensAreTheirs
  <2>4. CASE \E m \in checks : /\ checks' = checks \ {m}
                               /\ screen'.mount = screen.mount
                               /\ m # screen.mount => screen' = screen
    <3>1. PICK m \in checks : /\ checks' = checks \ {m}
                              /\ screen'.mount = screen.mount
                              /\ m # screen.mount => screen' = screen
      BY <2>4
    <3>2. CASE m # screen.mount
      BY <1>1, <1>3, <2>1, <3>1, <3>2 DEF ScreensAreTheirs
    <3>3. CASE m = screen.mount
      BY <1>1, <1>3, <2>1, <3>1, <3>3 DEF ScreensAreTheirs
    <3>4. QED
      BY <3>2, <3>3
  <2>5. QED
    BY <1>4, <2>2, <2>3, <2>4 DEF ScreenTurns
<1>5. CASE \E d \in Downloads : Begins(d)
  <2>1. PICK d \in Downloads : Begins(d)
    BY <1>5
  <2>2. /\ Used' = Used \cup {d} /\ Running' = Running \cup {d}
        /\ \A e \in Running : get'[e].mount = get[e].mount
        /\ get'[d].mount = screen.mount
        /\ d \notin Used /\ \A e \in Used : e < d
    BY <2>1 DEF Begins, Turns, Used, Running
  <2>3. /\ screen.stage = "download" /\ ~screen.busy /\ checks' = checks
        /\ screen'.mount = screen.mount /\ screen'.stage = "download" /\ screen'.busy
    BY <2>1 DEF Begins
  <2>4. \A e \in Running : get[e].mount < screen.mount
    BY <1>1, <1>3, <2>3 DEF ScreensAreTheirs
  <2>5. \A e \in Running' :
          /\ get'[e].mount <= screen'.mount
          /\ get'[e].mount = screen'.mount => screen'.busy /\ screen'.stage = "download"
    BY <1>1, <1>3, <2>2, <2>3, <2>4
  <2>6. \A e \in Running', f \in Used' : e < f => get'[e].mount < screen'.mount
    <3>1. SUFFICES ASSUME NEW e \in Running', NEW f \in Used', e < f
                   PROVE  get'[e].mount < screen'.mount
      OBVIOUS
    <3>n. d \in Nat /\ e \in Nat /\ f \in Nat
      BY <3>1, UpdaterAssumption DEF Downloads, Used, Running
    <3>g. f = d \/ f < d
      BY <2>2
    <3>2. e \in Running
      BY <2>2, <3>1, <3>n, <3>g
    <3>3. QED
      BY <2>2, <2>3, <2>4, <3>2
  <2>7. QED
    BY <2>3, <2>5, <2>6 DEF ScreensAreTheirs
<1>6. CASE \E d \in Downloads : Continues(d)
  <2>1. PICK d \in Downloads : Continues(d)
    BY <1>6
  <2>2. /\ d \in Running /\ Used' = Used /\ Running' \subseteq Running
        /\ \A e \in Running' : get'[e].mount = get[e].mount
        /\ get'[d].step = "ended" \/ screen' = screen
        /\ checks' = checks
    BY <2>1, ContinuingDownloads
  <2>3. CASE screen' = screen
    BY <2>2, <2>3 DEF ScreensAreTheirs
  <2>4. CASE Ends(d)
    <3>1. PICK stage \in {"download", "install"} : screen' = Returned(get[d].mount, stage)
      BY <2>4 DEF Ends
    <3>2. screen \in ScreenRecord /\ stage \in {"check", "download", "install"}
      BY DEF Types
    <3>3. PICK m : m = get[d].mount
      OBVIOUS
    <3>4. screen' = Returned(m, stage)
      BY <3>1, <3>3
    <3>5. screen'.mount = screen.mount /\ (m # screen.mount => screen' = screen)
      BY <3>2, <3>4, ReturnedScreens
    <3>6. CASE m # screen.mount
      BY <2>2, <3>5, <3>6 DEF ScreensAreTheirs
    <3>7. CASE m = screen.mount
      <4>1. d \notin Running'
        BY <2>4 DEF Ends, Turns, Running
      <4>2. screen.stage = "download"
        BY <2>2, <3>3, <3>7 DEF ScreensAreTheirs
      <4>3. \A e \in Running' : get[e].mount < screen.mount
        <5>1. SUFFICES ASSUME NEW e \in Running' PROVE get[e].mount < screen.mount
          OBVIOUS
        <5>2. e \in Running /\ e # d
          BY <2>2, <4>1, <5>1
        <5>3. e < d \/ d < e
          BY <1>3, <5>2, UpdaterAssumption DEF Downloads
        <5>m. d < e => get[d].mount < screen.mount
          BY <1>3, <2>2, <5>2 DEF ScreensAreTheirs
        <5>n. get[d].mount = screen.mount
          BY <3>3, <3>7
        <5>4. ~(d < e)
          BY <1>1, <5>m, <5>n
        <5>5. QED
          BY <1>3, <2>2, <5>2, <5>3, <5>4 DEF ScreensAreTheirs
      <4>4. \A n \in checks : n <= screen.mount /\ n # screen.mount
        BY <4>2 DEF ScreensAreTheirs
      <4>5. \A e \in Running' : get'[e].mount < screen'.mount
        BY <2>2, <3>5, <4>3
      <4>6. QED
        BY <1>1, <1>2, <1>3, <2>2, <3>5, <4>4, <4>5 DEF ScreensAreTheirs
    <3>8. QED
      BY <3>6, <3>7
  <2>5. QED
    BY <2>1, <2>3, <2>4
    DEF Continues, Removes, Creates, Breaks, Hangs, Passes, Unlinks, Publishes, Others
<1>7. CASE Install \/ UNCHANGED vars
  BY <1>7 DEF Install, vars, ScreensAreTheirs, Running, Used
<1>8. QED
  BY <1>4, <1>5, <1>6, <1>7, StepsOfTheUpdater

(***************************************************************************)
(* The files.                                                              *)
(***************************************************************************)

\* A download that has created no file has none, and no inode has both names.
NamesAreFresh ==
  /\ \A d \in Downloads : get[d].step \in {"unused", "start", "request"} =>
       d # partial /\ d # target
  /\ partial \in Downloads => partial # target

\* What the bytes of a download are at each of its steps, and when it may
\* answer that its installer is ready.
BytesFit ==
  \A d \in Downloads :
    /\ get[d].step \in {"unused", "start", "request", "stream"} => get[d].bytes = "part"
    /\ get[d].step \in {"replace", "rename"} => get[d].bytes = "whole"
    /\ get[d].ready => get[d].step = "clean"

\* Every step keeps the names.
LEMMA NamesKept ==
  ASSUME Types, StartedInOrder, NamesAreFresh, [Next]_vars
  PROVE  NamesAreFresh'
<1>n. None \notin Downloads
  BY UpdaterAssumption DEF Downloads
<1>1. CASE ScreenTurns /\ UNCHANGED ran
  BY <1>1 DEF ScreenTurns, NamesAreFresh
<1>2. CASE \E d \in Downloads : Begins(d)
  BY <1>2 DEF Begins, Turns, Used, NamesAreFresh
<1>3. CASE \E d \in Downloads : Continues(d)
  <2>1. PICK d \in Downloads : Continues(d)
    BY <1>3
  <2>2. CASE Removes(d)
    BY <1>n, <2>2 DEF Removes, Turns, NamesAreFresh
  <2>3. CASE Creates(d)
    BY <1>n, <2>3 DEF Creates, Turns, NamesAreFresh
  <2>4. CASE Breaks(d)
    BY <2>4 DEF Breaks, Turns, NamesAreFresh
  <2>h. CASE Hangs(d)
    BY <2>h DEF Hangs, Turns, NamesAreFresh
  <2>5. CASE Passes(d)
    BY <2>5 DEF Passes, Turns, NamesAreFresh
  <2>6. CASE Unlinks(d)
    BY <1>n, <2>6 DEF Unlinks, Turns, NamesAreFresh
  <2>7. CASE Publishes(d)
    BY <1>n, <2>7 DEF Publishes, Turns, NamesAreFresh
  <2>8. CASE Ends(d)
    BY <1>n, <2>8 DEF Ends, Turns, NamesAreFresh
  <2>9. QED
    BY <2>1, <2>2, <2>3, <2>4, <2>h, <2>5, <2>6, <2>7, <2>8 DEF Continues
<1>4. CASE Install \/ UNCHANGED vars
  BY <1>4 DEF Install, vars, NamesAreFresh
<1>5. QED
  BY <1>1, <1>2, <1>3, <1>4, StepsOfTheUpdater

\* Every step keeps the bytes fit.
LEMMA BytesKept ==
  ASSUME Types, StartedInOrder, BytesFit, [Next]_vars
  PROVE  BytesFit'
<1>1. CASE ScreenTurns /\ UNCHANGED ran
  BY <1>1 DEF ScreenTurns, BytesFit
<1>2. CASE \E d \in Downloads : Begins(d)
  BY <1>2 DEF Begins, Turns, Used, BytesFit
<1>3. CASE \E d \in Downloads : Continues(d)
  <2>1. PICK d \in Downloads : Continues(d)
    BY <1>3
  <2>2. CASE Removes(d)
    BY <2>2 DEF Removes, Turns, BytesFit
  <2>3. CASE Creates(d)
    BY <2>3 DEF Creates, Turns, BytesFit
  <2>4. CASE Breaks(d)
    BY <2>4 DEF Breaks, Turns, BytesFit
  <2>h. CASE Hangs(d)
    BY <2>h DEF Hangs, Turns, BytesFit
  <2>5. CASE Passes(d)
    BY <2>5 DEF Passes, Turns, BytesFit
  <2>6. CASE Unlinks(d)
    BY <2>6 DEF Unlinks, Turns, BytesFit
  <2>7. CASE Publishes(d)
    BY <2>7 DEF Publishes, Turns, BytesFit
  <2>8. CASE Ends(d)
    BY <2>8 DEF Ends, Turns, BytesFit
  <2>9. QED
    BY <2>1, <2>2, <2>3, <2>4, <2>h, <2>5, <2>6, <2>7, <2>8 DEF Continues
<1>4. CASE Install \/ UNCHANGED vars
  BY <1>4 DEF Install, vars, BytesFit
<1>5. QED
  BY <1>1, <1>2, <1>3, <1>4, StepsOfTheUpdater

(***************************************************************************)
(* Two downloads at a time.                                                *)
(***************************************************************************)

\* A set of less than two elements has no two.
LEMMA LessThanTwo ==
  ASSUME NEW S, IsFiniteSet(S), Cardinality(S) < 2
  PROVE  \A a, b \in S : a = b
<1>1. SUFFICES ASSUME NEW a \in S, NEW b \in S, a # b
               PROVE  FALSE
  OBVIOUS
<1>2. Cardinality({a, b}) = 2
  <2>1. IsFiniteSet({b}) /\ Cardinality({b}) = 1
    BY FS_Singleton
  <2>2. a \notin {b}
    BY <1>1
  <2>3. Cardinality({b} \cup {a}) = 2
    BY <2>1, <2>2, FS_AddElement
  <2>4. {b} \cup {a} = {a, b}
    OBVIOUS
  <2>5. QED
    BY <2>3, <2>4
<1>3. {a, b} \in SUBSET S
  BY <1>1
<1>4. Cardinality({a, b}) <= Cardinality(S)
  BY <1>3, FS_Subset
<1>5. Cardinality(S) \in Nat
  BY FS_CardinalityType
<1>6. QED
  BY <1>2, <1>4, <1>5

\* While it never was crowded, at most two downloads run, and only the newest
\* of them may be about to remove the partial.
TwoRun ==
  ~crowded => /\ \A a, b, c \in Running : a = b \/ b = c \/ a = c
              /\ \A e \in Running : get[e].step = "start" => Newest(e)

\* The running downloads are finitely many.
LEMMA RunningIsFinite == IsFiniteSet(Running)
<1>1. Running \in SUBSET (1..MaxDownloads)
  BY DEF Running, Downloads
<1>2. IsFiniteSet(1..MaxDownloads)
  BY FS_Interval, UpdaterAssumption
<1>3. QED
  BY <1>1, <1>2, FS_Subset

\* A download that begins is the newest, and if it is not crowded at most one
\* other runs, which is past its own removal.
LEMMA BeginningIsNewest ==
  ASSUME Types, NEW d \in Downloads, Begins(d)
  PROVE  /\ Used' = Used \cup {d} /\ Running' = Running \cup {d}
         /\ Newest(d)' /\ \A e \in Used' : Newest(e)' => e = d
         /\ ~crowded' => /\ ~crowded /\ \A a, b \in Running : a = b
                         /\ \A e \in Running : get[e].step # "start"
<1>1. /\ Used' = Used \cup {d} /\ Running' = Running \cup {d}
      /\ d \notin Used /\ \A e \in Used : e < d
  BY DEF Begins, Turns, Used, Running
<1>2. d \in Nat /\ Used \subseteq Nat
  BY UpdaterAssumption DEF Downloads, Used
<1>3. \A e \in Used' : e <= d
  BY <1>1, <1>2
<1>4. Newest(d)'
  BY <1>1, <1>3 DEF Newest
<1>5. \A e \in Used' : Newest(e)' => e = d
  BY <1>1, <1>2 DEF Newest
<1>6. ~crowded' => /\ ~crowded /\ \A a, b \in Running : a = b
                   /\ \A e \in Running : get[e].step # "start"
  BY RunningIsFinite, LessThanTwo DEF Begins
<1>7. QED
  BY <1>1, <1>4, <1>5, <1>6

\* Every step keeps the two.
LEMMA TwoRunKept ==
  ASSUME Types, StartedInOrder, TwoRun, [Next]_vars
  PROVE  TwoRun'
<1>1. CASE ScreenTurns /\ UNCHANGED ran
  BY <1>1 DEF ScreenTurns, TwoRun, Running, Newest, Used
<1>2. CASE \E d \in Downloads : Begins(d)
  <2>1. PICK d \in Downloads : Begins(d)
    BY <1>2
  <2>2. /\ Running' = Running \cup {d} /\ Newest(d)'
        /\ ~crowded' => /\ ~crowded /\ \A a, b \in Running : a = b
                        /\ \A e \in Running : get[e].step # "start"
    BY <2>1, BeginningIsNewest
  <2>3. \A e \in Downloads \ {d} : get'[e] = get[e]
    BY <2>1 DEF Begins, Turns
  <2>4. SUFFICES ASSUME ~crowded' PROVE TwoRun'
    BY DEF TwoRun
  <2>5. \A a, b, c \in Running' : a = b \/ b = c \/ a = c
    BY <2>2, <2>4
  <2>6. \A e \in Running' : get'[e].step = "start" => Newest(e)'
    BY <2>2, <2>3, <2>4 DEF Running
  <2>7. QED
    BY <2>5, <2>6 DEF TwoRun
<1>3. CASE \E d \in Downloads : Continues(d)
  <2>1. PICK d \in Downloads : Continues(d)
    BY <1>3
  <2>2. /\ \A e \in Downloads \ {d} : get'[e] = get[e]
        /\ Used' = Used /\ Running' \subseteq Running /\ crowded' = crowded
    BY <2>1, ContinuingDownloads
  <2>3. get'[d].step # "start"
    BY <2>1
    DEF Continues, Removes, Creates, Breaks, Hangs, Passes, Unlinks, Publishes, Ends, Turns
  <2>4. \A e : Newest(e)' <=> Newest(e)
    BY <2>2 DEF Newest
  <2>5. \A e \in Running' : get'[e].step = "start" => get[e].step = "start"
    BY <2>2, <2>3 DEF Running
  <2>6. QED
    BY <2>2, <2>4, <2>5 DEF TwoRun
<1>4. CASE Install \/ UNCHANGED vars
  BY <1>4 DEF Install, vars, TwoRun, Running, Newest, Used
<1>5. QED
  BY <1>1, <1>2, <1>3, <1>4, StepsOfTheUpdater

(***************************************************************************)
(* The partial of the newest download, and the installer that is ready.    *)
(***************************************************************************)

Writing == {"stream", "replace", "rename"}

\* While it never was crowded, the newest download finds its own partial; or it
\* finds none, and then nobody is about to create one.
NewestHasThePartial ==
  ~crowded =>
    \A d \in Running : Newest(d) /\ get[d].step \in Writing =>
      \/ partial = d
      \/ partial = None /\ \A e \in Running : get[e].step # "request"

\* What a step of another download leaves of a running one.
LEMMA OthersStay ==
  ASSUME Types, NEW d \in Downloads, Continues(d)
  PROVE  /\ \A e \in Downloads \ {d} : get'[e] = get[e]
         /\ \A e \in Downloads \ {d} : e \in Running' <=> e \in Running
         /\ \A e : Newest(e)' <=> Newest(e)
BY ContinuingDownloads DEF Newest, Running

\* There is one newest download.
LEMMA OneIsNewest ==
  ASSUME NEW d, NEW e, Newest(d), Newest(e)
  PROVE  d = e
<1>1. d \in Nat /\ e \in Nat /\ d <= e /\ e <= d
  BY UpdaterAssumption DEF Newest, Used, Downloads
<1>2. QED
  BY <1>1

\* Every step keeps the partial of the newest.
LEMMA NewestPartialKept ==
  ASSUME Types, StartedInOrder, TwoRun, NewestHasThePartial, [Next]_vars
  PROVE  NewestHasThePartial'
<1>n. None \notin Downloads
  BY UpdaterAssumption DEF Downloads
<1>1. CASE ScreenTurns /\ UNCHANGED ran
  BY <1>1 DEF ScreenTurns, NewestHasThePartial, Running, Newest, Used
<1>2. CASE \E d \in Downloads : Begins(d)
  <2>1. PICK d \in Downloads : Begins(d)
    BY <1>2
  <2>2. \A e \in Used' : Newest(e)' => e = d
    BY <2>1, BeginningIsNewest
  <2>3. get'[d].step = "start"
    BY <2>1 DEF Begins, Turns
  <2>4. QED
    BY <2>2, <2>3 DEF NewestHasThePartial, Newest, Writing
<1>3. CASE \E d \in Downloads : Continues(d)
  <2>1. PICK f \in Downloads : Continues(f)
    BY <1>3
  <2>2. SUFFICES ASSUME ~crowded', NEW d \in Running', Newest(d)',
                        get'[d].step \in Writing
                 PROVE  \/ partial' = d
                        \/ partial' = None /\ \A e \in Running' : get'[e].step # "request"
    BY DEF NewestHasThePartial
  <2>3. /\ f \in Running /\ d \in Downloads /\ d \in Running /\ ~crowded
        /\ Running' \subseteq Running
        /\ \A e \in Downloads \ {f} : get'[e] = get[e]
        /\ Newest(d)
    BY <2>1, <2>2, ContinuingDownloads, OthersStay DEF Running
  <2>4. /\ \A a, b, c \in Running : a = b \/ b = c \/ a = c
        /\ get[f].step = "start" => Newest(f)
    BY <2>3 DEF TwoRun
  <2>5. get[d].step \in Writing =>
          \/ partial = d
          \/ partial = None /\ \A e \in Running : get[e].step # "request"
    BY <2>3 DEF NewestHasThePartial
  <2>6. CASE Removes(f)
    <3>1. d = f
      BY <2>3, <2>4, <2>6, OneIsNewest DEF Removes
    <3>2. get'[d].step \in {"request", "clean"}
      BY <2>6, <3>1 DEF Removes, Turns
    <3>3. QED
      BY <2>2, <3>2 DEF Writing
  <2>7. CASE Creates(f)
    <3>1. CASE d = f
      BY <2>7, <3>1 DEF Creates
    <3>2. CASE d # f
      BY <1>n, <2>2, <2>3, <2>5, <2>7, <3>2 DEF Creates
    <3>3. QED
      BY <3>1, <3>2
  <2>8. CASE Breaks(f) \/ Hangs(f)
    <3>1. d # f
      BY <2>2, <2>8 DEF Breaks, Hangs, Turns, Writing
    <3>2. partial' = partial /\ get'[f].step \in {"clean", "stalled", "hung"}
      BY <2>8 DEF Breaks, Hangs, Turns
    <3>3. QED
      BY <2>2, <2>3, <2>5, <3>1, <3>2 DEF Running
  <2>9. CASE Passes(f) \/ Unlinks(f)
    <3>1. /\ partial' = partial /\ get[f].step \in Writing
          /\ get'[f].step \in {"replace", "rename"}
      BY <2>9 DEF Passes, Unlinks, Turns, Writing
    <3>2. get[d].step \in Writing
      BY <2>2, <2>3, <3>1
    <3>3. QED
      BY <2>3, <2>5, <3>1, <3>2 DEF Running
  <2>10. CASE Publishes(f) \/ Ends(f)
    <3>1. partial' \in {None, partial} /\ get'[f].step \in {"clean", "ended"}
      BY <2>10 DEF Publishes, Ends, Turns
    <3>2. d # f
      BY <2>2, <3>1 DEF Writing
    <3>3. \A e \in Running' : e = f \/ e = d
      BY <2>3, <2>4, <3>2
    <3>4. get[d].step \in Writing /\ get'[d].step # "request"
      BY <2>2, <2>3, <3>2 DEF Writing
    <3>5. \A e \in Running' : get'[e].step # "request"
      BY <3>1, <3>3, <3>4
    <3>6. QED
      BY <2>5, <3>1, <3>4, <3>5
  <2>11. QED
    BY <2>1, <2>6, <2>7, <2>8, <2>9, <2>10 DEF Continues
<1>4. CASE Install \/ UNCHANGED vars
  BY <1>4 DEF Install, vars, NewestHasThePartial, Running, Newest, Used
<1>5. QED
  BY <1>1, <1>2, <1>3, <1>4, StepsOfTheUpdater

\* The downloads whose bytes have the digest of a release.
Whole == {d \in Downloads : get[d].bytes = "whole"}

\* An installer is announced: on the screen, or in the answer of the newest
\* download.
Announced ==
  \/ screen.stage = "install"
  \/ \E d \in Downloads : Newest(d) /\ get[d].ready

\* The installer's name has a whole file or none, a download that is writing has
\* no other's partial, and only one download is not about to end.
Settled ==
  /\ target \in {None} \cup Whole
  /\ \A e \in Running : get[e].step \in Writing => partial \in {None, e}
  /\ \A a, b \in Running : get[a].step # "clean" /\ get[b].step # "clean" => a = b

\* While it never was crowded, an announced installer is a whole file, and no
\* download can put another one in its place.
AnnouncedIsSettled == ~crowded /\ Announced => Settled

\* A download that goes on keeps what is settled.
LEMMA SettledStays ==
  ASSUME Types, BytesFit, Settled, NEW d \in Downloads, Continues(d)
  PROVE  Settled'
<1>n. None \notin Downloads
  BY UpdaterAssumption DEF Downloads
<1>1. /\ d \in Running /\ Running' \subseteq Running /\ Running \subseteq Downloads
      /\ \A e \in Downloads \ {d} : get'[e] = get[e]
  BY ContinuingDownloads DEF Running
<1>2. \A a, b \in Running : get[a].step # "clean" /\ get[b].step # "clean" => a = b
  BY DEF Settled
<1>3. \A e \in Running : get[e].step \in Writing => partial \in {None, e}
  BY DEF Settled
<1>4. target \in {None} \cup Whole
  BY DEF Settled
<1>5. Whole \subseteq Whole'
  <2>1. get[d].bytes = "whole" => get'[d].bytes = "whole"
    BY DEF BytesFit, Continues, Removes, Creates, Breaks, Hangs, Passes, Unlinks, Publishes,
           Ends, Turns
  <2>2. QED
    BY <1>1, <2>1 DEF Whole
<1>6. target' \in {None} \cup Whole'
  <2>1. CASE Publishes(d)
    <3>1. d \in Whole /\ get[d].step \in Writing /\ partial # None /\ target' = partial
      BY <2>1 DEF BytesFit, Publishes, Whole, Writing
    <3>2. target' = d
      BY <1>1, <1>3, <3>1
    <3>3. QED
      BY <1>5, <3>1, <3>2
  <2>2. CASE ~Publishes(d)
    <3>1. target' \in {None, target}
      BY <2>2 DEF Continues, Removes, Creates, Breaks, Hangs, Passes, Unlinks, Ends
    <3>2. QED
      BY <1>4, <1>5, <3>1
  <2>3. QED
    BY <2>1, <2>2
<1>7. get'[d].step # "clean" => get[d].step # "clean" \/ get'[d].step = "ended"
  BY DEF Continues, Removes, Creates, Breaks, Hangs, Passes, Unlinks, Publishes, Ends, Turns
<1>8. \A a, b \in Running' : get'[a].step # "clean" /\ get'[b].step # "clean" => a = b
  <2>1. d \in Running' => get'[d].step # "ended"
    BY DEF Running
  <2>2. \A a \in Running' : get'[a].step # "clean" => get[a].step # "clean"
    BY <1>1, <1>7, <2>1
  <2>3. QED
    BY <1>1, <1>2, <2>2
<1>9. \A e \in Running' : get'[e].step \in Writing => partial' \in {None, e}
  <2>1. SUFFICES ASSUME NEW e \in Running', get'[e].step \in Writing
                 PROVE  partial' \in {None, e}
    OBVIOUS
  <2>2. CASE Creates(d)
    <3>1. /\ partial' = d /\ get[d].step # "clean"
          /\ get'[d].step # "clean"
      BY <2>2 DEF Creates, Turns
    <3>2. d \in Running'
      BY <2>2 DEF Creates, Turns, Running
    <3>3. e = d
      BY <1>8, <2>1, <3>1, <3>2 DEF Writing
    <3>4. QED
      BY <3>1, <3>3
  <2>3. CASE ~Creates(d)
    <3>1. partial' \in {None, partial}
      BY <2>3 DEF Continues, Removes, Breaks, Hangs, Passes, Unlinks, Publishes, Ends
    <3>2. get'[d].step \in Writing => get[d].step \in Writing
      BY <2>3 DEF Continues, Removes, Breaks, Hangs, Passes, Unlinks, Publishes, Ends, Turns,
                  Writing
    <3>3. get[e].step \in Writing
      BY <1>1, <2>1, <3>2
    <3>4. QED
      BY <1>1, <1>3, <3>1, <3>3
  <2>4. QED
    BY <2>2, <2>3
<1>10. QED
  BY <1>6, <1>8, <1>9 DEF Settled

\* A download that goes on announces nothing new, unless it is the newest and
\* renames the partial.
LEMMA OnlyTheNewestAnnounces ==
  ASSUME Types, BytesFit, ScreensAreTheirs, NEW d \in Downloads, Continues(d), Announced'
  PROVE  Announced \/ (Newest(d) /\ Publishes(d))
<1>1. /\ d \in Running /\ Used' = Used
      /\ \A e \in Downloads \ {d} : get'[e] = get[e]
      /\ get'[d].step = "ended" \/ screen' = screen
      /\ \A e : Newest(e)' <=> Newest(e)
  BY ContinuingDownloads, OthersStay
<1>2. CASE \E e \in Downloads : Newest(e)' /\ get'[e].ready
  <2>1. PICK e \in Downloads : Newest(e) /\ get'[e].ready
    BY <1>1, <1>2
  <2>2. CASE e # d
    BY <1>1, <2>1, <2>2 DEF Announced
  <2>3. CASE e = d /\ Publishes(d)
    BY <2>1, <2>3
  <2>4. CASE e = d /\ ~Publishes(d)
    <3>1. get'[d].ready = get[d].ready \/ get'[d].ready = FALSE
      BY <2>4 DEF Continues, Removes, Creates, Breaks, Hangs, Passes, Unlinks, Ends, Turns
    <3>2. get'[d].ready
      BY <2>1, <2>4
    <3>3. get[d].ready
      BY <3>1, <3>2, Zenon
    <3>4. Newest(d)
      BY <2>1, <2>4
    <3>5. QED
      BY <3>3, <3>4 DEF Announced
  <2>5. QED
    BY <2>2, <2>3, <2>4
<1>3. CASE screen'.stage = "install" /\ screen' = screen
  BY <1>3 DEF Announced
<1>4. CASE screen'.stage = "install" /\ screen' # screen
  <2>1. PICK stage \in {"download", "install"} :
          (stage = "install" => get[d].ready) /\ screen' = Returned(get[d].mount, stage)
    BY <1>4
    DEF Continues, Removes, Creates, Breaks, Hangs, Passes, Unlinks, Publishes, Ends, Others
  <2>2. PICK m : m = get[d].mount
    OBVIOUS
  <2>3. screen' = Returned(m, stage)
    BY <2>1, <2>2
  <2>4. screen \in ScreenRecord /\ stage \in {"check", "download", "install"}
    BY DEF Types
  <2>5. m = screen.mount /\ screen'.stage = stage
    BY <1>4, <2>3, <2>4, ReturnedScreens
  <2>6. get[d].ready
    BY <1>4, <2>1, <2>5
  <2>7. \A f \in Used : ~(d < f)
    <3>1. SUFFICES ASSUME NEW f \in Used, d < f PROVE FALSE
      OBVIOUS
    <3>2. get[d].mount < screen.mount
      BY <1>1, <3>1 DEF ScreensAreTheirs
    <3>3. get[d].mount \in Nat /\ get[d].mount = screen.mount
      BY <2>2, <2>5, MountsAreNumbers
    <3>4. QED
      BY <3>2, <3>3
  <2>8. d \in Nat /\ Used \subseteq Nat
    BY UpdaterAssumption DEF Used, Downloads
  <2>9. \A f \in Used : f <= d
    BY <2>7, <2>8
  <2>10. Newest(d)
    BY <1>1, <2>9 DEF Newest, Used, Running
  <2>11. QED
    BY <2>6, <2>10 DEF Announced
<1>5. QED
  BY <1>2, <1>3, <1>4 DEF Announced

\* Every step keeps what is announced settled.
LEMMA AnnouncedKept ==
  ASSUME Types, StartedInOrder, ScreensAreTheirs, BytesFit, TwoRun, NewestHasThePartial,
         AnnouncedIsSettled, [Next]_vars
  PROVE  AnnouncedIsSettled'
<1>n. None \notin Downloads
  BY UpdaterAssumption DEF Downloads
<1>1. CASE ScreenTurns /\ UNCHANGED ran
  BY <1>1 DEF ScreenTurns, AnnouncedIsSettled, Announced, Settled, Running, Newest, Used,
              Whole
<1>2. CASE \E d \in Downloads : Begins(d)
  <2>1. PICK d \in Downloads : Begins(d)
    BY <1>2
  <2>2. screen'.stage # "install" /\ get'[d].ready = get[d].ready
        /\ get[d].step = "unused"
    BY <2>1 DEF Begins, Turns, Used
  <2>3. ~get'[d].ready
    BY <2>2 DEF BytesFit
  <2>4. \A e \in Used' : Newest(e)' => e = d
    BY <2>1, BeginningIsNewest
  <2>5. ~Announced'
    BY <2>2, <2>3, <2>4 DEF Announced, Newest
  <2>6. QED
    BY <2>5 DEF AnnouncedIsSettled
<1>3. CASE \E d \in Downloads : Continues(d)
  <2>1. PICK d \in Downloads : Continues(d)
    BY <1>3
  <2>2. SUFFICES ASSUME ~crowded', Announced' PROVE Settled'
    BY DEF AnnouncedIsSettled
  <2>3. /\ d \in Running /\ Running' \subseteq Running /\ Running \subseteq Downloads
        /\ \A e \in Downloads \ {d} : get'[e] = get[e]
        /\ ~crowded
    BY <2>1, <2>2, ContinuingDownloads DEF Running
  <2>4. CASE Announced
    BY <2>1, <2>3, <2>4, SettledStays DEF AnnouncedIsSettled
  <2>5. CASE Newest(d) /\ Publishes(d)
    <3>1. /\ get[d].step \in Writing /\ partial # None /\ target' = partial
          /\ partial' = None /\ get'[d].step = "clean" /\ get'[d].bytes = "whole"
      BY <2>5 DEF Publishes, Turns, BytesFit, Writing
    <3>2. target' = d
      BY <2>3, <2>5, <3>1 DEF NewestHasThePartial
    <3>3. target' \in {None} \cup Whole'
      BY <3>1, <3>2 DEF Whole
    <3>4. \A a, b, c \in Running : a = b \/ b = c \/ a = c
      BY <2>3 DEF TwoRun
    <3>5. \A a, b \in Running' : get'[a].step # "clean" /\ get'[b].step # "clean" => a = b
      BY <2>3, <3>1, <3>4
    <3>6. QED
      BY <3>1, <3>3, <3>5 DEF Settled
  <2>6. QED
    BY <2>1, <2>2, <2>4, <2>5, OnlyTheNewestAnnounces
<1>4. CASE Install \/ UNCHANGED vars
  BY <1>4 DEF Install, vars, AnnouncedIsSettled, Announced, Settled, Running, Newest,
              Used, Whole
<1>5. QED
  BY <1>1, <1>2, <1>3, <1>4, StepsOfTheUpdater

\* Every step keeps what was started verified.
LEMMA RanKept ==
  ASSUME Types, StartedInOrder, AnnouncedIsSettled, InstalledIsVerified, [Next]_vars
  PROVE  InstalledIsVerified'
<1>1. CASE Install
  <2>1. ran' = {target} /\ screen.stage = "install" /\ get' = get /\ crowded' = crowded
    BY <1>1 DEF Install
  <2>2. ~crowded => target \in {None} \cup Whole
    BY <2>1 DEF AnnouncedIsSettled, Announced, Settled
  <2>3. QED
    BY <2>1, <2>2 DEF InstalledIsVerified, Whole
<1>2. CASE UNCHANGED vars
  BY <1>2 DEF vars, InstalledIsVerified
<1>3. CASE ran = {} /\ ran' = ran
  BY <1>3 DEF InstalledIsVerified
<1>4. QED
  <2>1. ran = {} \/ UNCHANGED vars
    BY DEF Next
  <2>2. ScreenTurns /\ UNCHANGED ran => ran' = ran
    OBVIOUS
  <2>3. ASSUME NEW d \in Downloads, Begins(d) \/ Continues(d)
        PROVE  ran' = ran
    BY <2>3
    DEF Begins, Continues, Removes, Creates, Breaks, Hangs, Passes, Unlinks, Publishes, Ends,
        Others
  <2>4. QED
    BY <1>1, <1>2, <1>3, <2>1, <2>2, <2>3, StepsOfTheUpdater

(***************************************************************************)
(* The theorems.                                                           *)
(***************************************************************************)

\* The inductive invariant of the updater.
UpdaterInvariant ==
  /\ Types
  /\ StartedInOrder
  /\ ScreensAreTheirs
  /\ NamesAreFresh
  /\ BytesFit
  /\ TwoRun
  /\ NewestHasThePartial
  /\ AnnouncedIsSettled
  /\ InstalledIsVerified

\* It holds at the start.
LEMMA UpdaterStarts ==
  ASSUME Init
  PROVE  UpdaterInvariant
<1>m. 0 \in 0..MaxMounts /\ 1 \in 1..MaxMounts
  BY UpdaterAssumption
<1>n. Downloads \cap {None, Old} = {}
  BY UpdaterAssumption DEF Downloads
<1>1. Unused \in DownloadRecord
  BY <1>m DEF Unused, DownloadRecord
<1>2. /\ Unused.step = "unused" /\ Unused.bytes = "part" /\ Unused.ready = FALSE
  BY DEF Unused
<1>3. Mounted(1) \in ScreenRecord /\ Mounted(1).stage = "check"
  BY <1>m DEF Mounted, ScreenRecord
<1>4. get \in [Downloads -> DownloadRecord] /\ \A d \in Downloads : get[d] = Unused
  BY <1>1 DEF Init
<1>5. /\ screen = Mounted(1) /\ checks = {} /\ release = None /\ installer = FALSE
      /\ partial \in {None, Old} /\ target \in {None, Old} /\ ran = {} /\ crowded = FALSE
  BY DEF Init
<1>6. Types
  BY <1>3, <1>4, <1>5 DEF Types
<1>7. Used = {} /\ Running = {}
  BY <1>2, <1>4 DEF Used, Running
<1>8. StartedInOrder /\ ScreensAreTheirs
  BY <1>5, <1>7 DEF StartedInOrder, ScreensAreTheirs
<1>9. NamesAreFresh
  BY <1>n, <1>5 DEF NamesAreFresh
<1>10. BytesFit
  BY <1>2, <1>4 DEF BytesFit
<1>11. TwoRun /\ NewestHasThePartial
  BY <1>7 DEF TwoRun, NewestHasThePartial
<1>12. ~Announced
  BY <1>3, <1>5, <1>7 DEF Announced, Newest
<1>13. AnnouncedIsSettled /\ InstalledIsVerified
  BY <1>5, <1>12 DEF AnnouncedIsSettled, InstalledIsVerified
<1>14. QED
  BY <1>6, <1>8, <1>9, <1>10, <1>11, <1>13 DEF UpdaterInvariant

\* The updater keeps its invariant: at most two downloads run beside each other
\* before it is crowded, the newest owns the partial, and only the newest
\* announces an installer (AppUpdater.cjs, handleUpdate).
THEOREM UpdaterInvariantHolds == Spec => []UpdaterInvariant
<1>1. Init => UpdaterInvariant
  BY UpdaterStarts
<1>2. UpdaterInvariant /\ [Next]_vars => UpdaterInvariant'
  <2>1. SUFFICES ASSUME UpdaterInvariant, [Next]_vars PROVE UpdaterInvariant'
    OBVIOUS
  <2>2. /\ Types /\ StartedInOrder /\ ScreensAreTheirs /\ NamesAreFresh /\ BytesFit
        /\ TwoRun /\ NewestHasThePartial /\ AnnouncedIsSettled /\ InstalledIsVerified
    BY <2>1 DEF UpdaterInvariant
  <2>3. Types' /\ StartedInOrder'
    BY <2>1, <2>2, TypesKept, OrderKept
  <2>4. ScreensAreTheirs'
    BY <2>1, <2>2, <2>3, ScreensKept
  <2>5. NamesAreFresh' /\ BytesFit'
    BY <2>1, <2>2, NamesKept, BytesKept
  <2>6. TwoRun' /\ NewestHasThePartial'
    BY <2>1, <2>2, TwoRunKept, NewestPartialKept
  <2>7. AnnouncedIsSettled' /\ InstalledIsVerified'
    BY <2>1, <2>2, AnnouncedKept, RanKept
  <2>8. QED
    BY <2>3, <2>4, <2>5, <2>6, <2>7 DEF UpdaterInvariant
<1>3. QED
  BY <1>1, <1>2, PTL DEF Spec

\* The variables of the updater keep their types, and no inode has both the
\* partial's name and the installer's.
THEOREM UpdaterTypes == Spec => []TypeOK
<1>1. UpdaterInvariant => TypeOK
  BY DEF UpdaterInvariant, Types, ScreenRecord, DownloadRecord, NamesAreFresh, TypeOK
<1>2. QED
  BY <1>1, UpdaterInvariantHolds, PTL

\* A file that install starts is the whole file of a release, for any number of
\* downloads and mounts, as long as no download began beside two others or
\* beside one that was still about to remove the partial (AppUpdater.cjs:
\* download, install).
THEOREM StartedInstallersAreWhole == Spec => []InstalledIsVerified
<1>1. UpdaterInvariant => InstalledIsVerified
  BY DEF UpdaterInvariant
<1>2. QED
  BY <1>1, UpdaterInvariantHolds, PTL
=============================================================================
