------------------------------- MODULE Update -------------------------------
(***************************************************************************)
(* `skyfired update`: several updater processes, each started from the     *)
(* binary that is at the target at that time, resolve a release, decide by *)
(* comparing versions, download, verify and replace the binary, which may  *)
(* be running as the daemon.  Any step can fail, a process can be killed,  *)
(* and the power can go.                                                   *)
(*                                                                         *)
(* A file is an identity with a content; the directory binds the names     *)
(* target and target.old to files.  Windows does not delete or overwrite a *)
(* file that a process runs from, but renames it.                          *)
(***************************************************************************)
EXTENDS Integers, Sequences, FiniteSets

CONSTANTS
  Procs,        \* updater processes
  Platforms,    \* the platforms of an instance: "unix", "windows"
  Versions,     \* versions as parseVersion returns them
  Published,    \* those of the releases of an instance
  Dev,          \* a version that does not parse
  MaxFiles,     \* files created in a behaviour
  None

Files == 0 .. MaxFiles

ASSUME UpdateAssumption ==
  /\ MaxFiles \in Nat /\ None \notin Files
  /\ Platforms \subseteq {"unix", "windows"} /\ Platforms # {}
  /\ Dev \notin Versions /\ None \notin Versions
  /\ Published \subseteq Versions

\* checksums.txt of a release: it has none, one without our asset, one with it.
Sums == {"none", "unlisted", "listed"}
Releases == [version : Published \cup {Dev}, sums : Sums]

\* What the release API can answer: also an object without a tag.
Answers == Releases \cup [version : {None}, sums : Sums]

VARIABLES
  platform,
  content,      \* of each file: version, and how much of it is written
  names,        \* target and old: the file with that name, or None
  settled,      \* the names as the disk has them
  daemon,       \* the file the daemon runs from, or None
  pc,           \* off, resolve, fetch, write, sync, clear, aside, place, undo, cleanup, restart
  image,        \* the file a process runs from
  release,      \* the release it has decided to fetch
  force,        \* -force, while it decides
  tmp,          \* its temporary file
  moved         \* history: the file it has moved aside

vars == <<platform, content, names, settled, daemon, pc, image, release, force, tmp, moved>>
proc == <<image, release, force, tmp, moved>>
disk == <<content, names, settled>>

Steps == {"off", "resolve", "fetch", "write", "sync", "clear", "aside", "place",
          "undo", "cleanup", "restart"}

TypeOK ==
  /\ platform \in Platforms
  /\ \A f \in DOMAIN content :
       /\ f \in Files
       /\ content[f].version \in Versions \cup {Dev}
       /\ content[f].state \in {"partial", "written", "synced"}
  /\ {names.target, names.old} \subseteq DOMAIN content \cup {None}
  /\ {settled.target, settled.old} \subseteq DOMAIN content \cup {None}
  /\ daemon \in DOMAIN content \cup {None}
  /\ pc \in [Procs -> Steps]
  /\ image \in [Procs -> DOMAIN content \cup {None}]
  /\ tmp \in [Procs -> DOMAIN content \cup {None}]
  /\ moved \in [Procs -> DOMAIN content \cup {None}]
  /\ force \in [Procs -> BOOLEAN]
  /\ release \in [Procs -> Releases \cup {None}]

-----------------------------------------------------------------------------
(* Versions: nums is the dotted core, pre the pre-release identifiers, each  *)
(* numeric or not                                                           *)

Sign(n) == IF n < 0 THEN -1 ELSE IF n > 0 THEN 1 ELSE 0
Longer(s, t) == IF Len(s) > Len(t) THEN Len(s) ELSE Len(t)

\* (mutant) Only the numbers both versions have are compared.
CompareNumsShortest(a, b) ==
  LET n == IF Len(a) < Len(b) THEN Len(a) ELSE Len(b)
      from[i \in 1 .. n + 1] ==
        IF i > n THEN 0 ELSE IF a[i] # b[i] THEN Sign(a[i] - b[i]) ELSE from[i + 1]
  IN from[1]

\* Missing numbers count as zero.
CompareNums(a, b) ==
  LET at(s, i) == IF i <= Len(s) THEN s[i] ELSE 0
      n == Longer(a, b)
      from[i \in 1 .. n + 1] ==
        IF i > n THEN 0
        ELSE IF at(a, i) # at(b, i) THEN Sign(at(a, i) - at(b, i))
        ELSE from[i + 1]
  IN from[1]

\* Numbers sort by value and before words, words by their text (here a rank).
CompareIdent(x, y) ==
  CASE x.numeric = y.numeric      -> Sign(x.val - y.val)
    [] x.numeric /\ ~y.numeric    -> -1
    [] OTHER                      -> 1

ComparePre(a, b) ==
  LET n == Longer(a, b)
      from[i \in 1 .. n + 1] ==
        CASE i > n      -> 0
          [] i <= n /\ i > Len(a) -> -1
          [] i <= n /\ i > Len(b) -> 1
          [] OTHER -> LET c == CompareIdent(a[i], b[i]) IN IF c # 0 THEN c ELSE from[i + 1]
  IN from[1]

CompareSemver(a, b) ==
  LET c == CompareNums(a.nums, b.nums) IN
  IF c # 0 THEN c
  ELSE IF a.pre = <<>> /\ b.pre = <<>> THEN 0
  ELSE IF a.pre = <<>> THEN 1
  ELSE IF b.pre = <<>> THEN -1
  ELSE ComparePre(a.pre, b.pre)

Comparable(current, latest) == {current, latest} \cap {Dev, None} = {}
Newer(current, latest) ==
  Comparable(current, latest) /\ CompareSemver(current, latest) < 0

-----------------------------------------------------------------------------
(* Processes *)

Goto(p, step) == pc' = [pc EXCEPT ![p] = step]

\* A process is gone; the file it ran from is no longer held.
Gone(p) ==
  /\ Goto(p, "off")
  /\ image'   = [image   EXCEPT ![p] = None]
  /\ release' = [release EXCEPT ![p] = None]
  /\ force'   = [force   EXCEPT ![p] = FALSE]
  /\ tmp'     = [tmp     EXCEPT ![p] = None]
  /\ moved'   = [moved   EXCEPT ![p] = None]

Whole(f) == f # None /\ content[f].state # "partial"

\* What Windows refuses to delete or overwrite.
Held(f) == f # None /\ (f = daemon \/ \E p \in Procs : image[p] = f)

RunUpdate(p, f) ==
  /\ pc[p] = "off" /\ Whole(names.target)
  /\ Goto(p, "resolve")
  /\ image' = [image EXCEPT ![p] = names.target]
  /\ force' = [force EXCEPT ![p] = f]
  /\ UNCHANGED <<platform, disk, daemon, release, tmp, moved>>

\* A version that cannot be compared is installed.
Installs(p, rel) ==
  LET current == content[image[p]].version IN
  Comparable(current, rel.version) => Newer(current, rel.version) \/ force[p]

\* (mutant) A release without a tag is taken.
ResolveUntagged(p, rel) ==
  /\ pc[p] = "resolve"
  /\ Installs(p, rel)
  /\ Goto(p, "fetch")
  /\ release' = [release EXCEPT ![p] = rel]
  /\ force' = [force EXCEPT ![p] = FALSE]
  /\ UNCHANGED <<platform, disk, daemon, image, tmp, moved>>

\* Resolve, and the decision; -check ends like an answer that it is up to date.
Resolve(p, rel) ==
  /\ pc[p] = "resolve"
  /\ rel.version # None
  /\ Installs(p, rel)
  /\ Goto(p, "fetch")
  /\ release' = [release EXCEPT ![p] = rel]
  /\ force' = [force EXCEPT ![p] = FALSE]
  /\ UNCHANGED <<platform, disk, daemon, image, tmp, moved>>

\* Fetch: with a checksums.txt the asset has to be listed in it (and to match,
\* or the process ends).
Accepts(rel) == rel.sums # "unlisted"

\* The release is downloaded and verified, and Install creates its file.
Fetch(p) ==
  /\ pc[p] = "fetch" /\ Accepts(release[p])
  /\ \E f \in Files \ DOMAIN content :
       /\ \A g \in Files \ DOMAIN content : f <= g
       /\ content' = [g \in DOMAIN content \cup {f} |->
            IF g # f THEN content[g]
            ELSE [version |-> release[p].version, state |-> "partial"]]
       /\ tmp' = [tmp EXCEPT ![p] = f]
  /\ Goto(p, "write")
  /\ release' = [release EXCEPT ![p] = None]
  /\ UNCHANGED <<platform, names, settled, daemon, image, force, moved>>

Write(p) ==
  /\ pc[p] = "write"
  /\ content' = [content EXCEPT ![tmp[p]].state = "written"]
  /\ Goto(p, "sync")
  /\ UNCHANGED <<platform, names, settled, daemon, proc>>

\* (mutant) The file is renamed before its content is on the disk.
SyncSkipped(p) ==
  /\ pc[p] = "sync"
  /\ Goto(p, IF platform = "windows" THEN "clear" ELSE "place")
  /\ UNCHANGED <<platform, disk, daemon, proc>>

Sync(p) ==
  /\ pc[p] = "sync"
  /\ content' = [content EXCEPT ![tmp[p]].state = "synced"]
  /\ Goto(p, IF platform = "windows" THEN "clear" ELSE "place")
  /\ UNCHANGED <<platform, names, settled, daemon, proc>>

\* Windows: an earlier target.old is deleted, or cannot be.
Clear(p) ==
  /\ pc[p] = "clear"
  /\ names' \in IF Held(names.old) THEN {names} ELSE {names, [names EXCEPT !.old = None]}
  /\ Goto(p, "aside")
  /\ UNCHANGED <<platform, content, settled, daemon, proc>>

\* (mutant) The error of the first rename is ignored.
MoveAsideAnyway(p) ==
  /\ pc[p] = "aside"
  /\ IF names.target # None /\ ~Held(names.old)
     THEN /\ names' = [target |-> None, old |-> names.target]
          /\ moved' = [moved EXCEPT ![p] = names.target]
     ELSE UNCHANGED <<names, moved>>
  /\ Goto(p, "place")
  /\ UNCHANGED <<platform, content, settled, daemon, image, release, force, tmp>>

\* Windows: the binary becomes target.old, in the place of what has that name,
\* unless a process still runs from that.
MoveAside(p) ==
  /\ pc[p] = "aside"
  /\ names.target # None /\ ~Held(names.old)
  /\ names' = [target |-> None, old |-> names.target]
  /\ moved' = [moved EXCEPT ![p] = names.target]
  /\ Goto(p, "place")
  /\ UNCHANGED <<platform, content, settled, daemon, image, release, force, tmp>>

\* The new binary takes the name.
Place(p) ==
  /\ pc[p] = "place"
  /\ platform = "windows" => ~Held(names.target)
  /\ names' = [names EXCEPT !.target = tmp[p]]
  /\ tmp' = [tmp EXCEPT ![p] = None]
  /\ Goto(p, IF platform = "windows" THEN "cleanup" ELSE "restart")
  /\ UNCHANGED <<platform, content, settled, daemon, image, release, force, moved>>

PlaceFails(p) ==
  /\ pc[p] = "place"
  /\ IF platform = "windows"
     THEN Goto(p, "undo") /\ UNCHANGED proc
     ELSE Gone(p)
  /\ UNCHANGED <<platform, disk, daemon>>

Undo(p) ==
  /\ pc[p] = "undo"
  /\ names' = [target |-> names.old, old |-> None]
  /\ Gone(p)
  /\ UNCHANGED <<platform, content, settled, daemon>>

\* The binary that was moved aside is deleted, when nothing runs from it.
Cleanup(p) ==
  /\ pc[p] = "cleanup"
  /\ names' = IF Held(names.old) THEN names ELSE [names EXCEPT !.old = None]
  /\ Goto(p, "restart")
  /\ UNCHANGED <<platform, content, settled, daemon, proc>>

\* restartService: a running unit is started again from the target.
Restart(p) ==
  /\ pc[p] = "restart"
  /\ daemon' \in IF platform = "unix" /\ daemon # None
                 THEN {daemon, names.target} ELSE {daemon}
  /\ Gone(p)
  /\ UNCHANGED <<platform, disk>>

\* An error, or no need to update: the process ends, its temporary file is
\* deleted.  A failed rollback of Windows is the last of them.
Ends(p) ==
  /\ pc[p] \in {"resolve", "fetch", "write", "sync", "clear", "aside", "undo"}
  /\ Gone(p)
  /\ UNCHANGED <<platform, disk, daemon>>

Killed(p) ==
  /\ pc[p] # "off"
  /\ Gone(p)
  /\ UNCHANGED <<platform, disk, daemon>>

-----------------------------------------------------------------------------
(* The machine *)

DaemonStarts ==
  /\ daemon = None /\ Whole(names.target)
  /\ daemon' = names.target
  /\ UNCHANGED <<platform, disk, pc, proc>>

DaemonStops ==
  /\ daemon # None /\ daemon' = None
  /\ UNCHANGED <<platform, disk, pc, proc>>

Settle ==
  /\ settled # names /\ settled' = names
  /\ UNCHANGED <<platform, content, names, daemon, pc, proc>>

\* Content that was not synced may be lost, and so may the latest renames.
PowerLoss ==
  /\ content' = [f \in DOMAIN content |->
       IF content[f].state = "written"
       THEN [content[f] EXCEPT !.state = "partial"] ELSE content[f]]
  /\ names' \in {names, settled} /\ settled' = names'
  /\ daemon' = None
  /\ pc' = [p \in Procs |-> "off"]
  /\ image' = [p \in Procs |-> None] /\ release' = [p \in Procs |-> None]
  /\ force' = [p \in Procs |-> FALSE]
  /\ tmp' = [p \in Procs |-> None] /\ moved' = [p \in Procs |-> None]
  /\ UNCHANGED platform

-----------------------------------------------------------------------------

Init ==
  /\ platform \in Platforms
  /\ \E v \in Published \cup {Dev} :
       content = [f \in {0} |-> [version |-> v, state |-> "synced"]]
  /\ names = [target |-> 0, old |-> None] /\ settled = names
  /\ daemon = None
  /\ pc = [p \in Procs |-> "off"]
  /\ image = [p \in Procs |-> None] /\ release = [p \in Procs |-> None]
  /\ force = [p \in Procs |-> FALSE]
  /\ tmp = [p \in Procs |-> None] /\ moved = [p \in Procs |-> None]

Next ==
  \/ \E p \in Procs :
       \/ \E f \in BOOLEAN : RunUpdate(p, f)
       \/ \E rel \in Answers : Resolve(p, rel)
       \/ Fetch(p) \/ Write(p) \/ Sync(p)
       \/ Clear(p) \/ MoveAside(p) \/ Place(p) \/ PlaceFails(p) \/ Undo(p) \/ Cleanup(p)
       \/ Restart(p) \/ Ends(p) \/ Killed(p)
  \/ DaemonStarts \/ DaemonStops \/ Settle \/ PowerLoss

Spec == Init /\ [][Next]_vars

-----------------------------------------------------------------------------
(* Properties *)

\* Whatever fails, is killed or loses power, and however many updaters run, a
\* complete binary is left: at the target, on Windows at the target or at .old.
BinaryLeft == Whole(names.target) \/ (platform = "windows" /\ Whole(names.old))

\* Between its two renames an updater on Windows is alone: the target is absent
\* and .old is what it has moved, which is what it would put back.
ReplacesAlone ==
  \A p \in Procs :
    pc[p] \in {"place", "undo"} /\ platform = "windows" =>
      names.target = None /\ names.old = moved[p]

\* Reference order of versions, for at most three numbers below 9 and two
\* identifiers below 3: digits from the left, where a missing number is 0, a
\* missing identifier sorts first and a release after its pre-releases.
Weight(v) ==
  LET num(i) == IF i <= Len(v.nums) THEN v.nums[i] ELSE 0
      id(i)  == IF v.pre = <<>> THEN 9
                ELSE IF i > Len(v.pre) THEN 0
                ELSE IF v.pre[i].numeric THEN 1 + v.pre[i].val ELSE 4 + v.pre[i].val
  IN (((num(1) * 10 + num(2)) * 10 + num(3)) * 10 + id(1)) * 10 + id(2)

\* The comparison that decides whether to install is the reference order
\* (evaluated as long as nothing has been downloaded).
DecidesByOrder ==
  DOMAIN content = {0} => \A current, latest \in Versions :
    Newer(current, latest) = (Weight(current) < Weight(latest))

=============================================================================
