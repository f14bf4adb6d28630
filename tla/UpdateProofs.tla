--------------------------- MODULE UpdateProofs ---------------------------
(***************************************************************************)
(* Proofs about Update, for any number of updaters, files and versions and *)
(* both platforms: the types, the complete binary that is always left,     *)
(* that the two renames of Windows are never shared, and that versions of  *)
(* any length are compared by an order.                                    *)
(***************************************************************************)
EXTENDS Update, WellFoundedInduction, TLAPS

USE UpdateAssumption

-----------------------------------------------------------------------------
(* The inductive invariant *)

File == [version : Versions \cup {Dev}, state : {"partial", "written", "synced"}]
Known == DOMAIN content \cup {None}

Types ==
  /\ platform \in Platforms
  /\ DOMAIN content \subseteq Files /\ content \in [DOMAIN content -> File]
  /\ daemon \in Known
  /\ pc \in [Procs -> Steps]
  /\ image \in [Procs -> Known] /\ tmp \in [Procs -> Known] /\ moved \in [Procs -> Known]
  /\ force \in [Procs -> BOOLEAN]
  /\ release \in [Procs -> Releases \cup {None}]
  /\ \A p \in Procs :
       /\ pc[p] = "off" <=> image[p] = None
       /\ pc[p] = "fetch" => release[p] \in Releases
       /\ pc[p] \in {"clear", "aside", "undo", "cleanup"} => platform = "windows"

Synced(f) == f \in DOMAIN content /\ content[f].state = "synced"

\* Each updater has a temporary file of its own, which is on the disk before it
\* gets a name.
Temps ==
  /\ \A p \in Procs :
       /\ pc[p] \in {"write", "sync"} => tmp[p] \in DOMAIN content /\ ~Synced(tmp[p])
       /\ pc[p] \in {"clear", "aside", "place", "undo"} => Synced(tmp[p])
  /\ \A p, q \in Procs : p # q /\ tmp[p] # None => tmp[p] # tmp[q]

\* Names are those of synced files, and one of them is there.
Sound(n) ==
  /\ n = [target |-> n.target, old |-> n.old]
  /\ n.target # None => Synced(n.target)
  /\ n.old # None => Synced(n.old)
  /\ n.target # None \/ (platform = "windows" /\ n.old # None)

\* Windows: what runs still has a name, so it can keep .old from being deleted
\* while there is no target.
Images ==
  platform = "windows" =>
    /\ daemon \in {names.target, names.old, None}
    /\ \A p \in Procs : image[p] \in {names.target, names.old, None}

Replacing(p) == pc[p] \in {"place", "undo"} /\ platform = "windows"

Alone ==
  /\ \A p \in Procs : Replacing(p) => names.target = None /\ names.old = moved[p]
  /\ \A p, q \in Procs : Replacing(p) /\ Replacing(q) => p = q

Inv == Types /\ Temps /\ Sound(names) /\ Sound(settled) /\ Images /\ Alone

LEMMA NoneIsNoFile == Types => None \notin DOMAIN content
BY DEF Types

LEMMA InvInit == Init => Inv
<1> SUFFICES ASSUME Init PROVE Inv
  OBVIOUS
<1>0. 0 \in Files /\ None # 0
  BY DEF Files
<1>1. DOMAIN content = {0} /\ content[0] \in File /\ content[0].state = "synced"
      /\ content \in [DOMAIN content -> File]
  BY DEF Init, File
<1>2. Synced(0) /\ names = [target |-> 0, old |-> None] /\ settled = names
  BY <1>1 DEF Init, Synced
<1> QED
  BY <1>0, <1>1, <1>2 DEF Init, Inv, Types, Temps, Sound, Images, Alone, Replacing, Known, Steps

\* An updater without a name to it takes no part in the invariant any more.
LEMMA InvGone ==
  ASSUME Inv, NEW p \in Procs, Gone(p), UNCHANGED <<platform, content, names, settled, daemon>>
  PROVE  Inv'
BY DEF Inv, Types, Temps, Sound, Images, Alone, Replacing, Known, Steps, Gone, Goto, Synced

\* A running updater deletes .old only where there is a target: without one it
\* runs from .old itself.
LEMMA Deletable ==
  ASSUME Inv, NEW p \in Procs, pc[p] \in {"clear", "cleanup"}, ~Held(names.old),
         names' = [names EXCEPT !.old = None],
         pc' \in [Procs -> Steps], pc'[p] \in {"aside", "restart"},
         \A q \in Procs : q # p => pc'[q] = pc[q],
         pc'[p] = "aside" => pc[p] = "clear",
         UNCHANGED <<platform, content, settled, daemon, image, release, force, tmp, moved>>
  PROVE  Inv'
<1> USE DEF Inv, Types, Sound
<1>1. platform = "windows" /\ image[p] # None /\ names.target # None
  BY DEF Images, Held
<1>2. names' = [target |-> names.target, old |-> None]
  OBVIOUS
<1>3. Types' /\ Temps'
  BY DEF Temps, Synced, Known
<1>4. Sound(names)' /\ Sound(settled)'
  BY <1>1, <1>2 DEF Synced
<1>5. Images'
  BY <1>1, <1>2 DEF Images, Held
<1>6. Alone'
  BY <1>1 DEF Alone, Replacing
<1> QED
  BY <1>3, <1>4, <1>5, <1>6

LEMMA InvStep == Inv /\ [Next]_vars => Inv'
<1> SUFFICES ASSUME Inv, [Next]_vars PROVE Inv'
  OBVIOUS
<1>0. None \notin DOMAIN content
  BY NoneIsNoFile DEF Inv
<1> USE <1>0 DEF Inv, Types, Sound, Goto, Steps, disk, proc
<1>1. ASSUME NEW p \in Procs, NEW f \in BOOLEAN, RunUpdate(p, f) PROVE Inv'
  BY <1>1 DEF RunUpdate, Whole, Temps, Images, Alone, Replacing, Known, Synced
<1>2. ASSUME NEW p \in Procs, NEW rel \in Answers, Resolve(p, rel) PROVE Inv'
  <2>1. rel \in Releases
    BY <1>2 DEF Resolve, Answers
  <2> QED
    BY <1>2, <2>1 DEF Resolve, Temps, Images, Alone, Replacing, Known, Synced
<1>3. ASSUME NEW p \in Procs, Fetch(p) PROVE Inv'
  <2>1. PICK f \in Files \ DOMAIN content :
          /\ content' = [g \in DOMAIN content \cup {f} |->
               IF g # f THEN content[g]
               ELSE [version |-> release[p].version, state |-> "partial"]]
          /\ tmp' = [tmp EXCEPT ![p] = f]
    BY <1>3 DEF Fetch
  <2>2. /\ pc[p] = "fetch" /\ pc' = [pc EXCEPT ![p] = "write"]
        /\ release' = [release EXCEPT ![p] = None]
        /\ UNCHANGED <<platform, names, settled, daemon, image, force, moved>>
    BY <1>3 DEF Fetch
  <2>3. release[p].version \in Versions \cup {Dev}
    BY <2>2 DEF Releases
  <2>4. /\ DOMAIN content' = DOMAIN content \cup {f}
        /\ content' \in [DOMAIN content' -> File]
        /\ \A g \in DOMAIN content : content'[g] = content[g]
        /\ content'[f].state = "partial"
    BY <2>1, <2>3 DEF File
  <2>5. Types'
    BY <2>1, <2>2, <2>4 DEF Known
  <2>6. Temps'
    BY <2>1, <2>2, <2>4 DEF Temps, Synced, Known
  <2>7. Sound(names)' /\ Sound(settled)'
    BY <2>2, <2>4 DEF Synced
  <2>8. Images' /\ Alone'
    BY <2>2 DEF Images, Alone, Replacing
  <2> QED
    BY <2>5, <2>6, <2>7, <2>8
<1>4. ASSUME NEW p \in Procs, Write(p) PROVE Inv'
  <2>1. /\ pc[p] = "write" /\ pc' = [pc EXCEPT ![p] = "sync"]
        /\ content' = [content EXCEPT ![tmp[p]].state = "written"]
        /\ UNCHANGED <<platform, names, settled, daemon, image, release, force, tmp, moved>>
    BY <1>4 DEF Write
  <2>2. tmp[p] \in DOMAIN content /\ ~Synced(tmp[p])
    BY <2>1 DEF Temps
  <2>3. /\ DOMAIN content' = DOMAIN content
        /\ content' \in [DOMAIN content -> File]
        /\ \A g \in DOMAIN content : g # tmp[p] => content'[g] = content[g]
        /\ content'[tmp[p]].state = "written"
    BY <2>1, <2>2 DEF File
  <2>4. \A g : Synced(g)' <=> Synced(g)
    BY <2>2, <2>3 DEF Synced
  <2>5. Types'
    BY <2>1, <2>3 DEF Known
  <2>6. Temps'
    BY <2>1, <2>3, <2>4 DEF Temps
  <2>7. Sound(names)' /\ Sound(settled)'
    BY <2>1, <2>4
  <2>8. Images' /\ Alone'
    BY <2>1 DEF Images, Alone, Replacing
  <2> QED
    BY <2>5, <2>6, <2>7, <2>8
<1>5. ASSUME NEW p \in Procs, Sync(p) PROVE Inv'
  <2>1. /\ pc[p] = "sync"
        /\ pc' = [pc EXCEPT ![p] = IF platform = "windows" THEN "clear" ELSE "place"]
        /\ content' = [content EXCEPT ![tmp[p]].state = "synced"]
        /\ UNCHANGED <<platform, names, settled, daemon, image, release, force, tmp, moved>>
    BY <1>5 DEF Sync
  <2>2. tmp[p] \in DOMAIN content
    BY <2>1 DEF Temps
  <2>3. /\ DOMAIN content' = DOMAIN content
        /\ content' \in [DOMAIN content -> File]
        /\ \A g \in DOMAIN content : g # tmp[p] => content'[g] = content[g]
        /\ content'[tmp[p]].state = "synced"
    BY <2>1, <2>2 DEF File
  <2>4. Synced(tmp[p])' /\ \A g : g # tmp[p] => (Synced(g)' <=> Synced(g))
    BY <2>1, <2>2, <2>3 DEF Synced
  <2>5. Types'
    BY <2>1, <2>3 DEF Known
  <2>6. Temps'
    BY <2>1, <2>2, <2>3, <2>4 DEF Temps
  <2>7. Sound(names)' /\ Sound(settled)'
    BY <2>1, <2>4
  <2>8. Images' /\ Alone'
    BY <2>1 DEF Images, Alone, Replacing
  <2> QED
    BY <2>5, <2>6, <2>7, <2>8
<1>6. ASSUME NEW p \in Procs, Clear(p) PROVE Inv'
  <2>1. /\ pc[p] = "clear" /\ pc' = [pc EXCEPT ![p] = "aside"]
        /\ UNCHANGED <<platform, content, settled, daemon, image, release, force, tmp, moved>>
    BY <1>6 DEF Clear
  <2>2. CASE names' = names
    BY <2>1, <2>2 DEF Temps, Images, Alone, Replacing, Known, Synced
  <2>3. CASE ~Held(names.old) /\ names' = [names EXCEPT !.old = None]
    BY <2>1, <2>3, Deletable
  <2> QED
    BY <1>6, <2>2, <2>3 DEF Clear
<1>7. ASSUME NEW p \in Procs, MoveAside(p) PROVE Inv'
  <2>1. /\ pc[p] = "aside" /\ pc' = [pc EXCEPT ![p] = "place"]
        /\ names.target # None /\ ~Held(names.old)
        /\ names' = [target |-> None, old |-> names.target]
        /\ moved' = [moved EXCEPT ![p] = names.target]
        /\ UNCHANGED <<platform, content, settled, daemon, image, release, force, tmp>>
    BY <1>7 DEF MoveAside
  <2>2. platform = "windows" /\ names.target \in DOMAIN content
    BY <2>1 DEF Synced
  <2>3. Types' /\ Temps'
    BY <2>1, <2>2 DEF Temps, Synced, Known
  <2>4. Sound(names)' /\ Sound(settled)'
    BY <2>1, <2>2 DEF Synced
  <2>5. Images'
    BY <2>1, <2>2 DEF Images, Held
  <2>6. \A q \in Procs : ~Replacing(q)
    BY <2>1 DEF Alone
  <2>7. Alone'
    BY <2>1, <2>6 DEF Alone, Replacing
  <2> QED
    BY <2>3, <2>4, <2>5, <2>7
<1>8. ASSUME NEW p \in Procs, Place(p) PROVE Inv'
  <2>1. /\ pc[p] = "place"
        /\ pc' = [pc EXCEPT ![p] = IF platform = "windows" THEN "cleanup" ELSE "restart"]
        /\ names' = [names EXCEPT !.target = tmp[p]]
        /\ tmp' = [tmp EXCEPT ![p] = None]
        /\ UNCHANGED <<platform, content, settled, daemon, image, release, force, moved>>
    BY <1>8 DEF Place
  <2>2. Synced(tmp[p]) /\ tmp[p] \in DOMAIN content
    BY <2>1 DEF Temps, Synced
  <2>3. names' = [target |-> tmp[p], old |-> names.old]
    BY <2>1
  <2>4. Types' /\ Temps'
    BY <2>1, <2>2 DEF Temps, Synced, Known
  <2>5. Sound(names)' /\ Sound(settled)'
    BY <2>1, <2>2, <2>3 DEF Synced
  <2>6. platform = "windows" =>
          names.target = None /\ \A q \in Procs : Replacing(q) => q = p
    BY <2>1 DEF Alone, Replacing
  <2>7. Images'
    BY <2>1, <2>3, <2>6 DEF Images
  <2>8. Alone'
    BY <2>1, <2>6 DEF Alone, Replacing
  <2> QED
    BY <2>4, <2>5, <2>7, <2>8
<1>9. ASSUME NEW p \in Procs, PlaceFails(p) PROVE Inv'
  <2>1. CASE platform = "windows"
    BY <1>9, <2>1 DEF PlaceFails, Temps, Images, Alone, Replacing, Known, Synced
  <2>2. CASE platform # "windows"
    BY <1>9, <2>2, InvGone DEF PlaceFails
  <2> QED
    BY <2>1, <2>2
<1>10. ASSUME NEW p \in Procs, Undo(p) PROVE Inv'
  <2>1. /\ pc[p] = "undo" /\ platform = "windows" /\ Gone(p)
        /\ names' = [target |-> names.old, old |-> None]
        /\ UNCHANGED <<platform, content, settled, daemon>>
    BY <1>10 DEF Undo
  <2>2. names.target = None /\ \A q \in Procs : Replacing(q) => q = p
    BY <2>1 DEF Alone, Replacing
  <2>3. Types' /\ Temps'
    BY <2>1 DEF Temps, Synced, Known, Gone
  <2>4. Sound(names)' /\ Sound(settled)'
    BY <2>1, <2>2 DEF Synced
  <2>5. Images'
    BY <2>1, <2>2 DEF Images, Gone
  <2>6. Alone'
    BY <2>1, <2>2 DEF Alone, Replacing, Gone
  <2> QED
    BY <2>3, <2>4, <2>5, <2>6
<1>11. ASSUME NEW p \in Procs, Cleanup(p) PROVE Inv'
  <2>1. /\ pc[p] = "cleanup" /\ pc' = [pc EXCEPT ![p] = "restart"]
        /\ UNCHANGED <<platform, content, settled, daemon, image, release, force, tmp, moved>>
    BY <1>11 DEF Cleanup
  <2>2. CASE names' = names
    BY <2>1, <2>2 DEF Temps, Images, Alone, Replacing, Known, Synced
  <2>3. CASE ~Held(names.old) /\ names' = [names EXCEPT !.old = None]
    BY <2>1, <2>3, Deletable
  <2> QED
    BY <1>11, <2>2, <2>3 DEF Cleanup
<1>12. ASSUME NEW p \in Procs, Restart(p) PROVE Inv'
  <2>1. /\ Gone(p) /\ UNCHANGED <<platform, content, names, settled>>
        /\ daemon' \in {daemon, names.target}
    BY <1>12 DEF Restart
  <2> QED
    BY <2>1 DEF Temps, Images, Alone, Replacing, Known, Synced, Gone
<1>13. ASSUME NEW p \in Procs, Ends(p) \/ Killed(p) PROVE Inv'
  BY <1>13, InvGone DEF Ends, Killed
<1>14. CASE DaemonStarts \/ DaemonStops
  BY <1>14 DEF DaemonStarts, DaemonStops, Whole, Temps, Images, Alone, Replacing, Known, Synced
<1>15. CASE Settle
  BY <1>15 DEF Settle, Temps, Images, Alone, Replacing, Known, Synced
<1>16. CASE PowerLoss
  <2>1. /\ DOMAIN content' = DOMAIN content
        /\ content' \in [DOMAIN content -> File]
        /\ \A g : Synced(g) => Synced(g)'
    BY <1>16 DEF PowerLoss, File, Synced
  <2>2. /\ names' \in {names, settled} /\ settled' = names'
        /\ UNCHANGED platform /\ daemon' = None
        /\ \A p \in Procs : pc'[p] = "off" /\ image'[p] = None /\ tmp'[p] = None
    BY <1>16 DEF PowerLoss
  <2>3. Types'
    BY <1>16, <2>1 DEF PowerLoss, Known
  <2>4. Sound(names)' /\ Sound(settled)'
    BY <2>1, <2>2
  <2>5. Temps' /\ Images' /\ Alone'
    BY <2>2 DEF Temps, Images, Alone, Replacing
  <2> QED
    BY <2>3, <2>4, <2>5
<1>17. CASE UNCHANGED vars
  BY <1>17 DEF vars, Temps, Images, Alone, Replacing, Known, Synced
<1> QED
  BY <1>1, <1>2, <1>3, <1>4, <1>5, <1>6, <1>7, <1>8, <1>9, <1>10, <1>11, <1>12, <1>13, <1>14,
     <1>15, <1>16, <1>17 DEF Next

-----------------------------------------------------------------------------
(* What follows *)

\* The variables keep their types.
THEOREM TypeCorrect == Spec => []TypeOK
<1>1. Inv => TypeOK
  BY DEF Inv, Types, TypeOK, Sound, Synced, Known, File
<1> QED
  BY <1>1, InvInit, InvStep, PTL DEF Spec

\* Whatever fails, is killed or loses power, a complete binary is left.
THEOREM BinaryIsLeft == Spec => []BinaryLeft
<1>1. Inv => BinaryLeft
  BY DEF Inv, Types, Sound, Synced, Known, BinaryLeft, Whole
<1> QED
  BY <1>1, InvInit, InvStep, PTL DEF Spec

\* Between its two renames an updater on Windows is alone.
THEOREM ReplacingIsAlone == Spec => []ReplacesAlone
<1>1. Inv => ReplacesAlone
  BY DEF Inv, Alone, Replacing, ReplacesAlone
<1> QED
  BY <1>1, InvInit, InvStep, PTL DEF Spec

-----------------------------------------------------------------------------
(* The order of versions *)

HIDE UpdateAssumption

\* A non-empty set of natural numbers has a least one.
LEMMA LeastOf ==
  ASSUME NEW S \in SUBSET Nat, S # {}
  PROVE  \E m \in S : \A k \in S : m <= k
<1> DEFINE R == OpToRel(<, Nat)
<1>1. IsWellFoundedOn(R, Nat)
  BY NatLessThanWellFounded
<1>2. \A x, y \in Nat : x < y => <<x, y>> \in R
  BY Zenon DEF OpToRel
<1> HIDE DEF R
<1>3. PICK m \in S : \A k \in S : ~(<<k, m>> \in R)
  BY <1>1, WFMin
<1>4. ASSUME NEW k \in S PROVE m <= k
  <2>1. m \in Nat /\ k \in Nat /\ ~(k < m)
    BY <1>2, <1>3
  <2> QED
    BY <2>1
<1> QED
  BY <1>4

\* c[1], c[2] ... decides where it is not 0 for the first time.
Decides(c, n, r) ==
  \/ r = 0 /\ \A k \in 1 .. n : c[k] = 0
  \/ \E k \in 1 .. n : c[k] # 0 /\ r = c[k] /\ \A j \in 1 .. k - 1 : c[j] = 0

Scan(c, n, g) ==
  g = [i \in 1 .. n + 1 |-> IF i > n THEN 0 ELSE IF c[i] # 0 THEN c[i] ELSE g[i + 1]]

LEMMA ScanExists ==
  ASSUME NEW n \in Nat, NEW c
  PROVE  \E g : Scan(c, n, g)
<1> DEFINE IsFirst(k, i) == k \in i .. n /\ c[k] # 0 /\ \A j \in i .. k - 1 : c[j] = 0
           C(i) == CHOOSE k : IsFirst(k, i)
           g == [i \in 1 .. n + 1 |-> IF \E k \in i .. n : c[k] # 0 THEN c[C(i)] ELSE 0]
<1>1. ASSUME NEW i \in 1 .. n + 1, \E k \in i .. n : c[k] # 0
      PROVE  \E k : IsFirst(k, i)
  <2> DEFINE S == {k \in i .. n : c[k] # 0}
  <2>1. S \in SUBSET Nat /\ S # {}
    BY <1>1
  <2> HIDE DEF S
  <2>2. PICK k \in S : \A m \in S : k <= m
    BY <2>1, LeastOf
  <2>3. IsFirst(k, i)
    BY <2>2 DEF S
  <2> QED
    BY <2>3
<1>2. ASSUME NEW i \in 1 .. n + 1, NEW k, NEW m, IsFirst(k, i), IsFirst(m, i)
      PROVE  k = m
  BY <1>2
<1>3. ASSUME NEW i \in 1 .. n + 1
      PROVE  g[i] = IF i > n THEN 0 ELSE IF c[i] # 0 THEN c[i] ELSE g[i + 1]
  <2>1. CASE i > n
    BY <2>1
  <2>2. CASE i <= n /\ c[i] # 0
    <3>1. IsFirst(i, i)
      BY <2>2
    <3> HIDE DEF IsFirst
    <3>2. C(i) = i
      BY <1>2, <3>1
    <3> HIDE DEF C
    <3> QED
      BY <2>2, <3>2
  <2>3. CASE i <= n /\ c[i] = 0
    <3>0. i + 1 \in 1 .. n + 1
      BY <2>3
    <3>1. (\E k \in i .. n : c[k] # 0) <=> (\E k \in i + 1 .. n : c[k] # 0)
      BY <2>3
    <3>2. CASE ~ \E k \in i .. n : c[k] # 0
      <4> HIDE DEF C
      <4> QED
        BY <2>3, <3>0, <3>1, <3>2
    <3>3. CASE \E k \in i .. n : c[k] # 0
      <4>1. IsFirst(C(i), i)
        <5>1. \E k : IsFirst(k, i)
          BY <1>1, <3>3
        <5> HIDE DEF IsFirst
        <5> QED
          BY <5>1
      <4>2. IsFirst(C(i + 1), i + 1)
        <5>1. \E k : IsFirst(k, i + 1)
          BY <1>1, <3>0, <3>1, <3>3
        <5> HIDE DEF IsFirst
        <5> QED
          BY <5>1
      <4>3. \A k : IsFirst(k, i + 1) => IsFirst(k, i)
        BY <2>3
      <4> HIDE DEF IsFirst, C
      <4>4. C(i) = C(i + 1)
        BY <1>2, <4>1, <4>2, <4>3
      <4>5. g[i] = c[C(i)] /\ g[i + 1] = c[C(i + 1)]
        BY <3>0, <3>1, <3>3
      <4> QED
        BY <2>3, <4>4, <4>5
    <3> QED
      BY <3>2, <3>3
  <2> QED
    BY <2>1, <2>2, <2>3
<1>4. Scan(c, n, g)
  <2>1. g = [i \in 1 .. n + 1 |-> g[i]]
    OBVIOUS
  <2> HIDE DEF g
  <2> QED
    BY <1>3, <2>1 DEF Scan
<1> QED
  BY <1>4

LEMMA ScanDecides ==
  ASSUME NEW n \in Nat, NEW c, NEW g, Scan(c, n, g)
  PROVE  Decides(c, n, g[1])
<1> DEFINE P(i) == \/ g[i] = g[1] /\ \A j \in 1 .. i - 1 : c[j] = 0
                   \/ Decides(c, n, g[1])
<1>0. \A i \in 1 .. n + 1 : g[i] = IF i > n THEN 0 ELSE IF c[i] # 0 THEN c[i] ELSE g[i + 1]
  BY DEF Scan
<1>1. P(1)
  OBVIOUS
<1>2. ASSUME NEW i \in 1 .. n, P(i) PROVE P(i + 1)
  <2>1. CASE c[i] # 0
    <3>1. g[i] = c[i]
      BY <1>0, <2>1
    <3> QED
      BY <1>2, <2>1, <3>1 DEF Decides
  <2>2. CASE c[i] = 0
    <3>1. g[i + 1] = g[i]
      BY <1>0, <2>2
    <3> QED
      BY <1>2, <2>2, <3>1
  <2> QED
    BY <2>1, <2>2
<1>3. P(n + 1)
  <2> SUFFICES ASSUME ~P(n + 1) PROVE FALSE
    OBVIOUS
  <2> DEFINE S == {i \in 1 .. n + 1 : ~P(i)}
  <2>1. S \in SUBSET Nat /\ n + 1 \in S
    OBVIOUS
  <2>2. \A i \in S : i \in 1 .. n + 1 /\ ~P(i)
    OBVIOUS
  <2>3. \A i \in 1 .. n + 1 : i \notin S => P(i)
    OBVIOUS
  <2> HIDE DEF S, P
  <2>4. PICK i \in S : \A j \in S : i <= j
    BY <2>1, LeastOf
  <2>5. i # 1
    BY <1>1, <2>2
  <2>6. i - 1 \in 1 .. n /\ i - 1 \notin S /\ i = (i - 1) + 1
    BY <2>2, <2>4, <2>5
  <2>7. P(i - 1)
    BY <2>3, <2>6
  <2> QED
    BY <1>2, <2>2, <2>6, <2>7
<1>4. g[n + 1] = 0
  BY <1>0
<1> QED
  BY <1>3, <1>4 DEF Decides

Pos == Nat \ {0}
Signs == {-1, 0, 1}
Identifier == [numeric : BOOLEAN, val : Nat]
AnyVersion == [nums : Seq(Nat), pre : Seq(Identifier)]

\* How two versions compare at each position.
Number(s, i) == IF i <= Len(s) THEN s[i] ELSE 0
NumSigns(a, b) == [i \in Pos |-> Sign(Number(a, i) - Number(b, i))]
PreSigns(a, b) ==
  [i \in Pos |-> IF i > Len(a) /\ i > Len(b) THEN 0
                 ELSE IF i > Len(a) THEN -1
                 ELSE IF i > Len(b) THEN 1
                 ELSE CompareIdent(a[i], b[i])]

\* r is the first sign of c that is not 0.
Leads(c, r) ==
  \/ r = 0 /\ \A k \in Pos : c[k] = 0
  \/ \E k \in Pos : c[k] # 0 /\ r = c[k] /\ \A j \in 1 .. k - 1 : c[j] = 0

\* Signs r of (a, b), s of (b, c) and t of (a, c) are those of an order.
Chained(r, s, t) == (r = 0 => t = s) /\ (s = 0 => t = r) /\ (r = s => t = r)

LEMMA SignType ==
  ASSUME NEW x \in Int
  PROVE  Sign(x) \in {-1, 0, 1} /\ (Sign(x) = 0 <=> x = 0)
BY DEF Sign

LEMMA DecidesLeads ==
  ASSUME NEW n \in Nat, NEW c, NEW r, Decides(c, n, r), \A k \in Pos : k > n => c[k] = 0
  PROVE  Leads(c, r)
<1>1. CASE r = 0 /\ \A k \in 1 .. n : c[k] = 0
  <2>1. \A k \in Pos : k \in 1 .. n \/ k > n
    BY DEF Pos
  <2> QED
    BY <1>1, <2>1 DEF Leads
<1>2. CASE \E k \in 1 .. n : c[k] # 0 /\ r = c[k] /\ \A j \in 1 .. k - 1 : c[j] = 0
  BY <1>2 DEF Leads, Pos
<1> QED
  BY <1>1, <1>2 DEF Decides

LEMMA CompareNumsLeads ==
  ASSUME NEW a \in Seq(Nat), NEW b \in Seq(Nat)
  PROVE  Leads(NumSigns(a, b), CompareNums(a, b))
<1> DEFINE n == Longer(a, b)
           c == NumSigns(a, b)
           F(f) == [i \in 1 .. n + 1 |->
                      IF i > n THEN 0
                      ELSE IF Number(a, i) # Number(b, i) THEN Sign(Number(a, i) - Number(b, i))
                      ELSE f[i + 1]]
           S(f) == [i \in 1 .. n + 1 |-> IF i > n THEN 0 ELSE IF c[i] # 0 THEN c[i] ELSE f[i + 1]]
           from == CHOOSE f : f = F(f)
<1>1. n \in Nat
  BY DEF Longer
<1>2. CompareNums(a, b) = from[1]
  BY DEF CompareNums, Number
<1>3. \A i \in 1 .. n : /\ c[i] = Sign(Number(a, i) - Number(b, i))
                        /\ c[i] # 0 <=> Number(a, i) # Number(b, i)
  <2> HIDE DEF n
  <2> SUFFICES ASSUME NEW i \in 1 .. n
               PROVE  /\ c[i] = Sign(Number(a, i) - Number(b, i))
                      /\ c[i] # 0 <=> Number(a, i) # Number(b, i)
    OBVIOUS
  <2>1. Number(a, i) \in Nat /\ Number(b, i) \in Nat
    BY <1>1 DEF Number
  <2>2. c[i] = Sign(Number(a, i) - Number(b, i))
    BY <1>1 DEF NumSigns, n, Pos
  <2> QED
    BY <2>1, <2>2, SignType
<1>3a. \A k \in Pos : k > n => c[k] = 0
  BY DEF NumSigns, Number, Longer, Sign, Pos
<1> HIDE DEF n, c
<1>4. ASSUME NEW f PROVE F(f) = S(f)
  BY <1>1, <1>3
<1> HIDE DEF F
<1>5. \E f : f = F(f)
  <2>1. PICK g : Scan(c, n, g)
    BY <1>1, ScanExists
  <2>2. g = S(g)
    BY <2>1 DEF Scan
  <2> HIDE DEF S
  <2> QED
    BY <1>4, <2>2
<1>6. from = F(from)
  BY <1>5
<1>7. Scan(c, n, from)
  BY <1>4, <1>6 DEF Scan
<1> HIDE DEF from
<1> QED
  BY <1>1, <1>2, <1>3a, <1>7, ScanDecides, DecidesLeads DEF n, c

LEMMA ComparePreLeads ==
  ASSUME NEW a \in Seq(Identifier), NEW b \in Seq(Identifier)
  PROVE  Leads(PreSigns(a, b), ComparePre(a, b))
<1> DEFINE n == Longer(a, b)
           c == PreSigns(a, b)
           F(f) == [i \in 1 .. n + 1 |->
                      CASE i > n                -> 0
                        [] i <= n /\ i > Len(a) -> -1
                        [] i <= n /\ i > Len(b) -> 1
                        [] OTHER -> LET d == CompareIdent(a[i], b[i])
                                    IN  IF d # 0 THEN d ELSE f[i + 1]]
           S(f) == [i \in 1 .. n + 1 |-> IF i > n THEN 0 ELSE IF c[i] # 0 THEN c[i] ELSE f[i + 1]]
           from == CHOOSE f : f = F(f)
<1>1. n \in Nat
  BY DEF Longer
<1>2. ComparePre(a, b) = from[1]
  BY DEF ComparePre
<1>3. \A i \in 1 .. n : c[i] = IF i > Len(a) THEN -1
                               ELSE IF i > Len(b) THEN 1
                               ELSE CompareIdent(a[i], b[i])
  BY DEF PreSigns, Longer, Pos
<1>4. n >= Len(a) /\ n >= Len(b) /\ (n = Len(a) \/ n = Len(b)) /\ Len(a) \in Nat /\ Len(b) \in Nat
  BY DEF Longer
<1>4a. \A k \in Pos : k > n => c[k] = 0
  BY DEF PreSigns, Longer, Pos
<1> HIDE DEF n, c
<1>5. ASSUME NEW f PROVE F(f) = S(f)
  <2> SUFFICES ASSUME NEW i \in 1 .. n + 1
               PROVE  F(f)[i] = IF i > n THEN 0 ELSE IF c[i] # 0 THEN c[i] ELSE f[i + 1]
    OBVIOUS
  <2> QED
    BY <1>1, <1>3, <1>4
<1> HIDE DEF F
<1>6. \E f : f = F(f)
  <2>1. PICK g : Scan(c, n, g)
    BY <1>1, ScanExists
  <2>2. g = S(g)
    BY <2>1 DEF Scan
  <2> HIDE DEF S
  <2> QED
    BY <1>5, <2>2
<1>7. from = F(from)
  BY <1>6
<1>8. Scan(c, n, from)
  BY <1>5, <1>7 DEF Scan
<1> HIDE DEF from
<1> QED
  BY <1>1, <1>2, <1>4a, <1>8, ScanDecides, DecidesLeads DEF n, c

LEMMA LeadsUnique ==
  ASSUME NEW c, NEW r, NEW s, Leads(c, r), Leads(c, s)
  PROVE  r = s
<1>1. ASSUME NEW k \in Pos, NEW m \in Pos, c[k] # 0, c[m] # 0,
             \A j \in 1 .. k - 1 : c[j] = 0, \A j \in 1 .. m - 1 : c[j] = 0
      PROVE  k = m
  BY <1>1 DEF Pos
<1> QED
  BY <1>1 DEF Leads

\* The signs of three versions, two by two: what holds at every position holds
\* of the first one that is not 0.
LEMMA LeadsChained ==
  ASSUME NEW x, NEW y, NEW z, NEW r, NEW s, NEW t,
         \A i \in Pos : Chained(x[i], y[i], z[i]),
         Leads(x, r), Leads(y, s), Leads(z, t)
  PROVE  Chained(r, s, t)
<1>1. CASE \A k \in Pos : x[k] = 0
  <2>1. \A k \in Pos : z[k] = y[k]
    BY <1>1 DEF Chained
  <2>2. \A k \in Pos : \A j \in 1 .. k - 1 : j \in Pos
    BY DEF Pos
  <2>3. Leads(z, s) /\ r = 0
    BY <1>1, <2>1, <2>2 DEF Leads
  <2>4. t = s
    BY <2>3, LeadsUnique
  <2> QED
    BY <2>3, <2>4 DEF Chained
<1>2. CASE \A k \in Pos : y[k] = 0
  <2>1. \A k \in Pos : z[k] = x[k]
    BY <1>2 DEF Chained
  <2>2. \A k \in Pos : \A j \in 1 .. k - 1 : j \in Pos
    BY DEF Pos
  <2>3. Leads(z, r) /\ s = 0
    BY <1>2, <2>1, <2>2 DEF Leads
  <2>4. t = r
    BY <2>3, LeadsUnique
  <2> QED
    BY <2>3, <2>4 DEF Chained
<1>3. ASSUME NEW k \in Pos, NEW m \in Pos,
             x[k] # 0, r = x[k], \A j \in 1 .. k - 1 : x[j] = 0,
             y[m] # 0, s = y[m], \A j \in 1 .. m - 1 : y[j] = 0
      PROVE  Chained(r, s, t)
  <2> SUFFICES ASSUME r = s PROVE t = r
    BY <1>3 DEF Chained
  <2>1. \A j \in 1 .. k - 1 : j \in Pos
    BY DEF Pos
  <2>2. \A j \in 1 .. m - 1 : j \in Pos
    BY DEF Pos
  <2>3. CASE k < m
    <3>1. z[k] = x[k]
      BY <1>3, <2>3 DEF Chained, Pos
    <3>2. \A j \in 1 .. k - 1 : z[j] = 0
      BY <1>3, <2>1, <2>3 DEF Chained, Pos
    <3>3. Leads(z, r)
      BY <1>3, <3>1, <3>2 DEF Leads
    <3> QED
      BY <3>3, LeadsUnique
  <2>4. CASE m < k
    <3>1. z[m] = y[m]
      BY <1>3, <2>4 DEF Chained, Pos
    <3>2. \A j \in 1 .. m - 1 : z[j] = 0
      BY <1>3, <2>2, <2>4 DEF Chained, Pos
    <3>3. Leads(z, r)
      BY <1>3, <3>1, <3>2 DEF Leads
    <3> QED
      BY <3>3, LeadsUnique
  <2>5. CASE k = m
    <3>1. z[k] = x[k]
      BY <1>3, <2>5 DEF Chained
    <3>2. \A j \in 1 .. k - 1 : z[j] = 0
      BY <1>3, <2>1, <2>5 DEF Chained
    <3>3. Leads(z, r)
      BY <1>3, <3>1, <3>2 DEF Leads
    <3> QED
      BY <3>3, LeadsUnique
  <2> QED
    BY <2>3, <2>4, <2>5 DEF Pos
<1> QED
  BY <1>1, <1>2, <1>3 DEF Leads

LEMMA LeadsOpposite ==
  ASSUME NEW x, NEW y, NEW r, NEW s, \A i \in Pos : x[i] \in Signs /\ y[i] = -x[i],
         Leads(x, r), Leads(y, s)
  PROVE  r \in Signs /\ s = -r
<1>1. \A i \in Pos : y[i] = 0 <=> x[i] = 0
  BY DEF Signs
<1>2. \A k \in Pos : \A j \in 1 .. k - 1 : j \in Pos
  BY DEF Pos
<1>3. Leads(y, -r) /\ r \in Signs
  BY <1>1, <1>2 DEF Leads, Signs
<1> QED
  BY <1>3, LeadsUnique

LEMMA IdentCases ==
  ASSUME NEW x \in Identifier, NEW y \in Identifier
  PROVE  CompareIdent(x, y) = IF x.numeric THEN IF y.numeric THEN Sign(x.val - y.val) ELSE -1
                              ELSE IF y.numeric THEN 1 ELSE Sign(x.val - y.val)
<1>1. x.numeric \in BOOLEAN /\ y.numeric \in BOOLEAN
  BY DEF Identifier
<1> QED
  BY <1>1 DEF CompareIdent

LEMMA IdentOrder ==
  ASSUME NEW a \in Identifier, NEW b \in Identifier, NEW c \in Identifier
  PROVE  /\ CompareIdent(a, b) \in Signs
         /\ CompareIdent(b, a) = -CompareIdent(a, b)
         /\ Chained(CompareIdent(a, b), CompareIdent(b, c), CompareIdent(a, c))
<1>1. /\ a.val \in Nat /\ b.val \in Nat /\ c.val \in Nat
      /\ a.numeric \in BOOLEAN /\ b.numeric \in BOOLEAN /\ c.numeric \in BOOLEAN
  BY DEF Identifier
<1>2. ASSUME NEW x \in Nat, NEW y \in Nat, NEW z \in Nat
      PROVE  /\ Sign(x - y) \in Signs /\ Sign(y - x) = -Sign(x - y)
             /\ Chained(Sign(x - y), Sign(y - z), Sign(x - z))
  BY DEF Sign, Signs, Chained
<1>3. ASSUME NEW x \in Identifier, NEW y \in Identifier
      PROVE  CompareIdent(x, y) = IF x.numeric THEN IF y.numeric THEN Sign(x.val - y.val) ELSE -1
                                  ELSE IF y.numeric THEN 1 ELSE Sign(x.val - y.val)
  BY IdentCases
<1>4. CompareIdent(a, b) \in Signs /\ CompareIdent(b, a) = -CompareIdent(a, b)
  <2> DEFINE AB == Sign(a.val - b.val)
             BA == Sign(b.val - a.val)
  <2>1. AB \in Signs /\ BA = -AB
    BY <1>1, <1>2
  <2>2. /\ CompareIdent(a, b) = IF a.numeric THEN IF b.numeric THEN AB ELSE -1
                                ELSE IF b.numeric THEN 1 ELSE AB
        /\ CompareIdent(b, a) = IF b.numeric THEN IF a.numeric THEN BA ELSE -1
                                ELSE IF a.numeric THEN 1 ELSE BA
    BY <1>3
  <2> HIDE DEF AB, BA
  <2> QED
    BY <2>1, <2>2 DEF Signs
<1>5. Chained(CompareIdent(a, b), CompareIdent(b, c), CompareIdent(a, c))
  <2> DEFINE AB == Sign(a.val - b.val)
             BC == Sign(b.val - c.val)
             AC == Sign(a.val - c.val)
  <2>1. Chained(AB, BC, AC) /\ AB \in Signs /\ BC \in Signs /\ AC \in Signs
    BY <1>1, <1>2
  <2>2. /\ CompareIdent(a, b) = IF a.numeric THEN IF b.numeric THEN AB ELSE -1
                                ELSE IF b.numeric THEN 1 ELSE AB
        /\ CompareIdent(b, c) = IF b.numeric THEN IF c.numeric THEN BC ELSE -1
                                ELSE IF c.numeric THEN 1 ELSE BC
        /\ CompareIdent(a, c) = IF a.numeric THEN IF c.numeric THEN AC ELSE -1
                                ELSE IF c.numeric THEN 1 ELSE AC
    BY <1>3
  <2> HIDE DEF AB, BC, AC
  <2> QED
    BY <2>1, <2>2 DEF Chained, Signs
<1> QED
  BY <1>4, <1>5

LEMMA NumsOrder ==
  ASSUME NEW a \in Seq(Nat), NEW b \in Seq(Nat), NEW c \in Seq(Nat)
  PROVE  /\ CompareNums(a, b) \in Signs
         /\ CompareNums(b, a) = -CompareNums(a, b)
         /\ Chained(CompareNums(a, b), CompareNums(b, c), CompareNums(a, c))
<1>1. \A i \in Pos : Number(a, i) \in Nat /\ Number(b, i) \in Nat /\ Number(c, i) \in Nat
  BY DEF Number, Pos
<1>2. ASSUME NEW x \in Nat, NEW y \in Nat, NEW z \in Nat
      PROVE  /\ Sign(x - y) \in Signs /\ Sign(y - x) = -Sign(x - y)
             /\ Chained(Sign(x - y), Sign(y - z), Sign(x - z))
  BY DEF Sign, Signs, Chained
<1>3. \A i \in Pos : /\ NumSigns(a, b)[i] = Sign(Number(a, i) - Number(b, i))
                     /\ NumSigns(b, a)[i] = Sign(Number(b, i) - Number(a, i))
                     /\ NumSigns(b, c)[i] = Sign(Number(b, i) - Number(c, i))
                     /\ NumSigns(a, c)[i] = Sign(Number(a, i) - Number(c, i))
  BY DEF NumSigns
<1>4. \A i \in Pos : NumSigns(a, b)[i] \in Signs /\ NumSigns(b, a)[i] = -NumSigns(a, b)[i]
  BY <1>1, <1>2, <1>3
<1>5. \A i \in Pos : Chained(NumSigns(a, b)[i], NumSigns(b, c)[i], NumSigns(a, c)[i])
  BY <1>1, <1>2, <1>3
<1> QED
  BY <1>4, <1>5, CompareNumsLeads, LeadsOpposite, LeadsChained

LEMMA PreOrder ==
  ASSUME NEW a \in Seq(Identifier), NEW b \in Seq(Identifier), NEW c \in Seq(Identifier)
  PROVE  /\ ComparePre(a, b) \in Signs
         /\ ComparePre(b, a) = -ComparePre(a, b)
         /\ Chained(ComparePre(a, b), ComparePre(b, c), ComparePre(a, c))
<1> DEFINE At(x, y, i) == IF i > Len(x) /\ i > Len(y) THEN 0
                          ELSE IF i > Len(x) THEN -1
                          ELSE IF i > Len(y) THEN 1
                          ELSE CompareIdent(x[i], y[i])
<1>1. ASSUME NEW i \in Pos
      PROVE  /\ PreSigns(a, b)[i] = At(a, b, i) /\ PreSigns(b, a)[i] = At(b, a, i)
             /\ PreSigns(b, c)[i] = At(b, c, i) /\ PreSigns(a, c)[i] = At(a, c, i)
  BY DEF PreSigns
<1>2. ASSUME NEW x \in Seq(Identifier), NEW i \in Pos, ~(i > Len(x)) PROVE x[i] \in Identifier
  BY <1>2 DEF Pos
<1>3. ASSUME NEW i \in Pos PROVE At(a, b, i) \in Signs /\ At(b, a, i) = -At(a, b, i)
  <2>1. CASE ~(i > Len(a)) /\ ~(i > Len(b))
    BY <1>2, <2>1, IdentOrder
  <2>2. CASE i > Len(a) \/ i > Len(b)
    BY <2>2 DEF Signs
  <2> QED
    BY <2>1, <2>2
<1>4. ASSUME NEW i \in Pos PROVE Chained(At(a, b, i), At(b, c, i), At(a, c, i))
  <2> DEFINE AB == CompareIdent(a[i], b[i])
             BC == CompareIdent(b[i], c[i])
             AC == CompareIdent(a[i], c[i])
  <2>1. CASE ~(i > Len(a)) /\ ~(i > Len(b)) /\ ~(i > Len(c))
    BY <1>2, <2>1, IdentOrder
  <2>2. ASSUME ~(i > Len(a)), ~(i > Len(b)) PROVE AB \in Signs
    BY <1>2, <2>2, IdentOrder
  <2>3. ASSUME ~(i > Len(b)), ~(i > Len(c)) PROVE BC \in Signs
    BY <1>2, <2>3, IdentOrder
  <2>4. ASSUME ~(i > Len(a)), ~(i > Len(c)) PROVE AC \in Signs
    BY <1>2, <2>4, IdentOrder
  <2>5. CASE i > Len(a) \/ i > Len(b) \/ i > Len(c)
    <3> DEFINE A == i > Len(a)
               B == i > Len(b)
               C == i > Len(c)
    <3>1. /\ At(a, b, i) = IF A /\ B THEN 0 ELSE IF A THEN -1 ELSE IF B THEN 1 ELSE AB
          /\ At(b, c, i) = IF B /\ C THEN 0 ELSE IF B THEN -1 ELSE IF C THEN 1 ELSE BC
          /\ At(a, c, i) = IF A /\ C THEN 0 ELSE IF A THEN -1 ELSE IF C THEN 1 ELSE AC
      OBVIOUS
    <3> HIDE DEF At, AB, BC, AC
    <3>2. /\ ~A /\ ~B => AB \in Signs
          /\ ~B /\ ~C => BC \in Signs
          /\ ~A /\ ~C => AC \in Signs
          /\ A \/ B \/ C
      BY <2>2, <2>3, <2>4, <2>5
    <3> HIDE DEF A, B, C
    <3>3. CASE A /\ B
      BY <3>1, <3>3 DEF Chained
    <3>6. CASE A /\ ~B
      <4>1. At(a, b, i) = -1 /\ At(a, c, i) \in {0, -1} /\ (C => At(b, c, i) = 1)
            /\ (~C => At(a, c, i) = -1)
        BY <3>1, <3>6
      <4> QED
        BY <4>1 DEF Chained
    <3>4. CASE ~A /\ B
      BY <3>1, <3>2, <3>4 DEF Signs, Chained
    <3>5. CASE ~A /\ ~B /\ C
      BY <3>1, <3>2, <3>5 DEF Signs, Chained
    <3> QED
      BY <3>2, <3>3, <3>4, <3>5, <3>6
  <2> QED
    BY <2>1, <2>5
<1> HIDE DEF At
<1>5. \A i \in Pos : PreSigns(a, b)[i] \in Signs /\ PreSigns(b, a)[i] = -PreSigns(a, b)[i]
  BY <1>1, <1>3
<1>6. \A i \in Pos : Chained(PreSigns(a, b)[i], PreSigns(b, c)[i], PreSigns(a, c)[i])
  BY <1>1, <1>4
<1> QED
  BY <1>5, <1>6, ComparePreLeads, LeadsOpposite, LeadsChained

\* The comparison that decides on updates is a linear order, but that versions
\* which differ in trailing zeros are equal, for versions of any length.
THEOREM VersionsOrdered ==
  ASSUME NEW a \in AnyVersion, NEW b \in AnyVersion, NEW c \in AnyVersion
  PROVE  /\ CompareSemver(a, b) \in Signs
         /\ CompareSemver(b, a) = -CompareSemver(a, b)
         /\ Chained(CompareSemver(a, b), CompareSemver(b, c), CompareSemver(a, c))
<1> DEFINE Stage(x, y) == IF x.pre = <<>> /\ y.pre = <<>> THEN 0
                          ELSE IF x.pre = <<>> THEN 1
                          ELSE IF y.pre = <<>> THEN -1
                          ELSE ComparePre(x.pre, y.pre)
           N(x, y) == CompareNums(x.nums, y.nums)
<1>1. ASSUME NEW x, NEW y
      PROVE  CompareSemver(x, y) = IF N(x, y) # 0 THEN N(x, y) ELSE Stage(x, y)
  BY DEF CompareSemver
<1>2. /\ N(a, b) \in Signs /\ N(b, a) = -N(a, b)
      /\ Chained(N(a, b), N(b, c), N(a, c))
  BY NumsOrder DEF AnyVersion
<1>3. /\ Stage(a, b) \in Signs /\ Stage(b, a) = -Stage(a, b)
      /\ Chained(Stage(a, b), Stage(b, c), Stage(a, c))
  <2> DEFINE P(x, y) == ComparePre(x.pre, y.pre)
  <2>1. /\ P(a, b) \in Signs /\ P(b, a) = -P(a, b) /\ Chained(P(a, b), P(b, c), P(a, c))
        /\ P(b, c) \in Signs /\ P(a, c) \in Signs
    BY PreOrder DEF AnyVersion
  <2> HIDE DEF P
  <2>2. ASSUME NEW x, NEW y
        PROVE  Stage(x, y) = IF x.pre = <<>> /\ y.pre = <<>> THEN 0
                             ELSE IF x.pre = <<>> THEN 1
                             ELSE IF y.pre = <<>> THEN -1 ELSE P(x, y)
    BY DEF P
  <2> HIDE DEF Stage
  <2> QED
    BY <2>1, <2>2 DEF Signs, Chained
<1> HIDE DEF N, Stage
<1> QED
  BY <1>1, <1>2, <1>3 DEF Signs, Chained

\* No version is newer than itself, and newer than newer is newer: updates that
\* are not forced never come back to a version.
THEOREM NewerIsOrder ==
  ASSUME NEW a \in AnyVersion, NEW b \in AnyVersion, NEW c \in AnyVersion
  PROVE  /\ ~Newer(a, a)
         /\ Newer(a, b) => ~Newer(b, a)
         /\ Newer(a, b) /\ Newer(b, c) => Newer(a, c)
<1>1. CompareSemver(a, a) = 0
  BY VersionsOrdered DEF Signs
<1>2. CompareSemver(a, b) < 0 => ~(CompareSemver(b, a) < 0)
  BY VersionsOrdered DEF Signs
<1>3. CompareSemver(a, b) < 0 /\ CompareSemver(b, c) < 0 => CompareSemver(a, c) < 0
  BY VersionsOrdered DEF Signs, Chained
<1> QED
  BY <1>1, <1>2, <1>3 DEF Newer, Comparable

\* The versions Weight is made for.
SmallVersions ==
  {v \in AnyVersion :
     /\ Len(v.nums) <= 3 /\ \A i \in 1 .. Len(v.nums) : v.nums[i] < 9
     /\ Len(v.pre) <= 2 /\ \A i \in 1 .. Len(v.pre) : v.pre[i].val < 3}

Rank(p, i) == IF i > Len(p) THEN 0 ELSE IF p[i].numeric THEN 1 + p[i].val ELSE 4 + p[i].val

LEMMA NumberBounds ==
  ASSUME NEW s \in Seq(Nat), Len(s) <= 3, \A i \in 1 .. Len(s) : s[i] < 9
  PROVE  Number(s, 1) \in 0 .. 8 /\ Number(s, 2) \in 0 .. 8 /\ Number(s, 3) \in 0 .. 8
<1>1. ASSUME NEW i \in Pos PROVE Number(s, i) \in 0 .. 8
  <2>1. CASE i <= Len(s)
    <3>1. i \in 1 .. Len(s)
      BY <2>1 DEF Pos
    <3>2. s[i] \in Nat /\ s[i] < 9
      BY <3>1
    <3> QED
      BY <2>1, <3>2 DEF Number
  <2>2. CASE ~(i <= Len(s))
    BY <2>2 DEF Number
  <2> QED
    BY <2>1, <2>2
<1>2. 1 \in Pos /\ 2 \in Pos /\ 3 \in Pos
  BY DEF Pos
<1> QED
  BY <1>1, <1>2

\* The result is the sign of the first digits that differ.
FirstOfThree(r, x1, x2, x3, y1, y2, y3) ==
  \/ r = 0 /\ x1 = y1 /\ x2 = y2 /\ x3 = y3
  \/ r = Sign(x1 - y1) /\ x1 # y1
  \/ r = Sign(x2 - y2) /\ x2 # y2 /\ x1 = y1
  \/ r = Sign(x3 - y3) /\ x3 # y3 /\ x1 = y1 /\ x2 = y2

FirstOfTwo(r, x1, x2, y1, y2) ==
  \/ r = 0 /\ x1 = y1 /\ x2 = y2
  \/ r = Sign(x1 - y1) /\ x1 # y1
  \/ r = Sign(x2 - y2) /\ x2 # y2 /\ x1 = y1

LEMMA TwoDigits ==
  ASSUME NEW x1 \in 0 .. 6, NEW x2 \in 0 .. 6, NEW y1 \in 0 .. 6, NEW y2 \in 0 .. 6, NEW r,
         FirstOfTwo(r, x1, x2, y1, y2)
  PROVE  r = Sign((x1 * 10 + x2) - (y1 * 10 + y2))
BY DEF Sign, FirstOfTwo

\* Equal digits are those whose difference has no sign.
LEMMA SameDigit ==
  ASSUME NEW x \in 0 .. 8, NEW y \in 0 .. 8, NEW c, c = Sign(x - y)
  PROVE  c = 0 <=> x = y
BY DEF Sign

LEMMA RankBounds ==
  ASSUME NEW p \in Seq(Identifier), NEW i \in Pos, Len(p) <= 2,
         \A j \in 1 .. Len(p) : p[j].val < 3
  PROVE  /\ ~(i > Len(p)) =>
              p[i] \in Identifier /\ p[i].val \in 0 .. 2 /\ Rank(p, i) \in 1 .. 6
         /\ i > Len(p) => Rank(p, i) = 0
<1>1. ~(i > Len(p)) => p[i] \in Identifier /\ p[i].val < 3
  BY DEF Pos
<1>2. ~(i > Len(p)) => p[i].numeric \in BOOLEAN /\ p[i].val \in 0 .. 2
  BY <1>1 DEF Identifier
<1> QED
  BY <1>1, <1>2 DEF Rank

LEMMA NumsWeigh ==
  ASSUME NEW a \in Seq(Nat), NEW b \in Seq(Nat), Len(a) <= 3, Len(b) <= 3,
         \A i \in 1 .. Len(a) : a[i] < 9, \A i \in 1 .. Len(b) : b[i] < 9
  PROVE  LET w(s) == (Number(s, 1) * 10 + Number(s, 2)) * 10 + Number(s, 3)
         IN  CompareNums(a, b) = Sign(w(a) - w(b))
<1> DEFINE c == NumSigns(a, b)
           r == CompareNums(a, b)
           x(i) == Number(a, i)
           y(i) == Number(b, i)
<1>1. /\ x(1) \in 0 .. 8 /\ x(2) \in 0 .. 8 /\ x(3) \in 0 .. 8
      /\ y(1) \in 0 .. 8 /\ y(2) \in 0 .. 8 /\ y(3) \in 0 .. 8
  BY NumberBounds
<1>2. \A i \in Pos : /\ c[i] = Sign(x(i) - y(i))
                     /\ i > 3 => x(i) = 0 /\ y(i) = 0
  BY DEF NumSigns, Number, Pos
<1>3. Leads(c, r)
  BY CompareNumsLeads
<1> HIDE DEF c, r, x, y
<1>4. \A i \in Pos : i > 3 => c[i] = 0
  BY <1>2 DEF Sign
<1>5. /\ 1 \in Pos /\ 2 \in Pos /\ 3 \in Pos
      /\ c[1] = Sign(x(1) - y(1)) /\ c[2] = Sign(x(2) - y(2)) /\ c[3] = Sign(x(3) - y(3))
  BY <1>2 DEF Pos
<1>6. \/ r = 0 /\ c[1] = 0 /\ c[2] = 0 /\ c[3] = 0
      \/ r = c[1] /\ c[1] # 0
      \/ r = c[2] /\ c[2] # 0 /\ c[1] = 0
      \/ r = c[3] /\ c[3] # 0 /\ c[1] = 0 /\ c[2] = 0
  <2>1. ASSUME NEW k \in Pos, c[k] # 0 PROVE k = 1 \/ k = 2 \/ k = 3
    BY <1>4, <2>1 DEF Pos
  <2>2. CASE r = 0 /\ \A k \in Pos : c[k] = 0
    BY <1>5, <2>2
  <2>3. ASSUME NEW k \in Pos, c[k] # 0, r = c[k], \A j \in 1 .. k - 1 : c[j] = 0
        PROVE  <1>6
    BY <2>1, <2>3
  <2> QED
    BY <1>3, <2>2, <2>3 DEF Leads
<1>7. /\ c[1] = 0 <=> x(1) = y(1)
      /\ c[2] = 0 <=> x(2) = y(2)
      /\ c[3] = 0 <=> x(3) = y(3)
  <2>1. c[1] = 0 <=> x(1) = y(1)
    BY <1>1, <1>5, SameDigit
  <2>2. c[2] = 0 <=> x(2) = y(2)
    BY <1>1, <1>5, SameDigit
  <2>3. c[3] = 0 <=> x(3) = y(3)
    BY <1>1, <1>5, SameDigit
  <2> QED
    BY <2>1, <2>2, <2>3
<1>8. FirstOfThree(r, x(1), x(2), x(3), y(1), y(2), y(3))
  BY <1>5, <1>6, <1>7 DEF FirstOfThree
<1>9. r = Sign(((x(1) * 10 + x(2)) * 10 + x(3)) - ((y(1) * 10 + y(2)) * 10 + y(3)))
  <2>1. PICK x1 \in 0 .. 8, x2 \in 0 .. 8, x3 \in 0 .. 8,
             y1 \in 0 .. 8, y2 \in 0 .. 8, y3 \in 0 .. 8 :
               x1 = x(1) /\ x2 = x(2) /\ x3 = x(3) /\ y1 = y(1) /\ y2 = y(2) /\ y3 = y(3)
    BY <1>1
  <2>2. FirstOfThree(r, x1, x2, x3, y1, y2, y3)
    BY <1>8, <2>1
  <2>3. r = Sign(((x1 * 10 + x2) * 10 + x3) - ((y1 * 10 + y2) * 10 + y3))
    BY <2>2 DEF Sign, FirstOfThree
  <2> QED
    BY <2>1, <2>3
<1> QED
  BY <1>9 DEF x, y, r

LEMMA PreWeighs ==
  ASSUME NEW a \in Seq(Identifier), NEW b \in Seq(Identifier), Len(a) <= 2, Len(b) <= 2,
         \A i \in 1 .. Len(a) : a[i].val < 3, \A i \in 1 .. Len(b) : b[i].val < 3
  PROVE  LET w(p) == Rank(p, 1) * 10 + Rank(p, 2)
         IN  ComparePre(a, b) = Sign(w(a) - w(b))
<1> DEFINE c == PreSigns(a, b)
           r == ComparePre(a, b)
           x(i) == Rank(a, i)
           y(i) == Rank(b, i)
<1>1. ASSUME NEW i \in Pos
      PROVE  /\ ~(i > Len(a)) => a[i] \in Identifier /\ a[i].val \in 0 .. 2 /\ x(i) \in 1 .. 6
             /\ ~(i > Len(b)) => b[i] \in Identifier /\ b[i].val \in 0 .. 2 /\ y(i) \in 1 .. 6
             /\ i > Len(a) => x(i) = 0
             /\ i > Len(b) => y(i) = 0
  BY RankBounds
<1>2. ASSUME NEW i \in Pos PROVE c[i] = Sign(x(i) - y(i))
  <2>0. c[i] = IF i > Len(a) /\ i > Len(b) THEN 0
               ELSE IF i > Len(a) THEN -1 ELSE IF i > Len(b) THEN 1
               ELSE CompareIdent(a[i], b[i])
    BY DEF PreSigns
  <2>1. CASE i > Len(a) \/ i > Len(b)
    BY <1>1, <2>0, <2>1 DEF Sign
  <2>2. CASE ~(i > Len(a)) /\ ~(i > Len(b))
    <3>1. /\ a[i] \in Identifier /\ a[i].val \in 0 .. 2
          /\ b[i] \in Identifier /\ b[i].val \in 0 .. 2
      BY <1>1, <2>2
    <3>2. c[i] = IF a[i].numeric THEN IF b[i].numeric THEN Sign(a[i].val - b[i].val) ELSE -1
                 ELSE IF b[i].numeric THEN 1 ELSE Sign(a[i].val - b[i].val)
      BY <2>0, <2>2, <3>1, IdentCases
    <3>3. /\ x(i) = IF a[i].numeric THEN 1 + a[i].val ELSE 4 + a[i].val
          /\ y(i) = IF b[i].numeric THEN 1 + b[i].val ELSE 4 + b[i].val
      BY <2>2 DEF Rank
    <3> DEFINE p == a[i].val
               q == b[i].val
               P == a[i].numeric
               Q == b[i].numeric
    <3>4. /\ p \in 0 .. 2 /\ q \in 0 .. 2
          /\ c[i] = IF P THEN IF Q THEN Sign(p - q) ELSE -1 ELSE IF Q THEN 1 ELSE Sign(p - q)
          /\ x(i) = IF P THEN 1 + p ELSE 4 + p
          /\ y(i) = IF Q THEN 1 + q ELSE 4 + q
      BY <3>1, <3>2, <3>3
    <3> HIDE DEF c, x, y, p, q, P, Q
    <3>5. CASE P /\ Q
      BY <3>4, <3>5 DEF Sign
    <3>6. CASE P /\ ~Q
      BY <3>4, <3>6 DEF Sign
    <3>7. CASE ~P /\ Q
      BY <3>4, <3>7 DEF Sign
    <3>8. CASE ~P /\ ~Q
      BY <3>4, <3>8 DEF Sign
    <3> QED
      BY <3>5, <3>6, <3>7, <3>8
  <2> QED
    BY <2>1, <2>2
<1>3. Leads(c, r)
  BY ComparePreLeads
<1>4. /\ 1 \in Pos /\ 2 \in Pos /\ \A i \in Pos : i > 2 => c[i] = 0
  BY DEF Pos, PreSigns
<1>5. /\ x(1) \in 0 .. 6 /\ x(2) \in 0 .. 6 /\ y(1) \in 0 .. 6 /\ y(2) \in 0 .. 6
  BY <1>1, <1>4
<1> HIDE DEF c, r, x, y
<1>6. \/ r = 0 /\ c[1] = 0 /\ c[2] = 0
      \/ r = c[1] /\ c[1] # 0
      \/ r = c[2] /\ c[2] # 0 /\ c[1] = 0
  <2>1. ASSUME NEW k \in Pos, c[k] # 0 PROVE k = 1 \/ k = 2
    BY <1>4, <2>1 DEF Pos
  <2>2. CASE r = 0 /\ \A k \in Pos : c[k] = 0
    BY <1>4, <2>2
  <2>3. ASSUME NEW k \in Pos, c[k] # 0, r = c[k], \A j \in 1 .. k - 1 : c[j] = 0
        PROVE  <1>6
    BY <2>1, <2>3
  <2> QED
    BY <1>3, <2>2, <2>3 DEF Leads
<1>7. c[1] = Sign(x(1) - y(1)) /\ c[2] = Sign(x(2) - y(2))
  BY <1>2, <1>4
<1>8. (c[1] = 0 <=> x(1) = y(1)) /\ (c[2] = 0 <=> x(2) = y(2))
  <2>0. /\ x(1) \in 0 .. 8 /\ x(2) \in 0 .. 8 /\ y(1) \in 0 .. 8 /\ y(2) \in 0 .. 8
    BY <1>5
  <2>1. c[1] = 0 <=> x(1) = y(1)
    BY <2>0, <1>7, SameDigit
  <2>2. c[2] = 0 <=> x(2) = y(2)
    BY <2>0, <1>7, SameDigit
  <2> QED
    BY <2>1, <2>2
<1>9. FirstOfTwo(r, x(1), x(2), y(1), y(2))
  BY <1>6, <1>7, <1>8 DEF FirstOfTwo
<1>10. r = Sign((x(1) * 10 + x(2)) - (y(1) * 10 + y(2)))
  BY <1>5, <1>9, TwoDigits
<1> QED
  BY <1>10 DEF x, y, r

Core(v) == (Number(v.nums, 1) * 10 + Number(v.nums, 2)) * 10 + Number(v.nums, 3)
Suffix(v) == IF v.pre = <<>> THEN 99 ELSE Rank(v.pre, 1) * 10 + Rank(v.pre, 2)

LEMMA WeightParts ==
  ASSUME NEW v \in SmallVersions
  PROVE  /\ Core(v) \in 0 .. 888 /\ Suffix(v) \in 0 .. 99
         /\ v.pre = <<>> <=> Suffix(v) = 99
         /\ Weight(v) = Core(v) * 100 + Suffix(v)
<1> DEFINE n1 == Number(v.nums, 1)
           n2 == Number(v.nums, 2)
           n3 == Number(v.nums, 3)
           i1 == IF v.pre = <<>> THEN 9 ELSE Rank(v.pre, 1)
           i2 == IF v.pre = <<>> THEN 9 ELSE Rank(v.pre, 2)
<1>1. /\ v.nums \in Seq(Nat) /\ Len(v.nums) <= 3 /\ \A i \in 1 .. Len(v.nums) : v.nums[i] < 9
      /\ v.pre \in Seq(Identifier) /\ Len(v.pre) <= 2
      /\ \A i \in 1 .. Len(v.pre) : v.pre[i].val < 3
  BY DEF SmallVersions, AnyVersion
<1>2. n1 \in 0 .. 8 /\ n2 \in 0 .. 8 /\ n3 \in 0 .. 8
  BY <1>1, NumberBounds
<1>3. ASSUME NEW i \in Pos PROVE Rank(v.pre, i) \in 0 .. 6
  <2>1. i > Len(v.pre) => Rank(v.pre, i) = 0
    BY <1>1, RankBounds
  <2>2. ~(i > Len(v.pre)) => Rank(v.pre, i) \in 1 .. 6
    BY <1>1, RankBounds
  <2> QED
    BY <2>1, <2>2
<1>4. /\ v.pre # <<>> => i1 \in 0 .. 6 /\ i2 \in 0 .. 6
      /\ v.pre = <<>> => i1 = 9 /\ i2 = 9
  BY <1>3 DEF Pos
<1>5. Weight(v) = (((n1 * 10 + n2) * 10 + n3) * 10 + i1) * 10 + i2
  BY DEF Weight, Number, Rank
<1>6. Core(v) = (n1 * 10 + n2) * 10 + n3 /\ Suffix(v) = i1 * 10 + i2
  BY DEF Core, Suffix
<1> HIDE DEF n1, n2, n3, i1, i2
<1>7. Core(v) \in 0 .. 888
  BY <1>2, <1>6
<1>8. /\ v.pre # <<>> => Suffix(v) \in 0 .. 66
      /\ v.pre = <<>> => Suffix(v) = 99
  <2>1. CASE v.pre # <<>>
    <3>1. i1 \in 0 .. 6 /\ i2 \in 0 .. 6
      BY <1>4, <2>1
    <3>2. i1 * 10 + i2 \in 0 .. 66
      BY <3>1
    <3> QED
      BY <1>6, <2>1, <3>2
  <2>2. CASE v.pre = <<>>
    <3>1. i1 = 9 /\ i2 = 9
      BY <1>4, <2>2
    <3>2. i1 * 10 + i2 = 99
      BY <3>1
    <3> QED
      BY <1>6, <2>2, <3>2
  <2> QED
    BY <2>1, <2>2
<1>9. i1 \in 0 .. 9 /\ i2 \in 0 .. 9
  BY <1>4
<1>10. Weight(v) = Core(v) * 100 + Suffix(v)
  BY <1>2, <1>5, <1>6, <1>9
<1>11. Suffix(v) \in 0 .. 99 /\ (v.pre = <<>> <=> Suffix(v) = 99)
  <2>1. CASE v.pre # <<>>
    <3>1. PICK q \in 0 .. 66 : q = Suffix(v)
      BY <1>8, <2>1
    <3>2. q \in 0 .. 99 /\ q # 99
      OBVIOUS
    <3> QED
      BY <2>1, <3>1, <3>2
  <2>2. CASE v.pre = <<>>
    BY <1>8, <2>2
  <2> QED
    BY <2>1, <2>2
<1> QED
  BY <1>7, <1>10, <1>11

LEMMA WeightDecides ==
  ASSUME NEW a \in SmallVersions, NEW b \in SmallVersions
  PROVE  CompareSemver(a, b) < 0 <=> Weight(a) < Weight(b)
<1> DEFINE n == Core(a)
           m == Core(b)
           i == Suffix(a)
           j == Suffix(b)
           A == a.pre = <<>>
           B == b.pre = <<>>
<1>2. CompareNums(a.nums, b.nums) = Sign(n - m)
  BY NumsWeigh DEF SmallVersions, AnyVersion, Core
<1>3. ~A /\ ~B => ComparePre(a.pre, b.pre) = Sign(i - j)
  BY PreWeighs DEF SmallVersions, AnyVersion, Suffix
<1>4. /\ n \in 0 .. 888 /\ m \in 0 .. 888 /\ i \in 0 .. 99 /\ j \in 0 .. 99
      /\ A <=> i = 99
      /\ B <=> j = 99
      /\ Weight(a) = n * 100 + i /\ Weight(b) = m * 100 + j
  BY WeightParts
<1>5. CompareSemver(a, b) = IF Sign(n - m) # 0 THEN Sign(n - m)
                            ELSE IF A /\ B THEN 0 ELSE IF A THEN 1 ELSE IF B THEN -1
                            ELSE Sign(i - j)
  BY <1>2, <1>3 DEF CompareSemver
<1>6. /\ A /\ B => Sign(i - j) = 0
      /\ A /\ ~B => Sign(i - j) = 1
      /\ ~A /\ B => Sign(i - j) = -1
  <2> HIDE DEF n, m, i, j, A, B
  <2>1. A /\ B => Sign(i - j) = 0
    BY <1>4 DEF Sign
  <2>2. A /\ ~B => Sign(i - j) = 1
    BY <1>4 DEF Sign
  <2>3. ~A /\ B => Sign(i - j) = -1
    BY <1>4 DEF Sign
  <2> QED
    BY <2>1, <2>2, <2>3
<1>7. Sign(n - m) = 0 <=> n = m
  <2> HIDE DEF n, m, i, j, A, B
  <2> QED
    BY <1>4 DEF Sign
<1>8. CompareSemver(a, b) = IF n # m THEN Sign(n - m) ELSE Sign(i - j)
  <2> HIDE DEF n, m, i, j, A, B
  <2> QED
    BY <1>5, <1>6, <1>7
<1> HIDE DEF n, m, i, j, A, B
<1>9. CompareSemver(a, b) < 0 <=> n * 100 + i < m * 100 + j
  <2>1. CASE n = m
    BY <1>4, <1>8, <2>1 DEF Sign
  <2>2. CASE n < m
    BY <1>4, <1>8, <2>2 DEF Sign
  <2>3. CASE m < n
    BY <1>4, <1>8, <2>3 DEF Sign
  <2> QED
    BY <1>4, <2>1, <2>2, <2>3
<1> QED
  BY <1>4, <1>9

\* For versions small enough to be weighed, in any number of them: the daemon
\* installs a release exactly if its weight says that it is newer.
THEOREM DecisionsAreOrdered ==
  Versions \subseteq SmallVersions => (Spec => []DecidesByOrder)
<1> SUFFICES ASSUME Versions \subseteq SmallVersions
             PROVE  Spec => []DecidesByOrder
  OBVIOUS
<1>1. ASSUME NEW current \in Versions, NEW latest \in Versions
      PROVE  Newer(current, latest) = (Weight(current) < Weight(latest))
  <2>1. Comparable(current, latest)
    BY UpdateAssumption DEF Comparable
  <2>2. CompareSemver(current, latest) < 0 <=> Weight(current) < Weight(latest)
    BY WeightDecides
  <2> QED
    BY <2>1, <2>2 DEF Newer
<1>2. DecidesByOrder
  BY <1>1 DEF DecidesByOrder
<1> QED
  BY <1>2, PTL
=============================================================================
