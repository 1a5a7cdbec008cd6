------------------------ MODULE AdblockUpdate_proofs ------------------------
(***************************************************************************)
(* Proofs about AdblockUpdate, for any categories, published versions and  *)
(* number of faults.                                                       *)
(***************************************************************************)
EXTENDS AdblockUpdate, TLAPS

\* A directory with a manifest holds lists of the version it names, if any.
OneVersion(d) ==
  d.manifest =>
    \A c \in Categories :
      /\ d.digest[c] \in {None, Published[d.version][c]}
      /\ d.list[c] \in {None, d.digest[c]}

Collected == {"clearNext", "stage", "clearPrev", "setAside", "promote", "activate"}
Before == {"feed", "collect", "clearNext", "stage", "clearPrev", "setAside"}
Aside == {"promote", "activate", "undo", "restore"}

\* What is staged is whole: it is of the cycle's version, which it names, and has
\* every list that was asked for.
StagedIsWhole ==
  cycle.pc \in Collected =>
    /\ cycle.staged.manifest /\ cycle.staged.version = cycle.version
    /\ OneVersion(cycle.staged)
    /\ \A c \in Entries(cycle.version, cycle.wanted) :
         cycle.staged.list[c] = Published[cycle.version][c]

\* Where the staged directory and the one it replaces are.
Places ==
  /\ cycle.pc \in {"clearPrev", "setAside", "promote"} => next = cycle.staged
  /\ cycle.pc = "activate" => updated = cycle.staged
  /\ cycle.pc \in Before => updated = cycle.before
  /\ cycle.pc = "setAside" => prev = NoDir
  /\ cycle.pc \in Aside => prev = cycle.before
  /\ cycle.pc = "restore" => updated = NoDir

\* While nothing failed, what was activated last is what is applied, or is about
\* to be replaced by a version that is not older.
LastApplied ==
  /\ cycle.pc \notin {"idle", "feed"} =>
       cycle.version \in Versions /\ cycle.version >= AppliedVersion(cycle.before)
  /\ faults = 0 => last = AppliedVersion(IF cycle.pc \in {"idle", "clean"} THEN updated ELSE cycle.before)

Inv ==
  /\ TypeOK
  /\ OneVersion(updated) /\ OneVersion(next) /\ OneVersion(prev)
  /\ cycle.pc = "idle" => cycle = Idle
  /\ StagedIsWhole /\ Places /\ LastApplied

-----------------------------------------------------------------------------
(* Directories                                                             *)

\* The empty directory, and what versions publish.
LEMMA Basics ==
  /\ NoDir \in Dir /\ OneVersion(NoDir) /\ AppliedVersion(NoDir) = 0 /\ Idle \in Cycle
  /\ Versions \subseteq Nat \ {0} /\ None \in Digests
  /\ \A v \in Versions, c \in Categories : Published[v][c] \in Digests
<1>1. None \in Digests /\ \A v \in Versions, c \in Categories : Published[v][c] \in Digests
  BY DEF Digests
<1>2. NoDir \in Dir BY <1>1 DEF NoDir, NoList, Dir
<1>3. Idle \in Cycle BY <1>2 DEF Idle, Cycle, Phases
<1> QED BY <1>1, <1>2, <1>3, PublishedAssumption DEF NoDir, OneVersion, AppliedVersion

\* What a removal leaves of a directory is of the same version.
LEMMA RemainsWhole ==
  ASSUME NEW d \in Dir, OneVersion(d), NEW e \in Remains(d)
  PROVE  e \in Dir /\ OneVersion(e)
<1>1. PICK m \in {b \in BOOLEAN : b => d.manifest}, S \in SUBSET Categories : e = CutShort(d, m, S)
  BY DEF Remains
<1> DEFINE l == [c \in Categories |-> IF c \in S THEN d.list[c] ELSE None]
<1>2. l \in [Categories -> Digests] BY Basics DEF Dir
<1>3. \A c \in Categories : l[c] \in {d.list[c], None} OBVIOUS
<1>4. e = [d EXCEPT !.manifest = m, !.list = l] BY <1>1 DEF CutShort
<1> HIDE DEF l
<1>5. e \in Dir BY <1>2, <1>4 DEF Dir
<1>6. e.manifest = m /\ e.list = l /\ e.version = d.version /\ e.digest = d.digest BY <1>4 DEF Dir
<1> QED BY <1>3, <1>5, <1>6 DEF OneVersion

\* What is staged from intact lists is whole.
LEMMA StagedWhole ==
  ASSUME NEW v \in Versions, NEW kept \in SUBSET Categories, NEW list \in [Categories -> Digests],
         \A c \in kept : list[c] = Published[v][c]
  PROVE  /\ Staged(v, kept, list) \in Dir /\ OneVersion(Staged(v, kept, list))
         /\ Staged(v, kept, list).manifest /\ Staged(v, kept, list).version = v
         /\ \A c \in kept : Staged(v, kept, list).list[c] = Published[v][c]
<1> DEFINE g == [c \in Categories |-> IF c \in kept THEN Published[v][c] ELSE None]
           l == [c \in Categories |-> IF c \in kept THEN list[c] ELSE None]
           r == [there |-> TRUE, manifest |-> TRUE, version |-> v, digest |-> g, list |-> l]
<1>1. g \in [Categories -> Digests] /\ l \in [Categories -> Digests] BY Basics
<1>2. \A c \in Categories : g[c] \in {None, Published[v][c]} /\ l[c] = g[c] OBVIOUS
<1>3. \A c \in kept : l[c] = Published[v][c] OBVIOUS
<1>4. Staged(v, kept, list) = r BY DEF Staged
<1> HIDE DEF g, l
<1>5. r \in Dir BY <1>1 DEF Dir
<1>6. OneVersion(r) BY <1>2 DEF OneVersion
<1>7. r.manifest /\ r.version = v /\ \A c \in kept : r.list[c] = Published[v][c] BY <1>3
<1> QED BY <1>4, <1>5, <1>6, <1>7
-----------------------------------------------------------------------------
(* The invariant                                                           *)

\* Nothing has been applied yet.
LEMMA InitInv == Init => Inv
<1> SUFFICES ASSUME Init PROVE Inv OBVIOUS
<1>1. TypeOK BY Basics, FaultAssumption DEF Init, TypeOK
<1>2. cycle.pc = "idle" BY DEF Init, Idle
<1> QED BY <1>1, <1>2, Basics
     DEF Init, Inv, StagedIsWhole, Places, LastApplied, Collected, Before, Aside

\* A cycle starts, or ends with the disk as it is.
LEMMA StartInv == ASSUME Inv, Start PROVE Inv'
<1>1. /\ cycle' = [pc |-> "feed", wanted |-> enabled, version |-> 0, before |-> updated, staged |-> NoDir]
      /\ cycle.pc = "idle" /\ UNCHANGED <<enabled, disk, last, faults>>
  BY DEF Start, Idle
<1>2. TypeOK' BY <1>1, Basics DEF Inv, TypeOK, Cycle, Phases, disk
<1>3. StagedIsWhole' /\ Places' BY <1>1 DEF StagedIsWhole, Places, Collected, Before, Aside, disk
<1>4. LastApplied' BY <1>1 DEF Inv, LastApplied, AppliedVersion, disk
<1>5. (OneVersion(updated) /\ OneVersion(next) /\ OneVersion(prev))'
  BY <1>1 DEF Inv, OneVersion, disk
<1> QED BY <1>1, <1>2, <1>3, <1>4, <1>5 DEF Inv

LEMMA LeaveInv == ASSUME Inv, cycle.pc \in {"feed", "collect"}, Leave PROVE Inv'
<1>1. cycle' = Idle /\ cycle'.pc = "idle" /\ UNCHANGED <<enabled, disk, last, faults>> BY DEF Leave, Idle
<1>2. TypeOK' BY <1>1, Basics DEF Inv, TypeOK, disk
<1>3. StagedIsWhole' /\ Places' BY <1>1 DEF StagedIsWhole, Places, Collected, Before, Aside, disk
<1>4. updated = cycle.before BY DEF Inv, Places, Before
<1>5. LastApplied' BY <1>1, <1>4 DEF Inv, LastApplied, AppliedVersion, disk
<1>6. (OneVersion(updated) /\ OneVersion(next) /\ OneVersion(prev))'
  BY <1>1 DEF Inv, OneVersion, disk
<1> QED BY <1>1, <1>2, <1>3, <1>5, <1>6 DEF Inv
\* A version is read that is worth collecting.
LEMMA ReadFeedInv == ASSUME Inv, NEW v \in Versions, ReadFeed(v) PROVE Inv'
<1>1. CASE Leave BY <1>1, LeaveInv DEF ReadFeed
<1>2. CASE ~Leave
  <2>1. /\ cycle.pc = "feed" /\ cycle' = [cycle EXCEPT !.pc = "collect", !.version = v]
        /\ Newer(v, cycle.wanted) /\ UNCHANGED <<enabled, disk, last, faults>>
    BY <1>2 DEF ReadFeed
  <2>2. cycle \in Cycle BY DEF Inv, TypeOK
  <2>3. /\ cycle' \in Cycle /\ cycle'.pc = "collect" /\ cycle'.version = v
        /\ cycle'.before = cycle.before /\ cycle'.staged = cycle.staged
    BY <2>1, <2>2 DEF Cycle, Phases
  <2>4. TypeOK' BY <2>1, <2>3 DEF Inv, TypeOK, disk
  <2>5. StagedIsWhole' /\ Places'
    BY <2>1, <2>3 DEF Inv, StagedIsWhole, Places, Collected, Before, Aside, disk
  <2>6. v >= AppliedVersion(cycle.before)
    <3>1. updated = cycle.before BY <2>1 DEF Inv, Places, Before
    <3>2. v \in Nat /\ AppliedVersion(updated) \in Nat
      <4>1. updated \in Dir BY DEF Inv, TypeOK
      <4>2. updated.version \in Versions \cup {0} BY <4>1 DEF Dir
      <4>3. AppliedVersion(updated) \in {updated.version, 0} BY DEF AppliedVersion
      <4>6. \A w \in Versions \cup {0} : w \in Nat BY Basics
      <4>4. updated.version \in Nat BY <4>2, <4>6
      <4>5. AppliedVersion(updated) \in Nat BY <4>3, <4>4
      <4> QED BY <4>5, <4>6
    <3>3. v > AppliedVersion(updated) \/ v = AppliedVersion(updated) BY <2>1 DEF Newer
    <3> QED BY <3>1, <3>2, <3>3
  <2>7. LastApplied' BY <2>1, <2>3, <2>6 DEF Inv, LastApplied, AppliedVersion, disk
  <2>8. (OneVersion(updated) /\ OneVersion(next) /\ OneVersion(prev))'
    BY <2>1 DEF Inv, OneVersion, disk
  <2> QED BY <2>3, <2>4, <2>5, <2>7, <2>8 DEF Inv
<1> QED BY <1>1, <1>2

\* The lists are collected, reused or downloaded.
LEMMA CollectInv ==
  ASSUME Inv, NEW blob \in {"intact", Damaged, "unavailable"}, Collect(blob) PROVE Inv'
<1>1. CASE Leave BY <1>1, LeaveInv DEF Collect
<1>2. CASE ~Leave
  <2> DEFINE v == cycle.version
             entries == Entries(v, cycle.wanted)
             missing == {c \in entries : ~Local(updated, v, c)}
             list == [c \in Categories |-> IF c \in missing THEN Published[v][c] ELSE updated.list[c]]
             kept == entries \cup Retained(v, cycle.wanted)
             d == Staged(v, kept, list)
  <2>1. /\ cycle.pc = "collect" /\ cycle' = [cycle EXCEPT !.pc = "clearNext", !.staged = d]
        /\ UNCHANGED <<enabled, disk, last, faults>>
    BY <1>2 DEF Collect
  <2>2. cycle \in Cycle /\ updated \in Dir /\ v \in Versions /\ cycle.wanted \in SUBSET Categories
    BY <2>1 DEF Inv, TypeOK, LastApplied, Cycle
  <2>3. list \in [Categories -> Digests] BY <2>2, Basics DEF Dir
  <2>4. \A c \in kept : list[c] = Published[v][c]
    BY <2>2 DEF Entries, Retained, Local
  <2>5. /\ d \in Dir /\ OneVersion(d) /\ d.manifest /\ d.version = v
        /\ \A c \in kept : d.list[c] = Published[v][c]
    <3>1. kept \in SUBSET Categories BY <2>2 DEF Entries, Retained
    <3> HIDE DEF list, kept, v
    <3> QED BY <3>1, <2>2, <2>3, <2>4, StagedWhole
  <2>12. \A c \in entries : d.list[c] = Published[v][c] BY <2>5
  <2> HIDE DEF d
  <2>6. /\ cycle' \in Cycle /\ cycle'.pc = "clearNext" /\ cycle'.version = v /\ cycle'.staged = d
        /\ cycle'.before = cycle.before /\ cycle'.wanted = cycle.wanted
    BY <2>1, <2>2, <2>5 DEF Cycle, Phases
  <2>7. TypeOK' BY <2>1, <2>6 DEF Inv, TypeOK, disk
  <2>8. StagedIsWhole' BY <2>5, <2>12, <2>6 DEF StagedIsWhole, OneVersion, Entries
  <2>9. Places' BY <2>1, <2>6 DEF Inv, Places, Before, Aside, disk
  <2>10. LastApplied' BY <2>1, <2>6 DEF Inv, LastApplied, AppliedVersion, disk
  <2>11. (OneVersion(updated) /\ OneVersion(next) /\ OneVersion(prev))'
    BY <2>1 DEF Inv, OneVersion, disk
  <2> QED BY <2>6, <2>7, <2>8, <2>9, <2>10, <2>11 DEF Inv
<1> QED BY <1>1, <1>2

\* A step that goes on to another phase with whole directories keeps what the
\* cycle has captured.
LEMMA GotoKeeps ==
  ASSUME Inv, NEW pc \in Phases \ {"idle"}, NEW u \in Dir, NEW n \in Dir, NEW p \in Dir,
         OneVersion(u), OneVersion(n), OneVersion(p), Goto(pc, u, n, p),
         last' \in Versions \cup {0}, pc \in Collected => cycle.pc \in Collected
  PROVE  /\ TypeOK' /\ StagedIsWhole'
         /\ OneVersion(updated)' /\ OneVersion(next)' /\ OneVersion(prev)'
         /\ updated' = u /\ next' = n /\ prev' = p /\ faults' = faults
         /\ cycle'.pc = pc /\ cycle'.version = cycle.version /\ cycle'.before = cycle.before
         /\ cycle'.staged = cycle.staged /\ cycle'.wanted = cycle.wanted
<1>1. /\ cycle' = [cycle EXCEPT !.pc = pc] /\ updated' = u /\ next' = n /\ prev' = p
      /\ UNCHANGED <<enabled, faults>>
  BY DEF Goto
<1>2. cycle \in Cycle BY DEF Inv, TypeOK
<1>3. /\ cycle' \in Cycle /\ cycle'.pc = pc /\ cycle'.version = cycle.version
      /\ cycle'.before = cycle.before /\ cycle'.staged = cycle.staged /\ cycle'.wanted = cycle.wanted
  BY <1>1, <1>2 DEF Cycle
<1>4. TypeOK' BY <1>1, <1>3 DEF Inv, TypeOK
<1>5. StagedIsWhole' BY <1>3 DEF Inv, StagedIsWhole, OneVersion, Entries
<1>6. OneVersion(updated)' /\ OneVersion(next)' /\ OneVersion(prev)' BY <1>1 DEF OneVersion
<1> QED BY <1>1, <1>3, <1>4, <1>5, <1>6
\* Where the directories are, for the steps that move them.
LEMMA InvFacts ==
  ASSUME Inv
  PROVE  /\ updated \in Dir /\ next \in Dir /\ prev \in Dir /\ cycle.staged \in Dir
         /\ cycle.before \in Dir /\ last \in Versions \cup {0}
         /\ OneVersion(updated) /\ OneVersion(next) /\ OneVersion(prev)
         /\ cycle.pc \in Collected => OneVersion(cycle.staged)
BY DEF Inv, TypeOK, Cycle, StagedIsWhole

\* What is left of updated.next is cleared, and the lists are staged there.
LEMMA ClearNextInv == ASSUME Inv, ClearNext PROVE Inv'
<1>1. cycle.pc = "clearNext" /\ Goto("stage", updated, NoDir, prev) /\ UNCHANGED last
  BY DEF ClearNext
<1>2. cycle.pc \in Collected BY <1>1 DEF Collected
<1>3. /\ TypeOK' /\ StagedIsWhole'
      /\ OneVersion(updated)' /\ OneVersion(next)' /\ OneVersion(prev)'
      /\ updated' = updated /\ next' = NoDir /\ prev' = prev /\ faults' = faults
      /\ cycle'.pc = "stage" /\ cycle'.version = cycle.version /\ cycle'.before = cycle.before
      /\ cycle'.staged = cycle.staged /\ cycle'.wanted = cycle.wanted
  BY <1>1, <1>2, InvFacts, Basics, GotoKeeps DEF Phases
<1>4. Places' BY <1>1, <1>3 DEF Inv, Places, Before, Aside
<1>5. LastApplied' BY <1>1, <1>3 DEF Inv, LastApplied, AppliedVersion
<1> QED BY <1>3, <1>4, <1>5 DEF Inv
\* The lists are staged in updated.next.
LEMMA StageInv == ASSUME Inv, Stage PROVE Inv'
<1>1. cycle.pc = "stage" /\ Goto("clearPrev", updated, cycle.staged, prev) /\ UNCHANGED last
  BY DEF Stage
<1>2. "clearPrev" \in Collected => cycle.pc \in Collected BY <1>1 DEF Collected
<1>3. /\ TypeOK' /\ StagedIsWhole'
      /\ OneVersion(updated)' /\ OneVersion(next)' /\ OneVersion(prev)'
      /\ updated' = updated /\ next' = cycle.staged /\ prev' = prev /\ faults' = faults
      /\ cycle'.pc = "clearPrev" /\ cycle'.version = cycle.version /\ cycle'.before = cycle.before
      /\ cycle'.staged = cycle.staged /\ cycle'.wanted = cycle.wanted
  BY <1>1, <1>2, InvFacts, Basics, GotoKeeps DEF Phases, Collected
<1>4. Places' BY <1>1, <1>3 DEF Inv, Places, Before, Aside
<1>5. LastApplied' BY <1>1, <1>3 DEF Inv, LastApplied, AppliedVersion
<1> QED BY <1>3, <1>4, <1>5 DEF Inv

\* What is left of updated.prev is cleared.
LEMMA ClearPrevInv == ASSUME Inv, ClearPrev PROVE Inv'
<1>1. cycle.pc = "clearPrev" /\ Goto("setAside", updated, next, NoDir) /\ UNCHANGED last
  BY DEF ClearPrev
<1>2. "setAside" \in Collected => cycle.pc \in Collected BY <1>1 DEF Collected
<1>3. /\ TypeOK' /\ StagedIsWhole'
      /\ OneVersion(updated)' /\ OneVersion(next)' /\ OneVersion(prev)'
      /\ updated' = updated /\ next' = next /\ prev' = NoDir /\ faults' = faults
      /\ cycle'.pc = "setAside" /\ cycle'.version = cycle.version /\ cycle'.before = cycle.before
      /\ cycle'.staged = cycle.staged /\ cycle'.wanted = cycle.wanted
  BY <1>1, <1>2, InvFacts, Basics, GotoKeeps DEF Phases
<1>4. Places' BY <1>1, <1>3 DEF Inv, Places, Before, Aside
<1>5. LastApplied' BY <1>1, <1>3 DEF Inv, LastApplied, AppliedVersion
<1> QED BY <1>3, <1>4, <1>5 DEF Inv

\* The staged lists take the place of those that were applied.
LEMMA PromoteInv == ASSUME Inv, Promote PROVE Inv'
<1>1. cycle.pc = "promote" /\ Goto("activate", next, NoDir, prev) /\ UNCHANGED last
  BY DEF Promote
<1>2. "activate" \in Collected => cycle.pc \in Collected BY <1>1 DEF Collected
<1>3. /\ TypeOK' /\ StagedIsWhole'
      /\ OneVersion(updated)' /\ OneVersion(next)' /\ OneVersion(prev)'
      /\ updated' = next /\ next' = NoDir /\ prev' = prev /\ faults' = faults
      /\ cycle'.pc = "activate" /\ cycle'.version = cycle.version /\ cycle'.before = cycle.before
      /\ cycle'.staged = cycle.staged /\ cycle'.wanted = cycle.wanted
  BY <1>1, <1>2, InvFacts, Basics, GotoKeeps DEF Phases
<1>4. Places' BY <1>1, <1>3 DEF Inv, Places, Before, Aside
<1>5. LastApplied' BY <1>1, <1>3 DEF Inv, LastApplied, AppliedVersion
<1> QED BY <1>3, <1>4, <1>5 DEF Inv

\* The promoted lists are removed again.
LEMMA UndoInv == ASSUME Inv, Undo PROVE Inv'
<1>1. cycle.pc = "undo" /\ Goto("restore", NoDir, next, prev) /\ UNCHANGED last
  BY DEF Undo
<1>2. "restore" \in Collected => cycle.pc \in Collected BY <1>1 DEF Collected
<1>3. /\ TypeOK' /\ StagedIsWhole'
      /\ OneVersion(updated)' /\ OneVersion(next)' /\ OneVersion(prev)'
      /\ updated' = NoDir /\ next' = next /\ prev' = prev /\ faults' = faults
      /\ cycle'.pc = "restore" /\ cycle'.version = cycle.version /\ cycle'.before = cycle.before
      /\ cycle'.staged = cycle.staged /\ cycle'.wanted = cycle.wanted
  BY <1>1, <1>2, InvFacts, Basics, GotoKeeps DEF Phases
<1>4. Places' BY <1>1, <1>3 DEF Inv, Places, Before, Aside
<1>5. LastApplied' BY <1>1, <1>3 DEF Inv, LastApplied, AppliedVersion
<1> QED BY <1>3, <1>4, <1>5 DEF Inv
\* The applied lists are set aside, if there are any.
LEMMA SetAsideInv == ASSUME Inv, SetAside PROVE Inv'
<1>1. /\ cycle.pc = "setAside" /\ UNCHANGED last
      /\ \/ updated = NoDir /\ Goto("promote", updated, next, prev)
         \/ Goto("promote", NoDir, next, updated)
  BY DEF SetAside
<1>2. cycle.pc \in Collected BY <1>1 DEF Collected
<1>3. prev = NoDir /\ updated = cycle.before BY <1>1 DEF Inv, Places, Before
<1> DEFINE Kept ==
      /\ TypeOK' /\ StagedIsWhole'
      /\ OneVersion(updated)' /\ OneVersion(next)' /\ OneVersion(prev)'
      /\ next' = next /\ prev' = cycle.before /\ faults' = faults
      /\ cycle'.pc = "promote" /\ cycle'.version = cycle.version /\ cycle'.before = cycle.before
      /\ cycle'.staged = cycle.staged /\ cycle'.wanted = cycle.wanted
<1>4. ASSUME updated = NoDir, Goto("promote", updated, next, prev) PROVE Kept
  BY <1>1, <1>2, <1>3, <1>4, InvFacts, GotoKeeps DEF Phases
<1>5. ASSUME Goto("promote", NoDir, next, updated) PROVE Kept
  BY <1>1, <1>2, <1>3, <1>5, InvFacts, Basics, GotoKeeps DEF Phases
<1>6. Kept BY <1>1, <1>4, <1>5
<1>7. Places' BY <1>1, <1>6 DEF Inv, Places, Before, Aside
<1>8. LastApplied' BY <1>1, <1>6 DEF Inv, LastApplied, AppliedVersion
<1> QED BY <1>6, <1>7, <1>8 DEF Inv

\* The engine is rebuilt from the promoted lists, or not.
LEMMA ActivateInv == ASSUME Inv, NEW ok \in BOOLEAN, Activate(ok) PROVE Inv'
<1> DEFINE to == IF ok THEN "clean" ELSE "undo"
<1>1. /\ cycle.pc = "activate" /\ Goto(to, updated, next, prev)
      /\ last' = IF ok THEN updated.version ELSE last
  BY DEF Activate
<1>2. /\ to \in Phases \ {"idle"} /\ to \notin Collected /\ to \notin Before
      /\ to \in {"clean", "undo"} /\ (to = "clean" <=> ok)
  BY DEF Phases, Collected, Before
<1>3. updated = cycle.staged /\ updated.manifest /\ updated.version = cycle.version
  BY <1>1 DEF Inv, Places, StagedIsWhole, Collected
<1>4. last' \in Versions \cup {0}
  <2>1. updated.version \in Versions \cup {0} BY InvFacts DEF Dir
  <2> QED BY <2>1, <1>1, InvFacts
<1> HIDE DEF to
<1>5. /\ TypeOK' /\ StagedIsWhole'
      /\ OneVersion(updated)' /\ OneVersion(next)' /\ OneVersion(prev)'
      /\ updated' = updated /\ next' = next /\ prev' = prev /\ faults' = faults
      /\ cycle'.pc = to /\ cycle'.version = cycle.version /\ cycle'.before = cycle.before
      /\ cycle'.staged = cycle.staged /\ cycle'.wanted = cycle.wanted
  BY <1>1, <1>2, <1>4, InvFacts, GotoKeeps
<1>6. Places' BY <1>1, <1>2, <1>5 DEF Inv, Places, Before, Aside
<1>7. LastApplied' BY <1>1, <1>2, <1>3, <1>5 DEF Inv, LastApplied, AppliedVersion
<1> QED BY <1>2, <1>5, <1>6, <1>7 DEF Inv

\* A cycle that ends leaves whole directories; if nothing failed, the applied
\* lists are those activated last.
LEMMA EndInv ==
  ASSUME Inv, cycle' = Idle, enabled' = enabled, last' = last, faults' \in 0..MaxFaults,
         updated' \in Dir, next' \in Dir, prev' \in Dir,
         OneVersion(updated'), OneVersion(next'), OneVersion(prev'),
         faults' = 0 => last = AppliedVersion(updated')
  PROVE  Inv'
<1>1. cycle' = Idle /\ cycle'.pc = "idle" BY DEF Idle
<1>2. TypeOK' BY <1>1, Basics DEF Inv, TypeOK
<1>3. StagedIsWhole' /\ Places' BY <1>1 DEF StagedIsWhole, Places, Collected, Before, Aside
<1>4. LastApplied' BY <1>1 DEF LastApplied, AppliedVersion
<1>5. (OneVersion(updated) /\ OneVersion(next) /\ OneVersion(prev))' BY DEF OneVersion
<1> QED BY <1>1, <1>2, <1>3, <1>4, <1>5 DEF Inv

\* The lists that were replaced are removed.
LEMMA CleanInv == ASSUME Inv, Clean PROVE Inv'
<1>1. /\ cycle.pc = "clean" /\ cycle' = Idle /\ updated' = updated /\ next' = next /\ prev' = NoDir
      /\ UNCHANGED <<enabled, faults, last>>
  BY DEF Clean, Goto
<1>2. faults \in 0..MaxFaults BY DEF Inv, TypeOK
<1>3. faults = 0 => last = AppliedVersion(updated) BY <1>1 DEF Inv, LastApplied
<1> QED BY <1>1, <1>2, <1>3, InvFacts, Basics, EndInv

\* The lists that were set aside are put back, if there were any.
LEMMA RestoreInv == ASSUME Inv, Restore PROVE Inv'
<1>1. /\ cycle.pc = "restore" /\ cycle' = Idle /\ next' = next /\ UNCHANGED <<enabled, faults, last>>
      /\ \/ prev = NoDir /\ updated' = updated /\ prev' = prev
         \/ updated' = prev /\ prev' = NoDir
  BY DEF Restore, Goto
<1>2. updated = NoDir /\ prev = cycle.before BY <1>1 DEF Inv, Places, Aside
<1>3. updated' = cycle.before /\ prev' = NoDir BY <1>1, <1>2
<1>4. faults \in 0..MaxFaults BY DEF Inv, TypeOK
<1>5. faults = 0 => last = AppliedVersion(cycle.before) BY <1>1 DEF Inv, LastApplied
<1>6. cycle.before \in Dir /\ OneVersion(cycle.before) BY <1>2, InvFacts
<1> QED BY <1>1, <1>3, <1>4, <1>5, <1>6, InvFacts, Basics, EndInv

\* An operation fails or is cut short.
LEMMA BreakInv == ASSUME Inv, Break PROVE Inv'
<1>1. /\ cycle' = Idle /\ faults' = faults + 1 /\ faults < MaxFaults /\ UNCHANGED <<enabled, last>>
      /\ updated' \in Remains(updated) \cup {updated}
      /\ prev' \in Remains(prev) \cup {prev}
      /\ \/ next' \in Remains(next) \cup {next, NoDir}
         \/ cycle.pc = "stage" /\ next' \in Remains(cycle.staged)
  BY DEF Break
<1>2. faults' \in 0..MaxFaults /\ faults' # 0
  <2>1. faults \in 0..MaxFaults BY DEF Inv, TypeOK
  <2> QED BY <1>1, <2>1, FaultAssumption
<1>3. updated' \in Dir /\ OneVersion(updated') BY <1>1, InvFacts, RemainsWhole
<1>4. prev' \in Dir /\ OneVersion(prev') BY <1>1, InvFacts, RemainsWhole
<1>5. next' \in Dir /\ OneVersion(next') BY <1>1, InvFacts, Basics, RemainsWhole DEF Collected
<1> QED BY <1>1, <1>2, <1>3, <1>4, <1>5, EndInv

\* The user changes the settings.
LEMMA SetEnabledInv == ASSUME Inv, NEW E \in SUBSET Categories, SetEnabled(E) PROVE Inv'
<1>1. enabled' = E /\ UNCHANGED <<disk, cycle, last, faults>> BY DEF SetEnabled
<1>2. TypeOK' BY <1>1 DEF Inv, TypeOK, disk
<1>3. StagedIsWhole' /\ Places' /\ LastApplied'
  BY <1>1 DEF Inv, StagedIsWhole, Places, LastApplied, AppliedVersion, OneVersion, Entries, disk
<1>4. (OneVersion(updated) /\ OneVersion(next) /\ OneVersion(prev))' BY <1>1 DEF Inv, OneVersion, disk
<1>5. (cycle.pc = "idle" => cycle = Idle)' BY <1>1 DEF Inv
<1> QED BY <1>2, <1>3, <1>4, <1>5 DEF Inv
-----------------------------------------------------------------------------
(* Steps                                                                   *)

\* A cycle goes on whenever a directory is moved, but for the last of its steps.
LEMMA GotoGoesOn ==
  ASSUME Inv, NEW pc \in Phases \ {"idle"}, NEW u, NEW n, NEW p, Goto(pc, u, n, p)
  PROVE  cycle' # Idle /\ cycle'.pc = pc
<1>1. cycle' = [cycle EXCEPT !.pc = pc] /\ cycle \in Cycle BY DEF Goto, Inv, TypeOK
<1>2. cycle'.pc = pc BY <1>1 DEF Cycle
<1> QED BY <1>2 DEF Idle

\* How a cycle ends: it leaves without having touched the disk, it puts back what
\* it set aside, it is done, or it is cut short.
LEMMA HowItEnds ==
  ASSUME Inv, [Next]_vars, cycle # Idle, cycle' = Idle
  PROVE  \/ Leave /\ cycle.pc \in {"feed", "collect"}
         \/ Restore \/ Clean \/ Break
<1>1. CASE Start BY <1>1 DEF Start
<1>2. CASE NoFeed BY <1>2 DEF NoFeed
<1>3. ASSUME NEW v \in Versions, ReadFeed(v) PROVE Leave /\ cycle.pc \in {"feed", "collect"}
  <2>1. SUFFICES ASSUME ~Leave PROVE FALSE BY <1>3 DEF ReadFeed
  <2>2. cycle \in Cycle /\ cycle' = [cycle EXCEPT !.pc = "collect", !.version = v]
    BY <1>3, <2>1 DEF ReadFeed, Inv, TypeOK
  <2>3. cycle'.pc = "collect" BY <2>2 DEF Cycle
  <2> QED BY <2>3 DEF Idle
<1>4. ASSUME NEW blob \in {"intact", Damaged, "unavailable"}, Collect(blob)
      PROVE  Leave /\ cycle.pc \in {"feed", "collect"}
  <2>1. SUFFICES ASSUME ~Leave PROVE FALSE BY <1>4 DEF Collect
  <2>2. cycle \in Cycle BY DEF Inv, TypeOK
  <2>3. PICK d : cycle' = [cycle EXCEPT !.pc = "clearNext", !.staged = d]
    BY <1>4, <2>1 DEF Collect
  <2>4. cycle'.pc = "clearNext" BY <2>2, <2>3 DEF Cycle
  <2> QED BY <2>4 DEF Idle
<1>5. CASE ClearNext BY <1>5, GotoGoesOn DEF ClearNext, Phases
<1>6. CASE Stage BY <1>6, GotoGoesOn DEF Stage, Phases
<1>7. CASE ClearPrev BY <1>7, GotoGoesOn DEF ClearPrev, Phases
<1>8. CASE SetAside BY <1>8, GotoGoesOn DEF SetAside, Phases
<1>9. CASE Promote BY <1>9, GotoGoesOn DEF Promote, Phases
<1>10. ASSUME NEW ok \in BOOLEAN, Activate(ok) PROVE FALSE
  <2>1. PICK to \in {"clean", "undo"} : Goto(to, updated, next, prev) BY <1>10 DEF Activate
  <2> QED BY <2>1, GotoGoesOn DEF Phases
<1>11. CASE Undo BY <1>11, GotoGoesOn DEF Undo, Phases
<1>12. CASE \E E \in SUBSET Categories : SetEnabled(E) BY <1>12 DEF SetEnabled
<1>13. CASE UNCHANGED vars BY <1>13 DEF vars
<1> QED
  BY <1>1, <1>2, <1>3, <1>4, <1>5, <1>6, <1>7, <1>8, <1>9, <1>10, <1>11, <1>12, <1>13 DEF Next

\* Only a successful activation changes what was activated last.
LEMMA HowItActivates ==
  ASSUME [Next]_vars, last' # last \/ (cycle.pc = "activate" /\ cycle'.pc = "clean")
  PROVE  \E ok \in BOOLEAN : Activate(ok)
<1>1. CASE Start BY <1>1 DEF Start, Idle
<1>2. CASE NoFeed BY <1>2 DEF NoFeed, Leave
<1>3. CASE \E v \in Versions : ReadFeed(v) BY <1>3 DEF ReadFeed, Leave
<1>4. CASE \E blob \in {"intact", Damaged, "unavailable"} : Collect(blob)
  BY <1>4 DEF Collect, Leave
<1>5. CASE ClearNext \/ Stage \/ ClearPrev \/ Promote \/ Clean \/ Undo
  BY <1>5 DEF ClearNext, Stage, ClearPrev, Promote, Clean, Undo
<1>6. CASE SetAside \/ Restore BY <1>6 DEF SetAside, Restore
<1>7. CASE Break BY <1>7 DEF Break, Idle
<1>8. CASE \E E \in SUBSET Categories : SetEnabled(E) BY <1>8 DEF SetEnabled
<1>9. CASE UNCHANGED vars BY <1>9 DEF vars
<1> QED BY <1>1, <1>2, <1>3, <1>4, <1>5, <1>6, <1>7, <1>8, <1>9 DEF Next

-----------------------------------------------------------------------------
(* Theorems                                                                *)

\* Every step keeps the invariant.
LEMMA NextInv == Inv /\ [Next]_vars => Inv'
<1> SUFFICES ASSUME Inv, [Next]_vars PROVE Inv' OBVIOUS
<1>1. CASE Start BY <1>1, StartInv
<1>2. CASE NoFeed BY <1>2, LeaveInv DEF NoFeed
<1>3. CASE \E v \in Versions : ReadFeed(v) BY <1>3, ReadFeedInv
<1>4. CASE \E blob \in {"intact", Damaged, "unavailable"} : Collect(blob) BY <1>4, CollectInv
<1>5. CASE ClearNext BY <1>5, ClearNextInv
<1>6. CASE Stage BY <1>6, StageInv
<1>7. CASE ClearPrev BY <1>7, ClearPrevInv
<1>8. CASE SetAside BY <1>8, SetAsideInv
<1>9. CASE Promote BY <1>9, PromoteInv
<1>10. CASE \E ok \in BOOLEAN : Activate(ok) BY <1>10, ActivateInv
<1>11. CASE Clean BY <1>11, CleanInv
<1>12. CASE Undo BY <1>12, UndoInv
<1>13. CASE Restore BY <1>13, RestoreInv
<1>14. CASE Break BY <1>14, BreakInv
<1>15. CASE \E E \in SUBSET Categories : SetEnabled(E) BY <1>15, SetEnabledInv
<1>16. CASE UNCHANGED vars
  <2>1. UNCHANGED <<enabled, updated, next, prev, cycle, last, faults>> BY <1>16 DEF vars, disk
  <2>2. TypeOK' BY <2>1 DEF Inv, TypeOK
  <2>3. StagedIsWhole' /\ Places' /\ LastApplied'
    BY <2>1 DEF Inv, StagedIsWhole, Places, LastApplied, AppliedVersion, OneVersion, Entries
  <2>4. (OneVersion(updated) /\ OneVersion(next) /\ OneVersion(prev))' BY <2>1 DEF Inv, OneVersion
  <2>5. (cycle.pc = "idle" => cycle = Idle)' BY <2>1 DEF Inv
  <2> QED BY <2>2, <2>3, <2>4, <2>5 DEF Inv
<1> QED
  BY <1>1, <1>2, <1>3, <1>4, <1>5, <1>6, <1>7, <1>8, <1>9, <1>10, <1>11, <1>12, <1>13, <1>14,
     <1>15, <1>16 DEF Next

\* The invariant holds throughout.
LEMMA InvHolds == Spec => []Inv
BY InitInv, NextInv, PTL DEF Spec

\* Directories, the cycle and the counters are always of their types.
THEOREM TypeCorrect == Spec => []TypeOK
<1>1. Inv => TypeOK BY DEF Inv
<1> QED BY <1>1, InvHolds, PTL

\* Whatever fails or dies, and wherever, the directory the browser builds its engine
\* from holds lists of one published version, the one its manifest names.
THEOREM OneVersionApplied == Spec => []ListsAreOneVersion
<1>1. Inv => ListsAreOneVersion BY DEF Inv, OneVersion, ListsAreOneVersion
<1> QED BY <1>1, InvHolds, PTL
\* While no file operation fails, a cycle that ends before its lists were activated
\* (there was nothing to do, a list could not be had, the engine could not be
\* rebuilt) leaves exactly the directory it found.
THEOREM PreviousKept == Spec => PreviousSurvives
<1> DEFINE Step ==
      (/\ faults' = 0 /\ cycle # Idle /\ cycle.pc # "clean" /\ cycle' = Idle
       /\ cycle.before.manifest
       => updated' = cycle.before)
<1>1. Inv /\ [Next]_vars => Step
  <2> SUFFICES ASSUME Inv, [Next]_vars, faults' = 0, cycle # Idle, cycle.pc # "clean", cycle' = Idle
               PROVE  updated' = cycle.before
    OBVIOUS
  <2>1. CASE Leave /\ cycle.pc \in {"feed", "collect"}
    BY <2>1 DEF Leave, disk, Inv, Places, Before
  <2>2. CASE Restore
    <3>1. cycle.pc = "restore" /\ ((prev = NoDir /\ updated' = updated) \/ updated' = prev)
      BY <2>2 DEF Restore, Goto
    <3> QED BY <3>1 DEF Inv, Places, Aside
  <2>3. CASE Clean BY <2>3 DEF Clean
  <2>4. CASE Break
    <3>1. faults \in 0..MaxFaults /\ faults' = faults + 1 BY <2>4 DEF Break, Inv, TypeOK
    <3> QED BY <3>1, FaultAssumption
  <2> QED BY <2>1, <2>2, <2>3, <2>4, HowItEnds
<1> QED BY <1>1, InvHolds, PTL DEF Spec, PreviousSurvives

\* While no file operation fails, the version activated is never older than the one
\* activated before it, whatever versions the feed serves and in which order.
THEOREM NeverMovesBackward == Spec => NeverBackward
<1>1. Inv /\ [Next]_vars => (faults' = 0 => last' >= last)
  <2> SUFFICES ASSUME Inv, [Next]_vars, faults' = 0 PROVE last' >= last
    OBVIOUS
  <2>1. \A w \in Versions \cup {0} : w \in Nat BY Basics
  <2>2. last \in Nat BY <2>1, InvFacts
  <2>3. CASE last' = last BY <2>2, <2>3
  <2>4. CASE last' # last
    <3>1. PICK ok \in BOOLEAN : Activate(ok) BY <2>4, HowItActivates
    <3>2. cycle.pc = "activate" /\ last' = updated.version /\ faults = 0
      BY <2>4, <3>1 DEF Activate, Goto
    <3>3. updated = cycle.staged /\ updated.version = cycle.version
      BY <3>2 DEF Inv, Places, StagedIsWhole, Collected
    <3>4. last = AppliedVersion(cycle.before) /\ cycle.version >= AppliedVersion(cycle.before)
      BY <3>2 DEF Inv, LastApplied
    <3> QED BY <3>2, <3>3, <3>4
  <2> QED BY <2>3, <2>4
<1> QED BY <1>1, InvHolds, PTL DEF Spec, NeverBackward

\* An activated update has the list of every category that was enabled when its
\* cycle began and that its version carries, whatever faults there were before.
THEOREM CompleteWhenActivated == Spec => ActivatedIsComplete
<1> DEFINE Step ==
      cycle.pc = "activate" /\ cycle'.pc = "clean" =>
        \A c \in Entries(cycle.version, cycle.wanted) : updated'.list[c] = Published[cycle.version][c]
<1>1. Inv /\ [Next]_vars => Step
  <2> SUFFICES ASSUME Inv, [Next]_vars, cycle.pc = "activate", cycle'.pc = "clean" PROVE Step
    OBVIOUS
  <2>1. PICK ok \in BOOLEAN : Activate(ok) BY HowItActivates
  <2>2. updated' = updated BY <2>1 DEF Activate, Goto
  <2>3. updated = cycle.staged BY DEF Inv, Places
  <2> QED BY <2>2, <2>3 DEF Inv, StagedIsWhole, Collected
<1> QED BY <1>1, InvHolds, PTL DEF Spec, ActivatedIsComplete
=============================================================================
