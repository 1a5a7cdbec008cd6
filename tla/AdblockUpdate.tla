---------------------------- MODULE AdblockUpdate ----------------------------
(***************************************************************************)
(* The Swarm filter-list update cycle (adblock/update-manager.js, with     *)
(* update-manifest.js and update-scheduler.js): read the signed manifest,  *)
(* collect the enabled lists, stage them and promote the staged directory, *)
(* rolling back if the engine cannot be rebuilt from it.                   *)
(*                                                                         *)
(* A directory changes by whole-file operations between which the process  *)
(* may die, and each of which may fail.  One cycle runs at a time: cycles  *)
(* are six hours apart.                                                    *)
(***************************************************************************)
EXTENDS Naturals, FiniteSets

CONSTANTS
  Categories,   \* feed categories of filter lists
  Published,    \* Published[v][c]: the digest of c's list in version v, or None
  MaxFaults     \* how many operations fail or are cut short by a crash (a bound)

None == "none"        \* no list, or no entry in the manifest
Damaged == "damaged"  \* bytes that do not have the digest asked for

Versions == DOMAIN Published
Digests == {Published[v][c] : v \in Versions, c \in Categories} \cup {None}

ASSUME PublishedAssumption ==
  /\ Versions \subseteq Nat \ {0}
  /\ \A v \in Versions : DOMAIN Published[v] = Categories
  /\ Damaged \notin Digests
ASSUME FaultAssumption == MaxFaults \in Nat

\* A directory: whether it and its manifest.json are there, the version and the
\* digests the manifest names, and the lists themselves.
Dir == [there : BOOLEAN, manifest : BOOLEAN, version : Versions \cup {0},
        digest : [Categories -> Digests], list : [Categories -> Digests]]
NoList == [c \in Categories |-> None]
NoDir == [there |-> FALSE, manifest |-> FALSE, version |-> 0, digest |-> NoList, list |-> NoList]

VARIABLES
  enabled,   \* the categories enabled in the settings
  updated,   \* userData/adblock/updated, or NoDir
  next,      \* updated.next
  prev,      \* updated.prev
  cycle,     \* the cycle under way and what it has captured
  last,      \* the version activated last, 0 if none (history)
  faults     \* how many faults there have been

disk == <<updated, next, prev>>
vars == <<enabled, disk, cycle, last, faults>>

Phases == {"idle", "feed", "collect", "clearNext", "stage", "clearPrev", "setAside", "promote",
           "activate", "clean", "undo", "restore"}
Cycle == [pc : Phases, wanted : SUBSET Categories, version : Versions \cup {0},
          before : Dir, staged : Dir]
Idle == [pc |-> "idle", wanted |-> {}, version |-> 0, before |-> NoDir, staged |-> NoDir]

-----------------------------------------------------------------------------
(* What is applied, and what of a manifest may be                          *)

\* readAppliedState(): the version, 0 without a manifest, and the categories.
AppliedVersion(d) == IF d.manifest THEN d.version ELSE 0
AppliedCategories(d) == {c \in Categories : d.manifest /\ d.digest[c] # None}

\* Fault: the applied copy is taken as it is, without hashing it.
LocalUnread(d, v, c) == c \in AppliedCategories(d) /\ d.digest[c] = Published[v][c]

\* An intact copy of what version v names for c is already applied.
Local(d, v, c) ==
  c \in AppliedCategories(d) /\ d.digest[c] = Published[v][c] /\ d.list[c] = Published[v][c]

\* Fault: nothing keeps an older manifest out.
NewerThanNothing(v, wanted) == TRUE

\* verifyManifest(): never older than what is applied, and the same version
\* only to backfill a category that is not there yet.
Newer(v, wanted) ==
  \/ v > AppliedVersion(updated)
  \/ v = AppliedVersion(updated) /\ wanted \ AppliedCategories(updated) # {}

\* desktopListsFor()
Entries(v, wanted) == {c \in wanted : Published[v][c] # None}

UpToDate(v, wanted) ==
  v = AppliedVersion(updated) /\ Entries(v, wanted) \subseteq AppliedCategories(updated)

\* Fault: a list is retained although the new version has another one.
RetainedAll(v, wanted) ==
  {c \in AppliedCategories(updated) \ Entries(v, wanted) : Published[v][c] # None}

\* Applied categories that are disabled now but still valid at version v.
Retained(v, wanted) == {c \in Categories \ Entries(v, wanted) : Local(updated, v, c)}

-----------------------------------------------------------------------------
(* A cycle                                                                 *)

\* The synchronous start of runUpdateOnce().
Start ==
  /\ cycle = Idle
  /\ cycle' = [Idle EXCEPT !.pc = "feed", !.wanted = enabled, !.before = updated]
  /\ UNCHANGED <<enabled, disk, last, faults>>

\* The cycle returns without having touched the disk.
Leave == cycle' = Idle /\ UNCHANGED <<enabled, disk, last, faults>>

\* The feed answers with version v: any that was ever published, since what a
\* Swarm node finds for a feed may be out of date.
ReadFeed(v) ==
  /\ cycle.pc = "feed"
  /\ IF Newer(v, cycle.wanted) /\ Entries(v, cycle.wanted) # {} /\ ~UpToDate(v, cycle.wanted)
     THEN cycle' = [cycle EXCEPT !.pc = "collect", !.version = v]
          /\ UNCHANGED <<enabled, disk, last, faults>>
     ELSE Leave

\* The feed cannot be read, is empty, or holds what was not signed as it should.
NoFeed == cycle.pc = "feed" /\ Leave

Staged(v, kept, list) ==
  [there |-> TRUE, manifest |-> TRUE, version |-> v,
   digest |-> [c \in Categories |-> IF c \in kept THEN Published[v][c] ELSE None],
   list |-> [c \in Categories |-> IF c \in kept THEN list[c] ELSE None]]

\* Every list the manifest names is reused, or downloaded and hashed.
Collect(blob) ==
  LET v == cycle.version
      entries == Entries(v, cycle.wanted)
      missing == {c \in entries : ~Local(updated, v, c)}
      list == [c \in Categories |-> IF c \in missing THEN Published[v][c] ELSE updated.list[c]]
  IN  /\ cycle.pc = "collect"
      /\ IF missing # {} /\ blob # "intact" THEN Leave
         ELSE /\ cycle' = [cycle EXCEPT !.pc = "clearNext",
                !.staged = Staged(v, entries \cup Retained(v, cycle.wanted), list)]
              /\ UNCHANGED <<enabled, disk, last, faults>>

\* Goes on to pc with the directories u, n and p.
Goto(pc, u, n, p) ==
  /\ updated' = u /\ next' = n /\ prev' = p
  /\ cycle' = IF pc = "idle" THEN Idle ELSE [cycle EXCEPT !.pc = pc]
  /\ UNCHANGED <<enabled, faults>>

ClearNext == cycle.pc = "clearNext" /\ Goto("stage", updated, NoDir, prev) /\ UNCHANGED last
Stage == cycle.pc = "stage" /\ Goto("clearPrev", updated, cycle.staged, prev) /\ UNCHANGED last
ClearPrev == cycle.pc = "clearPrev" /\ Goto("setAside", updated, next, NoDir) /\ UNCHANGED last

SetAside ==
  /\ cycle.pc = "setAside"
  /\ IF updated = NoDir THEN Goto("promote", updated, next, prev)
     ELSE Goto("promote", NoDir, next, updated)
  /\ UNCHANGED last

Promote == cycle.pc = "promote" /\ Goto("activate", next, NoDir, prev) /\ UNCHANGED last

\* refreshEngine() resolves, or rejects and the promotion is undone.
Activate(ok) ==
  /\ cycle.pc = "activate"
  /\ Goto(IF ok THEN "clean" ELSE "undo", updated, next, prev)
  /\ last' = IF ok THEN updated.version ELSE last

Clean == cycle.pc = "clean" /\ Goto("idle", updated, next, NoDir) /\ UNCHANGED last
Undo == cycle.pc = "undo" /\ Goto("restore", NoDir, next, prev) /\ UNCHANGED last

\* Fault: the rollback removes the new lists and stops there.
RestoreNothing == cycle.pc = "restore" /\ Goto("idle", updated, next, prev) /\ UNCHANGED last

Restore ==
  /\ cycle.pc = "restore"
  /\ IF prev = NoDir THEN Goto("idle", updated, next, prev)
     ELSE Goto("idle", prev, next, NoDir)
  /\ UNCHANGED last

-----------------------------------------------------------------------------
(* Faults and the settings                                                 *)

\* What is left of d when its recursive removal is cut short: the lists of S, and
\* its manifest or not.
CutShort(d, m, S) ==
  [d EXCEPT !.manifest = m, !.list = [c \in Categories |-> IF c \in S THEN d.list[c] ELSE None]]
Remains(d) == {CutShort(d, m, S) : m \in {b \in BOOLEAN : b => d.manifest}, S \in SUBSET Categories}

\* The operation under way fails, or the process dies and is started again: in
\* both cases the cycle is over and the disk is as it was left.
Break ==
  /\ cycle # Idle
  /\ faults < MaxFaults
  /\ faults' = faults + 1
  /\ cycle' = Idle
  /\ updated' \in IF cycle.pc = "undo" THEN Remains(updated) ELSE {updated}
  /\ prev' \in IF cycle.pc \in {"clearPrev", "clean"} THEN Remains(prev) ELSE {prev}
  /\ next' \in IF cycle.pc = "clearNext" THEN Remains(next)
               ELSE IF cycle.pc = "stage" THEN {NoDir} \cup Remains(cycle.staged) ELSE {next}
  /\ UNCHANGED <<enabled, last>>

\* The user ticks or unticks a category.
SetEnabled(E) == E # enabled /\ enabled' = E /\ UNCHANGED <<disk, cycle, last, faults>>

-----------------------------------------------------------------------------
Init ==
  /\ enabled \in SUBSET Categories
  /\ updated = NoDir /\ next = NoDir /\ prev = NoDir
  /\ cycle = Idle /\ last = 0 /\ faults = 0

Next ==
  \/ Start \/ NoFeed \/ (\E v \in Versions : ReadFeed(v))
  \/ (\E blob \in {"intact", Damaged, "unavailable"} : Collect(blob))
  \/ ClearNext \/ Stage \/ ClearPrev \/ SetAside \/ Promote
  \/ (\E ok \in BOOLEAN : Activate(ok))
  \/ Clean \/ Undo \/ Restore
  \/ Break
  \/ \E E \in SUBSET Categories : SetEnabled(E)

Spec == Init /\ [][Next]_vars

-----------------------------------------------------------------------------
(* Properties                                                              *)

\* Types.
TypeOK ==
  /\ enabled \subseteq Categories
  /\ updated \in Dir /\ next \in Dir /\ prev \in Dir
  /\ cycle \in Cycle
  /\ last \in Versions \cup {0} /\ faults \in 0..MaxFaults

\* Whatever fails or dies, the lists the browser builds from are those of one
\* published version: no list of another version and no unverified bytes.
ListsAreOneVersion ==
  updated.manifest =>
    \A c \in Categories :
      /\ updated.digest[c] \in {None, Published[updated.version][c]}
      /\ updated.list[c] \in {None, updated.digest[c]}

\* "On any failure the previous updated dir is left intact": as long as no file
\* operation fails, a cycle that ends before its lists were activated leaves the
\* lists it found.
PreviousSurvives ==
  [][ /\ faults' = 0 /\ cycle # Idle /\ cycle.pc # "clean" /\ cycle' = Idle
      /\ cycle.before.manifest
      => updated' = cycle.before ]_vars

\* As long as no file operation fails, lists once activated are only followed
\* by those of the same version or a newer one, whatever the feed serves.
NeverBackward == [][ faults' = 0 => last' >= last ]_vars

\* "Downgrade protection: never move backward", without that proviso.
DowngradeProtection == [][ last' >= last ]_vars

\* An activated update serves every category that was enabled when its cycle
\* began and that its version carries, whatever was lost on the disk before.
ActivatedIsComplete ==
  [][ cycle.pc = "activate" /\ cycle'.pc = "clean" =>
        \A c \in Entries(cycle.version, cycle.wanted) :
          updated'.list[c] = Published[cycle.version][c] ]_vars
=============================================================================
