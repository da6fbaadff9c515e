---------------------------- MODULE SkillPackages ----------------------------
(***************************************************************************)
(* Skills: the database row that is active, the import records that keep   *)
(* every package that ever was, the governance events that tell the story, *)
(* and the package roots on disk.  A package is written to disk first,     *)
(* under a mutex of the process, and then becomes active in one database   *)
(* transaction; a timer later removes the roots nothing refers to.  The    *)
(* metadata an administrator sets beside the package is `enabled'; name,   *)
(* description and least group level are patched and restored like it.     *)
(***************************************************************************)
EXTENDS Governance, FiniteSets, SequencesExt

CONSTANTS
  Skills,
  Packages,   \* contents, one package checksum each
  NoSkill,    \* no row, no state
  Clerks,     \* requests of administrators that save packages
  MaxEvents   \* bounds the history

\* A state of the history is a row with the import record of its package.
RowValues == [package : Packages, enabled : BOOLEAN, deleted : BOOLEAN]
StateValues == [package : Packages, enabled : BOOLEAN, deleted : BOOLEAN, record : Nat]

ASSUME SkillsAssumption == IsFiniteSet(Skills) /\ NoSkill \notin RowValues /\ NoSkill \notin StateValues

VARIABLES
  db,      \* [row, records, events]: what the database has committed
  disk,    \* of each package root: "none", "partial" or "whole"
  planned, \* a timer will sweep the disk, or already waits for the mutex
  clerk    \* of each request: what it has decided and has yet to write

packageVars == <<db, disk, planned, clerk>>

Roots == Skills \X Packages
AwayFromDesk == [step |-> "idle"]

\* packageMu: a save holds it from its first write to its commit.
Locked == \E c \in Clerks : clerk[c].step = "saving"

-----------------------------------------------------------------------------
(* The transactions, as functions of the database.                         *)

\* The newest import record with exactly the files of this package.
Matching(d, k, p) == {i \in DOMAIN d.records : d.records[i] = <<k, p>>}
Retained(d, k, p) == Max(Matching(d, k, p))

StateOf(d, k) ==
  [package |-> d.row[k].package, enabled |-> d.row[k].enabled,
   deleted |-> d.row[k].deleted, record |-> Retained(d, k, d.row[k].package)]

\* An active package from before the history existed gets a record first.
Snapshot(d, k) ==
  IF d.row[k] = NoSkill \/ Matching(d, k, d.row[k].package) # {} THEN d
  ELSE [d EXCEPT !.records = Append(@, <<k, d.row[k].package>>)]

Audited(d, k, action, before, after, undoes) ==
  [d EXCEPT !.events = Append(@, Event(k, action, before, after, undoes))]

\* A patch names a field by a set that holds its value.
PatchedField(patched, value) == IF patched = {} THEN value ELSE CHOOSE v \in patched : TRUE

\* Package bytes replace those of the row; metadata that the patch does not
\* name stays as the row has it, and a deleted skill comes back.
Merged(row, item) ==
  [package |-> item.package, deleted |-> FALSE,
   enabled |-> PatchedField(item.enabled, row # NoSkill /\ row.enabled)]

Upserted(d, k, row) == [d EXCEPT !.row[k] = row, !.records = Append(@, <<k, row.package>>)]

SavedPackage(d, item) ==
  LET k == item.skill
      s == Snapshot(d, k)
      saved == Upserted(s, k, Merged(s.row[k], item))
  IN Audited(saved, k, item.action, IF s.row[k] = NoSkill THEN NoSkill ELSE StateOf(s, k), StateOf(saved, k), 0)

\* One item after the other, in one transaction.
SavedPackages(d, items) ==
  LET saved[n \in 0 .. Len(items)] ==
        IF n = 0 THEN d ELSE SavedPackage(saved[n - 1], items[n])
  IN saved[Len(items)]

PatchedMetadata(d, k, enabled) ==
  LET s == Snapshot(d, k)
      saved == [s EXCEPT !.row[k].enabled = PatchedField(enabled, @)]
  IN Audited(saved, k, "update", StateOf(s, k), StateOf(saved, k), 0)

Tombstone(row) == [row EXCEPT !.deleted = TRUE, !.enabled = FALSE]

Deleted(d, k) ==
  LET s == Snapshot(d, k)
      saved == [s EXCEPT !.row[k] = Tombstone(@)]
  IN Audited(saved, k, "delete", StateOf(s, k), StateOf(saved, k), 0)

\* Only the newest state can be taken back, each event once, a rollback never.
MayRollback(d, i) ==
  LET source == d.events[i] IN
  /\ source.action # "rollback"
  /\ ~AlreadyRolledBack(d.events, i)
  /\ Matching(d, source.key, d.row[source.key].package) # {}
  /\ StateOf(d, source.key) = source.after

\* The row of a rollback whose target is a tombstone without its tombstone.
RestoredAlive(row, state) ==
  IF state = NoSkill THEN Tombstone(row)
  ELSE [package |-> state.package, enabled |-> state.enabled, deleted |-> FALSE]

Restored(row, state) ==
  LET active == [package |-> state.package, enabled |-> state.enabled, deleted |-> FALSE]
  IN IF state = NoSkill THEN Tombstone(row)
     ELSE IF state.deleted THEN Tombstone(active) ELSE active

RolledBack(d, i) ==
  LET source == d.events[i]
      k == source.key
      saved == [d EXCEPT !.row[k] = Restored(@, source.before)]
  IN Audited(saved, k, "rollback", StateOf(d, k), source.before, i)

-----------------------------------------------------------------------------
(* Package roots on disk.                                                  *)

\* Only what is active now, as before packages were retained.
ActiveOnly(d) == {<<k, d.row[k].package>> : k \in {x \in Skills : d.row[x] # NoSkill /\ ~d.row[x].deleted}}

\* The database names a root as soon as any record of the past has its files.
ActiveRoots(d) == {<<k, d.row[k].package>> : k \in {x \in Skills : d.row[x] # NoSkill /\ ~d.row[x].deleted}}
RetainedRoots(d) == ActiveRoots(d) \union {d.records[i] : i \in DOMAIN d.records}

CanRecord(n) == Len(db.events) + n <= MaxEvents

PackagesInit ==
  /\ \E legacy \in SUBSET Skills, p \in Packages :
       /\ db = [row |-> [k \in Skills |->
                  IF k \in legacy THEN [package |-> p, enabled |-> TRUE, deleted |-> FALSE]
                  ELSE NoSkill],
                records |-> <<>>, events |-> <<>>]
       /\ disk = [root \in Roots |-> IF root[1] \in legacy /\ root[2] = p THEN "whole" ELSE "none"]
  /\ planned = FALSE
  /\ clerk = [c \in Clerks |-> AwayFromDesk]

\* A request decides what it will save from a read it makes before the mutex.
Decide(c, items) ==
  /\ clerk[c] = AwayFromDesk
  /\ CanRecord(Len(items))
  /\ clerk' = [clerk EXCEPT ![c] = [step |-> "decided", items |-> items, written |-> 0]]
  /\ UNCHANGED <<db, disk, planned>>

Known(k) == db.row[k] # NoSkill /\ ~db.row[k].deleted

Item(k, p, action, enabled) == [skill |-> k, package |-> p, action |-> action, enabled |-> enabled]

\* A manual save names all metadata, whether the skill is known or not.
CreateManual(c, k, p, enabled) ==
  Decide(c, <<Item(k, p, IF Known(k) THEN "update" ELSE "create", {enabled})>>)

\* New content for a known skill, with the metadata the request names.
UpdateContent(c, k, p, enabled) ==
  Known(k) /\ Decide(c, <<Item(k, p, "update", enabled)>>)

\* The item of an import: a skill it does not know starts enabled for all.
Imported(k, p) ==
  IF Known(k) THEN Item(k, p, "import", {}) ELSE Item(k, p, "import", {TRUE})

\* An import skips the skills that have its package; an update does not.
ImportPackages(c, chosen) ==
  LET news == {k \in DOMAIN chosen : ~(Known(k) /\ db.row[k].package = chosen[k])} IN
  /\ news # {}
  /\ \E order \in SetToSeqs(news) :
       Decide(c, [i \in DOMAIN order |-> Imported(order[i], chosen[order[i]])])

UpdatePackage(c, k, p) == Known(k) /\ Decide(c, <<Imported(k, p)>>)

\* One root after the other: a complete one is used as it is, any other one is
\* removed and written again, in which the process or the disk may fail.
WriteNext(c) ==
  LET w == clerk[c]
      root == <<w.items[w.written + 1].skill, w.items[w.written + 1].package>> IN
  /\ \/ w.step = "decided" /\ ~Locked
     \/ w.step = "saving" /\ w.written < Len(w.items)
  /\ \/ /\ disk' = [disk EXCEPT ![root] = "whole"]
        /\ clerk' = [clerk EXCEPT ![c] = [w EXCEPT !.step = "saving", !.written = @ + 1]]
        /\ UNCHANGED planned
     \/ /\ disk[root] # "whole"
        /\ disk' = [disk EXCEPT ![root] = "partial"]
        /\ clerk' = [clerk EXCEPT ![c] = AwayFromDesk]
        /\ planned' = TRUE
  /\ UNCHANGED db

\* The transaction commits all items or none; either way a sweep is planned.
Activate(c) ==
  LET items == clerk[c].items IN
  /\ clerk[c].step = "saving" /\ clerk[c].written = Len(items)
  /\ CanRecord(Len(items))
  /\ db' \in {db, SavedPackages(db, items)}
  /\ planned' = TRUE
  /\ clerk' = [clerk EXCEPT ![c] = AwayFromDesk]
  /\ UNCHANGED disk

\* Metadata alone needs no file and takes no mutex.
UpdateMetadata(k, enabled) ==
  /\ Known(k) /\ CanRecord(1)
  /\ db' = PatchedMetadata(db, k, enabled)
  /\ UNCHANGED <<disk, planned, clerk>>

Delete(k) ==
  /\ ~Locked /\ Known(k) /\ CanRecord(1)
  /\ db' = Deleted(db, k)
  /\ planned' = TRUE
  /\ UNCHANGED <<disk, clerk>>

\* The files of the target are read and compared before the transaction.
TargetIsWhole(event) ==
  event.before # NoSkill => disk[db.records[event.before.record]] = "whole"

Rollback(i) ==
  /\ ~Locked /\ CanRecord(1)
  /\ TargetIsWhole(db.events[i])
  /\ MayRollback(db, i)
  /\ db' = RolledBack(db, i)
  /\ planned' = TRUE
  /\ UNCHANGED <<disk, clerk>>

\* The roots in use are read again under the mutex; of the others those go
\* that are old enough, none when the read fails.  While the timer waited for
\* the mutex, the save that held it may have planned the next sweep.
Sweep ==
  /\ planned /\ ~Locked
  /\ \E expired \in SUBSET {root \in Roots : disk[root] # "none"} :
       disk' = [root \in Roots |-> IF root \in expired \ RetainedRoots(db) THEN "none" ELSE disk[root]]
  /\ planned' \in BOOLEAN
  /\ UNCHANGED <<db, clerk>>

\* A root that was being written stays as it is; nothing sweeps at the start.
PackagesCrash ==
  /\ \E half \in SUBSET {<<clerk[c].items[clerk[c].written + 1].skill, clerk[c].items[clerk[c].written + 1].package>> :
                 c \in {x \in Clerks : clerk[x].step = "saving" /\ clerk[x].written < Len(clerk[x].items)}} :
       disk' = [root \in Roots |-> IF root \in half /\ disk[root] # "whole" THEN "partial" ELSE disk[root]]
  /\ planned' = FALSE /\ clerk' = [c \in Clerks |-> AwayFromDesk]
  /\ UNCHANGED db

PackagesNext ==
  \/ \E c \in Clerks :
       \/ \E k \in Skills, p \in Packages, enabled \in BOOLEAN : CreateManual(c, k, p, enabled)
       \/ \E k \in Skills, p \in Packages, enabled \in {{}, {FALSE}} : UpdateContent(c, k, p, enabled)
       \/ \E some \in SUBSET Skills : \E chosen \in [some -> Packages] : ImportPackages(c, chosen)
       \/ \E k \in Skills, p \in Packages : UpdatePackage(c, k, p)
       \/ WriteNext(c)
       \/ Activate(c)
  \/ \E k \in Skills, enabled \in {{}, {TRUE}, {FALSE}} : UpdateMetadata(k, enabled)
  \/ \E k \in Skills : Delete(k)
  \/ \E i \in DOMAIN db.events : Rollback(i)
  \/ Sweep
  \/ PackagesCrash

PackagesSpec == PackagesInit /\ [][PackagesNext]_packageVars

-----------------------------------------------------------------------------
\* The files of every active skill are on disk, and so are those of every
\* package the history names: a rollback always finds what it restores.
PackagesAreKept ==
  /\ \A k \in Skills : Known(k) => disk[<<k, db.row[k].package>>] = "whole"
  /\ \A i \in DOMAIN db.events : \A state \in {db.events[i].before, db.events[i].after} \ {NoSkill} :
       /\ db.records[state.record] = <<db.events[i].key, state.package>>
       /\ disk[<<db.events[i].key, state.package>>] = "whole"

\* What an event left is what the next one found, and the last one describes
\* the row; taking an event back restores what it found, once.  A tombstone
\* stands for "no skill" when the event taken back had created it.
Agrees(after, row) ==
  IF after = NoSkill THEN row.deleted
  ELSE \A f \in {"package", "enabled", "deleted"} : after[f] = row[f]

HistoryIsExact ==
  /\ \A k \in Skills : IsChained(db.events, k, Agrees) /\ Describes(db.events, k, db.row[k], Agrees)
  /\ ReversesOnce(db.events)
=============================================================================
