---------------------------- MODULE ArtifactStore ----------------------------
(***************************************************************************)
(* The artifact stores (app/storage): every writer stages its files in a   *)
(* hidden directory and publishes them with one rename (atomic.py); a raw  *)
(* upload (local.py) then adds its manifest with a second, single-file     *)
(* commit; RecoveryService removes staging directories that look           *)
(* abandoned (recovery.py).  One action is one file system call or one     *)
(* loop of calls nobody else can tell apart.                               *)
(***************************************************************************)
EXTENDS FiniteSets

CONSTANTS
    Artifacts,      \* the artifact ids (UUID4: one writer each)
    Raw,            \* those saved by LocalRawStorage
    Indexed,        \* cleaned ones whose duplicate rule keeps its index on disk
    DataFiles,      \* the files a writer streams before its manifest
    ParentExists,   \* those whose destination directory is already durable
    FSYNC_ENABLED,  \* settings.FSYNC_ENABLED
    Env             \* what the environment may do, a subset of EnvKinds

(***************************************************************************)
(* An I/O call or the stage raises, a writer's process dies, power is      *)
(* lost, an operator calls cleanup_stale(), the process doing so dies, a   *)
(* live writer takes longer than STALE_STAGING_AFTER_SECONDS, an entry     *)
(* cannot be removed, which shutil.rmtree(ignore_errors=True) passes over. *)
(***************************************************************************)
EnvKinds == {"error", "crash", "power", "cleanup", "cleaner_dies", "slow", "stuck"}

ASSUME EnvAssumption == Env \subseteq EnvKinds
ASSUME StoreAssumption ==
    /\ Raw \subseteq Artifacts
    /\ Indexed \subseteq Artifacts \ Raw
    /\ ParentExists \subseteq Artifacts
    /\ FSYNC_ENABLED \in BOOLEAN
    /\ DataFiles \cap {"manifest", "manifest_tmp", "journal", "journal_tmp", "index"} = {}

Names == DataFiles \union {"manifest", "manifest_tmp", "journal", "journal_tmp", "index"}
Content == {"absent", "partial", "whole"}
Place == {"none", "staging", "final"}
Over == {"idle", "done", "failed", "dead"}
Raising == {"journal", "original", "prepare", "writing", "commit", "unlink", "rename",
            "manifest_tmp", "manifest_replace"}
Step == Over \union Raising \union
        {"fsync_data", "fsync_manifest", "fsync_dir", "fsync_parent", "manifest_sync", "discard"}

VARIABLES
    place,      \* where the artifact's directory is
    content,    \* what each name of that directory holds
    fsynced,    \* names whose content has reached the disk
    listed,     \* names whose presence in, or absence from, it has
    settled,    \* artifacts whose place has
    pc,         \* what the writer does next
    opened,     \* files the writer has opened
    closed,     \* files it has written to the end
    old,        \* journals whose started_at is beyond the threshold
    stale,      \* what a cleanup_stale() in progress has yet to remove
    victim,     \* the directory it is removing now (at most one)
    entries     \* the entries of it that rmtree listed and has yet to unlink

dirVars == <<place, content, fsynced, listed, settled>>
writerVars == <<pc, opened, closed>>
cleanerVars == <<stale, victim, entries>>
vars == <<place, content, fsynced, listed, settled, pc, opened, closed, old,
          stale, victim, entries>>

Init ==
    /\ place = [a \in Artifacts |-> "none"]
    /\ content = [a \in Artifacts |-> [f \in Names |-> "absent"]]
    /\ fsynced = [a \in Artifacts |-> {}]
    /\ listed = [a \in Artifacts |-> Names]
    /\ settled = Artifacts
    /\ pc = [a \in Artifacts |-> "idle"]
    /\ opened = [a \in Artifacts |-> {}]
    /\ closed = [a \in Artifacts |-> {}]
    /\ old = {}
    /\ stale = {} /\ victim = {} /\ entries = {}

Present(a) == {f \in Names : content[a][f] # "absent"}

\* What the writer puts into the directory it publishes.
Payload(a) == IF a \in Raw THEN DataFiles ELSE DataFiles \union {"manifest"}

\* A raw upload lies one level down, in original/, which is never fsynced.
Nested(a) == IF a \in Raw THEN DataFiles ELSE {}

Goto(a, step) == pc' = [pc EXCEPT ![a] = step]

\* (A slip FailuresCanBeCleanedUp is to catch: an exception after the journal
\* is gone no longer discards.)
after_failure_late(a) ==
    IF pc[a] = "writing" \/ (a \notin Raw /\ pc[a] = "commit") THEN "discard" ELSE "failed"

\* Where an exception takes the writer.  LocalRawStorage.save discards the
\* staging directory around the streaming loop alone; stage services and report
\* stores from the end of staging_dir() on, except that CleaningService has yet
\* to enter its try block when it builds the rules.
AfterFailure(a) ==
    IF pc[a] = "writing" \/ (a \notin Raw /\ pc[a] \notin {"journal", "prepare"})
    THEN "discard" ELSE "failed"

\* Name f of a's directory now holds c; neither that nor its entry is durable.
Put(a, f, c) ==
    /\ content' = [content EXCEPT ![a][f] = c]
    /\ fsynced' = [fsynced EXCEPT ![a] = @ \ {f}]
    /\ listed' = [listed EXCEPT ![a] = @ \ {f}]

Move(a, to) ==
    /\ place' = [place EXCEPT ![a] = to]
    /\ settled' = settled \ {a}

\* What a call that is cut short may leave half written: _write_json_atomic its
\* temporary file, the duplicate rule its index, write_manifest its own.
HalfWritten(a) ==
    IF place[a] = "none" THEN {}
    ELSE CASE pc[a] = "journal" -> {"journal_tmp"}
           [] pc[a] = "commit" /\ content[a]["journal"] = "whole" -> {"journal_tmp"}
           [] pc[a] = "prepare" -> {"index"}
           [] pc[a] = "manifest_tmp" -> {"manifest_tmp"}
           [] OTHER -> {}

CutShort(a) ==
    \/ UNCHANGED <<content, fsynced, listed>>
    \/ \E f \in HalfWritten(a) : Put(a, f, "partial")

Fsync(a, names) ==
    fsynced' = IF FSYNC_ENABLED
               THEN [fsynced EXCEPT ![a] = @ \union (names \cap Present(a))] ELSE fsynced

-----------------------------------------------------------------------------
(* Slips the properties below are meant to catch: faulty forms of the      *)
(* operations they are named after, used by none of the specifications.    *)

\* The journal stays in the directory that is published.
unlink_journal_forgotten(a) ==
    /\ pc[a] = "unlink"
    /\ Goto(a, "fsync_dir")
    /\ UNCHANGED <<dirVars, opened, closed, old, cleanerVars>>

\* The commit starts as soon as every file has been opened.
commit_before_close(a) ==
    /\ pc[a] = "writing"
    /\ opened[a] = Payload(a)
    /\ Goto(a, "commit")
    /\ UNCHANGED <<dirVars, opened, closed, old, cleanerVars>>

\* The data files are taken to be on disk.
fsync_data_skipped(a) ==
    /\ pc[a] = "fsync_data"
    /\ Goto(a, "fsync_manifest")
    /\ UNCHANGED <<dirVars, opened, closed, old, cleanerVars>>

\* The rename is taken to be on disk.
fsync_parent_skipped(a) ==
    /\ pc[a] = "fsync_parent"
    /\ Goto(a, IF a \in Raw THEN "manifest_tmp" ELSE "done")
    /\ UNCHANGED <<dirVars, opened, closed, old, cleanerVars>>

\* The manifest of a raw upload is written in place, not via a rename.
replace_manifest_in_place(a) ==
    /\ pc[a] = "manifest_replace"
    /\ Put(a, "manifest", "partial")
    /\ Goto(a, "manifest_sync")
    /\ UNCHANGED <<place, settled, opened, closed, old, cleanerVars>>

\* An fsync that fails after the rename is no longer swallowed.
writer_raises_on_fsync(a) ==
    /\ "error" \in Env
    /\ pc[a] \in Raising \union {"fsync_parent", "manifest_sync"}
    /\ Goto(a, AfterFailure(a))
    /\ CutShort(a)
    /\ UNCHANGED <<place, settled, opened, closed, old, cleanerVars>>

\* Only entries still marked `writing` are taken for abandoned.
classify_stale_unopened == {a \in old : place[a] = "staging" /\ opened[a] = {}}

-----------------------------------------------------------------------------
(* Writing: create_staging_dir, ordinary file I/O, the manifest last.      *)

create_staging_dir(a) ==
    /\ pc[a] = "idle"
    /\ Move(a, "staging")
    /\ Goto(a, "journal")
    /\ UNCHANGED <<content, fsynced, listed, opened, closed, old, cleanerVars>>

\* _write_json_atomic: the journal appears whole or not at all.
write_staging_metadata(a) ==
    /\ pc[a] = "journal"
    /\ Put(a, "journal", "whole")
    /\ Goto(a, IF a \in Raw THEN "original" ELSE IF a \in Indexed THEN "prepare" ELSE "writing")
    /\ UNCHANGED <<place, settled, opened, closed, old, cleanerVars>>

\* mkdir(parents=True): it brings back a directory that was cleaned away.
make_original_dir(a) ==
    /\ pc[a] = "original"
    /\ IF place[a] = "staging" THEN UNCHANGED <<place, settled>> ELSE Move(a, "staging")
    /\ Goto(a, "writing")
    /\ UNCHANGED <<content, fsynced, listed, opened, closed, old, cleanerVars>>

\* The duplicate rule opens .dedup_index.sqlite3 in the staging directory.
build_rules(a) ==
    /\ pc[a] = "prepare"
    /\ IF place[a] = "staging"
       THEN Put(a, "index", "partial") /\ Goto(a, "writing")
       ELSE Goto(a, AfterFailure(a)) /\ UNCHANGED <<content, fsynced, listed>>
    /\ UNCHANGED <<place, settled, opened, closed, old, cleanerVars>>

\* Files are opened and streamed in any order and several at a time, the
\* manifest after everything it describes.
open_file(a, f) ==
    /\ pc[a] = "writing"
    /\ f \in Payload(a) \ opened[a]
    /\ f = "manifest" => closed[a] = DataFiles
    /\ IF place[a] = "staging"
       THEN Put(a, f, "partial") /\ opened' = [opened EXCEPT ![a] = @ \union {f}] /\ UNCHANGED pc
       ELSE Goto(a, AfterFailure(a)) /\ UNCHANGED <<content, fsynced, listed, opened>>
    /\ UNCHANGED <<place, settled, closed, old, cleanerVars>>

\* The last bytes of f, which a cleaner may have unlinked under the writer.
finish_file(a, f) ==
    /\ pc[a] = "writing"
    /\ f \in opened[a] \ closed[a]
    /\ closed' = [closed EXCEPT ![a] = @ \union {f}]
    /\ IF content[a][f] = "partial"
       THEN Put(a, f, "whole") ELSE UNCHANGED <<content, fsynced, listed>>
    /\ UNCHANGED <<place, settled, pc, opened, old, cleanerVars>>

\* Everything is written, and the rules are closed: the index is gone.
begin_commit(a) ==
    /\ pc[a] = "writing"
    /\ closed[a] = Payload(a)
    /\ IF content[a]["index"] = "absent"
       THEN UNCHANGED <<content, fsynced, listed>> ELSE Put(a, "index", "absent")
    /\ Goto(a, "commit")
    /\ UNCHANGED <<place, settled, opened, closed, old, cleanerVars>>

-----------------------------------------------------------------------------
(* commit_staging_dir.                                                     *)

\* The destination never exists (artifact ids are fresh), its parents are
\* made, and _mark_state rewrites a journal that is still there.
mark_committing(a) ==
    /\ pc[a] = "commit"
    /\ IF content[a]["journal"] = "whole"
       THEN Put(a, "journal", "whole") ELSE UNCHANGED <<content, fsynced, listed>>
    /\ Goto(a, "fsync_data")
    /\ UNCHANGED <<place, settled, opened, closed, old, cleanerVars>>

fsync_data(a) ==
    /\ pc[a] = "fsync_data"
    /\ Fsync(a, DataFiles)
    /\ Goto(a, "fsync_manifest")
    /\ UNCHANGED <<place, content, listed, settled, opened, closed, old, cleanerVars>>

fsync_manifest(a) ==
    /\ pc[a] = "fsync_manifest"
    /\ Fsync(a, {"manifest"})
    /\ Goto(a, "unlink")
    /\ UNCHANGED <<place, content, listed, settled, opened, closed, old, cleanerVars>>

unlink_journal(a) ==
    /\ pc[a] = "unlink"
    /\ Put(a, "journal", "absent")
    /\ Goto(a, "fsync_dir")
    /\ UNCHANGED <<place, settled, opened, closed, old, cleanerVars>>

fsync_staging_dir(a) ==
    /\ pc[a] = "fsync_dir"
    /\ listed' = IF FSYNC_ENABLED
                 THEN [listed EXCEPT ![a] = @ \union (Names \ Nested(a))] ELSE listed
    /\ Goto(a, "rename")
    /\ UNCHANGED <<place, content, fsynced, settled, opened, closed, old, cleanerVars>>

rename_staging_dir(a) ==
    /\ pc[a] = "rename"
    /\ IF place[a] = "staging"
       THEN Move(a, "final") /\ Goto(a, "fsync_parent")
       ELSE Goto(a, AfterFailure(a)) /\ UNCHANGED <<place, settled>>
    /\ UNCHANGED <<content, fsynced, listed, opened, closed, old, cleanerVars>>

fsync_parent(a) ==
    /\ pc[a] = "fsync_parent"
    /\ settled' = IF FSYNC_ENABLED THEN settled \union {a} ELSE settled
    /\ Goto(a, IF a \in Raw THEN "manifest_tmp" ELSE "done")
    /\ UNCHANGED <<place, content, fsynced, listed, opened, closed, old, cleanerVars>>

-----------------------------------------------------------------------------
(* LocalRawStorage.write_manifest: the second, single-file commit.         *)

write_manifest_tmp(a) ==
    /\ pc[a] = "manifest_tmp"
    /\ content' = [content EXCEPT ![a]["manifest_tmp"] = "whole"]
    /\ listed' = [listed EXCEPT ![a] = @ \ {"manifest_tmp"}]
    /\ fsynced' = IF FSYNC_ENABLED
                  THEN [fsynced EXCEPT ![a] = @ \union {"manifest_tmp"}] ELSE fsynced
    /\ Goto(a, "manifest_replace")
    /\ UNCHANGED <<place, settled, opened, closed, old, cleanerVars>>

replace_manifest(a) ==
    /\ pc[a] = "manifest_replace"
    /\ content' = [content EXCEPT ![a]["manifest"] = content[a]["manifest_tmp"],
                                  ![a]["manifest_tmp"] = "absent"]
    /\ fsynced' = IF "manifest_tmp" \in fsynced[a]
                  THEN [fsynced EXCEPT ![a] = (@ \ {"manifest_tmp"}) \union {"manifest"}]
                  ELSE fsynced
    /\ listed' = [listed EXCEPT ![a] = @ \ {"manifest", "manifest_tmp"}]
    /\ Goto(a, "manifest_sync")
    /\ UNCHANGED <<place, settled, opened, closed, old, cleanerVars>>

sync_manifest(a) ==
    /\ pc[a] = "manifest_sync"
    /\ Fsync(a, {"manifest"})
    /\ listed' = IF FSYNC_ENABLED
                 THEN [listed EXCEPT ![a] = @ \union (Names \ Nested(a))] ELSE listed
    /\ Goto(a, "done")
    /\ UNCHANGED <<place, content, settled, opened, closed, old, cleanerVars>>

-----------------------------------------------------------------------------
(* Failures.                                                               *)

\* The stage's computation or a call raises (fsync errors are swallowed).
writer_raises(a) ==
    /\ "error" \in Env
    /\ pc[a] \in Raising
    /\ Goto(a, AfterFailure(a))
    /\ CutShort(a)
    /\ UNCHANGED <<place, settled, opened, closed, old, cleanerVars>>

\* discard_staging_dir: rmtree unlinks entry by entry, then rmdirs.
discard_entry(a, f) ==
    /\ pc[a] = "discard"
    /\ place[a] = "staging"
    /\ f \in Present(a)
    /\ Put(a, f, "absent")
    /\ UNCHANGED <<place, settled, writerVars, old, cleanerVars>>

discard_rmdir(a) ==
    /\ pc[a] = "discard"
    /\ place[a] = "staging" => Present(a) = {}
    /\ IF place[a] = "staging" THEN Move(a, "none") ELSE UNCHANGED <<place, settled>>
    /\ Goto(a, "failed")
    /\ UNCHANGED <<content, fsynced, listed, opened, closed, old, cleanerVars>>

\* It ignores errors: what cannot be removed stays.
discard_gives_up(a) ==
    /\ "stuck" \in Env
    /\ pc[a] = "discard"
    /\ Goto(a, "failed")
    /\ UNCHANGED <<dirVars, opened, closed, old, cleanerVars>>

crash(a) ==
    /\ "crash" \in Env
    /\ pc[a] \notin Over
    /\ Goto(a, "dead")
    /\ CutShort(a)
    /\ UNCHANGED <<place, settled, opened, closed, old, cleanerVars>>

\* What the disk may hold for name f, and where a's directory may be, after
\* power is lost now.
Survives(a, f) ==
    CASE f \in listed[a] ->
            IF content[a][f] = "absent" \/ f \in fsynced[a]
            THEN {content[a][f]} ELSE {"partial", content[a][f]}
      [] f \notin listed[a] /\ content[a][f] = "absent" -> Content
      [] OTHER ->
            IF f \in fsynced[a] THEN {"absent", content[a][f]}
            ELSE {"absent", "partial", content[a][f]}

PlaceAfter(a) ==
    IF a \in settled
    THEN IF a \in ParentExists THEN {place[a]} ELSE {"none", place[a]}
    ELSE {"none", "staging", place[a]}

power_loss ==
    /\ "power" \in Env
    /\ \E p \in [Artifacts -> Place] : \E c \in [Artifacts -> [Names -> Content]] :
        /\ \A a \in Artifacts :
              /\ p[a] \in PlaceAfter(a)
              /\ \A f \in Names :
                    IF p[a] = "none" THEN c[a][f] = "absent" ELSE c[a][f] \in Survives(a, f)
        /\ place' = p
        /\ content' = c
        /\ fsynced' = [a \in Artifacts |-> {f \in Names : c[a][f] # "absent"}]
    /\ listed' = [a \in Artifacts |-> Names]
    /\ settled' = Artifacts
    /\ pc' = [a \in Artifacts |-> IF pc[a] \in Over THEN pc[a] ELSE "dead"]
    /\ stale' = {} /\ victim' = {} /\ entries' = {}
    /\ UNCHANGED <<opened, closed, old>>

-----------------------------------------------------------------------------
(* RecoveryService.                                                        *)

\* STALE_STAGING_AFTER_SECONDS go by since started_at.
journal_ages(a) ==
    /\ a \notin old
    /\ content[a]["journal"] = "whole"
    /\ "slow" \in Env \/ pc[a] \in {"failed", "dead"}
    /\ old' = old \union {a}
    /\ UNCHANGED <<dirVars, writerVars, cleanerVars>>

\* Entries with a readable journal beyond the threshold; one without a
\* readable journal is INVALID_STAGING_ENTRY and left alone.
classify_stale == {a \in old : place[a] = "staging" /\ content[a]["journal"] = "whole"}

cleanup_stale ==
    /\ "cleanup" \in Env
    /\ stale = {} /\ victim = {}
    /\ stale' = classify_stale
    /\ stale' # {}
    /\ UNCHANGED <<dirVars, writerVars, old, victim, entries>>

\* rmtree opens the directory and lists it; from here on it works on the
\* open directory, wherever a rename takes that.
begin_rmtree(a) ==
    /\ a \in stale
    /\ victim = {}
    /\ stale' = stale \ {a}
    /\ victim' = IF place[a] = "staging" THEN {a} ELSE {}
    /\ entries' = IF place[a] = "staging" THEN Present(a) ELSE {}
    /\ UNCHANGED <<dirVars, writerVars, old>>

rmtree_unlink(a, f) ==
    /\ a \in victim
    /\ f \in entries
    /\ entries' = entries \ {f}
    /\ IF f \in Present(a) THEN Put(a, f, "absent") ELSE UNCHANGED <<content, fsynced, listed>>
    /\ UNCHANGED <<place, settled, writerVars, old, stale, victim>>

\* rmdir by path: fails, silently, on what moved away or is not empty.
rmtree_rmdir(a) ==
    /\ a \in victim
    /\ entries = {}
    /\ IF place[a] = "staging" /\ Present(a) = {}
       THEN Move(a, "none") ELSE UNCHANGED <<place, settled>>
    /\ victim' = {}
    /\ UNCHANGED <<content, fsynced, listed, writerVars, old, stale, entries>>

rmtree_gives_up(a) ==
    /\ "stuck" \in Env
    /\ a \in victim
    /\ victim' = {} /\ entries' = {}
    /\ UNCHANGED <<dirVars, writerVars, old, stale>>

cleaner_dies ==
    /\ "cleaner_dies" \in Env
    /\ stale # {} \/ victim # {}
    /\ stale' = {} /\ victim' = {} /\ entries' = {}
    /\ UNCHANGED <<dirVars, writerVars, old>>

-----------------------------------------------------------------------------
Write(a) ==
    \/ create_staging_dir(a) \/ write_staging_metadata(a) \/ make_original_dir(a)
    \/ build_rules(a)
    \/ \E f \in Names : open_file(a, f) \/ finish_file(a, f)
    \/ begin_commit(a)

Commit(a) ==
    \/ mark_committing(a) \/ fsync_data(a) \/ fsync_manifest(a) \/ unlink_journal(a)
    \/ fsync_staging_dir(a) \/ rename_staging_dir(a) \/ fsync_parent(a)

RawManifest(a) == write_manifest_tmp(a) \/ replace_manifest(a) \/ sync_manifest(a)

Failure(a) ==
    \/ writer_raises(a) \/ crash(a)
    \/ (\E f \in Names : discard_entry(a, f)) \/ discard_rmdir(a)
    \/ discard_gives_up(a)

Cleanup ==
    \/ cleanup_stale
    \/ \E a \in Artifacts :
          \/ begin_rmtree(a) \/ rmtree_rmdir(a)
          \/ \E f \in Names : rmtree_unlink(a, f)

Next ==
    \/ \E a \in Artifacts :
          Write(a) \/ Commit(a) \/ RawManifest(a) \/ Failure(a) \/ journal_ages(a)
    \/ (\E a \in Artifacts : rmtree_gives_up(a))
    \/ Cleanup \/ cleaner_dies \/ power_loss

Spec == Init /\ [][Next]_vars

\* Time passes, and an operator calls cleanup_stale() again and again.
FairSpec ==
    /\ Spec
    /\ WF_vars(Cleanup)
    /\ \A a \in Artifacts : WF_vars(journal_ages(a))

-----------------------------------------------------------------------------
(* Properties.                                                             *)

\* Every directory, writer and cleaner keeps its type, and rmtree works on
\* one directory at a time.
TypeOK ==
    /\ place \in [Artifacts -> Place]
    /\ content \in [Artifacts -> [Names -> Content]]
    /\ fsynced \in [Artifacts -> SUBSET Names]
    /\ listed \in [Artifacts -> SUBSET Names]
    /\ settled \subseteq Artifacts
    /\ pc \in [Artifacts -> Step]
    /\ opened \in [Artifacts -> SUBSET Names]
    /\ closed \in [Artifacts -> SUBSET Names]
    /\ old \subseteq Artifacts
    /\ stale \subseteq Artifacts
    /\ victim \subseteq Artifacts /\ \A a, b \in victim : a = b
    /\ entries \subseteq Names

\* atomic.py: "no partially written artifact may ever appear at a finalized
\* storage location": whatever raised, died or lost power, and whenever, a
\* directory at its final place holds every file of its writer, whole, no
\* journal, no index of duplicates (duplicates.py: "It never becomes part of a
\* finalized artifact"), and no manifest that is not whole.
PublishedIsWhole ==
    \A a \in Artifacts : place[a] = "final" =>
        /\ \A f \in Payload(a) : content[a][f] = "whole"
        /\ content[a]["journal"] = "absent" /\ content[a]["index"] = "absent"
        /\ content[a]["manifest"] # "partial"

\* What a lookup of the artifact finds.
Reader(a) ==
    IF place[a] # "final" \/ content[a]["manifest"] = "absent" THEN "nothing"
    ELSE IF \A f \in DataFiles \union {"manifest"} : content[a][f] = "whole"
         THEN "whole" ELSE "broken"

\* Whoever was told that a write failed may write the artifact again: whatever
\* was called last, and whatever discarding or cleaning up left behind, no
\* lookup ever finds the one that failed.
FailedIsUnpublished ==
    \A a \in Artifacts : pc[a] = "failed" => Reader(a) = "nothing"

\* A derived stage that raises once its directory has a journal leaves, unless
\* entries cannot be removed, either no directory or one that cleanup_stale()
\* recognises: never one without journal that nobody dares to remove.
FailuresCanBeCleanedUp ==
    [][\A a \in Artifacts \ Raw :
          (pc[a] \notin {"journal", "failed"} /\ pc'[a] = "failed") =>
              place'[a] = "none" \/ content'[a]["journal"] = "whole"]_vars

\* What readers see is what AtomicPublication promises: a lookup finds an
\* artifact whole or not at all, forever once its writer was told so.
Publication == INSTANCE AtomicPublication WITH
    Durable <- ParentExists,
    reader <- [a \in Artifacts |-> Reader(a)],
    acknowledged <- {a \in Artifacts : pc[a] = "done"}

\* The stores implement atomic publication.
PublishesAtomically == Publication!Spec

\* A staging directory whose writer is gone is removed, provided it has its
\* journal and the removal is not itself cut short.
AbandonedStagingIsRemoved ==
    \A a \in Artifacts :
        (pc[a] \in {"failed", "dead"} /\ place[a] = "staging" /\ content[a]["journal"] = "whole")
            ~> place[a] = "none"
=============================================================================
