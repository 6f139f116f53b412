------------------------- MODULE ArtifactStoreProofs -------------------------
(***************************************************************************)
(* Proofs about ArtifactStore, for any set of artifacts and of data files, *)
(* any number of writers at work and any mix of raw uploads and derived    *)
(* artifacts.  Two assumptions say what the stores rely on: no live writer *)
(* outlasts STALE_STAGING_AFTER_SECONDS, and where power may be lost fsync *)
(* is on and no raw upload is stored, since original/ is never fsynced.  A *)
(* third one is for what is left to clean up: rmtree removes what it finds. *)
(***************************************************************************)
EXTENDS ArtifactStore, TLAPS

WritersAreTimely == "slow" \notin Env

FsyncsReachTheDisk == "power" \in Env => FSYNC_ENABLED /\ Raw = {}

EntriesCanBeRemoved == "stuck" \notin Env

(***************************************************************************)
(* The inductive invariant.  What a writer's directory holds is determined *)
(* by where the writer is; what one that is gone left behind is known only *)
(* if it was published.  The cleaner meets the second kind alone, and      *)
(* never at its final place.                                               *)
(***************************************************************************)

Filling == {"idle", "journal", "original", "prepare", "writing"}
Committing == {"commit", "fsync_data", "fsync_manifest", "unlink", "fsync_dir", "rename"}
Staging == (Filling \ {"idle"}) \union Committing \union {"discard"}
Publishing == {"fsync_parent", "manifest_tmp", "manifest_replace", "manifest_sync"}

\* Until the commit begins the directory is what the writer has put into it.
FilledSoFar(a) ==
    pc[a] \in Filling =>
        /\ closed[a] \subseteq opened[a] /\ opened[a] \subseteq Payload(a)
        /\ pc[a] # "writing" => opened[a] = {}
        /\ \A f \in Names \ {"journal", "index"} :
              content[a][f] = IF f \in closed[a] THEN "whole"
                              ELSE IF f \in opened[a] THEN "partial" ELSE "absent"
        /\ content[a]["journal"] = IF pc[a] \in {"idle", "journal"} THEN "absent" ELSE "whole"
        /\ pc[a] # "writing" => content[a]["index"] = "absent"
        /\ pc[a] = "idle" => place[a] = "none" /\ a \in settled /\ listed[a] = Names

\* From then on it holds the whole payload, and the journal until unlink.
FilledWhole(a) ==
    pc[a] \in Committing =>
        /\ \A f \in Names \ {"journal"} :
              content[a][f] = IF f \in Payload(a) THEN "whole" ELSE "absent"
        /\ pc[a] \in {"fsync_dir", "rename"} => content[a]["journal"] = "absent"

\* The steps that only LocalRawStorage takes.
RawSteps(a) ==
    /\ pc[a] \in {"original", "manifest_tmp", "manifest_replace", "manifest_sync"} => a \in Raw
    /\ (pc[a] \in {"fsync_parent", "manifest_tmp", "manifest_replace"} /\ a \in Raw) =>
          content[a]["manifest"] = "absent"
    /\ pc[a] = "manifest_replace" => content[a]["manifest_tmp"] = "whole"
    /\ pc[a] = "manifest_sync" => content[a]["manifest"] = "whole"

Located(a) ==
    /\ pc[a] \in Staging => place[a] = "staging"
    /\ pc[a] \in Publishing => place[a] = "final"

\* What was acknowledged is there, as long as no power loss can take the
\* directory it is in.
Acknowledged(a) ==
    (pc[a] = "done" /\ ("power" \in Env => a \in ParentExists)) =>
        /\ place[a] = "final" /\ content[a]["manifest"] = "whole"
        /\ "power" \in Env => a \in settled

\* The cleaner works on what writers that are gone have left unpublished.
Abandoned(a) ==
    /\ a \in old => pc[a] \in {"failed", "dead"}
    /\ a \in stale \union victim => a \in old /\ place[a] # "final"

WholeIfFinal(a) ==
    place[a] = "final" =>
        /\ \A f \in Payload(a) : content[a][f] = "whole"
        /\ content[a]["journal"] = "absent" /\ content[a]["index"] = "absent"
        /\ content[a]["manifest"] # "partial"

\* With power losses: what the commit has made durable so far.
DurableIfFinal(a) ==
    "power" \in Env =>
        /\ pc[a] = "fsync_manifest" => DataFiles \subseteq fsynced[a]
        /\ (pc[a] \in {"unlink", "fsync_dir", "rename"} \/ place[a] = "final") =>
              Payload(a) \subseteq fsynced[a]
        /\ (pc[a] = "rename" \/ place[a] = "final") => listed[a] = Names

\* What failed has not been published, or lacks the manifest lookups go by.
FailedUnseen(a) ==
    pc[a] = "failed" => place[a] # "final" \/ content[a]["manifest"] = "absent"

Good(a) ==
    /\ FilledSoFar(a) /\ FilledWhole(a) /\ RawSteps(a) /\ Located(a) /\ Acknowledged(a)
    /\ Abandoned(a) /\ WholeIfFinal(a) /\ DurableIfFinal(a) /\ FailedUnseen(a)

Inv == TypeOK /\ \A a \in Artifacts : Good(a)

-----------------------------------------------------------------------------
(* The invariant is inductive.                                             *)

\* Nothing of what the invariant says about b changes.
Kept(b) ==
    /\ place'[b] = place[b] /\ content'[b] = content[b]
    /\ fsynced'[b] = fsynced[b] /\ listed'[b] = listed[b]
    /\ b \in settled' <=> b \in settled
    /\ pc'[b] = pc[b] /\ opened'[b] = opened[b] /\ closed'[b] = closed[b]
    /\ b \in old' <=> b \in old
    /\ b \in stale' \union victim' => b \in stale \union victim

\* A step leaves the invariant alone where it changes nothing it speaks of.
LEMMA KeptIsGood == ASSUME NEW b, Good(b), Kept(b) PROVE Good(b)'
<1> USE DEF Good, Kept, Payload
<1>1. FilledSoFar(b)' /\ FilledWhole(b)' /\ RawSteps(b)' /\ Located(b)'
  BY DEF FilledSoFar, FilledWhole, RawSteps, Located
<1>2. Acknowledged(b)' /\ Abandoned(b)' /\ WholeIfFinal(b)' /\ DurableIfFinal(b)' /\ FailedUnseen(b)'
  BY DEF Acknowledged, Abandoned, WholeIfFinal, DurableIfFinal, FailedUnseen
<1> QED
  BY <1>1, <1>2

\* A step that concerns one artifact has to be looked at for that one alone.
LEMMA OneArtifact ==
    ASSUME Inv, NEW a \in Artifacts, TypeOK', Good(a)', \A b \in Artifacts \ {a} : Kept(b)
    PROVE  Inv'
BY KeptIsGood DEF Inv

\* The empty store satisfies the invariant.
LEMMA InitInv == Init => Inv
<1> SUFFICES ASSUME Init PROVE Inv
  OBVIOUS
<1>1. TypeOK
  BY DEF Init, TypeOK, Place, Content, Step, Over
<1>2. ASSUME NEW a \in Artifacts PROVE Good(a)
  BY DEF Init, Good, FilledSoFar, FilledWhole, RawSteps, Located, Acknowledged, Abandoned,
         WholeIfFinal, DurableIfFinal, FailedUnseen, Filling, Committing, Staging, Publishing, Names, Payload
<1> QED
  BY <1>1, <1>2 DEF Inv

\* Writing a name of one directory changes nothing else, and keeps the types.
LEMMA PutType ==
    ASSUME TypeOK, NEW a \in Artifacts, NEW f \in Names, NEW c \in Content, Put(a, f, c)
    PROVE  /\ content' \in [Artifacts -> [Names -> Content]]
           /\ fsynced' \in [Artifacts -> SUBSET Names]
           /\ listed' \in [Artifacts -> SUBSET Names]
BY DEF TypeOK, Put

\* So does fsyncing some of its names.
LEMMA FsyncType ==
    ASSUME TypeOK, NEW a \in Artifacts, NEW names, Fsync(a, names)
    PROVE  fsynced' \in [Artifacts -> SUBSET Names]
<1>1. names \cap Present(a) \subseteq Names
  BY DEF Present
<1> HIDE DEF Present
<1>2. CASE FSYNC_ENABLED
  <2>1. fsynced' = [fsynced EXCEPT ![a] = fsynced[a] \union (names \cap Present(a))]
    BY <1>2 DEF Fsync
  <2> QED
    BY <1>1, <2>1 DEF TypeOK
<1>3. CASE ~FSYNC_ENABLED
  BY <1>3 DEF Fsync, TypeOK
<1> QED
  BY <1>2, <1>3

\* What an exception or a death in the middle of a call adds is at most one
\* half-written temporary file of the artifact concerned.
LEMMA CutShortAdds ==
    ASSUME TypeOK, NEW a \in Artifacts, CutShort(a)
    PROVE  /\ content' \in [Artifacts -> [Names -> Content]]
           /\ fsynced' \in [Artifacts -> SUBSET Names]
           /\ listed' \in [Artifacts -> SUBSET Names]
           /\ \A b \in Artifacts \ {a} :
                 content'[b] = content[b] /\ fsynced'[b] = fsynced[b] /\ listed'[b] = listed[b]
           /\ \/ content'[a] = content[a] /\ fsynced'[a] = fsynced[a] /\ listed'[a] = listed[a]
              \/ \E f \in {"journal_tmp", "index", "manifest_tmp"} :
                    /\ content'[a] = [content[a] EXCEPT ![f] = "partial"]
                    /\ IF f = "manifest_tmp" THEN pc[a] = "manifest_tmp"
                       ELSE pc[a] \in {"journal", "prepare", "commit"}
<1>1. CASE UNCHANGED <<content, fsynced, listed>>
  BY <1>1 DEF TypeOK
<1>2. ASSUME NEW f \in HalfWritten(a), Put(a, f, "partial")
      PROVE  /\ f \in {"journal_tmp", "index", "manifest_tmp"} /\ f \in Names
             /\ IF f = "manifest_tmp" THEN pc[a] = "manifest_tmp"
                ELSE pc[a] \in {"journal", "prepare", "commit"}
  BY <1>2 DEF HalfWritten, Names
<1>3. "partial" \in Content
  BY DEF Content
<1>4. ASSUME NEW f \in HalfWritten(a), Put(a, f, "partial")
      PROVE  /\ content' \in [Artifacts -> [Names -> Content]]
             /\ fsynced' \in [Artifacts -> SUBSET Names]
             /\ listed' \in [Artifacts -> SUBSET Names]
  BY <1>2, <1>3, <1>4, PutType
<1>5. ASSUME NEW f \in HalfWritten(a), Put(a, f, "partial")
      PROVE  /\ content'[a] = [content[a] EXCEPT ![f] = "partial"]
             /\ \A b \in Artifacts \ {a} :
                   content'[b] = content[b] /\ fsynced'[b] = fsynced[b] /\ listed'[b] = listed[b]
  BY <1>5 DEF Put, TypeOK
<1> QED
  BY <1>1, <1>2, <1>4, <1>5 DEF CutShort

\* So no manifest and no journal is touched.
LEMMA CutShortKeeps ==
    ASSUME TypeOK, NEW a \in Artifacts, CutShort(a), NEW b \in Artifacts
    PROVE  /\ content'[b]["manifest"] = content[b]["manifest"]
           /\ content'[b]["journal"] = content[b]["journal"]
<1>1. ASSUME NEW f \in HalfWritten(a), Put(a, f, "partial")
      PROVE  /\ content'[b]["manifest"] = content[b]["manifest"]
             /\ content'[b]["journal"] = content[b]["journal"]
  <2>1. f \notin {"manifest", "journal"}
    BY <1>1 DEF HalfWritten
  <2>2. content' = [content EXCEPT ![a] = [content[a] EXCEPT ![f] = "partial"]]
    BY <1>1 DEF Put
  <2>3. content[a] \in [Names -> Content] /\ {"manifest", "journal"} \subseteq Names
    BY DEF TypeOK, Names
  <2> QED
    BY <2>1, <2>2, <2>3 DEF TypeOK
<1> QED
  BY <1>1 DEF CutShort

\* Every step keeps the types.
LEMMA TypeStep == ASSUME TypeOK, [Next]_vars PROVE TypeOK'
<1> USE StoreAssumption DEF Step, Over, Raising, Place, Goto, Move
<1>0. /\ {"absent", "partial", "whole"} = Content
      /\ DataFiles \subseteq Names /\ {"manifest", "manifest_tmp", "journal", "index"} \subseteq Names
      /\ \A a \in Artifacts : Payload(a) \subseteq Names /\ Present(a) \subseteq Names
      /\ \A a \in Artifacts : AfterFailure(a) \in Step
  BY DEF Content, Names, Payload, Present, AfterFailure
<1>1. ASSUME NEW a \in Artifacts, Write(a) PROVE TypeOK'
  <2>1. CASE create_staging_dir(a)
    BY <2>1 DEF TypeOK, create_staging_dir, cleanerVars
  <2>2. CASE write_staging_metadata(a)
    BY <1>0, <2>2, PutType DEF TypeOK, write_staging_metadata, cleanerVars
  <2>3. CASE make_original_dir(a)
    BY <1>0, <2>3 DEF TypeOK, make_original_dir, cleanerVars
  <2>4. ASSUME NEW f \in Names, open_file(a, f) PROVE TypeOK'
    <3>1. CASE place[a] = "staging"
      <4>1. Put(a, f, "partial") /\ opened' = [opened EXCEPT ![a] = opened[a] \union {f}]
        BY <2>4, <3>1 DEF open_file
      <4>2. opened' \in [Artifacts -> SUBSET Names]
        BY <4>1 DEF TypeOK
      <4> QED
        BY <1>0, <2>4, <3>1, <4>1, <4>2, PutType DEF TypeOK, open_file, cleanerVars
    <3>2. CASE place[a] # "staging"
      BY SMTT(30), <1>0, <2>4, <3>2 DEF TypeOK, open_file, cleanerVars
    <3> QED
      BY <3>1, <3>2
  <2>5. ASSUME NEW f \in Names, finish_file(a, f) PROVE TypeOK'
    <3>1. CASE content[a][f] = "partial"
      BY <1>0, <2>5, <3>1, PutType DEF TypeOK, finish_file, cleanerVars
    <3>2. CASE content[a][f] # "partial"
      BY <2>5, <3>2 DEF TypeOK, finish_file, cleanerVars
    <3> QED
      BY <3>1, <3>2
  <2>6. CASE begin_commit(a)
    <3>1. CASE content[a]["index"] = "absent"
      BY <2>6, <3>1 DEF TypeOK, begin_commit, cleanerVars
    <3>2. CASE content[a]["index"] # "absent"
      BY <1>0, <2>6, <3>2, PutType DEF TypeOK, begin_commit, cleanerVars
    <3> QED
      BY <3>1, <3>2
  <2>7. CASE build_rules(a)
    <3>1. CASE place[a] = "staging"
      BY <1>0, <2>7, <3>1, PutType DEF TypeOK, build_rules, cleanerVars
    <3>2. CASE place[a] # "staging"
      BY <1>0, <2>7, <3>2 DEF TypeOK, build_rules, cleanerVars
    <3> QED
      BY <3>1, <3>2
  <2> QED
    BY <1>1, <2>1, <2>2, <2>3, <2>4, <2>5, <2>6, <2>7 DEF Write
<1>2. ASSUME NEW a \in Artifacts, Commit(a) PROVE TypeOK'
  <2>1. CASE mark_committing(a)
    <3>1. CASE content[a]["journal"] = "whole"
      BY <1>0, <2>1, <3>1, PutType DEF TypeOK, mark_committing, cleanerVars
    <3>2. CASE content[a]["journal"] # "whole"
      BY <2>1, <3>2 DEF TypeOK, mark_committing, cleanerVars
    <3> QED
      BY <3>1, <3>2
  <2>2. CASE fsync_data(a) \/ fsync_manifest(a)
    <3>1. fsynced' \in [Artifacts -> SUBSET Names]
      BY <2>2, FsyncType DEF fsync_data, fsync_manifest
    <3> QED
      BY <2>2, <3>1 DEF TypeOK, fsync_data, fsync_manifest, cleanerVars
  <2>3. CASE unlink_journal(a)
    BY <1>0, <2>3, PutType DEF TypeOK, unlink_journal, cleanerVars
  <2>4. CASE fsync_staging_dir(a)
    BY <2>4 DEF TypeOK, fsync_staging_dir, cleanerVars
  <2>5. CASE rename_staging_dir(a)
    BY ZenonT(30), <1>0, <2>5 DEF TypeOK, rename_staging_dir, cleanerVars
  <2>6. CASE fsync_parent(a)
    BY <2>6 DEF TypeOK, fsync_parent, cleanerVars
  <2> QED
    BY <1>2, <2>1, <2>2, <2>3, <2>4, <2>5, <2>6 DEF Commit
<1>3. ASSUME NEW a \in Artifacts, RawManifest(a) PROVE TypeOK'
  <2>1. CASE write_manifest_tmp(a)
    BY <1>0, <2>1 DEF TypeOK, write_manifest_tmp, cleanerVars
  <2>2. CASE replace_manifest(a)
    <3>1. content' \in [Artifacts -> [Names -> Content]]
      <4>1. content[a] \in [Names -> Content] /\ content[a]["manifest_tmp"] \in Content
        BY <1>0 DEF TypeOK
      <4>2. [content[a] EXCEPT !["manifest"] = content[a]["manifest_tmp"],
                               !["manifest_tmp"] = "absent"] \in [Names -> Content]
        BY <1>0, <4>1
      <4>3. content' = [content EXCEPT ![a] =
                          [content[a] EXCEPT !["manifest"] = content[a]["manifest_tmp"],
                                             !["manifest_tmp"] = "absent"]]
        BY <2>2 DEF replace_manifest, TypeOK
      <4> QED BY <4>2, <4>3 DEF TypeOK
    <3>2. fsynced' \in [Artifacts -> SUBSET Names] /\ listed' \in [Artifacts -> SUBSET Names]
      BY <1>0, <2>2 DEF TypeOK, replace_manifest
    <3> QED
      BY <2>2, <3>1, <3>2 DEF TypeOK, replace_manifest, cleanerVars
  <2>3. CASE sync_manifest(a)
    BY <1>0, <2>3 DEF TypeOK, sync_manifest, Fsync, cleanerVars
  <2> QED
    BY <1>3, <2>1, <2>2, <2>3 DEF RawManifest
<1>4. ASSUME NEW a \in Artifacts, Failure(a) PROVE TypeOK'
  <2>1. CASE writer_raises(a)
    BY <1>0, <2>1, CutShortAdds DEF TypeOK, writer_raises, cleanerVars
  <2>2. CASE crash(a)
    BY <2>2, CutShortAdds DEF TypeOK, crash, cleanerVars
  <2>3. ASSUME NEW f \in Names, discard_entry(a, f) PROVE TypeOK'
    BY <1>0, <2>3, PutType DEF TypeOK, discard_entry, writerVars, cleanerVars
  <2>4. CASE discard_rmdir(a)
    BY <2>4 DEF TypeOK, discard_rmdir, cleanerVars
  <2>5. CASE discard_gives_up(a)
    BY <2>5 DEF TypeOK, discard_gives_up, dirVars, cleanerVars
  <2> QED
    BY <1>4, <2>1, <2>2, <2>3, <2>4, <2>5 DEF Failure
<1>5. ASSUME NEW a \in Artifacts, journal_ages(a) PROVE TypeOK'
  BY <1>5 DEF TypeOK, journal_ages, dirVars, writerVars, cleanerVars
<1>6. CASE Cleanup
  <2>1. CASE cleanup_stale
    BY <2>1 DEF TypeOK, cleanup_stale, classify_stale, dirVars, writerVars
  <2>2. ASSUME NEW a \in Artifacts, begin_rmtree(a) PROVE TypeOK'
    <3>1. /\ victim' \in {{a}, {}}
          /\ entries' \in {Present(a), {}}
          /\ UNCHANGED <<dirVars, writerVars, old>> /\ stale' = stale \ {a}
      BY <2>2 DEF begin_rmtree
    <3> QED
      BY <1>0, <3>1 DEF TypeOK, dirVars, writerVars
  <2>3. ASSUME NEW a \in Artifacts, NEW f \in Names, rmtree_unlink(a, f) PROVE TypeOK'
    <3>1. CASE f \in Present(a)
      BY <1>0, <2>3, <3>1, PutType DEF TypeOK, rmtree_unlink, writerVars
    <3>2. CASE f \notin Present(a)
      BY <2>3, <3>2 DEF TypeOK, rmtree_unlink, writerVars
    <3> QED
      BY <3>1, <3>2
  <2>4. ASSUME NEW a \in Artifacts, rmtree_rmdir(a) PROVE TypeOK'
    BY <2>4 DEF TypeOK, rmtree_rmdir, writerVars
  <2> QED
    BY <1>6, <2>1, <2>2, <2>3, <2>4 DEF Cleanup
<1>7. CASE cleaner_dies \/ \E a \in Artifacts : rmtree_gives_up(a)
  BY <1>7 DEF TypeOK, cleaner_dies, rmtree_gives_up, dirVars, writerVars
<1>8. CASE power_loss
  BY <1>8 DEF TypeOK, power_loss
<1>9. CASE UNCHANGED vars
  BY <1>9 DEF TypeOK, vars
<1> QED
  BY <1>1, <1>2, <1>3, <1>4, <1>5, <1>6, <1>7, <1>8, <1>9 DEF Next

\* create_staging_dir, its journal, the mkdir of original/ and the building of
\* the rules keep the invariant.
LEMMA StagingStep ==
    ASSUME Inv, TypeOK', NEW a \in Artifacts,
           create_staging_dir(a) \/ write_staging_metadata(a) \/ make_original_dir(a)
              \/ build_rules(a)
    PROVE  Inv'
<1> USE StoreAssumption DEF Filling, Committing, Staging, Publishing, Names, Payload
<1>1. CASE create_staging_dir(a)
  <2>1. /\ place'[a] = "staging"
        /\ content'[a] = content[a]
        /\ fsynced'[a] = fsynced[a]
        /\ listed'[a] = listed[a]
        /\ pc'[a] = "journal"
        /\ opened'[a] = opened[a]
        /\ closed'[a] = closed[a]
        /\ (a \in old' <=> a \in old)
        /\ a \in stale' \union victim' => a \in stale \union victim
    BY <1>1 DEF Inv, TypeOK, create_staging_dir, Goto, Move, cleanerVars
  <2>2. FilledSoFar(a)' /\ FilledWhole(a)' /\ FailedUnseen(a)'
    BY <1>1, <2>1
    DEF Inv, TypeOK, Good, FilledSoFar, FilledWhole, Located, Abandoned, FailedUnseen,
        create_staging_dir
  <2>3. RawSteps(a)' /\ Located(a)' /\ Abandoned(a)'
    BY <1>1, <2>1
    DEF Inv, TypeOK, Good, FilledSoFar, FilledWhole, RawSteps, Located, Abandoned,
        create_staging_dir
  <2>4. Acknowledged(a)' /\ WholeIfFinal(a)'
    BY <1>1, <2>1
    DEF Inv, TypeOK, Good, FilledWhole, RawSteps, Located, Acknowledged, Abandoned, WholeIfFinal,
        create_staging_dir
  <2>5. DurableIfFinal(a)'
    BY <1>1, <2>1
    DEF Inv, TypeOK, Good, FilledWhole, RawSteps, Located, Abandoned, DurableIfFinal,
        create_staging_dir
  <2>6. \A b \in Artifacts \ {a} : Kept(b)
    BY <1>1 DEF Inv, TypeOK, Kept, create_staging_dir, Goto, Move, cleanerVars
  <2> QED
    BY <2>2, <2>3, <2>4, <2>5, <2>6, OneArtifact DEF Good
<1>2. CASE write_staging_metadata(a)
  <2>1. /\ place'[a] = place[a]
        /\ content'[a] = [content[a] EXCEPT !["journal"] = "whole"]
        /\ fsynced'[a] = fsynced[a] \ {"journal"}
        /\ listed'[a] = listed[a] \ {"journal"}
        /\ (a \in settled' <=> a \in settled)
        /\ pc'[a] = IF a \in Raw THEN "original" ELSE IF a \in Indexed THEN "prepare" ELSE "writing"
        /\ opened'[a] = opened[a]
        /\ closed'[a] = closed[a]
        /\ (a \in old' <=> a \in old)
        /\ a \in stale' \union victim' => a \in stale \union victim
    BY <1>2 DEF Inv, TypeOK, write_staging_metadata, Goto, Put, cleanerVars
  <2>2. FilledSoFar(a)' /\ FilledWhole(a)' /\ FailedUnseen(a)'
    <3>1. /\ opened[a] = {} /\ closed[a] = {}
          /\ \A f \in Names \ {"journal"} : content'[a][f] = "absent"
          /\ content'[a]["journal"] = "whole"
      <4>1. FilledSoFar(a) /\ pc[a] = "journal"
        BY <1>2 DEF Inv, Good, write_staging_metadata
      <4>2. opened[a] = {} /\ closed[a] = {}
        BY <4>1 DEF FilledSoFar
      <4>3. \A f \in Names \ {"journal"} : content[a][f] = "absent"
        BY <4>1, <4>2 DEF FilledSoFar
      <4>4. content[a] \in [Names -> Content]
        BY DEF Inv, TypeOK
      <4> QED
        BY <2>1, <4>2, <4>3, <4>4
    <3>2. pc'[a] \in {"original", "prepare", "writing"}
      BY <2>1
    <3>3. FilledSoFar(a)'
      <4>1. opened'[a] = {} /\ closed'[a] = {}
        BY <2>1, <3>1
      <4> QED
        BY <3>1, <3>2, <4>1 DEF FilledSoFar
    <3> QED
      BY <3>2, <3>3 DEF FilledWhole, FailedUnseen
  <2>3. RawSteps(a)' /\ Located(a)' /\ Abandoned(a)'
    BY <1>2, <2>1
    DEF Inv, TypeOK, Good, FilledSoFar, FilledWhole, RawSteps, Located, Abandoned,
        write_staging_metadata
  <2>4. Acknowledged(a)' /\ WholeIfFinal(a)'
    BY <1>2, <2>1
    DEF Inv, TypeOK, Good, FilledWhole, RawSteps, Located, Acknowledged, Abandoned, WholeIfFinal,
        write_staging_metadata
  <2>5. DurableIfFinal(a)'
    BY <1>2, <2>1
    DEF Inv, TypeOK, Good, FilledWhole, RawSteps, Located, Abandoned, DurableIfFinal,
        write_staging_metadata
  <2>6. \A b \in Artifacts \ {a} : Kept(b)
    BY <1>2 DEF Inv, TypeOK, Kept, write_staging_metadata, Goto, Put, cleanerVars
  <2> QED
    BY <2>2, <2>3, <2>4, <2>5, <2>6, OneArtifact DEF Good
<1>3. CASE make_original_dir(a)
  <2>1. /\ place'[a] = place[a]
        /\ content'[a] = content[a]
        /\ fsynced'[a] = fsynced[a]
        /\ listed'[a] = listed[a]
        /\ (a \in settled' <=> a \in settled)
        /\ pc'[a] = "writing"
        /\ opened'[a] = opened[a]
        /\ closed'[a] = closed[a]
        /\ (a \in old' <=> a \in old)
        /\ a \in stale' \union victim' => a \in stale \union victim
    BY <1>3 DEF Inv, TypeOK, make_original_dir, Goto, cleanerVars, Good, Located
  <2>2. FilledSoFar(a)' /\ FilledWhole(a)' /\ FailedUnseen(a)'
    BY <1>3, <2>1
    DEF Inv, TypeOK, Good, FilledSoFar, FilledWhole, Located, Abandoned, FailedUnseen,
        make_original_dir
  <2>3. RawSteps(a)' /\ Located(a)' /\ Abandoned(a)'
    BY <1>3, <2>1
    DEF Inv, TypeOK, Good, FilledSoFar, FilledWhole, RawSteps, Located, Abandoned, make_original_dir
  <2>4. Acknowledged(a)' /\ WholeIfFinal(a)'
    BY <1>3, <2>1
    DEF Inv, TypeOK, Good, FilledWhole, RawSteps, Located, Acknowledged, Abandoned, WholeIfFinal,
        make_original_dir
  <2>5. DurableIfFinal(a)'
    BY <1>3, <2>1
    DEF Inv, TypeOK, Good, FilledWhole, RawSteps, Located, Abandoned, DurableIfFinal,
        make_original_dir
  <2>6. \A b \in Artifacts \ {a} : Kept(b)
    BY <1>3 DEF Inv, TypeOK, Kept, make_original_dir, Goto, cleanerVars, Good, Located
  <2> QED
    BY <2>2, <2>3, <2>4, <2>5, <2>6, OneArtifact DEF Good
<1>4. CASE build_rules(a)
  <2>1. /\ place'[a] = place[a]
        /\ content'[a] = [content[a] EXCEPT !["index"] = "partial"]
        /\ (a \in settled' <=> a \in settled)
        /\ pc'[a] = "writing"
        /\ opened'[a] = opened[a]
        /\ closed'[a] = closed[a]
        /\ (a \in old' <=> a \in old)
        /\ a \in stale' \union victim' => a \in stale \union victim
    BY <1>4 DEF Inv, TypeOK, build_rules, Goto, Put, cleanerVars, Good, Located
  <2>2. FilledSoFar(a)' /\ FilledWhole(a)' /\ FailedUnseen(a)'
    BY SMTT(30), <1>4, <2>1
    DEF Inv, TypeOK, Good, FilledSoFar, FilledWhole, Located, Abandoned, FailedUnseen,
        build_rules
  <2>3. RawSteps(a)' /\ Located(a)' /\ Abandoned(a)'
    BY <1>4, <2>1
    DEF Inv, TypeOK, Good, FilledSoFar, FilledWhole, RawSteps, Located, Abandoned, build_rules
  <2>4. Acknowledged(a)' /\ WholeIfFinal(a)'
    BY <1>4, <2>1
    DEF Inv, TypeOK, Good, FilledWhole, RawSteps, Located, Acknowledged, Abandoned, WholeIfFinal,
        build_rules
  <2>5. DurableIfFinal(a)'
    BY <1>4, <2>1
    DEF Inv, TypeOK, Good, FilledWhole, RawSteps, Located, Abandoned, DurableIfFinal,
        build_rules
  <2>6. \A b \in Artifacts \ {a} : Kept(b)
    BY <1>4 DEF Inv, TypeOK, Kept, build_rules, Goto, Put, cleanerVars, Good, Located
  <2> QED
    BY <2>2, <2>3, <2>4, <2>5, <2>6, OneArtifact DEF Good
<1> QED
  BY <1>1, <1>2, <1>3, <1>4

\* Streaming the files, in whatever order, keeps the invariant.
LEMMA WritingStep ==
    ASSUME Inv, TypeOK', NEW a \in Artifacts, NEW f \in Names,
           open_file(a, f) \/ finish_file(a, f) \/ begin_commit(a)
    PROVE  Inv'
<1> USE StoreAssumption DEF Filling, Committing, Staging, Publishing, Names, Payload
<1>1. CASE open_file(a, f)
  <2>1. /\ place'[a] = place[a]
        /\ content'[a] = [content[a] EXCEPT ![f] = "partial"]
        /\ fsynced'[a] = fsynced[a] \ {f}
        /\ listed'[a] = listed[a] \ {f}
        /\ (a \in settled' <=> a \in settled)
        /\ pc'[a] = pc[a]
        /\ opened'[a] = opened[a] \union {f}
        /\ closed'[a] = closed[a]
        /\ (a \in old' <=> a \in old)
        /\ a \in stale' \union victim' => a \in stale \union victim
    BY <1>1 DEF Inv, TypeOK, open_file, Goto, Put, cleanerVars, Good, Located
  <2>2. FilledSoFar(a)' /\ FilledWhole(a)' /\ FailedUnseen(a)'
    BY <1>1, <2>1
    DEF Inv, TypeOK, Good, FilledSoFar, FilledWhole, Located, Abandoned, FailedUnseen, open_file
  <2>3. RawSteps(a)' /\ Located(a)' /\ Abandoned(a)'
    BY <1>1, <2>1
    DEF Inv, TypeOK, Good, FilledSoFar, FilledWhole, RawSteps, Located, Abandoned, open_file
  <2>4. Acknowledged(a)' /\ WholeIfFinal(a)'
    BY <1>1, <2>1
    DEF Inv, TypeOK, Good, FilledWhole, RawSteps, Located, Acknowledged, Abandoned, WholeIfFinal,
        open_file
  <2>5. DurableIfFinal(a)'
    BY <1>1, <2>1
    DEF Inv, TypeOK, Good, FilledWhole, RawSteps, Located, Abandoned, DurableIfFinal, open_file
  <2>6. \A b \in Artifacts \ {a} : Kept(b)
    BY <1>1 DEF Inv, TypeOK, Kept, open_file, Goto, Put, cleanerVars, Good, Located
  <2> QED
    BY <2>2, <2>3, <2>4, <2>5, <2>6, OneArtifact DEF Good
<1>2. CASE finish_file(a, f)
  <2>0. content[a][f] = "partial"
    BY <1>2 DEF Inv, TypeOK, Good, FilledSoFar, finish_file
  <2>1. /\ place'[a] = place[a]
        /\ content'[a] = [content[a] EXCEPT ![f] = "whole"]
        /\ fsynced'[a] = fsynced[a] \ {f}
        /\ listed'[a] = listed[a] \ {f}
        /\ (a \in settled' <=> a \in settled)
        /\ pc'[a] = pc[a]
        /\ opened'[a] = opened[a]
        /\ closed'[a] = closed[a] \union {f}
        /\ (a \in old' <=> a \in old)
        /\ a \in stale' \union victim' => a \in stale \union victim
    BY <1>2, <2>0 DEF Inv, TypeOK, finish_file, Goto, Put, cleanerVars
  <2>2. FilledSoFar(a)' /\ FilledWhole(a)' /\ FailedUnseen(a)'
    <3>1. /\ pc[a] = "writing" /\ f \in opened[a] /\ f \notin {"journal", "index"}
          /\ closed[a] \subseteq opened[a] /\ opened[a] \subseteq Payload(a)
      BY <1>2 DEF Inv, Good, FilledSoFar, finish_file
    <3>2. \A g \in Names \ {"journal", "index"} :
             content'[a][g] = IF g \in closed'[a] THEN "whole"
                              ELSE IF g \in opened'[a] THEN "partial" ELSE "absent"
      BY <2>1, <3>1 DEF Inv, TypeOK, Good, FilledSoFar
    <3>3. FilledSoFar(a)'
      BY <2>1, <3>1, <3>2 DEF Inv, TypeOK, Good, FilledSoFar
    <3> QED
      BY <2>1, <3>1, <3>3 DEF FilledWhole, FailedUnseen
  <2>3. RawSteps(a)' /\ Located(a)' /\ Abandoned(a)'
    BY <1>2, <2>1
    DEF Inv, TypeOK, Good, FilledSoFar, FilledWhole, RawSteps, Located, Abandoned, finish_file
  <2>4. Acknowledged(a)' /\ WholeIfFinal(a)'
    BY <1>2, <2>1
    DEF Inv, TypeOK, Good, FilledWhole, RawSteps, Located, Acknowledged, Abandoned, WholeIfFinal,
        finish_file
  <2>5. DurableIfFinal(a)'
    BY <1>2, <2>1
    DEF Inv, TypeOK, Good, FilledWhole, RawSteps, Located, Abandoned, DurableIfFinal, finish_file
  <2>6. \A b \in Artifacts \ {a} : Kept(b)
    BY <1>2, <2>0 DEF Inv, TypeOK, Kept, finish_file, Goto, Put, cleanerVars
  <2> QED
    BY <2>2, <2>3, <2>4, <2>5, <2>6, OneArtifact DEF Good
<1>3. CASE begin_commit(a)
  <2>1. /\ place'[a] = place[a]
        /\ content'[a] = [content[a] EXCEPT !["index"] = "absent"]
        /\ (a \in settled' <=> a \in settled)
        /\ pc'[a] = "commit"
        /\ opened'[a] = opened[a]
        /\ closed'[a] = closed[a]
        /\ (a \in old' <=> a \in old)
        /\ a \in stale' \union victim' => a \in stale \union victim
    BY <1>3 DEF Inv, TypeOK, begin_commit, Goto, Put, cleanerVars
  <2>2. FilledSoFar(a)' /\ FilledWhole(a)' /\ FailedUnseen(a)'
    BY <1>3, <2>1
    DEF Inv, TypeOK, Good, FilledSoFar, FilledWhole, Located, Abandoned, FailedUnseen,
        begin_commit
  <2>3. RawSteps(a)' /\ Located(a)' /\ Abandoned(a)'
    BY <1>3, <2>1
    DEF Inv, TypeOK, Good, FilledSoFar, FilledWhole, RawSteps, Located, Abandoned, begin_commit
  <2>4. Acknowledged(a)' /\ WholeIfFinal(a)'
    BY <1>3, <2>1
    DEF Inv, TypeOK, Good, FilledWhole, RawSteps, Located, Acknowledged, Abandoned, WholeIfFinal,
        begin_commit
  <2>5. DurableIfFinal(a)'
    BY <1>3, <2>1
    DEF Inv, TypeOK, Good, FilledWhole, RawSteps, Located, Abandoned, DurableIfFinal, begin_commit
  <2>6. \A b \in Artifacts \ {a} : Kept(b)
    BY <1>3 DEF Inv, TypeOK, Kept, begin_commit, Goto, Put, cleanerVars
  <2> QED
    BY <2>2, <2>3, <2>4, <2>5, <2>6, OneArtifact DEF Good
<1> QED
  BY <1>1, <1>2, <1>3

\* The steps of commit_staging_dir up to the rename keep the invariant.
LEMMA CommitStep ==
    ASSUME Inv, TypeOK', FsyncsReachTheDisk, NEW a \in Artifacts,
           mark_committing(a) \/ fsync_data(a) \/ fsync_manifest(a) \/ unlink_journal(a) \/ fsync_staging_dir(a)
    PROVE  Inv'
<1> USE StoreAssumption DEF Filling, Committing, Staging, Publishing, Names, Payload,
        FsyncsReachTheDisk
<1>1. CASE mark_committing(a)
  <2>1. /\ place'[a] = place[a]
        /\ \A f \in Names : content'[a][f] = content[a][f]
        /\ (a \in settled' <=> a \in settled)
        /\ pc'[a] = "fsync_data"
        /\ opened'[a] = opened[a]
        /\ closed'[a] = closed[a]
        /\ (a \in old' <=> a \in old)
        /\ a \in stale' \union victim' => a \in stale \union victim
    BY <1>1 DEF Inv, TypeOK, mark_committing, Goto, Put, cleanerVars
  <2>2. FilledSoFar(a)' /\ FilledWhole(a)' /\ FailedUnseen(a)'
    BY <1>1, <2>1
    DEF Inv, TypeOK, Good, FilledSoFar, FilledWhole, Located, Abandoned, FailedUnseen,
        mark_committing
  <2>3. RawSteps(a)' /\ Located(a)' /\ Abandoned(a)'
    BY <1>1, <2>1
    DEF Inv, TypeOK, Good, FilledSoFar, FilledWhole, RawSteps, Located, Abandoned, mark_committing
  <2>4. Acknowledged(a)' /\ WholeIfFinal(a)'
    BY <1>1, <2>1
    DEF Inv, TypeOK, Good, FilledWhole, RawSteps, Located, Acknowledged, Abandoned, WholeIfFinal,
        mark_committing
  <2>5. DurableIfFinal(a)'
    BY <1>1, <2>1
    DEF Inv, TypeOK, Good, FilledWhole, RawSteps, Located, Abandoned, DurableIfFinal,
        mark_committing
  <2>6. \A b \in Artifacts \ {a} : Kept(b)
    BY <1>1 DEF Inv, TypeOK, Kept, mark_committing, Goto, Put, cleanerVars
  <2> QED
    BY <2>2, <2>3, <2>4, <2>5, <2>6, OneArtifact DEF Good
<1>2. CASE fsync_data(a)
  <2>1. /\ place'[a] = place[a]
        /\ content'[a] = content[a]
        /\ FSYNC_ENABLED => fsynced'[a] = fsynced[a] \union (DataFiles \cap Present(a))
        /\ listed'[a] = listed[a]
        /\ (a \in settled' <=> a \in settled)
        /\ pc'[a] = "fsync_manifest"
        /\ opened'[a] = opened[a]
        /\ closed'[a] = closed[a]
        /\ (a \in old' <=> a \in old)
        /\ a \in stale' \union victim' => a \in stale \union victim
    BY <1>2 DEF Inv, TypeOK, fsync_data, Goto, Fsync, cleanerVars
  <2>2. FilledSoFar(a)' /\ FilledWhole(a)' /\ FailedUnseen(a)'
    BY <1>2, <2>1
    DEF Inv, TypeOK, Good, FilledSoFar, FilledWhole, Located, Abandoned, FailedUnseen,
        fsync_data, Present
  <2>3. RawSteps(a)' /\ Located(a)' /\ Abandoned(a)'
    BY <1>2, <2>1
    DEF Inv, TypeOK, Good, FilledSoFar, FilledWhole, RawSteps, Located, Abandoned, fsync_data,
        Present
  <2>4. Acknowledged(a)' /\ WholeIfFinal(a)'
    BY <1>2, <2>1
    DEF Inv, TypeOK, Good, FilledWhole, RawSteps, Located, Acknowledged, Abandoned, WholeIfFinal,
        fsync_data, Present
  <2>5. DurableIfFinal(a)'
    BY <1>2, <2>1
    DEF Inv, TypeOK, Good, FilledWhole, RawSteps, Located, Abandoned, DurableIfFinal, fsync_data,
        Present
  <2>6. \A b \in Artifacts \ {a} : Kept(b)
    BY <1>2 DEF Inv, TypeOK, Kept, fsync_data, Goto, Fsync, cleanerVars
  <2> QED
    BY <2>2, <2>3, <2>4, <2>5, <2>6, OneArtifact DEF Good
<1>3. CASE fsync_manifest(a)
  <2>1. /\ place'[a] = place[a]
        /\ content'[a] = content[a]
        /\ FSYNC_ENABLED => fsynced'[a] = fsynced[a] \union ({"manifest"} \cap Present(a))
        /\ listed'[a] = listed[a]
        /\ (a \in settled' <=> a \in settled)
        /\ pc'[a] = "unlink"
        /\ opened'[a] = opened[a]
        /\ closed'[a] = closed[a]
        /\ (a \in old' <=> a \in old)
        /\ a \in stale' \union victim' => a \in stale \union victim
    BY <1>3 DEF Inv, TypeOK, fsync_manifest, Goto, Fsync, cleanerVars
  <2>2. FilledSoFar(a)' /\ FilledWhole(a)' /\ FailedUnseen(a)'
    BY <1>3, <2>1
    DEF Inv, TypeOK, Good, FilledSoFar, FilledWhole, Located, Abandoned, FailedUnseen,
        fsync_manifest, Present
  <2>3. RawSteps(a)' /\ Located(a)' /\ Abandoned(a)'
    BY <1>3, <2>1
    DEF Inv, TypeOK, Good, FilledSoFar, FilledWhole, RawSteps, Located, Abandoned, fsync_manifest,
        Present
  <2>4. Acknowledged(a)' /\ WholeIfFinal(a)'
    BY <1>3, <2>1
    DEF Inv, TypeOK, Good, FilledWhole, RawSteps, Located, Acknowledged, Abandoned, WholeIfFinal,
        fsync_manifest, Present
  <2>5. DurableIfFinal(a)'
    BY SMTT(30), <1>3, <2>1
    DEF Inv, TypeOK, Good, FilledWhole, RawSteps, Located, Abandoned, DurableIfFinal,
        fsync_manifest, Present
  <2>6. \A b \in Artifacts \ {a} : Kept(b)
    BY <1>3 DEF Inv, TypeOK, Kept, fsync_manifest, Goto, Fsync, cleanerVars
  <2> QED
    BY <2>2, <2>3, <2>4, <2>5, <2>6, OneArtifact DEF Good
<1>4. CASE unlink_journal(a)
  <2>1. /\ place'[a] = place[a]
        /\ content'[a] = [content[a] EXCEPT !["journal"] = "absent"]
        /\ fsynced'[a] = fsynced[a] \ {"journal"}
        /\ listed'[a] = listed[a] \ {"journal"}
        /\ (a \in settled' <=> a \in settled)
        /\ pc'[a] = "fsync_dir"
        /\ opened'[a] = opened[a]
        /\ closed'[a] = closed[a]
        /\ (a \in old' <=> a \in old)
        /\ a \in stale' \union victim' => a \in stale \union victim
    BY <1>4 DEF Inv, TypeOK, unlink_journal, Goto, Put, cleanerVars
  <2>2. FilledSoFar(a)' /\ FilledWhole(a)' /\ FailedUnseen(a)'
    BY <1>4, <2>1
    DEF Inv, TypeOK, Good, FilledSoFar, FilledWhole, Located, Abandoned, FailedUnseen,
        unlink_journal
  <2>3. RawSteps(a)' /\ Located(a)' /\ Abandoned(a)'
    BY <1>4, <2>1
    DEF Inv, TypeOK, Good, FilledSoFar, FilledWhole, RawSteps, Located, Abandoned, unlink_journal
  <2>4. Acknowledged(a)' /\ WholeIfFinal(a)'
    BY <1>4, <2>1
    DEF Inv, TypeOK, Good, FilledWhole, RawSteps, Located, Acknowledged, Abandoned, WholeIfFinal,
        unlink_journal
  <2>5. DurableIfFinal(a)'
    BY <1>4, <2>1
    DEF Inv, TypeOK, Good, FilledWhole, RawSteps, Located, Abandoned, DurableIfFinal, unlink_journal
  <2>6. \A b \in Artifacts \ {a} : Kept(b)
    BY <1>4 DEF Inv, TypeOK, Kept, unlink_journal, Goto, Put, cleanerVars
  <2> QED
    BY <2>2, <2>3, <2>4, <2>5, <2>6, OneArtifact DEF Good
<1>5. CASE fsync_staging_dir(a)
  <2>1. /\ place'[a] = place[a]
        /\ content'[a] = content[a]
        /\ fsynced'[a] = fsynced[a]
        /\ FSYNC_ENABLED => listed'[a] = listed[a] \union (Names \ Nested(a))
        /\ (a \in settled' <=> a \in settled)
        /\ pc'[a] = "rename"
        /\ opened'[a] = opened[a]
        /\ closed'[a] = closed[a]
        /\ (a \in old' <=> a \in old)
        /\ a \in stale' \union victim' => a \in stale \union victim
    BY <1>5 DEF Inv, TypeOK, fsync_staging_dir, Goto, cleanerVars
  <2>2. FilledSoFar(a)' /\ FilledWhole(a)' /\ FailedUnseen(a)'
    BY <1>5, <2>1
    DEF Inv, TypeOK, Good, FilledSoFar, FilledWhole, Located, Abandoned, FailedUnseen,
        fsync_staging_dir, Nested
  <2>3. RawSteps(a)' /\ Located(a)' /\ Abandoned(a)'
    BY <1>5, <2>1
    DEF Inv, TypeOK, Good, FilledSoFar, FilledWhole, RawSteps, Located, Abandoned,
        fsync_staging_dir, Nested
  <2>4. Acknowledged(a)' /\ WholeIfFinal(a)'
    BY <1>5, <2>1
    DEF Inv, TypeOK, Good, FilledWhole, RawSteps, Located, Acknowledged, Abandoned, WholeIfFinal,
        fsync_staging_dir, Nested
  <2>5. DurableIfFinal(a)'
    BY <1>5, <2>1
    DEF Inv, TypeOK, Good, FilledWhole, RawSteps, Located, Abandoned, DurableIfFinal,
        fsync_staging_dir, Nested
  <2>6. \A b \in Artifacts \ {a} : Kept(b)
    BY <1>5 DEF Inv, TypeOK, Kept, fsync_staging_dir, Goto, cleanerVars
  <2> QED
    BY <2>2, <2>3, <2>4, <2>5, <2>6, OneArtifact DEF Good
<1> QED
  BY <1>1, <1>2, <1>3, <1>4, <1>5

\* The rename and what follows it keep the invariant.
LEMMA PublishStep ==
    ASSUME Inv, TypeOK', FsyncsReachTheDisk, NEW a \in Artifacts,
           rename_staging_dir(a) \/ fsync_parent(a)
    PROVE  Inv'
<1> USE StoreAssumption DEF Filling, Committing, Staging, Publishing, Names, Payload,
        FsyncsReachTheDisk
<1>1. CASE rename_staging_dir(a)
  <2>1. /\ place'[a] = "final"
        /\ content'[a] = content[a]
        /\ fsynced'[a] = fsynced[a]
        /\ listed'[a] = listed[a]
        /\ pc'[a] = "fsync_parent"
        /\ opened'[a] = opened[a]
        /\ closed'[a] = closed[a]
        /\ (a \in old' <=> a \in old)
        /\ a \in stale' \union victim' => a \in stale \union victim
    BY <1>1 DEF Inv, TypeOK, rename_staging_dir, Goto, Move, cleanerVars, Good, Located
  <2>2. FilledSoFar(a)' /\ FilledWhole(a)' /\ FailedUnseen(a)'
    BY <1>1, <2>1
    DEF Inv, TypeOK, Good, FilledSoFar, FilledWhole, Located, Abandoned, FailedUnseen,
        rename_staging_dir
  <2>3. RawSteps(a)' /\ Located(a)' /\ Abandoned(a)'
    <3>1. RawSteps(a)'
      BY SMTT(30), <1>1, <2>1
      DEF Inv, TypeOK, Good, RawSteps, FilledWhole, Located, rename_staging_dir
    <3>2. Located(a)'
      BY SMTT(30), <1>1, <2>1
      DEF Inv, TypeOK, Good, RawSteps, FilledWhole, Located, rename_staging_dir
    <3>3. Abandoned(a)'
      BY SMTT(30), <1>1, <2>1
      DEF Inv, TypeOK, Good, RawSteps, Located, Abandoned, rename_staging_dir
    <3> QED BY <3>1, <3>2, <3>3
  <2>4. Acknowledged(a)' /\ WholeIfFinal(a)'
    BY SMTT(30), <1>1, <2>1
    DEF Inv, TypeOK, Good, FilledWhole, RawSteps, Located, Acknowledged, Abandoned, WholeIfFinal,
        rename_staging_dir
  <2>5. DurableIfFinal(a)'
    BY <1>1, <2>1
    DEF Inv, TypeOK, Good, FilledWhole, RawSteps, Located, Abandoned, DurableIfFinal,
        rename_staging_dir
  <2>6. \A b \in Artifacts \ {a} : Kept(b)
    BY <1>1 DEF Inv, TypeOK, Kept, rename_staging_dir, Goto, Move, cleanerVars, Good, Located
  <2> QED
    BY <2>2, <2>3, <2>4, <2>5, <2>6, OneArtifact DEF Good
<1>2. CASE fsync_parent(a)
  <2>1. /\ place'[a] = place[a]
        /\ content'[a] = content[a]
        /\ fsynced'[a] = fsynced[a]
        /\ listed'[a] = listed[a]
        /\ FSYNC_ENABLED => a \in settled'
        /\ pc'[a] = IF a \in Raw THEN "manifest_tmp" ELSE "done"
        /\ opened'[a] = opened[a]
        /\ closed'[a] = closed[a]
        /\ (a \in old' <=> a \in old)
        /\ a \in stale' \union victim' => a \in stale \union victim
    BY <1>2 DEF Inv, TypeOK, fsync_parent, Goto, cleanerVars
  <2>2. FilledSoFar(a)' /\ FilledWhole(a)' /\ FailedUnseen(a)'
    BY <1>2, <2>1
    DEF Inv, TypeOK, Good, FilledSoFar, FilledWhole, Located, Abandoned, FailedUnseen,
        fsync_parent
  <2>3. RawSteps(a)' /\ Located(a)' /\ Abandoned(a)'
    BY <1>2, <2>1
    DEF Inv, TypeOK, Good, FilledSoFar, FilledWhole, RawSteps, Located, Abandoned, fsync_parent
  <2>4. Acknowledged(a)' /\ WholeIfFinal(a)'
    BY <1>2, <2>1
    DEF Inv, TypeOK, Good, FilledWhole, RawSteps, Located, Acknowledged, Abandoned, WholeIfFinal,
        fsync_parent
  <2>5. DurableIfFinal(a)'
    BY <1>2, <2>1
    DEF Inv, TypeOK, Good, FilledWhole, RawSteps, Located, Abandoned, DurableIfFinal, fsync_parent
  <2>6. \A b \in Artifacts \ {a} : Kept(b)
    BY <1>2 DEF Inv, TypeOK, Kept, fsync_parent, Goto, cleanerVars
  <2> QED
    BY <2>2, <2>3, <2>4, <2>5, <2>6, OneArtifact DEF Good
<1> QED
  BY <1>1, <1>2

\* LocalRawStorage.write_manifest keeps the invariant.
LEMMA RawManifestStep ==
    ASSUME Inv, TypeOK', FsyncsReachTheDisk, NEW a \in Artifacts,
           write_manifest_tmp(a) \/ replace_manifest(a) \/ sync_manifest(a)
    PROVE  Inv'
<1> USE StoreAssumption DEF Filling, Committing, Staging, Publishing, Names, Payload,
        FsyncsReachTheDisk
<1>1. CASE write_manifest_tmp(a)
  <2>1. /\ place'[a] = place[a]
        /\ content'[a] = [content[a] EXCEPT !["manifest_tmp"] = "whole"]
        /\ (a \in settled' <=> a \in settled)
        /\ pc'[a] = "manifest_replace"
        /\ opened'[a] = opened[a]
        /\ closed'[a] = closed[a]
        /\ (a \in old' <=> a \in old)
        /\ a \in stale' \union victim' => a \in stale \union victim
    BY <1>1 DEF Inv, TypeOK, write_manifest_tmp, Goto, cleanerVars
  <2>2. FilledSoFar(a)' /\ FilledWhole(a)' /\ FailedUnseen(a)'
    BY <1>1, <2>1
    DEF Inv, TypeOK, Good, FilledSoFar, FilledWhole, Located, Abandoned, FailedUnseen,
        write_manifest_tmp
  <2>3. RawSteps(a)' /\ Located(a)' /\ Abandoned(a)'
    BY <1>1, <2>1
    DEF Inv, TypeOK, Good, FilledSoFar, FilledWhole, RawSteps, Located, Abandoned,
        write_manifest_tmp
  <2>4. Acknowledged(a)' /\ WholeIfFinal(a)'
    BY <1>1, <2>1
    DEF Inv, TypeOK, Good, FilledWhole, RawSteps, Located, Acknowledged, Abandoned, WholeIfFinal,
        write_manifest_tmp
  <2>5. DurableIfFinal(a)'
    BY <1>1, <2>1
    DEF Inv, TypeOK, Good, FilledWhole, RawSteps, Located, Abandoned, DurableIfFinal,
        write_manifest_tmp
  <2>6. \A b \in Artifacts \ {a} : Kept(b)
    BY <1>1 DEF Inv, TypeOK, Kept, write_manifest_tmp, Goto, cleanerVars
  <2> QED
    BY <2>2, <2>3, <2>4, <2>5, <2>6, OneArtifact DEF Good
<1>2. CASE replace_manifest(a)
  <2>1. /\ place'[a] = place[a]
        /\ content'[a] = [content[a] EXCEPT !["manifest"] = content[a]["manifest_tmp"], !["manifest_tmp"] = "absent"]
        /\ (a \in settled' <=> a \in settled)
        /\ pc'[a] = "manifest_sync"
        /\ opened'[a] = opened[a]
        /\ closed'[a] = closed[a]
        /\ (a \in old' <=> a \in old)
        /\ a \in stale' \union victim' => a \in stale \union victim
    BY <1>2 DEF Inv, TypeOK, replace_manifest, Goto, cleanerVars
  <2>2. FilledSoFar(a)' /\ FilledWhole(a)' /\ FailedUnseen(a)'
    BY <1>2, <2>1
    DEF Inv, TypeOK, Good, FilledSoFar, FilledWhole, Located, Abandoned, FailedUnseen,
        replace_manifest
  <2>3. RawSteps(a)' /\ Located(a)' /\ Abandoned(a)'
    BY <1>2, <2>1
    DEF Inv, TypeOK, Good, FilledSoFar, FilledWhole, RawSteps, Located, Abandoned, replace_manifest
  <2>4. Acknowledged(a)' /\ WholeIfFinal(a)'
    BY <1>2, <2>1
    DEF Inv, TypeOK, Good, FilledWhole, RawSteps, Located, Acknowledged, Abandoned, WholeIfFinal,
        replace_manifest
  <2>5. DurableIfFinal(a)'
    BY <1>2, <2>1
    DEF Inv, TypeOK, Good, FilledWhole, RawSteps, Located, Abandoned, DurableIfFinal,
        replace_manifest
  <2>6. \A b \in Artifacts \ {a} : Kept(b)
    BY <1>2 DEF Inv, TypeOK, Kept, replace_manifest, Goto, cleanerVars
  <2> QED
    BY <2>2, <2>3, <2>4, <2>5, <2>6, OneArtifact DEF Good
<1>3. CASE sync_manifest(a)
  <2>1. /\ place'[a] = place[a]
        /\ content'[a] = content[a]
        /\ (a \in settled' <=> a \in settled)
        /\ pc'[a] = "done"
        /\ opened'[a] = opened[a]
        /\ closed'[a] = closed[a]
        /\ (a \in old' <=> a \in old)
        /\ a \in stale' \union victim' => a \in stale \union victim
    BY <1>3 DEF Inv, TypeOK, sync_manifest, Goto, Fsync, cleanerVars
  <2>2. FilledSoFar(a)' /\ FilledWhole(a)' /\ FailedUnseen(a)'
    BY <1>3, <2>1
    DEF Inv, TypeOK, Good, FilledSoFar, FilledWhole, Located, Abandoned, FailedUnseen,
        sync_manifest
  <2>3. RawSteps(a)' /\ Located(a)' /\ Abandoned(a)'
    BY <1>3, <2>1
    DEF Inv, TypeOK, Good, FilledSoFar, FilledWhole, RawSteps, Located, Abandoned, sync_manifest
  <2>4. Acknowledged(a)' /\ WholeIfFinal(a)'
    BY <1>3, <2>1
    DEF Inv, TypeOK, Good, FilledWhole, RawSteps, Located, Acknowledged, Abandoned, WholeIfFinal,
        sync_manifest
  <2>5. DurableIfFinal(a)'
    BY <1>3, <2>1
    DEF Inv, TypeOK, Good, FilledWhole, RawSteps, Located, Abandoned, DurableIfFinal, sync_manifest
  <2>6. \A b \in Artifacts \ {a} : Kept(b)
    BY <1>3 DEF Inv, TypeOK, Kept, sync_manifest, Goto, Fsync, cleanerVars
  <2> QED
    BY <2>2, <2>3, <2>4, <2>5, <2>6, OneArtifact DEF Good
<1> QED
  BY <1>1, <1>2, <1>3

\* An exception, the discarding it leads to and the death of a writer keep the
\* invariant.
LEMMA FailureStep ==
    ASSUME Inv, TypeOK', FsyncsReachTheDisk, NEW a \in Artifacts, NEW f \in Names,
           writer_raises(a) \/ crash(a) \/ discard_entry(a, f) \/ discard_rmdir(a)
              \/ discard_gives_up(a)
    PROVE  Inv'
<1> USE StoreAssumption DEF FsyncsReachTheDisk, Filling, Committing, Staging, Publishing, Names, Payload
<1>1. CASE writer_raises(a)
  <2>0. \A b \in Artifacts \ {a} :
          content'[b] = content[b] /\ fsynced'[b] = fsynced[b] /\ listed'[b] = listed[b]
    BY <1>1, CutShortAdds DEF Inv, writer_raises
  <2>1. /\ place'[a] = place[a]
        /\ \/ content'[a] = content[a] /\ fsynced'[a] = fsynced[a] /\ listed'[a] = listed[a]
           \/ \E g \in {"journal_tmp", "index", "manifest_tmp"} :
                 /\ content'[a] = [content[a] EXCEPT ![g] = "partial"]
                 /\ IF g = "manifest_tmp" THEN pc[a] = "manifest_tmp"
                    ELSE pc[a] \in {"journal", "prepare", "commit"}
        /\ (a \in settled' <=> a \in settled)
        /\ pc'[a] = AfterFailure(a)
        /\ opened'[a] = opened[a]
        /\ closed'[a] = closed[a]
        /\ (a \in old' <=> a \in old)
        /\ a \in stale' \union victim' => a \in stale \union victim
    BY ZenonT(30), <1>1, CutShortAdds DEF Inv, TypeOK, writer_raises, Goto, cleanerVars
  <2>2. FilledSoFar(a)' /\ FilledWhole(a)' /\ FailedUnseen(a)'
    <3>1. pc'[a] \in {"discard", "failed"}
      BY <2>1 DEF AfterFailure
    <3>2. FilledSoFar(a)' /\ FilledWhole(a)'
      BY <3>1 DEF FilledSoFar, FilledWhole
    <3>3. content'[a]["manifest"] = content[a]["manifest"]
      BY <2>1 DEF Inv, TypeOK
    <3>4. place[a] = "staging" \/ content[a]["manifest"] = "absent"
      BY <1>1 DEF Inv, Good, Located, RawSteps, writer_raises, Raising
    <3> QED
      BY <2>1, <3>2, <3>3, <3>4 DEF FailedUnseen
  <2>3. RawSteps(a)' /\ Located(a)' /\ Abandoned(a)'
    BY SMTT(30), <1>1, <2>1
    DEF Inv, TypeOK, Good, FilledSoFar, FilledWhole, RawSteps, Located, Abandoned, writer_raises,
        AfterFailure, Raising
  <2>4. Acknowledged(a)' /\ WholeIfFinal(a)'
    BY <1>1, <2>1
    DEF Inv, TypeOK, Good, FilledWhole, RawSteps, Located, Acknowledged, Abandoned, WholeIfFinal,
        writer_raises, AfterFailure, Raising
  <2>5. DurableIfFinal(a)'
    BY <1>1, <2>1
    DEF Inv, TypeOK, Good, FilledWhole, RawSteps, Located, Abandoned, DurableIfFinal, writer_raises,
        AfterFailure, Raising
  <2>6. \A b \in Artifacts \ {a} : Kept(b)
    BY <1>1, <2>0 DEF Inv, TypeOK, Kept, writer_raises, Goto, cleanerVars
  <2> QED
    BY <2>2, <2>3, <2>4, <2>5, <2>6, OneArtifact DEF Good
<1>2. CASE crash(a)
  <2>0. \A b \in Artifacts \ {a} :
          content'[b] = content[b] /\ fsynced'[b] = fsynced[b] /\ listed'[b] = listed[b]
    BY <1>2, CutShortAdds DEF Inv, crash
  <2>1. /\ place'[a] = place[a]
        /\ \/ content'[a] = content[a] /\ fsynced'[a] = fsynced[a] /\ listed'[a] = listed[a]
           \/ \E g \in {"journal_tmp", "index", "manifest_tmp"} :
                 /\ content'[a] = [content[a] EXCEPT ![g] = "partial"]
                 /\ IF g = "manifest_tmp" THEN pc[a] = "manifest_tmp"
                    ELSE pc[a] \in {"journal", "prepare", "commit"}
        /\ (a \in settled' <=> a \in settled)
        /\ pc'[a] = "dead"
        /\ opened'[a] = opened[a]
        /\ closed'[a] = closed[a]
        /\ (a \in old' <=> a \in old)
        /\ a \in stale' \union victim' => a \in stale \union victim
    BY ZenonT(30), <1>2, CutShortAdds DEF Inv, TypeOK, crash, Goto, cleanerVars
  <2>2. FilledSoFar(a)' /\ FilledWhole(a)' /\ FailedUnseen(a)'
    BY <1>2, <2>1
    DEF Inv, TypeOK, Good, FilledSoFar, FilledWhole, Located, Abandoned, FailedUnseen, crash,
        Over
  <2>3. RawSteps(a)' /\ Located(a)' /\ Abandoned(a)'
    BY <1>2, <2>1
    DEF Inv, TypeOK, Good, FilledSoFar, FilledWhole, RawSteps, Located, Abandoned, crash, Over
  <2>4. Acknowledged(a)' /\ WholeIfFinal(a)'
    BY <1>2, <2>1
    DEF Inv, TypeOK, Good, FilledWhole, RawSteps, Located, Acknowledged, Abandoned, WholeIfFinal,
        crash, Over
  <2>5. DurableIfFinal(a)'
    BY <1>2, <2>1
    DEF Inv, TypeOK, Good, FilledWhole, RawSteps, Located, Abandoned, DurableIfFinal, crash, Over
  <2>6. \A b \in Artifacts \ {a} : Kept(b)
    BY <1>2, <2>0 DEF Inv, TypeOK, Kept, crash, Goto, cleanerVars
  <2> QED
    BY <2>2, <2>3, <2>4, <2>5, <2>6, OneArtifact DEF Good
<1>3. CASE discard_entry(a, f)
  <2>1. /\ place'[a] = place[a]
        /\ content'[a] = [content[a] EXCEPT ![f] = "absent"]
        /\ fsynced'[a] = fsynced[a] \ {f}
        /\ listed'[a] = listed[a] \ {f}
        /\ (a \in settled' <=> a \in settled)
        /\ pc'[a] = pc[a]
        /\ opened'[a] = opened[a]
        /\ closed'[a] = closed[a]
        /\ (a \in old' <=> a \in old)
        /\ a \in stale' \union victim' => a \in stale \union victim
    BY <1>3 DEF Inv, TypeOK, discard_entry, Goto, Put, writerVars, cleanerVars
  <2>2. FilledSoFar(a)' /\ FilledWhole(a)' /\ FailedUnseen(a)'
    BY <1>3, <2>1
    DEF Inv, TypeOK, Good, FilledSoFar, FilledWhole, Located, Abandoned, FailedUnseen,
        discard_entry
  <2>3. RawSteps(a)' /\ Located(a)' /\ Abandoned(a)'
    BY <1>3, <2>1
    DEF Inv, TypeOK, Good, FilledSoFar, FilledWhole, RawSteps, Located, Abandoned, discard_entry
  <2>4. Acknowledged(a)' /\ WholeIfFinal(a)'
    BY <1>3, <2>1
    DEF Inv, TypeOK, Good, FilledWhole, RawSteps, Located, Acknowledged, Abandoned, WholeIfFinal,
        discard_entry
  <2>5. DurableIfFinal(a)'
    BY <1>3, <2>1
    DEF Inv, TypeOK, Good, FilledWhole, RawSteps, Located, Abandoned, DurableIfFinal, discard_entry
  <2>6. \A b \in Artifacts \ {a} : Kept(b)
    BY <1>3 DEF Inv, TypeOK, Kept, discard_entry, Goto, Put, writerVars, cleanerVars
  <2> QED
    BY <2>2, <2>3, <2>4, <2>5, <2>6, OneArtifact DEF Good
<1>4. CASE discard_rmdir(a)
  <2>1. /\ place'[a] = "none"
        /\ content'[a] = content[a]
        /\ fsynced'[a] = fsynced[a]
        /\ listed'[a] = listed[a]
        /\ pc'[a] = "failed"
        /\ opened'[a] = opened[a]
        /\ closed'[a] = closed[a]
        /\ (a \in old' <=> a \in old)
        /\ a \in stale' \union victim' => a \in stale \union victim
    BY <1>4 DEF Inv, TypeOK, discard_rmdir, Goto, Move, cleanerVars, Good, Located
  <2>2. FilledSoFar(a)' /\ FilledWhole(a)' /\ FailedUnseen(a)'
    BY <1>4, <2>1
    DEF Inv, TypeOK, Good, FilledSoFar, FilledWhole, Located, Abandoned, FailedUnseen,
        discard_rmdir, Present
  <2>3. RawSteps(a)' /\ Located(a)' /\ Abandoned(a)'
    BY <1>4, <2>1
    DEF Inv, TypeOK, Good, FilledSoFar, FilledWhole, RawSteps, Located, Abandoned, discard_rmdir,
        Present
  <2>4. Acknowledged(a)' /\ WholeIfFinal(a)'
    BY <1>4, <2>1
    DEF Inv, TypeOK, Good, FilledWhole, RawSteps, Located, Acknowledged, Abandoned, WholeIfFinal,
        discard_rmdir, Present
  <2>5. DurableIfFinal(a)'
    BY <1>4, <2>1
    DEF Inv, TypeOK, Good, FilledWhole, RawSteps, Located, Abandoned, DurableIfFinal, discard_rmdir,
        Present
  <2>6. \A b \in Artifacts \ {a} : Kept(b)
    BY <1>4 DEF Inv, TypeOK, Kept, discard_rmdir, Goto, Move, cleanerVars, Good, Located
  <2> QED
    BY <2>2, <2>3, <2>4, <2>5, <2>6, OneArtifact DEF Good
<1>5. CASE discard_gives_up(a)
  <2>1. /\ place'[a] = place[a] /\ (a \in settled' <=> a \in settled)
        /\ content'[a] = content[a]
        /\ fsynced'[a] = fsynced[a]
        /\ listed'[a] = listed[a]
        /\ pc'[a] = "failed"
        /\ opened'[a] = opened[a]
        /\ closed'[a] = closed[a]
        /\ (a \in old' <=> a \in old)
        /\ a \in stale' \union victim' => a \in stale \union victim
    BY <1>5 DEF Inv, TypeOK, discard_gives_up, Goto, dirVars, cleanerVars
  <2>2. FilledSoFar(a)' /\ FilledWhole(a)' /\ FailedUnseen(a)'
    BY <1>5, <2>1
    DEF Inv, TypeOK, Good, FilledSoFar, FilledWhole, Located, Abandoned, FailedUnseen,
        discard_gives_up
  <2>3. RawSteps(a)' /\ Located(a)' /\ Abandoned(a)'
    BY <1>5, <2>1
    DEF Inv, TypeOK, Good, FilledSoFar, FilledWhole, RawSteps, Located, Abandoned, discard_gives_up
  <2>4. Acknowledged(a)' /\ WholeIfFinal(a)'
    BY <1>5, <2>1
    DEF Inv, TypeOK, Good, FilledWhole, RawSteps, Located, Acknowledged, Abandoned, WholeIfFinal,
        discard_gives_up
  <2>5. DurableIfFinal(a)'
    BY <1>5, <2>1
    DEF Inv, TypeOK, Good, FilledWhole, RawSteps, Located, Abandoned, DurableIfFinal, discard_gives_up
  <2>6. \A b \in Artifacts \ {a} : Kept(b)
    BY <1>5 DEF Inv, TypeOK, Kept, discard_gives_up, Goto, dirVars, cleanerVars
  <2> QED
    BY <2>2, <2>3, <2>4, <2>5, <2>6, OneArtifact DEF Good
<1> QED
  BY <1>1, <1>2, <1>3, <1>4, <1>5

\* The passing of time and the steps of cleanup_stale() on one directory keep
\* the invariant.
LEMMA CleanerStep ==
    ASSUME Inv, TypeOK', WritersAreTimely, NEW a \in Artifacts, NEW f \in Names,
           journal_ages(a) \/ begin_rmtree(a) \/ rmtree_unlink(a, f) \/ rmtree_rmdir(a)
    PROVE  Inv'
<1> USE StoreAssumption DEF Filling, Committing, Staging, Publishing, Names, Payload
<1>1. CASE journal_ages(a)
  <2>1. /\ place'[a] = place[a]
        /\ content'[a] = content[a]
        /\ fsynced'[a] = fsynced[a]
        /\ listed'[a] = listed[a]
        /\ (a \in settled' <=> a \in settled)
        /\ pc'[a] = pc[a]
        /\ opened'[a] = opened[a]
        /\ closed'[a] = closed[a]
        /\ pc[a] \in {"failed", "dead"}
        /\ a \in stale' \union victim' => a \in stale \union victim
    BY <1>1 DEF Inv, TypeOK, journal_ages, Goto, dirVars, cleanerVars, writerVars, WritersAreTimely
  <2>2. FilledSoFar(a)' /\ FilledWhole(a)' /\ FailedUnseen(a)'
    BY <1>1, <2>1
    DEF Inv, TypeOK, Good, FilledSoFar, FilledWhole, Located, Abandoned, FailedUnseen,
        journal_ages
  <2>3. RawSteps(a)' /\ Located(a)' /\ Abandoned(a)'
    BY <1>1, <2>1
    DEF Inv, TypeOK, Good, FilledSoFar, FilledWhole, RawSteps, Located, Abandoned, journal_ages
  <2>4. Acknowledged(a)' /\ WholeIfFinal(a)'
    BY <1>1, <2>1
    DEF Inv, TypeOK, Good, FilledWhole, RawSteps, Located, Acknowledged, Abandoned, WholeIfFinal,
        journal_ages
  <2>5. DurableIfFinal(a)'
    BY <1>1, <2>1
    DEF Inv, TypeOK, Good, FilledWhole, RawSteps, Located, Abandoned, DurableIfFinal, journal_ages
  <2>6. \A b \in Artifacts \ {a} : Kept(b)
    BY <1>1 DEF Inv, TypeOK, Kept, journal_ages, Goto, dirVars, cleanerVars, writerVars, WritersAreTimely
  <2> QED
    BY <2>2, <2>3, <2>4, <2>5, <2>6, OneArtifact DEF Good
<1>2. CASE begin_rmtree(a)
  <2>1. /\ place'[a] = place[a]
        /\ content'[a] = content[a]
        /\ fsynced'[a] = fsynced[a]
        /\ listed'[a] = listed[a]
        /\ (a \in settled' <=> a \in settled)
        /\ pc'[a] = pc[a]
        /\ opened'[a] = opened[a]
        /\ closed'[a] = closed[a]
        /\ (a \in old' <=> a \in old)
        /\ a \in stale' \union victim' => a \in stale \union victim
    BY <1>2 DEF Inv, TypeOK, begin_rmtree, Goto, dirVars, cleanerVars, writerVars
  <2>2. FilledSoFar(a)' /\ FilledWhole(a)' /\ FailedUnseen(a)'
    BY <1>2, <2>1
    DEF Inv, TypeOK, Good, FilledSoFar, FilledWhole, Located, Abandoned, FailedUnseen,
        begin_rmtree
  <2>3. RawSteps(a)' /\ Located(a)' /\ Abandoned(a)'
    BY <1>2, <2>1
    DEF Inv, TypeOK, Good, FilledSoFar, FilledWhole, RawSteps, Located, Abandoned, begin_rmtree
  <2>4. Acknowledged(a)' /\ WholeIfFinal(a)'
    BY <1>2, <2>1
    DEF Inv, TypeOK, Good, FilledWhole, RawSteps, Located, Acknowledged, Abandoned, WholeIfFinal,
        begin_rmtree
  <2>5. DurableIfFinal(a)'
    BY <1>2, <2>1
    DEF Inv, TypeOK, Good, FilledWhole, RawSteps, Located, Abandoned, DurableIfFinal, begin_rmtree
  <2>6. \A b \in Artifacts \ {a} : Kept(b)
    BY <1>2 DEF Inv, TypeOK, Kept, begin_rmtree, Goto, dirVars, cleanerVars, writerVars
  <2> QED
    BY <2>2, <2>3, <2>4, <2>5, <2>6, OneArtifact DEF Good
<1>3. CASE rmtree_unlink(a, f)
  <2>1. /\ place'[a] = place[a]
        /\ \A g \in Names : content'[a][g] \in {content[a][g], "absent"}
        /\ (a \in settled' <=> a \in settled)
        /\ pc'[a] = pc[a]
        /\ opened'[a] = opened[a]
        /\ closed'[a] = closed[a]
        /\ (a \in old' <=> a \in old)
        /\ a \in stale' \union victim' => a \in stale \union victim
    BY <1>3 DEF Inv, TypeOK, rmtree_unlink, Goto, Put, writerVars
  <2>2. FilledSoFar(a)' /\ FilledWhole(a)' /\ FailedUnseen(a)'
    BY <1>3, <2>1
    DEF Inv, TypeOK, Good, FilledSoFar, FilledWhole, Located, Abandoned, FailedUnseen,
        rmtree_unlink
  <2>3. RawSteps(a)' /\ Located(a)' /\ Abandoned(a)'
    BY <1>3, <2>1
    DEF Inv, TypeOK, Good, FilledSoFar, FilledWhole, RawSteps, Located, Abandoned, rmtree_unlink
  <2>4. Acknowledged(a)' /\ WholeIfFinal(a)'
    BY <1>3, <2>1
    DEF Inv, TypeOK, Good, FilledWhole, RawSteps, Located, Acknowledged, Abandoned, WholeIfFinal,
        rmtree_unlink
  <2>5. DurableIfFinal(a)'
    BY <1>3, <2>1
    DEF Inv, TypeOK, Good, FilledWhole, RawSteps, Located, Abandoned, DurableIfFinal, rmtree_unlink
  <2>6. \A b \in Artifacts \ {a} : Kept(b)
    BY <1>3 DEF Inv, TypeOK, Kept, rmtree_unlink, Goto, Put, writerVars
  <2> QED
    BY <2>2, <2>3, <2>4, <2>5, <2>6, OneArtifact DEF Good
<1>4. CASE rmtree_rmdir(a)
  <2>1. /\ place'[a] \in {place[a], "none"}
        /\ content'[a] = content[a]
        /\ fsynced'[a] = fsynced[a]
        /\ listed'[a] = listed[a]
        /\ pc'[a] = pc[a]
        /\ opened'[a] = opened[a]
        /\ closed'[a] = closed[a]
        /\ (a \in old' <=> a \in old)
        /\ a \in stale' \union victim' => a \in stale \union victim
    BY <1>4 DEF Inv, TypeOK, rmtree_rmdir, Goto, Move, writerVars
  <2>2. FilledSoFar(a)' /\ FilledWhole(a)' /\ FailedUnseen(a)'
    BY <1>4, <2>1
    DEF Inv, TypeOK, Good, FilledSoFar, FilledWhole, Located, Abandoned, FailedUnseen,
        rmtree_rmdir
  <2>3. RawSteps(a)' /\ Located(a)' /\ Abandoned(a)'
    BY <1>4, <2>1
    DEF Inv, TypeOK, Good, FilledSoFar, FilledWhole, RawSteps, Located, Abandoned, rmtree_rmdir
  <2>4. Acknowledged(a)' /\ WholeIfFinal(a)'
    BY <1>4, <2>1
    DEF Inv, TypeOK, Good, FilledWhole, RawSteps, Located, Acknowledged, Abandoned, WholeIfFinal,
        rmtree_rmdir
  <2>5. DurableIfFinal(a)'
    BY <1>4, <2>1
    DEF Inv, TypeOK, Good, FilledWhole, RawSteps, Located, Abandoned, DurableIfFinal, rmtree_rmdir
  <2>6. \A b \in Artifacts \ {a} : Kept(b)
    BY <1>4 DEF Inv, TypeOK, Kept, rmtree_rmdir, Goto, Move, writerVars
  <2> QED
    BY <2>2, <2>3, <2>4, <2>5, <2>6, OneArtifact DEF Good
<1> QED
  BY <1>1, <1>2, <1>3, <1>4

\* A power loss, which stops every writer and may undo what is not yet durable,
\* keeps the invariant.
LEMMA PowerLossStep ==
    ASSUME Inv, TypeOK', FsyncsReachTheDisk, power_loss PROVE Inv'
<1> SUFFICES ASSUME NEW a \in Artifacts PROVE Good(a)'
  BY DEF Inv
<1>1. PICK p \in [Artifacts -> Place], c \in [Artifacts -> [Names -> Content]] :
        /\ \A b \in Artifacts :
              /\ p[b] \in PlaceAfter(b)
              /\ \A f \in Names :
                    IF p[b] = "none" THEN c[b][f] = "absent" ELSE c[b][f] \in Survives(b, f)
        /\ place' = p /\ content' = c
        /\ fsynced' = [b \in Artifacts |-> {f \in Names : c[b][f] # "absent"}]
  BY DEF power_loss
<1>2. /\ "power" \in Env /\ FSYNC_ENABLED /\ Raw = {}
      /\ listed'[a] = Names /\ a \in settled' /\ opened'[a] = opened[a] /\ closed'[a] = closed[a]
      /\ stale' = {} /\ victim' = {} /\ old' = old
      /\ pc'[a] = IF pc[a] \in Over THEN pc[a] ELSE "dead"
  BY DEF power_loss, FsyncsReachTheDisk
<1>3. pc'[a] \in Over /\ (pc'[a] \in {"idle", "done"} => pc[a] = pc'[a])
  BY <1>2 DEF Over
<1>4. /\ place'[a] \in PlaceAfter(a)
      /\ \A f \in Names : IF place'[a] = "none" THEN content'[a][f] = "absent"
                          ELSE content'[a][f] \in Survives(a, f)
      /\ fsynced'[a] = {f \in Names : content'[a][f] # "absent"}
  BY <1>1
<1>5. place'[a] = "final" =>
          /\ place[a] = "final"
          /\ \A f \in Names : (f \in listed[a] /\ (content[a][f] = "absent" \/ f \in fsynced[a])) =>
                content'[a][f] = content[a][f]
  BY <1>4 DEF PlaceAfter, Survives
<1>6. Payload(a) = DataFiles \union {"manifest"} /\ Payload(a) \subseteq Names /\ {"journal", "index"} \subseteq Names
  BY <1>2 DEF Payload, Names
<1>7. place'[a] = "final" =>
          /\ \A f \in Payload(a) : content'[a][f] = "whole"
          /\ content'[a]["journal"] = "absent" /\ content'[a]["index"] = "absent"
  BY <1>2, <1>5, <1>6 DEF Inv, Good, WholeIfFinal, DurableIfFinal
<1>8. FilledSoFar(a)' /\ FilledWhole(a)'
  <2>1. CASE pc[a] = "idle"
    <3>1. /\ place[a] = "none" /\ a \in settled /\ listed[a] = Names
          /\ closed[a] = {} /\ opened[a] = {}
          /\ \A f \in Names : content[a][f] = "absent"
      BY <2>1 DEF Inv, Good, FilledSoFar, Filling
    <3>2. place'[a] = "none" /\ \A f \in Names : content'[a][f] = "absent"
      BY <1>4, <3>1 DEF PlaceAfter
    <3>3. pc'[a] = "idle"
      BY <1>2, <2>1 DEF Over
    <3> QED
      BY <1>2, <1>6, <3>1, <3>2, <3>3 DEF FilledSoFar, FilledWhole, Filling, Committing
  <2>2. CASE pc[a] # "idle"
    BY <1>2, <1>3, <2>2 DEF FilledSoFar, FilledWhole, Filling, Committing, Over
  <2> QED
    BY <2>1, <2>2
<1>9. RawSteps(a)' /\ Located(a)'
  BY <1>3 DEF RawSteps, Located, Over, Staging, Filling, Committing, Publishing
<1>10. Abandoned(a)'
  BY <1>2 DEF Inv, Good, Abandoned, Over
<1>11. WholeIfFinal(a)' /\ DurableIfFinal(a)'
  <2>1. Payload(a)' = Payload(a)
    BY DEF Payload
  <2>2. WholeIfFinal(a)'
    BY <1>6, <1>7, <2>1 DEF WholeIfFinal
  <2>3. place'[a] = "final" => Payload(a) \subseteq fsynced'[a]
    BY <1>4, <1>6, <1>7
  <2> QED
    BY <1>2, <1>3, <2>1, <2>2, <2>3 DEF DurableIfFinal, Over
<1>12. Acknowledged(a)'
  <2> SUFFICES ASSUME pc'[a] = "done", a \in ParentExists
               PROVE  place'[a] = "final" /\ content'[a]["manifest"] = "whole"
    BY <1>2 DEF Acknowledged
  <2>1. pc[a] = "done" /\ place[a] = "final" /\ a \in settled
    BY <1>2, <1>3 DEF Inv, Good, Acknowledged
  <2>2. place'[a] = "final"
    BY <1>4, <2>1 DEF PlaceAfter
  <2> QED
    BY <1>6, <1>7, <2>2
<1>13. FailedUnseen(a)'
  <2> SUFFICES ASSUME pc'[a] = "failed", place'[a] = "final" PROVE FALSE
    BY DEF FailedUnseen
  <2>1. pc[a] = "failed" /\ place[a] = "final"
    BY <1>2, <1>5 DEF Over
  <2>2. content[a]["manifest"] = "whole"
    BY <1>6, <2>1 DEF Inv, Good, WholeIfFinal
  <2> QED
    BY <2>1, <2>2 DEF Inv, Good, FailedUnseen
<1> QED
  BY <1>8, <1>9, <1>10, <1>11, <1>12, <1>13 DEF Good

\* Every step keeps the invariant.
LEMMA NextInv ==
    ASSUME WritersAreTimely, FsyncsReachTheDisk, Inv, [Next]_vars PROVE Inv'
<1>0. TypeOK'
  BY TypeStep DEF Inv
<1>1. ASSUME NEW a \in Artifacts,
             Write(a) \/ Commit(a) \/ RawManifest(a) \/ Failure(a) \/ journal_ages(a)
      PROVE  Inv'
  <2>0. "manifest" \in Names
    BY DEF Names
  <2>1. CASE Write(a)
    BY <1>0, <2>0, <2>1, StagingStep, WritingStep DEF Write
  <2>2. CASE Commit(a)
    BY <1>0, <2>2, CommitStep, PublishStep DEF Commit
  <2>3. CASE RawManifest(a)
    BY <1>0, <2>3, RawManifestStep DEF RawManifest
  <2>4. CASE Failure(a)
    BY <1>0, <2>0, <2>4, FailureStep DEF Failure
  <2>5. CASE journal_ages(a)
    BY <1>0, <2>0, <2>5, CleanerStep
  <2> QED
    BY <1>1, <2>1, <2>2, <2>3, <2>4, <2>5
<1>2. CASE Cleanup
  <2>1. CASE cleanup_stale
    <3>1. \A b \in Artifacts : Good(b)'
      <4> SUFFICES ASSUME NEW b \in Artifacts PROVE Good(b)'
        OBVIOUS
      <4>1. b \in stale' \union victim' => b \in old' /\ place'[b] = "staging"
        BY <2>1 DEF cleanup_stale, classify_stale, dirVars
      <4>2. Abandoned(b)'
        BY <2>1, <4>1 DEF Inv, Good, Abandoned, cleanup_stale, writerVars
      <4>3. FilledSoFar(b)' /\ FilledWhole(b)' /\ RawSteps(b)' /\ Located(b)' /\ FailedUnseen(b)'
        BY <2>1 DEF Inv, Good, FilledSoFar, FilledWhole, RawSteps, Located, FailedUnseen, Payload,
                    cleanup_stale, dirVars, writerVars
      <4>4. Acknowledged(b)' /\ WholeIfFinal(b)' /\ DurableIfFinal(b)'
        BY <2>1 DEF Inv, Good, Acknowledged, WholeIfFinal, DurableIfFinal, Payload,
                    cleanup_stale, dirVars, writerVars
      <4> QED
        BY <4>2, <4>3, <4>4 DEF Good
    <3> QED
      BY <1>0, <3>1 DEF Inv
  <2>2. ASSUME NEW a \in Artifacts, begin_rmtree(a) \/ rmtree_rmdir(a) PROVE Inv'
    BY <1>0, <2>2, CleanerStep DEF Names
  <2>3. ASSUME NEW a \in Artifacts, NEW f \in Names, rmtree_unlink(a, f) PROVE Inv'
    BY <1>0, <2>3, CleanerStep
  <2> QED
    BY <1>2, <2>1, <2>2, <2>3 DEF Cleanup
<1>3. CASE cleaner_dies \/ \E a \in Artifacts : rmtree_gives_up(a)
  <2>1. \A b \in Artifacts : Kept(b)
    BY <1>3 DEF cleaner_dies, rmtree_gives_up, Kept, dirVars, writerVars
  <2> QED
    BY <1>0, <2>1, KeptIsGood DEF Inv
<1>4. CASE power_loss
  BY <1>0, <1>4, PowerLossStep
<1>5. CASE UNCHANGED vars
  <2>1. \A b \in Artifacts : Kept(b)
    BY <1>5 DEF vars, Kept
  <2> QED
    BY <1>0, <2>1, KeptIsGood DEF Inv
<1> QED
  BY <1>1, <1>2, <1>3, <1>4, <1>5 DEF Next

-----------------------------------------------------------------------------
(* What it gives.                                                          *)

\* Directories, writers and the cleaner always have their types, whatever the
\* environment does.
THEOREM TypeCorrect == Spec => []TypeOK
<1>1. Init => TypeOK
  BY InitInv DEF Inv
<1>2. TypeOK /\ [Next]_vars => TypeOK'
  BY TypeStep
<1> QED
  BY <1>1, <1>2, PTL DEF Spec

\* The invariant holds in every reachable state.
THEOREM Invariance ==
    ASSUME WritersAreTimely, FsyncsReachTheDisk PROVE Spec => []Inv
<1>1. Init => Inv
  BY InitInv
<1>2. Inv /\ [Next]_vars => Inv'
  BY NextInv
<1> QED
  BY <1>1, <1>2, PTL DEF Spec

\* No partially written artifact ever appears at its final place, whichever
\* call raises, whichever process dies and whenever power is lost.
THEOREM PublishedArtifactsAreWhole ==
    ASSUME WritersAreTimely, FsyncsReachTheDisk PROVE Spec => []PublishedIsWhole
<1>1. Inv => PublishedIsWhole
  BY DEF Inv, Good, WholeIfFinal, PublishedIsWhole
<1> QED
  BY <1>1, Invariance, PTL

\* Whoever was told that a write failed can rely on its never being found.
THEOREM FailuresStayUnpublished ==
    ASSUME WritersAreTimely, FsyncsReachTheDisk PROVE Spec => []FailedIsUnpublished
<1>1. Inv => FailedIsUnpublished
  BY DEF Inv, Good, FailedUnseen, FailedIsUnpublished, Reader
<1> QED
  BY <1>1, Invariance, PTL

\* A step that fails with its directory still there leaves the journal in it.
LEMMA FailuresKeepTheJournal ==
    ASSUME WritersAreTimely, EntriesCanBeRemoved, Inv, [Next]_vars, NEW a \in Artifacts \ Raw,
           pc[a] \notin {"journal", "failed"}, pc'[a] = "failed"
    PROVE  place'[a] = "none" \/ content'[a]["journal"] = "whole"
<1> USE DEF Inv, TypeOK, Good
<1>1. ASSUME NEW b \in Artifacts, Write(b) PROVE FALSE
  BY <1>1 DEF Write, create_staging_dir, write_staging_metadata, make_original_dir, build_rules,
              open_file, finish_file, begin_commit, Goto, Located, Staging, Filling, Committing
<1>2. ASSUME NEW b \in Artifacts, Commit(b) PROVE FALSE
  BY <1>2 DEF Commit, mark_committing, fsync_data, fsync_manifest, unlink_journal,
              fsync_staging_dir, rename_staging_dir, fsync_parent, Goto, Located, Staging, Committing
<1>3. ASSUME NEW b \in Artifacts, RawManifest(b) PROVE FALSE
  BY <1>3 DEF RawManifest, write_manifest_tmp, replace_manifest, sync_manifest, Goto
<1>4. ASSUME NEW b \in Artifacts, Failure(b)
      PROVE  place'[a] = "none" \/ content'[a]["journal"] = "whole"
  <2>1. CASE writer_raises(b)
    <3>1. b = a /\ pc[a] = "prepare"
      BY <2>1 DEF writer_raises, AfterFailure, Raising, Goto
    <3>2. content[a]["journal"] = "whole"
      BY <3>1 DEF FilledSoFar, Filling
    <3>3. content'[a]["journal"] = content[a]["journal"]
      BY <2>1, <3>1, CutShortKeeps DEF writer_raises
    <3> QED
      BY <3>2, <3>3
  <2>2. CASE crash(b) \/ \E f \in Names : discard_entry(b, f)
    BY <2>2 DEF crash, discard_entry, Goto, writerVars
  <2>3. CASE discard_rmdir(b)
    BY <2>3 DEF discard_rmdir, Goto, Move, Located, Staging
  <2>4. CASE discard_gives_up(b)
    BY <2>4 DEF discard_gives_up, EntriesCanBeRemoved
  <2> QED
    BY <1>4, <2>1, <2>2, <2>3, <2>4 DEF Failure
<1>5. CASE Cleanup \/ cleaner_dies \/ \E b \in Artifacts : journal_ages(b) \/ rmtree_gives_up(b)
  BY <1>5 DEF Cleanup, cleanup_stale, begin_rmtree, rmtree_rmdir, rmtree_unlink, cleaner_dies,
              journal_ages, rmtree_gives_up, writerVars
<1>6. CASE power_loss
  BY <1>6 DEF power_loss, Over
<1>7. CASE UNCHANGED vars
  BY <1>7 DEF vars
<1> QED
  BY <1>1, <1>2, <1>3, <1>4, <1>5, <1>6, <1>7 DEF Next

\* A derived stage that raises never leaves a directory that cleanup_stale()
\* would not recognise, except where the journal itself could not be written.
THEOREM FailuresAreCleanedUp ==
    ASSUME WritersAreTimely, FsyncsReachTheDisk, EntriesCanBeRemoved
    PROVE  Spec => FailuresCanBeCleanedUp
<1>1. Inv /\ [Next]_vars =>
        [\A a \in Artifacts \ Raw :
            (pc[a] \notin {"journal", "failed"} /\ pc'[a] = "failed") =>
                place'[a] = "none" \/ content'[a]["journal"] = "whole"]_vars
  BY FailuresKeepTheJournal
<1> QED
  BY <1>1, Invariance, PTL DEF Spec, FailuresCanBeCleanedUp

-----------------------------------------------------------------------------
(* The refinement.  A lookup finds an artifact from the step that gives it *)
(* both its final place and its manifest: the rename, or for a raw upload  *)
(* the replacement of the manifest.  The writer is told one step later.    *)

Seen(a) == place[a] = "final" /\ content[a]["manifest"] = "whole"
Told(a) == pc[a] = "done"

\* Readers and writers learn nothing about b in this step.
Unnoticed(b) == (Seen(b)' <=> Seen(b)) /\ (Told(b)' <=> Told(b))

\* What a lookup returns never depends on anything but Seen.
LEMMA ReaderSees ==
    Inv => \A a \in Artifacts : Reader(a) = IF Seen(a) THEN "whole" ELSE "nothing"
<1> SUFFICES ASSUME Inv, NEW a \in Artifacts
             PROVE  Reader(a) = IF Seen(a) THEN "whole" ELSE "nothing"
  OBVIOUS
<1>1. content[a]["manifest"] \in Content /\ WholeIfFinal(a)
  BY DEF Inv, TypeOK, Good, Names
<1> QED
  BY <1>1 DEF Content, WholeIfFinal, Payload, Reader, Seen

\* So it is after a step.
LEMMA ReaderWillSee ==
    Inv' => \A a \in Artifacts : Reader(a)' = IF Seen(a)' THEN "whole" ELSE "nothing"
<1>1. (Inv => \A a \in Artifacts : Reader(a) = IF Seen(a) THEN "whole" ELSE "nothing")'
  BY ReaderSees, PTL
<1> QED
  BY <1>1

\* Up to the rename nothing a writer does is noticed.
LEMMA WritersAreUnnoticed ==
    ASSUME Inv, NEW a \in Artifacts, Write(a) \/ Failure(a) PROVE \A b \in Artifacts : Unnoticed(b)
<1> USE DEF Inv, TypeOK, Good, Unnoticed, Seen, Told, Goto, Put, Move, dirVars
<1> USE DEF Located, Staging, Filling, Committing
<1>1. CASE create_staging_dir(a)
  BY <1>1 DEF create_staging_dir, FilledSoFar
<1>2. CASE write_staging_metadata(a) \/ make_original_dir(a) \/ build_rules(a)
  BY <1>2 DEF write_staging_metadata, make_original_dir, build_rules
<1>3. ASSUME NEW f \in Names, open_file(a, f) \/ finish_file(a, f)
      PROVE  \A b \in Artifacts : Unnoticed(b)
  BY ZenonT(30), <1>3 DEF open_file, finish_file
<1>4. CASE begin_commit(a)
  BY <1>4 DEF begin_commit
<1>5. CASE writer_raises(a) \/ crash(a)
  <2>1. \A b \in Artifacts : content'[b]["manifest"] = content[b]["manifest"]
    BY <1>5, CutShortKeeps DEF writer_raises, crash
  <2> QED
    BY <1>5, <2>1 DEF writer_raises, crash, AfterFailure, Raising, Over
<1>6. ASSUME NEW f \in Names, discard_entry(a, f) PROVE \A b \in Artifacts : Unnoticed(b)
  BY <1>6 DEF discard_entry, writerVars
<1>7. CASE discard_rmdir(a) \/ discard_gives_up(a)
  BY <1>7 DEF discard_rmdir, discard_gives_up
<1> QED
  BY <1>1, <1>2, <1>3, <1>4, <1>5, <1>6, <1>7 DEF Write, Failure

\* Neither is anything the cleaner does.
LEMMA CleanerIsUnnoticed ==
    ASSUME Inv,
           Cleanup \/ cleaner_dies \/ \E a \in Artifacts : journal_ages(a) \/ rmtree_gives_up(a)
    PROVE  \A b \in Artifacts : Unnoticed(b)
<1> USE DEF Inv, TypeOK, Good, Abandoned, Unnoticed, Seen, Told, Put, Move, dirVars, writerVars
<1>1. CASE cleanup_stale \/ cleaner_dies \/ \E a \in Artifacts : rmtree_gives_up(a)
  BY <1>1 DEF cleanup_stale, cleaner_dies, rmtree_gives_up
<1>2. ASSUME NEW a \in Artifacts, begin_rmtree(a) \/ rmtree_rmdir(a) \/ journal_ages(a)
      PROVE  \A b \in Artifacts : Unnoticed(b)
  BY <1>2 DEF begin_rmtree, rmtree_rmdir, journal_ages
<1>3. ASSUME NEW a \in Artifacts, NEW f \in Names, rmtree_unlink(a, f)
      PROVE  \A b \in Artifacts : Unnoticed(b)
  BY SMTT(30), <1>3 DEF rmtree_unlink
<1> QED
  BY <1>1, <1>2, <1>3 DEF Cleanup

\* A commit makes its artifact visible, whole, in one step, and acknowledges it
\* in a later one; nothing else is noticed.
LEMMA CommitIsNoticed ==
    ASSUME Inv, NEW a \in Artifacts, Commit(a) \/ RawManifest(a)
    PROVE  /\ \A b \in Artifacts \ {a} : Unnoticed(b)
           /\ \/ Unnoticed(a)
              \/ ~Seen(a) /\ Seen(a)' /\ (Told(a)' <=> Told(a))
              \/ Seen(a) /\ Seen(a)' /\ Told(a)'
<1> USE StoreAssumption
    DEF Inv, TypeOK, Good, Unnoticed, Seen, Told, Goto, Put, Move, Names
<1>1. CASE mark_committing(a) \/ fsync_data(a) \/ fsync_manifest(a) \/ unlink_journal(a)
           \/ fsync_staging_dir(a)
  BY <1>1 DEF mark_committing, fsync_data, fsync_manifest, unlink_journal, fsync_staging_dir,
              Located, Staging, Committing
<1>2. CASE rename_staging_dir(a)
  <2>1. place[a] = "staging" /\ pc[a] = "rename"
    BY <1>2 DEF rename_staging_dir, Located, Staging, Committing
  <2>2. content[a]["manifest"] = IF a \in Raw THEN "absent" ELSE "whole"
    BY <2>1 DEF FilledWhole, Committing, Payload
  <2> QED
    BY <1>2, <2>1, <2>2 DEF rename_staging_dir
<1>3. CASE fsync_parent(a)
  <2>1. place[a] = "final" /\ (a \notin Raw => content[a]["manifest"] = "whole")
    BY <1>3 DEF fsync_parent, Located, Publishing, WholeIfFinal, Payload
  <2> QED
    BY <1>3, <2>1 DEF fsync_parent
<1>4. CASE write_manifest_tmp(a)
  BY <1>4 DEF write_manifest_tmp
<1>5. CASE replace_manifest(a)
  <2>1. place[a] = "final" /\ content[a]["manifest"] = "absent" /\ content[a]["manifest_tmp"] = "whole"
    BY <1>5 DEF replace_manifest, Located, Publishing, RawSteps
  <2>2. content'[a]["manifest"] = "whole" /\ \A b \in Artifacts \ {a} : content'[b] = content[b]
    BY <1>5, <2>1 DEF replace_manifest
  <2> QED
    BY <1>5, <2>1, <2>2 DEF replace_manifest
<1>6. CASE sync_manifest(a)
  <2>1. place[a] = "final" /\ content[a]["manifest"] = "whole"
    BY <1>6 DEF sync_manifest, Located, Publishing, RawSteps
  <2> QED
    BY <1>6, <2>1 DEF sync_manifest
<1> QED
  BY <1>1, <1>2, <1>3, <1>4, <1>5, <1>6 DEF Commit, RawManifest

\* A power loss takes publications away, but none that is acknowledged and
\* whose directory is durable; it adds none.
LEMMA PowerLossLoses ==
    ASSUME Inv, Inv', FsyncsReachTheDisk, power_loss, NEW a \in Artifacts
    PROVE  /\ Told(a)' <=> Told(a)
           /\ Seen(a)' => Seen(a)
           /\ Told(a) /\ a \in ParentExists => Seen(a) /\ Seen(a)'
<1>1. /\ "power" \in Env /\ Raw = {}
      /\ pc'[a] = IF pc[a] \in Over THEN pc[a] ELSE "dead"
  BY DEF power_loss, FsyncsReachTheDisk
<1>2. Told(a)' <=> Told(a)
  BY <1>1 DEF Told, Over
<1>3. place'[a] = "final" => place[a] = "final"
  <2>1. place'[a] \in PlaceAfter(a)
    BY DEF power_loss
  <2> QED
    BY <2>1 DEF PlaceAfter
<1>4. Seen(a)' => Seen(a)
  BY <1>1, <1>3 DEF Seen, Inv, Good, WholeIfFinal, Payload
<1>5. Told(a) /\ a \in ParentExists => Seen(a) /\ Seen(a)'
  BY <1>2 DEF Told, Seen, Inv, Good, Acknowledged
<1> QED
  BY <1>2, <1>4, <1>5

\* The steps of the abstract specification, in terms of Seen and Told.
LEMMA StepRefines ==
    ASSUME WritersAreTimely, FsyncsReachTheDisk, Inv, Inv', [Next]_vars
    PROVE  [Publication!Next]_(Publication!pubVars)
<1> DEFINE R == [a \in Artifacts |-> Reader(a)]
           K == {a \in Artifacts : pc[a] = "done"}
<1>1. /\ R = [a \in Artifacts |-> IF Seen(a) THEN "whole" ELSE "nothing"]
      /\ R' = [a \in Artifacts |-> IF Seen(a)' THEN "whole" ELSE "nothing"]
  <2>1. \A a \in Artifacts : Reader(a) = IF Seen(a) THEN "whole" ELSE "nothing"
    BY ReaderSees
  <2>2. \A a \in Artifacts : Reader(a)' = IF Seen(a)' THEN "whole" ELSE "nothing"
    BY ReaderWillSee
  <2> QED
    BY <2>1, <2>2
<1>2. K = {a \in Artifacts : Told(a)} /\ K' = {a \in Artifacts : Told(a)'}
  BY DEF Told
<1>3. ASSUME \A b \in Artifacts : Unnoticed(b) PROVE UNCHANGED Publication!pubVars
  BY <1>1, <1>2, <1>3 DEF Unnoticed, Publication!pubVars
<1>4. ASSUME NEW a \in Artifacts, Commit(a) \/ RawManifest(a)
      PROVE  [Publication!Next]_(Publication!pubVars)
  <2>1. \A b \in Artifacts \ {a} : Unnoticed(b)
    BY <1>4, CommitIsNoticed
  <2>2. CASE Unnoticed(a)
    BY <1>3, <2>1, <2>2
  <2>3. CASE ~Seen(a) /\ Seen(a)' /\ (Told(a)' <=> Told(a))
    <3>1. R[a] = "nothing" /\ R' = [R EXCEPT ![a] = "whole"] /\ K' = K
      BY ZenonT(30), <1>1, <1>2, <2>1, <2>3 DEF Unnoticed
    <3> QED
      BY <3>1 DEF Publication!Next, Publication!Publish
  <2>4. CASE Seen(a) /\ Seen(a)' /\ Told(a)'
    <3>1. R[a] = "whole" /\ R' = R /\ K' = K \union {a}
      BY <1>1, <1>2, <2>1, <2>4 DEF Unnoticed
    <3> QED
      BY <3>1 DEF Publication!Next, Publication!Acknowledge
  <2> QED
    BY <1>4, <2>2, <2>3, <2>4, CommitIsNoticed
<1>5. CASE power_loss
  <2> DEFINE S == {a \in Artifacts : Seen(a) /\ ~Seen(a)'}
  <2>1. K' = K /\ S \cap K \cap ParentExists = {}
    BY <1>2, <1>5, PowerLossLoses
  <2>2. R' = [a \in Artifacts |-> IF a \in S THEN "nothing" ELSE R[a]]
    BY <1>1, <1>5, PowerLossLoses
  <2>3. S \in SUBSET Artifacts
    OBVIOUS
  <2> HIDE DEF S
  <2> QED
    BY <2>1, <2>2, <2>3 DEF Publication!Next, Publication!Lose
<1>6. CASE UNCHANGED vars
  BY <1>3, <1>6 DEF vars, Unnoticed, Seen, Told
<1> QED
  BY <1>3, <1>4, <1>5, <1>6, WritersAreUnnoticed, CleanerIsUnnoticed DEF Next

\* The stores implement AtomicPublication: readers find an artifact whole or
\* not at all, it never changes, and what a writer was told is published stays
\* published, however writers, failures, deaths, power losses and the cleaner
\* interleave.
THEOREM StoresPublishAtomically ==
    ASSUME WritersAreTimely, FsyncsReachTheDisk PROVE Spec => PublishesAtomically
<1>1. Init => Publication!Init
  BY DEF Init, Publication!Init, Reader
<1>2. Inv /\ Inv' /\ [Next]_vars => [Publication!Next]_(Publication!pubVars)
  BY StepRefines
<1> QED
  BY <1>1, <1>2, Invariance, PTL DEF Spec, PublishesAtomically, Publication!Spec

=============================================================================
