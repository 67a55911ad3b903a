------------------------------- MODULE Photos -------------------------------
(***************************************************************************)
(* The photos of one person: PhotosService's upload, deletion and          *)
(* re-analysis, the queue of analyses (Bull, on Redis: it outlives the     *)
(* process) and PhotoAnalysisProcessor, which merges what it sees into the *)
(* person's tags.                                                          *)
(***************************************************************************)
EXTENDS Tags

CONSTANTS
  Photos,   \* uploads, and the rows they claim
  Jobs,     \* analyses
  NoPhoto,  \* no photo
  Quota,    \* photoLimitPerPerson of the plan
  MaxFails  \* bound on restarts, and on failures that leave a call unfinished

ASSUME PhotosAssumption == NoPhoto \notin Photos /\ Quota \in Nat /\ MaxFails \in Nat

VARIABLES
  photo,   \* photo[p]: the upload, the row of person_photos, and its blob
  job,     \* job[j]: where it is, the photo, the tags it has yet to merge
  recheck, \* recheck[p]: where the re-analysis of p is
  fails    \* failures so far

photoVars == <<photo, job, recheck, fails>>

-----------------------------------------------------------------------------
(* Types.                                                                  *)

\* ai: has the plan of the upload photoAiAnalysis?
\* path: has the row its blob_path?  drop: the deletion, which reads it.
\* early: was it deleted before its upload had ended?
\* lost: did a failure or a restart take the analysis, the rest of the upload, or
\* the deletion of the blob?
Photo == [pc : {"new", "claimed", "processed", "stored", "queue", "done", "failed"},
          row : {"none", "there", "gone"}, path : BOOLEAN, blob : BOOLEAN,
          status : {"pending", "processing", "complete", "failed"},
          drop : {"no", "path", "nopath", "row"}, early : BOOLEAN, lost : BOOLEAN, ai : BOOLEAN]

\* again: has the queue given it out a second time?
Job == [pc : {"new", "queued", "started", "read", "answered", "merge", "create", "done"},
        photo : Photos \cup {NoPhoto}, sees : SUBSET Labels, again : BOOLEAN]

PhotosTypeOK ==
  /\ TagsTypeOK
  /\ photo \in [Photos -> Photo]
  /\ job \in [Jobs -> Job]
  /\ recheck \in [Photos -> {"no", "checked", "queue", "queued", "ended"}]
  /\ fails \in 0..MaxFails

NewPhoto == [pc |-> "new", row |-> "none", path |-> FALSE, blob |-> FALSE,
             status |-> "pending", drop |-> "no", early |-> FALSE, lost |-> FALSE,
             ai |-> FALSE]
NewJob == [pc |-> "new", photo |-> NoPhoto, sees |-> {}, again |-> FALSE]

PhotosInit ==
  /\ TagsInit
  /\ photo = [p \in Photos |-> NewPhoto]
  /\ job = [j \in Jobs |-> NewJob]
  /\ recheck = [p \in Photos |-> "no"]
  /\ fails = 0

There(p) == photo[p].row = "there"

\* A call that fails half-way.
Failure == fails < MaxFails /\ fails' = fails + 1

-----------------------------------------------------------------------------
(* Upload.                                                                 *)

\* A serializable transaction counts the rows and claims one.  The plan is the
\* one that the user had when the request came in.
PhotoClaim(p) ==
  /\ photo[p].pc = "new"
  /\ Cardinality({q \in Photos : There(q)}) < Quota
  /\ \E ai \in BOOLEAN :
       photo' = [photo EXCEPT ![p].pc = "claimed", ![p].row = "there", ![p].ai = ai]
  /\ UNCHANGED <<job, recheck, fails, tagVars>>

\* An image that cannot be processed gives the row back.
PhotoProcess(p) ==
  /\ photo[p].pc = "claimed"
  /\ \/ photo' = [photo EXCEPT ![p].pc = IF There(p) THEN "processed" ELSE "failed"]
     \/ photo' = [photo EXCEPT ![p].pc = "failed", ![p].row = "gone"]
  /\ UNCHANGED <<job, recheck, fails, tagVars>>

PhotoUpload(p) ==
  /\ photo[p].pc = "processed"
  /\ photo' = [photo EXCEPT ![p].pc = "stored", ![p].blob = TRUE]
  /\ UNCHANGED <<job, recheck, fails, tagVars>>

PhotoWrite(p) ==
  /\ photo[p].pc = "stored"
  /\ photo' = IF There(p)
              THEN [photo EXCEPT ![p].pc = "queue", ![p].path = TRUE]
              ELSE [photo EXCEPT ![p].pc = "failed"]
  /\ UNCHANGED <<job, recheck, fails, tagVars>>

\* Job j is queued for photo p.
Queue(j, p) ==
  /\ job[j].pc = "new"
  /\ job' = [job EXCEPT ![j] = [NewJob EXCEPT !.pc = "queued", !.photo = p]]

\* Only a plan with photoAiAnalysis has its photos analysed; without it ("store
\* only") the row keeps its first status, pending.
PhotoQueue(p, j) ==
  /\ photo[p].pc = "queue" /\ photo[p].ai
  /\ Queue(j, p)
  /\ photo' = [photo EXCEPT ![p].pc = "done"]
  /\ UNCHANGED <<recheck, fails, tagVars>>

PhotoStoreOnly(p) ==
  /\ photo[p].pc = "queue" /\ ~photo[p].ai
  /\ photo' = [photo EXCEPT ![p].pc = "done"]
  /\ UNCHANGED <<job, recheck, fails, tagVars>>

Uploading(p) == photo[p].pc \in {"claimed", "processed", "stored", "queue"}

\* Storage, database, Redis or queue fail the rest of the upload: nothing is
\* taken back.  The image may be stored when its thumbnail fails.
PhotoFails(p) ==
  /\ Uploading(p) /\ Failure
  /\ \E blob \in {photo[p].blob, photo[p].blob \/ photo[p].pc = "processed"} :
       photo' = [photo EXCEPT ![p].pc = "failed", ![p].blob = blob, ![p].lost = TRUE]
  /\ UNCHANGED <<job, recheck, tagVars>>

-----------------------------------------------------------------------------
(* Deletion: the blob, then the row.                                       *)

DeleteRead(p) ==
  /\ There(p) /\ photo[p].drop = "no"
  /\ photo' = [photo EXCEPT ![p].drop = IF photo[p].path THEN "path" ELSE "nopath"]
  /\ UNCHANGED <<job, recheck, fails, tagVars>>

\* A plausible bug: the blob is left to somebody else.
DeleteBlobNever(p) ==
  /\ photo[p].drop \in {"path", "nopath"}
  /\ photo' = [photo EXCEPT ![p].drop = "row", ![p].early = (photo[p].drop = "nopath")]
  /\ UNCHANGED <<job, recheck, fails, tagVars>>

\* Without a path there is no blob to delete yet.
DeleteBlob(p) ==
  /\ photo[p].drop \in {"path", "nopath"}
  /\ photo' = [photo EXCEPT ![p].drop = "row", ![p].early = (photo[p].drop = "nopath"),
                            ![p].blob = @ /\ photo[p].drop = "nopath"]
  /\ UNCHANGED <<job, recheck, fails, tagVars>>

\* A storage that fails is logged, and the row goes all the same.
DeleteBlobFails(p) ==
  /\ photo[p].drop \in {"path", "nopath"} /\ Failure
  /\ photo' = [photo EXCEPT ![p].drop = "row", ![p].early = (photo[p].drop = "nopath"),
                            ![p].lost = TRUE]
  /\ UNCHANGED <<job, recheck, tagVars>>

DeleteRow(p) ==
  /\ photo[p].drop = "row" /\ There(p)
  /\ photo' = [photo EXCEPT ![p].row = "gone"]
  /\ UNCHANGED <<job, recheck, fails, tagVars>>

\* The database fails the deletion of the row: it may be tried again.
DeleteRowFails(p) ==
  /\ photo[p].drop = "row" /\ There(p) /\ Failure
  /\ photo' = [photo EXCEPT ![p].drop = "no"]
  /\ UNCHANGED <<job, recheck, tagVars>>

-----------------------------------------------------------------------------
(* Re-analysis.                                                            *)

\* The debounce is read, and set at the end: one re-analysis of a photo here.
Reanalyze(p) ==
  /\ recheck[p] = "no" /\ There(p)
  /\ recheck' = [recheck EXCEPT ![p] = "checked"]
  /\ UNCHANGED <<photo, job, fails, tagVars>>

ReanalyzeReset(p) ==
  /\ recheck[p] = "checked"
  /\ recheck' = [recheck EXCEPT ![p] = IF There(p) THEN "queue" ELSE "ended"]
  /\ photo' = IF There(p) THEN [photo EXCEPT ![p].status = "pending"] ELSE photo
  /\ UNCHANGED <<job, fails, tagVars>>

ReanalyzeQueue(p, j) ==
  /\ recheck[p] = "queue"
  /\ Queue(j, p)
  /\ recheck' = [recheck EXCEPT ![p] = "queued"]
  /\ UNCHANGED <<photo, fails, tagVars>>

\* A failure after the reset leaves the photo pending without a job.
ReanalyzeFails(p) ==
  /\ recheck[p] \in {"checked", "queue"} /\ Failure
  /\ recheck' = [recheck EXCEPT ![p] = "ended"]
  /\ photo' = [photo EXCEPT ![p].lost = @ \/ recheck[p] = "queue"]
  /\ UNCHANGED <<job, tagVars>>

-----------------------------------------------------------------------------
(* Analysis.                                                               *)

JobGoes(j, pc) == job' = [job EXCEPT ![j].pc = pc]
JobEnds(j) == job' = [job EXCEPT ![j] = [NewJob EXCEPT !.pc = "done", !.photo = job[j].photo]]

\* A write to the row of the job's photo fails when it has gone, and the catch
\* block's write then fails as well: the job ends.
Mark(j, status, pc) ==
  LET p == job[j].photo IN
  IF There(p)
  THEN photo' = [photo EXCEPT ![p].status = status] /\ JobGoes(j, pc)
  ELSE JobEnds(j) /\ UNCHANGED photo

JobStart(j) ==
  /\ job[j].pc = "queued"
  /\ Mark(j, "processing", "started")
  /\ UNCHANGED <<recheck, fails, tagVars>>

\* A plausible bug: a job without a blob is skipped like one without a row.
JobReadSkips(j) ==
  LET p == job[j].photo IN
  /\ job[j].pc = "started"
  /\ IF There(p) /\ photo[p].blob /\ photo[p].path THEN JobGoes(j, "read") ELSE JobEnds(j)
  /\ UNCHANGED <<photo, recheck, fails, tagVars>>

\* The row, then the blob: without the row the job is skipped, without the
\* blob it fails.
JobRead(j) ==
  LET p == job[j].photo IN
  /\ job[j].pc = "started"
  /\ IF ~There(p) THEN JobEnds(j) /\ UNCHANGED photo
     ELSE IF photo[p].blob /\ photo[p].path THEN JobGoes(j, "read") /\ UNCHANGED photo
     ELSE JobEnds(j) /\ photo' = [photo EXCEPT ![p].status = "failed"]
  /\ UNCHANGED <<recheck, fails, tagVars>>

JobAnswer(j) ==
  /\ job[j].pc = "read"
  /\ \E labels \in SUBSET Labels :
       job' = [job EXCEPT ![j].pc = "answered", ![j].sees = labels]
  /\ UNCHANGED <<photo, recheck, fails, tagVars>>

JobStore(j) ==
  /\ job[j].pc = "answered"
  /\ Mark(j, "complete", "merge")
  /\ UNCHANGED <<recheck, fails, tagVars>>

\* mergeSignals reads the tags once, and leaves out what is there.
JobLook(j) ==
  /\ job[j].pc = "merge"
  /\ job' = [job EXCEPT ![j].pc = "create", ![j].sees = {t \in @ : ~Has(t)}]
  /\ UNCHANGED <<photo, recheck, fails, tagVars>>

\* It creates one tag after the other; the failure of one is swallowed.
JobMerge(j, t) ==
  /\ job[j].pc = "create" /\ t \in job[j].sees
  /\ job' = [job EXCEPT ![j].sees = @ \ {t}]
  /\ tag' = IF Has(t) THEN tag ELSE [tag EXCEPT ![t] = "photo"]
  /\ UNCHANGED <<photo, recheck, fails, generate, add, debounce>>

JobDone(j) ==
  /\ job[j].pc = "create" /\ job[j].sees = {}
  /\ JobEnds(j)
  /\ UNCHANGED <<photo, recheck, fails, tagVars>>

\* The catch block: the AI fails or times out, storage or database fail.
JobCatch(j) ==
  /\ job[j].pc \in {"started", "read", "answered", "merge"}
  /\ JobEnds(j)
  /\ photo' = IF There(job[j].photo)
              THEN [photo EXCEPT ![job[j].photo].status = "failed"] ELSE photo
  /\ UNCHANGED <<recheck, fails, tagVars>>

\* The database fails the mark "processing", which is outside of the try, or the
\* write of the catch block: the job fails with the status as it was, and the
\* queue does not try it again.
JobBreaks(j) ==
  /\ job[j].pc \in {"queued", "started", "read", "answered", "merge"} /\ Failure
  /\ JobEnds(j)
  /\ photo' = [photo EXCEPT ![job[j].photo].lost = TRUE]
  /\ UNCHANGED <<recheck, tagVars>>

-----------------------------------------------------------------------------

Analysing(p) == \E j \in Jobs : job[j].photo = p /\ job[j].pc \notin {"new", "done"}

\* A restart ends the calls.  The queue gives a stalled job out again, once.
PhotosRestart ==
  /\ Failure
  /\ job' = [j \in Jobs |->
               IF job[j].pc \in {"new", "queued", "done"} THEN job[j]
               ELSE IF job[j].again THEN [NewJob EXCEPT !.pc = "done", !.photo = job[j].photo]
               ELSE [NewJob EXCEPT !.pc = "queued", !.photo = job[j].photo, !.again = TRUE]]
  /\ photo' = [p \in Photos |->
                 [photo[p] EXCEPT
                    !.pc = IF Uploading(p) THEN "failed" ELSE @,
                    !.drop = IF There(p) THEN "no" ELSE @,
                    !.lost = @ \/ Uploading(p) \/ recheck[p] = "queue"
                               \/ \E j \in Jobs : job[j].photo = p /\ job[j].again]]
  /\ recheck' = [p \in Photos |-> IF recheck[p] \in {"checked", "queue"} THEN "ended" ELSE recheck[p]]
  /\ generate' = [g \in Generates |-> IF g \in Generating
                                      THEN [generate[g] EXCEPT !.pc = "failed", !.rest = {}]
                                      ELSE generate[g]]
  /\ add' = [a \in Adds |-> IF add[a].pc = "create" THEN [pc |-> "done", label |-> NoLabel]
                            ELSE add[a]]
  /\ debounce' = FALSE
  /\ UNCHANGED tag

PhotosNext ==
  \/ \E p \in Photos :
       \/ PhotoClaim(p) \/ PhotoProcess(p) \/ PhotoUpload(p) \/ PhotoWrite(p)
       \/ PhotoStoreOnly(p) \/ PhotoFails(p)
       \/ DeleteRead(p) \/ DeleteBlob(p) \/ DeleteBlobFails(p) \/ DeleteRow(p) \/ DeleteRowFails(p)
       \/ Reanalyze(p) \/ ReanalyzeReset(p) \/ ReanalyzeFails(p)
       \/ \E j \in Jobs : PhotoQueue(p, j) \/ ReanalyzeQueue(p, j)
  \/ \E j \in Jobs : \/ JobStart(j) \/ JobRead(j) \/ JobAnswer(j) \/ JobStore(j)
                     \/ JobLook(j) \/ (\E t \in Labels : JobMerge(j, t)) \/ JobDone(j)
                     \/ JobCatch(j) \/ JobBreaks(j)
  \/ PhotosRestart
  \/ TagsNext /\ UNCHANGED photoVars

PhotosSpec == PhotosInit /\ [][PhotosNext]_<<tagVars, photoVars>>

-----------------------------------------------------------------------------
(* Properties.                                                             *)

\* A blob is not left behind: it has a row that names it or an upload that is
\* about to write it, unless the photo was deleted before its upload had ended
\* or a failure or a restart cut the upload or the deletion short (uploadPhoto,
\* deletePhoto, photos.service.ts:131-278, 366-381).
BlobsAreOwned ==
  \A p \in Photos :
    photo[p].blob /\ ~photo[p].early /\ ~photo[p].lost => There(p) \/ photo[p].pc = "stored"

\* Is an analysis of p promised: by the plan, or by a re-analysis?
Promised(p) == (photo[p].ai /\ photo[p].pc = "done") \/ recheck[p] = "queued"

\* No photo whose analysis was promised is shown as waiting or as being analysed
\* for ever: without a job in the queue it has a result or a failure, however the
\* jobs of two analyses interleave, with its deletion too, whatever fails inside
\* of the processor's try, and through one restart (uploadPhoto, reanalyzePhoto,
\* photos.service.ts:261-333; handleAnalysis, photo-analysis.processor.ts:31-113).
AnalysesSettle ==
  \A p \in Photos :
    There(p) /\ Promised(p) /\ recheck[p] # "queue" /\ ~Analysing(p) /\ ~photo[p].lost =>
      photo[p].status \in {"complete", "failed"}

\* A photo leaves nothing behind: neither a blob nor a promised analysis without
\* an end (uploadPhoto, deletePhoto, reanalyzePhoto and handleAnalysis).
PhotosSettle == BlobsAreOwned /\ AnalysesSettle
=============================================================================
