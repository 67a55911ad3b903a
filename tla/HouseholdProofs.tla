--------------------------- MODULE HouseholdProofs --------------------------
(***************************************************************************)
(* Proofs about People, Photos with Tags, Surveys, Calendar, PriceWatch,   *)
(* Exchanges and Gallery, each for any values of its constants.            *)
(***************************************************************************)
EXTENDS People, Photos, Surveys, Calendar, PriceWatch, Exchanges, Gallery, FiniteSetTheorems, TLAPS

-----------------------------------------------------------------------------
(* People.                                                                 *)

Shape ==
  /\ newcomer \in [Newcomers -> Newcomer]
  /\ unlimited \in BOOLEAN
  /\ IsFiniteSet(people)

\* While the user has not upgraded, every request has read a plan with a limit.
Uncapped == ~unlimited => \A n \in Newcomers : newcomer[n].pc # "new" => newcomer[n].capped

\* Whoever may still commit has counted a list that has not grown since.
Room ==
  ~unlimited => \A n \in Newcomers :
    newcomer[n].pc = "counted" /\ ~newcomer[n].overtaken => Cardinality(people) < MaxPeople

IInv == Shape /\ Uncapped /\ Room /\ PeopleWithinPlan

-----------------------------------------------------------------------------

\* Crowd() only marks requests.
LEMMA CrowdMarks ==
  ASSUME NEW requests \in [Newcomers -> Newcomer], NEW now
  PROVE  /\ Crowd(requests, now) \in [Newcomers -> Newcomer]
         /\ \A n \in Newcomers :
              /\ Crowd(requests, now)[n].pc = requests[n].pc
              /\ Crowd(requests, now)[n].capped = requests[n].capped
              /\ Crowd(requests, now)[n].overtaken = requests[n].overtaken
BY DEF Crowd, Newcomer

\* An action that leaves the requests alone, adds nobody and takes no plan back
\* preserves the invariant.
LEMMA Others ==
  ASSUME IInv, UNCHANGED newcomer, unlimited' \in BOOLEAN, unlimited => unlimited',
         people' \subseteq people
  PROVE  IInv'
<1>1. IsFiniteSet(people') /\ Cardinality(people') <= Cardinality(people)
  BY FS_Subset DEF IInv, Shape
<1>2. Cardinality(people) \in Nat /\ Cardinality(people') \in Nat
  BY <1>1, FS_CardinalityType DEF IInv, Shape
<1>3. MaxPeople \in Nat
  BY PeopleAssumption DEF PeopleAssumption
<1> QED
  BY <1>1, <1>2, <1>3 DEF IInv, Shape, Uncapped, Room, PeopleWithinPlan

LEMMA Start == PeopleInit => IInv
<1> SUFFICES ASSUME PeopleInit PROVE IInv
  OBVIOUS
<1>1. newcomer \in [Newcomers -> Newcomer]
  BY DEF PeopleInit, Newcomer
<1>2. IsFiniteSet(people) /\ Cardinality(people) <= MaxPeople
  BY PeopleAssumption DEF PeopleInit, PeopleAssumption
<1> QED
  BY <1>1, <1>2 DEF IInv, Shape, Uncapped, Room, PeopleWithinPlan, PeopleInit

LEMMA ReadKeeps == ASSUME IInv, NEW n \in Newcomers, AddReadLimit(n) PROVE IInv'
<1> DEFINE read == [newcomer EXCEPT ![n].pc = "limit", ![n].capped = ~unlimited]
<1>1. read \in [Newcomers -> Newcomer]
  BY DEF IInv, Shape, Newcomer
<1>2. newcomer' = Crowd(read, people) /\ people' = people /\ unlimited' = unlimited
  BY DEF AddReadLimit
<1>3. \A m \in Newcomers : m # n => read[m] = newcomer[m]
  BY DEF IInv, Shape
<1>4. read[n].pc = "limit" /\ read[n].capped = ~unlimited
  BY DEF IInv, Shape, Newcomer
<1> HIDE DEF read
<1>5. Shape'
  BY <1>1, <1>2, CrowdMarks DEF IInv, Shape
<1>6. ASSUME ~unlimited', NEW m \in Newcomers, newcomer'[m].pc # "new"
      PROVE  newcomer'[m].capped
  <2>1. newcomer'[m].pc = read[m].pc /\ newcomer'[m].capped = read[m].capped
    BY <1>1, <1>2, CrowdMarks
  <2>2. CASE m = n
    BY <1>2, <1>4, <1>6, <2>1, <2>2
  <2>3. CASE m # n
    BY <1>2, <1>3, <1>6, <2>1, <2>3 DEF IInv, Uncapped
  <2> QED
    BY <2>2, <2>3
<1>7. Room'
  BY <1>1, <1>2, <1>3, <1>4, CrowdMarks DEF IInv, Room
<1> QED
  BY <1>2, <1>5, <1>6, <1>7 DEF IInv, Uncapped, PeopleWithinPlan

LEMMA CountKeeps == ASSUME IInv, NEW n \in Newcomers, AddCount(n) PROVE IInv'
<1>1. people' = people /\ unlimited' = unlimited
  BY DEF AddCount
<1>2. Cardinality(people) \in Nat /\ MaxPeople \in Nat
  BY FS_CardinalityType, PeopleAssumption DEF IInv, Shape, PeopleAssumption
<1>3. /\ newcomer' \in [Newcomers -> Newcomer]
      /\ \A m \in Newcomers : m # n => newcomer'[m] = newcomer[m]
      /\ newcomer'[n].capped = newcomer[n].capped /\ newcomer[n].pc = "limit"
      /\ newcomer'[n].pc = "counted" => ~newcomer[n].capped \/ ~(Cardinality(people) >= MaxPeople)
  BY <1>2 DEF IInv, Shape, AddCount, Newcomer
<1>4. Shape' /\ Uncapped'
  BY <1>1, <1>3 DEF IInv, Shape, Uncapped
<1>5. Room'
  BY <1>1, <1>2, <1>3 DEF IInv, Uncapped, Room
<1> QED
  BY <1>1, <1>4, <1>5 DEF IInv, PeopleWithinPlan

\* The one that commits has counted the list as it is, and overtakes all others.
LEMMA CommitKeeps == ASSUME IInv, NEW n \in Newcomers, AddCommit(n) PROVE IInv'
<1>1. CASE Conflicts(n)
  <2>1. /\ newcomer' \in [Newcomers -> Newcomer]
        /\ \A m \in Newcomers : m # n => newcomer'[m] = newcomer[m]
        /\ newcomer'[n].pc = "conflict" /\ newcomer'[n].capped = newcomer[n].capped
        /\ newcomer[n].pc = "counted"
        /\ people' = people /\ unlimited' = unlimited
    BY <1>1 DEF IInv, Shape, AddCommit, Newcomer
  <2> QED
    BY <2>1 DEF IInv, Shape, Uncapped, Room, PeopleWithinPlan
<1>2. CASE ~Conflicts(n)
  <2> DEFINE after == [m \in Newcomers |->
               IF m = n THEN [newcomer[n] EXCEPT !.pc = "made"]
               ELSE [newcomer[m] EXCEPT !.overtaken = @ \/ (newcomer[m].pc = "counted" /\ newcomer[n].capped)]]
  <2>1. after \in [Newcomers -> Newcomer]
    BY DEF IInv, Shape, Newcomer
  <2>2. newcomer' = Crowd(after, people') /\ people' = people \cup {n} /\ unlimited' = unlimited
    BY <1>2 DEF AddCommit
  <2>3. newcomer[n].pc = "counted"
    BY DEF AddCommit
  <2>4. \A m \in Newcomers : after[m].capped = newcomer[m].capped
    BY DEF IInv, Shape, Newcomer
  <2>5. after[n].pc = "made"
    BY DEF IInv, Shape, Newcomer
  <2>6. \A m \in Newcomers : m # n =>
          /\ after[m].pc = newcomer[m].pc
          /\ newcomer[m].pc = "counted" /\ newcomer[n].capped => after[m].overtaken
    BY DEF IInv, Shape, Newcomer
  <2> HIDE DEF after
  <2>7. IsFiniteSet(people') /\ Cardinality(people') <= Cardinality(people) + 1
    <3>1. IsFiniteSet(people) /\ Cardinality(people) \in Nat
      BY FS_CardinalityType DEF IInv, Shape
    <3>2. /\ IsFiniteSet(people \cup {n})
          /\ Cardinality(people \cup {n}) = IF n \in people THEN Cardinality(people)
                                             ELSE Cardinality(people) + 1
      BY <3>1, FS_AddElement
    <3> QED
      BY <2>2, <3>1, <3>2
  <2>8. Shape'
    BY <2>1, <2>2, <2>7, CrowdMarks DEF IInv, Shape
  <2>9. Uncapped'
    BY <2>1, <2>2, <2>3, <2>4, <2>5, <2>6, CrowdMarks DEF IInv, Uncapped
  <2>10. ~unlimited => newcomer[n].capped
    BY <2>3 DEF IInv, Uncapped
  <2>11. Room'
    BY <2>1, <2>2, <2>5, <2>6, <2>10, CrowdMarks DEF Room
  <2>12. ~unlimited => Cardinality(people) < MaxPeople
    BY <1>2, <2>3, <2>10 DEF IInv, Room, Conflicts
  <2>13. PeopleWithinPlan'
    BY <2>2, <2>7, <2>12, FS_CardinalityType, PeopleAssumption
       DEF PeopleWithinPlan, IInv, Shape, PeopleAssumption
  <2> QED
    BY <2>8, <2>9, <2>11, <2>13 DEF IInv
<1> QED
  BY <1>1, <1>2

LEMMA StepKeeps == ASSUME IInv, [PeopleNext]_peopleVars PROVE IInv'
<1>1. ASSUME NEW n \in Newcomers, AddReadLimit(n) \/ AddCount(n) \/ AddCommit(n) PROVE IInv'
  BY <1>1, ReadKeeps, CountKeeps, CommitKeeps
<1>2. ASSUME NEW p \in Newcomers \cup OldFriends, Remove(p) PROVE IInv'
  BY <1>2, Others DEF Remove, IInv, Shape
<1>3. ASSUME NEW f \in Details, NEW word \in Words \cup {Blank}, Type(f, word) PROVE IInv'
  BY <1>3, Others DEF Type, IInv, Shape
<1>4. CASE Upgrade \/ OpenForm \/ SubmitForm \/ SaveForm \/ SaveFails
  BY <1>4, Others DEF Upgrade, OpenForm, SubmitForm, SaveForm, SaveFails, IInv, Shape
<1>5. CASE UNCHANGED peopleVars
  BY <1>5, Others DEF peopleVars, IInv, Shape
<1> QED
  BY <1>1, <1>2, <1>3, <1>4, <1>5 DEF PeopleNext

-----------------------------------------------------------------------------

\* However many requests to add a person race, and whoever is removed meanwhile,
\* a plan with a limit never has more people than that
\* (create, persons.service.ts:82-135).
THEOREM ThePlanIsKept == PeopleSpec => []PeopleWithinPlan
<1>1. PeopleSpec => []IInv
  BY Start, StepKeeps, PTL DEF PeopleSpec
<1>2. IInv => PeopleWithinPlan
  BY DEF IInv
<1> QED
  BY <1>1, <1>2, PTL

-----------------------------------------------------------------------------
(* Photos and Tags.                                                        *)

-----------------------------------------------------------------------------
(* A photo's upload, its deletion and its analyses.                        *)

PhotosShape ==
  /\ photo \in [Photos -> Photo]
  /\ job \in [Jobs -> Job]
  /\ recheck \in [Photos -> {"no", "checked", "queue", "queued", "ended"}]
  /\ \A j \in Jobs : job[j].pc # "new" => job[j].photo \in Photos

\* What an upload and a deletion that meet leave of the row and the blob.
Owned(f) ==
  /\ f.row = "none" <=> f.pc = "new"
  /\ f.blob => f.pc \in {"stored", "queue", "done", "failed"}
  /\ f.path => f.pc \in {"queue", "done", "failed"}
  /\ f.drop = "path" => f.path
  /\ f.drop = "row" /\ ~f.early => f.path /\ (f.blob => f.lost)
  /\ f.row = "gone" /\ f.pc \in {"claimed", "processed", "stored"} => f.early /\ f.drop = "row"
  /\ f.row = "gone" /\ f.blob => f.early \/ f.lost \/ f.pc = "stored"

\* Jobs that have yet to write a result or a failure.
LiveJobs == {j \in Jobs : job[j].pc \in {"queued", "started", "read", "answered"}}

\* Photos whose analysis is to come.
Expecting == {p \in Photos : recheck[p] = "queue" \/ \E j \in LiveJobs : job[j].photo = p}

\* Waiting for an analysis that was promised; r: its re-analysis.
Waiting(f, r) ==
  /\ f.row = "there" /\ ~f.lost /\ f.status \notin {"complete", "failed"}
  /\ (f.ai /\ f.pc = "done") \/ r = "queued"

PhotosInv ==
  /\ PhotosShape
  /\ \A p \in Photos : Owned(photo[p])
  /\ \A p \in Photos : Waiting(photo[p], recheck[p]) => p \in Expecting
  /\ \A p \in Photos : photo[p].pc = "new" => recheck[p] = "no"

-----------------------------------------------------------------------------
(* How a photo's record changes.                                           *)

PhotoPcs == {"new", "claimed", "processed", "stored", "queue", "done", "failed"}
Rows == {"none", "there", "gone"}

PhotoIs(g, pc, row, path, blob, state, drop, early, lost, ai) ==
  /\ g.pc = pc /\ g.row = row /\ g.path = path /\ g.blob = blob
  /\ g.status = state /\ g.drop = drop /\ g.early = early /\ g.lost = lost /\ g.ai = ai

OnlyPhoto(p) == photo' \in [Photos -> Photo] /\ \A q \in Photos \ {p} : photo'[q] = photo[q]

LEMMA OnePhoto ==
  ASSUME photo \in [Photos -> Photo], NEW p \in Photos, NEW g \in Photo, photo' = [photo EXCEPT ![p] = g]
  PROVE  OnlyPhoto(p) /\ photo'[p] = g
BY DEF OnlyPhoto

LEMMA Claimed ==
  ASSUME NEW f \in Photo, NEW ai \in BOOLEAN, NEW g, g = [f EXCEPT !.pc = "claimed", !.row = "there", !.ai = ai]
  PROVE  g \in Photo /\ PhotoIs(g, "claimed", "there", f.path, f.blob, f.status, f.drop, f.early, f.lost, ai)
BY DEF Photo, PhotoIs

LEMMA PcAndRow ==
  ASSUME NEW f \in Photo, NEW pc \in PhotoPcs, NEW row \in Rows, NEW g, g = [f EXCEPT !.pc = pc, !.row = row]
  PROVE  g \in Photo /\ PhotoIs(g, pc, row, f.path, f.blob, f.status, f.drop, f.early, f.lost, f.ai)
BY DEF Photo, PhotoPcs, Rows, PhotoIs

LEMMA PcOnly ==
  ASSUME NEW f \in Photo, NEW pc \in PhotoPcs, NEW g, g = [f EXCEPT !.pc = pc]
  PROVE  g \in Photo /\ PhotoIs(g, pc, f.row, f.path, f.blob, f.status, f.drop, f.early, f.lost, f.ai)
BY DEF Photo, PhotoPcs, PhotoIs

LEMMA PcAndBlob ==
  ASSUME NEW f \in Photo, NEW pc \in PhotoPcs, NEW g, g = [f EXCEPT !.pc = pc, !.blob = TRUE]
  PROVE  g \in Photo /\ PhotoIs(g, pc, f.row, f.path, TRUE, f.status, f.drop, f.early, f.lost, f.ai)
BY DEF Photo, PhotoPcs, PhotoIs

LEMMA CutShort ==
  ASSUME NEW f \in Photo, NEW blob \in BOOLEAN, NEW g, g = [f EXCEPT !.pc = "failed", !.blob = blob, !.lost = TRUE]
  PROVE  g \in Photo /\ PhotoIs(g, "failed", f.row, f.path, blob, f.status, f.drop, f.early, TRUE, f.ai)
BY DEF Photo, PhotoIs

LEMMA DropAndLost ==
  ASSUME NEW f \in Photo, NEW early \in BOOLEAN, NEW g, g = [f EXCEPT !.drop = "row", !.early = early, !.lost = TRUE]
  PROVE  g \in Photo /\ PhotoIs(g, f.pc, f.row, f.path, f.blob, f.status, "row", early, TRUE, f.ai)
BY DEF Photo, PhotoIs

LEMMA LostOnly ==
  ASSUME NEW f \in Photo, NEW lost \in BOOLEAN, NEW g, g = [f EXCEPT !.lost = lost]
  PROVE  g \in Photo /\ PhotoIs(g, f.pc, f.row, f.path, f.blob, f.status, f.drop, f.early, lost, f.ai)
BY DEF Photo, PhotoIs

LEMMA PcAndPath ==
  ASSUME NEW f \in Photo, NEW pc \in PhotoPcs, NEW g, g = [f EXCEPT !.pc = pc, !.path = TRUE]
  PROVE  g \in Photo /\ PhotoIs(g, pc, f.row, TRUE, f.blob, f.status, f.drop, f.early, f.lost, f.ai)
BY DEF Photo, PhotoPcs, PhotoIs

LEMMA DropOnly ==
  ASSUME NEW f \in Photo, NEW drop \in {"no", "path", "nopath", "row"}, NEW g, g = [f EXCEPT !.drop = drop]
  PROVE  g \in Photo /\ PhotoIs(g, f.pc, f.row, f.path, f.blob, f.status, drop, f.early, f.lost, f.ai)
BY DEF Photo, PhotoIs

LEMMA DropAndBlob ==
  ASSUME NEW f \in Photo, NEW early \in BOOLEAN, NEW blob \in BOOLEAN,
         NEW g, g = [f EXCEPT !.drop = "row", !.early = early, !.blob = blob]
  PROVE  g \in Photo /\ PhotoIs(g, f.pc, f.row, f.path, blob, f.status, "row", early, f.lost, f.ai)
BY DEF Photo, PhotoIs

LEMMA RowOnly ==
  ASSUME NEW f \in Photo, NEW row \in Rows, NEW g, g = [f EXCEPT !.row = row]
  PROVE  g \in Photo /\ PhotoIs(g, f.pc, row, f.path, f.blob, f.status, f.drop, f.early, f.lost, f.ai)
BY DEF Photo, Rows, PhotoIs

LEMMA StatusOnly ==
  ASSUME NEW f \in Photo, NEW state \in {"pending", "processing", "complete", "failed"},
         NEW g, g = [f EXCEPT !.status = state]
  PROVE  g \in Photo /\ PhotoIs(g, f.pc, f.row, f.path, f.blob, state, f.drop, f.early, f.lost, f.ai)
BY DEF Photo, PhotoIs

-----------------------------------------------------------------------------
\* A step of an upload or a deletion: no job changes.
UploadStep(p) ==
  \/ PhotoClaim(p) \/ PhotoProcess(p) \/ PhotoUpload(p) \/ PhotoWrite(p)
  \/ PhotoStoreOnly(p) \/ PhotoFails(p)
  \/ DeleteRead(p) \/ DeleteBlob(p) \/ DeleteBlobFails(p) \/ DeleteRow(p) \/ DeleteRowFails(p)

LEMMA UploadKeeps ==
  ASSUME PhotosInv, NEW p \in Photos, UploadStep(p)
  PROVE  PhotosInv'
<1> DEFINE f == photo[p]
           g == photo'[p]
<1>0. /\ photo \in [Photos -> Photo] /\ f \in Photo /\ Owned(f)
      /\ UNCHANGED <<job, recheck>>
  BY DEF PhotosInv, PhotosShape, UploadStep, PhotoClaim, PhotoProcess, PhotoUpload, PhotoWrite, PhotoStoreOnly, PhotoFails,
         DeleteRead, DeleteBlob, DeleteBlobFails, DeleteRow, DeleteRowFails
<1> DEFINE Fits == /\ g \in Photo /\ Owned(g) /\ (Waiting(g, recheck[p]) => Waiting(f, recheck[p]))
                   /\ g.pc = "new" => f.pc = "new"
<1>1. photo' = [photo EXCEPT ![p] = g] /\ Fits
  <2>1. CASE PhotoClaim(p)
    <3>1. PICK ai \in BOOLEAN :
            photo' = [photo EXCEPT ![p] = g] /\ g = [f EXCEPT !.pc = "claimed", !.row = "there", !.ai = ai] /\ f.pc = "new"
      BY <1>0, <2>1 DEF PhotoClaim
    <3>2. g \in Photo /\ PhotoIs(g, "claimed", "there", f.path, f.blob, f.status, f.drop, f.early, f.lost, ai)
      BY <1>0, <3>1, Claimed
    <3>3. recheck[p] # "queued"
      BY <1>0, <3>1 DEF PhotosInv
    <3> QED
      BY <1>0, <3>1, <3>2, <3>3 DEF PhotoIs, Owned, Waiting
  <2>2. CASE PhotoProcess(p)
    <3> DEFINE pc == IF f.row = "there" THEN "processed" ELSE "failed"
    <3>0. pc \in PhotoPcs /\ "failed" \in PhotoPcs /\ "gone" \in Rows
      BY DEF PhotoPcs, Rows
    <3>1. /\ photo' = [photo EXCEPT ![p] = g] /\ f.pc = "claimed"
          /\ g = [f EXCEPT !.pc = pc] \/ g = [f EXCEPT !.pc = "failed", !.row = "gone"]
      BY <1>0, <2>2 DEF PhotoProcess, There
    <3>2. CASE g = [f EXCEPT !.pc = pc]
      <4>1. g \in Photo /\ PhotoIs(g, pc, f.row, f.path, f.blob, f.status, f.drop, f.early, f.lost, f.ai)
        BY <1>0, <3>0, <3>2, PcOnly
      <4> QED
        BY <1>0, <3>1, <4>1 DEF PhotoIs, Owned, Waiting
    <3>3. CASE g = [f EXCEPT !.pc = "failed", !.row = "gone"]
      <4>1. g \in Photo /\ PhotoIs(g, "failed", "gone", f.path, f.blob, f.status, f.drop, f.early, f.lost, f.ai)
        BY <1>0, <3>0, <3>3, PcAndRow
      <4> QED
        BY <1>0, <3>1, <4>1 DEF PhotoIs, Owned, Waiting
    <3> QED
      BY <3>1, <3>2, <3>3
  <2>3. CASE PhotoUpload(p)
    <3>1. photo' = [photo EXCEPT ![p] = g] /\ g = [f EXCEPT !.pc = "stored", !.blob = TRUE] /\ f.pc = "processed"
      BY <1>0, <2>3 DEF PhotoUpload
    <3>2. g \in Photo /\ PhotoIs(g, "stored", f.row, f.path, TRUE, f.status, f.drop, f.early, f.lost, f.ai)
      BY <1>0, <3>1, PcAndBlob DEF PhotoPcs
    <3> QED
      BY <1>0, <3>1, <3>2 DEF PhotoIs, Owned, Waiting
  <2>4. CASE PhotoFails(p)
    <3>1. PICK blob \in {f.blob, f.blob \/ f.pc = "processed"} :
            photo' = [photo EXCEPT ![p] = g] /\ g = [f EXCEPT !.pc = "failed", !.blob = blob, !.lost = TRUE]
      BY <1>0, <2>4 DEF PhotoFails
    <3>2. f.pc \in {"claimed", "processed", "stored", "queue"} /\ f.blob \in BOOLEAN
      BY <1>0, <2>4 DEF PhotoFails, Uploading, Photo
    <3>3. blob \in BOOLEAN
      BY <3>1, <3>2
    <3>4. g \in Photo /\ PhotoIs(g, "failed", f.row, f.path, blob, f.status, f.drop, f.early, TRUE, f.ai)
      BY <1>0, <3>1, <3>3, CutShort
    <3> QED
      BY <1>0, <3>1, <3>2, <3>4 DEF PhotoIs, Owned, Waiting
  <2>5. CASE PhotoWrite(p) /\ There(p)
    <3>1. photo' = [photo EXCEPT ![p] = g] /\ g = [f EXCEPT !.pc = "queue", !.path = TRUE] /\ f.pc = "stored"
      BY <1>0, <2>5 DEF PhotoWrite
    <3>2. g \in Photo /\ PhotoIs(g, "queue", f.row, TRUE, f.blob, f.status, f.drop, f.early, f.lost, f.ai)
      BY <1>0, <3>1, PcAndPath DEF PhotoPcs
    <3> QED
      BY <1>0, <2>5, <3>1, <3>2 DEF PhotoIs, Owned, Waiting, There
  <2>6. CASE PhotoWrite(p) /\ ~There(p)
    <3>1. photo' = [photo EXCEPT ![p] = g] /\ g = [f EXCEPT !.pc = "failed"] /\ f.pc = "stored"
      BY <1>0, <2>6 DEF PhotoWrite
    <3>2. g \in Photo /\ PhotoIs(g, "failed", f.row, f.path, f.blob, f.status, f.drop, f.early, f.lost, f.ai)
      BY <1>0, <3>1, PcOnly DEF PhotoPcs
    <3>3. f.row = "gone"
      BY <1>0, <2>6, <3>1 DEF Owned, There, Photo
    <3> QED
      BY <1>0, <3>1, <3>2, <3>3 DEF PhotoIs, Owned, Waiting
  <2>7. CASE DeleteRead(p)
    <3> DEFINE drop == IF f.path THEN "path" ELSE "nopath"
    <3>0. drop \in {"no", "path", "nopath", "row"}
      OBVIOUS
    <3>1. photo' = [photo EXCEPT ![p] = g] /\ g = [f EXCEPT !.drop = drop] /\ f.row = "there"
      BY <1>0, <2>7 DEF DeleteRead, There
    <3>2. g \in Photo /\ PhotoIs(g, f.pc, f.row, f.path, f.blob, f.status, drop, f.early, f.lost, f.ai)
      BY <1>0, <3>0, <3>1, DropOnly
    <3> QED
      BY <1>0, <3>1, <3>2 DEF PhotoIs, Owned, Waiting
  <2>8. CASE DeleteBlob(p)
    <3> DEFINE early == (f.drop = "nopath")
               blob == (f.blob /\ f.drop = "nopath")
    <3>0. early \in BOOLEAN /\ blob \in BOOLEAN
      BY Zenon
    <3>1. /\ photo' = [photo EXCEPT ![p] = g] /\ g = [f EXCEPT !.drop = "row", !.early = early, !.blob = blob]
          /\ f.drop \in {"path", "nopath"}
      BY <1>0, <2>8 DEF DeleteBlob
    <3>2. g \in Photo /\ PhotoIs(g, f.pc, f.row, f.path, blob, f.status, "row", early, f.lost, f.ai)
      BY <1>0, <3>0, <3>1, DropAndBlob
    <3> QED
      BY <1>0, <3>1, <3>2 DEF PhotoIs, Owned, Waiting
  <2>9. CASE DeleteRow(p)
    <3>1. photo' = [photo EXCEPT ![p] = g] /\ g = [f EXCEPT !.row = "gone"] /\ f.drop = "row" /\ f.row = "there"
      BY <1>0, <2>9 DEF DeleteRow, There
    <3>2. g \in Photo /\ PhotoIs(g, f.pc, "gone", f.path, f.blob, f.status, f.drop, f.early, f.lost, f.ai)
      BY <1>0, <3>1, RowOnly DEF Rows
    <3> QED
      BY <1>0, <3>1, <3>2 DEF PhotoIs, Owned, Waiting
  <2>10. CASE PhotoStoreOnly(p)
    <3>1. photo' = [photo EXCEPT ![p] = g] /\ g = [f EXCEPT !.pc = "done"] /\ f.pc = "queue" /\ ~f.ai
      BY <1>0, <2>10 DEF PhotoStoreOnly
    <3>2. g \in Photo /\ PhotoIs(g, "done", f.row, f.path, f.blob, f.status, f.drop, f.early, f.lost, f.ai)
      BY <1>0, <3>1, PcOnly DEF PhotoPcs
    <3> QED
      BY <1>0, <3>1, <3>2 DEF PhotoIs, Owned, Waiting
  <2>11. CASE DeleteBlobFails(p)
    <3> DEFINE early == (f.drop = "nopath")
    <3>0. early \in BOOLEAN
      BY Zenon
    <3>1. /\ photo' = [photo EXCEPT ![p] = g] /\ g = [f EXCEPT !.drop = "row", !.early = early, !.lost = TRUE]
          /\ f.drop \in {"path", "nopath"}
      BY <1>0, <2>11 DEF DeleteBlobFails
    <3>2. g \in Photo /\ PhotoIs(g, f.pc, f.row, f.path, f.blob, f.status, "row", early, TRUE, f.ai)
      BY <1>0, <3>0, <3>1, DropAndLost
    <3> QED
      BY <1>0, <3>1, <3>2 DEF PhotoIs, Owned, Waiting
  <2>12. CASE DeleteRowFails(p)
    <3>1. photo' = [photo EXCEPT ![p] = g] /\ g = [f EXCEPT !.drop = "no"] /\ f.row = "there"
      BY <1>0, <2>12 DEF DeleteRowFails, There
    <3>2. g \in Photo /\ PhotoIs(g, f.pc, f.row, f.path, f.blob, f.status, "no", f.early, f.lost, f.ai)
      BY <1>0, <3>1, DropOnly
    <3> QED
      BY <1>0, <3>1, <3>2 DEF PhotoIs, Owned, Waiting
  <2> QED
    BY <2>1, <2>2, <2>3, <2>4, <2>5, <2>6, <2>7, <2>8, <2>9, <2>10, <2>11, <2>12 DEF UploadStep
<1>2. OnlyPhoto(p)
  BY <1>0, <1>1, OnePhoto
<1> HIDE DEF f, g
<1>3. LiveJobs' = LiveJobs /\ Expecting' = Expecting
  BY <1>0 DEF LiveJobs, Expecting
<1>4. PhotosShape'
  BY <1>0, <1>2 DEF PhotosInv, PhotosShape, OnlyPhoto
<1>5. ASSUME NEW q \in Photos
      PROVE  /\ Owned(photo'[q]) /\ (Waiting(photo'[q], recheck'[q]) => Waiting(photo[q], recheck[q]))
             /\ photo'[q].pc = "new" => photo[q].pc = "new"
  BY <1>0, <1>1, <1>2 DEF PhotosInv, OnlyPhoto, f, g
<1> QED
  BY <1>0, <1>3, <1>4, <1>5 DEF PhotosInv

-----------------------------------------------------------------------------
(* The queue and its jobs.                                                 *)

JobPcs == {"new", "queued", "started", "read", "answered", "merge", "create", "done"}

OnlyJob(j) == job' \in [Jobs -> Job] /\ \A i \in Jobs \ {j} : job'[i] = job[i]

LEMMA OneJob ==
  ASSUME job \in [Jobs -> Job], NEW j \in Jobs, NEW x \in Job, job' = [job EXCEPT ![j] = x]
  PROVE  OnlyJob(j) /\ job'[j] = x
BY DEF OnlyJob

LEMMA JobQueued ==
  ASSUME job \in [Jobs -> Job], NEW j \in Jobs, NEW p \in Photos, Queue(j, p)
  PROVE  OnlyJob(j) /\ job'[j].pc = "queued" /\ job'[j].photo = p
<1> DEFINE x == [NewJob EXCEPT !.pc = "queued", !.photo = p]
<1>1. ASSUME NEW y, y = x PROVE y \in Job /\ y.pc = "queued" /\ y.photo = p
  <2>1. y = [pc |-> "queued", photo |-> p, sees |-> {}, again |-> FALSE]
    BY <1>1 DEF NewJob
  <2>2. p \in Photos \cup {NoPhoto}
    BY DEF Job
  <2> QED
    BY <2>1, <2>2 DEF Job
<1>2. job' = [job EXCEPT ![j] = x]
  BY DEF Queue
<1>3. x \in Job /\ x.pc = "queued" /\ x.photo = p
  BY <1>1
<1> HIDE DEF x
<1> QED
  BY <1>2, <1>3, OneJob

LEMMA JobEnded ==
  ASSUME job \in [Jobs -> Job], NEW j \in Jobs, JobEnds(j)
  PROVE  OnlyJob(j) /\ job'[j].pc = "done" /\ job'[j].photo = job[j].photo
<1> DEFINE x == [NewJob EXCEPT !.pc = "done", !.photo = job[j].photo]
<1>1. ASSUME NEW y, y = x PROVE y \in Job /\ y.pc = "done" /\ y.photo = job[j].photo
  <2>1. y = [pc |-> "done", photo |-> job[j].photo, sees |-> {}, again |-> FALSE]
    BY <1>1 DEF NewJob
  <2>2. job[j].photo \in Photos \cup {NoPhoto}
    BY DEF Job
  <2> QED
    BY <2>1, <2>2 DEF Job
<1>2. job' = [job EXCEPT ![j] = x]
  BY DEF JobEnds
<1>3. x \in Job /\ x.pc = "done" /\ x.photo = job[j].photo
  BY <1>1
<1> HIDE DEF x
<1> QED
  BY <1>2, <1>3, OneJob

LEMMA JobWent ==
  ASSUME job \in [Jobs -> Job], NEW j \in Jobs, NEW pc \in JobPcs, JobGoes(j, pc)
  PROVE  OnlyJob(j) /\ job'[j].pc = pc /\ job'[j].photo = job[j].photo
<1> DEFINE x == [job[j] EXCEPT !.pc = pc]
<1>1. job' = [job EXCEPT ![j] = x]
  BY DEF JobGoes
<1>2. job[j] \in Job
  OBVIOUS
<1>3. ASSUME NEW y, y = x PROVE y \in Job /\ y.pc = pc /\ y.photo = job[j].photo
  BY <1>2, <1>3 DEF Job, JobPcs
<1>4. x \in Job /\ x.pc = pc /\ x.photo = job[j].photo
  BY <1>3
<1> HIDE DEF x
<1> QED
  BY <1>1, <1>4, OneJob

LEMMA JobSees ==
  ASSUME job \in [Jobs -> Job], NEW j \in Jobs, NEW pc \in JobPcs, NEW sees \in SUBSET Labels,
         job' = [job EXCEPT ![j].pc = pc, ![j].sees = sees]
  PROVE  OnlyJob(j) /\ job'[j].pc = pc /\ job'[j].photo = job[j].photo
<1> DEFINE x == [job[j] EXCEPT !.pc = pc, !.sees = sees]
<1>1. job' = [job EXCEPT ![j] = x]
  OBVIOUS
<1>2. job[j] \in Job
  OBVIOUS
<1>3. ASSUME NEW y, y = x PROVE y \in Job /\ y.pc = pc /\ y.photo = job[j].photo
  BY <1>2, <1>3 DEF Job, JobPcs
<1>4. x \in Job /\ x.pc = pc /\ x.photo = job[j].photo
  BY <1>3
<1> HIDE DEF x
<1> QED
  BY <1>1, <1>4, OneJob

\* Only the status of a photo changes, it is lost, or its upload goes from the
\* queue to its end.
OwnedStays(f, g) ==
  /\ g.row = f.row /\ g.path = f.path /\ g.blob = f.blob /\ g.drop = f.drop /\ g.early = f.early /\ g.ai = f.ai
  /\ f.lost => g.lost
  /\ g.pc # f.pc => f.pc = "queue" /\ g.pc = "done"

\* A row of the photo of job j is marked, and the job goes on or ends.
LEMMA MarkedByJob ==
  ASSUME PhotosInv, NEW j \in Jobs, NEW state \in {"pending", "processing", "complete", "failed"},
         photo' = [photo EXCEPT ![job[j].photo].status = state]
  PROVE  /\ photo' \in [Photos -> Photo] /\ \A p \in Photos : OwnedStays(photo[p], photo'[p])
         /\ \A p \in Photos : p # job[j].photo => photo'[p] = photo[p]
         /\ \A p \in Photos : p = job[j].photo => photo'[p].status = state
<1>0. photo \in [Photos -> Photo]
  BY DEF PhotosInv, PhotosShape
<1>1. CASE job[j].photo \in Photos
  <2> DEFINE p == job[j].photo
             g == [photo[p] EXCEPT !.status = state]
  <2>1. g \in Photo /\ PhotoIs(g, photo[p].pc, photo[p].row, photo[p].path, photo[p].blob, state, photo[p].drop,
                               photo[p].early, photo[p].lost, photo[p].ai)
    BY <1>0, <1>1, StatusOnly
  <2>2. photo' = [photo EXCEPT ![p] = g]
    OBVIOUS
  <2> HIDE DEF g
  <2>3. OnlyPhoto(p) /\ photo'[p] = g
    BY <1>0, <1>1, <2>1, <2>2, OnePhoto
  <2> QED
    BY <1>1, <2>1, <2>3 DEF OnlyPhoto, PhotoIs, OwnedStays
<1>2. CASE job[j].photo \notin Photos
  <2>1. photo' = photo
    BY <1>0, <1>2
  <2> QED
    BY <1>0, <1>2, <2>1 DEF OwnedStays
<1> QED
  BY <1>1, <1>2

JobStep(j) ==
  \/ JobStart(j) \/ JobRead(j) \/ JobAnswer(j) \/ JobStore(j)
  \/ JobLook(j) \/ (\E t \in Labels : JobMerge(j, t)) \/ JobDone(j) \/ JobCatch(j)

\* A live job that ends has marked its photo, or the row has gone.
JobMoves(j) ==
  /\ OnlyJob(j) /\ job'[j].photo = job[j].photo /\ job[j].pc # "new"
  /\ \/ photo' = photo
     \/ \E state \in {"processing", "complete", "failed"} :
          /\ photo' = [photo EXCEPT ![job[j].photo].status = state]
          /\ state = "processing" => j \in LiveJobs'
  /\ \/ j \in LiveJobs' \/ j \notin LiveJobs
     \/ job[j].photo \in Photos /\ ~There(job[j].photo)
     \/ \E state \in {"complete", "failed"} : photo' = [photo EXCEPT ![job[j].photo].status = state]

LEMMA JobStepMoves ==
  ASSUME PhotosInv, NEW j \in Jobs, JobStep(j)
  PROVE  JobMoves(j) /\ UNCHANGED recheck
<1> DEFINE p == job[j].photo
<1>0. job \in [Jobs -> Job] /\ (job[j].pc # "new" => p \in Photos)
  BY DEF PhotosInv, PhotosShape
<1>00. {"started", "read", "answered", "merge", "create", "done"} \subseteq JobPcs
  BY DEF JobPcs
<1>1. \A i \in Jobs : i \in LiveJobs' <=> job'[i].pc \in {"queued", "started", "read", "answered"}
  BY DEF LiveJobs
<1>2. j \in LiveJobs <=> job[j].pc \in {"queued", "started", "read", "answered"}
  BY DEF LiveJobs
<1> HIDE DEF p
<1>3. ASSUME job[j].pc # "new", JobEnds(j), photo' = photo, ~There(p) PROVE JobMoves(j)
  <2>1. OnlyJob(j) /\ job'[j].pc = "done" /\ job'[j].photo = p
    BY <1>0, <1>3, JobEnded DEF p
  <2> QED
    BY <1>0, <1>3, <2>1 DEF JobMoves, p
<1>4. ASSUME job[j].pc # "new", JobEnds(j), photo' = [photo EXCEPT ![p].status = "failed"] PROVE JobMoves(j)
  <2>1. OnlyJob(j) /\ job'[j].pc = "done" /\ job'[j].photo = p
    BY <1>0, <1>4, JobEnded DEF p
  <2> QED
    BY <1>4, <2>1 DEF JobMoves, p
<1>5. CASE JobStart(j)
  <2>1. CASE There(p)
    <3>1. JobGoes(j, "started") /\ photo' = [photo EXCEPT ![p].status = "processing"] /\ job[j].pc = "queued"
      BY <1>5, <2>1 DEF JobStart, Mark, p
    <3>2. OnlyJob(j) /\ job'[j].pc = "started" /\ job'[j].photo = p
      BY <1>0, <1>00, <3>1, JobWent DEF p
    <3> QED
      BY <1>1, <1>5, <3>1, <3>2 DEF JobMoves, JobStart, p
  <2>2. CASE ~There(p)
    <3>1. JobEnds(j) /\ photo' = photo /\ job[j].pc = "queued"
      BY <1>5, <2>2 DEF JobStart, Mark, p
    <3> QED
      BY <1>3, <1>5, <2>2, <3>1 DEF JobStart
  <2> QED
    BY <2>1, <2>2
<1>6. CASE JobRead(j)
  <2>1. job[j].pc = "started" /\ UNCHANGED recheck
    BY <1>6 DEF JobRead
  <2>2. \/ JobEnds(j) /\ photo' = photo /\ ~There(p)
        \/ JobGoes(j, "read") /\ photo' = photo
        \/ JobEnds(j) /\ photo' = [photo EXCEPT ![p].status = "failed"]
    BY <1>6 DEF JobRead, p
  <2>3. ASSUME JobGoes(j, "read"), photo' = photo PROVE JobMoves(j)
    <3>1. OnlyJob(j) /\ job'[j].pc = "read" /\ job'[j].photo = p
      BY <1>0, <1>00, <2>3, JobWent DEF p
    <3> QED
      BY <1>1, <2>1, <2>3, <3>1 DEF JobMoves, p
  <2> QED
    BY <1>3, <1>4, <2>1, <2>2, <2>3
<1>7. CASE JobAnswer(j)
  <2>1. job[j].pc = "read" /\ UNCHANGED recheck
    BY <1>7 DEF JobAnswer
  <2>2. PICK labels \in SUBSET Labels : job' = [job EXCEPT ![j].pc = "answered", ![j].sees = labels] /\ photo' = photo
    BY <1>7 DEF JobAnswer
  <2>3. OnlyJob(j) /\ job'[j].pc = "answered" /\ job'[j].photo = p
    BY <1>0, <1>00, <2>2, JobSees DEF p
  <2> QED
    BY <1>1, <2>1, <2>2, <2>3 DEF JobMoves, p
<1>8. CASE JobStore(j)
  <2>1. CASE There(p)
    <3>1. JobGoes(j, "merge") /\ photo' = [photo EXCEPT ![p].status = "complete"] /\ job[j].pc = "answered"
      BY <1>8, <2>1 DEF JobStore, Mark, p
    <3>2. OnlyJob(j) /\ job'[j].pc = "merge" /\ job'[j].photo = p
      BY <1>0, <1>00, <3>1, JobWent DEF p
    <3> QED
      BY <1>8, <3>1, <3>2 DEF JobMoves, JobStore, p
  <2>2. CASE ~There(p)
    <3>1. JobEnds(j) /\ photo' = photo /\ job[j].pc = "answered"
      BY <1>8, <2>2 DEF JobStore, Mark, p
    <3> QED
      BY <1>3, <1>8, <2>2, <3>1 DEF JobStore
  <2> QED
    BY <2>1, <2>2
<1>9. CASE JobLook(j)
  <2> DEFINE sees == {t \in job[j].sees : ~Has(t)}
  <2>1. job[j].pc = "merge" /\ UNCHANGED <<photo, recheck>> /\ job' = [job EXCEPT ![j].pc = "create", ![j].sees = sees]
    BY <1>0, <1>9 DEF JobLook
  <2>2. sees \in SUBSET Labels
    BY <1>0 DEF Job
  <2> HIDE DEF sees
  <2>3. OnlyJob(j) /\ job'[j].pc = "create" /\ job'[j].photo = p
    BY <1>0, <1>00, <2>1, <2>2, JobSees DEF p
  <2> QED
    BY <1>2, <2>1, <2>3 DEF JobMoves, p
<1>10. CASE \E t \in Labels : JobMerge(j, t)
  <2>1. PICK t \in Labels : JobMerge(j, t)
    BY <1>10
  <2> DEFINE x == [job[j] EXCEPT !.sees = job[j].sees \ {t}]
  <2>2. job[j].pc = "create" /\ UNCHANGED <<photo, recheck>> /\ job' = [job EXCEPT ![j] = x]
    BY <1>0, <2>1 DEF JobMerge
  <2>3. x \in Job /\ x.photo = p /\ x.pc = "create"
    BY <1>0, <2>2 DEF Job, p
  <2> HIDE DEF x
  <2>4. OnlyJob(j) /\ job'[j] = x
    BY <1>0, <2>2, <2>3, OneJob
  <2> QED
    BY <1>2, <2>2, <2>3, <2>4 DEF JobMoves, p
<1>11. CASE JobDone(j)
  <2>1. JobEnds(j) /\ job[j].pc = "create" /\ UNCHANGED <<photo, recheck>>
    BY <1>11 DEF JobDone
  <2>2. OnlyJob(j) /\ job'[j].pc = "done" /\ job'[j].photo = p
    BY <1>0, <2>1, JobEnded DEF p
  <2> QED
    BY <1>2, <2>1, <2>2 DEF JobMoves, p
<1>12. CASE JobCatch(j)
  <2>1. job[j].pc # "new" /\ JobEnds(j) /\ UNCHANGED recheck
    BY <1>12 DEF JobCatch
  <2>2. (photo' = photo /\ ~There(p)) \/ photo' = [photo EXCEPT ![p].status = "failed"]
    BY <1>12 DEF JobCatch, p
  <2> QED
    BY <1>3, <1>4, <2>1, <2>2
<1> QED
  BY <1>5, <1>6, <1>7, <1>8, <1>9, <1>10, <1>11, <1>12 DEF JobStep

LEMMA OwnedKeeps ==
  ASSUME NEW f, NEW g, Owned(f), OwnedStays(f, g)
  PROVE  Owned(g)
BY DEF Owned, OwnedStays

LEMMA JobKeeps ==
  ASSUME PhotosInv, NEW j \in Jobs, JobStep(j)
  PROVE  PhotosInv'
<1>1. JobMoves(j) /\ recheck' = recheck
  BY JobStepMoves
<1>2. PhotosShape /\ photo \in [Photos -> Photo]
  BY DEF PhotosInv, PhotosShape
<1>3. /\ photo' \in [Photos -> Photo] /\ \A p \in Photos : OwnedStays(photo[p], photo'[p])
      /\ \A p \in Photos : p # job[j].photo => photo'[p] = photo[p]
  <2>1. CASE photo' = photo
    BY <1>2, <2>1 DEF OwnedStays
  <2>2. CASE \E state \in {"processing", "complete", "failed"} : photo' = [photo EXCEPT ![job[j].photo].status = state]
    BY <2>2, MarkedByJob
  <2> QED
    BY <1>1, <2>1, <2>2 DEF JobMoves
<1>4. PhotosShape'
  BY <1>1, <1>2, <1>3 DEF PhotosShape, JobMoves, OnlyJob
<1>5. \A p \in Photos : Owned(photo'[p])
  BY <1>3, OwnedKeeps DEF PhotosInv
<1>6. ASSUME NEW p \in Photos, Waiting(photo'[p], recheck'[p]) PROVE p \in Expecting'
  <2>0. \A i \in Jobs : i # j => (i \in LiveJobs' <=> i \in LiveJobs) /\ job'[i].photo = job[i].photo
    BY <1>1 DEF JobMoves, OnlyJob, LiveJobs
  <2>1. CASE p # job[j].photo
    <3>1. photo'[p] = photo[p] /\ p \in Expecting
      BY <1>1, <1>3, <1>6, <2>1 DEF PhotosInv
    <3> QED
      BY <1>1, <2>0, <2>1, <3>1 DEF Expecting, LiveJobs
  <2>2. CASE p = job[j].photo /\ j \in LiveJobs'
    BY <1>1, <2>2 DEF Expecting, JobMoves
  <2>3. CASE p = job[j].photo /\ j \notin LiveJobs'
    <3>1. ASSUME NEW state \in {"complete", "failed"}, photo' = [photo EXCEPT ![job[j].photo].status = state] PROVE FALSE
      <4>1. photo'[p].status = state
        BY <2>3, <3>1, MarkedByJob
      <4> QED
        BY <1>6, <4>1 DEF Waiting
    <3>2. photo' = photo
      BY <1>1, <2>3, <3>1 DEF JobMoves
    <3>3. Waiting(photo[p], recheck[p]) /\ p \in Expecting
      BY <1>1, <1>6, <3>2 DEF PhotosInv
    <3>4. There(p)
      BY <3>3 DEF Waiting, There
    <3>5. j \notin LiveJobs
      BY <1>1, <2>3, <3>1, <3>4 DEF JobMoves
    <3> QED
      BY <1>1, <2>0, <2>3, <3>3, <3>5 DEF Expecting, LiveJobs
  <2> QED
    BY <2>1, <2>2, <2>3
<1>7. ASSUME NEW p \in Photos, photo'[p].pc = "new" PROVE recheck'[p] = "no"
  BY <1>1, <1>3, <1>7 DEF OwnedStays, PhotosInv
<1> QED
  BY <1>4, <1>5, <1>6, <1>7 DEF PhotosInv

\* A photo whose analysis breaks is marked as lost.
LEMMA BreakKeeps ==
  ASSUME PhotosInv, NEW j \in Jobs, JobBreaks(j)
  PROVE  PhotosInv'
<1> DEFINE p == job[j].photo
           g == [photo[p] EXCEPT !.lost = TRUE]
<1>0. /\ PhotosShape /\ photo \in [Photos -> Photo] /\ job \in [Jobs -> Job] /\ p \in Photos
      /\ JobEnds(j) /\ photo' = [photo EXCEPT ![p] = g] /\ recheck' = recheck
  BY DEF PhotosInv, PhotosShape, JobBreaks
<1>1. OnlyJob(j) /\ job'[j].photo = p /\ job'[j].pc = "done"
  BY <1>0, JobEnded
<1>2. g \in Photo /\ PhotoIs(g, photo[p].pc, photo[p].row, photo[p].path, photo[p].blob, photo[p].status, photo[p].drop,
                             photo[p].early, TRUE, photo[p].ai)
  BY <1>0, LostOnly
<1> HIDE DEF g
<1>3. OnlyPhoto(p) /\ photo'[p] = g
  BY <1>0, <1>2, OnePhoto
<1>4. \A q \in Photos : OwnedStays(photo[q], photo'[q])
  BY <1>2, <1>3 DEF OnlyPhoto, PhotoIs, OwnedStays
<1>5. PhotosShape'
  BY <1>0, <1>1, <1>3 DEF PhotosShape, OnlyPhoto, OnlyJob
<1>6. \A q \in Photos : Owned(photo'[q])
  BY <1>4, OwnedKeeps DEF PhotosInv
<1>7. ASSUME NEW q \in Photos, Waiting(photo'[q], recheck'[q]) PROVE q \in Expecting'
  <2>1. q # p
    BY <1>2, <1>3, <1>7 DEF PhotoIs, Waiting
  <2>2. q \in Expecting
    BY <1>0, <1>3, <1>7, <2>1 DEF PhotosInv, OnlyPhoto
  <2> QED
    BY <1>0, <1>1, <2>1, <2>2 DEF Expecting, LiveJobs, OnlyJob
<1>8. \A q \in Photos : photo'[q].pc = photo[q].pc
  BY <1>2, <1>3 DEF OnlyPhoto, PhotoIs
<1> QED
  BY <1>0, <1>5, <1>6, <1>7, <1>8 DEF PhotosInv

\* A photo is queued, by its upload or by a re-analysis.
LEMMA QueueKeeps ==
  ASSUME PhotosInv, NEW p \in Photos, NEW j \in Jobs, PhotoQueue(p, j) \/ ReanalyzeQueue(p, j)
  PROVE  PhotosInv'
<1>0. /\ PhotosShape /\ photo \in [Photos -> Photo] /\ job \in [Jobs -> Job] /\ photo[p] \in Photo
      /\ Queue(j, p) /\ job[j].pc = "new" /\ recheck' \in [Photos -> {"no", "checked", "queue", "queued", "ended"}]
      /\ \A q \in Photos : q # p => recheck'[q] = recheck[q]
  BY DEF PhotosInv, PhotosShape, PhotoQueue, ReanalyzeQueue, Queue
<1>1. OnlyJob(j) /\ job'[j].pc = "queued" /\ job'[j].photo = p
  BY <1>0, JobQueued
<1>2. photo' \in [Photos -> Photo] /\ \A q \in Photos : OwnedStays(photo[q], photo'[q]) /\ (q # p => photo'[q] = photo[q])
  <2>1. CASE PhotoQueue(p, j)
    <3> DEFINE g == [photo[p] EXCEPT !.pc = "done"]
    <3>1. photo' = [photo EXCEPT ![p] = g] /\ photo[p].pc = "queue"
      BY <2>1 DEF PhotoQueue
    <3>2. g \in Photo /\ PhotoIs(g, "done", photo[p].row, photo[p].path, photo[p].blob, photo[p].status, photo[p].drop,
                                 photo[p].early, photo[p].lost, photo[p].ai)
      BY <1>0, PcOnly DEF PhotoPcs
    <3> HIDE DEF g
    <3>3. OnlyPhoto(p) /\ photo'[p] = g
      BY <1>0, <3>1, <3>2, OnePhoto
    <3>4. OwnedStays(photo[p], photo'[p])
      BY <3>1, <3>2, <3>3 DEF PhotoIs, OwnedStays
    <3> QED
      BY <3>3, <3>4 DEF OnlyPhoto, OwnedStays
  <2>2. CASE ReanalyzeQueue(p, j)
    BY <1>0, <2>2 DEF ReanalyzeQueue, OwnedStays
  <2> QED
    BY <2>1, <2>2
<1>3. PhotosShape'
  BY <1>0, <1>1, <1>2 DEF PhotosShape, OnlyJob
<1>4. \A q \in Photos : Owned(photo'[q])
  BY <1>2, OwnedKeeps DEF PhotosInv
<1>5. p \in Expecting'
  BY <1>1 DEF Expecting, LiveJobs
<1>6. ASSUME NEW q \in Photos, q # p, q \in Expecting PROVE q \in Expecting'
  BY <1>0, <1>1, <1>6 DEF Expecting, LiveJobs, OnlyJob
<1>7. ASSUME NEW q \in Photos, photo'[q].pc = "new" PROVE recheck'[q] = "no"
  <2>1. photo[q].pc = "new" /\ recheck[q] = "no"
    BY <1>2, <1>7 DEF OwnedStays, PhotosInv
  <2>2. q # p
    BY <2>1 DEF PhotoQueue, ReanalyzeQueue
  <2> QED
    BY <1>0, <2>1, <2>2
<1>8. ASSUME NEW q \in Photos, Waiting(photo'[q], recheck'[q]) PROVE q \in Expecting'
  BY <1>0, <1>2, <1>5, <1>6, <1>8 DEF PhotosInv
<1> QED
  BY <1>3, <1>4, <1>7, <1>8 DEF PhotosInv

LEMMA ReanalysisFails ==
  ASSUME PhotosInv, NEW p \in Photos, ReanalyzeFails(p)
  PROVE  PhotosInv'
<1> DEFINE lost == (photo[p].lost \/ recheck[p] = "queue")
           g == [photo[p] EXCEPT !.lost = lost]
<1>0. /\ PhotosShape /\ photo \in [Photos -> Photo] /\ recheck[p] \in {"checked", "queue"}
      /\ photo' = [photo EXCEPT ![p] = g] /\ UNCHANGED job /\ LiveJobs' = LiveJobs
      /\ recheck' = [recheck EXCEPT ![p] = "ended"] /\ recheck \in [Photos -> {"no", "checked", "queue", "queued", "ended"}]
  BY DEF PhotosInv, PhotosShape, ReanalyzeFails, LiveJobs
<1>1. lost \in BOOLEAN /\ (recheck[p] = "queue" => lost) /\ (photo[p].lost => lost)
  BY Zenon
<1> HIDE DEF lost
<1>2. g \in Photo /\ PhotoIs(g, photo[p].pc, photo[p].row, photo[p].path, photo[p].blob, photo[p].status, photo[p].drop,
                             photo[p].early, lost, photo[p].ai)
  BY <1>0, <1>1, LostOnly
<1> HIDE DEF g
<1>3. OnlyPhoto(p) /\ photo'[p] = g
  BY <1>0, <1>2, OnePhoto
<1>4. \A q \in Photos : OwnedStays(photo[q], photo'[q])
  BY <1>1, <1>2, <1>3 DEF OnlyPhoto, PhotoIs, OwnedStays
<1>5. recheck'[p] = "ended" /\ \A q \in Photos \ {p} : recheck'[q] = recheck[q]
  BY <1>0
<1>6. PhotosShape'
  BY <1>0, <1>3 DEF PhotosShape, OnlyPhoto
<1>7. \A q \in Photos : Owned(photo'[q])
  BY <1>4, OwnedKeeps DEF PhotosInv
<1>8. ASSUME NEW q \in Photos, Waiting(photo'[q], recheck'[q]) PROVE q \in Expecting'
  <2>1. CASE q # p
    <3>1. q \in Expecting
      BY <1>3, <1>5, <1>8, <2>1 DEF PhotosInv, OnlyPhoto
    <3> QED
      BY <1>0, <1>5, <2>1, <3>1 DEF Expecting
  <2>2. CASE q = p
    <3>1. Waiting(photo[p], recheck[p]) /\ recheck[p] # "queue"
      BY <1>0, <1>1, <1>2, <1>3, <1>5, <1>8, <2>2 DEF PhotoIs, Waiting
    <3> QED
      BY <1>0, <2>2, <3>1 DEF PhotosInv, Expecting
  <2> QED
    BY <2>1, <2>2
<1>9. \A q \in Photos : photo'[q].pc = "new" => recheck'[q] = "no"
  <2>1. photo[p].pc # "new"
    BY <1>0 DEF PhotosInv
  <2> QED
    BY <1>2, <1>3, <1>5, <2>1 DEF PhotosInv, OnlyPhoto, PhotoIs
<1> QED
  BY <1>6, <1>7, <1>8, <1>9 DEF PhotosInv

LEMMA ResetKeeps ==
  ASSUME PhotosInv, NEW p \in Photos, Reanalyze(p) \/ ReanalyzeReset(p)
  PROVE  PhotosInv'
<1>0. /\ PhotosShape /\ photo \in [Photos -> Photo] /\ photo[p] \in Photo
      /\ UNCHANGED job /\ recheck[p] # "queue" /\ LiveJobs' = LiveJobs
      /\ recheck' \in [Photos -> {"no", "checked", "queue", "queued", "ended"}]
      /\ \A q \in Photos : q # p => recheck'[q] = recheck[q]
  BY DEF PhotosInv, PhotosShape, Reanalyze, ReanalyzeReset, LiveJobs
<1>1. /\ photo' \in [Photos -> Photo]
      /\ \A q \in Photos : OwnedStays(photo[q], photo'[q]) /\ (q # p => photo'[q] = photo[q])
      /\ photo'[p] = photo[p] \/ recheck'[p] = "queue"
  <2>1. CASE photo' = photo
    BY <1>0, <2>1 DEF OwnedStays
  <2>2. CASE photo' # photo
    <3> DEFINE g == [photo[p] EXCEPT !.status = "pending"]
    <3>1. photo' = [photo EXCEPT ![p] = g] /\ recheck' = [recheck EXCEPT ![p] = "queue"]
      BY <2>2 DEF Reanalyze, ReanalyzeReset
    <3>2. g \in Photo /\ PhotoIs(g, photo[p].pc, photo[p].row, photo[p].path, photo[p].blob, "pending", photo[p].drop,
                                 photo[p].early, photo[p].lost, photo[p].ai)
      BY <1>0, StatusOnly
    <3> HIDE DEF g
    <3>3. OnlyPhoto(p) /\ photo'[p] = g
      BY <1>0, <3>1, <3>2, OnePhoto
    <3>4. OwnedStays(photo[p], photo'[p])
      BY <3>2, <3>3 DEF PhotoIs, OwnedStays
    <3>5. recheck'[p] = "queue"
      BY <1>0, <3>1 DEF PhotosShape
    <3> QED
      BY <3>3, <3>4, <3>5 DEF OnlyPhoto, OwnedStays
  <2> QED
    BY <2>1, <2>2
<1>2. PhotosShape'
  BY <1>0, <1>1 DEF PhotosShape
<1>3. \A q \in Photos : Owned(photo'[q])
  BY <1>1, OwnedKeeps DEF PhotosInv
<1>4. recheck'[p] = "queue" => p \in Expecting'
  BY DEF Expecting
<1>5. \A q \in Photos : q \in Expecting => q \in Expecting'
  BY <1>0 DEF Expecting
<1>6. recheck'[p] \in {"checked", "queue", "ended"} /\ photo[p].pc # "new"
  <2>1. CASE Reanalyze(p)
    BY <2>1 DEF Reanalyze, PhotosInv, PhotosShape, Owned, There
  <2>2. CASE ReanalyzeReset(p)
    BY <2>2 DEF ReanalyzeReset, PhotosInv, PhotosShape
  <2> QED
    BY <2>1, <2>2
<1>7. ASSUME NEW q \in Photos, Waiting(photo'[q], recheck'[q]) PROVE q \in Expecting'
  <2>1. CASE q # p
    BY <1>0, <1>1, <1>5, <1>7, <2>1 DEF PhotosInv
  <2>2. CASE q = p /\ recheck'[p] # "queue"
    <3>1. Waiting(photo[p], recheck[p])
      BY <1>1, <1>6, <1>7, <2>2 DEF Waiting
    <3> QED
      BY <1>5, <2>2, <3>1 DEF PhotosInv
  <2> QED
    BY <1>4, <2>1, <2>2
<1>8. ASSUME NEW q \in Photos, photo'[q].pc = "new" PROVE recheck'[q] = "no"
  <2>1. photo[q].pc = "new" /\ recheck[q] = "no"
    BY <1>1, <1>8 DEF OwnedStays, PhotosInv
  <2> QED
    BY <1>0, <1>6, <2>1
<1> QED
  BY <1>2, <1>3, <1>7, <1>8 DEF PhotosInv

\* What a restart ends is marked as lost, and what it does not end goes on.
LEMMA PhotosRestartKeeps == ASSUME PhotosInv, PhotosRestart PROVE PhotosInv'
<1>0. /\ photo \in [Photos -> Photo] /\ job \in [Jobs -> Job]
      /\ \A j \in Jobs : job[j].pc # "new" => job[j].photo \in Photos
      /\ recheck' \in [Photos -> {"no", "checked", "queue", "queued", "ended"}]
      /\ \A p \in Photos : /\ recheck'[p] = "queued" => recheck[p] = "queued"
                           /\ recheck[p] = "no" => recheck'[p] = "no"
  BY DEF PhotosInv, PhotosShape, PhotosRestart
<1> DEFINE Lost(p) == \/ photo[p].lost \/ Uploading(p) \/ recheck[p] = "queue"
                      \/ \E j \in Jobs : job[j].photo = p /\ job[j].again
           Pc(p) == IF Uploading(p) THEN "failed" ELSE photo[p].pc
           Drop(p) == IF There(p) THEN "no" ELSE photo[p].drop
<1>1. \A j \in Jobs :
        /\ job'[j] \in Job /\ job'[j].photo = job[j].photo
        /\ (job'[j].pc = "new") = (job[j].pc = "new")
        /\ j \in LiveJobs => job'[j].pc = "queued" \/ job[j].again
  <2> SUFFICES ASSUME NEW j \in Jobs
               PROVE  /\ job'[j] \in Job /\ job'[j].photo = job[j].photo
                      /\ (job'[j].pc = "new") = (job[j].pc = "new")
                      /\ j \in LiveJobs => job'[j].pc = "queued" \/ job[j].again
    OBVIOUS
  <2>0. job[j] \in Job /\ job[j].photo \in Photos \cup {NoPhoto}
    BY <1>0 DEF Job
  <2>1. CASE job[j].pc \in {"new", "queued", "done"}
    <3>1. job'[j] = job[j]
      BY <2>1 DEF PhotosRestart
    <3> QED
      BY <2>0, <2>1, <3>1 DEF LiveJobs
  <2>2. CASE job[j].pc \notin {"new", "queued", "done"} /\ job[j].again
    <3>1. job'[j] = [NewJob EXCEPT !.pc = "done", !.photo = job[j].photo]
      BY <2>2 DEF PhotosRestart
    <3>2. job'[j] = [pc |-> "done", photo |-> job[j].photo, sees |-> {}, again |-> FALSE]
      BY <3>1 DEF NewJob
    <3> QED
      BY <2>0, <2>2, <3>2 DEF Job
  <2>3. CASE job[j].pc \notin {"new", "queued", "done"} /\ ~job[j].again
    <3>1. job'[j] = [NewJob EXCEPT !.pc = "queued", !.photo = job[j].photo, !.again = TRUE]
      BY <2>3 DEF PhotosRestart
    <3>2. job'[j] = [pc |-> "queued", photo |-> job[j].photo, sees |-> {}, again |-> TRUE]
      BY <3>1 DEF NewJob
    <3> QED
      BY <2>0, <2>3, <3>2 DEF Job
  <2> QED
    BY <2>1, <2>2, <2>3
<1>2. ASSUME NEW p \in Photos
      PROVE  /\ photo'[p] \in Photo
             /\ PhotoIs(photo'[p], Pc(p), photo[p].row, photo[p].path, photo[p].blob, photo[p].status, Drop(p),
                        photo[p].early, Lost(p), photo[p].ai)
  <2>1. Pc(p) \in PhotoPcs /\ Drop(p) \in {"no", "path", "nopath", "row"} /\ photo[p] \in Photo
    BY <1>0 DEF PhotoPcs, Photo
  <2>2. Lost(p) \in BOOLEAN
    BY Zenon
  <2>3. photo'[p] = [photo[p] EXCEPT !.pc = Pc(p), !.drop = Drop(p), !.lost = Lost(p)]
    BY DEF PhotosRestart
  <2> HIDE DEF Pc, Drop, Lost
  <2> QED
    BY <2>1, <2>2, <2>3 DEF Photo, PhotoPcs, PhotoIs
<1>3. photo' \in [Photos -> Photo] /\ job' \in [Jobs -> Job]
  <2>1. photo' = [p \in Photos |-> photo'[p]] /\ job' = [j \in Jobs |-> job'[j]]
    BY DEF PhotosRestart
  <2> QED
    BY <1>1, <1>2, <2>1
<1>4. PhotosShape'
  BY <1>0, <1>1, <1>3 DEF PhotosShape
<1>5. ASSUME NEW p \in Photos PROVE Owned(photo'[p])
  <2>1. Owned(photo[p])
    BY DEF PhotosInv
  <2> QED
    BY <1>0, <1>2, <2>1 DEF PhotoIs, Owned, Uploading, There
<1>6. ASSUME NEW p \in Photos, Waiting(photo'[p], recheck'[p]) PROVE p \in Expecting'
  <2>1. Waiting(photo[p], recheck[p]) /\ ~Lost(p)
    BY <1>0, <1>2, <1>6 DEF PhotoIs, Waiting
  <2>2. PICK j \in LiveJobs : job[j].photo = p
    BY <2>1 DEF PhotosInv, Expecting
  <2>3. job'[j].pc = "queued" /\ job'[j].photo = p /\ j \in Jobs
    BY <1>1, <2>1, <2>2 DEF LiveJobs
  <2> QED
    BY <2>3 DEF Expecting, LiveJobs
<1>7. ASSUME NEW p \in Photos, photo'[p].pc = "new" PROVE recheck'[p] = "no"
  <2>1. photo[p].pc = "new"
    BY <1>2, <1>7 DEF PhotoIs
  <2> QED
    BY <1>0, <2>1 DEF PhotosInv
<1> QED
  BY <1>4, <1>5, <1>6, <1>7 DEF PhotosInv

LEMMA PhotosKeep == ASSUME PhotosInv, [PhotosNext]_<<tagVars, photoVars>> PROVE PhotosInv'
<1>1. CASE UNCHANGED photoVars
  BY <1>1 DEF photoVars, PhotosInv, PhotosShape, Waiting, Owned, Expecting, LiveJobs
<1>2. CASE PhotosNext
  BY <1>1, <1>2, UploadKeeps, QueueKeeps, ResetKeeps, ReanalysisFails, JobKeeps, BreakKeeps, PhotosRestartKeeps
  DEF PhotosNext, UploadStep, JobStep
<1> QED
  BY <1>1, <1>2

LEMMA PhotosStart == ASSUME PhotosInit PROVE PhotosInv
<1>1. NewPhoto \in Photo /\ NewJob \in Job /\ Owned(NewPhoto) /\ ~Waiting(NewPhoto, "no") /\ NewJob.pc = "new"
  BY DEF NewPhoto, Photo, NewJob, Job, Owned, Waiting
<1> QED
  BY <1>1 DEF PhotosInit, PhotosInv, PhotosShape

\* A blob is not left behind (uploadPhoto and deletePhoto, photos.service.ts).
THEOREM BlobsHaveOwners == PhotosSpec => []BlobsAreOwned
<1>1. PhotosInv => BlobsAreOwned
  <2> SUFFICES ASSUME PhotosInv, NEW p \in Photos, photo[p].blob, ~photo[p].early, ~photo[p].lost, ~There(p)
               PROVE  photo[p].pc = "stored"
    BY DEF BlobsAreOwned
  <2>1. Owned(photo[p]) /\ photo[p] \in Photo
    BY DEF PhotosInv, PhotosShape
  <2> QED
    BY <2>1 DEF Owned, There, Photo
<1> QED
  BY <1>1, PhotosStart, PhotosKeep, PTL DEF PhotosSpec

\* No photo whose analysis was promised is shown as being analysed for ever
\* (uploadPhoto, reanalyzePhoto and handleAnalysis, photos.service.ts,
\* photo-analysis.processor.ts).
THEOREM AnalysesComeToAnEnd == PhotosSpec => []AnalysesSettle
<1>1. PhotosInv => AnalysesSettle
  BY DEF PhotosInv, AnalysesSettle, Promised, Waiting, Expecting, LiveJobs, Analysing, There
<1> QED
  BY <1>1, PhotosStart, PhotosKeep, PTL DEF PhotosSpec

\* A photo leaves nothing behind, neither a blob nor a promised analysis without
\* an end, on plans with an analysis and on those without.
THEOREM PhotosComeToAnEnd == PhotosSpec => []PhotosSettle
  BY BlobsHaveOwners, AnalysesComeToAnEnd, PTL DEF PhotosSettle

-----------------------------------------------------------------------------
(* Tags.                                                                   *)

TagShape == tag \in [Labels -> {"none", "ai", "manual", "photo"}]

\* A tag of the user's stands, or he deletes it.
LEMMA TagStep ==
  ASSUME TagShape, [PhotosNext]_<<tagVars, photoVars>>
  PROVE  TagShape' /\ \A t \in Labels : tag[t] = "manual" /\ tag'[t] # "manual" => DeleteTag(t)
<1>1. CASE tag' = tag
  BY <1>1 DEF TagShape
<1>2. ASSUME NEW t, tag' = (IF Has(t) THEN tag ELSE [tag EXCEPT ![t] = "ai"])
             \/ tag' = (IF Has(t) THEN tag ELSE [tag EXCEPT ![t] = "manual"])
             \/ tag' = (IF Has(t) THEN tag ELSE [tag EXCEPT ![t] = "photo"])
      PROVE  TagShape' /\ \A u \in Labels : tag[u] = "manual" => tag'[u] = "manual"
  BY <1>2 DEF TagShape, Has
<1>3. ASSUME NEW g \in Generates, GenerateClear(g)
      PROVE  TagShape' /\ \A u \in Labels : tag[u] = "manual" => tag'[u] = "manual"
  BY <1>3 DEF TagShape, GenerateClear
<1>4. ASSUME NEW t \in Labels, DeleteTag(t)
      PROVE  TagShape' /\ \A u \in Labels : tag[u] = "manual" /\ tag'[u] # "manual" => u = t
  BY <1>4 DEF TagShape, DeleteTag
<1>5. CASE TagsNext
  <2>1. ASSUME NEW g \in Generates, NEW t \in Labels, GenerateCreate(g, t)
        PROVE  TagShape' /\ \A u \in Labels : tag[u] = "manual" => tag'[u] = "manual"
    BY <1>2, <2>1 DEF GenerateCreate
  <2>2. ASSUME NEW a \in Adds, AddCreate(a)
        PROVE  TagShape' /\ \A u \in Labels : tag[u] = "manual" => tag'[u] = "manual"
    BY <1>2, <2>2 DEF AddCreate
  <2>3. ASSUME NEW g \in Generates, GenerateAsk(g) \/ GenerateAnswer(g) \/ GenerateDone(g) PROVE tag' = tag
    BY <2>3 DEF GenerateAsk, GenerateAnswer, GenerateDone
  <2>4. ASSUME DebounceEnds \/ \E a \in Adds, t \in Labels : AddCheck(a, t) PROVE tag' = tag
    BY <2>4 DEF DebounceEnds, AddCheck
  <2> QED
    BY <1>1, <1>3, <1>4, <1>5, <2>1, <2>2, <2>3, <2>4 DEF TagsNext
<1>6. ASSUME NEW j \in Jobs, NEW t \in Labels, JobMerge(j, t)
      PROVE  TagShape' /\ \A u \in Labels : tag[u] = "manual" => tag'[u] = "manual"
  BY <1>2, <1>6 DEF JobMerge
<1>7. ASSUME NEW p \in Photos, UploadStep(p) \/ Reanalyze(p) \/ ReanalyzeReset(p) \/ ReanalyzeFails(p)
                               \/ \E j \in Jobs : PhotoQueue(p, j) \/ ReanalyzeQueue(p, j)
      PROVE  tag' = tag
  BY <1>7 DEF UploadStep, PhotoClaim, PhotoProcess, PhotoUpload, PhotoWrite, PhotoStoreOnly, PhotoFails, DeleteRead,
              DeleteBlob, DeleteBlobFails, DeleteRow, DeleteRowFails, Reanalyze, ReanalyzeReset, ReanalyzeFails, PhotoQueue, ReanalyzeQueue, tagVars
<1>8. ASSUME NEW j \in Jobs, JobStart(j) \/ JobRead(j) \/ JobAnswer(j) \/ JobStore(j) \/ JobLook(j) \/ JobDone(j)
                            \/ JobCatch(j) \/ JobBreaks(j)
      PROVE  tag' = tag
  BY <1>8 DEF JobStart, JobRead, JobAnswer, JobStore, JobLook, JobDone, JobCatch, JobBreaks, tagVars
<1>9. ASSUME PhotosRestart \/ UNCHANGED <<tagVars, photoVars>> PROVE tag' = tag
  BY <1>9 DEF PhotosRestart, tagVars
<1> QED
  BY <1>1, <1>5, <1>6, <1>7, <1>8, <1>9 DEF PhotosNext, UploadStep

\* Neither a generation nor a photo takes away or takes over a tag that the user
\* added (generateTags, addManualTag and deleteTag, enrichment.service.ts; mergeSignals).
THEOREM UserTagsAreKept == PhotosSpec => UserTagsStand
<1>1. PhotosInit => TagShape
  BY DEF PhotosInit, TagsInit, TagShape
<1>2. TagShape /\ [PhotosNext]_<<tagVars, photoVars>> => TagShape'
  BY TagStep
<1>3. TagShape /\ [PhotosNext]_<<tagVars, photoVars>> =>
        [\A t \in Labels : tag[t] = "manual" /\ tag'[t] # "manual" => DeleteTag(t)]_tag
  BY TagStep
<1> QED
  BY <1>1, <1>2, <1>3, PTL DEF PhotosSpec, UserTagsStand

-----------------------------------------------------------------------------
(* Surveys.                                                                *)

-----------------------------------------------------------------------------
(* Survey links, and the score of a person.                                *)

\* While a link is being sent the mark stands, so no other one is; once the
\* older links are superseded none is live until the new one is created.
LinksInv ==
  /\ surveyLink \in [Sends -> SurveyLink]
  /\ \A s \in Sending : sendMark
  /\ \A s, t \in Sending : s = t
  /\ \A s \in Sends : surveyLink[s].pc \in {"new", "supersede", "create"} => surveyLink[s].row # "live"
  /\ \A s, t \in Sends : surveyLink[s].pc = "create" => surveyLink[t].row # "live"
  /\ OneLiveLink

LEMMA LinksStart == ASSUME SurveysInit PROVE LinksInv
BY DEF SurveysInit, LinksInv, SurveyLink, Sending, OneLiveLink

\* Link s is at pc, and the rest of the links is as it was.
LEMMA LinkStep ==
  ASSUME LinksInv, NEW s \in Sends, NEW link \in SurveyLink, surveyLink' = [surveyLink EXCEPT ![s] = link]
  PROVE  /\ surveyLink' \in [Sends -> SurveyLink] /\ surveyLink'[s] = link
         /\ \A t \in Sends : t # s => surveyLink'[t] = surveyLink[t]
BY DEF LinksInv

LEMMA LinksKeep == ASSUME LinksInv, [SurveysNext]_surveyVars PROVE LinksInv'
<1>0. surveyLink \in [Sends -> SurveyLink]
  BY DEF LinksInv
<1>1. CASE UNCHANGED <<surveyLink, sendMark>>
  BY <1>1 DEF LinksInv, Sending, OneLiveLink
<1>2. ASSUME NEW s \in Sends, SendCheck(s) PROVE LinksInv'
  <2>1. ~sendMark /\ sendMark' /\ surveyLink' = [surveyLink EXCEPT ![s].pc = "supersede"] /\ surveyLink[s].pc = "new"
    BY <1>2 DEF SendCheck
  <2>2. /\ surveyLink' \in [Sends -> SurveyLink] /\ surveyLink'[s].pc = "supersede" /\ surveyLink'[s].row = surveyLink[s].row
        /\ \A t \in Sends : t # s => surveyLink'[t] = surveyLink[t]
    BY <1>0, <2>1 DEF SurveyLink
  <2> QED
    BY <2>1, <2>2 DEF LinksInv, Sending, OneLiveLink
<1>3. ASSUME NEW s \in Sends, SendSupersede(s) PROVE LinksInv'
  <2>1. surveyLink[s].pc = "supersede" /\ sendMark' = sendMark /\ s \in Sending
    BY <1>3 DEF SendSupersede, Sending
  <2>2. \A t \in Sends : surveyLink'[t] = IF t = s THEN [surveyLink[t] EXCEPT !.pc = "create"]
                                          ELSE [surveyLink[t] EXCEPT !.row = IF @ = "live" THEN "over" ELSE @]
    BY <1>3 DEF SendSupersede
  <2>3. surveyLink'[s] \in SurveyLink /\ surveyLink'[s].pc = "create" /\ surveyLink'[s].row = surveyLink[s].row
    BY <1>0, <2>2 DEF SurveyLink
  <2>4. \A t \in Sends : t # s => /\ surveyLink'[t] \in SurveyLink /\ surveyLink'[t].pc = surveyLink[t].pc
                                  /\ surveyLink'[t].row # "live"
    BY <1>0, <2>2 DEF SurveyLink
  <2>5. surveyLink' \in [Sends -> SurveyLink]
    <3>1. surveyLink' = [t \in Sends |-> surveyLink'[t]]
      BY <1>3 DEF SendSupersede
    <3> QED
      BY <2>3, <2>4, <3>1
  <2>6. Sending' = Sending
    BY <2>1, <2>3, <2>4 DEF Sending
  <2>7. \A t \in Sends : surveyLink'[t].row # "live"
    BY <2>1, <2>3, <2>4 DEF LinksInv
  <2> QED
    BY <2>1, <2>5, <2>6, <2>7 DEF LinksInv, OneLiveLink
<1>4. ASSUME NEW s \in Sends, SendCreate(s) PROVE LinksInv'
  <2>1. /\ surveyLink[s].pc = "create" /\ sendMark' = sendMark
        /\ surveyLink' = [surveyLink EXCEPT ![s] = [pc |-> "mail", row |-> "live"]]
    BY <1>4 DEF SendCreate
  <2>2. /\ surveyLink' \in [Sends -> SurveyLink] /\ surveyLink'[s].pc = "mail" /\ surveyLink'[s].row = "live"
        /\ \A t \in Sends : t # s => surveyLink'[t] = surveyLink[t]
    BY <1>0, <2>1 DEF SurveyLink
  <2> QED
    BY <2>1, <2>2 DEF LinksInv, Sending, OneLiveLink
<1>5. ASSUME NEW s \in Sends, SendMail(s) PROVE LinksInv'
  <2>1. PICK pc \in {"done", "dead"} : surveyLink' = [surveyLink EXCEPT ![s].pc = pc]
    BY <1>5 DEF SendMail
  <2>2. surveyLink[s].pc = "mail" /\ sendMark' = sendMark
    BY <1>5 DEF SendMail
  <2>3. /\ surveyLink' \in [Sends -> SurveyLink] /\ surveyLink'[s].pc = pc /\ surveyLink'[s].row = surveyLink[s].row
        /\ \A t \in Sends : t # s => surveyLink'[t] = surveyLink[t]
    BY <1>0, <2>1 DEF SurveyLink
  <2> QED
    BY <2>2, <2>3 DEF LinksInv, Sending, OneLiveLink
<1>6. ASSUME NEW s, NEW row \in {"over", "answered"}, surveyLink' = [surveyLink EXCEPT ![s].row = row],
             sendMark' = sendMark
      PROVE  LinksInv'
  <2>1. /\ surveyLink' \in [Sends -> SurveyLink]
        /\ \A t \in Sends : /\ surveyLink'[t].pc = surveyLink[t].pc
                            /\ surveyLink'[t].row # "live" \/ surveyLink'[t].row = surveyLink[t].row
    BY <1>0, <1>6 DEF SurveyLink
  <2> QED
    BY <1>6, <2>1 DEF LinksInv, Sending, OneLiveLink
<1>7. CASE SendDayEnds
  BY <1>7 DEF SendDayEnds, LinksInv, Sending, OneLiveLink
<1>8. CASE SurveysRestart
  <2>1. \A s \in Sends : surveyLink'[s] = IF s \in Sending THEN [surveyLink[s] EXCEPT !.pc = "dead"] ELSE surveyLink[s]
    BY <1>8 DEF SurveysRestart
  <2>2. \A s \in Sends : /\ surveyLink'[s] \in SurveyLink /\ surveyLink'[s].row = surveyLink[s].row
                         /\ surveyLink'[s].pc \in {"new", "done", "dead"}
                         /\ surveyLink'[s].pc = "new" => surveyLink[s].pc = "new"
    BY <1>0, <2>1 DEF SurveyLink, Sending
  <2>3. surveyLink' \in [Sends -> SurveyLink]
    <3>1. surveyLink' = [s \in Sends |-> surveyLink'[s]]
      BY <1>8 DEF SurveysRestart
    <3> QED
      BY <2>2, <3>1
  <2> QED
    BY <2>2, <2>3 DEF LinksInv, Sending, OneLiveLink
<1>9. ASSUME NEW b \in Submits, (\E s \in Sends : SubmitRead(b, s)) \/ SubmitCreate(b) \/ SubmitMark(b) PROVE LinksInv'
  BY <1>1, <1>6, <1>9 DEF SubmitRead, SubmitCreate, SubmitMark
<1>10. ASSUME NEW u \in Updates,
              \/ \E fields \in SUBSET Fields : OwnerSave(u, fields) \/ ReviewApprove(u, fields)
              \/ \E b \in Submits : ReviewRead(u, b)
              \/ UpdateWrite(u) \/ UpdateScore(u) \/ ReviewDismiss(u) \/ ReviewMark(u)
       PROVE  LinksInv'
  BY <1>1, <1>10 DEF OwnerSave, ReviewApprove, ReviewRead, UpdateWrite, UpdateScore, ReviewDismiss, ReviewMark, Review
<1>11. ASSUME NEW s \in Sends, SurveyLinkExpire(s) PROVE LinksInv'
  BY <1>6, <1>11 DEF SurveyLinkExpire
<1> QED
  BY <1>1, <1>2, <1>3, <1>4, <1>5, <1>7, <1>8, <1>9, <1>10, <1>11 DEF SurveysNext, surveyVars

-----------------------------------------------------------------------------
(* The score.                                                              *)

Scores == {0} \cup {Cardinality(F) : F \in SUBSET Fields}

UpdateRecord ==
  [pc : {"new", "read", "write", "score", "mark", "done"}, response : Submits \cup {NoSubmit},
   fields : SUBSET Fields, seen : SUBSET Fields, seenScore : Scores]

Agrees == score = Cardinality(filled)

\* What one update at a time has read, and what it has yet to do.
ScoreInv ==
  /\ filled \in SUBSET Fields /\ score \in Scores /\ update \in [Updates -> UpdateRecord]
  /\ ~jumbled =>
       /\ \A u, v \in Updating : u = v
       /\ (\A u \in Updates : update[u].pc # "score") => Agrees
       /\ \A u \in Updates : update[u].pc = "write" => update[u].seen = filled /\ update[u].seenScore = score
       /\ \A u \in Updates : update[u].pc = "score" =>
            update[u].seen \cup update[u].fields = filled /\ update[u].seenScore = score

LEMMA ScoreStarts == ASSUME SurveysInit PROVE ScoreInv
<1>1. NewUpdate \in UpdateRecord /\ NewUpdate.pc = "new"
  BY DEF NewUpdate, UpdateRecord, Scores
<1>2. Cardinality({}) = 0
  BY FS_EmptySet
<1> QED
  BY <1>1, <1>2 DEF SurveysInit, ScoreInv, Updating, Scores, Agrees

LEMMA OneUpdate ==
  ASSUME update \in [Updates -> UpdateRecord], NEW u \in Updates, NEW x \in UpdateRecord,
         update' = [update EXCEPT ![u] = x]
  PROVE  /\ update' \in [Updates -> UpdateRecord] /\ update'[u] = x
         /\ \A v \in Updates : v # u => update'[v] = update[v]
OBVIOUS

LEMMA UpdateGoes ==
  ASSUME NEW x \in UpdateRecord, NEW pc \in {"read", "score"}, NEW response \in Submits \cup {NoSubmit},
         NEW y, y = [x EXCEPT !.pc = pc] \/ y = [x EXCEPT !.pc = pc, !.response = response]
  PROVE  /\ y \in UpdateRecord /\ y.pc = pc /\ y.fields = x.fields /\ y.seen = x.seen /\ y.seenScore = x.seenScore
<1>1. CASE y = [x EXCEPT !.pc = pc]
  BY <1>1 DEF UpdateRecord
<1>2. CASE y = [x EXCEPT !.pc = pc, !.response = response]
  BY <1>2 DEF UpdateRecord
<1> QED
  BY <1>1, <1>2

LEMMA UpdateOver == [NewUpdate EXCEPT !.pc = "done"] \in UpdateRecord /\ [NewUpdate EXCEPT !.pc = "done"].pc = "done"
<1> DEFINE x == [NewUpdate EXCEPT !.pc = "done"]
<1>1. x = [pc |-> "done", response |-> NoSubmit, fields |-> {}, seen |-> {}, seenScore |-> 0]
  BY DEF NewUpdate
<1> QED
  BY <1>1 DEF UpdateRecord, Scores

\* An update reads the person's row.
LEMMA AnswerReadKeeps ==
  ASSUME ScoreInv, NEW u \in Updates, NEW response \in Submits \cup {NoSubmit}, NEW fields \in SUBSET Fields,
         UpdateRead(u, response, fields), UNCHANGED <<filled, score>>,
         ~jumbled' => ~jumbled /\ Updating \subseteq {u}
  PROVE  ScoreInv'
<1> DEFINE x == [pc |-> "write", response |-> response, fields |-> fields, seen |-> filled, seenScore |-> score]
<1>1. update \in [Updates -> UpdateRecord] /\ update' = [update EXCEPT ![u] = x] /\ x \in UpdateRecord
      /\ update[u].pc \in {"new", "read"}
  BY DEF ScoreInv, UpdateRead, UpdateRecord
<1>2. x.pc = "write" /\ x.seen = filled /\ x.seenScore = score
  OBVIOUS
<1> HIDE DEF x
<1>3. /\ update' \in [Updates -> UpdateRecord] /\ update'[u] = x
      /\ \A v \in Updates : v # u => update'[v] = update[v]
  BY <1>1, OneUpdate
<1>4. ASSUME ~jumbled'
      PROVE  /\ \A v, w \in Updating' : v = w
             /\ \A v \in Updates : update[v].pc # "score"
             /\ \A v \in Updates : update'[v].pc \in {"write", "score"} => v = u
             /\ Agrees
  <2>1. ~jumbled /\ Updating \subseteq {u}
    BY <1>4
  <2>2. \A v \in Updates : update[v].pc # "score"
    BY <1>1, <2>1 DEF Updating
  <2> QED
    BY <1>3, <2>1, <2>2 DEF Updating, ScoreInv
<1> QED
  BY <1>1, <1>2, <1>3, <1>4 DEF ScoreInv, Agrees

LEMMA ScoreKeeps == ASSUME ScoreInv, [SurveysNext]_surveyVars PROVE ScoreInv'
<1>0. update \in [Updates -> UpdateRecord] /\ filled \in SUBSET Fields /\ score \in Scores
  BY DEF ScoreInv
<1>1. CASE UNCHANGED <<filled, score, update, jumbled>>
  BY <1>1 DEF ScoreInv, Agrees, Updating
<1>2. ASSUME NEW u \in Updates, NEW fields \in SUBSET Fields, OwnerSave(u, fields) PROVE ScoreInv'
  <2>1. /\ UpdateRead(u, NoSubmit, fields) /\ UNCHANGED <<filled, score>>
        /\ ~jumbled' => ~jumbled /\ Updating = {}
    BY <1>2, Zenon DEF OwnerSave
  <2> QED
    BY <2>1, AnswerReadKeeps
<1>3. ASSUME NEW u \in Updates, NEW fields \in SUBSET Fields, ReviewApprove(u, fields) PROVE ScoreInv'
  <2>1. /\ UpdateRead(u, update[u].response, fields) /\ UNCHANGED <<filled, score, jumbled>> /\ u \in Updating
    BY <1>3 DEF ReviewApprove, Updating
  <2>2. update[u].response \in Submits \cup {NoSubmit}
    BY <1>0 DEF UpdateRecord
  <2>3. ~jumbled => Updating \subseteq {u}
    BY <2>1 DEF ScoreInv
  <2> QED
    BY <2>1, <2>2, <2>3, AnswerReadKeeps
<1>4. ASSUME NEW u \in Updates, UpdateWrite(u) PROVE ScoreInv'
  <2> DEFINE x == [update[u] EXCEPT !.pc = "score"]
  <2>1. /\ update[u].pc = "write" /\ filled' = filled \cup update[u].fields /\ UNCHANGED <<score, jumbled>>
        /\ update' = [update EXCEPT ![u] = x]
    BY <1>4 DEF UpdateWrite
  <2>2. /\ x \in UpdateRecord /\ x.pc = "score" /\ x.fields = update[u].fields /\ x.seen = update[u].seen
        /\ x.seenScore = update[u].seenScore
    BY <1>0 DEF UpdateRecord
  <2> HIDE DEF x
  <2>3. /\ update' \in [Updates -> UpdateRecord] /\ update'[u] = x
        /\ \A v \in Updates : v # u => update'[v] = update[v]
    BY <1>0, <2>1, <2>2, OneUpdate
  <2>4. Updating' = Updating /\ u \in Updating
    BY <2>1, <2>2, <2>3 DEF Updating
  <2>5. filled' \in SUBSET Fields
    BY <1>0, <2>1 DEF UpdateRecord
  <2> QED
    BY <1>0, <2>1, <2>2, <2>3, <2>4, <2>5 DEF ScoreInv, Updating
<1>5. ASSUME NEW u \in Updates, UpdateScore(u) PROVE ScoreInv'
  <2> DEFINE new == Cardinality(update[u].seen \cup update[u].fields)
             x == update'[u]
  <2>1. /\ update[u].pc = "score" /\ UNCHANGED <<filled, jumbled>>
        /\ score' = IF new # update[u].seenScore THEN new ELSE score
        /\ update' = [update EXCEPT ![u] =
             IF update[u].response = NoSubmit THEN [NewUpdate EXCEPT !.pc = "done"]
             ELSE [update[u] EXCEPT !.pc = "mark", !.seen = {}, !.seenScore = 0]]
    BY <1>0, <1>5 DEF UpdateScore
  <2>2. update[u].seen \cup update[u].fields \in SUBSET Fields /\ update[u] \in UpdateRecord
    BY <1>0 DEF UpdateRecord
  <2>3. score' \in Scores
    BY <1>0, <2>1, <2>2 DEF Scores
  <2>4. update' = [update EXCEPT ![u] = x] /\ x \in UpdateRecord /\ x.pc \in {"done", "mark"}
    <3>1. CASE update[u].response = NoSubmit
      BY <1>0, <2>1, <3>1, UpdateOver
    <3>2. CASE update[u].response # NoSubmit
      <4>1. x = [update[u] EXCEPT !.pc = "mark", !.seen = {}, !.seenScore = 0] /\ update' = [update EXCEPT ![u] = x]
        BY <1>0, <2>1, <3>2
      <4> HIDE DEF x
      <4> QED
        BY <2>2, <4>1 DEF UpdateRecord, Scores
    <3> QED
      BY <3>1, <3>2
  <2> HIDE DEF x
  <2>5. /\ update' \in [Updates -> UpdateRecord] /\ update'[u] = x
        /\ \A v \in Updates : v # u => update'[v] = update[v]
    BY <1>0, <2>4, OneUpdate
  <2>6. Updating' \subseteq Updating /\ u \in Updating
    BY <2>1, <2>4, <2>5 DEF Updating
  <2>7. ASSUME ~jumbled
        PROVE  score' = Cardinality(filled) /\ \A v \in Updates : update'[v].pc \notin {"write", "score"}
    <3>1. update[u].seen \cup update[u].fields = filled /\ update[u].seenScore = score
      BY <2>1, <2>7 DEF ScoreInv
    <3>2. score' = Cardinality(filled)
      BY <2>1, <3>1
    <3> QED
      BY <2>4, <2>5, <2>6, <2>7, <3>2 DEF ScoreInv, Updating
  <2> QED
    BY <1>0, <2>1, <2>3, <2>5, <2>6, <2>7 DEF ScoreInv, Agrees
<1>6. ASSUME NEW u \in Updates, NEW b \in Submits, ReviewRead(u, b) PROVE ScoreInv'
  <2> DEFINE x == [update[u] EXCEPT !.pc = "read", !.response = b]
  <2>1. /\ update' = [update EXCEPT ![u] = x] /\ UNCHANGED <<filled, score>>
        /\ ~jumbled' => ~jumbled /\ Updating = {}
    BY <1>6 DEF ReviewRead
  <2>2. x \in UpdateRecord /\ x.pc = "read"
    <3>1. ASSUME NEW y, y = x PROVE y \in UpdateRecord /\ y.pc = "read"
      BY <1>0, <3>1 DEF UpdateRecord
    <3> QED
      BY <3>1
  <2> HIDE DEF x
  <2>3. /\ update' \in [Updates -> UpdateRecord] /\ update'[u] = x
        /\ \A v \in Updates : v # u => update'[v] = update[v]
    BY <1>0, <2>1, <2>2, OneUpdate
  <2>4. ASSUME ~jumbled'
        PROVE  /\ ~jumbled /\ Agrees /\ \A v \in Updates : update'[v].pc \notin {"write", "score"}
               /\ \A v, w \in Updating' : v = w
    BY <2>1, <2>2, <2>3, <2>4 DEF ScoreInv, Updating
  <2> QED
    BY <1>0, <2>1, <2>3, <2>4 DEF ScoreInv, Agrees
<1>7. ASSUME NEW u \in Updates, ReviewDismiss(u) \/ ReviewMark(u) PROVE ScoreInv'
  <2>1. /\ update' = [update EXCEPT ![u] = [NewUpdate EXCEPT !.pc = "done"]] /\ UNCHANGED <<filled, score, jumbled>>
        /\ update[u].pc \in {"read", "mark"}
    BY <1>7 DEF ReviewDismiss, ReviewMark, Review
  <2>2. /\ update' \in [Updates -> UpdateRecord] /\ update'[u].pc = "done"
        /\ \A v \in Updates : v # u => update'[v] = update[v]
    BY <1>0, <2>1, UpdateOver, OneUpdate
  <2> QED
    BY <1>0, <2>1, <2>2 DEF ScoreInv, Agrees, Updating
<1>8. CASE SurveysRestart
  <2>1. /\ update' = [u \in Updates |-> IF u \in Updating THEN [NewUpdate EXCEPT !.pc = "done"] ELSE update[u]]
        /\ UNCHANGED <<filled, score>> /\ (~jumbled' => ~jumbled /\ Updating = {})
    BY <1>8 DEF SurveysRestart
  <2>2. update' \in [Updates -> UpdateRecord]
    BY <1>0, <2>1, UpdateOver
  <2>3. ASSUME ~jumbled' PROVE update' = update
    BY <1>0, <2>1, <2>3
  <2> QED
    BY <1>0, <2>1, <2>2, <2>3 DEF ScoreInv, Agrees, Updating
<1>9. ASSUME NEW s \in Sends, \/ SendCheck(s) \/ SendSupersede(s) \/ SendCreate(s) \/ SendMail(s) \/ SurveyLinkExpire(s)
      PROVE  ScoreInv'
  BY <1>1, <1>9 DEF SendCheck, SendSupersede, SendCreate, SendMail, SurveyLinkExpire, personVars
<1>10. ASSUME NEW b \in Submits, (\E s \in Sends : SubmitRead(b, s)) \/ SubmitCreate(b) \/ SubmitMark(b) PROVE ScoreInv'
  BY <1>1, <1>10 DEF SubmitRead, SubmitCreate, SubmitMark, personVars
<1>11. CASE SendDayEnds
  BY <1>1, <1>11 DEF SendDayEnds, personVars
<1> QED
  BY <1>1, <1>2, <1>3, <1>4, <1>5, <1>6, <1>7, <1>8, <1>9, <1>10, <1>11 DEF SurveysNext, surveyVars

\* One live link, and the score of the fields: sendSurvey and submitSurvey
\* (survey.service.ts), reviewResponse, and update (persons.service.ts).
THEOREM WhatSurveysLeaveAddsUp == SurveysSpec => []SurveysAddUp
<1>1. SurveysInit => LinksInv /\ ScoreInv
  BY LinksStart, ScoreStarts
<1>2. LinksInv /\ ScoreInv /\ [SurveysNext]_surveyVars => LinksInv' /\ ScoreInv'
  BY LinksKeep, ScoreKeeps
<1>3. LinksInv /\ ScoreInv => SurveysAddUp
  <2>1. ASSUME ScoreInv, ~jumbled, Updating = {} PROVE score = Cardinality(filled)
    BY <2>1 DEF ScoreInv, Updating, Agrees
  <2> QED
    BY <2>1 DEF LinksInv, SurveysAddUp, ScoreAgrees
<1> QED
  BY <1>1, <1>2, <1>3, PTL DEF SurveysSpec

-----------------------------------------------------------------------------
(* Calendar.                                                               *)

-----------------------------------------------------------------------------
(* The calendar's arithmetic.                                              *)

LEMMA HorizonIsALead == Horizon \in Leads /\ \A l \in Leads : l <= Horizon
BY CalendarAssumption DEF Horizon

LEMMA HorizonIsNatural == Horizon \in Nat
BY HorizonIsALead, CalendarAssumption

LEMMA LaterYear ==
  ASSUME NEW i \in Int, NEW k \in Int, i < k
  PROVE  i * Year + Year <= k * Year
<1>1. Year \in Nat \ {0}
  BY CalendarAssumption
<1>2. (i + 1) * Year <= k * Year
  BY <1>1
<1>3. (i + 1) * Year = i * Year + Year
  BY <1>1
<1> QED
  BY <1>2, <1>3

\* n is the day that date has in some year.
Falls(n, date) == \E k \in Int : n = k * Year + (date % Year)

LEMMA NextIsAhead ==
  ASSUME NEW date \in Nat, NEW today \in Nat
  PROVE  LET n == NextOccurrence(date, TRUE, today) IN
         n \in Int /\ today <= n /\ n < today + Year /\ Falls(n, date)
<1> DEFINE k == today \div Year
           m == date % Year
           n == NextOccurrence(date, TRUE, today)
<1>1. Year \in Nat \ {0}
  BY CalendarAssumption
<1>2. k \in Int /\ m \in Int /\ 0 <= m /\ m < Year /\ k * Year <= today /\ today < k * Year + Year
  <2>1. today = k * Year + (today % Year) /\ today % Year \in 0..(Year - 1) /\ k \in Int
    BY <1>1
  <2>2. m \in Int /\ 0 <= m /\ m < Year
    BY <1>1
  <2> QED
    BY <1>1, <2>1, <2>2
<1>3. n = IF k * Year + m >= today THEN k * Year + m ELSE k * Year + m + Year
  BY DEF NextOccurrence
<1>4. k * Year \in Int /\ (k + 1) * Year = k * Year + Year /\ k + 1 \in Int
  BY <1>1, <1>2
<1>5. Falls(k * Year + m, date) /\ Falls(k * Year + m + Year, date)
  <2>1. k * Year + m + Year = (k + 1) * Year + m
    BY <1>1, <1>2, <1>4
  <2> QED
    BY <1>2, <1>4, <2>1 DEF Falls
<1> HIDE DEF k, m, n
<1> DEFINE j == k * Year
<1>8. /\ j \in Int /\ m \in Int /\ 0 <= m /\ m < Year /\ j <= today /\ today < j + Year
      /\ n = IF j + m >= today THEN j + m ELSE j + m + Year
  BY <1>1, <1>2, <1>3, <1>4
<1> HIDE DEF j
<1>6. n \in Int /\ today <= n /\ n < today + Year
  BY <1>1, <1>8
<1>7. Falls(n, date)
  BY <1>3, <1>5 DEF k, m, n
<1> QED
  BY <1>6, <1>7 DEF n

\* Two days less than a year apart on which a date falls are the same day.
LEMMA FallsOnce ==
  ASSUME NEW date \in Nat, NEW n \in Int, NEW p \in Int, Falls(n, date), Falls(p, date),
         n < p + Year, p < n + Year
  PROVE  n = p
<1> DEFINE m == date % Year
<1>1. Year \in Nat \ {0} /\ m \in Int
  BY CalendarAssumption
<1>2. PICK i \in Int : n = i * Year + m
  BY DEF Falls
<1>3. PICK k \in Int : p = k * Year + m
  BY DEF Falls
<1> HIDE DEF m
<1>4. i * Year \in Int /\ k * Year \in Int
  BY <1>1
<1>5. ~(i < k)
  <2>1. ASSUME i < k PROVE FALSE
    <3>1. i * Year + Year <= k * Year
      BY <2>1, LaterYear
    <3> QED
      BY <1>1, <1>2, <1>3, <1>4, <3>1
  <2> QED
    BY <2>1
<1>6. ~(k < i)
  <2>1. ASSUME k < i PROVE FALSE
    <3>1. k * Year + Year <= i * Year
      BY <2>1, LaterYear
    <3> QED
      BY <1>1, <1>2, <1>3, <1>4, <3>1
  <2> QED
    BY <2>1
<1>7. i = k
  BY <1>5, <1>6
<1> QED
  BY <1>2, <1>3, <1>7

LEMMA FallsNextYear ==
  ASSUME NEW date \in Nat, NEW n \in Int, Falls(n, date)
  PROVE  Falls(n + Year, date)
<1>1. Year \in Nat \ {0} /\ date % Year \in Int
  BY CalendarAssumption
<1>2. PICK i \in Int : n = i * Year + (date % Year)
  BY DEF Falls
<1>3. i * Year \in Int /\ (i + 1) * Year = i * Year + Year /\ i + 1 \in Int
  BY <1>1
<1>4. n + Year = (i + 1) * Year + (date % Year)
  BY <1>1, <1>2, <1>3
<1> QED
  BY <1>3, <1>4 DEF Falls

\* A day that the refresh may have left a while behind leads to the next one.
LEMMA NextIsThatOrMuchLater ==
  ASSUME NEW date \in Nat, NEW today \in Nat, NEW delay \in Nat, NEW n \in Int, Falls(n, date),
         today - delay <= n, n < today + Year, delay < Year - Horizon
  PROVE  NextOccurrence(date, TRUE, today) = n \/ NextOccurrence(date, TRUE, today) > today + Horizon
<1> DEFINE p == NextOccurrence(date, TRUE, today)
<1>1. p \in Int /\ today <= p /\ p < today + Year /\ Falls(p, date)
  BY NextIsAhead
<1>2. Year \in Nat \ {0} /\ Horizon \in Nat
  BY CalendarAssumption, HorizonIsNatural
<1>3. Falls(n + Year, date)
  BY FallsNextYear
<1> HIDE DEF p
<1>4. CASE today <= n
  <2>1. n < p + Year /\ p < n + Year
    BY <1>1, <1>2, <1>4
  <2>2. n = p
    BY <1>1, <2>1, FallsOnce
  <2> QED
    BY <2>2 DEF p
<1>5. CASE n < today
  <2>1. n + Year \in Int /\ n + Year < p + Year /\ p < n + Year + Year /\ n + Year > today + Horizon
    BY <1>1, <1>2, <1>5
  <2>2. n + Year = p
    BY <1>1, <1>3, <2>1, FallsOnce
  <2> QED
    BY <2>1, <2>2 DEF p
<1>6. today <= n \/ n < today
  OBVIOUS
<1> QED
  BY <1>4, <1>5, <1>6

-----------------------------------------------------------------------------
(* Types.                                                                  *)

Shift(rows) == [pc : {"due", "read", "done", "failed"}, rows : SUBSET rows]

CalendarShape ==
  /\ day \in Nat /\ missed \in Nat
  /\ birthday \in Dates \cup {NoDate}
  /\ event \in [Events -> Event]
  /\ reminders \subseteq Reminder
  /\ save \in [Saves -> Save]
  /\ change \in [Changes \cup Removals -> Change]
  /\ refresh \in Shift(Events \X Dates)
  /\ remind \in Shift(Reminder)

\* Which event a change is about, from its reading on.
ChangesKnow ==
  \A u \in Changes \cup Removals : change[u].pc \notin {"new", "done"} =>
    /\ change[u].event \in Events
    /\ event[change[u].event].pc # "new"
    /\ change[u].auto = event[change[u].event].auto

\* Which event a save has found.
SavesKnow ==
  \A s \in Saves : save[s].pc = "write" /\ save[s].found # NoEvent =>
    save[s].found \in Events /\ event[save[s].found].pc # "new" /\ event[save[s].found].auto

CalendarKnows == CalendarShape /\ ChangesKnow /\ SavesKnow

\* What a step does with the rows of events: those that were there stay, and
\* stay automatic or not.
RowsStay ==
  /\ event' \in [Events -> Event]
  /\ \A e \in Events : event[e].pc # "new" => event'[e].pc # "new" /\ event'[e].auto = event[e].auto

LEMMA NextIsADay ==
  ASSUME day \in Nat, NEW date \in Dates, NEW recurring \in BOOLEAN
  PROVE  NextOccurrence(date, recurring, day) \in Int
<1>1. date \in Nat
  BY CalendarAssumption
<1>2. CASE recurring
  BY <1>1, <1>2, NextIsAhead
<1>3. CASE ~recurring
  BY <1>1, <1>3 DEF NextOccurrence
<1> QED
  BY <1>2, <1>3

LEMMA NoRecordsAreRecords ==
  NoSave("new") \in Save /\ NoSave("done") \in Save /\ NoChange("new") \in Change /\ NoChange("done") \in Change
<1>1. SomeDate \in Dates
  BY CalendarAssumption DEF SomeDate
<1> QED
  BY <1>1 DEF NoSave, NoChange, Save, Change

\* A row that differs from another one in its next day.
SameRow(g, f) ==
  g.pc = f.pc /\ g.auto = f.auto /\ g.modified = f.modified /\ g.marked = f.marked
  /\ g.recurring = f.recurring /\ g.date = f.date

LEMMA NextOnly ==
  ASSUME NEW f \in Event, NEW next \in Int, NEW g, g = [f EXCEPT !.next = next]
  PROVE  g \in Event /\ SameRow(g, f) /\ g.next = next
BY DEF Event, SameRow

LEMMA OneEvent ==
  ASSUME event \in [Events -> Event], NEW e \in Events, NEW g \in Event, event' = [event EXCEPT ![e] = g]
  PROVE  event' \in [Events -> Event] /\ event'[e] = g /\ \A f \in Events \ {e} : event'[f] = event[f]
OBVIOUS

\* A row that is written with its next day.
LEMMA WritesNext ==
  ASSUME event \in [Events -> Event], day \in Nat, NEW e \in Events, NEW row \in Event,
         NEW date \in Dates, NEW recurring \in BOOLEAN, WriteNext(e, row, date, recurring)
  PROVE  /\ event' \in [Events -> Event]
         /\ SameRow(event'[e], row) /\ event'[e].next = NextOccurrence(date, recurring, day)
         /\ \A f \in Events \ {e} : event'[f] = event[f]
         /\ fresh' = fresh \ {e}
         /\ overtaken' = IF date = row.date /\ recurring = row.recurring
                         THEN overtaken \ {e} ELSE overtaken \cup {e}
<1> DEFINE next == NextOccurrence(date, recurring, day)
           g == [row EXCEPT !.next = next]
<1>1. next \in Int
  BY NextIsADay
<1>2. event' = [event EXCEPT ![e] = g] /\ fresh' = fresh \ {e}
  BY DEF WriteNext, Write
<1>3. overtaken' = IF date = row.date /\ recurring = row.recurring
                   THEN overtaken \ {e} ELSE overtaken \cup {e}
  BY DEF WriteNext
<1> HIDE DEF next
<1>4. g \in Event /\ SameRow(g, row) /\ g.next = next
  BY <1>1, NextOnly
<1> HIDE DEF g
<1>5. event' \in [Events -> Event] /\ event'[e] = g /\ \A f \in Events \ {e} : event'[f] = event[f]
  BY <1>2, <1>4, OneEvent
<1> QED
  BY <1>2, <1>3, <1>4, <1>5 DEF next

LEMMA NewRowIsARow ==
  ASSUME NEW auto \in BOOLEAN, NEW recurring \in BOOLEAN, NEW date \in Dates, NEW g,
         g = NewRow(auto, recurring, date)
  PROVE  /\ g \in Event /\ g.pc = "live" /\ g.auto = auto /\ g.recurring = recurring /\ g.date = date
         /\ g.modified = FALSE /\ g.marked = FALSE
BY DEF NewRow, Event

LEMMA DateOnly ==
  ASSUME NEW f \in Event, NEW date \in Dates, NEW g, g = [f EXCEPT !.date = date]
  PROVE  /\ g \in Event /\ g.pc = f.pc /\ g.auto = f.auto /\ g.recurring = f.recurring /\ g.date = date
         /\ g.modified = f.modified /\ g.marked = f.marked
BY DEF Event

LEMMA MarkedOnly ==
  ASSUME NEW f \in Event, NEW g, g = [f EXCEPT !.marked = TRUE]
  PROVE  /\ g \in Event /\ g.pc = f.pc /\ g.auto = f.auto /\ g.recurring = f.recurring /\ g.date = f.date
         /\ g.modified = f.modified /\ g.marked = TRUE /\ g.next = f.next
BY DEF Event

LEMMA GoneOnly ==
  ASSUME NEW f \in Event, NEW g, g = [f EXCEPT !.pc = "gone"]
  PROVE  g \in Event /\ g.pc = "gone" /\ g.auto = f.auto
BY DEF Event

\* The row that an update writes, but for its next day.
LEMMA ChangedIsARow ==
  ASSUME NEW q \in Change, event \in [Events -> Event], q.event \in Events, NEW g, g = ChangedRow(q)
  PROVE  LET f == event[q.event] IN
         /\ g \in Event /\ g.pc = f.pc /\ g.auto = f.auto /\ g.marked = f.marked /\ g.next = f.next
         /\ g.modified = (f.modified \/ q.auto)
         /\ g.date = IF "date" \in q.given THEN q.date ELSE f.date
         /\ g.recurring = IF "recurring" \in q.given THEN q.recurring ELSE f.recurring
<1> DEFINE f == event[q.event]
           modified == f.modified \/ q.auto
           date == IF "date" \in q.given THEN q.date ELSE f.date
           recurring == IF "recurring" \in q.given THEN q.recurring ELSE f.recurring
<1>1. f \in Event
  OBVIOUS
<1>2. modified \in BOOLEAN
  BY Zenon
<1>3. date \in Dates
  BY <1>1 DEF Event, Change
<1>4. recurring \in BOOLEAN
  BY <1>1 DEF Event, Change
<1>5. g = [f EXCEPT !.modified = modified, !.date = date, !.recurring = recurring]
  BY <1>1 DEF ChangedRow, Event
<1> HIDE DEF modified, date, recurring, f
<1>6. g = [pc |-> f.pc, auto |-> f.auto, modified |-> modified, marked |-> f.marked,
           recurring |-> recurring, date |-> date, next |-> f.next]
  BY <1>1, <1>5 DEF Event
<1>7. f.pc \in {"new", "live", "gone"} /\ f.auto \in BOOLEAN /\ f.marked \in BOOLEAN /\ f.next \in Int
  BY <1>1 DEF Event
<1>8. g \in Event
  BY <1>2, <1>3, <1>4, <1>6, <1>7 DEF Event
<1>9. /\ g.pc = f.pc /\ g.auto = f.auto /\ g.marked = f.marked /\ g.next = f.next
      /\ g.modified = modified /\ g.date = date /\ g.recurring = recurring
  BY <1>6
<1> QED
  BY <1>8, <1>9 DEF modified, date, recurring, f

-----------------------------------------------------------------------------
(* What the steps do with saves and changes.                               *)

OnlySave(s) == save' \in [Saves -> Save] /\ \A t \in Saves \ {s} : save'[t] = save[t]

OnlyChange(u) ==
  /\ change' \in [Changes \cup Removals -> Change]
  /\ \A v \in (Changes \cup Removals) \ {u} : change'[v] = change[v]

LEMMA OneSave ==
  ASSUME save \in [Saves -> Save], NEW s \in Saves, NEW g \in Save, save' = [save EXCEPT ![s] = g]
  PROVE  OnlySave(s) /\ save'[s] = g
BY DEF OnlySave

LEMMA OneChange ==
  ASSUME change \in [Changes \cup Removals -> Change], NEW u \in Changes \cup Removals, NEW g \in Change,
         change' = [change EXCEPT ![u] = g]
  PROVE  OnlyChange(u) /\ change'[u] = g
BY DEF OnlyChange

LEMMA SaveStarts ==
  ASSUME CalendarShape, NEW s \in Saves, NEW date \in Dates \cup {NoDate}, PersonSave(s, date)
  PROVE  /\ OnlySave(s) /\ save'[s].pc = "find" /\ save'[s].date = date /\ birthday' = date
         /\ torn' = (torn \/ Saving # {})
<1>1. save \in [Saves -> Save] /\ save[s] \in Save
  BY DEF CalendarShape
<1>5. PICK g : g = [save[s] EXCEPT !.pc = "find", !.date = date]
  OBVIOUS
<1>2. save' = [save EXCEPT ![s] = g]
  BY <1>1, <1>5 DEF PersonSave
<1>3. g \in Save /\ g.pc = "find" /\ g.date = date
  BY <1>1, <1>5 DEF Save
<1>4. birthday' = date /\ torn' = (torn \/ Saving # {})
  BY DEF PersonSave
<1> QED
  BY <1>1, <1>2, <1>3, <1>4, OneSave

LEMMA SaveFinds ==
  ASSUME CalendarShape, NEW s \in Saves, SyncFind(s)
  PROVE  /\ OnlySave(s) /\ save[s].pc = "find" /\ save'[s].pc = "write" /\ save'[s].date = save[s].date
         /\ save'[s].found \in IF AutoEvents = {} THEN {NoEvent} ELSE AutoEvents
         /\ save'[s].found # NoEvent => /\ save'[s].modified = event[save'[s].found].modified
                                        /\ save'[s].marked = event[save'[s].found].marked
<1>1. save \in [Saves -> Save] /\ save[s] \in Save /\ event \in [Events -> Event]
  BY DEF CalendarShape
<1>2. PICK e \in IF AutoEvents = {} THEN {NoEvent} ELSE AutoEvents :
        save' = [save EXCEPT ![s] = [@ EXCEPT !.pc = "write", !.found = e,
                   !.modified = e # NoEvent /\ event[e].modified,
                   !.marked = e # NoEvent /\ event[e].marked]]
  BY DEF SyncFind
<1> DEFINE modified == e # NoEvent /\ event[e].modified
           marked == e # NoEvent /\ event[e].marked
<1>3. e \in Events \cup {NoEvent}
  BY <1>2 DEF AutoEvents
<1>4. modified \in BOOLEAN /\ marked \in BOOLEAN
  BY Zenon
<1>10. PICK g : g = [save[s] EXCEPT !.pc = "write", !.found = e, !.modified = modified, !.marked = marked]
  OBVIOUS
<1>5. save' = [save EXCEPT ![s] = g]
  BY <1>1, <1>2, <1>10
<1>6. e # NoEvent => modified = event[e].modified /\ marked = event[e].marked
  <2>1. ASSUME e # NoEvent PROVE event[e].modified \in BOOLEAN /\ event[e].marked \in BOOLEAN
    BY <1>1, <1>3, <2>1 DEF Event
  <2> QED
    BY <2>1
<1> HIDE DEF modified, marked
<1>7. g \in Save /\ g.pc = "write" /\ g.found = e /\ g.modified = modified /\ g.marked = marked /\ g.date = save[s].date
  BY <1>1, <1>3, <1>4, <1>10 DEF Save
<1>8. OnlySave(s) /\ save'[s] = g
  BY <1>1, <1>5, <1>7, OneSave
<1>9. save[s].pc = "find"
  BY DEF SyncFind
<1> QED
  BY <1>2, <1>6, <1>7, <1>8, <1>9

LEMMA SaveEnds ==
  ASSUME CalendarShape, NEW s \in Saves, SyncWrite(s)
  PROVE  OnlySave(s) /\ save[s].pc = "write" /\ save'[s].pc = "done" /\ save'[s] = NoSave("done")
<1>1. save \in [Saves -> Save]
  BY DEF CalendarShape
<1>2. save' = [save EXCEPT ![s] = NoSave("done")] /\ save[s].pc = "write"
  BY DEF SyncWrite
<1>3. NoSave("done").pc = "done"
  BY DEF NoSave
<1> QED
  BY <1>1, <1>2, <1>3, NoRecordsAreRecords, OneSave

LEMMA ChangeOfPc ==
  ASSUME NEW q \in Change, NEW pc \in {"new", "clear", "write", "mark", "delete", "done"}, NEW g,
         g = [q EXCEPT !.pc = pc]
  PROVE  g \in Change /\ g.pc = pc /\ g.event = q.event /\ g.auto = q.auto /\ g.given = q.given
         /\ g.date = q.date /\ g.recurring = q.recurring
BY DEF Change

LEMMA ChangeMoves ==
  ASSUME CalendarShape, NEW u \in Changes \cup Removals,
         NEW pc \in {"new", "clear", "write", "mark", "delete", "done"}, ChangeGoes(u, pc)
  PROVE  OnlyChange(u) /\ change'[u].pc = pc /\ change'[u].event = change[u].event /\ change'[u].auto = change[u].auto
<1> DEFINE g == [change[u] EXCEPT !.pc = pc]
<1>1. change \in [Changes \cup Removals -> Change] /\ change[u] \in Change
  BY DEF CalendarShape
<1>2. change' = [change EXCEPT ![u] = g]
  BY <1>1 DEF ChangeGoes
<1>3. g \in Change /\ g.pc = pc /\ g.event = change[u].event /\ g.auto = change[u].auto
  BY <1>1, ChangeOfPc
<1> HIDE DEF g
<1> QED
  BY <1>1, <1>2, <1>3, OneChange

LEMMA UpdateReads ==
  ASSUME CalendarShape, NEW u \in Changes, NEW e \in Events, NEW given \in SUBSET {"date", "recurring"},
         NEW date \in Dates, NEW recurring \in BOOLEAN, ChangeRead(u, e, given, date, recurring)
  PROVE  OnlyChange(u) /\ change'[u].event = e /\ change'[u].auto = event[e].auto /\ Live(e)
<1> DEFINE pc == IF "date" \in given THEN "clear" ELSE "write"
           g == [pc |-> pc, event |-> e, auto |-> event[e].auto, given |-> given, date |-> date,
                 recurring |-> recurring]
<1>1. change \in [Changes \cup Removals -> Change] /\ event[e] \in Event
  BY DEF CalendarShape
<1>2. change' = [change EXCEPT ![u] = g] /\ Live(e)
  BY DEF ChangeRead
<1>3. pc \in {"clear", "write"} /\ event[e].auto \in BOOLEAN
  BY <1>1 DEF Event
<1> HIDE DEF pc
<1>4. g \in Change /\ g.event = e /\ g.auto = event[e].auto
  BY <1>3 DEF Change
<1> HIDE DEF g
<1> QED
  BY <1>1, <1>2, <1>4, OneChange

LEMMA RemovalReads ==
  ASSUME CalendarShape, NEW x \in Removals, NEW e \in Events, RemoveRead(x, e)
  PROVE  OnlyChange(x) /\ change'[x].event = e /\ change'[x].auto = event[e].auto /\ Live(e)
<1> DEFINE pc == IF event[e].auto THEN "mark" ELSE "delete"
           auto == event[e].auto
<1>1. change \in [Changes \cup Removals -> Change] /\ change[x] \in Change /\ event[e] \in Event
  BY DEF CalendarShape
<1>5. PICK g : g = [change[x] EXCEPT !.pc = pc, !.event = e, !.auto = auto]
  OBVIOUS
<1>2. change' = [change EXCEPT ![x] = g] /\ Live(e)
  BY <1>1, <1>5 DEF RemoveRead
<1>3. pc \in {"mark", "delete"} /\ auto \in BOOLEAN
  BY <1>1 DEF Event
<1> HIDE DEF pc, auto
<1>4. g \in Change /\ g.event = e /\ g.auto = auto
  BY <1>1, <1>3, <1>5 DEF Change
<1> QED
  BY <1>1, <1>2, <1>4, OneChange DEF auto

LEMMA UpdateEnds ==
  ASSUME CalendarShape, NEW u \in Changes, ChangeWrite(u)
  PROVE  OnlyChange(u) /\ change[u].pc = "write" /\ change'[u].pc = "done"
<1>1. change \in [Changes \cup Removals -> Change]
  BY DEF CalendarShape
<1>2. change' = [change EXCEPT ![u] = NoChange("done")] /\ change[u].pc = "write"
  BY DEF ChangeWrite
<1>3. NoChange("done").pc = "done"
  BY DEF NoChange
<1> QED
  BY <1>1, <1>2, <1>3, NoRecordsAreRecords, OneChange

-----------------------------------------------------------------------------
(* Types are kept, and what saves and changes know.                        *)

SameJobs == UNCHANGED <<day, missed, refresh, remind>>

LEMMA ChangesGoOn ==
  ASSUME CalendarKnows, RowsStay, UNCHANGED change
  PROVE  ChangesKnow'
BY DEF CalendarKnows, CalendarShape, ChangesKnow, RowsStay

LEMMA SavesGoOn ==
  ASSUME CalendarKnows, RowsStay, UNCHANGED save
  PROVE  SavesKnow'
BY DEF CalendarKnows, CalendarShape, SavesKnow, RowsStay

LEMMA SameRowsStay == CalendarShape /\ UNCHANGED event => RowsStay
BY DEF CalendarShape, RowsStay

\* One change goes on, about the event that it has or that it has just read.
LEMMA ChangeKnows ==
  ASSUME CalendarKnows, RowsStay, NEW u \in Changes \cup Removals, OnlyChange(u),
         \/ change'[u].pc = "done"
         \/ /\ change[u].pc \notin {"new", "done"}
            /\ change'[u].event = change[u].event /\ change'[u].auto = change[u].auto
         \/ /\ change'[u].event \in Events /\ Live(change'[u].event)
            /\ change'[u].auto = event[change'[u].event].auto
  PROVE  ChangesKnow'
BY DEF CalendarKnows, CalendarShape, ChangesKnow, RowsStay, OnlyChange, Live

LEMMA SaveKnows ==
  ASSUME CalendarKnows, RowsStay, NEW s \in Saves, OnlySave(s),
         save'[s].pc = "write" /\ save'[s].found # NoEvent => save'[s].found \in AutoEvents
  PROVE  SavesKnow'
BY DEF CalendarKnows, CalendarShape, SavesKnow, RowsStay, OnlySave, AutoEvents, Live

LEMMA StaysNew ==
  ASSUME CalendarShape, NEW e \in Events, event[e].pc = "new", event' \in [Events -> Event],
         \A f \in Events \ {e} : event'[f] = event[f]
  PROVE  RowsStay
BY DEF CalendarShape, RowsStay

LEMMA StaysThere ==
  ASSUME CalendarShape, NEW e \in Events, event' \in [Events -> Event], event'[e].pc # "new",
         event'[e].auto = event[e].auto, \A f \in Events \ {e} : event'[f] = event[f]
  PROVE  RowsStay
BY DEF CalendarShape, RowsStay

LEMMA DropsTheRow ==
  ASSUME CalendarShape, NEW e \in Events, DropEvent(e)
  PROVE  /\ event' \in [Events -> Event] /\ event'[e].pc = "gone" /\ event'[e].auto = event[e].auto
         /\ \A f \in Events \ {e} : event'[f] = event[f]
         /\ reminders' = {r \in reminders : r.event # e} /\ fresh' = fresh \ {e} /\ UNCHANGED overtaken
<1>1. PICK g : g = [event[e] EXCEPT !.pc = "gone"]
  OBVIOUS
<1>2. event \in [Events -> Event] /\ event[e] \in Event
  BY DEF CalendarShape
<1>3. g \in Event /\ g.pc = "gone" /\ g.auto = event[e].auto
  BY <1>1, <1>2 DEF Event
<1>4. event' = [event EXCEPT ![e] = g]
  BY <1>1 DEF DropEvent, Write
<1>5. event' \in [Events -> Event] /\ event'[e] = g /\ \A f \in Events \ {e} : event'[f] = event[f]
  BY <1>2, <1>3, <1>4, OneEvent
<1>6. reminders' = {r \in reminders : r.event # e} /\ fresh' = fresh \ {e} /\ UNCHANGED overtaken
  BY DEF DropEvent, Write
<1> QED
  BY <1>3, <1>5, <1>6

\* What the three ways to write an existing row do.
LEMMA SavesTheRow ==
  ASSUME CalendarShape, NEW e \in Events, NEW date \in Dates, Live(e),
         WriteNext(e, [event[e] EXCEPT !.date = date], date, TRUE)
  PROVE  /\ event' \in [Events -> Event] /\ event'[e].pc = "live" /\ event'[e].auto = event[e].auto
         /\ event'[e].date = date /\ event'[e].recurring = event[e].recurring
         /\ event'[e].modified = event[e].modified /\ event'[e].marked = event[e].marked
         /\ event'[e].next = NextOccurrence(date, TRUE, day)
         /\ \A f \in Events \ {e} : event'[f] = event[f]
         /\ fresh' = fresh \ {e}
         /\ overtaken' = IF event[e].recurring THEN overtaken \ {e} ELSE overtaken \cup {e}
<1>1. PICK g : g = [event[e] EXCEPT !.date = date]
  OBVIOUS
<1>2. event \in [Events -> Event] /\ event[e] \in Event /\ day \in Nat
  BY DEF CalendarShape
<1>3. /\ g \in Event /\ g.pc = event[e].pc /\ g.auto = event[e].auto /\ g.recurring = event[e].recurring
      /\ g.date = date /\ g.modified = event[e].modified /\ g.marked = event[e].marked
  BY <1>1, <1>2 DEF Event
<1>4. WriteNext(e, g, date, TRUE)
  BY <1>1
<1>5. /\ event' \in [Events -> Event]
      /\ SameRow(event'[e], g) /\ event'[e].next = NextOccurrence(date, TRUE, day)
      /\ \A f \in Events \ {e} : event'[f] = event[f]
      /\ fresh' = fresh \ {e}
      /\ overtaken' = IF date = g.date /\ TRUE = g.recurring THEN overtaken \ {e} ELSE overtaken \cup {e}
  BY <1>2, <1>3, <1>4, WritesNext
<1>6. event[e].recurring \in BOOLEAN
  BY <1>2 DEF Event
<1> QED
  BY <1>3, <1>5, <1>6 DEF SameRow, Live

LEMMA MakesTheRow ==
  ASSUME CalendarShape, NEW e \in Events, NEW auto \in BOOLEAN, NEW recurring \in BOOLEAN, NEW date \in Dates,
         WriteNext(e, NewRow(auto, recurring, date), date, recurring)
  PROVE  /\ event' \in [Events -> Event] /\ event'[e].pc = "live" /\ event'[e].auto = auto
         /\ event'[e].date = date /\ event'[e].recurring = recurring
         /\ event'[e].modified = FALSE /\ event'[e].marked = FALSE
         /\ event'[e].next = NextOccurrence(date, recurring, day)
         /\ \A f \in Events \ {e} : event'[f] = event[f]
         /\ fresh' = fresh \ {e} /\ overtaken' = overtaken \ {e}
<1>1. PICK g : g = NewRow(auto, recurring, date)
  OBVIOUS
<1>2. event \in [Events -> Event] /\ day \in Nat
  BY DEF CalendarShape
<1>3. /\ g \in Event /\ g.pc = "live" /\ g.auto = auto /\ g.recurring = recurring /\ g.date = date
      /\ g.modified = FALSE /\ g.marked = FALSE
  BY <1>1 DEF NewRow, Event
<1>4. WriteNext(e, g, date, recurring)
  BY <1>1
<1>5. /\ event' \in [Events -> Event]
      /\ SameRow(event'[e], g) /\ event'[e].next = NextOccurrence(date, recurring, day)
      /\ \A f \in Events \ {e} : event'[f] = event[f]
      /\ fresh' = fresh \ {e}
      /\ overtaken' = IF date = g.date /\ recurring = g.recurring THEN overtaken \ {e} ELSE overtaken \cup {e}
  BY <1>2, <1>3, <1>4, WritesNext
<1> QED
  BY <1>3, <1>5 DEF SameRow

LEMMA MarksTheRow ==
  ASSUME CalendarShape, NEW e \in Events, Live(e), Write(e, [event[e] EXCEPT !.marked = TRUE])
  PROVE  /\ event' \in [Events -> Event] /\ event'[e].pc = "live" /\ event'[e].auto = event[e].auto
         /\ event'[e].date = event[e].date /\ event'[e].recurring = event[e].recurring
         /\ event'[e].modified = event[e].modified /\ event'[e].marked = TRUE
         /\ event'[e].next = event[e].next
         /\ \A f \in Events \ {e} : event'[f] = event[f]
         /\ fresh' = fresh \ {e}
<1>1. PICK g : g = [event[e] EXCEPT !.marked = TRUE]
  OBVIOUS
<1>2. event \in [Events -> Event] /\ event[e] \in Event
  BY DEF CalendarShape
<1>3. /\ g \in Event /\ g.pc = event[e].pc /\ g.auto = event[e].auto /\ g.recurring = event[e].recurring
      /\ g.date = event[e].date /\ g.modified = event[e].modified /\ g.marked = TRUE /\ g.next = event[e].next
  BY <1>1, <1>2 DEF Event
<1>4. event' = [event EXCEPT ![e] = g] /\ fresh' = fresh \ {e}
  BY <1>1 DEF Write
<1>5. event' \in [Events -> Event] /\ event'[e] = g /\ \A f \in Events \ {e} : event'[f] = event[f]
  BY <1>2, <1>3, <1>4, OneEvent
<1> QED
  BY <1>3, <1>4, <1>5 DEF Live

\* An update of a row that is there.
RowIsUpdated(u) ==
  LET q == change[u] e == change[u].event IN
  /\ event' \in [Events -> Event] /\ event'[e].pc = "live" /\ event'[e].auto = event[e].auto
  /\ event'[e].modified = (event[e].modified \/ q.auto) /\ event'[e].marked = event[e].marked
  /\ event'[e].date = IF "date" \in q.given THEN q.date ELSE event[e].date
  /\ event'[e].recurring = IF "recurring" \in q.given THEN q.recurring ELSE event[e].recurring
  /\ \A f \in Events \ {e} : event'[f] = event[f]
  /\ fresh' = fresh \ {e}
  /\ \/ q.given = {} /\ event'[e].next = event[e].next /\ UNCHANGED overtaken
     \/ /\ q.given # {} /\ event'[e].next = NextOccurrence(q.date, q.recurring, day)
        /\ overtaken' = IF q.date = event'[e].date /\ q.recurring = event'[e].recurring
                        THEN overtaken \ {e} ELSE overtaken \cup {e}

LEMMA UpdatesTheRow ==
  ASSUME CalendarKnows, NEW u \in Changes, ChangeWrite(u), Live(change[u].event)
  PROVE  RowIsUpdated(u)
<1> DEFINE q == change[u]
           e == q.event
<1>1. PICK g : g = ChangedRow(q)
  OBVIOUS
<1>2. event \in [Events -> Event] /\ day \in Nat /\ q \in Change
  BY DEF CalendarKnows, CalendarShape
<1>3. e \in Events
  BY DEF CalendarKnows, ChangesKnow, ChangeWrite
<1>4. /\ g \in Event /\ g.pc = event[e].pc /\ g.auto = event[e].auto /\ g.marked = event[e].marked
      /\ g.next = event[e].next /\ g.modified = (event[e].modified \/ q.auto)
      /\ g.date = IF "date" \in q.given THEN q.date ELSE event[e].date
      /\ g.recurring = IF "recurring" \in q.given THEN q.recurring ELSE event[e].recurring
  BY <1>1, <1>2, <1>3, ChangedIsARow
<1>5. \/ q.given = {} /\ Write(e, g) /\ UNCHANGED overtaken
      \/ q.given # {} /\ WriteNext(e, g, q.date, q.recurring)
  BY <1>1 DEF ChangeWrite
<1>6. q.date \in Dates /\ q.recurring \in BOOLEAN
  BY <1>2 DEF Change
<1>7. g.pc = "live"
  BY <1>4 DEF Live
<1>8. CASE q.given = {} /\ Write(e, g) /\ UNCHANGED overtaken
  <2>1. event' = [event EXCEPT ![e] = g] /\ fresh' = fresh \ {e}
    BY <1>8 DEF Write
  <2>2. event' \in [Events -> Event] /\ event'[e] = g /\ \A f \in Events \ {e} : event'[f] = event[f]
    BY <1>2, <1>3, <1>4, <2>1, OneEvent
  <2> QED
    BY <1>4, <1>7, <1>8, <2>1, <2>2 DEF RowIsUpdated
<1>9. CASE q.given # {} /\ WriteNext(e, g, q.date, q.recurring)
  <2>1. /\ event' \in [Events -> Event]
        /\ SameRow(event'[e], g) /\ event'[e].next = NextOccurrence(q.date, q.recurring, day)
        /\ \A f \in Events \ {e} : event'[f] = event[f]
        /\ fresh' = fresh \ {e}
        /\ overtaken' = IF q.date = g.date /\ q.recurring = g.recurring
                        THEN overtaken \ {e} ELSE overtaken \cup {e}
    BY <1>2, <1>3, <1>4, <1>6, <1>9, WritesNext
  <2> QED
    BY <1>4, <1>7, <1>9, <2>1 DEF RowIsUpdated, SameRow
<1> QED
  BY <1>5, <1>8, <1>9

\* The 1 am job's transaction, when no row of it has gone.
Refreshed(e) ==
  /\ SameRow(event'[e], event[e])
  /\ \/ /\ \A row \in refresh.rows : row[1] # e
        /\ event'[e] = event[e]
     \/ \E row \in refresh.rows : row[1] = e /\ event'[e].next = NextOccurrence(row[2], TRUE, day)

LEMMA RefreshesTheRows ==
  ASSUME CalendarShape, RefreshWrite, refresh'.pc = "done"
  PROVE  event' \in [Events -> Event] /\ \A e \in Events : Refreshed(e)
<1>1. event' = [e \in Events |->
               IF \E row \in refresh.rows : row[1] = e
               THEN [event[e] EXCEPT !.next = NextOccurrence(
                       (CHOOSE row \in refresh.rows : row[1] = e)[2], TRUE, day)]
               ELSE event[e]]
  <2>1. \A row \in refresh.rows : Live(row[1])
    <3>1. ASSUME ~(\A row \in refresh.rows : Live(row[1])) PROVE FALSE
      <4>1. refresh' = [pc |-> "failed", rows |-> {}]
        BY <3>1, Zenon DEF RefreshWrite
      <4> QED
        BY <4>1
    <3> QED
      BY <3>1
  <2> QED
    BY <2>1, Zenon DEF RefreshWrite
<1>2. /\ event \in [Events -> Event] /\ day \in Nat /\ refresh.rows \subseteq Events \X Dates
  BY DEF CalendarShape, Shift
<1>3. ASSUME NEW e \in Events PROVE event'[e] \in Event /\ Refreshed(e)
  <2>1. CASE \A row \in refresh.rows : row[1] # e
    <3>1. event'[e] = event[e]
      BY <1>1, <2>1
    <3> QED
      BY <1>2, <2>1, <3>1 DEF Refreshed, SameRow
  <2>2. CASE \E row \in refresh.rows : row[1] = e
    <3> DEFINE row == CHOOSE r \in refresh.rows : r[1] = e
               next == NextOccurrence(row[2], TRUE, day)
    <3>1. row \in refresh.rows /\ row[1] = e
      BY <2>2
    <3>2. event'[e] = [event[e] EXCEPT !.next = next]
      BY <1>1, <2>2
    <3> HIDE DEF row
    <3>3. row[2] \in Dates
      BY <1>2, <3>1
    <3>4. next \in Int
      BY <1>2, <3>3, NextIsADay
    <3> HIDE DEF next
    <3>5. event'[e] \in Event /\ SameRow(event'[e], event[e]) /\ event'[e].next = next
      BY <1>2, <3>2, <3>4, NextOnly
    <3> QED
      BY <3>1, <3>5 DEF Refreshed, next
  <2> QED
    BY <2>1, <2>2
<1>4. event' \in [Events -> Event]
  BY <1>1, <1>3
<1> QED
  BY <1>3, <1>4

LEMMA CalendarStarts == CalendarInit => CalendarKnows
<1> SUFFICES ASSUME CalendarInit PROVE CalendarKnows
  OBVIOUS
<1>1. SomeDate \in Dates
  BY CalendarAssumption DEF SomeDate
<1>2. event \in [Events -> Event]
  BY <1>1 DEF CalendarInit, Event
<1>3. save \in [Saves -> Save] /\ \A s \in Saves : save[s].pc = "new"
  BY NoRecordsAreRecords DEF CalendarInit, NoSave
<1>4. change \in [Changes \cup Removals -> Change] /\ \A u \in Changes \cup Removals : change[u].pc = "new"
  BY NoRecordsAreRecords DEF CalendarInit, NoChange
<1>5. refresh \in Shift(Events \X Dates) /\ remind \in Shift(Reminder)
  BY DEF CalendarInit, Shift
<1>6. CalendarShape
  BY <1>2, <1>3, <1>4, <1>5 DEF CalendarInit, CalendarShape
<1> QED
  BY <1>3, <1>4, <1>6 DEF CalendarKnows, ChangesKnow, SavesKnow

LEMMA KnowsCreate ==
  ASSUME CalendarKnows, NEW e \in Events, NEW recurring \in BOOLEAN, NEW date \in Dates,
         EventCreate(e, recurring, date)
  PROVE  CalendarKnows' /\ RowsStay
<1>1. /\ event[e].pc = "new" /\ WriteNext(e, NewRow(FALSE, recurring, date), date, recurring)
      /\ UNCHANGED <<day, birthday, reminders, save, change, refresh, remind, torn, missed, crashes>>
  BY DEF EventCreate
<1>2. event' \in [Events -> Event] /\ \A f \in Events \ {e} : event'[f] = event[f]
  BY <1>1, MakesTheRow DEF CalendarKnows
<1>3. RowsStay
  BY <1>1, <1>2, StaysNew DEF CalendarKnows
<1>4. CalendarShape'
  BY <1>1, <1>2 DEF CalendarKnows, CalendarShape
<1> QED
  BY <1>1, <1>3, <1>4, ChangesGoOn, SavesGoOn DEF CalendarKnows

LEMMA KnowsPersonSave ==
  ASSUME CalendarKnows, NEW s \in Saves, NEW date \in Dates \cup {NoDate}, PersonSave(s, date)
  PROVE  CalendarKnows' /\ RowsStay
<1>1. UNCHANGED <<day, event, reminders, change, refresh, remind, missed>> /\ birthday' = date
  BY DEF PersonSave
<1>2. OnlySave(s) /\ save'[s].pc = "find"
  BY SaveStarts DEF CalendarKnows
<1>3. RowsStay
  BY <1>1, SameRowsStay DEF CalendarKnows
<1>4. CalendarShape'
  BY <1>1, <1>2 DEF CalendarKnows, CalendarShape, OnlySave
<1> QED
  BY <1>1, <1>2, <1>3, <1>4, ChangesGoOn, SaveKnows DEF CalendarKnows

LEMMA KnowsFind ==
  ASSUME CalendarKnows, NEW s \in Saves, SyncFind(s)
  PROVE  CalendarKnows' /\ RowsStay
<1>1. UNCHANGED <<day, birthday, event, reminders, change, refresh, remind, missed>>
  BY DEF SyncFind
<1>2. OnlySave(s) /\ save'[s].found \in IF AutoEvents = {} THEN {NoEvent} ELSE AutoEvents
  BY SaveFinds DEF CalendarKnows
<1>3. RowsStay
  BY <1>1, SameRowsStay DEF CalendarKnows
<1>4. CalendarShape'
  BY <1>1, <1>2 DEF CalendarKnows, CalendarShape, OnlySave
<1> QED
  BY <1>1, <1>2, <1>3, <1>4, ChangesGoOn, SaveKnows DEF CalendarKnows

LEMMA KnowsSync ==
  ASSUME CalendarKnows, NEW s \in Saves, SyncWrite(s)
  PROVE  CalendarKnows' /\ RowsStay
<1> DEFINE q == save[s]
<1>1. UNCHANGED <<day, birthday, change, refresh, remind, missed>>
  BY DEF SyncWrite
<1>2. OnlySave(s) /\ q.pc = "write" /\ save'[s].pc = "done"
  BY SaveEnds DEF CalendarKnows
<1>3. q.found # NoEvent => q.found \in Events /\ event[q.found].pc # "new"
  BY <1>2 DEF CalendarKnows, SavesKnow
<1>4. q.date \in Dates \cup {NoDate} /\ event \in [Events -> Event] /\ reminders \subseteq Reminder
  BY DEF CalendarKnows, CalendarShape, Save
<1>5. RowsStay /\ event' \in [Events -> Event] /\ reminders' \subseteq Reminder
  <2>1. ASSUME NEW e \in Events, event[e].pc = "new", WriteNext(e, NewRow(TRUE, TRUE, q.date), q.date, TRUE),
               q.date # NoDate, UNCHANGED reminders
        PROVE  RowsStay /\ event' \in [Events -> Event] /\ reminders' \subseteq Reminder
    <3>1. event' \in [Events -> Event] /\ \A f \in Events \ {e} : event'[f] = event[f]
      BY <1>4, <2>1, MakesTheRow DEF CalendarKnows
    <3> QED
      BY <1>4, <2>1, <3>1, StaysNew DEF CalendarKnows
  <2>2. CASE UNCHANGED <<event, reminders>>
    BY <1>4, <2>2, SameRowsStay DEF CalendarKnows
  <2>3. CASE q.found # NoEvent /\ Live(q.found) /\ DropEvent(q.found)
    <3>1. /\ event' \in [Events -> Event] /\ event'[q.found].pc = "gone"
          /\ event'[q.found].auto = event[q.found].auto
          /\ \A f \in Events \ {q.found} : event'[f] = event[f]
          /\ reminders' = {r \in reminders : r.event # q.found}
      BY <1>3, <2>3, DropsTheRow DEF CalendarKnows
    <3>2. RowsStay
      BY <1>3, <2>3, <3>1, StaysThere DEF CalendarKnows
    <3> QED
      BY <1>4, <3>1, <3>2
  <2>4. CASE /\ q.found # NoEvent /\ Live(q.found) /\ q.date # NoDate
             /\ WriteNext(q.found, [event[q.found] EXCEPT !.date = q.date], q.date, TRUE)
             /\ UNCHANGED reminders
    <3>1. /\ event' \in [Events -> Event] /\ event'[q.found].pc = "live"
          /\ event'[q.found].auto = event[q.found].auto
          /\ \A f \in Events \ {q.found} : event'[f] = event[f]
      BY <1>3, <1>4, <2>4, SavesTheRow DEF CalendarKnows
    <3>2. RowsStay
      BY <1>3, <2>4, <3>1, StaysThere DEF CalendarKnows
    <3> QED
      BY <1>4, <2>4, <3>1, <3>2
  <2> QED
    BY <2>1, <2>2, <2>3, <2>4 DEF SyncWrite
<1>6. CalendarShape'
  BY <1>1, <1>2, <1>5 DEF CalendarKnows, CalendarShape, OnlySave
<1> QED
  BY <1>1, <1>2, <1>5, <1>6, ChangesGoOn, SaveKnows DEF CalendarKnows

LEMMA KnowsRead ==
  ASSUME CalendarKnows, NEW u \in Changes \cup Removals, OnlyChange(u),
         change'[u].event \in Events /\ Live(change'[u].event) /\ change'[u].auto = event[change'[u].event].auto,
         UNCHANGED <<day, birthday, event, reminders, save, refresh, remind, missed>>
  PROVE  CalendarKnows' /\ RowsStay
<1>1. RowsStay
  BY SameRowsStay DEF CalendarKnows
<1>2. CalendarShape'
  BY DEF CalendarKnows, CalendarShape, OnlyChange
<1> QED
  BY <1>1, <1>2, ChangeKnows, SavesGoOn DEF CalendarKnows

LEMMA KnowsClear ==
  ASSUME CalendarKnows, NEW u \in Changes, ChangeClear(u)
  PROVE  CalendarKnows' /\ RowsStay
<1>1. /\ change[u].pc = "clear" /\ reminders' \subseteq reminders /\ ChangeGoes(u, "write")
      /\ UNCHANGED <<day, birthday, event, save, refresh, remind, missed>>
  BY DEF ChangeClear
<1>2. OnlyChange(u) /\ change'[u].event = change[u].event /\ change'[u].auto = change[u].auto
  BY <1>1, ChangeMoves DEF CalendarKnows
<1>3. RowsStay
  BY <1>1, SameRowsStay DEF CalendarKnows
<1>4. CalendarShape'
  BY <1>1, <1>2 DEF CalendarKnows, CalendarShape, OnlyChange
<1> QED
  BY <1>1, <1>2, <1>3, <1>4, ChangeKnows, SavesGoOn DEF CalendarKnows

LEMMA KnowsWrite ==
  ASSUME CalendarKnows, NEW u \in Changes, ChangeWrite(u)
  PROVE  CalendarKnows' /\ RowsStay
<1>1. UNCHANGED <<day, birthday, reminders, save, refresh, remind, missed>>
  BY DEF ChangeWrite
<1>2. OnlyChange(u) /\ change[u].pc = "write" /\ change'[u].pc = "done"
  BY UpdateEnds DEF CalendarKnows
<1>3. change[u].event \in Events
  BY <1>2 DEF CalendarKnows, ChangesKnow
<1>4. RowsStay /\ event' \in [Events -> Event]
  <2>1. CASE Live(change[u].event)
    <3>1. RowIsUpdated(u)
      BY <2>1, UpdatesTheRow
    <3> QED
      BY <1>3, <3>1, StaysThere DEF CalendarKnows, RowIsUpdated
  <2>2. CASE ~Live(change[u].event)
    <3>1. UNCHANGED event
      BY <2>2 DEF ChangeWrite
    <3> QED
      BY <3>1, SameRowsStay DEF CalendarKnows, CalendarShape
  <2> QED
    BY <2>1, <2>2
<1>5. CalendarShape'
  BY <1>1, <1>2, <1>4 DEF CalendarKnows, CalendarShape, OnlyChange
<1> QED
  BY <1>1, <1>2, <1>4, <1>5, ChangeKnows, SavesGoOn DEF CalendarKnows

LEMMA KnowsMark ==
  ASSUME CalendarKnows, NEW x \in Removals, RemoveMark(x)
  PROVE  CalendarKnows' /\ RowsStay
<1> DEFINE e == change[x].event
<1>1. /\ change[x].pc = "mark"
      /\ UNCHANGED <<day, birthday, reminders, save, refresh, remind, missed>>
  BY DEF RemoveMark
<1>2. e \in Events
  BY <1>1 DEF CalendarKnows, ChangesKnow
<1>3. CASE Live(e)
  <2>1. Write(e, [event[e] EXCEPT !.marked = TRUE]) /\ ChangeGoes(x, "delete")
    BY <1>3 DEF RemoveMark
  <2>2. /\ event' \in [Events -> Event] /\ event'[e].pc = "live" /\ event'[e].auto = event[e].auto
        /\ \A f \in Events \ {e} : event'[f] = event[f]
    BY <1>2, <1>3, <2>1, MarksTheRow DEF CalendarKnows
  <2>3. RowsStay
    BY <1>2, <2>2, StaysThere DEF CalendarKnows
  <2>4. OnlyChange(x) /\ change'[x].event = e /\ change'[x].auto = change[x].auto
    BY <2>1, ChangeMoves DEF CalendarKnows
  <2>5. CalendarShape'
    BY <1>1, <2>2, <2>4 DEF CalendarKnows, CalendarShape, OnlyChange
  <2> QED
    BY <1>1, <2>3, <2>4, <2>5, ChangeKnows, SavesGoOn DEF CalendarKnows
<1>4. CASE ~Live(e)
  <2>1. ChangeGoes(x, "done") /\ UNCHANGED event
    BY <1>4 DEF RemoveMark
  <2>2. OnlyChange(x) /\ change'[x].pc = "done"
    BY <2>1, ChangeMoves DEF CalendarKnows
  <2>3. RowsStay
    BY <2>1, SameRowsStay DEF CalendarKnows
  <2>4. CalendarShape'
    BY <1>1, <2>1, <2>2 DEF CalendarKnows, CalendarShape, OnlyChange
  <2> QED
    BY <1>1, <2>2, <2>3, <2>4, ChangeKnows, SavesGoOn DEF CalendarKnows
<1> QED
  BY <1>3, <1>4

LEMMA KnowsDelete ==
  ASSUME CalendarKnows, NEW x \in Removals, RemoveDelete(x)
  PROVE  CalendarKnows' /\ RowsStay
<1> DEFINE e == change[x].event
<1>1. /\ change[x].pc = "delete" /\ ChangeGoes(x, "done")
      /\ IF Live(e) THEN DropEvent(e) ELSE UNCHANGED <<event, reminders, fresh, overtaken>>
      /\ UNCHANGED <<day, birthday, save, refresh, remind, missed>>
  BY DEF RemoveDelete
<1>2. e \in Events /\ event[e].pc # "new"
  BY <1>1 DEF CalendarKnows, ChangesKnow
<1>3. OnlyChange(x) /\ change'[x].pc = "done"
  BY <1>1, ChangeMoves DEF CalendarKnows
<1>4. RowsStay /\ event' \in [Events -> Event] /\ reminders' \subseteq Reminder
  <2>1. CASE DropEvent(e)
    <3>1. /\ event' \in [Events -> Event] /\ event'[e].pc = "gone" /\ event'[e].auto = event[e].auto
          /\ \A f \in Events \ {e} : event'[f] = event[f]
          /\ reminders' = {r \in reminders : r.event # e}
      BY <1>2, <2>1, DropsTheRow DEF CalendarKnows
    <3>2. RowsStay
      BY <1>2, <3>1, StaysThere DEF CalendarKnows
    <3> QED
      BY <3>1, <3>2 DEF CalendarKnows, CalendarShape
  <2>2. CASE UNCHANGED <<event, reminders>>
    BY <2>2, SameRowsStay DEF CalendarKnows, CalendarShape
  <2> QED
    BY <1>1, <2>1, <2>2
<1>5. CalendarShape'
  BY <1>1, <1>3, <1>4 DEF CalendarKnows, CalendarShape, OnlyChange
<1> QED
  BY <1>1, <1>3, <1>4, <1>5, ChangeKnows, SavesGoOn DEF CalendarKnows

LEMMA KnowsJobs ==
  ASSUME CalendarKnows, refresh' \in Shift(Events \X Dates), remind' \in Shift(Reminder), reminders' \subseteq Reminder,
         event' \in [Events -> Event], RowsStay, day' \in Nat, missed' \in Nat,
         UNCHANGED <<birthday, save, change>>
  PROVE  CalendarKnows'
<1>1. CalendarShape'
  BY DEF CalendarKnows, CalendarShape
<1> QED
  BY <1>1, ChangesGoOn, SavesGoOn DEF CalendarKnows

LEMMA KnowsRefreshRead ==
  ASSUME CalendarKnows, RefreshRead
  PROVE  CalendarKnows' /\ RowsStay
<1>1. /\ refresh' = [pc |-> "read",
                 rows |-> {<<e, event[e].date>> : e \in {f \in Events :
                             Live(f) /\ event[f].recurring /\ event[f].next < day}}]
      /\ UNCHANGED <<day, birthday, event, reminders, save, change, remind, missed>>
  BY DEF RefreshRead
<1>2. event \in [Events -> Event]
  BY DEF CalendarKnows, CalendarShape
<1>3. \A e \in Events : event[e].date \in Dates
  BY <1>2 DEF Event
<1>4. refresh' \in Shift(Events \X Dates)
  BY <1>1, <1>3 DEF Shift
<1>5. RowsStay
  BY <1>1, SameRowsStay DEF CalendarKnows
<1> QED
  BY <1>1, <1>4, <1>5, KnowsJobs DEF CalendarKnows, CalendarShape

LEMMA KnowsRefreshWrite ==
  ASSUME CalendarKnows, RefreshWrite
  PROVE  CalendarKnows' /\ RowsStay
<1>1. UNCHANGED <<day, birthday, reminders, save, change, remind, missed>>
  BY DEF RefreshWrite
<1>2. CASE refresh' = [pc |-> "done", rows |-> {}]
  <2>1. refresh' \in Shift(Events \X Dates) /\ refresh'.pc = "done"
    BY <1>2 DEF Shift
  <2>2. event' \in [Events -> Event] /\ \A e \in Events : SameRow(event'[e], event[e])
    BY <2>1, RefreshesTheRows DEF CalendarKnows, Refreshed
  <2>3. RowsStay
    BY <2>2 DEF RowsStay, SameRow
  <2> QED
    BY <1>1, <2>1, <2>2, <2>3, KnowsJobs DEF CalendarKnows, CalendarShape
<1>3. CASE refresh' = [pc |-> "failed", rows |-> {}] /\ UNCHANGED event
  <2>1. refresh' \in Shift(Events \X Dates)
    BY <1>3 DEF Shift
  <2>2. RowsStay
    BY <1>3, SameRowsStay DEF CalendarKnows
  <2> QED
    BY <1>1, <1>3, <2>1, <2>2, KnowsJobs DEF CalendarKnows, CalendarShape
<1> QED
  BY <1>2, <1>3, Zenon DEF RefreshWrite

\* The reminders that the 6 am job will insert.
LEMMA RowsToRemind ==
  ASSUME day \in Nat, NEW r,
         r \in {q \in [event : {e \in Events : Live(e) /\ event[e].next <= day + Horizon},
                       lead : Leads, on : day..(day + Horizon), dismissed : {FALSE}] :
                   q.on = event[q.event].next - q.lead}
  PROVE  r \in Reminder
<1>1. PICK e \in Events, l \in Leads, n \in day..(day + Horizon) :
        r = [event |-> e, lead |-> l, on |-> n, dismissed |-> FALSE]
  OBVIOUS
<1>2. n \in Int
  BY HorizonIsNatural
<1> QED
  BY <1>1, <1>2 DEF Reminder

LEMMA KnowsRemindRead ==
  ASSUME CalendarKnows, RemindRead
  PROVE  CalendarKnows' /\ RowsStay
<1> DEFINE rows == {r \in [event : {e \in Events : Live(e) /\ event[e].next <= day + Horizon},
                           lead : Leads, on : day..(day + Horizon), dismissed : {FALSE}] :
                       r.on = event[r.event].next - r.lead}
<1>1. /\ remind' = [pc |-> "read", rows |-> rows]
      /\ UNCHANGED <<day, birthday, event, reminders, save, change, refresh, missed>>
  BY DEF RemindRead
<1>2. \A r \in rows : r \in Reminder
  BY RowsToRemind DEF CalendarKnows, CalendarShape
<1> HIDE DEF rows
<1>3. remind' \in Shift(Reminder)
  BY <1>1, <1>2 DEF Shift
<1>4. RowsStay
  BY <1>1, SameRowsStay DEF CalendarKnows
<1> QED
  BY <1>1, <1>3, <1>4, KnowsJobs DEF CalendarKnows, CalendarShape

LEMMA KnowsRemindWrite ==
  ASSUME CalendarKnows, RemindWrite
  PROVE  CalendarKnows' /\ RowsStay
<1>1. UNCHANGED <<day, birthday, event, save, change, refresh, missed>>
  BY DEF RemindWrite
<1>2. remind' = [pc |-> "done", rows |-> {}] \/ remind' = [pc |-> "failed", rows |-> {}]
  BY DEF RemindWrite
<1>3. remind' \in Shift(Reminder)
  BY <1>2 DEF Shift
<1>4. reminders' \subseteq reminders \cup remind.rows
  BY DEF RemindWrite
<1>5. reminders' \subseteq Reminder
  BY <1>4 DEF CalendarKnows, CalendarShape, Shift
<1>6. RowsStay
  BY <1>1, SameRowsStay DEF CalendarKnows
<1> QED
  BY <1>1, <1>3, <1>5, <1>6, KnowsJobs DEF CalendarKnows, CalendarShape

LEMMA KnowsDismiss ==
  ASSUME CalendarKnows, NEW r \in reminders, Dismiss(r)
  PROVE  CalendarKnows' /\ RowsStay
<1>1. /\ reminders' = (reminders \ {r}) \cup {[r EXCEPT !.dismissed = TRUE]}
      /\ UNCHANGED <<day, birthday, event, save, change, refresh, remind, missed>>
  BY DEF Dismiss
<1>2. r \in Reminder
  BY DEF CalendarKnows, CalendarShape
<1>3. [r EXCEPT !.dismissed = TRUE] \in Reminder
  BY <1>2 DEF Reminder
<1>4. reminders' \subseteq Reminder
  BY <1>1, <1>3 DEF CalendarKnows, CalendarShape
<1>5. RowsStay
  BY <1>1, SameRowsStay DEF CalendarKnows
<1> QED
  BY <1>1, <1>4, <1>5, KnowsJobs DEF CalendarKnows, CalendarShape

LEMMA KnowsNextDay ==
  ASSUME CalendarKnows, NextDay
  PROVE  CalendarKnows' /\ RowsStay
<1>1. /\ day' = day + 1 /\ missed' = Missed
      /\ refresh' = [pc |-> "due", rows |-> {}] /\ remind' = [pc |-> "due", rows |-> {}]
      /\ UNCHANGED <<birthday, event, reminders, save, change>>
  BY DEF NextDay
<1>2. day' \in Nat /\ missed' \in Nat
  BY <1>1 DEF CalendarKnows, CalendarShape, Missed
<1>3. refresh' \in Shift(Events \X Dates) /\ remind' \in Shift(Reminder)
  BY <1>1 DEF Shift
<1>4. RowsStay
  BY <1>1, SameRowsStay DEF CalendarKnows
<1> QED
  BY <1>1, <1>2, <1>3, <1>4, KnowsJobs DEF CalendarKnows, CalendarShape

LEMMA KnowsRestart ==
  ASSUME CalendarKnows, CalendarRestart
  PROVE  CalendarKnows' /\ RowsStay
<1>1. /\ save' = [s \in Saves |-> IF s \in Saving THEN NoSave("done") ELSE save[s]]
      /\ change' = [u \in DOMAIN change |->
                      IF u \in Changing THEN [change[u] EXCEPT !.pc = "done"] ELSE change[u]]
      /\ refresh' = IF refresh.pc = "done" THEN refresh ELSE [pc |-> "failed", rows |-> {}]
      /\ remind' = IF remind.pc = "done" THEN remind ELSE [pc |-> "failed", rows |-> {}]
      /\ UNCHANGED <<day, birthday, event, reminders, missed>>
  BY DEF CalendarRestart
<1>2. CalendarShape
  BY DEF CalendarKnows
<1>3. save' \in [Saves -> Save] /\ \A s \in Saves : save'[s].pc = "write" => save'[s] = save[s]
  <2>1. NoSave("done").pc = "done"
    BY DEF NoSave
  <2> QED
    BY <1>1, <1>2, <2>1, NoRecordsAreRecords DEF CalendarShape
<1>4. /\ change' \in [Changes \cup Removals -> Change]
      /\ \A u \in Changes \cup Removals : change'[u].pc \notin {"new", "done"} => change'[u] = change[u]
  <2>1. \A u \in Changes \cup Removals : change[u] \in Change
    BY <1>2 DEF CalendarShape
  <2>2. \A u \in Changes \cup Removals :
          [change[u] EXCEPT !.pc = "done"] \in Change /\ [change[u] EXCEPT !.pc = "done"].pc = "done"
    BY <2>1 DEF Change
  <2>3. DOMAIN change = Changes \cup Removals
    BY <1>2 DEF CalendarShape
  <2>4. change' = [u \in Changes \cup Removals |->
                     IF u \in Changing THEN [change[u] EXCEPT !.pc = "done"] ELSE change[u]]
    BY <1>1, <2>3
  <2> QED
    BY <2>1, <2>2, <2>4
<1>5. refresh' \in Shift(Events \X Dates) /\ remind' \in Shift(Reminder)
  BY <1>1, <1>2 DEF CalendarShape, Shift
<1>6. RowsStay
  BY <1>1, <1>2, SameRowsStay
<1>7. CalendarShape'
  BY <1>1, <1>2, <1>3, <1>4, <1>5 DEF CalendarShape
<1>8. ChangesKnow'
  BY <1>1, <1>4 DEF CalendarKnows, ChangesKnow
<1>9. SavesKnow'
  BY <1>1, <1>3 DEF CalendarKnows, SavesKnow
<1> QED
  BY <1>6, <1>7, <1>8, <1>9 DEF CalendarKnows

LEMMA CalendarGoesOn == CalendarKnows /\ [CalendarNext]_calendarVars => CalendarKnows' /\ RowsStay
<1> SUFFICES ASSUME CalendarKnows, [CalendarNext]_calendarVars PROVE CalendarKnows' /\ RowsStay
  OBVIOUS
<1>1. ASSUME NEW e \in Events, NEW d \in Dates, EventCreate(e, TRUE, d) \/ EventCreate(e, FALSE, d)
      PROVE  CalendarKnows' /\ RowsStay
  BY <1>1, KnowsCreate
<1>2. ASSUME NEW s \in Saves, NEW d \in Dates \cup {NoDate}, PersonSave(s, d) PROVE CalendarKnows' /\ RowsStay
  BY <1>2, KnowsPersonSave
<1>3. ASSUME NEW s \in Saves, SyncFind(s) \/ SyncWrite(s) PROVE CalendarKnows' /\ RowsStay
  BY <1>3, KnowsFind, KnowsSync
<1>4. ASSUME NEW u \in Changes, NEW e \in Events, NEW given \in SUBSET {"date", "recurring"},
             NEW d \in Dates, NEW recurring \in BOOLEAN, ChangeRead(u, e, given, d, recurring)
      PROVE  CalendarKnows' /\ RowsStay
  <2>1. OnlyChange(u) /\ change'[u].event = e /\ change'[u].auto = event[e].auto /\ Live(e)
    BY <1>4, UpdateReads DEF CalendarKnows
  <2>2. UNCHANGED <<day, birthday, event, reminders, save, refresh, remind, missed>>
    BY <1>4 DEF ChangeRead
  <2> QED
    BY <2>1, <2>2, KnowsRead
<1>5. ASSUME NEW u \in Changes, ChangeClear(u) \/ ChangeWrite(u) PROVE CalendarKnows' /\ RowsStay
  BY <1>5, KnowsClear, KnowsWrite
<1>6. ASSUME NEW x \in Removals, NEW e \in Events, RemoveRead(x, e) PROVE CalendarKnows' /\ RowsStay
  <2>1. OnlyChange(x) /\ change'[x].event = e /\ change'[x].auto = event[e].auto /\ Live(e)
    BY <1>6, RemovalReads DEF CalendarKnows
  <2>2. UNCHANGED <<day, birthday, event, reminders, save, refresh, remind, missed>>
    BY <1>6 DEF RemoveRead
  <2> QED
    BY <2>1, <2>2, KnowsRead
<1>7. ASSUME NEW x \in Removals, RemoveMark(x) \/ RemoveDelete(x) PROVE CalendarKnows' /\ RowsStay
  BY <1>7, KnowsMark, KnowsDelete
<1>8. ASSUME NEW r \in reminders, Dismiss(r) PROVE CalendarKnows' /\ RowsStay
  BY <1>8, KnowsDismiss
<1>9. CASE UNCHANGED calendarVars
  <2>1. RowsStay
    BY <1>9, SameRowsStay DEF CalendarKnows, calendarVars
  <2> QED
    BY <1>9, <2>1, KnowsJobs DEF CalendarKnows, CalendarShape, calendarVars
<1> QED
  BY <1>1, <1>2, <1>3, <1>4, <1>5, <1>6, <1>7, <1>8, <1>9, KnowsRefreshRead, KnowsRefreshWrite,
     KnowsRemindRead, KnowsRemindWrite, KnowsNextDay, KnowsRestart
  DEF CalendarNext

-----------------------------------------------------------------------------
(* The automatic event follows the birthday.                               *)

Follows(e) == ~event[e].modified /\ ~event[e].marked => event[e].date = birthday

\* The save has found the automatic event, if there is one, and what it read
\* of it still holds.
FoundBy(s) ==
  \A e \in AutoEvents : /\ e = save[s].found
                        /\ save[s].modified => event[e].modified
                        /\ save[s].marked => event[e].marked

\* Without saves that overlap or are cut short there is one save at a time and
\* one automatic event.
InStep ==
  ~torn => /\ \A s, t \in Saving : s = t
           /\ \A e, f \in AutoEvents : e = f
           /\ \A s \in Saving : save[s].date = birthday /\ (save[s].pc = "write" => FoundBy(s))
           /\ Saving = {} => \A e \in AutoEvents : Follows(e)

\* What the other handlers may do to automatic events.
Gentle ==
  \A e \in Events : e \in AutoEvents' =>
    /\ e \in AutoEvents
    /\ event[e].modified => event'[e].modified
    /\ event[e].marked => event'[e].marked
    /\ event'[e].modified \/ event'[e].date = event[e].date

LEMMA GentleKeeps ==
  ASSUME InStep, Gentle, UNCHANGED <<save, birthday>>, torn => torn'
  PROVE  InStep'
<1>1. Saving' = Saving
  BY DEF Saving
<1>2. AutoEvents' \subseteq AutoEvents
  BY DEF Gentle, AutoEvents
<1> SUFFICES ASSUME ~torn
             PROVE  /\ \A s, t \in Saving : s = t
                    /\ \A e, f \in AutoEvents' : e = f
                    /\ \A s \in Saving : save[s].date = birthday /\ (save[s].pc = "write" => FoundBy(s)')
                    /\ Saving = {} => \A e \in AutoEvents' : Follows(e)'
  BY <1>1, Zenon DEF InStep
<1>3. \A s, t \in Saving : s = t
  BY DEF InStep
<1>4. \A e, f \in AutoEvents' : e = f
  BY <1>2 DEF InStep
<1>5. ASSUME NEW s \in Saving PROVE save[s].date = birthday /\ (save[s].pc = "write" => FoundBy(s)')
  <2>1. save[s].date = birthday /\ (save[s].pc = "write" => FoundBy(s))
    BY DEF InStep
  <2>2. FoundBy(s) => FoundBy(s)'
    BY <1>2 DEF FoundBy, Gentle, AutoEvents
  <2> QED
    BY <2>1, <2>2
<1>6. ASSUME Saving = {}, NEW e \in AutoEvents' PROVE Follows(e)'
  <2>1. e \in AutoEvents /\ e \in Events
    BY <1>2 DEF AutoEvents
  <2>2. Follows(e)
    BY <1>6, <2>1 DEF InStep
  <2> QED
    BY <2>1, <2>2 DEF Follows, Gentle
<1> QED
  BY <1>3, <1>4, <1>5, <1>6

LEMMA SameRowsAreGentle == UNCHANGED event => Gentle
BY DEF Gentle, AutoEvents, Live

LEMMA OneRowIsGentle ==
  ASSUME NEW e \in Events, \A f \in Events \ {e} : event'[f] = event[f],
         Live(e)' /\ event'[e].auto =>
           /\ Live(e) /\ event[e].auto
           /\ event[e].modified => event'[e].modified
           /\ event[e].marked => event'[e].marked
           /\ event'[e].modified \/ event'[e].date = event[e].date
  PROVE  Gentle
BY DEF Gentle, AutoEvents, Live

LEMMA GentleCreate ==
  ASSUME CalendarKnows, NEW e \in Events, NEW recurring \in BOOLEAN, NEW date \in Dates,
         EventCreate(e, recurring, date)
  PROVE  Gentle
<1>1. WriteNext(e, NewRow(FALSE, recurring, date), date, recurring)
  BY DEF EventCreate
<1>2. event'[e].auto = FALSE /\ \A f \in Events \ {e} : event'[f] = event[f]
  BY <1>1, MakesTheRow DEF CalendarKnows
<1> QED
  BY <1>2, OneRowIsGentle

LEMMA GentleWrite ==
  ASSUME CalendarKnows, NEW u \in Changes, ChangeWrite(u)
  PROVE  Gentle
<1> DEFINE e == change[u].event
<1>1. e \in Events /\ change[u].auto = event[e].auto
  BY DEF CalendarKnows, ChangesKnow, ChangeWrite
<1>2. CASE Live(e)
  <2>1. /\ event'[e].pc = "live" /\ event'[e].auto = event[e].auto
        /\ event'[e].modified = (event[e].modified \/ change[u].auto) /\ event'[e].marked = event[e].marked
        /\ \A f \in Events \ {e} : event'[f] = event[f]
    BY <1>2, UpdatesTheRow DEF RowIsUpdated
  <2>2. event[e].modified => event'[e].modified
    BY <2>1
  <2>3. event[e].auto => event'[e].modified
    BY <1>1, <2>1
  <2> QED
    BY <1>1, <1>2, <2>1, <2>2, <2>3, OneRowIsGentle
<1>3. CASE ~Live(e)
  BY <1>3, SameRowsAreGentle DEF ChangeWrite
<1> QED
  BY <1>2, <1>3

LEMMA GentleRemoval ==
  ASSUME CalendarKnows, NEW x \in Removals, RemoveMark(x) \/ RemoveDelete(x)
  PROVE  Gentle
<1> DEFINE e == change[x].event
<1>1. e \in Events
  BY DEF CalendarKnows, ChangesKnow, RemoveMark, RemoveDelete
<1>2. CASE RemoveMark(x) /\ Live(e)
  <2>1. Write(e, [event[e] EXCEPT !.marked = TRUE])
    BY <1>2 DEF RemoveMark
  <2>2. /\ event'[e].auto = event[e].auto /\ event'[e].date = event[e].date
        /\ event'[e].modified = event[e].modified /\ event'[e].marked = TRUE
        /\ \A f \in Events \ {e} : event'[f] = event[f]
    BY <1>1, <1>2, <2>1, MarksTheRow DEF CalendarKnows
  <2> QED
    BY <1>1, <1>2, <2>2, OneRowIsGentle
<1>3. CASE RemoveDelete(x) /\ Live(e)
  <2>1. DropEvent(e)
    BY <1>3 DEF RemoveDelete
  <2>2. event'[e].pc = "gone" /\ \A f \in Events \ {e} : event'[f] = event[f]
    BY <1>1, <2>1, DropsTheRow DEF CalendarKnows
  <2> QED
    BY <1>1, <2>2, OneRowIsGentle DEF Live
<1>4. CASE ~Live(e)
  BY <1>4, SameRowsAreGentle DEF RemoveMark, RemoveDelete
<1> QED
  BY <1>2, <1>3, <1>4

LEMMA GentleRefresh ==
  ASSUME CalendarKnows, RefreshWrite
  PROVE  Gentle
<1>1. CASE refresh' = [pc |-> "done", rows |-> {}]
  <2>1. \A e \in Events : SameRow(event'[e], event[e])
    BY <1>1, RefreshesTheRows DEF CalendarKnows, Refreshed
  <2> QED
    BY <2>1 DEF SameRow, Gentle, AutoEvents, Live
<1>2. CASE UNCHANGED event
  BY <1>2, SameRowsAreGentle
<1> QED
  BY <1>1, <1>2, Zenon DEF RefreshWrite

LEMMA StepStarts ==
  ASSUME CalendarKnows, InStep, NEW s \in Saves, NEW date \in Dates \cup {NoDate}, PersonSave(s, date)
  PROVE  InStep'
<1>1. /\ OnlySave(s) /\ save'[s].pc = "find" /\ save'[s].date = date /\ birthday' = date
      /\ torn' = (torn \/ Saving # {})
  BY SaveStarts DEF CalendarKnows
<1>2. UNCHANGED event /\ AutoEvents' = AutoEvents
  BY DEF PersonSave, AutoEvents, Live
<1> SUFFICES ASSUME ~torn' PROVE InStep'
  BY DEF InStep
<1>3. ~torn /\ Saving = {}
  BY <1>1
<1>4. Saving' = {s}
  BY <1>1, <1>3 DEF Saving, OnlySave
<1> QED
  BY <1>1, <1>2, <1>3, <1>4 DEF InStep

LEMMA StepFinds ==
  ASSUME CalendarKnows, InStep, NEW s \in Saves, SyncFind(s)
  PROVE  InStep'
<1>1. /\ OnlySave(s) /\ save[s].pc = "find" /\ save'[s].pc = "write" /\ save'[s].date = save[s].date
      /\ save'[s].found \in IF AutoEvents = {} THEN {NoEvent} ELSE AutoEvents
      /\ save'[s].found # NoEvent => /\ save'[s].modified = event[save'[s].found].modified
                                     /\ save'[s].marked = event[save'[s].found].marked
  BY SaveFinds DEF CalendarKnows
<1>2. UNCHANGED <<event, birthday, torn>> /\ AutoEvents' = AutoEvents
  BY DEF SyncFind, AutoEvents, Live
<1> SUFFICES ASSUME ~torn PROVE InStep'
  BY <1>2 DEF InStep
<1>3. Saving' = Saving /\ s \in Saving
  BY <1>1 DEF Saving, OnlySave
<1>4. (\A r, t \in Saving : r = t) /\ (\A e, f \in AutoEvents : e = f) /\ save[s].date = birthday
  BY <1>3 DEF InStep
<1>5. ASSUME NEW e \in AutoEvents PROVE /\ e = save'[s].found
                                        /\ save'[s].modified => event[e].modified
                                        /\ save'[s].marked => event[e].marked
  <2>1. save'[s].found \in AutoEvents /\ save'[s].found = e /\ e \in Events
    BY <1>1, <1>4 DEF AutoEvents
  <2>2. e # NoEvent
    BY <2>1, CalendarAssumption
  <2> QED
    BY <1>1, <2>1, <2>2
<1>6. FoundBy(s)'
  BY <1>2, <1>5 DEF FoundBy
<1> QED
  BY <1>1, <1>2, <1>3, <1>4, <1>6 DEF InStep

LEMMA StepWrites ==
  ASSUME CalendarKnows, InStep, NEW s \in Saves, SyncWrite(s)
  PROVE  InStep'
<1> DEFINE q == save[s]
<1>1. OnlySave(s) /\ q.pc = "write" /\ save'[s].pc = "done"
  BY SaveEnds DEF CalendarKnows
<1>2. UNCHANGED birthday
  BY DEF SyncWrite
<1>3. s \in Saving
  BY <1>1 DEF Saving
<1>4. torn => torn'
  BY DEF SyncWrite
<1> SUFFICES ASSUME ~torn' PROVE InStep'
  BY DEF InStep
<1>5. ~torn
  BY <1>4
<1>6. /\ \A r, t \in Saving : r = t
      /\ \A e, f \in AutoEvents : e = f
      /\ q.date = birthday /\ FoundBy(s)
  BY <1>1, <1>3, <1>5 DEF InStep
<1>7. Saving' = {}
  BY <1>1, <1>3, <1>6 DEF Saving, OnlySave
<1>8. q.found # NoEvent => q.found \in Events
  BY <1>1 DEF CalendarKnows, SavesKnow
<1>9. AutoEvents \subseteq {q.found} /\ AutoEvents \subseteq Events /\ NoEvent \notin Events
  BY <1>6, CalendarAssumption DEF FoundBy, AutoEvents
<1>10. q.date \in Dates \cup {NoDate}
  BY DEF CalendarKnows, CalendarShape, Save
<1>11. (\A e, f \in AutoEvents' : e = f) /\ \A e \in AutoEvents' : Follows(e)'
  <2>1. ASSUME q.found = NoEvent, q.date # NoDate, NEW e \in Events, event[e].pc = "new",
               WriteNext(e, NewRow(TRUE, TRUE, q.date), q.date, TRUE)
        PROVE  (\A f, g \in AutoEvents' : f = g) /\ \A f \in AutoEvents' : Follows(f)'
    <3>1. event'[e].date = q.date /\ \A f \in Events \ {e} : event'[f] = event[f]
      BY <1>10, <2>1, MakesTheRow DEF CalendarKnows
    <3>2. AutoEvents = {}
      BY <1>9, <2>1
    <3>3. AutoEvents' \subseteq {e}
      BY <3>1, <3>2 DEF AutoEvents, Live
    <3> QED
      BY <1>2, <1>6, <3>1, <3>3 DEF Follows
  <2>2. CASE q.found = NoEvent /\ UNCHANGED event
    <3>1. AutoEvents' = {}
      BY <1>9, <2>2 DEF AutoEvents, Live
    <3> QED
      BY <3>1
  <2>3. CASE q.found # NoEvent /\ (q.modified \/ q.marked) /\ UNCHANGED event
    <3>1. AutoEvents' = AutoEvents
      BY <2>3 DEF AutoEvents, Live
    <3>2. \A e \in AutoEvents : event[e].modified \/ event[e].marked
      BY <1>6, <2>3 DEF FoundBy
    <3> QED
      BY <1>6, <2>3, <3>1, <3>2 DEF Follows
  <2>4. CASE q.found # NoEvent /\ Live(q.found) /\ DropEvent(q.found)
    <3>1. event'[q.found].pc = "gone" /\ \A f \in Events \ {q.found} : event'[f] = event[f]
      BY <1>8, <2>4, DropsTheRow DEF CalendarKnows
    <3>2. AutoEvents' = {}
      BY <1>8, <1>9, <2>4, <3>1 DEF AutoEvents, Live
    <3> QED
      BY <3>2
  <2>5. CASE /\ q.found # NoEvent /\ Live(q.found) /\ q.date # NoDate
             /\ WriteNext(q.found, [event[q.found] EXCEPT !.date = q.date], q.date, TRUE)
    <3>1. event'[q.found].date = q.date /\ \A f \in Events \ {q.found} : event'[f] = event[f]
      BY <1>8, <1>10, <2>5, SavesTheRow DEF CalendarKnows
    <3>2. AutoEvents' \subseteq {q.found}
      BY <1>9, <3>1 DEF AutoEvents, Live
    <3> QED
      BY <1>2, <1>6, <3>1, <3>2 DEF Follows
  <2>6. \/ \E e \in Events : /\ q.found = NoEvent /\ q.date # NoDate /\ event[e].pc = "new"
                             /\ WriteNext(e, NewRow(TRUE, TRUE, q.date), q.date, TRUE)
        \/ q.found = NoEvent /\ UNCHANGED event
        \/ q.found # NoEvent /\ (q.modified \/ q.marked) /\ UNCHANGED event
        \/ q.found # NoEvent /\ Live(q.found) /\ DropEvent(q.found)
        \/ /\ q.found # NoEvent /\ Live(q.found) /\ q.date # NoDate
           /\ WriteNext(q.found, [event[q.found] EXCEPT !.date = q.date], q.date, TRUE)
    BY DEF SyncWrite
  <2> QED
    BY <2>1, <2>2, <2>3, <2>4, <2>5, <2>6
<1> QED
  BY <1>7, <1>11 DEF InStep

LEMMA StepRestarts ==
  ASSUME CalendarKnows, InStep, CalendarRestart
  PROVE  InStep'
<1>1. /\ save' = [s \in Saves |-> IF s \in Saving THEN NoSave("done") ELSE save[s]]
      /\ torn' = (torn \/ Saving # {}) /\ UNCHANGED <<birthday, event>>
  BY DEF CalendarRestart
<1> SUFFICES ASSUME ~torn' PROVE InStep'
  BY DEF InStep
<1>2. ~torn /\ Saving = {}
  BY <1>1
<1>3. save \in [Saves -> Save]
  BY DEF CalendarKnows, CalendarShape
<1>4. save' = save
  BY <1>1, <1>2, <1>3
<1> QED
  BY <1>1, <1>2, <1>4, GentleKeeps, SameRowsAreGentle

LEMMA StepGoesOn == CalendarKnows /\ InStep /\ [CalendarNext]_calendarVars => InStep'
<1> SUFFICES ASSUME CalendarKnows, InStep, [CalendarNext]_calendarVars PROVE InStep'
  OBVIOUS
<1>1. ASSUME NEW e \in Events, NEW d \in Dates, EventCreate(e, TRUE, d) \/ EventCreate(e, FALSE, d)
      PROVE  InStep'
  <2>1. Gentle
    BY <1>1, GentleCreate
  <2>2. UNCHANGED <<save, birthday, torn>>
    BY <1>1 DEF EventCreate
  <2> QED
    BY <2>1, <2>2, GentleKeeps
<1>2. ASSUME NEW s \in Saves, NEW d \in Dates \cup {NoDate}, PersonSave(s, d) PROVE InStep'
  BY <1>2, StepStarts
<1>3. ASSUME NEW s \in Saves, SyncFind(s) \/ SyncWrite(s) PROVE InStep'
  BY <1>3, StepFinds, StepWrites
<1>4. ASSUME NEW u \in Changes, NEW e \in Events, NEW given \in SUBSET {"date", "recurring"},
             NEW d \in Dates, NEW recurring \in BOOLEAN, ChangeRead(u, e, given, d, recurring)
      PROVE  InStep'
  BY <1>4, SameRowsAreGentle, GentleKeeps DEF ChangeRead
<1>5. ASSUME NEW u \in Changes, ChangeClear(u) PROVE InStep'
  BY <1>5, SameRowsAreGentle, GentleKeeps DEF ChangeClear
<1>6. ASSUME NEW u \in Changes, ChangeWrite(u) PROVE InStep'
  BY <1>6, GentleWrite, GentleKeeps DEF ChangeWrite
<1>7. ASSUME NEW x \in Removals, NEW e \in Events, RemoveRead(x, e) PROVE InStep'
  BY <1>7, SameRowsAreGentle, GentleKeeps DEF RemoveRead
<1>8. ASSUME NEW x \in Removals, RemoveMark(x) \/ RemoveDelete(x) PROVE InStep'
  BY <1>8, GentleRemoval, GentleKeeps DEF RemoveMark, RemoveDelete
<1>9. CASE RefreshRead \/ RemindRead \/ RemindWrite \/ NextDay
  <2>1. UNCHANGED <<event, save, birthday, torn>>
    BY <1>9 DEF RefreshRead, RemindRead, RemindWrite, NextDay
  <2> QED
    BY <2>1, SameRowsAreGentle, GentleKeeps
<1>10. CASE RefreshWrite
  BY <1>10, GentleRefresh, GentleKeeps DEF RefreshWrite
<1>11. ASSUME NEW r \in reminders, Dismiss(r) PROVE InStep'
  BY <1>11, SameRowsAreGentle, GentleKeeps DEF Dismiss
<1>12. CASE CalendarRestart
  BY <1>12, StepRestarts
<1>13. CASE UNCHANGED calendarVars
  BY <1>13, SameRowsAreGentle, GentleKeeps DEF calendarVars
<1> QED
  BY <1>1, <1>2, <1>3, <1>4, <1>5, <1>6, <1>7, <1>8, <1>9, <1>10, <1>11, <1>12, <1>13 DEF CalendarNext

\* The automatic event has the person's birthday, unless the user changed it
\* or saves overlapped, were cut short or lost it: for any number of saves,
\* updates, removals and restarts (PersonsService.update, syncAutoEvent).
THEOREM TheAutoEventFollows == CalendarSpec => []AutoEventFollows
<1>1. CalendarInit => InStep
  BY DEF CalendarInit, InStep, AutoEvents, Saving, Live, NoSave
<1>2. InStep => AutoEventFollows
  BY DEF InStep, Follows, AutoEventFollows
<1>3. CalendarKnows /\ InStep /\ [CalendarNext]_calendarVars => CalendarKnows' /\ InStep'
  BY CalendarGoesOn, StepGoesOn
<1> QED
  BY <1>1, <1>2, <1>3, CalendarStarts, PTL DEF CalendarSpec

-----------------------------------------------------------------------------
(* Reminders that are due are there.                                       *)

\* A row whose next day was found for what it holds: it may lag behind by the
\* days that the 1 am job has missed.
InTime(e) ==
  /\ ~event[e].recurring => event[e].next = event[e].date
  /\ event[e].recurring => /\ Falls(event[e].next, event[e].date)
                           /\ day - Missed <= event[e].next /\ event[e].next < day + Year

Rolled == \A e \in Events \ overtaken : Live(e) => InTime(e)

\* What the 1 am job has not read needs no rolling.
StaleAreRead ==
  refresh.pc = "read" =>
    \A e \in Events \ overtaken :
      Live(e) /\ event[e].recurring => day <= event[e].next \/ \E row \in refresh.rows : row[1] = e

JobsInOrder == remind.pc \in {"read", "done"} => refresh.pc \in {"done", "failed"}

Due(e, l) == Live(e) /\ day = NextOccurrence(event[e].date, event[e].recurring, day) - l /\ l # 0

Noticed(e, l) == \E r \in remind.rows : r.event = e /\ r.lead = l /\ r.on = day
Reminded(e, l) == \E r \in reminders : r.event = e /\ r.lead = l /\ r.on = day

Tight == Missed < Year - Horizon

Planned == remind.pc = "read" /\ Tight => \A e \in fresh \ overtaken, l \in Leads : Due(e, l) => Noticed(e, l)
Kept == remind.pc = "done" /\ Tight => \A e \in fresh \ overtaken, l \in Leads : Due(e, l) => Reminded(e, l)

RemindInv == fresh \subseteq Events /\ Rolled /\ StaleAreRead /\ JobsInOrder /\ Planned /\ Kept

\* Steps of the handlers, which leave the jobs and the day alone.
LEMMA HandlersKeep ==
  ASSUME RemindInv, UNCHANGED <<day, missed, refresh, remind>>, fresh' \subseteq fresh,
         \A e \in fresh' : event'[e] = event[e] /\ (e \in overtaken' <=> e \in overtaken),
         \A e \in Events \ overtaken' : Live(e)' =>
           \/ /\ e \notin overtaken /\ Live(e) /\ event'[e].next = event[e].next
              /\ event'[e].date = event[e].date /\ event'[e].recurring = event[e].recurring
           \/ InTime(e)' /\ (event'[e].recurring => day <= event'[e].next),
         \A r \in reminders : r.event \in fresh' =>
           \E q \in reminders' : q.event = r.event /\ q.lead = r.lead /\ q.on = r.on
  PROVE  RemindInv'
<1>1. Missed' = Missed /\ (Tight <=> Tight')
  BY DEF Missed, Tight
<1>2. fresh' \subseteq Events
  BY DEF RemindInv
<1>3. Rolled'
  <2> SUFFICES ASSUME NEW e \in Events \ overtaken', Live(e)' PROVE InTime(e)'
    BY DEF Rolled
  <2>1. CASE /\ e \notin overtaken /\ Live(e) /\ event'[e].next = event[e].next
             /\ event'[e].date = event[e].date /\ event'[e].recurring = event[e].recurring
    <3>1. InTime(e)
      BY <2>1 DEF RemindInv, Rolled
    <3> QED
      BY <1>1, <2>1, <3>1 DEF InTime
  <2> QED
    BY <2>1
<1>4. StaleAreRead'
  BY DEF RemindInv, StaleAreRead
<1>5. JobsInOrder'
  BY DEF RemindInv, JobsInOrder
<1>6. ASSUME NEW e \in fresh' \ overtaken', NEW l \in Leads, Due(e, l)' PROVE e \in fresh \ overtaken /\ Due(e, l)
  BY <1>6 DEF Due, Live
<1>7. Planned'
  <2> SUFFICES ASSUME remind.pc = "read", Tight, NEW e \in fresh' \ overtaken', NEW l \in Leads, Due(e, l)'
               PROVE  Noticed(e, l)'
    BY <1>1 DEF Planned
  <2>1. Noticed(e, l)
    BY <1>6 DEF RemindInv, Planned
  <2> QED
    BY <2>1 DEF Noticed
<1>8. Kept'
  <2> SUFFICES ASSUME remind.pc = "done", Tight, NEW e \in fresh' \ overtaken', NEW l \in Leads, Due(e, l)'
               PROVE  Reminded(e, l)'
    BY <1>1 DEF Kept
  <2>1. Reminded(e, l)
    BY <1>6 DEF RemindInv, Kept
  <2> QED
    BY <2>1 DEF Reminded
<1> QED
  BY <1>2, <1>3, <1>4, <1>5, <1>7, <1>8 DEF RemindInv

\* Steps that change one event, or none, and reminders of it at most.
LEMMA OneEventKeeps ==
  ASSUME RemindInv, UNCHANGED <<day, missed, refresh, remind>>, NEW e, fresh' = fresh \ {e},
         \A f \in Events \ {e} : event'[f] = event[f], overtaken' \ {e} = overtaken \ {e},
         e \in Events /\ e \notin overtaken' /\ Live(e)' =>
           \/ /\ e \notin overtaken /\ Live(e) /\ event'[e].next = event[e].next
              /\ event'[e].date = event[e].date /\ event'[e].recurring = event[e].recurring
           \/ InTime(e)' /\ (event'[e].recurring => day <= event'[e].next),
         \A r \in reminders : r.event # e => r \in reminders'
  PROVE  RemindInv'
<1>1. fresh' \subseteq fresh /\ fresh \subseteq Events
  BY DEF RemindInv
<1>2. \A f \in fresh' : event'[f] = event[f] /\ (f \in overtaken' <=> f \in overtaken)
  BY <1>1
<1>3. ASSUME NEW f \in Events \ overtaken', Live(f)'
      PROVE  \/ /\ f \notin overtaken /\ Live(f) /\ event'[f].next = event[f].next
                /\ event'[f].date = event[f].date /\ event'[f].recurring = event[f].recurring
             \/ InTime(f)' /\ (event'[f].recurring => day <= event'[f].next)
  <2>1. CASE f = e
    BY <1>3, <2>1
  <2>2. CASE f # e
    BY <1>3, <2>2 DEF Live
  <2> QED
    BY <2>1, <2>2
<1>4. \A r \in reminders : r.event \in fresh' =>
           \E q \in reminders' : q.event = r.event /\ q.lead = r.lead /\ q.on = r.on
  OBVIOUS
<1> QED
  BY <1>1, <1>2, <1>3, <1>4, HandlersKeep

\* Steps that change no event and no reminder.
LEMMA OthersKeep ==
  ASSUME RemindInv, UNCHANGED <<day, missed, refresh, remind, event, reminders, fresh, overtaken>>
  PROVE  RemindInv'
<1>1. \A e \in Events \ overtaken' : Live(e)' =>
        /\ e \notin overtaken /\ Live(e) /\ event'[e].next = event[e].next
        /\ event'[e].date = event[e].date /\ event'[e].recurring = event[e].recurring
  BY DEF Live
<1> QED
  BY <1>1, HandlersKeep

\* The next day, once it is found, is in time.
LEMMA FoundIsInTime ==
  ASSUME CalendarShape, CalendarShape', UNCHANGED <<day, missed, refresh>>, NEW e \in Events,
         event'[e].next = NextOccurrence(event'[e].date, event'[e].recurring, day)
  PROVE  InTime(e)' /\ (event'[e].recurring => day <= event'[e].next)
<1>0. PICK f : f = event'[e]
  OBVIOUS
<1>a. f \in Event
  BY <1>0 DEF CalendarShape
<1>b. f.date \in Nat /\ f.recurring \in BOOLEAN
  BY <1>a, CalendarAssumption DEF Event
<1>c. day \in Nat /\ missed \in Nat
  BY CalendarAssumption DEF CalendarShape
<1>d. Missed' = Missed
  BY DEF Missed
<1>e. Missed \in Nat
  BY <1>c DEF Missed
<1>1. event'[e].date \in Nat /\ event'[e].recurring \in BOOLEAN /\ day \in Nat /\ Missed' \in Nat
  BY <1>0, <1>b, <1>c, <1>d, <1>e
<1>2. Year \in Nat
  BY CalendarAssumption
<1>3. CASE event'[e].recurring = TRUE
  <2>1. /\ event'[e].next \in Int /\ day <= event'[e].next /\ event'[e].next < day + Year
        /\ Falls(event'[e].next, event'[e].date)
    BY <1>1, <1>3, NextIsAhead
  <2> QED
    BY <1>1, <1>2, <1>3, <2>1 DEF InTime
<1>4. CASE event'[e].recurring = FALSE
  <2>1. event'[e].next = event'[e].date
    BY <1>4 DEF NextOccurrence
  <2> QED
    BY <1>4, <2>1 DEF InTime
<1> QED
  BY <1>1, <1>3, <1>4

LEMMA RemindCreate ==
  ASSUME CalendarKnows, CalendarKnows', RemindInv, NEW e \in Events, NEW recurring \in BOOLEAN, NEW date \in Dates,
         EventCreate(e, recurring, date)
  PROVE  RemindInv'
<1>1. /\ WriteNext(e, NewRow(FALSE, recurring, date), date, recurring)
      /\ UNCHANGED <<day, missed, refresh, remind, reminders>>
  BY DEF EventCreate
<1>2. /\ event'[e].date = date /\ event'[e].recurring = recurring
      /\ event'[e].next = NextOccurrence(date, recurring, day)
      /\ \A f \in Events \ {e} : event'[f] = event[f]
      /\ fresh' = fresh \ {e} /\ overtaken' = overtaken \ {e}
  BY <1>1, MakesTheRow DEF CalendarKnows
<1>3. InTime(e)' /\ (event'[e].recurring => day <= event'[e].next)
  BY <1>1, <1>2, FoundIsInTime DEF CalendarKnows
<1> QED
  BY <1>1, <1>2, <1>3, OneEventKeeps

LEMMA RemindSync ==
  ASSUME CalendarKnows, CalendarKnows', RemindInv, NEW s \in Saves, SyncWrite(s)
  PROVE  RemindInv'
<1> DEFINE q == save[s]
<1>1. UNCHANGED <<day, missed, refresh, remind>>
  BY DEF SyncWrite
<1>2. q.found # NoEvent => q.found \in Events
  BY DEF CalendarKnows, SavesKnow, SyncWrite
<1>3. q.date \in Dates \cup {NoDate}
  BY DEF CalendarKnows, CalendarShape, Save
<1>4. ASSUME q.date # NoDate, NEW e \in Events, UNCHANGED reminders,
             WriteNext(e, NewRow(TRUE, TRUE, q.date), q.date, TRUE)
      PROVE  RemindInv'
  <2>1. /\ event'[e].date = q.date /\ event'[e].recurring = TRUE
        /\ event'[e].next = NextOccurrence(q.date, TRUE, day)
        /\ \A f \in Events \ {e} : event'[f] = event[f]
        /\ fresh' = fresh \ {e} /\ overtaken' = overtaken \ {e}
    BY <1>3, <1>4, MakesTheRow DEF CalendarKnows
  <2>2. InTime(e)' /\ (event'[e].recurring => day <= event'[e].next)
    BY <1>1, <2>1, FoundIsInTime DEF CalendarKnows
  <2> QED
    BY <1>1, <1>4, <2>1, <2>2, OneEventKeeps
<1>5. CASE UNCHANGED <<event, reminders, fresh, overtaken>>
  BY <1>1, <1>5, OthersKeep
<1>6. CASE q.found # NoEvent /\ DropEvent(q.found)
  <2>0. PICK e \in Events : e = q.found
    BY <1>2, <1>6
  <2>1. /\ event'[e].pc = "gone" /\ \A f \in Events \ {e} : event'[f] = event[f]
        /\ reminders' = {r \in reminders : r.event # e} /\ fresh' = fresh \ {e} /\ UNCHANGED overtaken
    BY <2>0, <1>6, DropsTheRow DEF CalendarKnows
  <2>2. ~Live(e)'
    BY <2>1 DEF Live
  <2> QED
    BY <1>1, <2>1, <2>2, OneEventKeeps
<1>7. CASE /\ q.found # NoEvent /\ Live(q.found) /\ q.date # NoDate /\ UNCHANGED reminders
           /\ WriteNext(q.found, [event[q.found] EXCEPT !.date = q.date], q.date, TRUE)
  <2>0. PICK e \in Events : e = q.found
    BY <1>2, <1>7
  <2>1. /\ event'[e].date = q.date /\ event'[e].recurring = event[e].recurring
        /\ event'[e].next = NextOccurrence(q.date, TRUE, day)
        /\ \A f \in Events \ {e} : event'[f] = event[f]
        /\ fresh' = fresh \ {e}
        /\ overtaken' = IF event[e].recurring THEN overtaken \ {e} ELSE overtaken \cup {e}
    BY <2>0, <1>3, <1>7, SavesTheRow DEF CalendarKnows
  <2>2. event[e].recurring \in BOOLEAN /\ e \in Events
    BY <2>0 DEF CalendarKnows, CalendarShape, Event
  <2>3. e \notin overtaken' => event'[e].recurring = TRUE
    BY <2>1, <2>2
  <2>4. e \notin overtaken' => InTime(e)' /\ (event'[e].recurring => day <= event'[e].next)
    BY <1>1, <2>1, <2>2, <2>3, FoundIsInTime DEF CalendarKnows
  <2>5. overtaken' \ {e} = overtaken \ {e}
    BY <2>1
  <2> QED
    BY <1>1, <1>7, <2>0, <2>1, <2>4, <2>5, OneEventKeeps
<1>8. \/ \E e \in Events : /\ q.date # NoDate /\ UNCHANGED reminders
                           /\ WriteNext(e, NewRow(TRUE, TRUE, q.date), q.date, TRUE)
      \/ UNCHANGED <<event, reminders, fresh, overtaken>>
      \/ q.found # NoEvent /\ DropEvent(q.found)
      \/ /\ q.found # NoEvent /\ Live(q.found) /\ q.date # NoDate /\ UNCHANGED reminders
         /\ WriteNext(q.found, [event[q.found] EXCEPT !.date = q.date], q.date, TRUE)
  BY DEF SyncWrite
<1> QED
  BY <1>4, <1>5, <1>6, <1>7, <1>8

LEMMA RemindClear ==
  ASSUME CalendarKnows, RemindInv, NEW u \in Changes, ChangeClear(u)
  PROVE  RemindInv'
<1>0. PICK e : e = change[u].event
  OBVIOUS
<1>1. /\ reminders' = {r \in reminders : r.event # e} /\ fresh' = fresh \ {e}
      /\ UNCHANGED <<day, missed, refresh, remind, event, overtaken>>
  BY <1>0 DEF ChangeClear
<1>2. Live(e)' => Live(e)
  BY <1>1 DEF Live
<1> QED
  BY <1>1, <1>2, OneEventKeeps

LEMMA RemindChange ==
  ASSUME CalendarKnows, CalendarKnows', RemindInv, NEW u \in Changes, ChangeWrite(u)
  PROVE  RemindInv'
<1> DEFINE q == change[u]
<1>1. UNCHANGED <<day, missed, refresh, remind, reminders>>
  BY DEF ChangeWrite
<1>2. PICK e \in Events : e = q.event
  BY DEF CalendarKnows, ChangesKnow, ChangeWrite
<1>3. CASE ~Live(e)
  <2>1. UNCHANGED <<event, fresh, overtaken>>
    BY <1>2, <1>3 DEF ChangeWrite
  <2> QED
    BY <1>1, <2>1, OthersKeep
<1>4. CASE Live(e)
  <2>1. RowIsUpdated(u)
    BY <1>2, <1>4, UpdatesTheRow
  <2>2. fresh' = fresh \ {e} /\ \A f \in Events \ {e} : event'[f] = event[f]
    BY <1>2, <2>1 DEF RowIsUpdated
  <2>3. CASE q.given = {} /\ event'[e].next = event[e].next /\ UNCHANGED overtaken
    <3>1. event'[e].date = event[e].date /\ event'[e].recurring = event[e].recurring
      BY <1>2, <2>1, <2>3 DEF RowIsUpdated
    <3> QED
      BY <1>1, <1>4, <2>2, <2>3, <3>1, OneEventKeeps
  <2>4. CASE /\ q.given # {} /\ event'[e].next = NextOccurrence(q.date, q.recurring, day)
             /\ overtaken' = IF q.date = event'[e].date /\ q.recurring = event'[e].recurring
                             THEN overtaken \ {e} ELSE overtaken \cup {e}
    <3>1. e \notin overtaken' => event'[e].next = NextOccurrence(event'[e].date, event'[e].recurring, day)
      BY <2>4
    <3>2. e \notin overtaken' => InTime(e)' /\ (event'[e].recurring => day <= event'[e].next)
      BY <1>1, <1>2, <3>1, FoundIsInTime DEF CalendarKnows
    <3>3. overtaken' \ {e} = overtaken \ {e}
      BY <2>4
    <3> QED
      BY <1>1, <2>2, <3>2, <3>3, OneEventKeeps
  <2> QED
    BY <1>2, <2>1, <2>3, <2>4 DEF RowIsUpdated
<1> QED
  BY <1>3, <1>4

LEMMA RemindRemoval ==
  ASSUME CalendarKnows, RemindInv, NEW x \in Removals, RemoveMark(x) \/ RemoveDelete(x)
  PROVE  RemindInv'
<1>1. UNCHANGED <<day, missed, refresh, remind>>
  BY DEF RemoveMark, RemoveDelete
<1>2. PICK e \in Events : e = change[x].event
  BY DEF CalendarKnows, ChangesKnow, RemoveMark, RemoveDelete
<1>3. CASE ~Live(e)
  <2>1. UNCHANGED <<event, reminders, fresh, overtaken>>
    BY <1>2, <1>3 DEF RemoveMark, RemoveDelete
  <2> QED
    BY <1>1, <2>1, OthersKeep
<1>4. CASE Live(e) /\ RemoveMark(x)
  <2>1. Write(e, [event[e] EXCEPT !.marked = TRUE]) /\ UNCHANGED <<overtaken, reminders>>
    BY <1>2, <1>4 DEF RemoveMark
  <2>2. /\ event'[e].date = event[e].date /\ event'[e].recurring = event[e].recurring
        /\ event'[e].next = event[e].next
        /\ \A f \in Events \ {e} : event'[f] = event[f]
        /\ fresh' = fresh \ {e}
    BY <1>2, <1>4, <2>1, MarksTheRow DEF CalendarKnows
  <2> QED
    BY <1>1, <1>4, <2>1, <2>2, OneEventKeeps
<1>5. CASE Live(e) /\ RemoveDelete(x)
  <2>1. DropEvent(e)
    BY <1>2, <1>5 DEF RemoveDelete
  <2>2. /\ event'[e].pc = "gone" /\ \A f \in Events \ {e} : event'[f] = event[f]
        /\ reminders' = {r \in reminders : r.event # e} /\ fresh' = fresh \ {e} /\ UNCHANGED overtaken
    BY <1>2, <2>1, DropsTheRow DEF CalendarKnows
  <2>3. ~Live(e)'
    BY <2>2 DEF Live
  <2> QED
    BY <1>1, <2>2, <2>3, OneEventKeeps
<1> QED
  BY <1>3, <1>4, <1>5

LEMMA RemindDismiss ==
  ASSUME CalendarKnows, RemindInv, NEW r \in reminders, Dismiss(r)
  PROVE  RemindInv'
<1>1. PICK q : q = [r EXCEPT !.dismissed = TRUE]
  OBVIOUS
<1>2. reminders' = (reminders \ {r}) \cup {q}
  BY <1>1 DEF Dismiss
<1>3. r \in Reminder
  BY DEF CalendarKnows, CalendarShape
<1>4. q.event = r.event /\ q.lead = r.lead /\ q.on = r.on
  BY <1>1, <1>3 DEF Reminder
<1>5. UNCHANGED <<day, missed, refresh, remind, event, fresh, overtaken>>
  BY DEF Dismiss
<1>6. \A p \in reminders : \E t \in reminders' : t.event = p.event /\ t.lead = p.lead /\ t.on = p.on
  BY <1>2, <1>4
<1>7. \A e \in Events \ overtaken' : Live(e)' =>
        /\ e \notin overtaken /\ Live(e) /\ event'[e].next = event[e].next
        /\ event'[e].date = event[e].date /\ event'[e].recurring = event[e].recurring
  BY <1>5 DEF Live
<1> QED
  BY <1>5, <1>6, <1>7, HandlersKeep

LEMMA RemindRefreshRead ==
  ASSUME CalendarKnows, RemindInv, RefreshRead
  PROVE  RemindInv'
<1>1. /\ refresh.pc = "due"
      /\ refresh' = [pc |-> "read",
                 rows |-> {<<e, event[e].date>> : e \in {f \in Events :
                             Live(f) /\ event[f].recurring /\ event[f].next < day}}]
      /\ UNCHANGED <<day, missed, remind, event, reminders, fresh, overtaken>>
  BY DEF RefreshRead
<1>2. Missed' = Missed /\ remind.pc \notin {"read", "done"} /\ refresh'.pc = "read"
  BY <1>1 DEF Missed, RemindInv, JobsInOrder
<1>3. Rolled'
  BY <1>1, <1>2 DEF RemindInv, Rolled, Live, InTime
<1>4. StaleAreRead'
  <2> SUFFICES ASSUME NEW e \in Events \ overtaken, Live(e), event[e].recurring
               PROVE  day <= event[e].next \/ \E row \in refresh'.rows : row[1] = e
    BY <1>1 DEF StaleAreRead, Live
  <2>1. event[e] \in Event
    BY DEF CalendarKnows, CalendarShape
  <2>2. event[e].next \in Int /\ day \in Nat
    BY <2>1 DEF Event, CalendarKnows, CalendarShape
  <2>3. CASE event[e].next < day
    <3>1. <<e, event[e].date>> \in refresh'.rows
      BY <1>1, <2>3
    <3> QED
      BY <3>1
  <2> QED
    BY <2>2, <2>3
<1> QED
  BY <1>1, <1>2, <1>3, <1>4 DEF RemindInv, JobsInOrder, Planned, Kept

LEMMA RemindRefreshWrite ==
  ASSUME CalendarKnows, CalendarKnows', RemindInv, RefreshWrite
  PROVE  RemindInv'
<1>1. refresh.pc = "read" /\ UNCHANGED <<day, missed, remind, reminders, fresh>>
  BY DEF RefreshWrite
<1>2. remind.pc \notin {"read", "done"}
  BY <1>1 DEF RemindInv, JobsInOrder
<1>3. CASE refresh' = [pc |-> "failed", rows |-> {}] /\ UNCHANGED <<event, overtaken>>
  <2>1. Missed' = Missed
    BY <1>1, <1>3 DEF Missed
  <2>2. Rolled'
    BY <1>1, <1>3, <2>1 DEF RemindInv, Rolled, Live, InTime
  <2> QED
    BY <1>1, <1>2, <1>3, <2>2 DEF RemindInv, StaleAreRead, JobsInOrder, Planned, Kept
<1>4. CASE /\ refresh' = [pc |-> "done", rows |-> {}]
           /\ overtaken' = (overtaken \ {row[1] : row \in refresh.rows}) \cup
                {row[1] : row \in {q \in refresh.rows :
                             event[q[1]].date # q[2] \/ ~event[q[1]].recurring}}
  <2>1. refresh'.pc = "done" /\ Missed' = 0
    BY <1>4 DEF Missed
  <2>2. Rolled'
    <3> SUFFICES ASSUME NEW e \in Events \ overtaken', Live(e)' PROVE InTime(e)'
      BY DEF Rolled
    <3>1. Refreshed(e)
      BY <2>1, RefreshesTheRows DEF CalendarKnows
    <3>2. PICK f : f = event[e]
      OBVIOUS
    <3>3. PICK g : g = event'[e]
      OBVIOUS
    <3>4. f \in Event /\ g \in Event /\ day \in Nat
      BY <3>2, <3>3 DEF CalendarKnows, CalendarShape
    <3>5. /\ f.date \in Nat /\ f.recurring \in BOOLEAN /\ f.next \in Int
          /\ g.date = f.date /\ g.recurring = f.recurring
      BY <3>1, <3>2, <3>3, <3>4, CalendarAssumption DEF Event, Refreshed, SameRow
    <3>6. f.pc = "live"
      BY <3>1, <3>2, <3>3 DEF Live, Refreshed, SameRow
    <3>7. CASE \A row \in refresh.rows : row[1] # e
      <4>1. e \notin overtaken
        BY <1>4, <3>7
      <4>2. InTime(e) /\ (event[e].recurring => day <= event[e].next)
        BY <1>1, <3>2, <3>6, <3>7, <4>1 DEF RemindInv, Rolled, StaleAreRead, Live
      <4>3. event'[e] = event[e]
        BY <3>1, <3>7 DEF Refreshed
      <4> QED
        BY <1>1, <2>1, <3>2, <3>4, <3>5, <4>2, <4>3 DEF InTime
    <3>8. CASE \E row \in refresh.rows : row[1] = e
      <4>1. PICK row \in refresh.rows : row[1] = e /\ g.next = NextOccurrence(row[2], TRUE, day)
        BY <3>1, <3>3, <3>8 DEF Refreshed
      <4>2. f.date = row[2] /\ f.recurring
        BY <1>4, <3>2, <4>1
      <4>3. day <= g.next /\ g.next < day + Year /\ Falls(g.next, f.date)
        BY <3>4, <3>5, <4>1, <4>2, NextIsAhead
      <4> QED
        BY <1>1, <2>1, <3>3, <3>4, <3>5, <4>2, <4>3 DEF InTime
    <3> QED
      BY <3>7, <3>8
  <2> QED
    BY <1>1, <1>2, <2>1, <2>2 DEF RemindInv, StaleAreRead, JobsInOrder, Planned, Kept
<1> QED
  BY <1>3, <1>4, Zenon DEF RefreshWrite

\* What is due is within the horizon of the 6 am job, with its day found.
LEMMA DueIsSeen ==
  ASSUME CalendarShape, Tight, NEW e \in Events, NEW l \in Leads, InTime(e), Due(e, l)
  PROVE  day = event[e].next - l /\ event[e].next <= day + Horizon
<1> DEFINE p == NextOccurrence(event[e].date, event[e].recurring, day)
<1>1. PICK f : f = event[e]
  OBVIOUS
<1>2. f \in Event
  BY <1>1 DEF CalendarShape
<1>3. f.date \in Nat /\ f.recurring \in BOOLEAN /\ f.next \in Int
  BY <1>2, CalendarAssumption DEF Event
<1>4. day \in Nat /\ missed \in Nat /\ l \in Nat /\ l <= Horizon /\ Horizon \in Nat
  BY CalendarAssumption, HorizonIsALead, HorizonIsNatural DEF CalendarShape
<1>5. Missed \in Nat /\ Missed < Year - Horizon
  BY <1>4 DEF Missed, Tight
<1>6. CASE f.recurring = FALSE
  <2>1. p = f.date /\ f.next = f.date
    BY <1>1, <1>6 DEF NextOccurrence, InTime
  <2>2. day = p - l
    BY DEF Due
  <2> HIDE DEF p
  <2> QED
    BY <1>1, <1>3, <1>4, <2>1, <2>2
<1>7. CASE f.recurring = TRUE
  <2>1. Falls(f.next, f.date) /\ day - Missed <= f.next /\ f.next < day + Year
    BY <1>1, <1>7 DEF InTime
  <2>2. p = f.next \/ p > day + Horizon
    BY <1>1, <1>3, <1>4, <1>5, <1>7, <2>1, NextIsThatOrMuchLater
  <2>3. day = p - l
    BY DEF Due
  <2>4. p \in Int
    BY <1>1, <1>3, <1>4, <1>7, NextIsAhead
  <2> HIDE DEF p
  <2> QED
    BY <1>1, <1>3, <1>4, <2>2, <2>3, <2>4
<1> QED
  BY <1>3, <1>6, <1>7

LEMMA RemindRemindRead ==
  ASSUME CalendarKnows, RemindInv, RemindRead
  PROVE  RemindInv'
<1> DEFINE rows == {r \in [event : {e \in Events : Live(e) /\ event[e].next <= day + Horizon},
                           lead : Leads, on : day..(day + Horizon), dismissed : {FALSE}] :
                       r.on = event[r.event].next - r.lead}
<1>1. /\ remind' = [pc |-> "read", rows |-> rows] /\ refresh.pc \in {"done", "failed"}
      /\ UNCHANGED <<day, missed, refresh, event, reminders, fresh, overtaken>>
  BY DEF RemindRead
<1>2. remind'.pc = "read" /\ remind'.rows = rows
  BY <1>1
<1>3. Missed' = Missed /\ (Tight' <=> Tight)
  BY <1>1 DEF Missed, Tight
<1>4. Rolled'
  BY <1>1, <1>3 DEF RemindInv, Rolled, Live, InTime
<1>5. ASSUME Tight, NEW e \in fresh \ overtaken, NEW l \in Leads, Due(e, l)
      PROVE  \E r \in rows : r.event = e /\ r.lead = l /\ r.on = day
  <2>1. e \in Events /\ Live(e)
    BY <1>5 DEF RemindInv, Due
  <2>2. InTime(e)
    BY <2>1 DEF RemindInv, Rolled
  <2>3. day = event[e].next - l /\ event[e].next <= day + Horizon
    BY <1>5, <2>1, <2>2, DueIsSeen DEF CalendarKnows
  <2>4. day \in day..(day + Horizon)
    BY HorizonIsNatural DEF CalendarKnows, CalendarShape
  <2>5. PICK r : r = [event |-> e, lead |-> l, on |-> day, dismissed |-> FALSE]
    OBVIOUS
  <2>6. r \in rows
    BY <2>1, <2>3, <2>4, <2>5
  <2> QED
    BY <2>5, <2>6
<1> HIDE DEF rows
<1>6. Planned'
  <2> SUFFICES ASSUME Tight, NEW e \in fresh \ overtaken, NEW l \in Leads, Due(e, l)' PROVE Noticed(e, l)'
    BY <1>1, <1>3 DEF Planned
  <2>1. Due(e, l)
    BY <1>1 DEF Due, Live
  <2> QED
    BY <1>1, <1>2, <1>5, <2>1 DEF Noticed
<1> QED
  BY <1>1, <1>2, <1>4, <1>6 DEF RemindInv, StaleAreRead, JobsInOrder, Kept

LEMMA RemindRemindWrite ==
  ASSUME RemindInv, RemindWrite
  PROVE  RemindInv'
<1>1. remind.pc = "read" /\ UNCHANGED <<day, missed, refresh, event, fresh, overtaken>>
  BY DEF RemindWrite
<1>2. Missed' = Missed /\ (Tight' <=> Tight)
  BY <1>1 DEF Missed, Tight
<1>3. Rolled' /\ refresh'.pc \in {"done", "failed"}
  BY <1>1, <1>2 DEF RemindInv, Rolled, Live, InTime, JobsInOrder
<1>4. CASE remind' = [pc |-> "failed", rows |-> {}]
  BY <1>1, <1>3, <1>4 DEF RemindInv, StaleAreRead, JobsInOrder, Planned, Kept
<1>5. CASE /\ remind' = [pc |-> "done", rows |-> {}]
           /\ reminders' = reminders \cup {r \in remind.rows : ~\E s \in reminders : SameReminder(r, s)}
  <2>1. Kept'
    <3> SUFFICES ASSUME Tight, NEW e \in fresh \ overtaken, NEW l \in Leads, Due(e, l)' PROVE Reminded(e, l)'
      BY <1>1, <1>2 DEF Kept
    <3>1. Due(e, l)
      BY <1>1 DEF Due, Live
    <3>2. PICK r \in remind.rows : r.event = e /\ r.lead = l /\ r.on = day
      BY <1>1, <3>1 DEF RemindInv, Planned, Noticed
    <3>3. \E s \in reminders' : SameReminder(r, s)
      BY <1>5, <3>2 DEF SameReminder
    <3> QED
      BY <1>1, <3>2, <3>3 DEF Reminded, SameReminder
  <2> QED
    BY <1>1, <1>3, <1>5, <2>1 DEF RemindInv, StaleAreRead, JobsInOrder, Planned
<1> QED
  BY <1>4, <1>5, Zenon DEF RemindWrite

LEMMA RemindNextDay ==
  ASSUME CalendarKnows, RemindInv, NextDay
  PROVE  RemindInv'
<1>1. /\ day' = day + 1 /\ missed' = Missed /\ fresh' = Events
      /\ refresh' = [pc |-> "due", rows |-> {}] /\ remind' = [pc |-> "due", rows |-> {}]
      /\ UNCHANGED <<event, reminders, overtaken>>
  BY DEF NextDay
<1>2. day \in Nat /\ Missed \in Nat /\ Missed' = Missed + 1 /\ Year \in Nat
  BY <1>1, CalendarAssumption DEF Missed, CalendarKnows, CalendarShape
<1>3. Rolled'
  <2> SUFFICES ASSUME NEW e \in Events \ overtaken, Live(e) PROVE InTime(e)'
    BY <1>1 DEF Rolled, Live
  <2>1. InTime(e)
    BY DEF RemindInv, Rolled
  <2>2. event[e] \in Event
    BY DEF CalendarKnows, CalendarShape
  <2>3. event[e].next \in Int
    BY <2>2 DEF Event
  <2> QED
    BY <1>1, <1>2, <2>1, <2>3 DEF InTime
<1> QED
  BY <1>1, <1>3 DEF RemindInv, StaleAreRead, JobsInOrder, Planned, Kept

LEMMA RemindRestart ==
  ASSUME RemindInv, CalendarRestart
  PROVE  RemindInv'
<1>1. /\ refresh' = IF refresh.pc = "done" THEN refresh ELSE [pc |-> "failed", rows |-> {}]
      /\ remind' = IF remind.pc = "done" THEN remind ELSE [pc |-> "failed", rows |-> {}]
      /\ UNCHANGED <<day, missed, event, reminders, fresh, overtaken>>
  BY DEF CalendarRestart
<1>2. Missed' = Missed /\ (Tight' <=> Tight)
  BY <1>1 DEF Missed, Tight
<1>3. Rolled'
  BY <1>1, <1>2 DEF RemindInv, Rolled, Live, InTime
<1>4. StaleAreRead' /\ JobsInOrder' /\ Planned'
  BY <1>1 DEF StaleAreRead, JobsInOrder, Planned
<1>5. Kept'
  <2> SUFFICES ASSUME remind.pc = "done", Tight, NEW e \in fresh \ overtaken, NEW l \in Leads, Due(e, l)'
               PROVE  Reminded(e, l)'
    BY <1>1, <1>2 DEF Kept
  <2>1. Due(e, l)
    BY <1>1 DEF Due, Live
  <2>2. Reminded(e, l)
    BY <2>1 DEF RemindInv, Kept
  <2> QED
    BY <1>1, <2>2 DEF Reminded
<1> QED
  BY <1>1, <1>3, <1>4, <1>5 DEF RemindInv

LEMMA RemindGoesOn ==
  CalendarKnows /\ CalendarKnows' /\ RemindInv /\ [CalendarNext]_calendarVars => RemindInv'
<1> SUFFICES ASSUME CalendarKnows, CalendarKnows', RemindInv, [CalendarNext]_calendarVars PROVE RemindInv'
  OBVIOUS
<1>1. ASSUME NEW e \in Events, NEW d \in Dates, EventCreate(e, TRUE, d) \/ EventCreate(e, FALSE, d)
      PROVE  RemindInv'
  BY <1>1, RemindCreate
<1>2. ASSUME NEW s \in Saves, NEW d \in Dates \cup {NoDate}, PersonSave(s, d) PROVE RemindInv'
  BY <1>2, OthersKeep DEF PersonSave
<1>3. ASSUME NEW s \in Saves, SyncFind(s) PROVE RemindInv'
  BY <1>3, OthersKeep DEF SyncFind
<1>4. ASSUME NEW s \in Saves, SyncWrite(s) PROVE RemindInv'
  BY <1>4, RemindSync
<1>5. ASSUME NEW u \in Changes, NEW e \in Events, NEW given \in SUBSET {"date", "recurring"},
             NEW d \in Dates, NEW recurring \in BOOLEAN, ChangeRead(u, e, given, d, recurring)
      PROVE  RemindInv'
  BY <1>5, OthersKeep DEF ChangeRead
<1>6. ASSUME NEW u \in Changes, ChangeClear(u) \/ ChangeWrite(u) PROVE RemindInv'
  BY <1>6, RemindClear, RemindChange
<1>7. ASSUME NEW x \in Removals, NEW e \in Events, RemoveRead(x, e) PROVE RemindInv'
  BY <1>7, OthersKeep DEF RemoveRead
<1>8. ASSUME NEW x \in Removals, RemoveMark(x) \/ RemoveDelete(x) PROVE RemindInv'
  BY <1>8, RemindRemoval
<1>9. CASE RefreshRead \/ RefreshWrite
  BY <1>9, RemindRefreshRead, RemindRefreshWrite
<1>10. CASE RemindRead \/ RemindWrite
  BY <1>10, RemindRemindRead, RemindRemindWrite
<1>11. ASSUME NEW r \in reminders, Dismiss(r) PROVE RemindInv'
  BY <1>11, RemindDismiss
<1>12. CASE NextDay \/ CalendarRestart
  BY <1>12, RemindNextDay, RemindRestart
<1>13. CASE UNCHANGED calendarVars
  BY <1>13, OthersKeep DEF calendarVars
<1> QED
  BY <1>1, <1>2, <1>3, <1>4, <1>5, <1>6, <1>7, <1>8, <1>9, <1>10, <1>11, <1>12, <1>13 DEF CalendarNext

\* Once the 6 am job has run, an event untouched since midnight has the
\* reminders that fall on this day, whatever the leads, the length of the year
\* and the number of days that the 1 am job missed, as long as they are fewer
\* than a year less the longest lead (generateReminders, refreshStaleRecurring,
\* EventsService.update).
THEOREM RemindersAreThere == CalendarSpec => []RemindersAreDue
<1>1. CalendarInit => RemindInv
  BY DEF CalendarInit, RemindInv, Rolled, Live, StaleAreRead, JobsInOrder, Planned, Kept
<1>2. RemindInv => RemindersAreDue
  BY DEF RemindInv, Kept, RemindersAreDue, Due, Reminded, Tight
<1>3. CalendarKnows /\ RemindInv /\ [CalendarNext]_calendarVars => CalendarKnows' /\ RemindInv'
  BY CalendarGoesOn, RemindGoesOn
<1> QED
  BY <1>1, <1>2, <1>3, CalendarStarts, PTL DEF CalendarSpec

\* Both together: what the calendar holds for a person keeps up with the saves
\* of the person, the edits of its events and the days that go by.
THEOREM TheCalendarKeepsUp == CalendarSpec => []CalendarKeepsUp
BY TheAutoEventFollows, RemindersAreThere, PTL DEF CalendarKeepsUp

-----------------------------------------------------------------------------
(* PriceWatch.                                                             *)

-----------------------------------------------------------------------------
(* The price watch: what is stored, what was read, what was told.          *)

Looks == {"price", "search", "drop", "restock"}

WatchJob == [pc : {"idle", "next"} \cup Looks, rows : [Watched -> Wish], left : SUBSET Watched,
        checked : Int, on : Watched \cup {Idle.on}, new : Prices \cup {NoPrice}]

WatchShape ==
  /\ wish \in [Watched -> Wish]
  /\ market \in [Watched -> Prices \cup {NoPrice}]
  /\ told \in [Watched -> Prices \cup {NoPrice}]
  /\ watch \in WatchJob
  /\ watch.pc \in Looks => watch.on \in Watched

\* What was told last is no less than what is stored.
ToldIsStored ==
  \A s \in Watched : told[s] # NoPrice => wish[s].price # NoPrice /\ wish[s].price <= told[s]

\* Until its own check a suggestion has the price the job read.
RowsAreCurrent ==
  \A s \in Watched :
    s \in watch.left \/ (watch.pc \in {"price", "search"} /\ s = watch.on) => watch.rows[s].price = wish[s].price

LeftIsLeft == watch.pc \in Looks => watch.on \notin watch.left

DropIsNew ==
  watch.pc = "drop" => /\ watch.new # NoPrice /\ wish[watch.on].price = watch.new
                       /\ told[watch.on] = NoPrice \/ watch.new < told[watch.on]

WatchInv == WatchShape /\ ToldIsStored /\ RowsAreCurrent /\ LeftIsLeft /\ DropIsNew

LEMMA WatchStarts == WatchInit => WatchInv
<1> SUFFICES ASSUME WatchInit PROVE WatchInv
  OBVIOUS
<1>1. PICK found \in SUBSET Watched :
        wish = [s \in Watched |-> IF s \in found THEN [pick |-> "no", url |-> TRUE, price |-> market[s]]
                                  ELSE NewWish]
  BY DEF WatchInit
<1>2. market \in [Watched -> Prices] /\ watch = Idle /\ told = [s \in Watched |-> NoPrice]
  BY DEF WatchInit
<1>3. wish \in [Watched -> Wish]
  BY <1>1, <1>2 DEF Wish, NewWish
<1>4. NewWish \in Wish
  BY DEF NewWish, Wish
<1>5. watch \in WatchJob
  BY <1>2, <1>4 DEF Idle, WatchJob
<1>6. watch.pc = "idle" /\ watch.left = {}
  BY <1>2 DEF Idle
<1> QED
  BY <1>2, <1>3, <1>5, <1>6
  DEF WatchInv, WatchShape, ToldIsStored, RowsAreCurrent, LeftIsLeft, DropIsNew, Looks

\* Steps of the user and of the market.
LEMMA PickKeeps ==
  ASSUME WatchInv, NEW s \in Watched, NEW pick \in {"no", "picked", "ordered"}, WishPick(s, pick)
  PROVE  WatchInv'
<1>1. wish' = [wish EXCEPT ![s].pick = pick] /\ UNCHANGED <<market, watch, told>>
  BY DEF WishPick
<1>2. wish' \in [Watched -> Wish] /\ \A t \in Watched : wish'[t].price = wish[t].price
  BY <1>1 DEF WatchInv, WatchShape, Wish
<1>3. WatchShape'
  BY <1>1, <1>2 DEF WatchInv, WatchShape, WatchJob, Idle, NewWish
<1>4. ToldIsStored' /\ LeftIsLeft'
  BY <1>1, <1>2 DEF WatchInv, ToldIsStored, LeftIsLeft
<1>5. RowsAreCurrent'
  BY <1>1, <1>2 DEF WatchInv, RowsAreCurrent
<1>6. DropIsNew'
  BY <1>1, <1>2 DEF WatchInv, WatchShape, DropIsNew, Looks
<1> QED
  BY <1>3, <1>4, <1>5, <1>6 DEF WatchInv

LEMMA MarketKeeps ==
  ASSUME WatchInv, market' \in [Watched -> Prices \cup {NoPrice}], UNCHANGED <<wish, watch, told>>
  PROVE  WatchInv'
BY DEF WatchInv, WatchShape, ToldIsStored, RowsAreCurrent, LeftIsLeft, DropIsNew, Looks, WatchJob, Idle, NewWish

\* Steps of the job that store nothing.
LEMMA WatchJobGoes ==
  ASSUME WatchInv, UNCHANGED <<wish, market, told>>, watch' \in WatchJob, watch'.pc # "drop",
         watch'.pc \in Looks => watch'.on \in Watched \ watch'.left,
         \A s \in watch'.left : watch'.rows[s].price = wish[s].price,
         watch'.pc \in {"price", "search"} => watch'.rows[watch'.on].price = wish[watch'.on].price
  PROVE  WatchInv'
<1>1. WatchJob' = WatchJob
  BY DEF WatchJob, Idle, NewWish
<1>2. WatchShape'
  BY <1>1 DEF WatchInv, WatchShape, Looks
<1>3. ToldIsStored' /\ LeftIsLeft' /\ DropIsNew'
  BY DEF WatchInv, ToldIsStored, LeftIsLeft, DropIsNew
<1>4. RowsAreCurrent'
  BY DEF WatchInv, RowsAreCurrent
<1> QED
  BY <1>2, <1>3, <1>4 DEF WatchInv

LEMMA ReadsTheRows == WatchInv /\ WatchRead => WatchInv'
<1> SUFFICES ASSUME WatchInv, WatchRead PROVE WatchInv'
  OBVIOUS
<1>1. /\ watch' = [pc |-> "next", rows |-> wish, left |-> Candidates, checked |-> 0, on |-> Idle.on, new |-> NoPrice]
      /\ UNCHANGED <<wish, market, told>>
  BY DEF WatchRead, Idle
<1>2. Candidates \in SUBSET Watched /\ wish \in [Watched -> Wish]
  BY DEF Candidates, WatchInv, WatchShape
<1>3. watch' \in WatchJob
  BY <1>1, <1>2 DEF WatchJob
<1>4. watch'.pc = "next" /\ watch'.rows = wish
  BY <1>1
<1> QED
  BY <1>1, <1>3, <1>4, WatchJobGoes DEF Looks

LEMMA GoesIdle ==
  ASSUME WatchInv, watch' = Idle, UNCHANGED <<wish, market, told>>
  PROVE  WatchInv'
<1>1. NewWish \in Wish
  BY DEF NewWish, Wish
<1>2. watch' \in WatchJob
  BY <1>1 DEF WatchJob, Idle
<1>3. watch'.pc = "idle" /\ watch'.left = {}
  BY DEF Idle
<1> QED
  BY <1>2, <1>3, WatchJobGoes DEF Looks

LEMMA GoesOn ==
  ASSUME WatchInv, NEW pc \in {"next", "search"}, watch.pc \in Looks, pc = "search" => watch.pc = "price",
         watch' = [watch EXCEPT !.pc = pc], UNCHANGED <<wish, market, told>>
  PROVE  WatchInv'
<1>1. watch \in WatchJob /\ watch.on \in Watched \ watch.left
  BY DEF WatchInv, WatchShape, LeftIsLeft
<1>2. /\ watch' \in WatchJob /\ watch'.pc = pc /\ watch'.rows = watch.rows /\ watch'.left = watch.left
      /\ watch'.on = watch.on
  BY <1>1 DEF WatchJob, Looks
<1>3. \A s \in watch.left : watch.rows[s].price = wish[s].price
  BY <1>1 DEF WatchInv, RowsAreCurrent, WatchJob
<1>4. pc = "search" => watch.rows[watch.on].price = wish[watch.on].price
  BY <1>1 DEF WatchInv, RowsAreCurrent
<1> QED
  BY <1>1, <1>2, <1>3, <1>4, WatchJobGoes

LEMMA NextKeeps ==
  ASSUME WatchInv, NEW s \in Watched, CheckNext(s)
  PROVE  WatchInv'
<1> DEFINE pc == IF watch.rows[s].url THEN "price" ELSE "search"
<1>1. /\ s \in watch.left /\ UNCHANGED <<wish, market, told>>
      /\ watch' = [watch EXCEPT !.on = s, !.left = @ \ {s}, !.checked = @ + 1, !.pc = pc]
  BY DEF CheckNext
<1>2. pc \in {"price", "search"}
  OBVIOUS
<1> HIDE DEF pc
<1>3. watch \in WatchJob
  BY DEF WatchInv, WatchShape
<1>4. /\ watch' \in WatchJob /\ watch'.pc = pc /\ watch'.rows = watch.rows
      /\ watch'.left = watch.left \ {s} /\ watch'.on = s
  <2> DEFINE left == watch.left \ {s}
             checked == watch.checked + 1
  <2>1. left \in SUBSET Watched /\ checked \in Int
    BY <1>3 DEF WatchJob
  <2>2. watch' = [watch EXCEPT !.on = s, !.left = left, !.checked = checked, !.pc = pc]
    BY <1>1, <1>3 DEF WatchJob
  <2> HIDE DEF left, checked
  <2>3. watch' = [pc |-> pc, rows |-> watch.rows, left |-> left, checked |-> checked, on |-> s, new |-> watch.new]
    BY <1>3, <2>2 DEF WatchJob
  <2>4. watch.rows \in [Watched -> Wish] /\ watch.new \in Prices \cup {NoPrice}
    BY <1>3 DEF WatchJob
  <2> QED
    BY <1>2, <2>1, <2>3, <2>4 DEF WatchJob, Looks, left
<1>5. \A t \in watch.left : watch.rows[t].price = wish[t].price
  BY <1>3 DEF WatchInv, RowsAreCurrent, WatchJob
<1> QED
  BY <1>1, <1>2, <1>4, <1>5, WatchJobGoes

-----------------------------------------------------------------------------
(* The steps that store a price, and the one that tells of it.             *)

LEMMA StoreKeeps ==
  ASSUME WatchInv, watch.pc \in {"price", "search"}, UNCHANGED market,
         NEW url \in BOOLEAN, NEW price \in Prices \cup {NoPrice}, NEW pc \in {"next", "drop", "restock"},
         pc = "drop" => price # NoPrice /\ MeaningfulDrop(Known.price, price),
         Store(url, price, pc)
  PROVE  WatchInv'
<1> DEFINE on == watch.on
<1>1. /\ on \in Watched \ watch.left /\ wish \in [Watched -> Wish]
      /\ told \in [Watched -> Prices \cup {NoPrice}] /\ watch.rows \in [Watched -> Wish]
  BY DEF WatchInv, WatchShape, LeftIsLeft, Looks, WatchJob
<1>2. /\ wish' = [wish EXCEPT ![on].url = url, ![on].price = price]
      /\ watch' = [watch EXCEPT !.pc = pc, !.new = price]
      /\ told' = IF price = NoPrice \/ (told[on] # NoPrice /\ price > told[on])
                 THEN [told EXCEPT ![on] = NoPrice] ELSE told
  BY DEF Store
<1>3. /\ wish' \in [Watched -> Wish] /\ wish'[on].price = price
      /\ \A s \in Watched \ {on} : wish'[s] = wish[s]
  <2> DEFINE mid == [wish[on] EXCEPT !.url = url]
  <2>1. mid \in Wish
    BY <1>1 DEF Wish
  <2>2. wish' = [wish EXCEPT ![on] = [mid EXCEPT !.price = price]]
    BY <1>1, <1>2
  <2> HIDE DEF mid
  <2>3. [mid EXCEPT !.price = price] \in Wish /\ [mid EXCEPT !.price = price].price = price
    BY <2>1 DEF Wish
  <2> QED
    BY <1>1, <2>2, <2>3
<1>4. /\ watch' \in WatchJob
      /\ watch'.pc = pc /\ watch'.new = price /\ watch'.on = on /\ watch'.left = watch.left
      /\ watch'.rows = watch.rows
  BY <1>2 DEF WatchInv, WatchShape, Looks, WatchJob
<1>5. WatchJob' = WatchJob
  BY DEF WatchJob, Idle, NewWish
<1>6. told' \in [Watched -> Prices \cup {NoPrice}]
  BY <1>1, <1>2
<1>7. WatchShape'
  BY <1>1, <1>3, <1>4, <1>5, <1>6 DEF WatchInv, WatchShape
<1>8. \A s \in Watched \ {on} : told'[s] = told[s]
  BY <1>1, <1>2
<1>9. told'[on] # NoPrice => told'[on] = told[on] /\ price # NoPrice /\ price <= told[on]
  BY <1>1, <1>2, PriceWatchAssumption
<1> HIDE DEF on
<1>10. ToldIsStored'
  BY <1>1, <1>3, <1>8, <1>9 DEF WatchInv, ToldIsStored
<1>11. RowsAreCurrent'
  BY <1>1, <1>3, <1>4 DEF WatchInv, RowsAreCurrent
<1>12. LeftIsLeft'
  BY <1>1, <1>4 DEF LeftIsLeft
<1>13. DropIsNew'
  <2> SUFFICES ASSUME pc = "drop" PROVE price # NoPrice /\ (told'[on] = NoPrice \/ price < told'[on])
    BY <1>3, <1>4 DEF DropIsNew
  <2>1. /\ watch.rows[on].price # NoPrice /\ price * 10 <= watch.rows[on].price * 9 /\ price # NoPrice
    BY DEF MeaningfulDrop, Known, on
  <2>2. watch.rows[on].price = wish[on].price
    BY <1>1 DEF WatchInv, RowsAreCurrent, on
  <2>3. watch.rows[on].price \in Prices
    BY <1>1, <2>1 DEF Wish
  <2>4. ASSUME told'[on] # NoPrice PROVE price < told'[on]
    <3>1. told'[on] = told[on] /\ told[on] # NoPrice
      BY <1>9, <2>4
    <3>2. wish[on].price <= told[on]
      BY <1>1, <3>1 DEF WatchInv, ToldIsStored
    <3>3. told[on] \in Nat /\ price \in Nat /\ watch.rows[on].price \in Nat \ {0}
      BY <1>1, <2>1, <2>3, <3>1, PriceWatchAssumption
    <3> QED
      BY <2>1, <2>2, <3>1, <3>2, <3>3
  <2> QED
    BY <2>1, <2>4
<1> QED
  BY <1>7, <1>10, <1>11, <1>12, <1>13 DEF WatchInv

LEMMA PriceKeeps == WatchInv /\ CheckPrice => WatchInv'
<1> SUFFICES ASSUME WatchInv, CheckPrice PROVE WatchInv'
  OBVIOUS
<1>1. watch.pc = "price" /\ UNCHANGED market
  BY DEF CheckPrice
<1>2. watch.on \in Watched
  BY <1>1 DEF WatchInv, WatchShape, Looks
<1>3. PICK screen \in Pages(watch.on) :
        IF screen[2] # NoPrice
        THEN Store(wish[watch.on].url, screen[2],
                   IF MeaningfulDrop(Known.price, screen[2]) THEN "drop" ELSE "next")
        ELSE /\ watch' = [watch EXCEPT !.pc = IF screen[1] = "gone" THEN "search" ELSE "next"]
             /\ UNCHANGED <<wish, told>>
  BY DEF CheckPrice
<1>4. screen[2] \in Prices \cup {NoPrice}
  BY <1>2 DEF Pages, WatchInv, WatchShape
<1>5. wish[watch.on].url \in BOOLEAN
  BY <1>2 DEF WatchInv, WatchShape, Wish
<1>6. CASE screen[2] # NoPrice
  <2>1. CASE MeaningfulDrop(Known.price, screen[2])
    BY <1>1, <1>3, <1>4, <1>5, <1>6, <2>1, StoreKeeps
  <2>2. CASE ~MeaningfulDrop(Known.price, screen[2])
    BY <1>1, <1>3, <1>4, <1>5, <1>6, <2>2, StoreKeeps
  <2> QED
    BY <2>1, <2>2
<1>7. CASE screen[2] = NoPrice
  <2>1. CASE screen[1] = "gone"
    BY <1>1, <1>3, <1>7, <2>1, GoesOn DEF Looks
  <2>2. CASE screen[1] # "gone"
    BY <1>1, <1>3, <1>7, <2>2, GoesOn DEF Looks
  <2> QED
    BY <2>1, <2>2
<1> QED
  BY <1>6, <1>7

LEMMA SearchKeeps == WatchInv /\ CheckSearch => WatchInv'
<1> SUFFICES ASSUME WatchInv, CheckSearch PROVE WatchInv'
  OBVIOUS
<1>1. watch.pc = "search" /\ UNCHANGED market
  BY DEF CheckSearch
<1>2. watch.on \in Watched
  BY <1>1 DEF WatchInv, WatchShape, Looks
<1>3. market[watch.on] \in Prices \cup {NoPrice}
  BY <1>2 DEF WatchInv, WatchShape
<1>4. CASE Store(FALSE, NoPrice, "next")
  BY <1>1, <1>4, StoreKeeps
<1>5. CASE watch' = [watch EXCEPT !.pc = "next"] /\ UNCHANGED <<wish, told>>
  BY <1>1, <1>5, GoesOn DEF Looks
<1>6. ASSUME NEW price \in {NoPrice, market[watch.on]}, Store(TRUE, price, "restock") PROVE WatchInv'
  BY <1>1, <1>3, <1>6, StoreKeeps
<1> QED
  BY <1>4, <1>5, <1>6 DEF CheckSearch

LEMMA TellKeeps == WatchInv /\ TellDrop => WatchInv'
<1> SUFFICES ASSUME WatchInv, TellDrop PROVE WatchInv'
  OBVIOUS
<1>1. /\ watch.pc = "drop" /\ told' = [told EXCEPT ![watch.on] = watch.new]
      /\ watch' = [watch EXCEPT !.pc = "next"] /\ UNCHANGED <<wish, market>>
  BY DEF TellDrop
<1>2. watch.on \in Watched /\ watch.new \in Prices \cup {NoPrice}
  BY <1>1 DEF WatchInv, WatchShape, Looks, WatchJob
<1>3. /\ watch' \in WatchJob
      /\ watch'.pc = "next" /\ watch'.left = watch.left /\ watch'.rows = watch.rows
  BY <1>1 DEF WatchInv, WatchShape, WatchJob
<1>4. told' \in [Watched -> Prices \cup {NoPrice}]
  BY <1>1, <1>2 DEF WatchInv, WatchShape
<1>5. WatchJob' = WatchJob
  BY DEF WatchJob, Idle, NewWish
<1>6. WatchShape'
  BY <1>1, <1>3, <1>4, <1>5 DEF WatchInv, WatchShape, Looks
<1>7. wish[watch.on].price = watch.new /\ watch.new # NoPrice /\ watch.new \in Nat
  BY <1>1, <1>2, PriceWatchAssumption DEF WatchInv, DropIsNew
<1>8. ToldIsStored'
  BY <1>1, <1>2, <1>7 DEF WatchInv, WatchShape, ToldIsStored
<1>9. RowsAreCurrent' /\ LeftIsLeft' /\ DropIsNew'
  BY <1>1, <1>3 DEF WatchInv, RowsAreCurrent, LeftIsLeft, DropIsNew, Looks
<1> QED
  BY <1>6, <1>8, <1>9 DEF WatchInv

LEMMA WatchKeeps == WatchInv /\ [WatchNext]_watchVars => WatchInv'
<1> SUFFICES ASSUME WatchInv, [WatchNext]_watchVars PROVE WatchInv'
  OBVIOUS
<1>1. ASSUME NEW s \in Watched, NEW pick \in {"no", "picked", "ordered"}, WishPick(s, pick) PROVE WatchInv'
  BY <1>1, PickKeeps
<1>2. ASSUME NEW s \in Watched, NEW price \in Prices \cup {NoPrice}, MarketMove(s, price) PROVE WatchInv'
  <2>1. market' = [market EXCEPT ![s] = price] /\ UNCHANGED <<wish, watch, told>>
    BY <1>2 DEF MarketMove
  <2>2. market' \in [Watched -> Prices \cup {NoPrice}]
    BY <2>1 DEF WatchInv, WatchShape
  <2> QED
    BY <2>1, <2>2, MarketKeeps
<1>3. ASSUME NEW s \in Watched, CheckNext(s) PROVE WatchInv'
  BY <1>3, NextKeeps
<1>4. CASE CheckDone \/ WatchRestart
  BY <1>4, GoesIdle DEF CheckDone, WatchRestart
<1>5. CASE TellRestock
  BY <1>5, GoesOn DEF TellRestock, Looks
<1>6. CASE UNCHANGED watchVars
  BY <1>6, MarketKeeps DEF watchVars, WatchInv, WatchShape
<1> QED
  BY <1>1, <1>2, <1>3, <1>4, <1>5, <1>6, ReadsTheRows, PriceKeeps, SearchKeeps, TellKeeps DEF WatchNext

\* A notice of a drop names a price below that of the notice before it, unless
\* a higher price, or none, was stored in between: for any number of picks, any
\* market and any restarts (checkOne of the price watch).
THEOREM ADropIsToldOnce == WatchSpec => DropsAreToldOnce
<1>1. WatchInv => (TellDrop => told[watch.on] = NoPrice \/ watch.new < told[watch.on])
  BY DEF WatchInv, DropIsNew, TellDrop
<1> QED
  BY <1>1, WatchStarts, WatchKeeps, PTL DEF WatchSpec, DropsAreToldOnce

-----------------------------------------------------------------------------
(* Exchanges.                                                              *)

-----------------------------------------------------------------------------
(* The Secret Santa exchange: the search, and who gives to whom.           *)

ExchangeShape ==
  /\ participant \subseteq Members /\ IsFiniteSet(participant)
  /\ status \in {"open", "assigned"}
  /\ target \in [Members -> Members \cup {Nobody}]
  /\ draw \in [Draws -> Draw]

\* Everybody of P gives to somebody else of P who may get from them, and no two
\* to the same one.
Matches(P, a) ==
  /\ \A m \in P : a[m] \in P /\ MayGive(m, a[m])
  /\ \A m, k \in P : a[m] = a[k] => m = k

\* The same by places in an order: order[i] gives to order[to[i]].
Fits(order, to) ==
  /\ to \in [1 .. Len(order) -> 1 .. Len(order)]
  /\ \A i, j \in 1 .. Len(order) : to[i] = to[j] => i = j
  /\ \A i \in 1 .. Len(order) : MayGive(order[i], order[to[i]])

\* The picks so far: distinct, valid, and exactly the receivers in use.
PicksFit(w) ==
  /\ w.order \in Orders(w.read)
  /\ w.picks \in Seq(1 .. Len(w.order)) /\ Len(w.picks) <= Len(w.order)
  /\ w.next \in 1 .. Len(w.order) + 1
  /\ \A i \in 1 .. Len(w.picks) : MayGive(w.order[i], w.order[w.picks[i]])
  /\ \A i, j \in 1 .. Len(w.picks) : w.picks[i] = w.picks[j] => i = j
  /\ \A m : m \in w.used <=> \E i \in 1 .. Len(w.picks) : m = w.order[w.picks[i]]

\* Where the loop of the k-th giver is.
Reached(w, k) == IF k <= Len(w.picks) THEN w.picks[k] ELSE w.next

\* Nothing that fits has been passed over: where it parts from the picks, the
\* loop has still to come to it.
NoneMissed(w) ==
  \A to : Fits(w.order, to) =>
    \A k \in 1 .. Len(w.picks) + 1 :
      k <= Len(w.order) /\ (\A i \in 1 .. k - 1 : to[i] = w.picks[i]) => Reached(w, k) <= to[k]

SearchInv(w) ==
  /\ IsFiniteSet(w.read)
  /\ w.pc \in {"new", "read"} => w.picks = <<>> /\ w.used = {} /\ w.next = 1
  /\ w.pc = "search" => PicksFit(w) /\ NoneMissed(w)
  /\ w.pc = "found" => Matches(w.read, w.pairs)
  /\ w.pc = "refused" => Assignments(w.read) = {}

Searches == \A d \in Draws : SearchInv(draw[d])

\* A draw that may still write has read everybody but those who joined while it
\* was under way; so has one that wrote.
ReadsAreFair ==
  \A d \in Draws : draw[d].pc \in {"read", "search", "found", "done"} =>
     draw[d].read \subseteq participant /\ participant \ late \subseteq draw[d].read

\* Nobody is paired before a draw has written.
Written ==
  /\ \A d \in Draws : draw[d].pc = "done" => status = "assigned"
  /\ status = "assigned" => \E d \in Draws : draw[d].pc = "done"
  /\ status = "open" => \A m \in Members : target[m] = Nobody

\* Draws that read the same participants have paired those, and nobody else.
Circle ==
  SameReading => \A d \in Draws : draw[d].pc = "done" =>
    /\ Matches(draw[d].read, target)
    /\ \A m \in Members \ draw[d].read : target[m] = Nobody

ExchangeInv == ExchangeShape /\ Searches /\ ReadsAreFair /\ Written /\ Circle

-----------------------------------------------------------------------------
(* Orders and places.                                                      *)

\* An order is a list of all of P, each once.
LEMMA OrderLists ==
  ASSUME NEW P, IsFiniteSet(P), NEW o \in Orders(P)
  PROVE  /\ o \in Seq(P) /\ Len(o) \in Nat /\ DOMAIN o = 1 .. Len(o)
         /\ \A i, j \in 1 .. Len(o) : o[i] = o[j] => i = j
         /\ \A i \in 1 .. Len(o) : o[i] \in P
         /\ \A m \in P : \E i \in 1 .. Len(o) : o[i] = m
<1> DEFINE n == Cardinality(P)
<1>1. n \in Nat
  BY FS_CardinalityType
<1>2. /\ o \in [1 .. n -> P]
      /\ \A i, j \in 1 .. n : o[i] = o[j] => i = j
      /\ \A m \in P : \E i \in 1 .. n : o[i] = m
  BY DEF Orders, Bijection, Injection, Surjection, IsInjective
<1> HIDE DEF n
<1>3. o \in Seq(P) /\ Len(o) = n
  BY <1>1, <1>2
<1> QED
  BY <1>1, <1>2, <1>3

\* What fits by places is an assignment.
LEMMA PlacesMatch ==
  ASSUME NEW P, P \subseteq Members, IsFiniteSet(P), NEW o \in Orders(P), NEW to, Fits(o, to)
  PROVE  Pairs(o, to) \in [Members -> Members \cup {Nobody}] /\ Matches(P, Pairs(o, to))
<1>1. /\ DOMAIN o = 1 .. Len(o)
      /\ \A i, j \in 1 .. Len(o) : o[i] = o[j] => i = j
      /\ \A i \in 1 .. Len(o) : o[i] \in P
      /\ \A m \in P : \E i \in 1 .. Len(o) : o[i] = m
  BY OrderLists
<1> DEFINE At(m) == CHOOSE i \in DOMAIN o : o[i] = m
<1>2. \A m \in P : At(m) \in 1 .. Len(o) /\ o[At(m)] = m
  BY <1>1
<1>3. Pairs(o, to) = [m \in Members |-> IF \E i \in DOMAIN o : o[i] = m THEN o[to[At(m)]] ELSE Nobody]
  BY DEF Pairs
<1> HIDE DEF At
<1>4. \A m \in P : Pairs(o, to)[m] = o[to[At(m)]]
  BY <1>1, <1>3
<1>5. \A m \in P : to[At(m)] \in 1 .. Len(o) /\ MayGive(m, o[to[At(m)]])
  BY <1>2 DEF Fits
<1>6. \A m \in P : Pairs(o, to)[m] \in P /\ MayGive(m, Pairs(o, to)[m])
  BY <1>1, <1>4, <1>5
<1>7. ASSUME NEW m \in P, NEW k \in P, Pairs(o, to)[m] = Pairs(o, to)[k] PROVE m = k
  <2>1. to[At(m)] = to[At(k)]
    BY <1>1, <1>4, <1>5, <1>7
  <2>2. At(m) = At(k)
    BY <1>2, <2>1 DEF Fits
  <2> QED
    BY <1>2, <2>2
<1>8. \A m \in Members : Pairs(o, to)[m] \in Members \cup {Nobody}
  <2> SUFFICES ASSUME NEW m \in Members PROVE Pairs(o, to)[m] \in Members \cup {Nobody}
    OBVIOUS
  <2>1. CASE m \in P
    BY <1>6, <2>1
  <2>2. CASE m \notin P
    BY <1>1, <1>3, <2>2
  <2> QED
    BY <2>1, <2>2
<1>9. Pairs(o, to) \in [Members -> Members \cup {Nobody}]
  BY <1>3, <1>8
<1> QED
  BY <1>6, <1>7, <1>9 DEF Matches

\* An assignment fits by places.
LEMMA AssignmentsFit ==
  ASSUME NEW P, IsFiniteSet(P), NEW o \in Orders(P), NEW a \in Assignments(P)
  PROVE  \E to : Fits(o, to)
<1>1. /\ \A i, j \in 1 .. Len(o) : o[i] = o[j] => i = j
      /\ \A i \in 1 .. Len(o) : o[i] \in P
      /\ \A m \in P : \E i \in 1 .. Len(o) : o[i] = m
  BY OrderLists
<1>2. /\ a \in [P -> P] /\ \A m, k \in P : a[m] = a[k] => m = k
      /\ \A m \in P : MayGive(m, a[m])
  BY DEF Assignments, Injection, IsInjective
<1> DEFINE to == [i \in 1 .. Len(o) |-> CHOOSE j \in 1 .. Len(o) : o[j] = a[o[i]]]
<1>3. ASSUME NEW i \in 1 .. Len(o) PROVE to[i] \in 1 .. Len(o) /\ o[to[i]] = a[o[i]]
  <2>1. a[o[i]] \in P
    BY <1>1, <1>2
  <2> QED
    BY <1>1, <2>1
<1>4. to \in [1 .. Len(o) -> 1 .. Len(o)]
  BY <1>3
<1> HIDE DEF to
<1>5. \A i, j \in 1 .. Len(o) : to[i] = to[j] => i = j
  BY <1>1, <1>2, <1>3
<1>6. \A i \in 1 .. Len(o) : MayGive(o[i], o[to[i]])
  BY <1>1, <1>2, <1>3
<1> QED
  BY <1>4, <1>5, <1>6 DEF Fits

\* A valid shuffle fits.
LEMMA RoundFits ==
  ASSUME NEW P, IsFiniteSet(P), NEW o \in Orders(P), RoundIsValid(o)
  PROVE  Fits(o, Round(Len(o)))
<1>1. Len(o) \in Nat /\ DOMAIN o = 1 .. Len(o)
  BY OrderLists
<1>2. Round(Len(o)) \in [1 .. Len(o) -> 1 .. Len(o)]
  BY <1>1 DEF Round
<1>3. \A i, j \in 1 .. Len(o) : Round(Len(o))[i] = Round(Len(o))[j] => i = j
  <2> DEFINE n == Len(o)
  <2>1. \A i \in 1 .. n : Round(n)[i] = IF i = n THEN 1 ELSE i + 1
    BY DEF Round
  <2>2. n \in Nat
    BY <1>1
  <2> HIDE DEF n
  <2>3. \A i, j \in 1 .. n : Round(n)[i] = Round(n)[j] => i = j
    BY <2>1, <2>2
  <2> QED
    BY <2>3 DEF n
<1>4. \A i \in 1 .. Len(o) : MayGive(o[i], o[Round(Len(o))[i]])
  BY <1>1 DEF RoundIsValid
<1> QED
  BY <1>2, <1>3, <1>4 DEF Fits

\* In a match of finitely many everybody is given to.
LEMMA EverybodyGets ==
  ASSUME NEW P, IsFiniteSet(P), NEW a, Matches(P, a)
  PROVE  {a[m] : m \in P} = P
<1> DEFINE b == [m \in P |-> a[m]]
<1>1. b \in Injection(P, P)
  BY DEF Matches, Injection, IsInjective
<1>2. b \in Surjection(P, P)
  BY <1>1, FS_Injection
<1>3. \A k \in P : \E m \in P : b[m] = k
  BY <1>2 DEF Surjection
<1>4. \A m \in P : b[m] = a[m] /\ a[m] \in P
  BY DEF Matches
<1> HIDE DEF b
<1> QED
  BY <1>3, <1>4

-----------------------------------------------------------------------------
(* The steps of the search.                                                *)

\* What is still to try for the next giver.
LEMMA StillToTry ==
  ASSUME NEW w \in Draw, PicksFit(w), IsFiniteSet(w.read), NoneMissed(w),
         NEW to, Fits(w.order, to), Len(w.picks) < Len(w.order),
         \A i \in 1 .. Len(w.picks) : to[i] = w.picks[i]
  PROVE  to[Len(w.picks) + 1] \in Receivers(w)
<1> DEFINE k == Len(w.picks) + 1
           n == Len(w.order)
<1>1. /\ n \in Nat /\ k \in 1 .. n
      /\ \A i, j \in 1 .. n : w.order[i] = w.order[j] => i = j
      /\ w.picks \in Seq(1 .. n) /\ Len(w.picks) \in Nat
  BY OrderLists DEF PicksFit
<1>2. to \in [1 .. n -> 1 .. n] /\ (\A i, j \in 1 .. n : to[i] = to[j] => i = j)
      /\ MayGive(w.order[k], w.order[to[k]])
  BY <1>1 DEF Fits
<1>3. w.next <= to[k]
  <2>1. ~(k <= Len(w.picks)) /\ \A i \in 1 .. k - 1 : to[i] = w.picks[i]
    BY <1>1
  <2>2. k <= n /\ k \in 1 .. Len(w.picks) + 1
    BY <1>1
  <2>3. Reached(w, k) <= to[k]
    BY <2>1, <2>2 DEF NoneMissed
  <2> QED
    BY <2>1, <2>3 DEF Reached
<1>4. w.order[to[k]] \notin w.used
  <2> SUFFICES ASSUME NEW i \in 1 .. Len(w.picks), w.order[to[k]] = w.order[w.picks[i]] PROVE FALSE
    BY DEF PicksFit
  <2>1. i \in 1 .. n /\ i # k /\ to[i] = w.picks[i] /\ w.picks[i] \in 1 .. n
    BY <1>1
  <2>2. to[k] \in 1 .. n
    BY <1>1, <1>2
  <2>3. to[k] = w.picks[i]
    BY <1>1, <2>1, <2>2
  <2> QED
    BY <1>1, <1>2, <2>1, <2>3
<1>5. w.next \in Nat /\ to[k] \in 1 .. n
  BY <1>1, <1>2 DEF PicksFit
<1> QED
  BY <1>1, <1>2, <1>3, <1>4, <1>5 DEF Receivers

LEMMA TakeKeeps ==
  ASSUME NEW w \in Draw, PicksFit(w), IsFiniteSet(w.read), NoneMissed(w), Len(w.picks) < Len(w.order),
         NEW r \in Receivers(w), \A j \in Receivers(w) : r <= j,
         NEW x, x.read = w.read, x.order = w.order, x.picks = Append(w.picks, r),
         x.next = 1, x.used = w.used \cup {w.order[r]}
  PROVE  PicksFit(x) /\ NoneMissed(x)
<1> DEFINE k == Len(w.picks) + 1
           n == Len(w.order)
<1>0. n \in Nat /\ \A i, j \in 1 .. n : w.order[i] = w.order[j] => i = j
  <2>1. w.order \in Orders(w.read)
    BY DEF PicksFit
  <2> QED
    BY <2>1, OrderLists
<1>1. /\ n \in Nat /\ k \in 1 .. n
      /\ w.picks \in Seq(1 .. n) /\ Len(w.picks) \in Nat
      /\ \A i, j \in 1 .. n : w.order[i] = w.order[j] => i = j
  BY <1>0 DEF PicksFit
<1>2. r \in 1 .. n /\ w.order[r] \notin w.used /\ MayGive(w.order[k], w.order[r])
  <2>1. r \in w.next .. n /\ w.order[r] \notin w.used /\ MayGive(w.order[k], w.order[r])
    BY DEF Receivers
  <2>2. w.next \in 1 .. n + 1
    BY DEF PicksFit
  <2> QED
    BY <1>1, <2>1, <2>2
<1>3. /\ x.picks \in Seq(1 .. n) /\ Len(x.picks) = k /\ x.picks[k] = r
      /\ \A i \in 1 .. Len(w.picks) : x.picks[i] = w.picks[i]
  BY <1>1, <1>2
<1>4. \A i \in 1 .. k : i = k \/ i \in 1 .. Len(w.picks)
  BY <1>1
<1>5. \A i \in 1 .. Len(w.picks) : w.picks[i] # r
  BY <1>2 DEF PicksFit
<1>6. PicksFit(x)
  <2>1. x.order \in Orders(x.read) /\ x.picks \in Seq(1 .. Len(x.order)) /\ Len(x.picks) <= Len(x.order)
        /\ x.next \in 1 .. Len(x.order) + 1
    BY <1>1, <1>3 DEF PicksFit
  <2>2. \A i \in 1 .. k : MayGive(w.order[i], w.order[x.picks[i]])
    BY <1>2, <1>3, <1>4 DEF PicksFit
  <2>3. \A i, j \in 1 .. k : x.picks[i] = x.picks[j] => i = j
    BY <1>3, <1>4, <1>5 DEF PicksFit
  <2>4. ASSUME NEW m PROVE m \in x.used <=> \E i \in 1 .. k : m = w.order[x.picks[i]]
    <3>1. m \in w.used <=> \E i \in 1 .. Len(w.picks) : m = w.order[w.picks[i]]
      BY DEF PicksFit
    <3>2. k \in 1 .. k /\ \A i \in 1 .. Len(w.picks) : i \in 1 .. k
      BY <1>1
    <3> QED
      BY <1>3, <1>4, <3>1, <3>2
  <2>5. x.order = w.order /\ Len(x.picks) = k
    BY <1>3
  <2>6. /\ \A i \in 1 .. Len(x.picks) : MayGive(x.order[i], x.order[x.picks[i]])
        /\ \A i, j \in 1 .. Len(x.picks) : x.picks[i] = x.picks[j] => i = j
    BY <2>2, <2>3, <2>5
  <2>7. \A m : m \in x.used <=> \E i \in 1 .. Len(x.picks) : m = x.order[x.picks[i]]
    BY <2>4, <2>5
  <2> QED
    BY <2>1, <2>6, <2>7 DEF PicksFit
<1>7. NoneMissed(x)
  <2> SUFFICES ASSUME NEW to, Fits(w.order, to), NEW j \in 1 .. k + 1, j <= n,
                      \A i \in 1 .. j - 1 : to[i] = x.picks[i]
               PROVE  Reached(x, j) <= to[j]
    BY <1>3 DEF NoneMissed
  <2>1. to \in [1 .. n -> 1 .. n]
    BY DEF Fits
  <2>2. CASE j = k + 1
    BY <1>1, <1>3, <2>1, <2>2 DEF Reached
  <2>3. CASE j = k
    <3>1. \A i \in 1 .. Len(w.picks) : to[i] = w.picks[i]
      BY <1>1, <1>3, <2>3
    <3>2. to[k] \in Receivers(w)
      BY <3>1, StillToTry
    <3> QED
      BY <1>1, <1>3, <2>3, <3>2 DEF Reached
  <2>4. CASE j < k
    <3>1. j \in 1 .. Len(w.picks) + 1 /\ j \in 1 .. Len(w.picks) /\ j <= Len(w.picks) /\ j <= k
      BY <1>1, <2>4
    <3>2. \A i \in 1 .. j - 1 : to[i] = w.picks[i]
      BY <1>1, <1>3, <3>1
    <3>3. Reached(w, j) <= to[j]
      BY <3>1, <3>2 DEF NoneMissed
    <3> QED
      BY <1>3, <3>1, <3>3 DEF Reached
  <2> QED
    BY <1>1, <2>2, <2>3, <2>4
<1> QED
  BY <1>6, <1>7

LEMMA BackKeeps ==
  ASSUME NEW w \in Draw, PicksFit(w), IsFiniteSet(w.read), NoneMissed(w), Len(w.picks) < Len(w.order),
         Receivers(w) = {}, w.picks # <<>>,
         NEW x, x.read = w.read, x.order = w.order,
         x.picks = SubSeq(w.picks, 1, Len(w.picks) - 1), x.next = w.picks[Len(w.picks)] + 1,
         x.used = w.used \ {w.order[w.picks[Len(w.picks)]]}
  PROVE  PicksFit(x) /\ NoneMissed(x)
<1> DEFINE k == Len(w.picks)
           n == Len(w.order)
<1>0. n \in Nat /\ \A i, j \in 1 .. n : w.order[i] = w.order[j] => i = j
  <2>1. w.order \in Orders(w.read)
    BY DEF PicksFit
  <2> QED
    BY <2>1, OrderLists
<1>1. /\ n \in Nat /\ w.picks \in Seq(1 .. n) /\ k \in 1 .. n /\ k < n
      /\ \A i \in 1 .. k : w.picks[i] \in 1 .. n
      /\ \A i, j \in 1 .. n : w.order[i] = w.order[j] => i = j
  BY <1>0 DEF PicksFit
<1>2. /\ x.picks \in Seq(1 .. n) /\ Len(x.picks) = k - 1
      /\ \A i \in 1 .. k - 1 : x.picks[i] = w.picks[i]
  BY <1>1
<1>3. (\A i \in 1 .. k : i = k \/ i \in 1 .. k - 1) /\ \A i \in 1 .. k - 1 : i \in 1 .. k
  BY <1>1
<1>4. PicksFit(x)
  <2>1. x.order \in Orders(x.read) /\ x.picks \in Seq(1 .. Len(x.order)) /\ Len(x.picks) <= Len(x.order)
        /\ x.next \in 1 .. Len(x.order) + 1
    <3>1. x.order \in Orders(x.read) /\ x.picks \in Seq(1 .. Len(x.order))
      BY <1>2 DEF PicksFit
    <3>2. w.picks[k] \in 1 .. n /\ x.next = w.picks[k] + 1 /\ Len(x.picks) = k - 1
      BY <1>1, <1>2
    <3> QED
      BY <1>1, <3>1, <3>2
  <2>2. \A i \in 1 .. k - 1 : MayGive(w.order[i], w.order[x.picks[i]])
    BY <1>1, <1>2 DEF PicksFit
  <2>3. \A i, j \in 1 .. k - 1 : x.picks[i] = x.picks[j] => i = j
    BY <1>2, <1>3 DEF PicksFit
  <2>4. ASSUME NEW m PROVE m \in x.used <=> \E i \in 1 .. k - 1 : m = w.order[x.picks[i]]
    <3>1. m \in w.used <=> \E i \in 1 .. k : m = w.order[w.picks[i]]
      BY DEF PicksFit
    <3>2. \A i \in 1 .. k - 1 : w.order[w.picks[i]] # w.order[w.picks[k]]
      <4> TAKE i \in 1 .. k - 1
      <4>1. i \in 1 .. k /\ k \in 1 .. k /\ i # k
        BY <1>1
      <4>2. w.picks[i] # w.picks[k]
        BY <4>1 DEF PicksFit
      <4> QED
        BY <1>1, <4>1, <4>2
    <3>3. \A i \in 1 .. k - 1 : i \in 1 .. k
      BY <1>1
    <3> QED
      BY <1>2, <1>3, <3>1, <3>2, <3>3
  <2>5. x.order = w.order /\ Len(x.picks) = k - 1
    BY <1>2
  <2>6. /\ \A i \in 1 .. Len(x.picks) : MayGive(x.order[i], x.order[x.picks[i]])
        /\ \A i, j \in 1 .. Len(x.picks) : x.picks[i] = x.picks[j] => i = j
    BY <2>2, <2>3, <2>5
  <2>7. \A m : m \in x.used <=> \E i \in 1 .. Len(x.picks) : m = x.order[x.picks[i]]
    BY <2>4, <2>5
  <2> QED
    BY <2>1, <2>6, <2>7 DEF PicksFit
<1>5. NoneMissed(x)
  <2> SUFFICES ASSUME NEW to, Fits(w.order, to), NEW j \in 1 .. k, j <= n,
                      \A i \in 1 .. j - 1 : to[i] = x.picks[i]
               PROVE  Reached(x, j) <= to[j]
    BY <1>1, <1>2 DEF NoneMissed
  <2>1. \A i \in 1 .. j - 1 : to[i] = w.picks[i]
    <3>1. \A i \in 1 .. j - 1 : i \in 1 .. k - 1
      BY <1>1
    <3> QED
      BY <1>2, <3>1
  <2>2. j \in 1 .. Len(w.picks) + 1 /\ j <= Len(w.picks)
    BY <1>1
  <2>3. w.picks[j] <= to[j]
    BY <2>1, <2>2 DEF NoneMissed, Reached
  <2>4. to[j] \in 1 .. n /\ w.picks[j] \in 1 .. n
    <3>1. j \in 1 .. n /\ to \in [1 .. n -> 1 .. n]
      BY <1>1 DEF Fits
    <3> QED
      BY <1>1, <3>1
  <2>5. CASE j # k
    BY <1>1, <1>2, <2>3, <2>5 DEF Reached
  <2>6. CASE j = k
    <3>1. to[k] # w.picks[k]
      <4> SUFFICES ASSUME to[k] = w.picks[k] PROVE FALSE
        OBVIOUS
      <4>1. \A i \in 1 .. k : to[i] = w.picks[i]
        BY <1>3, <2>1, <2>6
      <4> QED
        BY <4>1, StillToTry
    <3>2. Reached(x, k) = w.picks[k] + 1
      BY <1>1, <1>2 DEF Reached
    <3> QED
      BY <2>3, <2>4, <2>6, <3>1, <3>2
  <2> QED
    BY <2>5, <2>6
<1> QED
  BY <1>4, <1>5

\* The first giver has nobody left to try: there is no assignment.
LEMMA RefusedForGood ==
  ASSUME NEW w \in Draw, PicksFit(w), IsFiniteSet(w.read), NoneMissed(w), Len(w.picks) < Len(w.order),
         Receivers(w) = {}, w.picks = <<>>
  PROVE  Assignments(w.read) = {}
<1> SUFFICES ASSUME NEW a \in Assignments(w.read) PROVE FALSE
  OBVIOUS
<1>1. PICK to : Fits(w.order, to)
  BY AssignmentsFit DEF PicksFit
<1>2. \A i \in 1 .. Len(w.picks) : to[i] = w.picks[i]
  OBVIOUS
<1> QED
  BY <1>1, <1>2, StillToTry

\* The search begins with nothing picked.
LEMMA FallBackStarts ==
  ASSUME NEW x, IsFiniteSet(x.read), x.order \in Orders(x.read),
         x.picks = <<>>, x.used = {}, x.next = 1
  PROVE  PicksFit(x) /\ NoneMissed(x)
<1>1. Len(x.order) \in Nat
  BY OrderLists
<1>2. x.picks \in Seq(1 .. Len(x.order)) /\ Len(x.picks) = 0
  OBVIOUS
<1>3. PicksFit(x)
  BY <1>1, <1>2 DEF PicksFit
<1>4. NoneMissed(x)
  <2> SUFFICES ASSUME NEW to, Fits(x.order, to), NEW j \in 1 .. 1, j <= Len(x.order)
               PROVE  Reached(x, j) <= to[j]
    BY <1>2 DEF NoneMissed
  <2> QED
    BY <1>1, <1>2 DEF Fits, Reached
<1> QED
  BY <1>3, <1>4

\* All have picked.
LEMMA AllPicked ==
  ASSUME NEW w \in Draw, PicksFit(w), IsFiniteSet(w.read), Len(w.picks) = Len(w.order)
  PROVE  Fits(w.order, w.picks)
<1>1. Len(w.order) \in Nat
  BY OrderLists DEF PicksFit
<1>2. w.picks \in [1 .. Len(w.order) -> 1 .. Len(w.order)]
  BY <1>1 DEF PicksFit
<1> QED
  BY <1>2 DEF PicksFit, Fits

-----------------------------------------------------------------------------
(* The exchange.                                                           *)

LEMMA ExchangeStarts == ExchangesInit => ExchangeInv
<1> SUFFICES ASSUME ExchangesInit PROVE ExchangeInv
  OBVIOUS
<1>1. IsFiniteSet({Organizer}) /\ IsFiniteSet({})
  BY FS_Singleton, FS_EmptySet
<1>2. NoPairs \in [Members -> Members \cup {Nobody}]
  BY DEF NoPairs
<1> DEFINE x == [pc |-> "new", read |-> {}, order |-> <<>>, picks |-> <<>>,
                used |-> {}, next |-> 1, pairs |-> NoPairs]
<1>3. /\ draw = [d \in Draws |-> x]
      /\ participant = {Organizer} /\ status = "open" /\ target = NoPairs
  BY DEF ExchangesInit
<1>4. /\ x \in Draw /\ x.pc = "new" /\ x.read = {}
      /\ x.picks = <<>> /\ x.used = {} /\ x.next = 1
  <2>1. <<>> \in Seq(Members) /\ <<>> \in Seq(Nat)
    OBVIOUS
  <2> QED
    BY <1>2, <2>1 DEF Draw
<1> HIDE DEF x
<1>5. ExchangeShape
  BY <1>1, <1>2, <1>3, <1>4, ExchangesAssumption DEF ExchangeShape
<1>6. Searches
  <2>1. SearchInv(x)
    BY <1>1, <1>4 DEF SearchInv
  <2> QED
    BY <1>3, <2>1 DEF Searches
<1>7. \A d \in Draws : draw[d].pc = "new"
  BY <1>3, <1>4
<1>8. status = "open" /\ \A m \in Members : target[m] = Nobody
  BY <1>3 DEF NoPairs
<1> QED
  BY <1>5, <1>6, <1>7, <1>8 DEF ExchangeInv, ReadsAreFair, Written, Circle

\* What a draw has before each of its steps.
LEMMA ADrawHas ==
  ASSUME ExchangeInv, NEW d \in Draws
  PROVE  /\ draw[d] \in Draw /\ SearchInv(draw[d]) /\ IsFiniteSet(draw[d].read)
         /\ draw[d].read \subseteq Members /\ draw[d].order \in Seq(Members)
         /\ draw[d].picks \in Seq(Nat) /\ draw[d].next \in Nat /\ draw[d].used \subseteq Members
<1>1. draw[d] \in Draw /\ SearchInv(draw[d])
  BY DEF ExchangeInv, ExchangeShape, Searches
<1> QED
  BY <1>1 DEF Draw, SearchInv

\* Steps that leave the exchange alone.
LEMMA SameExchange ==
  ASSUME ExchangeInv, UNCHANGED <<status, participant, target, draw, late>>
  PROVE  ExchangeInv'
<1>1. ExchangeShape' /\ ReadsAreFair' /\ Written'
  BY DEF ExchangeInv, ExchangeShape, ReadsAreFair, Written
<1>2. Searches'
  <2> SUFFICES ASSUME NEW d \in Draws PROVE SearchInv(draw'[d])
    BY DEF Searches, SearchInv, PicksFit, NoneMissed, Reached, Fits, Matches, MayGive, Orders, Assignments
  <2> QED
    BY ADrawHas
<1>3. Circle'
  BY DEF ExchangeInv, Circle, SameReading, Matches, MayGive
<1> QED
  BY <1>1, <1>2, <1>3 DEF ExchangeInv

LEMMA SomebodyJoins ==
  ASSUME ExchangeInv, NEW m \in Members, JoinCreate(m)
  PROVE  ExchangeInv'
<1>1. /\ participant' = participant \cup {m}
      /\ late' = IF Drawing # {} \/ status = "assigned" THEN late \cup {m} ELSE late
      /\ UNCHANGED <<status, target, draw>>
  BY DEF JoinCreate
<1>2. ExchangeShape'
  BY <1>1, FS_AddElement DEF ExchangeInv, ExchangeShape
<1>3. Written'
  BY <1>1 DEF ExchangeInv, Written
<1>4. ReadsAreFair'
  <2> SUFFICES ASSUME NEW d \in Draws, draw[d].pc \in {"read", "search", "found", "done"}
               PROVE  draw[d].read \subseteq participant' /\ participant' \ late' \subseteq draw[d].read
    BY <1>1 DEF ReadsAreFair
  <2>1. Drawing # {} \/ status = "assigned"
    BY DEF Drawing, ExchangeInv, Written
  <2>2. draw[d].read \subseteq participant /\ participant \ late \subseteq draw[d].read
    BY DEF ExchangeInv, ReadsAreFair
  <2> QED
    BY <1>1, <2>1, <2>2
<1>5. Searches'
  <2> SUFFICES ASSUME NEW d \in Draws PROVE SearchInv(draw'[d])
    BY DEF Searches, SearchInv, PicksFit, NoneMissed, Reached, Fits, Matches, MayGive, Orders, Assignments
  <2> QED
    BY <1>1, ADrawHas
<1>6. Circle'
  BY <1>1 DEF ExchangeInv, Circle, SameReading, Matches, MayGive
<1> QED
  BY <1>2, <1>3, <1>4, <1>5, <1>6 DEF ExchangeInv

\* A step of one draw, before it writes.
LEMMA OneDrawGoesOn ==
  ASSUME ExchangeInv, NEW d \in Draws, UNCHANGED <<status, participant, target, late>>,
         NEW x \in Draw, draw' = [draw EXCEPT ![d] = x], SearchInv(x),
         draw[d].pc # "done", x.pc # "done",
         x.pc \in {"read", "search", "found"} =>
           \/ draw[d].pc \in {"read", "search", "found"} /\ x.read = draw[d].read
           \/ x.read = participant
  PROVE  ExchangeInv'
<1>1. draw \in [Draws -> Draw]
  BY DEF ExchangeInv, ExchangeShape
<1>2. draw' \in [Draws -> Draw] /\ draw'[d] = x /\ \A e \in Draws \ {d} : draw'[e] = draw[e]
  BY <1>1
<1>3. ExchangeShape'
  BY <1>2 DEF ExchangeInv, ExchangeShape
<1>4. Searches'
  <2> SUFFICES ASSUME NEW e \in Draws PROVE SearchInv(draw'[e])
    BY DEF Searches, SearchInv, PicksFit, NoneMissed, Reached, Fits, Matches, MayGive, Orders, Assignments
  <2>1. SearchInv(draw[e])
    BY DEF ExchangeInv, Searches
  <2> QED
    BY <1>2, <2>1
<1>5. ReadsAreFair'
  <2> SUFFICES ASSUME NEW e \in Draws, draw'[e].pc \in {"read", "search", "found", "done"}
               PROVE  draw'[e].read \subseteq participant /\ participant \ late \subseteq draw'[e].read
    BY DEF ReadsAreFair
  <2>1. CASE e # d
    BY <1>2, <2>1 DEF ExchangeInv, ReadsAreFair
  <2>2. CASE e = d
    BY <1>2, <2>2 DEF ExchangeInv, ReadsAreFair
  <2> QED
    BY <2>1, <2>2
<1>6. Written'
  BY <1>2 DEF ExchangeInv, Written
<1>7. Circle'
  <2> SUFFICES ASSUME SameReading', NEW e \in Draws, draw'[e].pc = "done"
               PROVE  /\ Matches(draw'[e].read, target)
                      /\ \A m \in Members \ draw'[e].read : target[m] = Nobody
    BY DEF Circle, Matches, MayGive
  <2>1. e # d /\ draw'[e] = draw[e]
    BY <1>2
  <2>2. SameReading
    <3> SUFFICES ASSUME NEW i \in Draws, NEW j \in Draws, draw[i].pc = "done", draw[j].pc = "done"
                 PROVE  draw[i].read = draw[j].read
      BY DEF SameReading
    <3>1. draw'[i] = draw[i] /\ draw'[j] = draw[j]
      BY <1>2
    <3> QED
      BY <3>1 DEF SameReading
  <2> QED
    BY <2>1, <2>2 DEF ExchangeInv, Circle
<1> QED
  BY <1>3, <1>4, <1>5, <1>6, <1>7 DEF ExchangeInv

LEMMA ADrawReads ==
  ASSUME ExchangeInv, NEW d \in Draws, DrawRead(d)
  PROVE  ExchangeInv'
<1> DEFINE x == [draw[d] EXCEPT !.pc = "read", !.read = participant]
<1>1. /\ draw' = [draw EXCEPT ![d] = x] /\ draw[d].pc = "new"
      /\ UNCHANGED <<status, participant, target, late>>
  BY DEF DrawRead
<1>2. draw[d] \in Draw /\ participant \subseteq Members /\ IsFiniteSet(participant)
  BY DEF ExchangeInv, ExchangeShape
<1>3. x \in Draw /\ x.pc = "read" /\ x.read = participant
      /\ x.picks = draw[d].picks /\ x.used = draw[d].used /\ x.next = draw[d].next
  BY <1>2 DEF Draw
<1>4. SearchInv(draw[d])
  BY DEF ExchangeInv, Searches
<1> HIDE DEF x
<1>5. SearchInv(x)
  BY <1>1, <1>2, <1>3, <1>4 DEF SearchInv
<1> QED
  BY <1>1, <1>3, <1>5, OneDrawGoesOn

LEMMA ADrawShuffles ==
  ASSUME ExchangeInv, NEW d \in Draws, DrawShuffle(d)
  PROVE  ExchangeInv'
<1>1. draw[d].pc = "read" /\ UNCHANGED <<status, participant, target, late>>
  BY DEF DrawShuffle, SearchUnchanged
<1>2. PICK order \in Orders(draw[d].read) :
        RoundIsValid(order) /\ draw' = [draw EXCEPT ![d].pc = "found", ![d].pairs = Pairs(order, Round(Len(order)))]
  BY DEF DrawShuffle
<1> DEFINE p == Pairs(order, Round(Len(order)))
           x == [draw[d] EXCEPT !.pc = "found", !.pairs = p]
<1>3. p \in [Members -> Members \cup {Nobody}] /\ Matches(draw[d].read, p)
  BY <1>2, ADrawHas, RoundFits, PlacesMatch
<1>4. draw' = [draw EXCEPT ![d] = x]
  BY <1>2
<1> HIDE DEF p
<1>5. x \in Draw /\ x.pc = "found" /\ x.read = draw[d].read /\ x.pairs = p
  BY <1>3, ADrawHas DEF Draw
<1> HIDE DEF x
<1>6. SearchInv(x)
  BY <1>3, <1>5, ADrawHas DEF SearchInv
<1> QED
  BY <1>1, <1>4, <1>5, <1>6, OneDrawGoesOn

LEMMA ADrawFallsBack ==
  ASSUME ExchangeInv, NEW d \in Draws, DrawFallBack(d)
  PROVE  ExchangeInv'
<1>1. draw[d].pc = "read" /\ UNCHANGED <<status, participant, target, late>>
  BY DEF DrawFallBack, SearchUnchanged
<1>2. PICK order \in Orders(draw[d].read) : draw' = [draw EXCEPT ![d].pc = "search", ![d].order = order]
  BY DEF DrawFallBack
<1> DEFINE x == [draw[d] EXCEPT !.pc = "search", !.order = order]
<1>3. draw' = [draw EXCEPT ![d] = x]
  BY <1>2
<1>4. order \in Seq(Members)
  <2>1. order \in Seq(draw[d].read)
    BY OrderLists, ADrawHas
  <2> QED
    BY <2>1, ADrawHas
<1>5. x \in Draw /\ x.pc = "search" /\ x.read = draw[d].read /\ x.order = order
      /\ x.picks = draw[d].picks /\ x.used = draw[d].used /\ x.next = draw[d].next
  BY <1>4, ADrawHas DEF Draw
<1> HIDE DEF x
<1>6. x.picks = <<>> /\ x.used = {} /\ x.next = 1
  BY <1>1, <1>5, ADrawHas DEF SearchInv
<1>7. IsFiniteSet(x.read) /\ x.order \in Orders(x.read)
  BY <1>5, ADrawHas
<1>8. PicksFit(x) /\ NoneMissed(x)
  BY <1>6, <1>7, FallBackStarts
<1>9. SearchInv(x)
  BY <1>5, <1>7, <1>8 DEF SearchInv
<1> QED
  BY <1>1, <1>3, <1>5, <1>9, OneDrawGoesOn

LEMMA ADrawTakes ==
  ASSUME ExchangeInv, NEW d \in Draws, DrawTake(d)
  PROVE  ExchangeInv'
<1> DEFINE w == draw[d]
<1>1. w.pc = "search" /\ Len(w.picks) < Len(w.order) /\ UNCHANGED <<status, participant, target, late>>
  BY DEF DrawTake, Searching, SearchUnchanged
<1>2. PICK i \in Receivers(w) :
        /\ \A j \in Receivers(w) : i <= j
        /\ draw' = [draw EXCEPT ![d].picks = Append(w.picks, i), ![d].next = 1,
                                ![d].used = w.used \cup {w.order[i]}]
  BY DEF DrawTake
<1> DEFINE x == [w EXCEPT !.picks = Append(w.picks, i), !.next = 1, !.used = w.used \cup {w.order[i]}]
<1>3. draw' = [draw EXCEPT ![d] = x]
  BY <1>2
<1>4. PicksFit(w) /\ NoneMissed(w) /\ IsFiniteSet(w.read)
  BY <1>1, ADrawHas DEF SearchInv
<1>5. i \in 1 .. Len(w.order) /\ w.order[i] \in Members
  <2>1. i \in w.next .. Len(w.order)
    BY DEF Receivers
  <2>2. w.next \in 1 .. Len(w.order) + 1 /\ Len(w.order) \in Nat
    BY <1>4, ADrawHas DEF PicksFit
  <2>3. i \in 1 .. Len(w.order)
    BY <2>1, <2>2
  <2> QED
    BY <2>3, ADrawHas
<1>6. Append(w.picks, i) \in Seq(Nat) /\ w.used \cup {w.order[i]} \subseteq Members
  BY <1>5, ADrawHas
<1>7. /\ x \in Draw /\ x.pc = "search" /\ x.read = w.read /\ x.order = w.order
      /\ x.picks = Append(w.picks, i) /\ x.next = 1 /\ x.used = w.used \cup {w.order[i]}
  BY <1>1, <1>6, ADrawHas DEF Draw
<1> HIDE DEF x
<1>8. PicksFit(x) /\ NoneMissed(x)
  BY <1>1, <1>2, <1>4, <1>7, ADrawHas, TakeKeeps
<1>9. SearchInv(x)
  BY <1>4, <1>7, <1>8 DEF SearchInv
<1> QED
  BY <1>1, <1>3, <1>7, <1>9, OneDrawGoesOn

LEMMA ADrawGoesBack ==
  ASSUME ExchangeInv, NEW d \in Draws, DrawBack(d)
  PROVE  ExchangeInv'
<1> DEFINE w == draw[d]
           k == Len(w.picks)
<1>1. /\ w.pc = "search" /\ k < Len(w.order) /\ Receivers(w) = {} /\ w.picks # <<>>
      /\ UNCHANGED <<status, participant, target, late>>
  BY DEF DrawBack, Searching, SearchUnchanged
<1> DEFINE x == [w EXCEPT !.picks = SubSeq(w.picks, 1, k - 1), !.next = w.picks[k] + 1,
                          !.used = w.used \ {w.order[w.picks[k]]}]
<1>2. draw' = [draw EXCEPT ![d] = x]
  BY DEF DrawBack
<1>3. PicksFit(w) /\ NoneMissed(w) /\ IsFiniteSet(w.read)
  BY <1>1, ADrawHas DEF SearchInv
<1>4. SubSeq(w.picks, 1, k - 1) \in Seq(Nat) /\ w.picks[k] \in Nat
  BY <1>1, ADrawHas
<1>5. /\ x \in Draw /\ x.pc = "search" /\ x.read = w.read /\ x.order = w.order
      /\ x.picks = SubSeq(w.picks, 1, k - 1) /\ x.next = w.picks[k] + 1
      /\ x.used = w.used \ {w.order[w.picks[k]]}
  <2> DEFINE p == SubSeq(w.picks, 1, k - 1)
             n == w.picks[k] + 1
             u == w.used \ {w.order[w.picks[k]]}
  <2>1. w \in Draw /\ w.pc = "search" /\ p \in Seq(Nat) /\ n \in Nat /\ u \subseteq Members
    BY <1>1, <1>4, ADrawHas
  <2> HIDE DEF p, n, u, w
  <2>2. [w EXCEPT !.picks = p, !.next = n, !.used = u] \in Draw
    BY <2>1 DEF Draw
  <2> QED
    BY <2>1, <2>2 DEF Draw, p, n, u
<1> HIDE DEF x
<1>6. PicksFit(x) /\ NoneMissed(x)
  BY <1>1, <1>3, <1>5, ADrawHas, BackKeeps
<1>7. SearchInv(x)
  BY <1>3, <1>5, <1>6 DEF SearchInv
<1> QED
  BY <1>1, <1>2, <1>5, <1>7, OneDrawGoesOn

LEMMA ADrawIsRefused ==
  ASSUME ExchangeInv, NEW d \in Draws, DrawRefuse(d)
  PROVE  ExchangeInv'
<1> DEFINE w == draw[d]
           x == [w EXCEPT !.pc = "refused", !.order = <<>>, !.next = 1]
<1>1. /\ w.pc = "search" /\ Len(w.picks) < Len(w.order) /\ Receivers(w) = {} /\ w.picks = <<>>
      /\ draw' = [draw EXCEPT ![d] = x] /\ UNCHANGED <<status, participant, target, late>>
  BY DEF DrawRefuse, Searching, SearchUnchanged
<1>2. Assignments(w.read) = {}
  BY <1>1, ADrawHas, RefusedForGood DEF SearchInv
<1>3. x \in Draw /\ x.pc = "refused" /\ x.read = w.read
  <2>1. <<>> \in Seq(Members) /\ w \in Draw
    BY ADrawHas
  <2> HIDE DEF w
  <2> QED
    BY <2>1 DEF Draw
<1> HIDE DEF x
<1>4. SearchInv(x)
  BY <1>2, <1>3, ADrawHas DEF SearchInv
<1> QED
  BY <1>1, <1>3, <1>4, OneDrawGoesOn

LEMMA ADrawFinds ==
  ASSUME ExchangeInv, NEW d \in Draws, DrawFind(d)
  PROVE  ExchangeInv'
<1> DEFINE w == draw[d]
           p == Pairs(w.order, w.picks)
           x == [w EXCEPT !.pc = "found", !.pairs = p,
                          !.order = <<>>, !.picks = <<>>, !.used = {}, !.next = 1]
<1>1. /\ w.pc = "search" /\ Len(w.picks) = Len(w.order)
      /\ draw' = [draw EXCEPT ![d] = x] /\ UNCHANGED <<status, participant, target, late>>
  BY DEF DrawFind, SearchUnchanged
<1>2. PicksFit(w)
  BY <1>1, ADrawHas DEF SearchInv
<1>3. Fits(w.order, w.picks) /\ w.order \in Orders(w.read)
  BY <1>1, <1>2, ADrawHas, AllPicked DEF PicksFit
<1>4. p \in [Members -> Members \cup {Nobody}] /\ Matches(w.read, p)
  BY <1>3, ADrawHas, PlacesMatch
<1> HIDE DEF p
<1>5. x \in Draw /\ x.pc = "found" /\ x.read = w.read /\ x.pairs = p
  <2>1. <<>> \in Seq(Members) /\ <<>> \in Seq(Nat) /\ w \in Draw
    BY ADrawHas
  <2> HIDE DEF w
  <2> QED
    BY <1>4, <2>1 DEF Draw
<1> HIDE DEF x
<1>6. SearchInv(x)
  BY <1>4, <1>5, ADrawHas DEF SearchInv
<1> QED
  BY <1>1, <1>5, <1>6, OneDrawGoesOn

LEMMA ADrawWrites ==
  ASSUME ExchangeInv, NEW d \in Draws, DrawWrite(d)
  PROVE  ExchangeInv'
<1> DEFINE w == draw[d]
           P == w.read
           x == [w EXCEPT !.pc = "done", !.pairs = NoPairs]
<1>1. /\ w.pc = "found" /\ status' = "assigned" /\ draw' = [draw EXCEPT ![d] = x]
      /\ target' = [m \in Members |-> IF m \in P THEN w.pairs[m] ELSE target[m]]
      /\ UNCHANGED <<participant, late>>
  BY DEF DrawWrite
<1>2. /\ draw \in [Draws -> Draw] /\ target \in [Members -> Members \cup {Nobody}]
  BY DEF ExchangeInv, ExchangeShape
<1>3. Matches(P, w.pairs) /\ IsFiniteSet(P) /\ P \subseteq Members /\ w \in Draw
  BY <1>1, ADrawHas DEF SearchInv
<1>4. x \in Draw /\ x.pc = "done" /\ x.read = P
  BY <1>3 DEF Draw, NoPairs
<1> HIDE DEF x
<1>5. draw' \in [Draws -> Draw] /\ draw'[d] = x /\ \A e \in Draws \ {d} : draw'[e] = draw[e]
  BY <1>1, <1>2, <1>4
<1>6. \A m \in Members : target'[m] = IF m \in P THEN w.pairs[m] ELSE target[m]
  BY <1>1
<1>7. target' \in [Members -> Members \cup {Nobody}]
  BY <1>1, <1>2, <1>3 DEF Matches
<1>8. ExchangeShape'
  BY <1>1, <1>5, <1>7 DEF ExchangeInv, ExchangeShape
<1>9. Searches'
  <2> SUFFICES ASSUME NEW e \in Draws PROVE SearchInv(draw'[e])
    BY DEF Searches, SearchInv, PicksFit, NoneMissed, Reached, Fits, Matches, MayGive, Orders, Assignments
  <2>1. SearchInv(draw[e])
    BY DEF ExchangeInv, Searches
  <2>2. SearchInv(x)
    BY <1>3, <1>4 DEF SearchInv
  <2> QED
    BY <1>5, <2>1, <2>2
<1>10. P \subseteq participant /\ participant \ late \subseteq P
  BY <1>1 DEF ExchangeInv, ReadsAreFair
<1>11. ReadsAreFair'
  <2> SUFFICES ASSUME NEW e \in Draws, draw'[e].pc \in {"read", "search", "found", "done"}
               PROVE  draw'[e].read \subseteq participant /\ participant \ late \subseteq draw'[e].read
    BY <1>1 DEF ReadsAreFair
  <2>1. CASE e # d
    BY <1>5, <2>1 DEF ExchangeInv, ReadsAreFair
  <2>2. CASE e = d
    BY <1>4, <1>5, <1>10, <2>2
  <2> QED
    BY <2>1, <2>2
<1>12. Written'
  BY <1>1, <1>4, <1>5 DEF Written
<1>13. Circle'
  <2> SUFFICES ASSUME SameReading', NEW e \in Draws, draw'[e].pc = "done"
               PROVE  /\ Matches(draw'[e].read, target')
                      /\ \A m \in Members \ draw'[e].read : target'[m] = Nobody
    BY DEF Circle, Matches, MayGive
  <2>1. draw'[e].read = P
    BY <1>4, <1>5 DEF SameReading
  <2>2. Matches(P, target')
    BY <1>3, <1>6 DEF Matches
  <2>3. ASSUME NEW m \in Members \ P PROVE target[m] = Nobody
    <3>1. CASE status = "open"
      BY <3>1 DEF ExchangeInv, Written
    <3>2. CASE status = "assigned"
      <4>1. PICK f \in Draws : draw[f].pc = "done"
        BY <3>2 DEF ExchangeInv, Written
      <4>2. SameReading
        <5> SUFFICES ASSUME NEW i \in Draws, NEW j \in Draws, draw[i].pc = "done", draw[j].pc = "done"
                     PROVE  draw[i].read = draw[j].read
          BY DEF SameReading
        <5>1. draw'[i] = draw[i] /\ draw'[j] = draw[j]
          BY <1>1, <1>5
        <5> QED
          BY <5>1 DEF SameReading
      <4>3. draw'[f] = draw[f] /\ draw'[f].read = P
        BY <1>1, <1>4, <1>5, <4>1 DEF SameReading
      <4> QED
        BY <4>1, <4>2, <4>3 DEF ExchangeInv, Circle
    <3> QED
      BY <3>1, <3>2 DEF ExchangeInv, ExchangeShape
  <2> QED
    BY <1>6, <2>1, <2>2, <2>3
<1> QED
  BY <1>8, <1>9, <1>11, <1>12, <1>13 DEF ExchangeInv

LEMMA ExchangeKeeps == ExchangeInv /\ [ExchangesNext]_exchangeVars => ExchangeInv'
<1> SUFFICES ASSUME ExchangeInv, [ExchangesNext]_exchangeVars PROVE ExchangeInv'
  OBVIOUS
<1>1. ASSUME NEW m \in Members, JoinRead(m) \/ Leave(m) PROVE ExchangeInv'
  BY <1>1, SameExchange DEF JoinRead, Leave, santaVars
<1>2. ASSUME NEW m \in Members, JoinCreate(m) PROVE ExchangeInv'
  BY <1>2, SomebodyJoins
<1>3. ASSUME NEW d \in Draws, DrawRead(d) \/ DrawShuffle(d) \/ DrawFallBack(d) \/ DrawWrite(d) PROVE ExchangeInv'
  BY <1>3, ADrawReads, ADrawShuffles, ADrawFallsBack, ADrawWrites
<1>4. ASSUME NEW d \in Draws, DrawTake(d) \/ DrawBack(d) \/ DrawRefuse(d) \/ DrawFind(d) PROVE ExchangeInv'
  BY <1>4, ADrawTakes, ADrawGoesBack, ADrawIsRefused, ADrawFinds
<1>5. ASSUME NEW c \in ChipIns, NEW m \in Members, ChipIn(c, m) PROVE ExchangeInv'
  BY <1>5, SameExchange DEF ChipIn, santaVars
<1>6. ASSUME NEW c \in ChipIns, ChipTell(c) \/ ChipFind(c) \/ ChipUpdate(c) \/ ChipDelete(c) PROVE ExchangeInv'
  BY <1>6, SameExchange DEF ChipTell, ChipFind, ChipUpdate, ChipDelete, santaVars
<1>7. CASE UNCHANGED exchangeVars
  BY <1>7, SameExchange DEF exchangeVars
<1> QED
  BY <1>1, <1>2, <1>3, <1>4, <1>5, <1>6, <1>7 DEF ExchangesNext

\* Once the pairs are drawn, the gifts make circles among those who had joined
\* before the draw, unless overlapping draws read different participants; and a
\* draw finds a valid pairing whenever there is one: for any members, any
\* exclusions, any order of the rows and any shuffles (SecretSantaService.assign
\* and its search).
THEOREM TheGiftsMakeACircle == ExchangesSpec => []GiftsMakeACircle
<1>1. ASSUME ExchangeInv PROVE GiftsMakeACircle
  <2>1. ASSUME NEW d \in Draws, draw[d].pc = "refused" PROVE Assignments(draw[d].read) = {}
    BY <1>1, <2>1, ADrawHas DEF SearchInv
  <2> DEFINE paired == {m \in participant : target[m] # Nobody}
  <2>2. ASSUME status = "assigned", SameReading
        PROVE  /\ participant \ late \subseteq paired
               /\ {target[m] : m \in paired} = paired
               /\ \A m \in paired : MayGive(m, target[m])
    <3>1. PICK d \in Draws : draw[d].pc = "done"
      BY <1>1, <2>2 DEF ExchangeInv, Written
    <3> DEFINE P == draw[d].read
    <3>2. Matches(P, target) /\ \A m \in Members \ P : target[m] = Nobody
      BY <1>1, <2>2, <3>1 DEF ExchangeInv, Circle
    <3>3. P \subseteq participant /\ participant \ late \subseteq P /\ participant \subseteq Members
      BY <1>1, <3>1 DEF ExchangeInv, ReadsAreFair, ExchangeShape
    <3>4. {target[m] : m \in P} = P
      BY <1>1, <3>2, ADrawHas, EverybodyGets
    <3>5. paired = P
      BY <3>2, <3>3, ExchangesAssumption DEF Matches
    <3> QED
      BY <3>2, <3>3, <3>4, <3>5 DEF Matches
  <2> QED
    BY <2>1, <2>2 DEF GiftsMakeACircle
<1> QED
  BY <1>1, ExchangeStarts, ExchangeKeeps, PTL DEF ExchangesSpec

-----------------------------------------------------------------------------
(* Gallery.                                                                *)

\* Photos are what requests, except for loads, and the viewer are about.
Wired ==
  /\ viewer.on => viewer.shot \in Shots
  /\ \A n \in Wires : wire[n].kind # "load" => wire[n].shot \in Shots

\* Nothing has heard of a change that was not made yet.
Ticked ==
  /\ \A s \in Shots : changed[s] <= clock /\ gallery.heard[s] <= clock
  /\ \A n \in Wires : wire[n].at <= clock

\* An answer that tells of a deletion is about a photo that never comes back.
GoneForGood ==
  \A n \in Wires : wire[n].kind = "delete" /\ wire[n].pc = "served" =>
                     pic[wire[n].shot] = "gone" /\ changed[wire[n].shot] = wire[n].at

\* A list that was read after the last change of a photo has it as it is, or as
\* pending before its analysis ended; so has the page, if it has heard of that
\* change.
ReadRight ==
  \A n \in Wires, s \in Shots :
    wire[n].kind = "load" /\ wire[n].pc = "served" /\ changed[s] <= wire[n].at =>
      wire[n].view[s] \in {Seen[s], "pending"}

ShownRight ==
  \A s \in Shots :
    ~blurred /\ ~gallery.loading /\ changed[s] <= gallery.heard[s] => gallery.shots[s] \in {Seen[s], "pending"}

\* The requests that will tell the page of the last change of a photo: a load
\* to come, one that has read it, or what is followed by a load.
Brings(n, s) ==
  \/ wire[n].kind = "load" /\ wire[n].pc = "sent"
  \/ wire[n].kind = "load" /\ wire[n].pc = "served" /\ changed[s] <= wire[n].at
  \/ wire[n].kind = "upload" /\ wire[n].pc # "idle"
  \/ wire[n].kind = "delete" /\ wire[n].pc = "served" /\ wire[n].shot = s
  \/ wire[n].kind = "reanalyze" /\ wire[n].pc = "served"

OnItsWay == \A s \in Shots : ~blurred /\ changed[s] > gallery.heard[s] => \E n \in Wires : Brings(n, s)

\* What the page waits for is under way.
NothingWaits ==
  /\ gallery.loading /\ loads > 0 => \E n \in UnderWay : wire[n].kind = "load"
  /\ tray.uploading => Uploads # {}

\* An upload forgets all files at its end: an open dialog has its files unless
\* they were chosen during one.
DialogHasFiles ==
  tray.dialog # "none" => bare \/ (tray.pending # {} /\ Uploads = {})

\* The picture that the viewer lacks is on its way.
PictureComes ==
  viewer.on /\ viewer.image # viewer.shot /\ ~crossed =>
    \E n \in UnderWay : wire[n].kind = "url" /\ wire[n].shot = viewer.shot

\* The inductive invariant.
GalleryInv ==
  /\ GalleryTypeOK /\ Wired /\ Ticked /\ GoneForGood /\ ReadRight /\ ShownRight /\ OnItsWay
  /\ NothingWaits /\ DialogHasFiles /\ PictureComes

Tray == [pending : SUBSET Shots, dialog : {"none", "consent", "category"}, agreed : BOOLEAN, uploading : BOOLEAN]
Viewer == [on : BOOLEAN, shot : Shots \cup {NoShot}, image : Shots \cup {NoShot}]

\* What the rows and the list have to do with each other.
PageRows == <<pic, clock, changed, gallery, blurred>>

LEMMA NoWireIsAWire == NoWire \in Wire /\ NoWire.pc = "idle" /\ NoWire.kind = "load" /\ NoWire.shot = NoShot /\ NoWire.at = 0
  BY DEF NoWire, Wire, Nothing

LEMMA FreeWireIsFree == UnderWay # Wires => FreeWire \in Wires /\ wire[FreeWire].pc = "idle"
  BY DEF UnderWay, FreeWire

\* A new request.
LEMMA Requesting ==
  ASSUME GalleryInv, NEW w \in Wire, w.pc = "sent", w.at = 0, UnderWay # Wires,
         w.kind # "load" => w.shot \in Shots, wire' = [wire EXCEPT ![FreeWire] = w]
  PROVE  /\ wire' \in [Wires -> Wire]
         /\ \A n \in Wires : wire'[n].kind # "load" => wire'[n].shot \in Shots
         /\ \A n \in UnderWay : n \in UnderWay' /\ wire'[n] = wire[n]
         /\ \A n \in UnderWay' : n \in UnderWay \/ n = FreeWire
         /\ FreeWire \in UnderWay' /\ wire'[FreeWire] = w
         /\ UNCHANGED PageRows => (Ticked /\ GoneForGood /\ ReadRight /\ ShownRight /\ OnItsWay)'
<1>1. FreeWire \in Wires /\ wire[FreeWire].pc = "idle" /\ wire \in [Wires -> Wire]
  BY FreeWireIsFree DEF GalleryInv, GalleryTypeOK
<1>2. wire' \in [Wires -> Wire] /\ wire'[FreeWire] = w /\ \A n \in Wires \ {FreeWire} : wire'[n] = wire[n]
  BY <1>1
<1>3. ASSUME UNCHANGED PageRows PROVE (Ticked /\ GoneForGood /\ ReadRight /\ ShownRight /\ OnItsWay)'
  <2>1. GoneForGood' /\ ReadRight' /\ ShownRight'
    BY <1>2, <1>3 DEF PageRows, GalleryInv, GoneForGood, ReadRight, ShownRight, Seen
  <2>2. \A n \in Wires, s \in Shots : Brings(n, s) => Brings(n, s)'
    BY <1>1, <1>2, <1>3 DEF PageRows, Brings
  <2>3. Ticked'
    BY <1>2, <1>3 DEF PageRows, GalleryInv, GalleryTypeOK, Ticked
  <2> QED
    BY <1>3, <2>1, <2>2, <2>3 DEF OnItsWay, PageRows, GalleryInv
<1> QED
  BY <1>1, <1>2, <1>3 DEF UnderWay, GalleryInv, Wired

\* The dialogs, and a first press on a deletion.
LEMMA TrayTurns ==
  ASSUME GalleryInv,
         Consent \/ Decline \/ ConfirmFades \/ UNCHANGED galleryVars \/ \E files \in SUBSET Shots : ChooseFiles(files)
  PROVE  GalleryInv'
<1>1. UNCHANGED <<PageRows, wire, viewer, crossed, loads, posts, looks>>
  BY DEF Consent, Decline, ConfirmFades, ChooseFiles, galleryVars, picVars, PageRows
<1>0. tray \in Tray /\ bare \in BOOLEAN /\ confirm \in Shots \cup {NoShot}
  BY DEF GalleryInv, GalleryTypeOK, Tray
<1>4. /\ tray' \in Tray /\ tray'.uploading = tray.uploading
      /\ bare' \in BOOLEAN /\ confirm' \in Shots \cup {NoShot}
  <2>1. CASE Consent
    BY <1>0, <2>1 DEF Consent, Tray
  <2>2. CASE Decline
    BY <1>0, <2>2 DEF Decline, Tray
  <2>3. CASE ConfirmFades \/ UNCHANGED galleryVars
    BY <1>0, <2>3 DEF ConfirmFades, galleryVars
  <2>4. ASSUME NEW files \in SUBSET Shots, ChooseFiles(files)
        PROVE  /\ tray' \in Tray /\ tray'.uploading = tray.uploading
               /\ bare' \in BOOLEAN /\ confirm' \in Shots \cup {NoShot}
    BY <1>0, <2>4 DEF ChooseFiles, Tray
  <2> QED
    BY <2>1, <2>2, <2>3, <2>4
<1>2. GalleryTypeOK'
  BY <1>1, <1>4 DEF GalleryInv, GalleryTypeOK, PageRows, Tray
<1>3. (Wired /\ Ticked /\ GoneForGood /\ ReadRight /\ ShownRight /\ OnItsWay /\ PictureComes)'
  BY <1>1 DEF GalleryInv, PageRows, Wired, Ticked, GoneForGood, ReadRight, ShownRight, OnItsWay, Brings, PictureComes,
              UnderWay, Seen
<1>5. NothingWaits'
  BY <1>1, <1>4 DEF GalleryInv, PageRows, NothingWaits, UnderWay, Uploads
<1>6. DialogHasFiles'
  <2>1. Uploads' = Uploads
    BY <1>1 DEF Uploads, UnderWay
  <2>2. CASE Consent
    BY <1>0, <2>1, <2>2 DEF Consent, Tray, GalleryInv, DialogHasFiles
  <2>3. CASE Decline
    BY <1>0, <2>3 DEF Decline, Tray, DialogHasFiles
  <2>4. CASE ConfirmFades \/ UNCHANGED galleryVars
    BY <2>1, <2>4 DEF ConfirmFades, galleryVars, GalleryInv, DialogHasFiles
  <2>5. ASSUME NEW files \in SUBSET Shots, ChooseFiles(files) PROVE DialogHasFiles'
    BY <1>0, <2>1, <2>5 DEF ChooseFiles, Tray, DialogHasFiles
  <2> QED
    BY <2>2, <2>3, <2>4, <2>5
<1> QED
  BY <1>2, <1>3, <1>5, <1>6 DEF GalleryInv

\* Requests that leave the page as it is.
LEMMA Asking ==
  ASSUME GalleryInv, UNCHANGED <<PageRows, tray, viewer, crossed, bare>>,
         posts' \in 0 .. MaxPosts, loads' \in 0 .. MaxLoads, looks' \in 0 .. MaxLooks, confirm' \in Shots \cup {NoShot},
         NEW kind \in {"load", "delete", "reanalyze"}, NEW s \in Shots \cup {NoShot},
         kind # "load" => s \in Shots, kind # "load" => loads' = loads, Request(kind, s)
  PROVE  GalleryInv'
<1> DEFINE w == [NoWire EXCEPT !.kind = kind, !.shot = s, !.pc = "sent"]
<1>1. w \in Wire /\ w.kind = kind /\ w.shot = s /\ w.pc = "sent" /\ w.at = 0
  BY DEF NoWire, Wire, Nothing
<1> HIDE DEF w
<1>2. UnderWay # Wires /\ wire' = [wire EXCEPT ![FreeWire] = w]
  BY DEF Request, w
<1>3. /\ wire' \in [Wires -> Wire]
      /\ \A n \in Wires : wire'[n].kind # "load" => wire'[n].shot \in Shots
      /\ \A n \in UnderWay : n \in UnderWay' /\ wire'[n] = wire[n]
      /\ \A n \in UnderWay' : n \in UnderWay \/ n = FreeWire
      /\ FreeWire \in UnderWay' /\ wire'[FreeWire] = w
      /\ (Ticked /\ GoneForGood /\ ReadRight /\ ShownRight /\ OnItsWay)'
  BY <1>1, <1>2, Requesting
<1>4. GalleryTypeOK'
  BY <1>3 DEF GalleryInv, GalleryTypeOK, PageRows
<1>5. Wired'
  BY <1>3 DEF GalleryInv, Wired
<1>6. Uploads' = Uploads
  BY <1>1, <1>3 DEF Uploads
<1>7. NothingWaits'
  BY <1>1, <1>3, <1>6 DEF GalleryInv, NothingWaits, PageRows
<1>8. DialogHasFiles' /\ PictureComes'
  BY <1>3, <1>6 DEF GalleryInv, DialogHasFiles, PictureComes
<1> QED
  BY <1>3, <1>4, <1>5, <1>7, <1>8 DEF GalleryInv

LEMMA UploadStarts == ASSUME GalleryInv, NEW s \in Shots, StartUpload(s) PROVE GalleryInv'
<1> DEFINE w == [NoWire EXCEPT !.kind = "upload", !.shot = s, !.left = tray.pending \ {s}, !.pc = "sent"]
<1>1. w \in Wire /\ w.kind = "upload" /\ w.shot = s /\ w.pc = "sent" /\ w.at = 0
  BY DEF NoWire, Wire, Nothing, GalleryInv, GalleryTypeOK
<1> HIDE DEF w
<1>2. UnderWay # Wires /\ wire' = [wire EXCEPT ![FreeWire] = w] /\ UNCHANGED <<PageRows, viewer, crossed, loads>>
  BY DEF StartUpload, w, PageRows, picVars
<1>3. /\ wire' \in [Wires -> Wire]
      /\ \A n \in Wires : wire'[n].kind # "load" => wire'[n].shot \in Shots
      /\ \A n \in UnderWay : n \in UnderWay' /\ wire'[n] = wire[n]
      /\ FreeWire \in UnderWay' /\ wire'[FreeWire] = w
      /\ (Ticked /\ GoneForGood /\ ReadRight /\ ShownRight /\ OnItsWay)'
  BY <1>1, <1>2, Requesting
<1>4. GalleryTypeOK'
  <2>1. tray \in Tray /\ tray' = [tray EXCEPT !.dialog = "none", !.uploading = TRUE]
    BY DEF StartUpload, GalleryInv, GalleryTypeOK, Tray
  <2>2. tray' \in Tray
    BY <2>1 DEF Tray
  <2>3. posts' \in 0 .. MaxPosts /\ UNCHANGED <<confirm, loads, looks, bare>>
    BY GalleryAssumption DEF StartUpload, GalleryInv, GalleryTypeOK
  <2> QED
    BY <1>2, <1>3, <2>2, <2>3 DEF GalleryInv, GalleryTypeOK, PageRows, Tray
<1>5. Wired'
  BY <1>2, <1>3 DEF GalleryInv, Wired
<1>6. Uploads' # {}
  BY <1>1, <1>3 DEF Uploads
<1>7. NothingWaits'
  BY <1>2, <1>3, <1>6 DEF GalleryInv, NothingWaits, PageRows
<1>8. tray'.dialog = "none"
  BY DEF StartUpload, GalleryInv, GalleryTypeOK
<1>9. DialogHasFiles' /\ PictureComes'
  BY <1>2, <1>3, <1>8 DEF GalleryInv, DialogHasFiles, PictureComes
<1> QED
  BY <1>3, <1>4, <1>5, <1>7, <1>9 DEF GalleryInv

LEMMA Looking == ASSUME GalleryInv, NEW s \in Shots, OpenViewer(s) \/ Turn(s) PROVE GalleryInv'
<1> DEFINE w == [NoWire EXCEPT !.kind = "url", !.shot = s, !.pc = "sent"]
<1>1. w \in Wire /\ w.kind = "url" /\ w.shot = s /\ w.pc = "sent" /\ w.at = 0
  BY DEF NoWire, Wire, Nothing
<1> HIDE DEF w
<1>2. UnderWay # Wires /\ wire' = [wire EXCEPT ![FreeWire] = w] /\ UNCHANGED <<PageRows, tray, bare, loads>>
  BY DEF OpenViewer, Turn, Look, Request, w, PageRows, picVars
<1>3. /\ wire' \in [Wires -> Wire]
      /\ \A n \in Wires : wire'[n].kind # "load" => wire'[n].shot \in Shots
      /\ \A n \in UnderWay : n \in UnderWay' /\ wire'[n] = wire[n]
      /\ \A n \in UnderWay' : n \in UnderWay \/ n = FreeWire
      /\ FreeWire \in UnderWay' /\ wire'[FreeWire] = w
      /\ (Ticked /\ GoneForGood /\ ReadRight /\ ShownRight /\ OnItsWay)'
  BY <1>1, <1>2, Requesting
<1>4. viewer'.shot = s /\ viewer' \in Viewer
  BY DEF OpenViewer, Turn, NoViewer, GalleryInv, GalleryTypeOK, Viewer
<1>5. GalleryTypeOK'
  <2>1. looks' \in 0 .. MaxLooks /\ UNCHANGED <<confirm, posts, crossed>>
    BY GalleryAssumption DEF OpenViewer, Turn, Look, GalleryInv, GalleryTypeOK
  <2> QED
    BY <1>2, <1>3, <1>4, <2>1 DEF GalleryInv, GalleryTypeOK, PageRows, Viewer
<1>6. Wired'
  BY <1>2, <1>3, <1>4 DEF GalleryInv, Wired
<1>7. Uploads' = Uploads
  BY <1>1, <1>3 DEF Uploads
<1>8. NothingWaits' /\ DialogHasFiles'
  BY <1>2, <1>3, <1>7 DEF GalleryInv, NothingWaits, DialogHasFiles, PageRows
<1>9. PictureComes'
  BY <1>1, <1>3, <1>4 DEF PictureComes
<1> QED
  BY <1>3, <1>5, <1>6, <1>8, <1>9 DEF GalleryInv

\* What closing the viewer leaves of the requests.
LEMMA Closing ==
  ASSUME NEW wires \in [Wires -> Wire]
  PROVE  /\ Closed(wires) \in [Wires -> Wire]
         /\ \A n \in Wires : wires[n].kind = "url" => Closed(wires)[n] = NoWire
         /\ \A n \in Wires : wires[n].kind # "url" => Closed(wires)[n] = wires[n]
  BY NoWireIsAWire DEF Closed

LEMMA ViewerCloses == ASSUME GalleryInv, CloseViewer PROVE GalleryInv'
<1>1. UNCHANGED <<PageRows, tray, loads, bare>> /\ wire' = Closed(wire) /\ viewer' = NoViewer
  BY DEF CloseViewer, PageRows, picVars
<1>2. /\ wire' \in [Wires -> Wire]
      /\ \A n \in Wires : /\ wire[n].kind # "url" => wire'[n] = wire[n]
                          /\ wire[n].kind = "url" => wire'[n] = NoWire
  <2>1. wire \in [Wires -> Wire]
    BY DEF GalleryInv, GalleryTypeOK
  <2> QED
    BY <1>1, <2>1, Closing
<1>3. \A n \in Wires : \/ wire'[n] = wire[n] /\ wire[n].kind # "url"
                       \/ /\ wire'[n].pc = "idle" /\ wire'[n].kind = "load" /\ wire'[n].at = 0
                          /\ wire[n].kind = "url"
  BY <1>2, NoWireIsAWire
<1>4. NoViewer \in Viewer /\ ~NoViewer.on
  BY DEF NoViewer, Viewer
<1>5. GalleryTypeOK'
  <2>1. crossed' \in BOOLEAN /\ UNCHANGED <<confirm, posts, looks>>
    BY DEF CloseViewer
  <2> QED
    BY <1>1, <1>2, <1>4, <2>1 DEF GalleryInv, GalleryTypeOK, PageRows, Viewer
<1>6. Wired' /\ PictureComes'
  BY <1>1, <1>3, <1>4 DEF GalleryInv, Wired, PictureComes
<1>13. Ticked'
  BY <1>1, <1>3 DEF GalleryInv, GalleryTypeOK, Ticked, PageRows
<1>7. GoneForGood' /\ ReadRight' /\ ShownRight'
  BY <1>1, <1>3 DEF PageRows, GalleryInv, GoneForGood, ReadRight, ShownRight, Seen
<1>8. \A n \in Wires, s \in Shots : Brings(n, s) => Brings(n, s)'
  BY <1>1, <1>3 DEF Brings, PageRows
<1>9. OnItsWay'
  BY <1>1, <1>8 DEF OnItsWay, PageRows, GalleryInv
<1>10. \A n \in Wires : wire[n].kind # "url" => (n \in UnderWay' <=> n \in UnderWay) /\ wire'[n].kind = wire[n].kind
  BY <1>3 DEF UnderWay
<1>11. \A n \in Wires : n \in Uploads' <=> n \in Uploads
  BY <1>3, <1>10 DEF Uploads, UnderWay
<1>12. NothingWaits' /\ DialogHasFiles'
  BY <1>1, <1>10, <1>11 DEF GalleryInv, NothingWaits, DialogHasFiles, PageRows, UnderWay, Uploads
<1> QED
  BY <1>5, <1>6, <1>7, <1>9, <1>12, <1>13 DEF GalleryInv

\* The viewer's deletion is a request on what closing the viewer leaves.
LEMMA ViewerDeletes == ASSUME GalleryInv, ViewerDelete PROVE GalleryInv'
<1> DEFINE w == [NoWire EXCEPT !.kind = "delete", !.shot = viewer.shot, !.pc = "sent"]
<1>0. viewer.shot \in Shots /\ wire \in [Wires -> Wire]
  BY DEF ViewerDelete, ViewerSeen, GalleryInv, GalleryTypeOK, Wired
<1>1. w \in Wire /\ w.kind = "delete" /\ w.shot \in Shots /\ w.pc = "sent" /\ w.at = 0
  BY <1>0 DEF NoWire, Wire, Nothing
<1> HIDE DEF w
<1>2. UNCHANGED <<PageRows, tray, loads, bare>> /\ wire' = [Closed(wire) EXCEPT ![FreeWire] = w] /\ viewer' = NoViewer
  BY DEF ViewerDelete, PageRows, picVars, w
<1>3. FreeWire \in Wires /\ wire[FreeWire].pc = "idle"
  BY FreeWireIsFree DEF ViewerDelete
<1>4. /\ wire' \in [Wires -> Wire]
      /\ wire'[FreeWire] = w
      /\ \A n \in Wires \ {FreeWire} : /\ wire[n].kind # "url" => wire'[n] = wire[n]
                                       /\ wire[n].kind = "url" => wire'[n] = NoWire
  <2>1. /\ Closed(wire) \in [Wires -> Wire]
        /\ \A n \in Wires : wire[n].kind = "url" => Closed(wire)[n] = NoWire
        /\ \A n \in Wires : wire[n].kind # "url" => Closed(wire)[n] = wire[n]
    BY <1>0, Closing
  <2> QED
    BY <1>1, <1>2, <1>3, <2>1
<1>5. \A n \in Wires : \/ wire'[n] = wire[n] /\ wire[n].kind # "url"
                       \/ /\ wire'[n].pc = "idle" /\ wire'[n].kind = "load" /\ wire'[n].at = 0
                          /\ wire[n].kind = "url"
                       \/ /\ wire'[n].pc = "sent" /\ wire'[n].kind = "delete" /\ wire'[n].shot \in Shots
                          /\ wire'[n].at = 0 /\ wire[n].pc = "idle"
  BY <1>1, <1>3, <1>4, NoWireIsAWire
<1>6. NoViewer \in Viewer /\ ~NoViewer.on
  BY DEF NoViewer, Viewer
<1>7. GalleryTypeOK'
  <2>0. posts \in 0 .. MaxPosts
    BY DEF GalleryInv, GalleryTypeOK
  <2>1. crossed' \in BOOLEAN /\ UNCHANGED <<confirm, looks>> /\ posts < MaxPosts /\ posts' = posts + 1
    BY DEF ViewerDelete
  <2>2. posts' \in 0 .. MaxPosts
    BY <2>0, <2>1, GalleryAssumption
  <2> QED
    BY <1>2, <1>4, <1>6, <2>1, <2>2 DEF GalleryInv, GalleryTypeOK, PageRows, Viewer
<1>8. Wired' /\ PictureComes'
  BY <1>2, <1>5, <1>6 DEF GalleryInv, Wired, PictureComes
<1>15. Ticked'
  BY <1>2, <1>5 DEF GalleryInv, GalleryTypeOK, Ticked, PageRows
<1>9. GoneForGood' /\ ReadRight' /\ ShownRight'
  BY <1>2, <1>5 DEF PageRows, GalleryInv, GoneForGood, ReadRight, ShownRight, Seen
<1>10. \A n \in Wires, s \in Shots : Brings(n, s) => Brings(n, s)'
  BY <1>2, <1>5 DEF Brings, PageRows
<1>11. OnItsWay'
  BY <1>2, <1>10 DEF OnItsWay, PageRows, GalleryInv
<1>12. \A n \in UnderWay : wire[n].kind # "url" => n \in UnderWay' /\ wire'[n].kind = wire[n].kind
  BY <1>5 DEF UnderWay
<1>13. \A n \in Wires : n \in Uploads' <=> n \in Uploads
  BY <1>5 DEF Uploads, UnderWay
<1>14. NothingWaits' /\ DialogHasFiles'
  BY <1>2, <1>12, <1>13 DEF GalleryInv, NothingWaits, DialogHasFiles, PageRows, UnderWay, Uploads
<1> QED
  BY <1>7, <1>8, <1>9, <1>11, <1>14, <1>15 DEF GalleryInv

-----------------------------------------------------------------------------

\* What the API does to one request leaves it under way, and what waits for it.
LEMMA Serving ==
  ASSUME GalleryInv, NEW n \in UnderWay, wire' \in [Wires -> Wire],
         \A m \in Wires \ {n} : wire'[m] = wire[m],
         wire'[n].kind = wire[n].kind, wire'[n].shot = wire[n].shot, wire'[n].pc # "idle",
         UNCHANGED <<gallery, tray, viewer, confirm, posts, loads, looks, blurred, bare, crossed>>
  PROVE  /\ (Wired /\ NothingWaits /\ DialogHasFiles /\ PictureComes)'
         /\ picVars' = picVars => GalleryTypeOK'
<1>1. UnderWay' = UnderWay /\ \A m \in Wires : wire'[m].kind = wire[m].kind /\ wire'[m].shot = wire[m].shot
  BY DEF UnderWay
<1>2. Uploads' = Uploads
  BY <1>1 DEF Uploads, UnderWay
<1>3. Wired' /\ PictureComes'
  BY <1>1 DEF GalleryInv, Wired, PictureComes, UnderWay
<1>4. NothingWaits' /\ DialogHasFiles'
  BY <1>1, <1>2 DEF GalleryInv, NothingWaits, DialogHasFiles, UnderWay
<1>5. picVars' = picVars => GalleryTypeOK'
  BY DEF picVars, GalleryInv, GalleryTypeOK
<1> QED
  BY <1>3, <1>4, <1>5

\* An answer that changes no row.
LEMMA Answering ==
  ASSUME GalleryInv, NEW n \in UnderWay, NEW pc \in {"served", "refused"}, Answers(n, pc), UNCHANGED picVars,
         wire[n].kind \in {"upload", "delete", "reanalyze", "url"},
         wire[n].kind \in {"delete", "reanalyze"} => pc = "refused" /\ wire[n].pc = "sent",
         UNCHANGED <<gallery, tray, viewer, confirm, posts, loads, looks, blurred, bare, crossed>>
  PROVE  GalleryInv'
<1>1. wire \in [Wires -> Wire] /\ n \in Wires /\ wire[n].pc # "idle" /\ wire[n] \in Wire
  BY DEF GalleryInv, GalleryTypeOK, UnderWay
<1>2. [wire[n] EXCEPT !.pc = pc] \in Wire
  BY <1>1 DEF Wire
<1>3. /\ wire' \in [Wires -> Wire] /\ \A m \in Wires \ {n} : wire'[m] = wire[m]
      /\ wire'[n].kind = wire[n].kind /\ wire'[n].shot = wire[n].shot /\ wire'[n].pc = pc
      /\ wire'[n].at = wire[n].at
  BY <1>1, <1>2 DEF Answers, Wire
<1>4. (Wired /\ NothingWaits /\ DialogHasFiles /\ PictureComes)' /\ GalleryTypeOK'
  BY <1>3, Serving
<1>5. Ticked' /\ GoneForGood'
  BY <1>1, <1>3 DEF picVars, GalleryInv, Ticked, GoneForGood
<1>8. ReadRight' /\ ShownRight'
  BY <1>1, <1>3 DEF picVars, GalleryInv, ReadRight, ShownRight, Seen
<1>6. \A m \in Wires, s \in Shots : Brings(m, s) => Brings(m, s)'
  BY <1>1, <1>3 DEF Brings, picVars
<1>7. OnItsWay'
  BY <1>6 DEF OnItsWay, picVars, GalleryInv
<1> QED
  BY <1>4, <1>5, <1>7, <1>8 DEF GalleryInv

LEMMA LoadServed ==
  ASSUME GalleryInv, NEW n \in Wires, ServeLoad(n),
         UNCHANGED <<gallery, tray, viewer, confirm, posts, loads, looks, blurred, bare, crossed>>
  PROVE  GalleryInv'
<1>1. wire \in [Wires -> Wire] /\ n \in UnderWay /\ wire[n] \in Wire /\ clock \in Nat
  BY DEF GalleryInv, GalleryTypeOK, UnderWay, ServeLoad
<1>2. Seen \in [Shots -> Statuses \cup {"none"}]
  BY DEF Seen, GalleryInv, GalleryTypeOK, Statuses
<1>3. [wire[n] EXCEPT !.pc = "served", !.view = Seen, !.at = clock] \in Wire
  BY <1>1, <1>2 DEF Wire
<1>4. /\ wire' \in [Wires -> Wire] /\ \A m \in Wires \ {n} : wire'[m] = wire[m]
      /\ wire'[n].kind = "load" /\ wire'[n].shot = wire[n].shot /\ wire'[n].pc = "served"
      /\ wire'[n].view = Seen /\ wire'[n].at = clock /\ wire[n].kind = "load"
  BY <1>1, <1>3 DEF ServeLoad, Wire
<1>5. (Wired /\ NothingWaits /\ DialogHasFiles /\ PictureComes)' /\ GalleryTypeOK'
  BY <1>1, <1>4, Serving DEF ServeLoad
<1>10. UNCHANGED <<pic, clock, changed, gallery, blurred>> /\ Seen' = Seen
  BY DEF ServeLoad, picVars, Seen
<1>6. Ticked' /\ GoneForGood'
  BY <1>1, <1>4, <1>10 DEF GalleryInv, Ticked, GoneForGood
<1>7. ReadRight' /\ ShownRight'
  BY <1>4, <1>10 DEF GalleryInv, ReadRight, ShownRight
<1>8. \A m \in Wires, s \in Shots : Brings(m, s) => Brings(m, s)'
  BY <1>1, <1>4 DEF Brings, picVars, ServeLoad, GalleryInv, Ticked
<1>9. OnItsWay'
  BY <1>8 DEF OnItsWay, picVars, GalleryInv, ServeLoad
<1> QED
  BY <1>5, <1>6, <1>7, <1>9 DEF GalleryInv

\* A change of a row for a request that brings it.
LEMMA RowChanges ==
  ASSUME GalleryInv, NEW n \in UnderWay, NEW w \in Wire, wire' = [wire EXCEPT ![n] = w],
         NEW t \in Shots, wire[n].shot = t, w.kind = wire[n].kind, w.shot = t,
         NEW state \in {"claimed", "gone", "pending"}, Becomes(t, state), pic[t] # "gone",
         w.at \in {wire[n].at, clock'},
         \/ w.kind = "upload" /\ w.pc # "idle"
         \/ w.kind = "delete" /\ w.pc = "served" /\ w.at = clock' /\ state = "gone"
         \/ w.kind = "reanalyze" /\ w.pc = "served",
         UNCHANGED <<gallery, tray, viewer, confirm, posts, loads, looks, blurred, bare, crossed>>
  PROVE  GalleryInv'
<1>1. wire \in [Wires -> Wire] /\ n \in Wires /\ wire[n].pc # "idle"
  BY DEF GalleryInv, GalleryTypeOK, UnderWay, Wired
<1>2. clock \in Nat /\ changed \in [Shots -> Nat] /\ gallery.heard \in [Shots -> Nat] /\ \A s \in Shots : changed[s] <= clock
  BY DEF GalleryInv, GalleryTypeOK, Ticked
<1>3. /\ clock' = clock + 1 /\ pic' = [pic EXCEPT ![t] = state] /\ changed' = [changed EXCEPT ![t] = clock + 1]
      /\ pic[t] # "gone"
  BY DEF Becomes
<1>4. /\ wire' \in [Wires -> Wire] /\ wire'[n] = w /\ \A m \in Wires \ {n} : wire'[m] = wire[m]
  BY <1>1
<1>5. (Wired /\ NothingWaits /\ DialogHasFiles /\ PictureComes)'
  BY <1>4, Serving
<1>6. GalleryTypeOK'
  <2>1. clock' \in Nat /\ changed' \in [Shots -> Nat]
    BY <1>1, <1>2, <1>3
  <2>2. pic' \in [Shots -> Statuses \cup {"none", "claimed", "gone"}]
    BY <1>3 DEF GalleryInv, GalleryTypeOK, Statuses
  <2> QED
    BY <1>4, <2>1, <2>2 DEF GalleryInv, GalleryTypeOK
<1>7. /\ changed'[t] = clock + 1 /\ pic'[t] = state
      /\ \A s \in Shots \ {t} : changed'[s] = changed[s] /\ pic'[s] = pic[s] /\ Seen'[s] = Seen[s]
  BY <1>1, <1>2, <1>3 DEF GalleryInv, GalleryTypeOK, Seen
<1>8. Ticked'
  <2>1. \A m \in Wires : wire[m].at \in Nat /\ wire[m].at <= clock
    BY DEF GalleryInv, GalleryTypeOK, Wire, Ticked
  <2>2. \A s \in Shots : gallery.heard[s] <= clock
    BY DEF GalleryInv, Ticked
  <2>3. \A m \in Wires : wire'[m].at <= clock'
    BY <1>1, <1>2, <1>3, <1>4, <2>1
  <2> QED
    BY <1>2, <1>3, <1>7, <2>2, <2>3 DEF Ticked
<1>9. GoneForGood'
  BY <1>3, <1>4, <1>7 DEF GoneForGood, GalleryInv, Wired
<1>10. \A m \in Wires : wire[m].at \in Nat /\ (wire[m].kind = "load" /\ wire[m].pc = "served" => wire[m].at <= clock)
  BY DEF GalleryInv, GalleryTypeOK, Wire, Ticked
<1>11. ReadRight'
  BY <1>2, <1>4, <1>7, <1>10 DEF ReadRight, GalleryInv
<1>12. \A s \in Shots : gallery.heard[s] <= clock
  BY DEF GalleryInv, Ticked
<1>13. ShownRight'
  BY <1>2, <1>7, <1>12 DEF ShownRight, GalleryInv
<1>14. \A m \in Wires, s \in Shots \ {t} : Brings(m, s) => Brings(m, s)'
  <2> SUFFICES ASSUME NEW m \in Wires, NEW s \in Shots \ {t}, Brings(m, s) PROVE Brings(m, s)'
    OBVIOUS
  <2>1. CASE m # n
    BY <1>4, <1>7, <2>1 DEF Brings
  <2>2. CASE m = n
    BY <1>1, <1>4, <2>2 DEF Brings
  <2> QED
    BY <2>1, <2>2
<1>15. Brings(n, t)'
  BY <1>4 DEF Brings
<1>16. OnItsWay'
  BY <1>1, <1>7, <1>14, <1>15 DEF OnItsWay, GalleryInv
<1> QED
  BY <1>5, <1>6, <1>8, <1>9, <1>11, <1>13, <1>16 DEF GalleryInv

\* A placeholder is listed as what it becomes.
LEMMA UploadStored ==
  ASSUME GalleryInv, NEW n \in UnderWay, NEW t \in Shots, wire[n].shot = t, wire[n].kind = "upload",
         pic[t] = "claimed", pic' = [pic EXCEPT ![t] = "pending"], UNCHANGED <<clock, changed>>, Answers(n, "served"),
         UNCHANGED <<gallery, tray, viewer, confirm, posts, loads, looks, blurred, bare, crossed>>
  PROVE  GalleryInv'
<1>1. wire \in [Wires -> Wire] /\ n \in Wires /\ wire[n].pc # "idle" /\ wire[n] \in Wire
  BY DEF GalleryInv, GalleryTypeOK, UnderWay
<1>2. [wire[n] EXCEPT !.pc = "served"] \in Wire
  BY <1>1 DEF Wire
<1>3. /\ wire' \in [Wires -> Wire] /\ \A m \in Wires \ {n} : wire'[m] = wire[m]
      /\ wire'[n].kind = "upload" /\ wire'[n].shot = wire[n].shot /\ wire'[n].pc = "served"
      /\ wire'[n].at = wire[n].at
  BY <1>1, <1>2 DEF Answers, Wire
<1>4. (Wired /\ NothingWaits /\ DialogHasFiles /\ PictureComes)'
  BY <1>3, Serving
<1>5. pic' \in [Shots -> Statuses \cup {"none", "claimed", "gone"}]
  BY DEF GalleryInv, GalleryTypeOK, Statuses
<1>6. GalleryTypeOK'
  BY <1>3, <1>5 DEF GalleryInv, GalleryTypeOK
<1>7. /\ \A s \in Shots : pic'[s] = "gone" <=> pic[s] = "gone"
      /\ \A s \in Shots : Seen'[s] = Seen[s]
  BY DEF GalleryInv, GalleryTypeOK, Seen
<1>8. Ticked' /\ GoneForGood'
  BY <1>1, <1>3, <1>7 DEF GalleryInv, Wired, Ticked, GoneForGood
<1>9. ReadRight' /\ ShownRight'
  BY <1>1, <1>3, <1>7 DEF GalleryInv, ReadRight, ShownRight
<1>10. \A m \in Wires, s \in Shots : Brings(m, s) => Brings(m, s)'
  BY <1>1, <1>3 DEF Brings
<1>11. OnItsWay'
  BY <1>10 DEF OnItsWay, GalleryInv
<1> QED
  BY <1>4, <1>6, <1>8, <1>9, <1>11 DEF GalleryInv

LEMMA WireServed == ASSUME GalleryInv, NEW n \in Wires, ServeWire(n) PROVE GalleryInv'
<1>1. /\ UNCHANGED <<gallery, tray, viewer, confirm, posts, loads, looks, blurred, bare, crossed>>
      /\ wire[n] \in Wire /\ wire \in [Wires -> Wire] /\ clock \in Nat
      /\ wire[n].kind # "load" => wire[n].shot \in Shots
  BY DEF ServeWire, GalleryInv, GalleryTypeOK, Wired
<1> DEFINE t == wire[n].shot
<1>2. ASSUME NEW pc \in {"claimed", "served", "refused"}
      PROVE  LET w == [wire[n] EXCEPT !.pc = pc]
             IN  w \in Wire /\ w.kind = wire[n].kind /\ w.shot = t /\ w.pc = pc /\ w.at = wire[n].at
                 /\ (Answers(n, pc) => wire' = [wire EXCEPT ![n] = w])
  BY <1>1 DEF Wire, Answers
<1>3. CASE ServeLoad(n)
  BY <1>1, <1>3, LoadServed
<1>4. CASE RefuseUpload(n)
  <2>1. n \in UnderWay
    BY <1>4 DEF RefuseUpload, UnderWay
  <2> QED
    BY <1>1, <1>4, <2>1, Answering DEF RefuseUpload
<1>5. CASE ClaimUpload(n)
  <2>1. n \in UnderWay /\ wire[n].kind = "upload" /\ Becomes(t, "claimed") /\ pic[t] = "none" /\ Answers(n, "claimed")
    BY <1>5 DEF ClaimUpload, UnderWay
  <2> QED
    BY <1>1, <1>2, <2>1, RowChanges
<1>6. CASE StoreUpload(n)
  <2>1. n \in UnderWay /\ wire[n].kind = "upload"
    BY <1>6 DEF StoreUpload, UnderWay
  <2>2. CASE /\ pic[t] = "claimed" /\ pic' = [pic EXCEPT ![t] = "pending"]
             /\ UNCHANGED <<clock, changed>> /\ Answers(n, "served")
    BY <1>1, <2>1, <2>2, UploadStored
  <2>3. CASE Answers(n, "refused") /\ UNCHANGED picVars
    BY <1>1, <2>1, <2>3, Answering
  <2>4. CASE pic[t] = "claimed" /\ Becomes(t, "gone") /\ Answers(n, "refused")
    BY <1>1, <1>2, <2>1, <2>4, RowChanges
  <2> QED
    BY <1>6, <2>2, <2>3, <2>4 DEF StoreUpload
<1>7. CASE ServeDelete(n)
  <2>1. n \in UnderWay /\ wire[n].kind = "delete" /\ wire[n].pc = "sent"
    BY <1>7 DEF ServeDelete, UnderWay
  <2>2. CASE Stored(t)
    <3> DEFINE w == [wire[n] EXCEPT !.pc = "served", !.at = clock']
    <3>1. /\ Becomes(t, "gone") /\ clock' = clock + 1
          /\ wire' = [wire EXCEPT ![n].pc = "served", ![n].at = clock']
      BY <1>7, <2>2 DEF ServeDelete, Becomes
    <3>2. w \in Wire /\ w.kind = "delete" /\ w.shot = t /\ w.pc = "served" /\ w.at = clock'
      <4>1. clock' \in Nat
        BY <1>1, <3>1
      <4>2. wire[n] \in Wire
        BY <1>1
      <4> QED
        BY <2>1, <4>1, <4>2 DEF Wire
    <3>3. wire' = [wire EXCEPT ![n] = w]
      BY <1>1, <3>1
    <3>4. pic[t] # "gone"
      BY <2>2 DEF Stored
    <3> HIDE DEF w
    <3> QED
      BY <1>1, <2>1, <3>1, <3>2, <3>3, <3>4, RowChanges
  <2>3. CASE ~Stored(t)
    BY <1>1, <1>7, <2>1, <2>3, Answering DEF ServeDelete
  <2> QED
    BY <2>2, <2>3
<1>8. CASE ServeReanalyze(n)
  <2>1. n \in UnderWay /\ wire[n].kind = "reanalyze" /\ wire[n].pc = "sent"
    BY <1>8 DEF ServeReanalyze, UnderWay
  <2>2. CASE Stored(t) /\ Becomes(t, "pending") /\ Answers(n, "served")
    BY <1>1, <1>2, <2>1, <2>2, RowChanges DEF Stored
  <2>3. CASE Answers(n, "refused") /\ UNCHANGED picVars
    BY <1>1, <2>1, <2>3, Answering
  <2> QED
    BY <1>8, <2>2, <2>3 DEF ServeReanalyze
<1>9. CASE ServeUrl(n)
  <2>1. n \in UnderWay /\ wire[n].kind = "url"
    BY <1>9 DEF ServeUrl, UnderWay
  <2> QED
    BY <1>1, <1>9, <2>1, Answering DEF ServeUrl
<1> QED
  BY <1>3, <1>4, <1>5, <1>6, <1>7, <1>8, <1>9 DEF ServeWire

\* The end of an analysis: what is shown or was read as pending stays so.
LEMMA AnalysisEnds ==
  ASSUME GalleryInv, NEW t \in Shots, NEW state \in {"complete", "failed"}, Analysed(t, state)
  PROVE  GalleryInv'
<1>1. /\ UNCHANGED <<clock, changed, gallery, tray, viewer, confirm, wire, posts, loads, looks, blurred, bare, crossed>>
      /\ pic[t] = "pending" /\ pic' = [pic EXCEPT ![t] = state] /\ UNCHANGED <<wire, gallery>>
  BY DEF Analysed
<1>2. /\ pic' \in [Shots -> Statuses \cup {"none", "claimed", "gone"}]
      /\ \A s \in Shots : pic'[s] = "gone" <=> pic[s] = "gone"
      /\ \A s \in Shots : Seen'[s] = Seen[s] \/ Seen[s] = "pending"
  BY <1>1 DEF GalleryInv, GalleryTypeOK, Statuses, Seen
<1>3. GalleryTypeOK'
  BY <1>1, <1>2 DEF GalleryInv, GalleryTypeOK
<1>4. (Wired /\ Ticked /\ NothingWaits /\ DialogHasFiles /\ PictureComes)'
  BY <1>1 DEF GalleryInv, Wired, Ticked, NothingWaits, DialogHasFiles, PictureComes, UnderWay, Uploads
<1>5. GoneForGood'
  BY <1>1, <1>2 DEF GalleryInv, GoneForGood, Wired
<1>6. ReadRight' /\ ShownRight'
  BY <1>1, <1>2 DEF GalleryInv, ReadRight, ShownRight
<1>7. OnItsWay'
  BY <1>1 DEF GalleryInv, OnItsWay, Brings
<1> QED
  BY <1>3, <1>4, <1>5, <1>6, <1>7 DEF GalleryInv

-----------------------------------------------------------------------------

\* A request that is over, or becomes a load.
LEMMA Letting ==
  ASSUME GalleryInv, NEW n \in Wires, NEW pc \in {"idle", "sent"},
         wire' = [wire EXCEPT ![n] = [NoWire EXCEPT !.pc = pc]], UNCHANGED <<picVars, posts, loads, looks, bare>>,
         confirm' \in Shots \cup {NoShot}
  PROVE  /\ wire' \in [Wires -> Wire]
         /\ wire'[n].kind = "load" /\ wire'[n].pc = pc /\ wire'[n].at = 0
         /\ \A m \in Wires \ {n} : wire'[m] = wire[m]
         /\ \A m \in Wires : wire'[m].kind # "load" => wire'[m].shot \in Shots
         /\ GoneForGood' /\ ReadRight'
         /\ \A m \in Wires : wire'[m].at <= clock'
         /\ \A m \in Wires \ {n}, s \in Shots : Brings(m, s) => Brings(m, s)'
<1>1. wire \in [Wires -> Wire] /\ clock \in Nat /\ UNCHANGED <<pic, clock, changed>> /\ Seen' = Seen
  BY DEF GalleryInv, GalleryTypeOK, picVars, Seen
<1>2. [NoWire EXCEPT !.pc = pc] \in Wire
  BY DEF NoWire, Wire, Nothing
<1>3. [NoWire EXCEPT !.pc = pc].kind = "load" /\ [NoWire EXCEPT !.pc = pc].pc = pc /\ [NoWire EXCEPT !.pc = pc].at = 0
  BY DEF NoWire
<1>4. /\ wire' \in [Wires -> Wire] /\ wire'[n].kind = "load" /\ wire'[n].pc = pc /\ wire'[n].at = 0
      /\ \A m \in Wires \ {n} : wire'[m] = wire[m]
  BY <1>1, <1>2, <1>3
<1>5. /\ \A m \in Wires : wire'[m].kind # "load" => wire'[m].shot \in Shots
      /\ \A m \in Wires : wire'[m].at <= clock'
  BY <1>1, <1>4 DEF GalleryInv, Wired, Ticked
<1>6. GoneForGood' /\ ReadRight'
  BY <1>1, <1>4 DEF GalleryInv, GoneForGood, ReadRight
<1>7. \A m \in Wires \ {n}, s \in Shots : Brings(m, s) => Brings(m, s)'
  BY <1>1, <1>4 DEF Brings
<1> QED
  BY <1>4, <1>5, <1>6, <1>7

LEMMA ForgetAndLoad ==
  ASSUME NEW n \in Wires
  PROVE  /\ Forget(n) = [wire EXCEPT ![n] = [NoWire EXCEPT !.pc = "idle"]]
         /\ LoadNext(n) = [wire EXCEPT ![n] = [NoWire EXCEPT !.pc = "sent"]]
  BY DEF Forget, LoadNext, NoWire

\* A load is heard, or lost.
LEMMA LoadEnds ==
  ASSUME GalleryInv, NEW n \in Wires, HearShots(n) \/ LoseShots(n), UNCHANGED <<picVars, posts, loads, looks, bare>>,
         confirm' \in Shots \cup {NoShot}
  PROVE  GalleryInv'
<1>1. /\ wire' = [wire EXCEPT ![n] = [NoWire EXCEPT !.pc = "idle"]] /\ wire[n].kind = "load"
      /\ wire[n].pc \in {"sent", "served"} /\ UNCHANGED <<pic, clock, changed, tray, viewer, crossed, bare, loads>>
  BY ForgetAndLoad DEF HearShots, LoseShots, picVars
<1>2. /\ wire' \in [Wires -> Wire] /\ wire'[n].kind = "load" /\ wire'[n].pc = "idle"
      /\ \A m \in Wires \ {n} : wire'[m] = wire[m]
      /\ \A m \in Wires : wire'[m].kind # "load" => wire'[m].shot \in Shots
      /\ GoneForGood' /\ ReadRight'
      /\ \A m \in Wires : wire'[m].at <= clock'
      /\ \A m \in Wires \ {n}, s \in Shots : Brings(m, s) => Brings(m, s)'
  BY <1>1, Letting
<1>3. /\ gallery \in [shots : [Shots -> Statuses \cup {"none"}], heard : [Shots -> Nat], loading : BOOLEAN]
      /\ wire[n].view \in [Shots -> Statuses \cup {"none"}] /\ wire[n].at \in Nat /\ wire[n].at <= clock
      /\ blurred \in BOOLEAN
  BY DEF GalleryInv, GalleryTypeOK, Wire, Ticked
<1>4. Seen' = Seen
  BY <1>1 DEF Seen
<1>5. /\ gallery' \in [shots : [Shots -> Statuses \cup {"none"}], heard : [Shots -> Nat], loading : BOOLEAN]
      /\ ~gallery'.loading /\ blurred' \in BOOLEAN /\ \A s \in Shots : gallery'.heard[s] <= clock
      /\ (ShownRight /\ OnItsWay)'
  <2>1. CASE HearShots(n)
    <3>1. /\ gallery' = [shots |-> wire[n].view, heard |-> [s \in Shots |-> wire[n].at], loading |-> FALSE]
          /\ blurred' = (blurred \/ \E s \in Shots : wire[n].at < gallery.heard[s]) /\ wire[n].pc = "served"
      BY <2>1 DEF HearShots
    <3>2. /\ gallery' \in [shots : [Shots -> Statuses \cup {"none"}], heard : [Shots -> Nat], loading : BOOLEAN]
          /\ ~gallery'.loading /\ gallery'.shots = wire[n].view /\ \A s \in Shots : gallery'.heard[s] = wire[n].at
      BY <1>3, <3>1
    <3>3. ShownRight'
      BY <1>1, <1>4, <3>1, <3>2 DEF ShownRight, GalleryInv, ReadRight
    <3>4. ASSUME NEW s \in Shots, ~blurred', changed'[s] > gallery'.heard[s] PROVE \E m \in Wires : Brings(m, s)'
      <4>0. changed[s] \in Nat /\ gallery.heard[s] \in Nat
        BY <1>3 DEF GalleryInv, GalleryTypeOK
      <4>4. ~blurred /\ ~(wire[n].at < gallery.heard[s])
        BY <3>1, <3>4
      <4>5. changed[s] > wire[n].at
        BY <1>1, <3>2, <3>4
      <4>1. ~blurred /\ changed[s] > wire[n].at /\ changed[s] > gallery.heard[s]
        BY <1>3, <4>0, <4>4, <4>5
      <4>2. PICK m \in Wires : Brings(m, s)
        BY <4>1 DEF GalleryInv, OnItsWay
      <4>3. m # n
        BY <1>1, <1>3, <3>1, <4>0, <4>1, <4>2 DEF Brings
      <4> QED
        BY <1>2, <4>2, <4>3
    <3> QED
      BY <1>3, <3>1, <3>2, <3>3, <3>4 DEF OnItsWay
  <2>2. CASE LoseShots(n)
    <3>1. gallery' = [gallery EXCEPT !.loading = FALSE] /\ blurred' = TRUE
      BY <2>2 DEF LoseShots
    <3>2. /\ gallery' \in [shots : [Shots -> Statuses \cup {"none"}], heard : [Shots -> Nat], loading : BOOLEAN]
          /\ ~gallery'.loading /\ gallery'.heard = gallery.heard
      BY <1>3, <3>1
    <3> QED
      BY <3>1, <3>2 DEF ShownRight, OnItsWay, GalleryInv, Ticked
  <2> QED
    BY <2>1, <2>2
<1>6. GalleryTypeOK' /\ Wired' /\ Ticked'
  BY <1>1, <1>2, <1>5 DEF GalleryInv, GalleryTypeOK, Wired, Ticked
<1>7. Uploads' = Uploads /\ \A m \in UnderWay : wire[m].kind = "url" => m \in UnderWay' /\ wire'[m] = wire[m]
  BY <1>1, <1>2 DEF Uploads, UnderWay
<1>8. NothingWaits' /\ DialogHasFiles'
  BY <1>1, <1>5, <1>7 DEF GalleryInv, NothingWaits, DialogHasFiles
<1>9. PictureComes'
  BY <1>1, <1>7 DEF GalleryInv, PictureComes
<1> QED
  BY <1>2, <1>5, <1>6, <1>8, <1>9 DEF GalleryInv

LEMMA UploadEnds ==
  ASSUME GalleryInv, NEW n \in Wires, UploadGoesOn(n), UNCHANGED <<picVars, posts, loads, looks, bare>>,
         confirm' \in Shots \cup {NoShot}
  PROVE  GalleryInv'
<1>1. /\ wire[n].kind = "upload" /\ wire[n].pc \in {"sent", "served", "refused"} /\ n \in UnderWay /\ n \in Uploads
      /\ UNCHANGED <<pic, clock, changed, gallery, viewer, blurred, crossed, bare, loads>> /\ Seen' = Seen
      /\ wire \in [Wires -> Wire] /\ wire[n] \in Wire /\ wire[n].shot \in Shots
  BY DEF UploadGoesOn, UnderWay, Uploads, picVars, Seen, GalleryInv, GalleryTypeOK, Wired
<1>2. ASSUME NEW s \in wire[n].left, wire' = [wire EXCEPT ![n].shot = s, ![n].left = @ \ {s}, ![n].pc = "sent"],
             UNCHANGED tray
      PROVE  GalleryInv'
  <2>1. s \in Shots /\ [wire[n] EXCEPT !.shot = s, !.left = @ \ {s}, !.pc = "sent"] \in Wire
    BY <1>1 DEF Wire
  <2>2. /\ wire' \in [Wires -> Wire] /\ \A m \in Wires \ {n} : wire'[m] = wire[m]
        /\ wire'[n].kind = "upload" /\ wire'[n].shot = s /\ wire'[n].pc = "sent" /\ wire'[n].at = wire[n].at
    BY <1>1, <1>2, <2>1 DEF Wire
  <2>3. UnderWay' = UnderWay
    BY <1>1, <2>2 DEF UnderWay
  <2>4. Uploads' = Uploads
    <3>1. \A m \in Wires : wire'[m].kind = wire[m].kind
      BY <1>1, <2>2
    <3> QED
      BY <2>3, <3>1 DEF Uploads, UnderWay
  <2>5. GalleryTypeOK' /\ Wired' /\ Ticked'
    BY <1>1, <1>2, <2>1, <2>2 DEF GalleryInv, GalleryTypeOK, Wired, Ticked
  <2>6. (GoneForGood /\ ReadRight /\ ShownRight)'
    BY <1>1, <2>2 DEF GalleryInv, GoneForGood, ReadRight, ShownRight
  <2>7. \A m \in Wires, x \in Shots : Brings(m, x) => Brings(m, x)'
    BY <1>1, <2>2 DEF Brings
  <2>8. OnItsWay'
    BY <1>1, <2>7 DEF OnItsWay, GalleryInv
  <2>9. (NothingWaits /\ DialogHasFiles /\ PictureComes)'
    BY <1>1, <1>2, <2>2, <2>3, <2>4 DEF GalleryInv, NothingWaits, DialogHasFiles, PictureComes, UnderWay
  <2> QED
    BY <2>5, <2>6, <2>8, <2>9 DEF GalleryInv
<1>3. ASSUME wire' = LoadNext(n), tray' = [tray EXCEPT !.pending = {}, !.uploading = FALSE] PROVE GalleryInv'
  <2>1. /\ wire' \in [Wires -> Wire] /\ wire'[n].kind = "load" /\ wire'[n].pc = "sent"
        /\ \A m \in Wires \ {n} : wire'[m] = wire[m]
        /\ \A m \in Wires : wire'[m].kind # "load" => wire'[m].shot \in Shots
        /\ GoneForGood' /\ ReadRight'
        /\ \A m \in Wires : wire'[m].at <= clock'
        /\ \A m \in Wires \ {n}, s \in Shots : Brings(m, s) => Brings(m, s)'
    BY <1>3, Letting, ForgetAndLoad
  <2>2. tray \in Tray
    BY DEF GalleryInv, GalleryTypeOK, Tray
  <2>3. tray' \in Tray /\ tray'.dialog = tray.dialog /\ ~tray'.uploading
    BY <1>3, <2>2 DEF Tray
  <2>4. GalleryTypeOK' /\ Wired' /\ Ticked'
    BY <1>1, <2>1, <2>3 DEF GalleryInv, GalleryTypeOK, Wired, Ticked, Tray
  <2>5. \A s \in Shots : Brings(n, s)'
    BY <2>1 DEF Brings
  <2>6. OnItsWay' /\ ShownRight'
    BY <1>1, <2>1, <2>5 DEF GalleryInv, OnItsWay, ShownRight
  <2>7. \A m \in UnderWay : m \in UnderWay' /\ (m # n => wire'[m] = wire[m])
    BY <2>1 DEF UnderWay
  <2>8. (NothingWaits /\ PictureComes)'
    BY <1>1, <2>1, <2>3, <2>7 DEF GalleryInv, NothingWaits, PictureComes
  <2>9. DialogHasFiles'
    BY <1>1, <2>3 DEF GalleryInv, DialogHasFiles
  <2> QED
    BY <2>1, <2>4, <2>6, <2>8, <2>9 DEF GalleryInv
<1> QED
  BY <1>2, <1>3 DEF UploadGoesOn

\* A photo that is told to be deleted is gone for good.
LEMMA DeletionHeard ==
  ASSUME GalleryInv, NEW n \in Wires, HearDeleted(n), UNCHANGED <<picVars, posts, loads, looks, bare>>,
         confirm' \in Shots \cup {NoShot}
  PROVE  GalleryInv'
<1> DEFINE t == wire[n].shot
<1>1. /\ wire[n].kind = "delete" /\ wire[n].pc = "served" /\ t \in Shots /\ pic[t] = "gone" /\ changed[t] = wire[n].at
      /\ UNCHANGED <<pic, clock, changed, tray, blurred, bare, loads>> /\ Seen' = Seen /\ Seen[t] = "none"
      /\ wire \in [Wires -> Wire] /\ wire[n].at \in Nat /\ wire[n].at <= clock
  BY DEF HearDeleted, picVars, Seen, GalleryInv, GalleryTypeOK, Wired, GoneForGood, Ticked, Wire
<1>2. Forget(n) \in [Wires -> Wire] /\ Forget(n)[n] = NoWire /\ \A m \in Wires \ {n} : Forget(n)[m] = wire[m]
  BY <1>1, NoWireIsAWire DEF Forget
<1>3. /\ wire' \in [Wires -> Wire]
      /\ \A m \in Wires : \/ wire'[m] = wire[m] /\ m # n /\ wire[m].kind # "url"
                          \/ /\ wire'[m].pc = "idle" /\ wire'[m].kind = "load" /\ wire'[m].at = 0
                             /\ m = n \/ wire[m].kind = "url"
  BY <1>2, Closing, NoWireIsAWire DEF HearDeleted
<1>4. NoViewer \in Viewer /\ ~NoViewer.on /\ viewer' = NoViewer /\ crossed' = FALSE
  BY DEF NoViewer, Viewer, HearDeleted
<1>5. gallery \in [shots : [Shots -> Statuses \cup {"none"}], heard : [Shots -> Nat], loading : BOOLEAN]
  BY DEF GalleryInv, GalleryTypeOK
<1>6. /\ gallery' \in [shots : [Shots -> Statuses \cup {"none"}], heard : [Shots -> Nat], loading : BOOLEAN]
      /\ gallery'.loading = gallery.loading
      /\ gallery'.shots[t] = "none" /\ gallery'.heard[t] = wire[n].at
      /\ \A s \in Shots \ {t} : gallery'.shots[s] = gallery.shots[s] /\ gallery'.heard[s] = gallery.heard[s]
  BY <1>1, <1>5 DEF HearDeleted
<1>7. GalleryTypeOK'
  <2>1. crossed' \in BOOLEAN
    BY <1>4
  <2> QED
    BY <1>1, <1>3, <1>4, <1>6, <2>1 DEF GalleryInv, GalleryTypeOK, Viewer
<1>15. Wired'
  BY <1>3, <1>4 DEF GalleryInv, Wired
<1>8. Ticked'
  <2>1. \A m \in Wires : wire'[m].at <= clock'
    BY <1>1, <1>3 DEF GalleryInv, Ticked, GalleryTypeOK
  <2>2. \A s \in Shots : gallery'.heard[s] <= clock'
    BY <1>1, <1>6 DEF GalleryInv, Ticked
  <2> QED
    BY <1>1, <2>1, <2>2 DEF GalleryInv, Ticked
<1>9. GoneForGood' /\ ReadRight'
  BY <1>1, <1>3 DEF GalleryInv, GoneForGood, ReadRight
<1>10. ShownRight'
  BY <1>1, <1>6 DEF GalleryInv, ShownRight
<1>11. OnItsWay'
  <2> SUFFICES ASSUME NEW s \in Shots, ~blurred', changed'[s] > gallery'.heard[s] PROVE \E m \in Wires : Brings(m, s)'
    BY DEF OnItsWay
  <2>1. s # t
    BY <1>1, <1>6
  <2>2. PICK m \in Wires : Brings(m, s)
    BY <1>1, <1>6, <2>1 DEF GalleryInv, OnItsWay
  <2>3. m # n /\ wire[m].kind # "url"
    BY <1>1, <2>1, <2>2 DEF Brings
  <2>4. wire'[m] = wire[m]
    BY <1>3, <2>3
  <2> QED
    BY <1>1, <2>2, <2>4 DEF Brings
<1>12. \A m \in Wires : wire[m].kind \in {"load", "upload"} => wire'[m] = wire[m]
  BY <1>1, <1>3
<1>13. Uploads' = Uploads
  BY <1>1, <1>3 DEF Uploads, UnderWay
<1>14. (NothingWaits /\ DialogHasFiles /\ PictureComes)'
  BY <1>1, <1>4, <1>6, <1>12, <1>13 DEF GalleryInv, NothingWaits, DialogHasFiles, PictureComes, UnderWay
<1> QED
  BY <1>7, <1>8, <1>9, <1>10, <1>11, <1>14, <1>15 DEF GalleryInv

\* A re-analysis that is heard loads the list; one that is lost after it was
\* served, as a deletion, blurs it.
LEMMA PostEnds ==
  ASSUME GalleryInv, NEW n \in Wires, HearReanalyzing(n) \/ LosePost(n),
         UNCHANGED <<picVars, posts, loads, looks, bare>>, confirm' \in Shots \cup {NoShot}
  PROVE  GalleryInv'
<1>1. /\ wire[n].kind \in {"delete", "reanalyze"} /\ wire[n].pc # "idle"
      /\ UNCHANGED <<pic, clock, changed, gallery, tray, viewer, crossed, bare, loads>> /\ Seen' = Seen
      /\ blurred \in BOOLEAN
  BY DEF HearReanalyzing, LosePost, picVars, Seen, GalleryInv, GalleryTypeOK
<1>2. PICK pc \in {"idle", "sent"} :
        /\ wire' = [wire EXCEPT ![n] = [NoWire EXCEPT !.pc = pc]]
        /\ pc = "sent" => blurred' = blurred
        /\ pc = "idle" => blurred' = (blurred \/ wire[n].pc = "served")
  BY ForgetAndLoad DEF HearReanalyzing, LosePost
<1>3. /\ wire' \in [Wires -> Wire] /\ wire'[n].kind = "load" /\ wire'[n].pc = pc
      /\ \A m \in Wires \ {n} : wire'[m] = wire[m]
      /\ \A m \in Wires : wire'[m].kind # "load" => wire'[m].shot \in Shots
      /\ GoneForGood' /\ ReadRight'
      /\ \A m \in Wires : wire'[m].at <= clock'
      /\ \A m \in Wires \ {n}, s \in Shots : Brings(m, s) => Brings(m, s)'
  BY <1>2, Letting
<1>4. blurred' \in BOOLEAN /\ (~blurred' => ~blurred)
  <2>1. CASE pc = "sent"
    BY <1>1, <1>2, <2>1
  <2>2. CASE pc = "idle"
    BY <1>2, <2>2
  <2> QED
    BY <2>1, <2>2
<1>5. GalleryTypeOK' /\ Wired' /\ Ticked'
  BY <1>1, <1>3, <1>4 DEF GalleryInv, GalleryTypeOK, Wired, Ticked
<1>6. ShownRight'
  BY <1>1, <1>4 DEF GalleryInv, ShownRight
<1>7. OnItsWay'
  <2> SUFFICES ASSUME NEW s \in Shots, ~blurred', changed'[s] > gallery'.heard[s] PROVE \E m \in Wires : Brings(m, s)'
    BY DEF OnItsWay
  <2>1. PICK m \in Wires : Brings(m, s)
    BY <1>1, <1>4 DEF GalleryInv, OnItsWay
  <2>2. CASE m # n
    BY <1>3, <2>1, <2>2
  <2>3. CASE m = n
    <3>1. pc = "sent"
      BY <1>1, <1>2, <2>1, <2>3 DEF Brings
    <3> QED
      BY <1>3, <3>1 DEF Brings
  <2> QED
    BY <2>2, <2>3
<1>8. Uploads' = Uploads /\ \A m \in UnderWay : wire[m].kind \in {"load", "url"} => m \in UnderWay' /\ wire'[m] = wire[m]
  BY <1>1, <1>3 DEF Uploads, UnderWay
<1>9. (NothingWaits /\ DialogHasFiles /\ PictureComes)'
  BY <1>1, <1>8 DEF GalleryInv, NothingWaits, DialogHasFiles, PictureComes
<1> QED
  BY <1>3, <1>5, <1>6, <1>7, <1>9 DEF GalleryInv

\* A picture.
LEMMA UrlEnds ==
  ASSUME GalleryInv, NEW n \in Wires, HearUrl(n) \/ LoseUrl(n), UNCHANGED <<picVars, posts, loads, looks, bare>>,
         confirm' \in Shots \cup {NoShot}
  PROVE  GalleryInv'
<1>1. /\ wire[n].kind = "url" /\ wire[n].pc # "idle" /\ wire[n].shot \in Shots
      /\ UNCHANGED <<pic, clock, changed, gallery, tray, blurred, bare, loads>> /\ Seen' = Seen
      /\ wire' = [wire EXCEPT ![n] = [NoWire EXCEPT !.pc = "idle"]]
  BY ForgetAndLoad DEF HearUrl, LoseUrl, picVars, Seen, GalleryInv, Wired
<1>2. /\ wire' \in [Wires -> Wire] /\ wire'[n].kind = "load" /\ wire'[n].pc = "idle"
      /\ \A m \in Wires \ {n} : wire'[m] = wire[m]
      /\ \A m \in Wires : wire'[m].kind # "load" => wire'[m].shot \in Shots
      /\ GoneForGood' /\ ReadRight'
      /\ \A m \in Wires : wire'[m].at <= clock'
      /\ \A m \in Wires \ {n}, s \in Shots : Brings(m, s) => Brings(m, s)'
  BY <1>1, Letting
<1>3. viewer \in Viewer /\ crossed \in BOOLEAN
  BY DEF GalleryInv, GalleryTypeOK, Viewer
<1>4. viewer' \in Viewer /\ viewer'.on = viewer.on /\ viewer'.shot = viewer.shot /\ crossed' \in BOOLEAN
  BY <1>1, <1>3 DEF HearUrl, LoseUrl, Viewer
<1>5. GalleryTypeOK' /\ Wired' /\ Ticked'
  BY <1>1, <1>2, <1>4 DEF GalleryInv, GalleryTypeOK, Wired, Ticked, Viewer
<1>6. \A s \in Shots : ~Brings(n, s)
  BY <1>1 DEF Brings
<1>7. OnItsWay' /\ ShownRight'
  BY <1>1, <1>2, <1>6 DEF GalleryInv, OnItsWay, ShownRight
<1>8. Uploads' = Uploads /\ \A m \in UnderWay \ {n} : m \in UnderWay' /\ wire'[m] = wire[m]
  BY <1>1, <1>2 DEF Uploads, UnderWay
<1>9. (NothingWaits /\ DialogHasFiles)'
  BY <1>1, <1>8 DEF GalleryInv, NothingWaits, DialogHasFiles
<1>10. PictureComes'
  <2>1. CASE HearUrl(n)
    <3>1. viewer'.image = wire[n].shot /\ crossed' = (crossed \/ (viewer.image = viewer.shot /\ wire[n].shot # viewer.shot))
      BY <1>3, <2>1 DEF HearUrl, Viewer
    <3> QED
      BY <1>4, <1>8, <3>1 DEF GalleryInv, PictureComes
  <2>2. CASE LoseUrl(n)
    BY <2>2 DEF LoseUrl, PictureComes
  <2> QED
    BY <2>1, <2>2
<1> QED
  BY <1>2, <1>5, <1>7, <1>9, <1>10 DEF GalleryInv

LEMMA GalleryStarts == GalleryInit => GalleryInv
<1> SUFFICES ASSUME GalleryInit PROVE GalleryInv
  OBVIOUS
<1>1. \A n \in Wires : wire[n] = NoWire
  BY DEF GalleryInit
<1>2. UnderWay = {}
  BY <1>1, NoWireIsAWire DEF UnderWay
<1>3. /\ wire \in [Wires -> Wire] /\ viewer \in Viewer /\ ~viewer.on
      /\ gallery.loading /\ \A s \in Shots : gallery.heard[s] = 0
  BY NoWireIsAWire DEF GalleryInit, NoViewer, Viewer
<1>4. tray \in Tray /\ tray.dialog = "none" /\ ~tray.uploading
  <2>1. PICK b \in BOOLEAN : tray = [pending |-> {}, dialog |-> "none", agreed |-> b, uploading |-> FALSE]
    BY DEF GalleryInit
  <2> QED
    BY <2>1 DEF Tray
<1>5. GalleryTypeOK
  <2>1. /\ pic \in [Shots -> Statuses \cup {"none", "claimed", "gone"}] /\ changed \in [Shots -> Nat] /\ clock \in Nat
        /\ gallery \in [shots : [Shots -> Statuses \cup {"none"}], heard : [Shots -> Nat], loading : BOOLEAN]
    BY DEF GalleryInit, Statuses, Nothing
  <2>2. /\ confirm \in Shots \cup {NoShot} /\ {blurred, bare, crossed} \subseteq BOOLEAN
        /\ posts \in 0 .. MaxPosts /\ loads \in 0 .. MaxLoads /\ looks \in 0 .. MaxLooks
    <3>1. MaxPosts \in Nat /\ MaxLoads \in Nat /\ MaxLooks \in Nat
      BY GalleryAssumption
    <3>2. posts \in 0 .. MaxPosts /\ loads \in 0 .. MaxLoads /\ looks \in 0 .. MaxLooks
      BY <3>1 DEF GalleryInit
    <3>3. confirm \in Shots \cup {NoShot} /\ {blurred, bare, crossed} \subseteq BOOLEAN
      BY DEF GalleryInit
    <3> QED
      BY <3>2, <3>3
  <2> QED
    BY <1>3, <1>4, <2>1, <2>2 DEF GalleryTypeOK, Tray, Viewer
<1>6. Wired /\ Ticked /\ GoneForGood /\ ReadRight /\ ShownRight /\ OnItsWay
  BY <1>1, <1>3, NoWireIsAWire DEF GalleryInit, Wired, Ticked, GoneForGood, ReadRight, ShownRight, OnItsWay
<1>7. NothingWaits /\ DialogHasFiles /\ PictureComes
  BY <1>3, <1>4 DEF GalleryInit, NothingWaits, DialogHasFiles, PictureComes
<1> QED
  BY <1>5, <1>6, <1>7 DEF GalleryInv

\* Requests of the page itself: the loads, the deletions and the re-analyses.
LEMMA PageAsks ==
  ASSUME GalleryInv, LoadShots \/ ViewerReanalyze \/ \E s \in Shots : PressDelete(s)
  PROVE  GalleryInv'
<1>1. /\ posts \in 0 .. MaxPosts /\ loads \in 0 .. MaxLoads /\ looks \in 0 .. MaxLooks /\ confirm \in Shots \cup {NoShot}
      /\ MaxPosts \in Nat /\ MaxLoads \in Nat
  BY GalleryAssumption DEF GalleryInv, GalleryTypeOK
<1>2. CASE LoadShots
  <2>1. /\ UNCHANGED <<PageRows, tray, viewer, crossed, bare>> /\ UNCHANGED <<posts, looks, confirm>>
        /\ loads' \in 0 .. MaxLoads /\ Request("load", NoShot)
    BY <1>1, <1>2 DEF LoadShots, PageRows, picVars
  <2> QED
    BY <1>1, <2>1, Asking
<1>3. CASE ViewerReanalyze
  <2>1. /\ UNCHANGED <<PageRows, tray, viewer, crossed, bare>> /\ UNCHANGED <<loads, looks, confirm>>
        /\ posts' \in 0 .. MaxPosts /\ Request("reanalyze", viewer.shot)
    BY <1>1, <1>3 DEF ViewerReanalyze, Post, PageRows, picVars
  <2>2. viewer.shot \in Shots
    BY <1>3 DEF ViewerReanalyze, ViewerSeen, GalleryInv, Wired
  <2> QED
    BY <1>1, <2>1, <2>2, Asking
<1>4. ASSUME NEW s \in Shots, PressDelete(s) PROVE GalleryInv'
  <2>1. /\ UNCHANGED <<PageRows, tray, viewer, crossed, bare>> /\ UNCHANGED <<loads, looks>>
        /\ confirm' \in Shots \cup {NoShot}
    BY <1>4 DEF PressDelete, PageRows, picVars
  <2>2. CASE confirm = s
    <3>1. posts' \in 0 .. MaxPosts /\ Request("delete", s)
      BY <1>1, <1>4, <2>2 DEF PressDelete, Post
    <3> QED
      BY <1>1, <2>1, <3>1, Asking
  <2>3. CASE confirm # s
    <3>1. UNCHANGED <<wire, posts>>
      BY <1>4, <2>3 DEF PressDelete
    <3>2. UNCHANGED <<pic, clock, changed, gallery, blurred, wire, posts, loads, looks>>
      BY <2>1, <3>1 DEF PageRows
    <3>3. GalleryTypeOK'
      BY <2>1, <3>2 DEF GalleryInv, GalleryTypeOK
    <3>4. (Wired /\ Ticked /\ GoneForGood /\ ReadRight /\ ShownRight /\ OnItsWay)'
      BY <2>1, <3>2 DEF GalleryInv, Wired, Ticked, GoneForGood, ReadRight, ShownRight, OnItsWay, Brings, Seen
    <3>5. (NothingWaits /\ DialogHasFiles /\ PictureComes)'
      BY <2>1, <3>2 DEF GalleryInv, NothingWaits, DialogHasFiles, PictureComes, UnderWay, Uploads
    <3> QED
      BY <3>3, <3>4, <3>5 DEF GalleryInv
  <2> QED
    BY <2>2, <2>3
<1> QED
  BY <1>2, <1>3, <1>4

LEMMA GalleryGoesOn == GalleryInv /\ [GalleryNext]_galleryVars => GalleryInv'
<1> SUFFICES ASSUME GalleryInv, [GalleryNext]_galleryVars PROVE GalleryInv'
  OBVIOUS
<1>1. CASE Consent \/ Decline \/ ConfirmFades \/ UNCHANGED galleryVars \/ \E files \in SUBSET Shots : ChooseFiles(files)
  BY <1>1, TrayTurns
<1>2. CASE LoadShots \/ ViewerReanalyze \/ \E s \in Shots : PressDelete(s)
  BY <1>2, PageAsks
<1>3. ASSUME NEW s \in Shots, StartUpload(s) PROVE GalleryInv'
  BY <1>3, UploadStarts
<1>4. ASSUME NEW s \in Shots, OpenViewer(s) \/ Turn(s) PROVE GalleryInv'
  BY <1>4, Looking
<1>5. CASE CloseViewer
  BY <1>5, ViewerCloses
<1>6. CASE ViewerDelete
  BY <1>6, ViewerDeletes
<1>7. ASSUME NEW n \in Wires, ServeWire(n) PROVE GalleryInv'
  BY <1>7, WireServed
<1>8. ASSUME NEW n \in Wires, HearWire(n) PROVE GalleryInv'
  <2>1. UNCHANGED <<picVars, posts, loads, looks, bare>> /\ confirm' \in Shots \cup {NoShot}
    BY <1>8 DEF HearWire, GalleryInv, GalleryTypeOK
  <2>2. CASE HearShots(n) \/ LoseShots(n)
    BY <2>1, <2>2, LoadEnds
  <2>3. CASE UploadGoesOn(n)
    BY <2>1, <2>3, UploadEnds
  <2>4. CASE HearDeleted(n)
    BY <2>1, <2>4, DeletionHeard
  <2>5. CASE HearReanalyzing(n) \/ LosePost(n)
    BY <2>1, <2>5, PostEnds
  <2>6. CASE HearUrl(n) \/ LoseUrl(n)
    BY <2>1, <2>6, UrlEnds
  <2> QED
    BY <1>8, <2>2, <2>3, <2>4, <2>5, <2>6 DEF HearWire
<1>9. ASSUME NEW s \in Shots, NEW state \in {"complete", "failed"}, Analysed(s, state) PROVE GalleryInv'
  BY <1>9, AnalysisEnds
<1> QED
  BY <1>1, <1>2, <1>3, <1>4, <1>5, <1>6, <1>7, <1>8, <1>9 DEF GalleryNext

\* At rest the section shows what the API has.
LEMMA AtRest == GalleryInv => GalleryAsServed
<1> SUFFICES ASSUME GalleryInv PROVE GalleryAsServed
  OBVIOUS
<1>1. tray.dialog # "none" => tray.pending # {} \/ bare
  BY DEF GalleryInv, DialogHasFiles
<1>2. ASSUME UnderWay = {}, loads > 0 PROVE ~gallery.loading /\ ~tray.uploading
  BY <1>2 DEF GalleryInv, NothingWaits, Uploads
<1>3. ASSUME UnderWay = {}, viewer.on, viewer.image # viewer.shot PROVE crossed
  BY <1>3 DEF GalleryInv, PictureComes
<1>4. ASSUME UnderWay = {}, loads > 0, ~PollDue, ~blurred PROVE gallery.shots = Seen
  <2>1. \A n \in Wires, s \in Shots : ~Brings(n, s)
    BY <1>4 DEF Brings, UnderWay
  <2>2. \A s \in Shots : changed[s] <= gallery.heard[s]
    BY <1>4, <2>1 DEF GalleryInv, GalleryTypeOK, OnItsWay
  <2>3. \A s \in Shots : gallery.shots[s] = Seen[s]
    BY <1>2, <1>4, <2>2 DEF GalleryInv, ShownRight, PollDue
  <2> QED
    BY <2>3 DEF GalleryInv, GalleryTypeOK, Seen
<1> QED
  BY <1>1, <1>2, <1>3, <1>4 DEF GalleryAsServed

\* For any photos, any number of requests at once and any bounds: however loads,
\* uploads, deletions, analyses and answers overlap, at rest the section shows
\* the photos and their states as the API has them, unless an answer was lost or
\* came too late; the viewer has its picture, and the dialogs their files
\* (photo-section.tsx:52-171).
THEOREM ThePhotosAreShownAsServed == GallerySpec => []GalleryAsServed
<1>1. GalleryInit => GalleryInv
  BY GalleryStarts
<1>2. GalleryInv /\ [GalleryNext]_galleryVars => GalleryInv'
  BY GalleryGoesOn
<1>3. GalleryInv => GalleryAsServed
  BY AtRest
<1> QED
  BY <1>1, <1>2, <1>3, PTL DEF GallerySpec

=============================================================================
