-------------------------- MODULE AgentJobsProofs --------------------------
(***************************************************************************)
(* Proofs about AgentJobs, for any sets of preview, place and cancel       *)
(* calls, any limit of concurrent jobs, any answers and any bound on       *)
(* faults.                                                                 *)
(***************************************************************************)
EXTENDS AgentJobs, TLAPS

-----------------------------------------------------------------------------
(* The inductive invariant.                                                *)

\* The handler of p has claimed its job, or has sent the agent.
Begun(p) == place[p] \in PlaceRunning \/ agent[p] # "idle"

\* How far the handler is and how far its run is go together.
Run(p) ==
  /\ place[p] \in {"start", "refused", "execute"} \cup Unpaid => agent[p] = "idle"
  /\ place[p] \in {"steps", "order", "complete", "fail", "handle"} => agent[p] = "done"
  /\ place[p] \in {"fail", "handle"} => answer[p] # "completed"
  /\ agent[p] = "done" => answer[p] # "none"
  /\ agent[p] = "done" /\ answer[p] = "other" => ~bought[p]
  /\ bought[p] => agent[p] # "idle"

\* A job that is being placed, or was sent to the agent, is not offered.
Settled(p) == Begun(p) => Told(target[p]) /\ status[target[p]] # "previewing"

\* One place call at most gets beyond the claim of a job.
Alone(p, q) == Begun(p) /\ Begun(q) /\ target[p] = target[q] => p = q

\* A credited job is not offered, and its run is over without a purchase.
Apology(j) ==
  /\ preview[j] = "handle" => status[j] # "previewing"
  /\ j \in credited =>
       /\ Told(j)
       /\ status[j] # "previewing"
       /\ \A p \in Places : Begun(p) /\ target[p] = j => agent[p] = "done" /\ ~bought[p]

\* The cancel handlers have been told the job too.
Aimed(c) == cancel[c] # "start" => Told(aim[c])

Core ==
  /\ \A p \in Places : Run(p) /\ Settled(p)
  /\ \A p, q \in Places : Alone(p, q)
  /\ \A j \in Jobs : Apology(j)
  /\ \A c \in Cancels : Aimed(c)

IInv == TypeOK /\ Core

-----------------------------------------------------------------------------
(* Types.                                                                  *)

(* The states are those of the program from the start.                     *)
LEMMA TypeInit == Init => TypeOK
BY AgentJobsAssumption
DEF Init, TypeOK, JobStatus, FailureReason, PreviewPc, PlacePc, CancelPc, SweepPc

LEMMA CancelCardType ==
  ASSUME TypeOK, NEW p \in Places \cup {NoCard}, CancelCard(p)
  PROVE  card' \in [Places -> {"none", "active", "cancelled"}]
BY DEF TypeOK, CancelCard

LEMMA HandleFailureType ==
  ASSUME TypeOK, NEW j \in Jobs, NEW r, HandleFailure(j, r)
  PROVE  review' \in SUBSET Jobs /\ credited' \in SUBSET Jobs
BY DEF TypeOK, HandleFailure

LEMMA PreviewTypes ==
  ASSUME TypeOK, NEW j \in Jobs, PreviewStep(j)
  PROVE  TypeOK'
<1> USE DEF TypeOK, jobVars, placeVars, agentVars, bookVars, cancelVars, sweepVars
<1>1. CASE PreviewCreate(j) \/ PreviewRefuse(j) \/ PreviewRun(j)
  BY <1>1 DEF PreviewCreate, PreviewRefuse, PreviewRun, SetStatus, PreviewGo, JobStatus,
     PreviewPc, PreviewRunning
<1>2. CASE PreviewAnswer(j) \/ PreviewNoAnswer(j)
  BY <1>2, AgentJobsAssumption DEF PreviewAnswer, PreviewNoAnswer, PreviewGo, PreviewPc, PreviewRunning
<1>3. CASE PreviewSaveFound(j) \/ PreviewSaveFailed(j) \/ PreviewCatch(j)
  BY <1>3 DEF PreviewSaveFound, PreviewSaveFailed, PreviewCatch, SetStatus, SetReason, PreviewGo,
     JobStatus, FailureReason, PreviewPc, PreviewRunning
<1>4. CASE PreviewStats(j)
  BY <1>4 DEF PreviewStats, PreviewGo, PreviewPc, PreviewRunning
<1>5. CASE PreviewHandle(j)
  BY <1>5, HandleFailureType DEF PreviewHandle, PreviewGo, PreviewPc, PreviewRunning
<1>6. CASE PreviewDbError(j)
  BY <1>6, AgentJobsAssumption DEF PreviewDbError, PreviewGo, PreviewPc, PreviewRunning
<1> QED
  BY <1>1, <1>2, <1>3, <1>4, <1>5, <1>6 DEF PreviewStep

LEMMA PlaceTypes ==
  ASSUME TypeOK, NEW p \in Places, Run(p),
         PlaceStep(p) \/ PlaceDbError(p) \/ AgentStep(p) \/ \E j \in Jobs : PlaceClaim(p, j)
  PROVE  TypeOK'
<1> USE DEF TypeOK, jobVars, placeVars, agentVars, bookVars, cancelVars, sweepVars
<1>1. CASE \E j \in Jobs : PlaceClaim(p, j)
  BY <1>1 DEF PlaceClaim, SetStatus, PlaceGo, JobStatus, PlacePc, PlaceRunning, Unpaid
<1>2. CASE PlaceLook(p) \/ PlaceMint(p)
  BY <1>2 DEF PlaceLook, PlaceMint, PlaceGo, PlacePc, PlaceRunning, Unpaid, Paid
<1>3. CASE PlaceRollback(p) \/ PlaceComplete(p)
  BY <1>3 DEF PlaceRollback, PlaceComplete, SetStatus, PlaceGo, JobStatus, PlacePc, PlaceRunning,
     Unpaid, Paid
<1>4. CASE PlaceExecute(p) \/ PlaceAnswer(p) \/ PlaceNoAnswer(p) \/ PlaceOrder(p)
  BY <1>4 DEF PlaceExecute, PlaceAnswer, PlaceNoAnswer, PlaceOrder, PlaceGo, PlacePc,
     PlaceRunning, Unpaid, Paid
<1>5. CASE PlaceSteps(p)
  <2>1. PICK carries \in AnswerSteps :
          \/ PlaceGo(p, "closeCard") /\ UNCHANGED steps
          \/ /\ PlaceGo(p, IF answer[p] = "completed" THEN "order" ELSE "fail")
             /\ steps' = [steps EXCEPT ![target[p]] = @ \/ carries]
    BY <1>5 DEF PlaceSteps
  <2>2. carries \in BOOLEAN
    BY AgentJobsAssumption
  <2>3. steps' \in [Jobs -> BOOLEAN]
    BY <2>1, <2>2
  <2>4. place' \in [Places -> PlacePc]
    BY <2>1 DEF PlaceGo, PlacePc, PlaceRunning, Paid
  <2> QED
    BY <1>5, <2>3, <2>4 DEF PlaceSteps
<1>6. CASE PlaceFail(p)
  <2>1. answer[p] \in {"none", "completed", "uncertain", "other"}
    OBVIOUS
  <2>2. answer[p] # "none" /\ answer[p] # "completed"
    BY <1>6 DEF Run, PlaceFail
  <2>3. answer[p] \in FailureReason
    BY <2>1, <2>2 DEF FailureReason
  <2> QED
    BY <1>6, <2>3 DEF PlaceFail, SetStatus, SetReason, PlaceGo, JobStatus, PlacePc, PlaceRunning, Paid
<1>7. CASE PlaceHandle(p)
  BY <1>7, HandleFailureType DEF PlaceHandle, PlaceGo, PlacePc, PlaceRunning, Paid
<1>8. CASE PlaceCloseCard(p)
  BY <1>8, CancelCardType DEF PlaceCloseCard, PlaceGo, PlacePc
<1>9. CASE PlaceDbError(p)
  BY <1>9, AgentJobsAssumption DEF PlaceDbError, PlaceGo, PlacePc, PlaceRunning, Paid
<1>10. CASE AgentStep(p)
  <2>1. CASE AgentBuy(p)
    BY <2>1 DEF AgentBuy
  <2>2. CASE AgentEnd(p)
    <3>1. PICK a \in {"completed", "uncertain", "other"} : answer' = [answer EXCEPT ![p] = a]
      BY <2>2 DEF AgentEnd
    <3>2. answer' \in [Places -> {"none", "completed", "uncertain", "other"}]
      BY <3>1
    <3>3. agent' \in [Places -> {"idle", "running", "done"}]
      BY <2>2 DEF AgentEnd
    <3> QED
      BY <2>2, <3>2, <3>3 DEF AgentEnd
  <2> QED
    BY <1>10, <2>1, <2>2 DEF AgentStep
<1> QED
  BY <1>1, <1>2, <1>3, <1>4, <1>5, <1>6, <1>7, <1>8, <1>9, <1>10 DEF PlaceStep

LEMMA OtherTypes ==
  ASSUME TypeOK,
         \/ \E c \in Cancels, j \in Jobs : CancelRead(c, j)
         \/ \E c \in Cancels : CancelWrite(c)
         \/ \E j \in Jobs : StuckSelect(j) \/ CardSelect(j)
         \/ SweepStep \/ SweepDbError \/ Restart
  PROVE  TypeOK'
<1> USE DEF TypeOK, jobVars, placeVars, agentVars, bookVars, cancelVars, sweepVars
<1>1. CASE \E c \in Cancels, j \in Jobs : CancelRead(c, j)
  BY <1>1 DEF CancelRead, CancelPc
<1>2. CASE \E c \in Cancels : CancelWrite(c)
  BY <1>2 DEF CancelWrite, SetStatus, JobStatus, CancelPc
<1>3. CASE \E j \in Jobs : StuckSelect(j) \/ CardSelect(j)
  BY <1>3 DEF StuckSelect, CardSelect, SweepPc
<1>4. CASE StuckCard \/ CardCancel
  BY <1>4, CancelCardType DEF StuckCard, CardCancel, SweepPc
<1>5. CASE StuckMark \/ StuckReview \/ CardClear
  BY <1>5 DEF StuckMark, StuckReview, CardClear, SetStatus, SetReason, JobStatus, FailureReason, SweepPc
<1>6. CASE SweepDbError
  BY <1>6, AgentJobsAssumption DEF SweepDbError, SweepPc
<1>7. CASE Restart
  BY <1>7, AgentJobsAssumption DEF Restart, PreviewPc, PlacePc, CancelPc, SweepPc
<1> QED
  BY <1>1, <1>2, <1>3, <1>4, <1>5, <1>6, <1>7 DEF SweepStep

-----------------------------------------------------------------------------
(* The invariant is inductive.                                             *)

(* A step that leaves the handlers, the runs and the status of the offers  *)
(* alone.                                                                  *)
LEMMA CoreStays ==
  ASSUME IInv,
         UNCHANGED <<status, preview, place, target, agent, answer, bought, credited, cancel, aim>>
  PROVE  Core'
BY DEF IInv, Core, Run, Settled, Alone, Apology, Aimed, Begun, Told

(* A step of the handler of p that offers nothing: it goes on, and may     *)
(* write the status of its own job.                                        *)
LEMMA HandlerStep ==
  ASSUME IInv, NEW p \in Places, NEW pc \in PlacePc, place[p] \in PlaceRunning, PlaceGo(p, pc),
         UNCHANGED <<target, agent, answer, bought, preview, credited, cancel, aim>>,
         \A j \in Jobs : status'[j] = "previewing" => status[j] = "previewing",
         Run(p)'
  PROVE  Core'
<1>1. \A q \in Places : q # p => place'[q] = place[q]
  BY DEF PlaceGo, IInv, TypeOK
<1>2. \A q \in Places : Begun(q)' => Begun(q)
  BY <1>1 DEF Begun
<1>3. \A q \in Places : Run(q)'
  BY <1>1 DEF Run, IInv, Core
<1>4. \A q \in Places : target[q] \in Jobs
  BY DEF IInv, TypeOK
<1>5. \A q \in Places : Settled(q)'
  BY <1>2, <1>4 DEF Settled, IInv, Core, Told
<1>6. \A q, r \in Places : Alone(q, r)'
  BY <1>2 DEF Alone, IInv, Core
<1>7. \A j \in Jobs : Apology(j)'
  BY <1>2 DEF Apology, IInv, Core, Told
<1>8. \A c \in Cancels : Aimed(c)'
  BY DEF Aimed, IInv, Core, Told
<1> QED
  BY <1>3, <1>5, <1>6, <1>7, <1>8 DEF Core

(* Writing a status other than "previewing" offers nothing.                *)
LEMMA NothingOffered ==
  ASSUME TypeOK, NEW j \in Jobs, NEW s \in JobStatus \ {"previewing"}, SetStatus(j, s)
  PROVE  \A i \in Jobs : status'[i] = "previewing" => status[i] = "previewing"
BY DEF TypeOK, SetStatus

LEMMA HandlerSteps ==
  ASSUME IInv, NEW p \in Places,
         \/ PlaceLook(p) \/ PlaceMint(p) \/ PlaceAnswer(p) \/ PlaceNoAnswer(p) \/ PlaceSteps(p)
         \/ PlaceOrder(p) \/ PlaceComplete(p) \/ PlaceFail(p) \/ PlaceCloseCard(p)
         \/ PlaceDbError(p)
  PROVE  Core'
<1> USE DEF placeVars, agentVars, bookVars, cancelVars, jobVars
<1>0. TypeOK /\ Run(p) /\ target[p] \in Jobs /\ place \in [Places -> PlacePc]
  BY DEF IInv, Core, TypeOK
<1>1. CASE PlaceLook(p)
  <2>1. PICK pc \in {"mint", "thrown"} : PlaceGo(p, pc)
    BY <1>1 DEF PlaceLook
  <2>2. pc \in PlacePc /\ place[p] \in PlaceRunning
    BY <1>1 DEF PlaceLook, PlacePc, PlaceRunning, Unpaid
  <2>3. Run(p)'
    BY <1>0, <1>1, <2>1 DEF PlaceLook, PlaceGo, Run, Unpaid
  <2> QED
    BY <1>1, <2>1, <2>2, <2>3, HandlerStep DEF PlaceLook
<1>2. CASE PlaceMint(p)
  <2>1. PICK pc \in {"execute", "rollback"} : PlaceGo(p, pc)
    BY <1>2 DEF PlaceMint
  <2>2. pc \in PlacePc /\ place[p] \in PlaceRunning
    BY <1>2 DEF PlaceMint, PlacePc, PlaceRunning, Unpaid, Paid
  <2>3. Run(p)'
    BY <1>0, <1>2, <2>1 DEF PlaceMint, PlaceGo, Run, Unpaid
  <2> QED
    BY <1>2, <2>1, <2>2, <2>3, HandlerStep DEF PlaceMint
<1>3. CASE PlaceAnswer(p)
  <2>1. Run(p)'
    BY <1>0, <1>3 DEF PlaceAnswer, PlaceGo, Run, Unpaid
  <2>2. "steps" \in PlacePc /\ place[p] \in PlaceRunning
    BY <1>3 DEF PlaceAnswer, PlacePc, PlaceRunning, Paid
  <2> QED
    BY <1>3, <2>1, <2>2, HandlerStep DEF PlaceAnswer
<1>4. CASE PlaceNoAnswer(p) \/ PlaceCloseCard(p)
  <2>1. PICK pc \in {"closeCard", "done"} : PlaceGo(p, pc)
    BY <1>4 DEF PlaceNoAnswer, PlaceCloseCard
  <2>2. pc \in PlacePc /\ place[p] \in PlaceRunning
    BY <1>4 DEF PlaceNoAnswer, PlaceCloseCard, PlacePc, PlaceRunning, Paid
  <2>3. Run(p)'
    BY <1>0, <1>4, <2>1 DEF PlaceNoAnswer, PlaceCloseCard, PlaceGo, Run, Unpaid
  <2> QED
    BY <1>4, <2>1, <2>2, <2>3, HandlerStep DEF PlaceNoAnswer, PlaceCloseCard
<1>5. CASE PlaceSteps(p)
  <2>1. PICK pc \in {"closeCard", "order", "fail"} :
          PlaceGo(p, pc) /\ (pc = "fail" => answer[p] # "completed")
    BY <1>5 DEF PlaceSteps
  <2>2. pc \in PlacePc /\ place[p] \in PlaceRunning
    BY <1>5 DEF PlaceSteps, PlacePc, PlaceRunning, Paid
  <2>3. UNCHANGED <<target, agent, answer, bought, preview, credited, cancel, aim, status>>
    BY <1>5 DEF PlaceSteps
  <2>4. Run(p)'
    BY <1>0, <1>5, <2>1, <2>3 DEF PlaceSteps, PlaceGo, Run, Unpaid
  <2> QED
    BY <2>1, <2>2, <2>3, <2>4, HandlerStep
<1>6. CASE PlaceOrder(p)
  <2>1. Run(p)'
    BY <1>0, <1>6 DEF PlaceOrder, PlaceGo, Run, Unpaid
  <2>2. "complete" \in PlacePc /\ place[p] \in PlaceRunning
    BY <1>6 DEF PlaceOrder, PlacePc, PlaceRunning, Paid
  <2> QED
    BY <1>6, <2>1, <2>2, HandlerStep DEF PlaceOrder
<1>7. CASE PlaceComplete(p)
  <2>1. Run(p)'
    BY <1>0, <1>7 DEF PlaceComplete, PlaceGo, Run, Unpaid
  <2>2. "closeCard" \in PlacePc /\ place[p] \in PlaceRunning
    BY <1>7 DEF PlaceComplete, PlacePc, PlaceRunning, Paid
  <2>3. \A i \in Jobs : status'[i] = "previewing" => status[i] = "previewing"
    BY <1>0, <1>7, NothingOffered DEF PlaceComplete, JobStatus
  <2> QED
    BY <1>7, <2>1, <2>2, <2>3, HandlerStep DEF PlaceComplete
<1>8. CASE PlaceFail(p)
  <2>1. Run(p)'
    BY <1>0, <1>8 DEF PlaceFail, PlaceGo, Run, Unpaid
  <2>2. "handle" \in PlacePc /\ place[p] \in PlaceRunning
    BY <1>8 DEF PlaceFail, PlacePc, PlaceRunning, Paid
  <2>3. \A i \in Jobs : status'[i] = "previewing" => status[i] = "previewing"
    BY <1>0, <1>8, NothingOffered DEF PlaceFail, JobStatus
  <2> QED
    BY <1>8, <2>1, <2>2, <2>3, HandlerStep DEF PlaceFail
<1>9. CASE PlaceDbError(p)
  <2>1. PICK pc \in {"closeCard", "thrown"} : PlaceGo(p, pc)
    BY <1>9 DEF PlaceDbError
  <2>2. pc \in PlacePc /\ place[p] \in PlaceRunning
    BY <1>9 DEF PlaceDbError, PlacePc, PlaceRunning, Paid
  <2>3. Run(p)'
    BY <1>0, <1>9, <2>1 DEF PlaceDbError, PlaceGo, Run, Unpaid
  <2> QED
    BY <1>9, <2>1, <2>2, <2>3, HandlerStep DEF PlaceDbError
<1> QED
  BY <1>1, <1>2, <1>3, <1>4, <1>5, <1>6, <1>7, <1>8, <1>9

(* The claim: the job is offered, so no other handler or run has it.       *)
LEMMA ClaimStep ==
  ASSUME IInv, NEW p \in Places, NEW j \in Jobs, PlaceClaim(p, j)
  PROVE  Core'
<1> USE DEF agentVars, bookVars, cancelVars
<1>1. /\ place \in [Places -> PlacePc] /\ target \in [Places -> Jobs] /\ status \in [Jobs -> JobStatus]
      /\ place[p] = "start" /\ agent[p] = "idle" /\ Told(j)
  BY DEF IInv, Core, TypeOK, Run, PlaceClaim
<1>2. UNCHANGED <<agent, answer, bought, preview, credited, cancel, aim>>
  BY DEF PlaceClaim
<1>3. /\ \A q \in Places : q # p => place'[q] = place[q] /\ target'[q] = target[q]
      /\ target'[p] = j
  BY <1>1 DEF PlaceClaim, PlaceGo
<1>4. \A i \in Jobs : status'[i] = "previewing" => status[i] = "previewing"
  BY <1>1, NothingOffered DEF PlaceClaim, JobStatus, IInv
<1>5. \A q \in Places : Run(q)'
  <2>1. place'[p] \in {"look", "refused"}
    BY <1>1 DEF PlaceClaim, PlaceGo
  <2>2. Run(p)'
    BY <1>1, <1>2, <2>1 DEF Run, Unpaid, IInv, Core
  <2> QED
    BY <1>2, <1>3, <2>2 DEF Run, IInv, Core
<1>6. CASE status[j] = "previewing"
  <2>1. \A q \in Places : Begun(q) => target[q] # j /\ q # p
    BY <1>1, <1>6 DEF IInv, Core, Settled, Begun, PlaceRunning, Unpaid, Paid
  <2>2. status'[j] = "placing"
    BY <1>1, <1>6 DEF PlaceClaim, SetStatus
  <2>3. \A q \in Places : q # p => (Begun(q)' <=> Begun(q))
    BY <1>2, <1>3 DEF Begun
  <2>4. \A q \in Places : Settled(q)'
    BY <1>1, <1>2, <1>3, <1>4, <2>1, <2>2, <2>3 DEF Settled, IInv, Core, Told
  <2>5. \A q, r \in Places : Alone(q, r)'
    BY <1>3, <2>1, <2>3 DEF Alone, IInv, Core
  <2>6. j \notin credited
    BY <1>6 DEF IInv, Core, Apology
  <2>7. \A i \in Jobs : Apology(i)'
    BY <1>2, <1>3, <1>4, <2>1, <2>3, <2>6 DEF Apology, IInv, Core, Told
  <2> QED
    BY <1>2, <1>5, <2>4, <2>5, <2>7 DEF Core, IInv, Aimed, Told
<1>7. CASE status[j] # "previewing"
  <2>1. place'[p] = "refused" /\ UNCHANGED status
    BY <1>1, <1>7 DEF PlaceClaim, PlaceGo
  <2>2. ~Begun(p)'
    BY <1>1, <1>2, <2>1 DEF Begun, PlaceRunning, Unpaid, Paid
  <2>3. \A q \in Places : q # p => (Begun(q)' <=> Begun(q))
    BY <1>2, <1>3 DEF Begun
  <2>4. (\A q \in Places : Settled(q)') /\ (\A q, r \in Places : Alone(q, r)')
    BY <1>2, <1>3, <2>1, <2>2, <2>3 DEF Settled, Alone, IInv, Core, Told
  <2>5. \A i \in Jobs : Apology(i)'
    BY <1>2, <1>3, <2>1, <2>2, <2>3 DEF Apology, IInv, Core, Told
  <2> QED
    BY <1>2, <1>5, <2>4, <2>5 DEF Core, IInv, Aimed, Told
<1> QED
  BY <1>6, <1>7

(* A failed mint: the handler that offers the job again is the only one    *)
(* that had it, and has not sent the agent.                                *)
LEMMA RollbackStep ==
  ASSUME IInv, NEW p \in Places, PlaceRollback(p)
  PROVE  Core'
<1> USE DEF agentVars, bookVars, cancelVars
<1>1. /\ place \in [Places -> PlacePc] /\ target \in [Places -> Jobs] /\ status \in [Jobs -> JobStatus]
      /\ place[p] = "rollback" /\ agent[p] = "idle" /\ Begun(p)
  BY DEF IInv, Core, TypeOK, Run, PlaceRollback, Unpaid, Begun, PlaceRunning
<1>2. UNCHANGED <<target, agent, answer, bought, preview, credited, cancel, aim>>
  BY DEF PlaceRollback
<1>3. place'[p] = "thrown" /\ \A q \in Places : q # p => place'[q] = place[q]
  BY <1>1 DEF PlaceRollback, PlaceGo
<1>4. \A i \in Jobs : i # target[p] => status'[i] = status[i]
  BY <1>1 DEF PlaceRollback, SetStatus
<1>5. ~Begun(p)' /\ \A q \in Places : q # p => (Begun(q)' <=> Begun(q))
  BY <1>1, <1>2, <1>3 DEF Begun, PlaceRunning, Unpaid, Paid
<1>6. \A q \in Places : Run(q)'
  BY <1>1, <1>2, <1>3 DEF Run, Unpaid, IInv, Core
<1>7. \A q \in Places : Begun(q)' => target[q] # target[p]
  BY <1>1, <1>5 DEF Alone, IInv, Core
<1>8. \A q \in Places : Settled(q)'
  BY <1>1, <1>2, <1>4, <1>5, <1>7 DEF Settled, Told, IInv, Core
<1>9. \A q, r \in Places : Alone(q, r)'
  BY <1>2, <1>5 DEF Alone, IInv, Core
<1>10. target[p] \notin credited /\ preview[target[p]] = "done"
  BY <1>1 DEF IInv, Core, Apology, Settled, Told
<1>11. \A i \in Jobs : Apology(i)'
  BY <1>2, <1>4, <1>5, <1>10 DEF Apology, Told, IInv, Core
<1> QED
  BY <1>2, <1>6, <1>8, <1>9, <1>11 DEF Core, IInv, Aimed, Told

(* The agent starts on a job that was not credited.                        *)
LEMMA ExecuteStep ==
  ASSUME IInv, NEW p \in Places, PlaceExecute(p)
  PROVE  Core'
<1> USE DEF agentVars, bookVars, cancelVars
<1>1. /\ place \in [Places -> PlacePc] /\ agent \in [Places -> {"idle", "running", "done"}]
      /\ place[p] = "execute" /\ agent[p] = "idle" /\ Begun(p) /\ ~bought[p]
  BY DEF IInv, Core, TypeOK, Run, PlaceExecute, Begun, PlaceRunning, Paid
<1>2. UNCHANGED <<status, target, answer, bought, preview, credited, cancel, aim>>
  BY DEF PlaceExecute
<1>3. /\ place'[p] = "await" /\ agent'[p] = "running"
      /\ \A q \in Places : q # p => place'[q] = place[q] /\ agent'[q] = agent[q]
  BY <1>1 DEF PlaceExecute, PlaceGo
<1>4. \A q \in Places : Begun(q)' <=> Begun(q)
  BY <1>1, <1>3 DEF Begun, PlaceRunning, Paid
<1>5. \A q \in Places : Run(q)'
  BY <1>1, <1>2, <1>3 DEF Run, Unpaid, IInv, Core
<1>6. target[p] \notin credited
  BY <1>1 DEF IInv, Core, Apology, TypeOK
<1>7. \A i \in Jobs : Apology(i)'
  BY <1>2, <1>3, <1>4, <1>6 DEF Apology, Told, IInv, Core
<1> QED
  BY <1>2, <1>4, <1>5, <1>7 DEF Core, IInv, Aimed, Told, Settled, Alone

(* The credit of a failed run: the run is over, has bought nothing and is  *)
(* the only one of its job.                                                *)
LEMMA HandleStep ==
  ASSUME IInv, NEW p \in Places, PlaceHandle(p)
  PROVE  Core'
<1> USE DEF jobVars, agentVars, bookVars, cancelVars
<1>1. /\ place \in [Places -> PlacePc] /\ target \in [Places -> Jobs]
      /\ answer[p] \in {"none", "completed", "uncertain", "other"}
      /\ place[p] = "handle" /\ agent[p] = "done" /\ Begun(p)
      /\ answer[p] \notin {"none", "completed"}
  BY DEF IInv, Core, TypeOK, Run, PlaceHandle, Begun, PlaceRunning, Paid
<1>2. UNCHANGED <<status, target, agent, answer, bought, preview, cancel, aim>>
  BY DEF PlaceHandle
<1>3. place'[p] = "closeCard" /\ \A q \in Places : q # p => place'[q] = place[q]
  BY <1>1 DEF PlaceHandle, PlaceGo
<1>4. \A q \in Places : Begun(q)' <=> Begun(q)
  BY <1>1, <1>2, <1>3 DEF Begun, PlaceRunning, Paid
<1>5. \A q \in Places : Run(q)'
  BY <1>1, <1>2, <1>3 DEF Run, Unpaid, IInv, Core
<1>6. credited' = credited \/ (credited' = {target[p]} /\ answer[p] = "other")
  BY <1>1 DEF PlaceHandle, HandleFailure
<1>7. answer[p] = "other" =>
        /\ Told(target[p]) /\ status[target[p]] # "previewing"
        /\ \A q \in Places : Begun(q) /\ target[q] = target[p] => agent[q] = "done" /\ ~bought[q]
  BY <1>1 DEF IInv, Core, Settled, Alone, Run
<1>8. \A i \in Jobs : Apology(i)'
  BY <1>2, <1>4, <1>6, <1>7 DEF Apology, Told, IInv, Core
<1> QED
  BY <1>2, <1>4, <1>5, <1>8 DEF Core, IInv, Aimed, Told, Settled, Alone

(* The agent buys, or ends: its job is not credited while it runs.         *)
LEMMA AgentSteps ==
  ASSUME IInv, NEW p \in Places, AgentStep(p)
  PROVE  Core'
<1> USE DEF placeVars, jobVars, bookVars, cancelVars
<1>1. /\ target \in [Places -> Jobs] /\ agent[p] = "running" /\ Begun(p)
      /\ agent \in [Places -> {"idle", "running", "done"}]
      /\ answer \in [Places -> {"none", "completed", "uncertain", "other"}]
      /\ bought \in [Places -> BOOLEAN]
  BY DEF IInv, TypeOK, AgentStep, AgentBuy, AgentEnd, Begun
<1>2. UNCHANGED <<status, place, target, preview, credited, cancel, aim>>
  BY DEF AgentStep, AgentBuy, AgentEnd
<1>3. /\ \A q \in Places : q # p => /\ agent'[q] = agent[q] /\ answer'[q] = answer[q]
                                    /\ bought'[q] = bought[q]
      /\ agent'[p] # "idle"
  <2>1. CASE AgentBuy(p)
    BY <1>1, <2>1 DEF AgentBuy
  <2>2. CASE AgentEnd(p)
    BY <1>1, <2>2 DEF AgentEnd
  <2> QED
    BY <2>1, <2>2 DEF AgentStep
<1>4. \A q \in Places : Begun(q)' <=> Begun(q)
  BY <1>1, <1>2, <1>3 DEF Begun
<1>5. Run(p)'
  <2>1. Run(p) /\ place[p] \notin {"start", "refused", "execute"} \cup Unpaid
               /\ place[p] \notin {"steps", "order", "complete", "fail", "handle"}
    BY <1>1 DEF IInv, Core, Run
  <2>2. CASE AgentBuy(p)
    BY <1>1, <1>2, <2>1, <2>2 DEF AgentBuy, Run
  <2>3. CASE AgentEnd(p)
    <3>1. PICK a \in {"completed", "uncertain", "other"} :
            (a = "other" => ~bought[p]) /\ answer' = [answer EXCEPT ![p] = a]
      BY <2>3 DEF AgentEnd
    <3>2. answer'[p] = a /\ agent'[p] = "done" /\ bought'[p] = bought[p]
      BY <1>1, <2>3, <3>1 DEF AgentEnd
    <3> QED
      BY <1>2, <2>1, <3>1, <3>2 DEF Run
  <2> QED
    BY <2>2, <2>3 DEF AgentStep
<1>6. \A q \in Places : Run(q)'
  BY <1>2, <1>3, <1>5 DEF Run, IInv, Core
<1>7. target[p] \notin credited
  BY <1>1 DEF IInv, Core, Apology
<1>8. \A i \in Jobs : Apology(i)'
  BY <1>2, <1>3, <1>4, <1>7 DEF Apology, Told, IInv, Core
<1> QED
  BY <1>2, <1>4, <1>6, <1>8 DEF Core, IInv, Aimed, Told, Settled, Alone

(* A step of the preview of j: nobody was told of j, so nothing has begun. *)
LEMMA PreviewSteps ==
  ASSUME IInv, NEW j \in Jobs, PreviewStep(j)
  PROVE  Core'
<1> USE DEF placeVars, agentVars, bookVars, cancelVars, jobVars
<1>1. /\ preview \in [Jobs -> PreviewPc] /\ target \in [Places -> Jobs] /\ status \in [Jobs -> JobStatus]
      /\ aim \in [Cancels -> Jobs]
  BY DEF IInv, TypeOK
<1>2. ~Told(j)
  BY DEF Told, PreviewStep, PreviewCreate, PreviewRefuse, PreviewRun, PreviewAnswer,
     PreviewNoAnswer, PreviewSaveFound, PreviewSaveFailed, PreviewStats, PreviewHandle,
     PreviewCatch, PreviewDbError, PreviewRunning
<1>3. UNCHANGED <<place, target, agent, answer, bought, cancel, aim>>
  BY DEF PreviewStep, PreviewCreate, PreviewRefuse, PreviewRun, PreviewAnswer,
     PreviewNoAnswer, PreviewSaveFound, PreviewSaveFailed, PreviewStats, PreviewHandle,
     PreviewCatch, PreviewDbError
<1>4. /\ \A i \in Jobs : i # j => status'[i] = status[i] /\ preview'[i] = preview[i]
      /\ preview'[j] = "handle" => status'[j] # "previewing"
  <2>1. CASE PreviewCreate(j) \/ PreviewRun(j) \/ PreviewSaveFound(j) \/ PreviewSaveFailed(j)
               \/ PreviewCatch(j)
    BY <1>1, <2>1 DEF PreviewCreate, PreviewRun, PreviewSaveFound, PreviewSaveFailed,
       PreviewCatch, SetStatus, PreviewGo
  <2>2. CASE PreviewRefuse(j) \/ PreviewAnswer(j) \/ PreviewNoAnswer(j) \/ PreviewStats(j)
               \/ PreviewHandle(j) \/ PreviewDbError(j)
    BY <1>1, <2>2 DEF PreviewRefuse, PreviewAnswer, PreviewNoAnswer, PreviewStats,
       PreviewHandle, PreviewDbError, PreviewGo
  <2> QED
    BY <2>1, <2>2 DEF PreviewStep
<1>5. \A i \in Jobs : Told(i) => i # j /\ Told(i)'
  BY <1>2, <1>4 DEF Told
<1>6. \A q \in Places : Begun(q) => target[q] # j
  BY <1>2 DEF IInv, Core, Settled
<1>7. \A q \in Places : Begun(q)' <=> Begun(q)
  BY <1>3 DEF Begun
<1>8. \A q \in Places : Settled(q)'
  BY <1>1, <1>3, <1>4, <1>5, <1>6, <1>7 DEF Settled, IInv, Core
<1>9. credited' = credited \/ (credited' = {j} /\ Told(j)' /\ status'[j] # "previewing")
  <2>1. CASE PreviewHandle(j)
    <3>1. credited' = credited \/ credited' = {j}
      BY <2>1 DEF PreviewHandle, HandleFailure
    <3>2. Told(j)' /\ status'[j] # "previewing"
      BY <1>1, <2>1 DEF PreviewHandle, PreviewGo, Told, IInv, Core, Apology
    <3> QED
      BY <3>1, <3>2
  <2>2. CASE ~PreviewHandle(j)
    BY <2>2 DEF PreviewStep, PreviewCreate, PreviewRefuse, PreviewRun, PreviewAnswer,
     PreviewNoAnswer, PreviewSaveFound, PreviewSaveFailed, PreviewStats, PreviewCatch,
     PreviewDbError
  <2> QED
    BY <2>1, <2>2
<1>10. \A i \in Jobs : Apology(i)'
  <2> SUFFICES ASSUME NEW i \in Jobs PROVE Apology(i)'
    OBVIOUS
  <2>1. preview'[i] = "handle" => status'[i] # "previewing"
    BY <1>4 DEF IInv, Core, Apology
  <2>2. ASSUME i \in credited
        PROVE  /\ Told(i)' /\ status'[i] # "previewing"
               /\ \A p \in Places : Begun(p)' /\ target'[p] = i => agent'[p] = "done" /\ ~bought'[p]
    <3>1. Apology(i) /\ i # j
      BY <1>2, <2>2 DEF IInv, Core, Apology
    <3> QED
      BY <1>3, <1>4, <1>5, <1>7, <2>2, <3>1 DEF Apology
  <2>3. CASE credited' = credited
    BY <2>1, <2>2, <2>3 DEF Apology
  <2>4. CASE credited' = {j} /\ Told(j)' /\ status'[j] # "previewing"
    BY <1>3, <1>6, <1>7, <2>1, <2>4 DEF Apology
  <2> QED
    BY <1>9, <2>3, <2>4
<1>11. \A c \in Cancels : Aimed(c)'
  BY <1>1, <1>3, <1>5 DEF Aimed, IInv, Core
<1> QED
  BY <1>3, <1>7, <1>8, <1>10, <1>11 DEF Core, IInv, Run, Alone

(* cancelJob, the cron and a restart offer no job and send no agent.       *)
LEMMA OtherSteps ==
  ASSUME IInv,
         \/ \E c \in Cancels, j \in Jobs : CancelRead(c, j)
         \/ \E c \in Cancels : CancelWrite(c)
         \/ \E j \in Jobs : StuckSelect(j) \/ CardSelect(j)
         \/ SweepStep \/ SweepDbError \/ Restart
  PROVE  Core'
<1> USE DEF placeVars, agentVars, bookVars, cancelVars, sweepVars, jobVars
<1>0. TypeOK /\ Core
  BY DEF IInv
<1>1. CASE \E j \in Jobs : StuckSelect(j) \/ CardSelect(j)
  BY <1>1, CoreStays DEF StuckSelect, CardSelect
<1>2. CASE StuckCard \/ StuckReview \/ CardCancel \/ CardClear \/ SweepDbError
  BY <1>2, CoreStays DEF StuckCard, StuckReview, CardCancel, CardClear, SweepDbError
<1>3. CASE StuckMark \/ \E c \in Cancels : CancelWrite(c)
  <2>1. \A i \in Jobs : status'[i] = "previewing" => status[i] = "previewing"
    BY <1>0, <1>3 DEF StuckMark, CancelWrite, SetStatus, TypeOK
  <2>2. UNCHANGED <<preview, place, target, agent, answer, bought, credited, aim>>
    BY <1>3 DEF StuckMark, CancelWrite
  <2>3. \A c \in Cancels : cancel'[c] # "start" => cancel[c] # "start"
    BY <1>0, <1>3 DEF StuckMark, CancelWrite, TypeOK
  <2>4. \A q \in Places : Begun(q)' <=> Begun(q)
    BY <2>2 DEF Begun
  <2>5. (\A q \in Places : Run(q)' /\ Settled(q)') /\ (\A q, r \in Places : Alone(q, r)')
    BY <1>0, <2>1, <2>2, <2>4 DEF Run, Settled, Alone, Told, Core, TypeOK
  <2>6. \A i \in Jobs : Apology(i)'
    BY <1>0, <2>1, <2>2, <2>4 DEF Apology, Told, Core
  <2> QED
    BY <1>0, <2>2, <2>3, <2>5, <2>6 DEF Core, Aimed, Told
<1>4. CASE \E c \in Cancels, j \in Jobs : CancelRead(c, j)
  <2>1. PICK c \in Cancels, j \in Jobs : CancelRead(c, j)
    BY <1>4
  <2>2. UNCHANGED <<status, preview, place, target, agent, answer, bought, credited>>
    BY <2>1 DEF CancelRead
  <2>3. \A d \in Cancels : Aimed(d)'
    BY <1>0, <2>1, <2>2 DEF CancelRead, Aimed, Told, Core, TypeOK
  <2>4. /\ \A q \in Places : Run(q)' /\ Settled(q)'
        /\ \A q, r \in Places : Alone(q, r)'
        /\ \A i \in Jobs : Apology(i)'
    BY <1>0, <2>2 DEF Core, Run, Settled, Alone, Apology, Begun, Told
  <2> QED
    BY <2>3, <2>4 DEF Core
<1>5. CASE Restart
  <2>1. UNCHANGED <<status, target, agent, answer, bought, credited, aim>>
    BY <1>5 DEF Restart
  <2>2. /\ \A i \in Jobs : (Told(i) => Told(i)') /\ (preview'[i] = "handle" => preview[i] = "handle")
        /\ \A q \in Places : place'[q] = place[q] \/ place'[q] = "dead"
        /\ \A c \in Cancels : cancel'[c] # "start" => cancel[c] # "start"
    BY <1>5 DEF Restart, Told, PreviewRunning
  <2>3. \A q \in Places : Begun(q)' => Begun(q)
    BY <2>1, <2>2 DEF Begun, PlaceRunning, Unpaid, Paid
  <2>4. \A q \in Places : Run(q)'
    BY <1>0, <2>1, <2>2 DEF Run, Core, Unpaid
  <2>5. \A q \in Places : Settled(q)'
    BY <1>0, <2>1, <2>2, <2>3 DEF Settled, Core, TypeOK
  <2>6. \A q, r \in Places : Alone(q, r)'
    BY <1>0, <2>1, <2>3 DEF Alone, Core
  <2>7. \A i \in Jobs : Apology(i)'
    BY <1>0, <2>1, <2>2, <2>3 DEF Apology, Core
  <2>8. \A c \in Cancels : Aimed(c)'
    BY <1>0, <2>1, <2>2 DEF Aimed, Core, TypeOK
  <2> QED
    BY <2>4, <2>5, <2>6, <2>7, <2>8 DEF Core
<1> QED
  BY <1>1, <1>2, <1>3, <1>4, <1>5 DEF SweepStep

LEMMA InvStep == IInv /\ [Next]_vars => IInv'
<1> SUFFICES ASSUME IInv, [Next]_vars PROVE IInv'
  OBVIOUS
<1>1. TypeOK /\ \A p \in Places : Run(p)
  BY DEF IInv, Core
<1>2. ASSUME NEW j \in Jobs, PreviewStep(j) PROVE IInv'
  BY <1>1, <1>2, PreviewTypes, PreviewSteps DEF IInv
<1>3. ASSUME NEW p \in Places, NEW j \in Jobs, PlaceClaim(p, j) PROVE IInv'
  BY <1>1, <1>3, PlaceTypes, ClaimStep DEF IInv
<1>4. ASSUME NEW p \in Places, PlaceStep(p) \/ PlaceDbError(p) \/ AgentStep(p) PROVE IInv'
  <2>1. TypeOK'
    BY <1>1, <1>4, PlaceTypes
  <2>2. Core'
    BY <1>4, HandlerSteps, RollbackStep, ExecuteStep, HandleStep, AgentSteps DEF PlaceStep
  <2> QED
    BY <2>1, <2>2 DEF IInv
<1>5. ASSUME \/ \E c \in Cancels, j \in Jobs : CancelRead(c, j)
             \/ \E c \in Cancels : CancelWrite(c)
             \/ \E j \in Jobs : StuckSelect(j) \/ CardSelect(j)
             \/ SweepStep \/ SweepDbError \/ Restart
      PROVE  IInv'
  BY <1>1, <1>5, OtherTypes, OtherSteps DEF IInv
<1>6. CASE UNCHANGED vars
  BY <1>6 DEF vars, jobVars, placeVars, agentVars, bookVars, cancelVars, sweepVars, IInv, TypeOK,
     Core, Run, Settled, Alone, Apology, Aimed, Begun, Told
<1> QED
  BY <1>2, <1>3, <1>4, <1>5, <1>6 DEF Next

LEMMA InvInit == Init => IInv
<1> SUFFICES ASSUME Init PROVE IInv
  OBVIOUS
<1>1. \A p \in Places : place[p] = "start" /\ agent[p] = "idle" /\ answer[p] = "none" /\ ~bought[p]
  BY DEF Init
<1>2. \A p \in Places : ~Begun(p) /\ Run(p)
  BY <1>1 DEF Begun, Run, PlaceRunning, Unpaid, Paid
<1>3. \A j \in Jobs : Apology(j)
  BY DEF Init, Apology
<1>4. \A c \in Cancels : Aimed(c)
  BY DEF Init, Aimed
<1> QED
  BY <1>2, <1>3, <1>4, TypeInit DEF IInv, Core, Settled, Alone

(* The invariant holds in every state of every behaviour.                  *)
THEOREM Invariance == Spec => []IInv
BY InvInit, InvStep, PTL DEF Spec

-----------------------------------------------------------------------------
(* What follows from it.                                                   *)

(* Every column, handler, card and run stays within its type: in           *)
(* particular no job is ever closed with a reason that is not one.         *)
THEOREM TypeCorrect == Spec => []TypeOK
<1>1. IInv => TypeOK
  BY DEF IInv
<1> QED
  BY <1>1, Invariance, PTL

(* A job is bought at most once: a second place call gets past the claim   *)
(* only if the first one gave the job back before it sent the agent.       *)
THEOREM JobsAreBoughtOnce == Spec => []BoughtOnce
<1>1. IInv => BoughtOnce
  BY DEF IInv, Core, Run, Alone, Begun, BoughtOnce
<1> QED
  BY <1>1, Invariance, PTL

(* The apology credit of a cycle never goes to a job that was bought.      *)
THEOREM NoCreditForAPurchase == Spec => []CreditedJobsBoughtNothing
<1>1. IInv => CreditedJobsBoughtNothing
  BY DEF IInv, TypeOK, Core, Run, Apology, Begun, CreditedJobsBoughtNothing
<1> QED
  BY <1>1, Invariance, PTL

-----------------------------------------------------------------------------
(* Every purchase of a job that nobody cancelled is accounted for.         *)

\* Up to the answer the job is 'placing', and nobody but its handler writes it.
Answerable == PlaceRunning \ {"handle", "closeCard"}

Kept(p) ==
  /\ place[p] \in Answerable => status[target[p]] = "placing"
  /\ place[p] = "complete" => ordered[p]
  /\ place[p] \notin Answerable /\ agent[p] # "idle" =>
       \/ ordered[p]
       \/ status[target[p]] = "placing"
       \/ reason[target[p]] = "uncertain"
       \/ agent[p] = "done" /\ answer[p] = "other"

\* The cron still finds the job as it was when it was selected.
Sweeping == sweep \in {"stuckCard", "stuckMark"} => Stuck(swept) \/ swept \in Aborted

Accounts ==
  /\ \A p \in Places : target[p] \in Aborted \/ Kept(p)
  /\ \A j \in Jobs : status[j] = "placing" => Told(j)
  /\ Sweeping

(* A step of one handler that keeps the account of its own job keeps all   *)
(* others: they are about other jobs, or about handlers that never began.  *)
LEMMA AccountsOfOthers ==
  ASSUME IInv, Accounts, NEW p \in Places, place[p] \in PlaceRunning,
         NEW pc, PlaceGo(p, pc), pc \in PlacePc,
         UNCHANGED <<target, preview, sweep, swept, Aborted>>,
         \A q \in Places \ {p} : /\ agent'[q] = agent[q] /\ answer'[q] = answer[q]
                                 /\ ordered'[q] = ordered[q],
         \A j \in Jobs : j # target[p] => status'[j] = status[j] /\ reason'[j] = reason[j],
         status'[target[p]] = "placing" => status[target[p]] = "placing",
         target[p] \in Aborted \/ Kept(p)'
  PROVE  Accounts'
<1>1. \A q \in Places : q # p => place'[q] = place[q]
  BY DEF PlaceGo, IInv, TypeOK
<1>2. target \in [Places -> Jobs] /\ swept \in Jobs
  BY DEF IInv, TypeOK
<1>3. Begun(p)
  BY DEF Begun
<1>4. ASSUME NEW q \in Places, q # p, target[q] \notin Aborted PROVE Kept(q)'
  <2>1. Kept(q)
    BY <1>4 DEF Accounts
  <2>2. CASE Begun(q)
    <3>1. target[q] # target[p]
      BY <1>3, <1>4, <2>2 DEF IInv, Core, Alone
    <3> QED
      BY <1>1, <1>2, <1>4, <2>1, <3>1 DEF Kept
  <2>3. CASE ~Begun(q)
    BY <1>1, <1>4, <2>3 DEF Kept, Begun, Answerable, PlaceRunning, Paid, Unpaid
  <2> QED
    BY <2>2, <2>3
<1>5. \A j \in Jobs : status'[j] = "placing" => Told(j)'
  BY DEF Accounts, Told
<1>6. Sweeping'
  <2> SUFFICES ASSUME sweep \in {"stuckCard", "stuckMark"}, swept \notin Aborted
               PROVE  Stuck(swept)'
    BY DEF Sweeping
  <2>1. Stuck(swept) /\ target[p] # swept
    BY DEF Accounts, Sweeping, Stuck, Owns
  <2>2. \A q \in Places : Owns(q, swept)' => Owns(q, swept)
    BY <1>1, <2>1 DEF Owns
  <2> QED
    BY <1>2, <2>1, <2>2 DEF Stuck
<1> QED
  BY <1>4, <1>5, <1>6 DEF Accounts

LEMMA HandlerAccounts ==
  ASSUME IInv, Accounts, NEW p \in Places, PlaceStep(p) \/ PlaceDbError(p)
  PROVE  Accounts'
<1> USE DEF placeVars, agentVars, bookVars, sweepVars, jobVars
<1>a. Aborted' = Aborted
  BY DEF PlaceStep, PlaceDbError, PlaceLook, PlaceMint, PlaceRollback, PlaceExecute, PlaceAnswer,
     PlaceNoAnswer, PlaceSteps, PlaceOrder, PlaceComplete, PlaceFail, PlaceHandle,
     PlaceCloseCard, Aborted, cancelVars
<1>1. /\ target[p] \in Aborted \/ Kept(p)
      /\ Run(p) /\ target[p] \in Jobs /\ place \in [Places -> PlacePc]
      /\ status \in [Jobs -> JobStatus] /\ reason \in [Jobs -> FailureReason]
      /\ agent \in [Places -> {"idle", "running", "done"}] /\ ordered \in [Places -> BOOLEAN]
      /\ answer[p] \in {"none", "completed", "uncertain", "other"}
  BY DEF IInv, Core, TypeOK, Accounts
<1>2. /\ place[p] \in PlaceRunning
      /\ UNCHANGED <<target, preview, sweep, swept, answer>>
  BY DEF PlaceStep, PlaceDbError, PlaceLook, PlaceMint, PlaceRollback, PlaceExecute, PlaceAnswer,
     PlaceNoAnswer, PlaceSteps, PlaceOrder, PlaceComplete, PlaceFail, PlaceHandle,
     PlaceCloseCard, PlaceRunning, Unpaid, Paid
<1>3. CASE PlaceLook(p) \/ PlaceMint(p) \/ PlaceAnswer(p) \/ PlaceNoAnswer(p) \/ PlaceSteps(p)
           \/ PlaceHandle(p) \/ PlaceCloseCard(p) \/ PlaceDbError(p)
  <2>1. UNCHANGED <<status, reason, agent, ordered>>
    BY <1>3 DEF PlaceLook, PlaceMint, PlaceAnswer, PlaceNoAnswer, PlaceSteps, PlaceHandle,
       PlaceCloseCard, PlaceDbError
  <2>2. PICK pc \in PlacePc : /\ PlaceGo(p, pc)
                              /\ pc \in Answerable => place[p] \in Answerable
                              /\ pc # "complete"
                              /\ pc \notin Answerable => \/ place[p] \in {"handle", "closeCard"}
                                                         \/ target[p] \in Aborted
                                                         \/ status[target[p]] = "placing"
    <3> USE DEF Answerable, PlacePc, PlaceRunning, Unpaid, Paid
    <3>1. CASE PlaceLook(p)
      BY <1>1, <3>1 DEF PlaceLook, Kept
    <3>2. CASE PlaceMint(p)
      BY <1>1, <3>2 DEF PlaceMint, Kept
    <3>3. CASE PlaceAnswer(p) \/ PlaceNoAnswer(p)
      BY <1>1, <3>3 DEF PlaceAnswer, PlaceNoAnswer, Kept
    <3>4. CASE PlaceSteps(p)
      BY <1>1, <3>4 DEF PlaceSteps, Kept
    <3>5. CASE PlaceHandle(p) \/ PlaceCloseCard(p)
      BY <1>1, <3>5 DEF PlaceHandle, PlaceCloseCard
    <3>6. CASE PlaceDbError(p)
      BY <1>1, <3>6 DEF PlaceDbError, Kept
    <3> QED
      BY <1>3, <3>1, <3>2, <3>3, <3>4, <3>5, <3>6
  <2>3. place'[p] = pc
    BY <1>1, <2>2 DEF PlaceGo
  <2>4. target[p] \in Aborted \/ Kept(p)'
    BY <1>1, <1>2, <2>1, <2>2, <2>3 DEF Kept, Answerable
  <2> QED
    BY <1>a, <1>2, <2>1, <2>2, <2>4, AccountsOfOthers
<1>4. CASE PlaceRollback(p)
  <2>1. place'[p] = "thrown" /\ UNCHANGED <<reason, agent, ordered>>
    BY <1>1, <1>4 DEF PlaceRollback, PlaceGo
  <2>2. agent[p] = "idle"
    BY <1>1, <1>4 DEF PlaceRollback, Run, Unpaid
  <2>3. \A j \in Jobs : j # target[p] => status'[j] = status[j]
    BY <1>1, <1>4 DEF PlaceRollback, SetStatus
  <2>4. Kept(p)'
    BY <2>1, <2>2 DEF Kept, Answerable, PlaceRunning, Unpaid, Paid
  <2>5. status'[target[p]] = "previewing" /\ "thrown" \in PlacePc
    BY <1>1, <1>4 DEF PlaceRollback, SetStatus, PlacePc
  <2> QED
    BY <1>a, <1>2, <1>4, <2>1, <2>3, <2>4, <2>5, AccountsOfOthers DEF PlaceRollback
<1>5. CASE PlaceExecute(p)
  <2>1. place'[p] = "await" /\ UNCHANGED <<status, reason, ordered>> /\ "await" \in PlacePc
    BY <1>1, <1>5 DEF PlaceExecute, PlaceGo, PlacePc, PlaceRunning, Paid
  <2>2. \A q \in Places \ {p} : agent'[q] = agent[q]
    BY <1>1, <1>5 DEF PlaceExecute
  <2>3. target[p] \in Aborted \/ Kept(p)'
    BY <1>1, <1>2, <1>5, <2>1 DEF PlaceExecute, Kept, Answerable, PlaceRunning, Unpaid, Paid
  <2> QED
    BY <1>a, <1>2, <1>5, <2>1, <2>2, <2>3, AccountsOfOthers DEF PlaceExecute
<1>6. CASE PlaceOrder(p)
  <2>1. place'[p] = "complete" /\ UNCHANGED <<status, reason, agent>> /\ "complete" \in PlacePc
    BY <1>1, <1>6 DEF PlaceOrder, PlaceGo, PlacePc, PlaceRunning, Paid
  <2>2. ordered'[p] /\ \A q \in Places \ {p} : ordered'[q] = ordered[q]
    BY <1>1, <1>6 DEF PlaceOrder
  <2>3. target[p] \in Aborted \/ Kept(p)'
    BY <1>1, <1>2, <1>6, <2>1, <2>2 DEF PlaceOrder, Kept, Answerable, PlaceRunning, Unpaid, Paid
  <2> QED
    BY <1>a, <1>2, <1>6, <2>1, <2>2, <2>3, AccountsOfOthers DEF PlaceOrder
<1>7. CASE PlaceComplete(p) \/ PlaceFail(p)
  <2>1. PICK pc \in {"closeCard", "handle"} : PlaceGo(p, pc)
    BY <1>7 DEF PlaceComplete, PlaceFail
  <2>2. place'[p] = pc /\ pc \in PlacePc /\ UNCHANGED <<agent, ordered>>
    BY <1>1, <1>7, <2>1 DEF PlaceComplete, PlaceFail, PlaceGo, PlacePc, PlaceRunning, Paid
  <2>3. /\ \A j \in Jobs : j # target[p] => status'[j] = status[j] /\ reason'[j] = reason[j]
        /\ status'[target[p]] \in {"completed", "failed"}
    BY <1>1, <1>7 DEF PlaceComplete, PlaceFail, SetStatus, SetReason
  <2>4. target[p] \in Aborted \/ Kept(p)'
    <3>1. CASE PlaceComplete(p)
      BY <1>1, <1>2, <2>1, <2>2, <3>1 DEF PlaceComplete, Kept, Answerable
    <3>2. CASE PlaceFail(p)
      <4>1. /\ agent[p] = "done" /\ answer[p] \in {"uncertain", "other"}
            /\ reason'[target[p]] = answer[p]
        BY <1>1, <3>2 DEF PlaceFail, Run, SetReason
      <4> QED
        BY <1>2, <2>1, <2>2, <4>1 DEF Kept, Answerable
    <3> QED
      BY <1>7, <3>1, <3>2
  <2> QED
    BY <1>a, <1>2, <2>1, <2>2, <2>3, <2>4, AccountsOfOthers
<1> QED
  BY <1>3, <1>4, <1>5, <1>6, <1>7 DEF PlaceStep

LEMMA ClaimAccounts ==
  ASSUME IInv, Accounts, NEW p \in Places, NEW j \in Jobs, PlaceClaim(p, j)
  PROVE  Accounts'
<1> USE DEF agentVars, bookVars, sweepVars
<1>1. /\ place \in [Places -> PlacePc] /\ target \in [Places -> Jobs] /\ status \in [Jobs -> JobStatus]
      /\ place[p] = "start" /\ agent[p] = "idle" /\ Told(j) /\ swept \in Jobs
  BY DEF IInv, Core, TypeOK, Run, PlaceClaim
<1>2. UNCHANGED <<reason, preview, agent, answer, ordered, sweep, swept, Aborted>>
  BY DEF PlaceClaim, Aborted, cancelVars
<1>3. /\ \A q \in Places : q # p => place'[q] = place[q] /\ target'[q] = target[q]
      /\ target'[p] = j
      /\ \A i \in Jobs : i # j => status'[i] = status[i]
  BY <1>1 DEF PlaceClaim, PlaceGo, SetStatus
<1>4. \/ status[j] = "previewing" /\ status'[j] = "placing" /\ place'[p] = "look"
      \/ status[j] # "previewing" /\ status' = status /\ place'[p] = "refused"
  BY <1>1 DEF PlaceClaim, PlaceGo, SetStatus
<1>5. Kept(p)'
  BY <1>1, <1>2, <1>3, <1>4 DEF Kept, Answerable, PlaceRunning, Unpaid, Paid
<1>6. ASSUME NEW q \in Places, q # p, target[q] \notin Aborted PROVE Kept(q)'
  <2>1. Kept(q) /\ Settled(q)
    BY <1>6 DEF Accounts, IInv, Core
  <2>2. CASE Begun(q)
    <3>1. status'[target[q]] = status[target[q]]
      BY <1>1, <1>3, <1>4, <2>1, <2>2 DEF Settled
    <3> QED
      BY <1>2, <1>3, <1>6, <2>1, <3>1 DEF Kept
  <2>3. CASE ~Begun(q)
    BY <1>2, <1>3, <1>6, <2>3 DEF Kept, Begun, Answerable, PlaceRunning, Paid, Unpaid
  <2> QED
    BY <2>2, <2>3
<1>7. \A i \in Jobs : status'[i] = "placing" => Told(i)'
  BY <1>1, <1>2, <1>3, <1>4 DEF Accounts, Told
<1>8. Sweeping'
  <2> SUFFICES ASSUME sweep \in {"stuckCard", "stuckMark"}, swept \notin Aborted
               PROVE  Stuck(swept)'
    BY <1>2 DEF Sweeping
  <2>1. Stuck(swept)
    BY DEF Accounts, Sweeping
  <2>2. status'[swept] = "placing"
    BY <1>1, <1>3, <1>4, <2>1 DEF Stuck
  <2>3. ~Owns(p, swept)'
    BY <1>2, <1>3, <1>4, <2>1 DEF Owns, Stuck, PlaceRunning, Unpaid, Paid
  <2>4. \A q \in Places : q # p => ~Owns(q, swept)'
    BY <1>2, <1>3, <2>1 DEF Owns, Stuck
  <2> QED
    BY <1>2, <2>2, <2>3, <2>4 DEF Stuck
<1> QED
  BY <1>2, <1>3, <1>5, <1>6, <1>7, <1>8 DEF Accounts

LEMMA AgentAccounts ==
  ASSUME IInv, Accounts, NEW p \in Places, AgentStep(p)
  PROVE  Accounts'
<1> USE DEF placeVars, jobVars, bookVars, sweepVars
<1>1. /\ agent[p] = "running" /\ agent \in [Places -> {"idle", "running", "done"}]
      /\ answer \in [Places -> {"none", "completed", "uncertain", "other"}]
  BY DEF IInv, TypeOK, AgentStep, AgentBuy, AgentEnd
<1>2. UNCHANGED <<status, reason, preview, place, target, ordered, sweep, swept, Aborted>>
  BY DEF AgentStep, AgentBuy, AgentEnd, Aborted, cancelVars
<1>3. \A q \in Places : q # p => agent'[q] = agent[q] /\ answer'[q] = answer[q]
  <2>1. CASE AgentBuy(p)
    BY <2>1 DEF AgentBuy
  <2>2. CASE AgentEnd(p)
    BY <1>1, <2>2 DEF AgentEnd
  <2> QED
    BY <2>1, <2>2 DEF AgentStep
<1>4. \A q \in Places : target[q] \in Aborted \/ Kept(q)'
  BY <1>1, <1>2, <1>3 DEF Kept, Accounts
<1> QED
  BY <1>2, <1>4 DEF Accounts, Sweeping, Stuck, Owns, Told

LEMMA PreviewAccounts ==
  ASSUME IInv, Accounts, NEW j \in Jobs, PreviewStep(j)
  PROVE  Accounts'
<1> USE DEF placeVars, agentVars, bookVars, sweepVars, jobVars
<1>1. /\ preview \in [Jobs -> PreviewPc] /\ target \in [Places -> Jobs] /\ status \in [Jobs -> JobStatus]
      /\ reason \in [Jobs -> FailureReason] /\ swept \in Jobs
  BY DEF IInv, TypeOK
<1>2. ~Told(j)
  BY DEF Told, PreviewStep, PreviewCreate, PreviewRefuse, PreviewRun, PreviewAnswer,
     PreviewNoAnswer, PreviewSaveFound, PreviewSaveFailed, PreviewStats, PreviewHandle,
     PreviewCatch, PreviewDbError, PreviewRunning
<1>3. UNCHANGED <<place, target, agent, answer, ordered, sweep, swept, Aborted>>
  BY DEF PreviewStep, PreviewCreate, PreviewRefuse, PreviewRun, PreviewAnswer,
     PreviewNoAnswer, PreviewSaveFound, PreviewSaveFailed, PreviewStats, PreviewHandle,
     PreviewCatch, PreviewDbError, Aborted, cancelVars
<1>4. /\ \A i \in Jobs : i # j => /\ status'[i] = status[i] /\ preview'[i] = preview[i]
                                  /\ reason'[i] = reason[i]
      /\ status'[j] = "placing" => status[j] = "placing"
  <2>1. CASE PreviewCreate(j) \/ PreviewRun(j) \/ PreviewSaveFound(j) \/ PreviewSaveFailed(j)
               \/ PreviewCatch(j)
    BY <1>1, <2>1 DEF PreviewCreate, PreviewRun, PreviewSaveFound, PreviewSaveFailed,
       PreviewCatch, SetStatus, SetReason, PreviewGo
  <2>2. CASE PreviewRefuse(j) \/ PreviewAnswer(j) \/ PreviewNoAnswer(j) \/ PreviewStats(j)
               \/ PreviewHandle(j) \/ PreviewDbError(j)
    BY <1>1, <2>2 DEF PreviewRefuse, PreviewAnswer, PreviewNoAnswer, PreviewStats,
       PreviewHandle, PreviewDbError, PreviewGo
  <2> QED
    BY <2>1, <2>2 DEF PreviewStep
<1>5. status[j] # "placing"
  BY <1>2 DEF Accounts
<1>6. ASSUME NEW q \in Places, target[q] \notin Aborted PROVE Kept(q)'
  <2>1. Kept(q) /\ Settled(q)
    BY <1>6 DEF Accounts, IInv, Core
  <2>2. CASE Begun(q)
    BY <1>1, <1>2, <1>3, <1>4, <2>1, <2>2 DEF Settled, Kept
  <2>3. CASE ~Begun(q)
    BY <1>3, <2>3 DEF Kept, Begun, Answerable, PlaceRunning, Paid, Unpaid
  <2> QED
    BY <2>2, <2>3
<1>7. \A i \in Jobs : status'[i] = "placing" => Told(i)'
  BY <1>4, <1>5 DEF Accounts, Told
<1>8. Sweeping'
  BY <1>1, <1>3, <1>4, <1>5 DEF Accounts, Sweeping, Stuck, Owns
<1> QED
  BY <1>3, <1>6, <1>7, <1>8 DEF Accounts

LEMMA SweepAccounts ==
  ASSUME IInv, Accounts,
         (\E j \in Jobs : StuckSelect(j) \/ CardSelect(j)) \/ SweepStep \/ SweepDbError \/ Restart
  PROVE  Accounts'
<1> USE DEF placeVars, agentVars, bookVars, sweepVars, jobVars
<1>0. /\ target \in [Places -> Jobs] /\ status \in [Jobs -> JobStatus]
      /\ reason \in [Jobs -> FailureReason] /\ swept \in Jobs
  BY DEF IInv, TypeOK
<1>1. CASE \E j \in Jobs : StuckSelect(j) \/ CardSelect(j)
  <2>1. PICK j \in Jobs : StuckSelect(j) \/ CardSelect(j)
    BY <1>1
  <2>2. UNCHANGED <<status, reason, preview, place, target, agent, answer, ordered, Aborted>>
    BY <2>1 DEF StuckSelect, CardSelect, Aborted, cancelVars
  <2>3. sweep' \in {"stuckCard", "stuckMark"} => Stuck(j) /\ swept' = j
    BY <2>1 DEF StuckSelect, CardSelect
  <2> QED
    BY <2>2, <2>3 DEF Accounts, Kept, Sweeping, Stuck, Owns, Told
<1>2. CASE StuckCard \/ StuckReview \/ CardCancel \/ CardClear \/ SweepDbError
  <2>1. /\ UNCHANGED <<status, reason, preview, place, target, agent, answer, ordered, swept, Aborted>>
        /\ sweep' \in {"stuckCard", "stuckMark"} => sweep \in {"stuckCard", "stuckMark"}
    BY <1>2 DEF StuckCard, StuckReview, CardCancel, CardClear, SweepDbError, Aborted, cancelVars
  <2> QED
    BY <2>1 DEF Accounts, Kept, Sweeping, Stuck, Owns, Told
<1>3. CASE StuckMark
  <2>1. UNCHANGED <<preview, place, target, agent, answer, ordered, Aborted>>
    BY <1>3 DEF StuckMark, Aborted, cancelVars
  <2>2. /\ \A i \in Jobs : i # swept => status'[i] = status[i] /\ reason'[i] = reason[i]
        /\ status'[swept] = "failed" /\ reason'[swept] = "uncertain"
    BY <1>0, <1>3 DEF StuckMark, SetStatus, SetReason
  <2>3. swept \in Aborted \/ \A q \in Places : ~Owns(q, swept)
    BY <1>3 DEF StuckMark, Accounts, Sweeping, Stuck
  <2>4. ASSUME NEW q \in Places, target[q] \notin Aborted PROVE Kept(q)'
    <3>1. Kept(q)
      BY <2>4 DEF Accounts
    <3>2. CASE target[q] = swept
      <4>1. place[q] \notin PlaceRunning
        BY <2>3, <2>4, <3>2 DEF Owns
      <4> QED
        BY <2>1, <2>2, <3>1, <3>2, <4>1 DEF Kept, Answerable, PlaceRunning, Paid
    <3>3. CASE target[q] # swept
      BY <1>0, <2>1, <2>2, <3>1, <3>3 DEF Kept
    <3> QED
      BY <3>2, <3>3
  <2>5. Sweeping'
    BY <1>3 DEF StuckMark, Sweeping
  <2> QED
    BY <2>1, <2>2, <2>4, <2>5 DEF Accounts, Told
<1>4. CASE Restart
  <2>1. UNCHANGED <<status, reason, target, agent, answer, ordered>>
    BY <1>4 DEF Restart
  <2>5. Aborted' = Aborted
    <3>1. aim' = aim /\ \A c \in Cancels : cancel'[c] = "done" <=> cancel[c] = "done"
      BY <1>4 DEF Restart
    <3> QED
      BY <3>1 DEF Aborted
  <2>2. /\ \A i \in Jobs : Told(i) => Told(i)'
        /\ \A q \in Places : place'[q] = IF place[q] \in PlaceRunning THEN "dead" ELSE place[q]
    BY <1>4 DEF Restart, Told, PreviewRunning
  <2>3. ASSUME NEW q \in Places, target[q] \notin Aborted PROVE Kept(q)'
    BY <2>1, <2>2, <2>3 DEF Accounts, Kept, Answerable, PlaceRunning, Unpaid, Paid
  <2>4. Sweeping'
    BY <1>4 DEF Restart, Sweeping
  <2> QED
    BY <2>1, <2>2, <2>3, <2>4, <2>5 DEF Accounts
<1> QED
  BY <1>1, <1>2, <1>3, <1>4 DEF SweepStep

(* A cancel call only takes the job it aborts out of the accounts.         *)
LEMMA CancelAccounts ==
  ASSUME IInv, Accounts, NEW c \in Cancels,
         CancelWrite(c) \/ \E j \in Jobs : CancelRead(c, j)
  PROVE  Accounts'
<1> USE DEF placeVars, agentVars, bookVars, sweepVars, jobVars
<1>1. /\ target \in [Places -> Jobs] /\ status \in [Jobs -> JobStatus] /\ swept \in Jobs
      /\ cancel \in [Cancels -> CancelPc] /\ aim \in [Cancels -> Jobs]
  BY DEF IInv, TypeOK
<1>2. UNCHANGED <<reason, preview, place, target, agent, answer, ordered, sweep, swept>>
  BY DEF CancelRead, CancelWrite
<1>3. Aborted \subseteq Aborted'
  <2> SUFFICES ASSUME NEW d \in Cancels, cancel[d] = "done"
               PROVE  aim'[d] = aim[d] /\ cancel'[d] = "done"
    BY DEF Aborted
  <2> QED
    BY <1>1 DEF CancelRead, CancelWrite
<1>4. \A j \in Jobs : j \in Aborted' \/ status'[j] = status[j]
  <2>1. CASE CancelWrite(c)
    <3>1. aim'[c] = aim[c] /\ cancel'[c] = "done"
      BY <1>1, <2>1 DEF CancelWrite
    <3>2. aim[c] \in Aborted'
      BY <3>1 DEF Aborted
    <3> QED
      BY <1>1, <2>1, <3>2 DEF CancelWrite, SetStatus
  <2>2. CASE \E j \in Jobs : CancelRead(c, j)
    BY <2>2 DEF CancelRead
  <2> QED
    BY <2>1, <2>2
<1>5. \A j \in Jobs : status'[j] = "placing" => status[j] = "placing"
  BY <1>1 DEF CancelRead, CancelWrite, SetStatus
<1>6. \A q \in Places : target[q] \in Aborted' \/ Kept(q)'
  BY <1>1, <1>2, <1>3, <1>4 DEF Accounts, Kept
<1>7. Sweeping'
  BY <1>1, <1>2, <1>3, <1>4 DEF Accounts, Sweeping, Stuck, Owns
<1> QED
  BY <1>2, <1>5, <1>6, <1>7 DEF Accounts, Told

(* An order that a retailer accepted is recorded, waits in a 'placing'     *)
(* job for the cron, or is marked as uncertain, through database errors    *)
(* and restarts, unless a cancel call wrote to its job.                    *)
THEOREM AllPurchasesAreAccounted == Spec => []PurchasesAreAccounted
<1>1. Init => Accounts
  BY DEF Init, Accounts, Kept, Sweeping, Answerable, PlaceRunning, Unpaid, Paid
<1>2. IInv /\ Accounts /\ [Next]_vars => Accounts'
  <2> SUFFICES ASSUME IInv, Accounts, [Next]_vars PROVE Accounts'
    OBVIOUS
  <2>1. CASE UNCHANGED vars
    BY <2>1 DEF vars, jobVars, placeVars, agentVars, bookVars, cancelVars, sweepVars, Accounts,
       Kept, Sweeping, Stuck, Owns, Told, Aborted
  <2>2. ASSUME NEW p \in Places, PlaceStep(p) \/ PlaceDbError(p) PROVE Accounts'
    BY <2>2, HandlerAccounts
  <2>3. ASSUME NEW p \in Places, AgentStep(p) PROVE Accounts'
    BY <2>3, AgentAccounts
  <2>4. ASSUME NEW p \in Places, NEW j \in Jobs, PlaceClaim(p, j) PROVE Accounts'
    BY <2>4, ClaimAccounts
  <2>5. ASSUME NEW j \in Jobs, PreviewStep(j) PROVE Accounts'
    BY <2>5, PreviewAccounts
  <2>6. ASSUME (\E j \in Jobs : StuckSelect(j) \/ CardSelect(j)) \/ SweepStep \/ SweepDbError
                 \/ Restart
        PROVE  Accounts'
    BY <2>6, SweepAccounts
  <2>7. ASSUME NEW c \in Cancels, CancelWrite(c) \/ \E j \in Jobs : CancelRead(c, j)
        PROVE  Accounts'
    BY <2>7, CancelAccounts
  <2> QED
    BY <2>1, <2>2, <2>3, <2>4, <2>5, <2>6, <2>7 DEF Next
<1>3. IInv /\ Accounts => PurchasesAreAccounted
  BY DEF IInv, Core, Run, Accounts, Kept, Answerable, PlaceRunning, Paid, PurchasesAreAccounted
<1> QED
  BY <1>1, <1>2, <1>3, Invariance, PTL DEF Spec
=============================================================================
