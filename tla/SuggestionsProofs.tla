-------------------------- MODULE SuggestionsProofs -------------------------
(***************************************************************************)
(* Proofs about the suggestions: re-rolls and their claims (Rerolls), the  *)
(* autopilot and what it picks (Autopilot, Picks), and the page that shows *)
(* them (GiftPage).                                                        *)
(***************************************************************************)
EXTENDS Autopilot, GiftPage, FiniteSetTheorems, TLAPS

-----------------------------------------------------------------------------
(* Rerolls.                                                                *)

Shape ==
  /\ gen \in [Calls -> {"start"} \cup GenRunning \cup GenEnded]
  /\ index \in [Calls -> 0 .. MaxRequests]
  /\ claimed \subseteq Calls

\* A call goes on only with an index that is below the limit ...
Below == \A c \in Calls : gen[c] \in {"counted", "missed"} \/ c \in claimed => index[c] < MaxRequests

\* ... claims it once, and holds the claim while it works and when it is done ...
Held ==
  \A c \in Calls : /\ gen[c] \in {"start", "counted", "missed"} => c \notin claimed
                   /\ gen[c] \in {"claimed", "stored", "done"} => c \in claimed

\* ... which no two calls have on the same index.
Apart == \A c, d \in claimed : index[c] = index[d] => c = d

IInv == Shape /\ Below /\ Held /\ Apart

-----------------------------------------------------------------------------

\* There are as many indexes as the plan allows, and each is claimed once.
LEMMA ClaimsFit == ASSUME IInv PROVE IsFiniteSet(claimed) /\ Cardinality(claimed) <= MaxRequests
<1> DEFINE slot == [c \in claimed |-> index[c]]
           slots == 0 .. MaxRequests - 1
<1>1. MaxRequests \in Nat
  BY RerollsAssumption DEF RerollsAssumption
<1>2. \A c \in claimed : index[c] \in slots
  BY <1>1 DEF IInv, Shape, Below
<1>3. slot \in Injection(claimed, slots)
  BY <1>2 DEF IInv, Apart, Injection, IsInjective
<1>4. IsFiniteSet(slots) /\ Cardinality(slots) = MaxRequests
  BY <1>1, FS_Interval
<1> HIDE DEF slot, slots
<1> QED
  BY <1>3, <1>4, FS_Injection

LEMMA ClaimsSuffice == IInv => SetsWithinPlan
<1> SUFFICES ASSUME IInv PROVE SetsWithinPlan
  OBVIOUS
<1>1. {c \in Calls : gen[c] \in {"claimed", "stored", "done"}} \subseteq claimed
  BY DEF IInv, Held
<1> QED
  BY <1>1, ClaimsFit, FS_Subset, FS_CardinalityType, RerollsAssumption
     DEF SetsWithinPlan, RerollsAssumption

LEMMA Start == RerollsInit => IInv
BY RerollsAssumption DEF RerollsAssumption, RerollsInit, IInv, Shape, Below, Held, Apart

LEMMA CountKeeps == ASSUME IInv, NEW c \in Calls, GenCount(c) PROVE IInv'
<1>1. Cardinality(claimed) \in 0 .. MaxRequests /\ MaxRequests \in Nat
  BY ClaimsFit, FS_CardinalityType, RerollsAssumption DEF RerollsAssumption
<1>2. /\ gen[c] = "start" /\ c \notin claimed /\ claimed' = claimed
      /\ gen' = [gen EXCEPT ![c] = IF Cardinality(claimed) >= MaxRequests THEN "limit" ELSE "counted"]
      /\ index' = [index EXCEPT ![c] = Cardinality(claimed)]
  BY DEF GenCount, GenGoes, IInv, Held
<1>3. Shape'
  BY <1>1, <1>2 DEF IInv, Shape, GenEnded, GenRunning
<1>4. Below'
  BY <1>1, <1>2 DEF IInv, Shape, Below
<1>5. Held' /\ Apart'
  BY <1>2 DEF IInv, Shape, Held, Apart
<1> QED
  BY <1>3, <1>4, <1>5 DEF IInv

LEMMA ClaimKeeps == ASSUME IInv, NEW c \in Calls, GenClaim(c) PROVE IInv'
<1>1. CASE SlotTaken(index[c])
  BY <1>1 DEF GenClaim, GenGoes, IInv, Shape, Below, Held, Apart, GenEnded
<1>2. CASE ~SlotTaken(index[c])
  <2>1. /\ gen[c] = "missed" /\ claimed' = claimed \cup {c} /\ index' = index
        /\ gen' = [gen EXCEPT ![c] = "claimed"]
    BY <1>2 DEF GenClaim, GenGoes
  <2>2. Shape' /\ Below' /\ Held'
    BY <2>1 DEF IInv, Shape, Below, Held, GenRunning
  <2>3. Apart'
    BY <1>2, <2>1 DEF IInv, Shape, Apart, SlotTaken
  <2> QED
    BY <2>2, <2>3 DEF IInv
<1> QED
  BY <1>1, <1>2

LEMMA StepKeeps == ASSUME IInv, [RerollsNext]_rerollVars PROVE IInv'
<1>1. ASSUME NEW c \in Calls, GenCount(c) \/ GenStep(c) PROVE IInv'
  <2>1. CASE GenHit(c) \/ GenMiss(c)
    BY <2>1 DEF GenHit, GenMiss, GenGoes, IInv, Shape, Below, Held, Apart, GenRunning, GenEnded
  <2>2. CASE GenStore(c) \/ GenFinish(c)
    BY <2>2 DEF GenStore, GenFinish, GenGoes, IInv, Shape, Below, Held, Apart, GenRunning, GenEnded
  <2>3. CASE GenFail(c) \/ GenRelease(c) \/ GenReleaseFails(c)
    BY <2>3 DEF GenFail, GenRelease, GenReleaseFails, GenGoes, IInv, Shape, Below, Held, Apart,
                GenRunning, GenEnded
  <2> QED
    BY <1>1, <2>1, <2>2, <2>3, CountKeeps, ClaimKeeps DEF GenStep
<1>2. ASSUME NEW k \in Keys, CacheExpire(k) PROVE IInv'
  BY <1>2 DEF CacheExpire, IInv, Shape, Below, Held, Apart
<1>3. CASE GenRestart
  BY <1>3 DEF GenRestart, IInv, Shape, Below, Held, Apart, GenRunning, GenEnded
<1>4. CASE UNCHANGED rerollVars
  BY <1>4 DEF rerollVars, IInv, Shape, Below, Held, Apart
<1> QED
  BY <1>1, <1>2, <1>3, <1>4 DEF RerollsNext

-----------------------------------------------------------------------------

\* However many calls race, fail, die or lose their release, the user never gets
\* more sets than the plan allows (generate, suggestions.service.ts:81-128, 380-383).
THEOREM ThePlanOfRerollsIsKept == RerollsSpec => []SetsWithinPlan
<1>1. RerollsSpec => []IInv
  BY Start, StepKeeps, PTL DEF RerollsSpec
<1> QED
  BY <1>1, ClaimsSuffice, PTL

-----------------------------------------------------------------------------
(* Autopilot.                                                              *)

-----------------------------------------------------------------------------
(* Shapes.                                                                 *)

\* A call chooses or dismisses a suggestion that exists.
PicksShape ==
  /\ sets \subseteq Calls
  /\ PicksTypeOK
  /\ \A p \in Picks : pick[p].pc \in PickRunning => pick[p].suggestion \in sets
  /\ \A d \in Drops : drop[d].pc \in DropRunning => drop[d].suggestion \in sets

\* Every step of the autopilot and of the user is a step of generate, or leaves
\* the claims alone.
LEMMA StepsOfGenerate ==
  ASSUME [Next]_vars
  PROVE  [RerollsNext]_rerollVars \/ UNCHANGED <<gen, index, claimed>>
<1>1. CASE Suggest
  BY <1>1 DEF Suggest, RerollsNext
<1>2. CASE Choose
  BY <1>2 DEF Choose, PickRead, PickStep, GiftStep, DropStep, DropRead, PickClear, PickSet, PickFind, PickSave,
              PickSaveFails, GiftScore, GiftDelete, GiftOrder, GiftUnorder, DropMark, DropClear, DropDelete,
              Invalidate, rerollVars
<1>3. CASE RuleCreate \/ RuleToggle \/ RuleDelete
  BY <1>3 DEF RuleCreate, RuleToggle, RuleDelete, rerollVars
<1>4. ASSUME NEW d \in Days, CronStep(d) PROVE [RerollsNext]_rerollVars \/ UNCHANGED <<gen, index, claimed>>
  <2>1. CASE CronGenerate(d)
    BY <2>1, AutopilotAssumption DEF AutopilotAssumption, CronGenerate, RerollsNext
  <2> QED
    BY <1>4, <2>1 DEF CronStep, CronStart, CronLook, CronCap, CronCheck, CronSelect, CronReady, CronNotify,
                      CronFail, PickRead, rerollVars
<1>5. CASE Restart
  BY <1>5 DEF Restart, RerollsNext
<1> QED
  BY <1>1, <1>2, <1>3, <1>4, <1>5 DEF Next, vars, rerollVars

LEMMA ClaimsKeep == ASSUME IInv, [Next]_vars PROVE IInv'
<1>1. CASE UNCHANGED <<gen, index, claimed>>
  BY <1>1 DEF IInv, Shape, Below, Held, Apart
<1> QED
  BY <1>1, StepKeeps, StepsOfGenerate


PickPcs == {"start", "ok", "failed", "dead"} \cup PickRunning

LEMMA PickGoesOn ==
  ASSUME NEW f \in [Picks -> Pick], NEW p \in Picks, NEW pc \in PickPcs,
         NEW g, g = [f EXCEPT ![p].pc = pc]
  PROVE  /\ g \in [Picks -> Pick] /\ \A q \in Picks \ {p} : g[q] = f[q]
         /\ g[p].pc = pc /\ g[p].suggestion = f[p].suggestion /\ g[p].found = f[p].found
BY DEF Pick, PickPcs

LEMMA PickChooses ==
  ASSUME pick \in [Picks -> Pick], NEW p \in Picks, NEW pc \in PickPcs, NEW s \in Calls \cup {NoCall},
         pick' = [pick EXCEPT ![p].pc = pc, ![p].suggestion = s]
  PROVE  /\ pick' \in [Picks -> Pick] /\ \A q \in Picks \ {p} : pick'[q] = pick[q]
         /\ pick'[p].pc = pc /\ pick'[p].suggestion = s
<1>1. pick' \in [Picks -> Pick]
  BY DEF Pick, PickPcs
<1> QED
  BY <1>1 DEF Pick

LEMMA PickFinds ==
  ASSUME pick \in [Picks -> Pick], NEW p \in Picks, NEW pc \in PickPcs, NEW r \in Picks \cup {NoPick},
         pick' = [pick EXCEPT ![p].pc = pc, ![p].found = r]
  PROVE  /\ pick' \in [Picks -> Pick] /\ \A q \in Picks \ {p} : pick'[q] = pick[q]
         /\ pick'[p].pc = pc /\ pick'[p].suggestion = pick[p].suggestion /\ pick'[p].found = r
<1>1. pick' \in [Picks -> Pick]
  BY DEF Pick, PickPcs
<1> QED
  BY <1>1 DEF Pick

LEMMA DropGoesOn ==
  ASSUME NEW f \in [Drops -> Drop], NEW d \in Drops, NEW pc \in {"start", "done", "dead"} \cup DropRunning,
         NEW g, g = [f EXCEPT ![d].pc = pc]
  PROVE  /\ g \in [Drops -> Drop] /\ \A e \in Drops \ {d} : g[e] = f[e]
         /\ g[d].pc = pc /\ g[d].suggestion = f[d].suggestion /\ g[d].was = f[d].was
BY DEF Drop

LEMMA RecordGoesOn ==
  ASSUME record \in [Picks -> Gift], NEW p \in Picks,
         \/ record' = [record EXCEPT ![p].scored = TRUE]
         \/ record' = [record EXCEPT ![p].source = "ordered"]
         \/ record' = [record EXCEPT ![p].source = "suggestion"]
         \/ record' = [record EXCEPT ![p] = NoGift]
  PROVE  record' \in [Picks -> Gift]
<1>1. CASE record' = [record EXCEPT ![p].scored = TRUE]
  BY <1>1 DEF Gift
<1>2. CASE record' = [record EXCEPT ![p].source = "ordered"]
  BY <1>2 DEF Gift
<1>3. CASE record' = [record EXCEPT ![p].source = "suggestion"]
  BY <1>3 DEF Gift
<1>4. CASE record' = [record EXCEPT ![p] = NoGift]
  <2>1. NoGift \in Gift
    BY DEF Gift, NoGift
  <2> QED
    BY <1>4, <2>1
<1> QED
  BY <1>1, <1>2, <1>3, <1>4

LEMMA RecordTakes ==
  ASSUME NEW f \in [Picks -> Gift], NEW p \in Picks, NEW s \in Calls \cup {NoCall},
         NEW g, g = [f EXCEPT ![p].suggestion = s]
  PROVE  /\ g \in [Picks -> Gift] /\ \A q \in Picks \ {p} : g[q] = f[q]
         /\ g[p].suggestion = s /\ g[p].source = f[p].source /\ g[p].scored = f[p].scored
BY DEF Gift

\* A pick, and what happens to gift records.
LEMMA PickShape ==
  ASSUME PicksShape, NEW p \in Picks,
         PickStep(p) \/ GiftStep(p) \/ \E s \in sets : PickRead(p, s)
  PROVE  PicksShape'
<1>0. /\ sets' = sets /\ selected \subseteq sets /\ dismissed \subseteq sets /\ sets \subseteq Calls
      /\ pick \in [Picks -> Pick] /\ drop \in [Drops -> Drop] /\ record \in [Picks -> Gift] /\ mixed \in BOOLEAN
      /\ pick[p].pc \in PickRunning => pick[p].suggestion \in sets
  BY DEF PicksShape, PicksTypeOK, PickStep, GiftStep, PickClear, PickSet, PickFind, PickSave,
         PickSaveFails, GiftScore, GiftDelete, GiftOrder, GiftUnorder, PickRead, Invalidate, rerollVars
<1>00. /\ {"clear", "set", "find", "save"} = PickRunning
       /\ PickRunning \cup {"ok", "failed"} \subseteq PickPcs /\ "save" \in PickPcs
       /\ "ok" \notin PickRunning /\ "failed" \notin PickRunning
  BY DEF PickPcs, PickRunning
<1> DEFINE Moved == /\ pick' \in [Picks -> Pick] /\ record' \in [Picks -> Gift]
                    /\ selected' \subseteq sets /\ mixed' \in BOOLEAN /\ UNCHANGED <<dismissed, drop>>
                    /\ \A q \in Picks \ {p} : pick'[q] = pick[q]
                    /\ pick'[p].pc \in PickRunning => pick'[p].suggestion \in sets
<1>1. Moved => PicksShape'
  BY <1>0 DEF PicksShape, PicksTypeOK
<1>2. ASSUME NEW s \in sets, PickRead(p, s) PROVE Moved
  <2> DEFINE pc == IF s \in dismissed THEN "failed" ELSE "clear"
  <2>1. pc \in PickPcs /\ s \in Calls \cup {NoCall}
    BY <1>0, <1>00
  <2>2. pick' = [pick EXCEPT ![p].pc = pc, ![p].suggestion = s] /\ UNCHANGED <<selected, dismissed, record, drop>> /\ mixed' \in BOOLEAN
    BY <1>0, <1>2 DEF PickRead
  <2> HIDE DEF pc
  <2>3. /\ pick' \in [Picks -> Pick] /\ \A q \in Picks \ {p} : pick'[q] = pick[q]
        /\ pick'[p].suggestion = s
    BY <1>0, <2>1, <2>2, PickChooses
  <2> QED
    BY <1>0, <2>2, <2>3
<1>3. ASSUME NEW pc \in PickPcs, PickGoes(p, pc), pick[p].pc \in PickRunning,
             record' \in [Picks -> Gift], selected' \subseteq sets, mixed' \in BOOLEAN, UNCHANGED <<dismissed, drop>>
      PROVE  Moved
  <2>1. /\ pick' \in [Picks -> Pick] /\ \A q \in Picks \ {p} : pick'[q] = pick[q]
        /\ pick'[p].suggestion = pick[p].suggestion
    BY <1>0, <1>3, PickGoesOn DEF PickGoes
  <2> QED
    BY <1>0, <1>3, <2>1
<1>4. CASE PickClear(p) \/ PickSet(p)
  BY <1>0, <1>00, <1>1, <1>3, <1>4 DEF PickClear, PickSet
<1>5. CASE PickFind(p)
  <2>1. PICK r \in Picks \cup {NoPick} : pick' = [pick EXCEPT ![p].pc = "save", ![p].found = r]
    BY <1>5 DEF PickFind, OpenGifts, Gifts
  <2>2. /\ pick' \in [Picks -> Pick] /\ \A q \in Picks \ {p} : pick'[q] = pick[q]
        /\ pick'[p].suggestion = pick[p].suggestion
    BY <1>0, <1>00, <2>1, PickFinds
  <2> QED
    BY <1>0, <1>00, <1>1, <1>5, <2>2 DEF PickFind
<1>6. CASE PickSave(p)
  <2> DEFINE r == IF pick[p].found = NoPick THEN p ELSE pick[p].found
  <2>1. /\ PickGoes(p, "ok") /\ record' = [record EXCEPT ![r].suggestion = pick[p].suggestion]
        /\ UNCHANGED <<selected, dismissed, drop, mixed>> /\ pick[p].pc = "save"
    BY <1>6 DEF PickSave
  <2>2. pick[p].found \in Picks \cup {NoPick}
    BY <1>0 DEF Pick
  <2>3. r \in Picks
    BY <2>2
  <2> HIDE DEF r
  <2>4. record' \in [Picks -> Gift]
    BY <1>0, <1>00, <2>1, <2>3, RecordTakes
  <2> QED
    BY <1>0, <1>00, <1>1, <1>3, <2>1, <2>4
<1>7. CASE PickSaveFails(p)
  BY <1>0, <1>00, <1>1, <1>3, <1>7 DEF PickSaveFails
<1>8. CASE GiftStep(p)
  <2>1. \/ record' = [record EXCEPT ![p].scored = TRUE]
        \/ record' = [record EXCEPT ![p].source = "ordered"]
        \/ record' = [record EXCEPT ![p].source = "suggestion"]
        \/ record' = [record EXCEPT ![p] = NoGift]
    BY <1>8 DEF GiftStep, GiftScore, GiftDelete, GiftOrder, GiftUnorder
  <2>2. UNCHANGED <<selected, dismissed, pick, drop>> /\ mixed' \in BOOLEAN
    BY <1>0, <1>8 DEF GiftStep, GiftScore, GiftDelete, GiftOrder, GiftUnorder
  <2>3. record' \in [Picks -> Gift]
    <3>1. record \in [Picks -> Gift]
      BY <1>0
    <3> QED
      BY <2>1, <3>1, RecordGoesOn
  <2> QED
    BY <1>0, <1>1, <2>2, <2>3
<1> QED
  BY <1>1, <1>2, <1>4, <1>5, <1>6, <1>7, <1>8 DEF PickStep

LEMMA DropShape ==
  ASSUME PicksShape, NEW d \in Drops, DropStep(d) \/ \E s \in sets : DropRead(d, s)
  PROVE  PicksShape'
<1>0. /\ sets' = sets /\ selected \subseteq sets /\ dismissed \subseteq sets /\ sets \subseteq Calls
      /\ pick \in [Picks -> Pick] /\ drop \in [Drops -> Drop] /\ record \in [Picks -> Gift] /\ mixed \in BOOLEAN
      /\ drop[d].pc \in DropRunning => drop[d].suggestion \in sets
      /\ UNCHANGED pick
  BY DEF PicksShape, PicksTypeOK, DropStep, DropMark, DropClear, DropDelete, DropRead, rerollVars
<1> DEFINE Moved == /\ drop' \in [Drops -> Drop] /\ record' \in [Picks -> Gift]
                    /\ selected' \subseteq sets /\ dismissed' \subseteq sets /\ mixed' \in BOOLEAN
                    /\ \A e \in Drops \ {d} : drop'[e] = drop[e]
                    /\ drop'[d].pc \in DropRunning => drop'[d].suggestion \in sets
<1>1. Moved => PicksShape'
  BY <1>0 DEF PicksShape, PicksTypeOK
<1>2. ASSUME NEW s \in sets, DropRead(d, s) PROVE Moved
  <2>1. [pc |-> "mark", suggestion |-> s, was |-> s \in selected] \in Drop
    BY <1>0 DEF Drop, DropRunning
  <2> QED
    BY <1>0, <1>2, <2>1 DEF DropRead
<1>3. CASE DropMark(d) \/ DropClear(d)
  <2>1. drop[d].pc \in DropRunning
    BY <1>3 DEF DropMark, DropClear, DropRunning
  <2>2. PICK pc \in {"start", "done", "dead"} \cup DropRunning : drop' = [drop EXCEPT ![d].pc = pc]
    BY <1>3 DEF DropMark, DropClear, DropGoes, DropRunning
  <2>3. drop' \in [Drops -> Drop] /\ (\A e \in Drops \ {d} : drop'[e] = drop[e]) /\ drop'[d].suggestion = drop[d].suggestion
    BY <1>0, <2>2, DropGoesOn
  <2> QED
    BY <1>0, <1>1, <1>3, <2>1, <2>3 DEF DropMark, DropClear
<1>4. CASE DropDelete(d)
  <2>1. record' \in [Picks -> Gift]
    BY <1>0, <1>4 DEF DropDelete, Gift, NoGift
  <2>2. /\ drop' \in [Drops -> Drop] /\ (\A e \in Drops \ {d} : drop'[e] = drop[e]) /\ drop'[d].pc = "done"
    <3>1. drop' = [drop EXCEPT ![d].pc = "done"] /\ "done" \in {"start", "done", "dead"} \cup DropRunning
      BY <1>4 DEF DropDelete, DropGoes
    <3> QED
      BY <1>0, <3>1, DropGoesOn
  <2> QED
    BY <1>0, <1>1, <1>4, <2>1, <2>2 DEF DropDelete, DropRunning
<1> QED
  BY <1>1, <1>2, <1>3, <1>4 DEF DropStep

\* The calls that die keep their suggestion.
LEMMA DeathShape == ASSUME PicksShape, PicksDie, UNCHANGED sets PROVE PicksShape'
<1>1. ASSUME NEW x \in Pick PROVE [x EXCEPT !.pc = "dead"] \in Pick
  BY DEF Pick
<1>2. ASSUME NEW x \in Drop PROVE [x EXCEPT !.pc = "dead"] \in Drop
  BY DEF Drop
<1>3. pick' \in [Picks -> Pick] /\ drop' \in [Drops -> Drop]
  BY <1>1, <1>2 DEF PicksDie, PicksShape, PicksTypeOK
<1>4. ASSUME NEW p \in Picks PROVE pick'[p].pc \notin PickRunning
  <2>1. pick[p] \in Pick
    BY DEF PicksShape, PicksTypeOK
  <2>2. [pick[p] EXCEPT !.pc = "dead"].pc \notin PickRunning
    BY <2>1 DEF Pick, PickRunning
  <2> QED
    BY <2>2 DEF PicksDie
<1>5. ASSUME NEW d \in Drops PROVE drop'[d].pc \notin DropRunning
  <2>1. drop[d] \in Drop
    BY DEF PicksShape, PicksTypeOK
  <2>2. [drop[d] EXCEPT !.pc = "dead"].pc \notin DropRunning
    BY <2>1 DEF Drop, DropRunning
  <2> QED
    BY <2>2 DEF PicksDie
<1> QED
  BY <1>3, <1>4, <1>5 DEF PicksShape, PicksTypeOK, PicksDie

LEMMA ShapeStart == Init => PicksShape
<1> SUFFICES ASSUME Init PROVE PicksShape
  OBVIOUS
<1>1. NoGift \in Gift
  BY DEF Gift, NoGift
<1>2. [pc |-> "start", suggestion |-> NoCall, found |-> NoPick] \in Pick
  BY DEF Pick
<1>3. [pc |-> "start", suggestion |-> NoCall, was |-> FALSE] \in Drop
  BY DEF Drop
<1> QED
  BY <1>1, <1>2, <1>3 DEF Init, RerollsInit, PicksInit, PicksShape, PicksTypeOK, PickRunning, DropRunning

LEMMA ShapeKeeps == ASSUME PicksShape, [Next]_vars PROVE PicksShape'
<1>1. CASE Suggest
  <2>1. sets \subseteq sets' /\ sets' \subseteq Calls /\ UNCHANGED pickVars
    BY <1>1 DEF Suggest, GenCount, GenStep, GenHit, GenMiss, GenClaim, GenStore, GenFinish, GenFail, GenRelease,
                GenReleaseFails, CacheExpire, PicksShape
  <2> QED
    BY <2>1 DEF pickVars, PicksShape, PicksTypeOK
<1>2. CASE Choose
  BY <1>2, PickShape, DropShape DEF Choose
<1>3. CASE UNCHANGED <<pickVars, sets>>
  BY <1>3 DEF pickVars, PicksShape, PicksTypeOK
<1>4. ASSUME NEW d \in Days, CronStep(d) PROVE PicksShape'
  <2>1. CASE CronSelect(d)
    <3>1. answer[d] \in sets /\ d \in Picks
      BY <2>1, AutopilotAssumption DEF AutopilotAssumption, CronSelect, PickRead
    <3> QED
      BY <2>1, <3>1, PickShape DEF CronSelect
  <2> QED
    BY <1>3, <1>4, <2>1 DEF CronStep, CronStart, CronLook, CronCap, CronGenerate, GenCount, CronCheck, CronReady,
                            CronNotify, CronFail, rerollVars
<1>5. CASE Restart
  BY <1>5, DeathShape DEF Restart, GenRestart
<1>6. CASE RuleCreate \/ RuleToggle \/ RuleDelete \/ UNCHANGED vars
  BY <1>3, <1>6 DEF RuleCreate, RuleToggle, RuleDelete, rerollVars, vars
<1> QED
  BY <1>1, <1>2, <1>4, <1>5, <1>6 DEF Next

-----------------------------------------------------------------------------
(* The autopilot.                                                          *)

\* The stages of a day before its pick, and those while no run is written yet.
BeforePick == {"start", "look", "cap", "generate", "check", "select"}
PastLook == {"cap", "generate", "check", "select", "ready", "notify", "fail"}

CronShape ==
  /\ rule \in {"none", "active", "paused"}
  /\ cron \in [Days -> {"start", "done", "dead"} \cup CronRunning]
  /\ deleted \in BOOLEAN

\* Cron days do not overlap, and a day picks at the end of its work.
DayByDay ==
  /\ \A d, e \in Days : cron[d] \in CronRunning /\ cron[e] \in CronRunning => d = e
  /\ \A d \in Days : cron[d] \in BeforePick => pick[d].pc = "start"

Undisturbed == ~deleted /\ \A d \in Days : cron[d] # "dead"

\* Without a restart or a new rule, a day that has picked has left a run when
\* it ends, or is still the one that runs; no other day comes that far.
PicksLeaveRuns ==
  Undisturbed =>
    /\ \A d \in Days : cron[d] # "start" => rule # "none"
    /\ \A d \in Days : cron[d] \in {"cap", "generate", "check", "select"} => runs = {}
    /\ \A d \in Days : cron[d] \in {"notify", "done"} /\ pick[d].pc # "start" => runs # {}
    /\ \A d, e \in Days : cron[d] \in PastLook /\ d # e => pick[e].pc = "start"
    /\ \A d, e \in Days : pick[d].pc # "start" /\ pick[e].pc # "start" => d = e

CronInv == CronShape /\ DayByDay /\ PicksLeaveRuns

\* Only the cron starts a day's own pick.
LEMMA PickedStays ==
  ASSUME PicksShape, Suggest \/ Choose \/ Restart \/ RuleCreate \/ RuleToggle \/ RuleDelete \/ UNCHANGED vars
  PROVE  \A d \in Days : pick'[d].pc = "start" <=> pick[d].pc = "start"
<1> SUFFICES ASSUME NEW d \in Days PROVE pick'[d].pc = "start" <=> pick[d].pc = "start"
  OBVIOUS
<1>0. /\ d \in Picks /\ pick \in [Picks -> Pick]
      /\ {"set", "find", "save", "ok", "failed"} \subseteq PickPcs
  BY AutopilotAssumption DEF AutopilotAssumption, PicksShape, PicksTypeOK, PickPcs, PickRunning
<1>1. CASE pick' = pick
  BY <1>1
<1>2. ASSUME NEW p \in Picks, PickStep(p) PROVE pick'[d].pc = "start" <=> pick[d].pc = "start"
  <2>1. CASE PickFind(p)
    <3>1. PICK r \in Picks \cup {NoPick} : pick' = [pick EXCEPT ![p].pc = "save", ![p].found = r]
      BY <2>1 DEF PickFind, OpenGifts, Gifts
    <3>2. (\A q \in Picks \ {p} : pick'[q] = pick[q]) /\ pick'[p].pc = "save"
      BY <1>0, <3>1, PickFinds
    <3> QED
      BY <1>0, <2>1, <3>2 DEF PickFind
  <2>2. CASE ~PickFind(p)
    <3>1. pick[p].pc # "start" /\ \E pc \in {"set", "find", "ok", "failed"} : PickGoes(p, pc)
      BY <1>2, <2>2 DEF PickStep, PickClear, PickSet, PickSave, PickSaveFails
    <3>2. PICK pc \in {"set", "find", "ok", "failed"} : pick' = [pick EXCEPT ![p].pc = pc]
      BY <3>1 DEF PickGoes
    <3>3. (\A q \in Picks \ {p} : pick'[q] = pick[q]) /\ pick'[p].pc = pc
      BY <1>0, <3>2, PickGoesOn
    <3> QED
      BY <1>0, <3>1, <3>3
  <2> QED
    BY <2>1, <2>2
<1>3. ASSUME NEW p \in Picks \ Days, NEW s \in sets, PickRead(p, s) PROVE pick'[d].pc = "start" <=> pick[d].pc = "start"
  <2>1. pick'[d] = pick[d]
    BY <1>0, <1>3 DEF PickRead
  <2> QED
    BY <2>1
<1>4. CASE Choose
  BY <1>1, <1>2, <1>3, <1>4 DEF Choose, GiftStep, GiftScore, GiftDelete, GiftOrder, GiftUnorder, DropStep, DropMark,
                                DropClear, DropDelete, DropRead
<1>5. CASE Restart
  <2>1. pick[d] \in Pick
    BY <1>0
  <2>2. [pick[d] EXCEPT !.pc = "dead"].pc = "dead" /\ "start" \notin PickRunning
    BY <2>1 DEF Pick, PickRunning
  <2>3. pick'[d] = IF pick[d].pc \in PickRunning THEN [pick[d] EXCEPT !.pc = "dead"] ELSE pick[d]
    BY <1>0, <1>5 DEF Restart, PicksDie
  <2> QED
    BY <2>2, <2>3
<1>6. CASE Suggest \/ RuleCreate \/ RuleToggle \/ RuleDelete \/ UNCHANGED vars
  BY <1>1, <1>6 DEF Suggest, RuleCreate, RuleToggle, RuleDelete, vars, pickVars
<1> QED
  BY <1>4, <1>5, <1>6

LEMMA CronStarts == Init => CronInv
<1> SUFFICES ASSUME Init PROVE CronInv
  OBVIOUS
<1>1. \A d \in Days : cron[d] = "start" /\ pick[d].pc = "start"
  BY AutopilotAssumption DEF AutopilotAssumption, Init, PicksInit
<1>2. CronShape /\ "start" \notin CronRunning /\ "start" \notin PastLook
  BY DEF Init, CronShape, CronRunning, PastLook
<1> QED
  BY <1>1, <1>2 DEF CronInv, DayByDay, PicksLeaveRuns

\* A step that is none of the cron's leaves the days where they are.
LEMMA CronRests ==
  ASSUME CronInv, UNCHANGED cron, \A d \in Days : pick'[d].pc = "start" <=> pick[d].pc = "start",
         \/ UNCHANGED <<rule, runs, deleted>>
         \/ RuleCreate \/ RuleToggle \/ RuleDelete
  PROVE  CronInv'
<1>1. CronShape' /\ DayByDay'
  BY DEF CronInv, CronShape, DayByDay, RuleCreate, RuleToggle, RuleDelete
<1>2. CASE RuleDelete
  BY <1>1, <1>2 DEF RuleDelete, CronInv, PicksLeaveRuns, Undisturbed
<1>3. CASE ~RuleDelete
  <2>1. UNCHANGED <<runs, deleted>> /\ (rule # "none" => rule' # "none")
    BY <1>3 DEF RuleCreate, RuleToggle, CronInv, CronShape
  <2>2. PicksLeaveRuns'
    BY <2>1 DEF CronInv, PicksLeaveRuns, Undisturbed
  <2> QED
    BY <1>1, <2>2 DEF CronInv
<1> QED
  BY <1>2, <1>3

\* Where a step of a day leads, and what it asks of the runs.
CronAdvances(d, pc) ==
  \/ cron[d] = "start" /\ pc = "look" /\ rule = "active" /\ (\A e \in Days : cron[e] \notin CronRunning) /\ runs' = runs
  \/ cron[d] = "look" /\ pc = "done" /\ runs # {} /\ runs' = runs
  \/ cron[d] = "look" /\ pc = "cap" /\ runs = {} /\ runs' = runs
  \/ <<cron[d], pc>> \in {<<"cap", "generate">>, <<"generate", "check">>, <<"check", "select">>, <<"select", "ready">>,
                          <<"ready", "fail">>, <<"notify", "fail">>, <<"notify", "done">>} /\ runs' = runs
  \/ cron[d] \in {"cap", "check", "fail"} /\ pc = "done" /\ (rule # "none" => runs' # {})
  \/ cron[d] = "ready" /\ pc = "notify" /\ rule # "none" /\ runs' # {}

LEMMA CronMoves ==
  ASSUME CronInv, NEW d \in Days, CronStep(d)
  PROVE  \E pc \in {"done"} \cup CronRunning :
           cron' = [cron EXCEPT ![d] = pc] /\ UNCHANGED <<rule, deleted>> /\ CronAdvances(d, pc)
<1> USE DEF CronAdvances
<1>0. {"look", "cap", "generate", "check", "select", "ready", "notify", "fail"} = CronRunning
  BY DEF CronRunning
<1>1. CASE CronStart(d)
  BY <1>0, <1>1 DEF CronStart, CronGoes
<1>2. CASE CronLook(d)
  BY <1>0, <1>2 DEF CronLook, CronGoes
<1>3. CASE CronCap(d)
  BY <1>0, <1>3 DEF CronCap, CronGoes, OverCap, WriteRun
<1>4. CASE CronGenerate(d)
  BY <1>0, <1>4 DEF CronGenerate, CronGoes
<1>5. CASE CronCheck(d)
  BY <1>0, <1>5 DEF CronCheck, CronGoes, WriteRun
<1>6. CASE CronSelect(d)
  BY <1>0, <1>6 DEF CronSelect, CronGoes
<1>7. CASE CronReady(d)
  BY <1>0, <1>7 DEF CronReady, CronGoes, WriteRun
<1>8. CASE CronNotify(d)
  BY <1>0, <1>8 DEF CronNotify, CronGoes
<1>9. CASE CronFail(d)
  BY <1>0, <1>9 DEF CronFail, CronGoes, WriteRun
<1> QED
  BY <1>1, <1>2, <1>3, <1>4, <1>5, <1>6, <1>7, <1>8, <1>9 DEF CronStep

LEMMA CronKeeps ==
  ASSUME CronInv, NEW d \in Days, CronStep(d),
         cron[d] # "select" => \A e \in Days : pick'[e].pc = "start" <=> pick[e].pc = "start",
         \A e \in Days \ {d} : pick'[e] = pick[e]
  PROVE  CronInv'
<1>1. PICK pc \in {"done"} \cup CronRunning :
        cron' = [cron EXCEPT ![d] = pc] /\ UNCHANGED <<rule, deleted>> /\ CronAdvances(d, pc)
  BY CronMoves
<1>2. /\ cron'[d] = pc /\ \A e \in Days \ {d} : cron'[e] = cron[e]
      /\ cron[d] \in {"start"} \cup CronRunning
      /\ "start" \notin CronRunning /\ "done" \notin CronRunning /\ pc # "start"
      /\ PastLook \subseteq CronRunning
  BY <1>1 DEF CronInv, CronShape, CronAdvances, CronRunning, PastLook
<1>3. CronShape'
  BY <1>1 DEF CronInv, CronShape
<1>4. \A e \in Days \ {d} : cron[e] \notin CronRunning
  BY <1>1, <1>2 DEF CronInv, DayByDay, CronAdvances
<1>5. DayByDay'
  <2>1. ASSUME NEW e \in Days, cron'[e] \in BeforePick PROVE pick'[e].pc = "start"
    <3>1. CASE e # d
      BY <1>2, <2>1, <3>1 DEF CronInv, DayByDay
    <3>2. CASE e = d
      BY <1>1, <1>2, <2>1, <3>2 DEF CronInv, DayByDay, BeforePick, CronAdvances
    <3> QED
      BY <3>1, <3>2
  <2> QED
    BY <1>2, <1>4, <2>1 DEF DayByDay
<1>6. ASSUME Undisturbed' PROVE PicksLeaveRuns'
  <2>1. Undisturbed
    BY <1>1, <1>2, <1>6 DEF Undisturbed, CronRunning
  <2>2. /\ \A e \in Days : cron[e] # "start" => rule # "none"
        /\ \A e \in Days : cron[e] \in {"cap", "generate", "check", "select"} => runs = {}
        /\ \A e \in Days : cron[e] \in {"notify", "done"} /\ pick[e].pc # "start" => runs # {}
        /\ \A e, f \in Days : cron[e] \in PastLook /\ e # f => pick[f].pc = "start"
        /\ \A e, f \in Days : pick[e].pc # "start" /\ pick[f].pc # "start" => e = f
    BY <2>1 DEF CronInv, PicksLeaveRuns
  <2>3. \A e \in Days \ {d} : cron[e] \in {"start", "done"}
    BY <1>4, <2>1 DEF Undisturbed, CronInv, CronShape
  <2>4. \A e \in Days : cron'[e] # "start" => rule' # "none"
    BY <1>1, <1>2, <2>2 DEF CronAdvances
  <2>5. pc \in {"cap", "generate", "check", "select"} => runs' = {}
    BY <1>1, <2>2 DEF CronAdvances
  <2>6. pick'[d].pc # "start" /\ pc = "done" => runs' # {}
    BY <1>1, <1>2, <2>2 DEF CronAdvances, CronInv, DayByDay, BeforePick
  <2>7. pc = "notify" => runs' # {}
    BY <1>1 DEF CronAdvances
  <2>8. \A e \in Days \ {d} : cron[e] = "done" /\ pick[e].pc # "start" => runs' # {}
    BY <1>1, <1>2, <2>2, <2>3 DEF CronAdvances, PastLook
  <2>9. ASSUME pc \in PastLook, NEW e \in Days, e # d PROVE pick[e].pc = "start"
    <3>1. CASE cron[d] = "look"
      BY <1>1, <2>2, <2>3, <2>9, <3>1 DEF CronAdvances, PastLook, CronInv, DayByDay, BeforePick
    <3>2. CASE cron[d] # "look"
      BY <1>1, <2>2, <2>9, <3>2 DEF CronAdvances, PastLook
    <3> QED
      BY <3>1, <3>2
  <2>10. \A e \in Days : pick'[d].pc # "start" /\ pick[e].pc # "start" => d = e
    <3>1. CASE cron[d] = "select"
      BY <2>2, <3>1 DEF PastLook
    <3>2. CASE cron[d] # "select"
      BY <2>2, <3>2
    <3> QED
      BY <3>1, <3>2
  <2>11. \A e \in Days \ {d} : cron'[e] \notin PastLook
    BY <1>2, <1>4
  <2> QED
    BY <1>2, <2>2, <2>3, <2>4, <2>5, <2>6, <2>7, <2>8, <2>9, <2>10, <2>11 DEF PicksLeaveRuns
<1>7. PicksLeaveRuns'
  BY <1>6 DEF PicksLeaveRuns
<1> QED
  BY <1>3, <1>5, <1>7 DEF CronInv

LEMMA CronDies == ASSUME CronInv, PicksShape, Restart PROVE CronInv'
<1>1. \A d \in Days : pick'[d].pc = "start" <=> pick[d].pc = "start"
  BY PickedStays
<1>2. cron' = [d \in Days |-> IF cron[d] \in CronRunning THEN "dead" ELSE cron[d]]
      /\ UNCHANGED <<rule, runs, deleted>> /\ "dead" \notin CronRunning /\ "dead" \notin BeforePick /\ "dead" \notin PastLook
  BY DEF Restart, CronRunning, BeforePick, PastLook
<1>3. CronShape' /\ DayByDay'
  BY <1>1, <1>2 DEF CronInv, CronShape, DayByDay
<1>4. ASSUME Undisturbed' PROVE PicksLeaveRuns'
  <2>1. \A d \in Days : cron'[d] = cron[d]
    BY <1>2, <1>4 DEF Undisturbed
  <2> QED
    BY <1>1, <1>2, <1>4, <2>1 DEF PicksLeaveRuns, Undisturbed, CronInv
<1>5. PicksLeaveRuns'
  BY <1>4 DEF PicksLeaveRuns
<1> QED
  BY <1>3, <1>5 DEF CronInv

LEMMA CronInvKeeps == ASSUME CronInv, PicksShape, [Next]_vars PROVE CronInv'
<1>1. ASSUME NEW d \in Days, CronStep(d) PROVE CronInv'
  <2>1. CASE CronSelect(d)
    <3>1. \A e \in Days \ {d} : pick'[e] = pick[e]
      BY <2>1, AutopilotAssumption DEF AutopilotAssumption, CronSelect, PickRead, PicksShape, PicksTypeOK
    <3> QED
      BY <1>1, <2>1, <3>1, CronKeeps DEF CronSelect
  <2>2. CASE ~CronSelect(d)
    <3>1. pick' = pick
      BY <1>1, <2>2 DEF CronStep, CronStart, CronLook, CronCap, CronGenerate, CronCheck, CronReady, CronNotify, CronFail,
                        pickVars
    <3> QED
      BY <1>1, <3>1, CronKeeps
  <2> QED
    BY <2>1, <2>2
<1>2. CASE Restart
  BY <1>2, CronDies
<1>3. CASE Suggest \/ Choose \/ RuleCreate \/ RuleToggle \/ RuleDelete \/ UNCHANGED vars
  <2>1. \A d \in Days : pick'[d].pc = "start" <=> pick[d].pc = "start"
    BY <1>3, PickedStays
  <2>2. UNCHANGED cron
    BY <1>3 DEF Suggest, Choose, RuleCreate, RuleToggle, RuleDelete, vars, autopilotVars
  <2>3. UNCHANGED <<rule, runs, deleted>> \/ RuleCreate \/ RuleToggle \/ RuleDelete
    BY <1>3 DEF Suggest, Choose, vars, autopilotVars
  <2> QED
    BY <2>1, <2>2, <2>3, CronRests
<1> QED
  BY <1>1, <1>2, <1>3 DEF Next

\* The autopilot replaces the user's pick at most once, for any number of days,
\* calls and faults (autopilot.scheduler.ts:107-110, 240-283).
THEOREM TheAutopilotPicksOnce == Spec => []AutopilotPicksOnce
<1>1. Spec => [](PicksShape /\ CronInv)
  BY ShapeStart, ShapeKeeps, CronStarts, CronInvKeeps, PTL DEF Spec
<1>2. ASSUME CronInv PROVE AutopilotPicksOnce
  <2> SUFFICES ASSUME Undisturbed PROVE Cardinality({d \in Days : pick[d].pc # "start"}) <= 1
    BY DEF AutopilotPicksOnce, Undisturbed
  <2> DEFINE P == {d \in Days : pick[d].pc # "start"}
  <2>1. \A d, e \in P : d = e
    BY <1>2 DEF CronInv, PicksLeaveRuns
  <2>2. CASE P = {}
    BY <2>2, FS_EmptySet
  <2>3. CASE P # {}
    <3>1. PICK d \in P : P = {d}
      BY <2>1, <2>3
    <3> QED
      BY <3>1, FS_Singleton
  <2> QED
    BY <2>2, <2>3
<1> QED
  BY <1>1, <1>2, PTL

\* The autopilot's calls count too: a user never gets more sets than the plan
\* allows while the cron, the user's picks and the restarts interleave with
\* generate (suggestions.service.ts:81-128, autopilot.scheduler.ts:177-283).
THEOREM TheAutopilotKeepsThePlan == Spec => []SetsWithinPlan
<1>1. Init => IInv
  BY Start DEF Init
<1>2. ASSUME IInv PROVE SetsWithinPlan
  BY <1>2, ClaimsSuffice
<1> QED
  BY <1>1, <1>2, ClaimsKeep, PTL DEF Spec

-----------------------------------------------------------------------------
(* Picks.                                                                  *)

-----------------------------------------------------------------------------
(* Picks and gifts.                                                        *)

\* The selected suggestion is the gift's, and there is a gift or none is left to give.
Settled ==
  /\ \A s, t \in selected : s = t
  /\ selected \cap dismissed = {}
  /\ \A s \in selected : Gifts # {} /\ \A p \in Gifts : record[p].suggestion = s
  /\ selected = {} => \A p \in Gifts : record[p].scored

PickRuns(p) == pick[p].pc \in PickRunning
DropRuns(d) == drop[d].pc \in DropRunning

OneActor ==
  /\ \A p, q \in Picks : PickRuns(p) /\ PickRuns(q) => p = q
  /\ \A d, e \in Drops : DropRuns(d) /\ DropRuns(e) => d = e
  /\ \A p \in Picks, d \in Drops : ~(PickRuns(p) /\ DropRuns(d))

OneGift ==
  /\ \A p \in Picks : record[p].source = "suggestion"
  /\ \A p, q \in Gifts : p = q

\* What a pick, and a dismissal, has done so far.
PickAt(p) ==
  PickRuns(p) =>
    /\ pick[p].suggestion \notin dismissed
    /\ pick[p].pc = "set" => selected = {}
    /\ pick[p].pc \in {"find", "save"} => selected = {pick[p].suggestion}
    /\ pick[p].pc = "save" => IF pick[p].found = NoPick THEN Gifts = {} ELSE pick[p].found \in Gifts

DropAt(d) ==
  DropRuns(d) =>
    /\ drop[d].pc = "mark" => Settled /\ (drop[d].was <=> drop[d].suggestion \in selected)
    /\ drop[d].pc = "clear" => selected = {drop[d].suggestion}
    /\ drop[d].pc = "delete" => selected = {}
    /\ drop[d].pc \in {"clear", "delete"} => \A p \in Gifts : record[p].suggestion = drop[d].suggestion

InStep ==
  /\ OneActor
  /\ OneGift
  /\ ~Busy => Settled
  /\ \A p \in Picks : PickAt(p)
  /\ \A d \in Drops : DropAt(d)

AgreeInv == ~mixed => InStep

LEMMA AgreeStart == Init => AgreeInv
<1> SUFFICES ASSUME Init PROVE AgreeInv
  OBVIOUS
<1>1. /\ \A p \in Picks : ~PickRuns(p) /\ record[p] = NoGift
      /\ \A d \in Drops : ~DropRuns(d)
  BY DEF Init, PicksInit, PickRuns, DropRuns, PickRunning, DropRunning
<1>2. Gifts = {} /\ selected = {}
  BY <1>1 DEF Init, PicksInit, Gifts, NoGift
<1>3. OneGift
  BY <1>1, <1>2 DEF OneGift, NoGift
<1> QED
  BY <1>1, <1>2, <1>3 DEF AgreeInv, InStep, OneActor, Settled, PickAt, DropAt

LEMMA AgreeRests == ASSUME AgreeInv, UNCHANGED pickVars PROVE AgreeInv'
BY DEF pickVars, AgreeInv, InStep, OneActor, OneGift, Settled, PickAt, DropAt, PickRuns, DropRuns, Busy, Gifts

LEMMA SettledIsAgreed == ASSUME PicksShape, AgreeInv PROVE PickAndGiftAgree
<1> SUFFICES ASSUME ~mixed, ~Busy
             PROVE  /\ Cardinality(selected) <= 1
                    /\ selected \cap dismissed = {}
                    /\ \A s \in selected : {record[p].suggestion : p \in OpenGifts} = {s}
                    /\ selected = {} => \A p \in Gifts : record[p].scored
  BY DEF PickAndGiftAgree
<1>1. Settled /\ OneGift
  BY DEF AgreeInv, InStep
<1>2. OpenGifts = Gifts
  BY <1>1 DEF OneGift, OpenGifts, Gifts
<1>3. Cardinality(selected) <= 1
  <2>1. CASE selected = {}
    BY <2>1, FS_EmptySet
  <2>2. CASE selected # {}
    <3>1. PICK s \in selected : selected = {s}
      BY <1>1, <2>2 DEF Settled
    <3> QED
      BY <3>1, FS_Singleton
  <2> QED
    BY <2>1, <2>2
<1> QED
  BY <1>1, <1>2, <1>3 DEF Settled

-----------------------------------------------------------------------------

\* The one that runs is alone.
LEMMA PickAlone ==
  ASSUME InStep, NEW p \in Picks, PickRuns(p)
  PROVE  (\A q \in Picks \ {p} : ~PickRuns(q)) /\ \A d \in Drops : ~DropRuns(d)
BY DEF InStep, OneActor

LEMMA DropAlone ==
  ASSUME InStep, NEW d \in Drops, DropRuns(d)
  PROVE  (\A e \in Drops \ {d} : ~DropRuns(e)) /\ \A p \in Picks : ~PickRuns(p)
BY DEF InStep, OneActor

\* When nobody else runs, what holds for the one that moves is enough.
LEMMA PickLeads ==
  ASSUME NEW p \in Picks, \A q \in Picks \ {p} : ~PickRuns(q) /\ pick'[q] = pick[q],
         \A d \in Drops : ~DropRuns(d), drop' = drop,
         OneGift', PickAt(p)', PickRuns(p)' \/ Settled'
  PROVE  InStep'
<1>1. \A q \in Picks \ {p} : ~PickRuns(q)'
  BY DEF PickRuns
<1>2. \A d \in Drops : ~DropRuns(d)'
  BY DEF DropRuns
<1>3. OneActor' /\ (\A q \in Picks : PickAt(q)') /\ (\A d \in Drops : DropAt(d)')
  BY <1>1, <1>2 DEF OneActor, PickAt, DropAt
<1>4. (~Busy => Settled)'
  BY DEF Busy, PickRuns
<1> QED
  BY <1>3, <1>4 DEF InStep

LEMMA DropLeads ==
  ASSUME NEW d \in Drops, \A e \in Drops \ {d} : ~DropRuns(e) /\ drop'[e] = drop[e],
         \A p \in Picks : ~PickRuns(p), pick' = pick,
         OneGift', DropAt(d)', DropRuns(d)' \/ Settled'
  PROVE  InStep'
<1>1. \A e \in Drops \ {d} : ~DropRuns(e)'
  BY DEF DropRuns
<1>2. \A p \in Picks : ~PickRuns(p)'
  BY DEF PickRuns
<1>3. OneActor' /\ (\A q \in Picks : PickAt(q)') /\ (\A e \in Drops : DropAt(e)')
  BY <1>1, <1>2 DEF OneActor, PickAt, DropAt
<1>4. (~Busy => Settled)'
  BY DEF Busy, DropRuns
<1> QED
  BY <1>3, <1>4 DEF InStep

LEMMA ReadInStep ==
  ASSUME PicksShape, AgreeInv, NEW p \in Picks, NEW s \in sets, PickRead(p, s), ~mixed'
  PROVE  InStep'
<1>1. ~mixed /\ ~Busy /\ InStep /\ Settled /\ OneGift /\ UNCHANGED <<selected, dismissed, record, drop>>
  BY DEF PickRead, AgreeInv, InStep
<1> DEFINE pc == IF s \in dismissed THEN "failed" ELSE "clear"
<1>2. /\ pick' \in [Picks -> Pick] /\ \A q \in Picks \ {p} : pick'[q] = pick[q]
      /\ pick'[p].pc = pc /\ pick'[p].suggestion = s
  <2>1. pc \in PickPcs /\ s \in Calls \cup {NoCall} /\ pick \in [Picks -> Pick]
    BY DEF PicksShape, PicksTypeOK, PickPcs, PickRunning
  <2>2. pick' = [pick EXCEPT ![p].pc = pc, ![p].suggestion = s]
    BY DEF PickRead
  <2> HIDE DEF pc
  <2> QED
    BY <2>1, <2>2, PickChooses
<1>3. OneGift' /\ Settled'
  BY <1>1 DEF OneGift, Settled, Gifts
<1>4. PickAt(p)'
  BY <1>1, <1>2 DEF PickAt, PickRuns, PickRunning
<1>5. (\A q \in Picks : ~PickRuns(q)) /\ \A d \in Drops : ~DropRuns(d)
  BY <1>1 DEF Busy, PickRuns, DropRuns
<1> QED
  BY <1>1, <1>2, <1>3, <1>4, <1>5, PickLeads

LEMMA MarkedAs ==
  ASSUME NEW x, NEW s, NEW S, x = [pc |-> "mark", suggestion |-> s, was |-> s \in S]
  PROVE  x.was <=> s \in S
OBVIOUS

LEMMA DropReadInStep ==
  ASSUME PicksShape, AgreeInv, NEW d \in Drops, NEW s \in sets, DropRead(d, s), ~mixed'
  PROVE  InStep'
<1>1. ~mixed /\ ~Busy /\ InStep /\ Settled /\ OneGift /\ UNCHANGED <<selected, dismissed, record, pick>>
  BY DEF DropRead, AgreeInv, InStep
<1>2. /\ \A e \in Drops \ {d} : drop'[e] = drop[e]
      /\ drop'[d] = [pc |-> "mark", suggestion |-> s, was |-> s \in selected]
  BY DEF DropRead, PicksShape, PicksTypeOK
<1>3. OneGift' /\ Settled'
  BY <1>1 DEF OneGift, Settled, Gifts
<1>4. DropAt(d)'
  <2>1. drop'[d].pc = "mark" /\ drop'[d].suggestion = s
    BY <1>2
  <2>2. drop'[d].was <=> s \in selected
    <3>1. drop'[d] = [pc |-> "mark", suggestion |-> s, was |-> s \in selected]
      BY <1>2
    <3> QED
      BY <3>1, MarkedAs, Zenon
  <2> QED
    BY <1>1, <1>3, <2>1, <2>2 DEF DropAt
<1>5. (\A q \in Picks : ~PickRuns(q)) /\ \A e \in Drops : ~DropRuns(e)
  BY <1>1 DEF Busy, PickRuns, DropRuns
<1> QED
  BY <1>1, <1>2, <1>3, <1>4, <1>5, DropLeads

LEMMA PickInStep ==
  ASSUME PicksShape, InStep, NEW p \in Picks, PickStep(p), ~mixed'
  PROVE  InStep'
<1>1. PickRuns(p) /\ UNCHANGED <<dismissed, drop>> /\ OneGift
  BY DEF PickStep, PickClear, PickSet, PickFind, PickSave, PickSaveFails, PickRuns, PickRunning, InStep
<1>2. (\A q \in Picks \ {p} : ~PickRuns(q)) /\ (\A d \in Drops : ~DropRuns(d)) /\ PickAt(p)
  BY <1>1, PickAlone DEF InStep
<1>3. pick \in [Picks -> Pick] /\ {"set", "find", "save", "ok"} \subseteq PickPcs
  BY DEF PicksShape, PicksTypeOK, PickPcs, PickRunning
<1>4. ASSUME NEW pc \in PickPcs, PickGoes(p, pc)
      PROVE  /\ \A q \in Picks \ {p} : pick'[q] = pick[q]
             /\ pick'[p].pc = pc /\ pick'[p].suggestion = pick[p].suggestion /\ pick'[p].found = pick[p].found
  BY <1>3, <1>4, PickGoesOn DEF PickGoes
<1>5. CASE PickClear(p)
  <2>1. OneGift'
    BY <1>1, <1>5 DEF PickClear, OneGift, Gifts
  <2>2. PickAt(p)' /\ PickRuns(p)'
    BY <1>1, <1>2, <1>3, <1>4, <1>5 DEF PickClear, PickAt, PickRuns, PickRunning
  <2> QED
    BY <1>1, <1>2, <1>3, <1>4, <1>5, <2>1, <2>2, PickLeads DEF PickClear
<1>6. CASE PickSet(p)
  <2>1. OneGift'
    BY <1>1, <1>6 DEF PickSet, OneGift, Gifts
  <2>2. PickAt(p)' /\ PickRuns(p)'
    BY <1>1, <1>2, <1>3, <1>4, <1>6 DEF PickSet, PickAt, PickRuns, PickRunning
  <2> QED
    BY <1>1, <1>2, <1>3, <1>4, <1>6, <2>1, <2>2, PickLeads DEF PickSet
<1>7. CASE PickFind(p)
  <2>1. PICK r \in Picks \cup {NoPick} :
          /\ r \in IF OpenGifts = {} THEN {NoPick} ELSE OpenGifts
          /\ pick' = [pick EXCEPT ![p].pc = "save", ![p].found = r]
    BY <1>7 DEF PickFind, OpenGifts, Gifts
  <2>2. UNCHANGED <<selected, record>>
    BY <1>7 DEF PickFind
  <2>3. /\ \A q \in Picks \ {p} : pick'[q] = pick[q]
        /\ pick'[p].pc = "save" /\ pick'[p].suggestion = pick[p].suggestion /\ pick'[p].found = r
    <3>1. "save" \in PickPcs /\ pick \in [Picks -> Pick]
      BY <1>3
    <3>2. pick' = [pick EXCEPT ![p].pc = "save", ![p].found = r]
      BY <2>1
    <3> QED
      BY <3>1, <3>2 DEF Pick
  <2>4. IF r = NoPick THEN Gifts = {} ELSE r \in Gifts
    <3>1. OpenGifts = Gifts /\ NoPick \notin Gifts
      BY <1>1, PicksAssumption DEF PicksAssumption, OneGift, OpenGifts, Gifts
    <3> QED
      BY <2>1, <3>1
  <2>5. OneGift' /\ Gifts' = Gifts
    BY <1>1, <2>2 DEF OneGift, Gifts
  <2>6. PickAt(p)' /\ PickRuns(p)'
    BY <1>1, <1>2, <1>7, <2>2, <2>3, <2>4, <2>5 DEF PickFind, PickAt, PickRuns, PickRunning
  <2> QED
    BY <1>1, <1>2, <2>3, <2>5, <2>6, PickLeads
<1>8. CASE PickSave(p)
  <2> DEFINE r == IF pick[p].found = NoPick THEN p ELSE pick[p].found
             s == pick[p].suggestion
  <2>1. /\ PickGoes(p, "ok") /\ record' = [record EXCEPT ![r].suggestion = s]
        /\ UNCHANGED <<selected, dismissed, drop, mixed>> /\ pick[p].pc = "save"
    BY <1>8 DEF PickSave
  <2>2. /\ r \in Picks /\ s \in sets /\ s \in Calls \cup {NoCall} /\ s # NoCall /\ record \in [Picks -> Gift]
    BY <1>1, <1>2, <2>1, RerollsAssumption
       DEF RerollsAssumption, PickAt, PickRuns, Gifts, PicksShape, PicksTypeOK
  <2>3. selected = {s} /\ s \notin dismissed /\ \A q \in Gifts : q = r
    BY <1>1, <1>2, <2>1 DEF PickAt, OneGift
  <2> HIDE DEF r, s
  <2>4. /\ \A q \in Picks \ {r} : record'[q] = record[q]
        /\ record'[r].suggestion = s /\ record'[r].source = record[r].source
    BY <2>1, <2>2, RecordTakes
  <2>5. Gifts' = {r}
    BY <2>2, <2>3, <2>4 DEF Gifts
  <2>6. OneGift' /\ Settled'
    BY <1>1, <2>1, <2>2, <2>3, <2>4, <2>5 DEF OneGift, Settled
  <2>7. /\ \A q \in Picks \ {p} : pick'[q] = pick[q]
        /\ pick'[p].pc = "ok"
    BY <1>3, <1>4, <2>1
  <2>8. PickAt(p)'
    BY <2>7 DEF PickAt, PickRuns, PickRunning
  <2> QED
    BY <1>1, <1>2, <2>6, <2>7, <2>8, PickLeads
<1>9. CASE PickSaveFails(p)
  BY <1>9 DEF PickSaveFails
<1> QED
  BY <1>5, <1>6, <1>7, <1>8, <1>9 DEF PickStep

LEMMA DropInStep ==
  ASSUME PicksShape, InStep, NEW d \in Drops, DropStep(d)
  PROVE  InStep'
<1>1. DropRuns(d) /\ UNCHANGED pick /\ OneGift
  BY DEF DropStep, DropMark, DropClear, DropDelete, DropRuns, DropRunning, InStep
<1>2. (\A p \in Picks : ~PickRuns(p)) /\ (\A e \in Drops \ {d} : ~DropRuns(e)) /\ DropAt(d)
  BY <1>1, DropAlone DEF InStep
<1>3. ASSUME NEW pc \in {"start", "done", "dead"} \cup DropRunning, DropGoes(d, pc)
      PROVE  /\ \A e \in Drops \ {d} : drop'[e] = drop[e]
             /\ drop'[d].pc = pc /\ drop'[d].suggestion = drop[d].suggestion
  BY <1>3, DropGoesOn DEF DropGoes, PicksShape, PicksTypeOK
<1>4. {"clear", "delete", "done"} \subseteq {"start", "done", "dead"} \cup DropRunning
  BY DEF DropRunning
<1>5. CASE DropMark(d)
  <2>1. Settled /\ (drop[d].was <=> drop[d].suggestion \in selected) /\ UNCHANGED <<selected, record>>
    BY <1>1, <1>2, <1>5 DEF DropMark, DropAt
  <2>2. OneGift' /\ Gifts' = Gifts
    BY <1>1, <2>1 DEF OneGift, Gifts
  <2>3. CASE drop[d].was
    <3>1. /\ \A e \in Drops \ {d} : drop'[e] = drop[e]
          /\ drop'[d].pc = "clear" /\ drop'[d].suggestion = drop[d].suggestion
      BY <1>3, <1>4, <1>5, <2>3 DEF DropMark
    <3>2. DropAt(d)' /\ DropRuns(d)'
      BY <2>1, <2>2, <2>3, <3>1 DEF DropAt, DropRuns, DropRunning, Settled
    <3> QED
      BY <1>1, <1>2, <2>2, <3>1, <3>2, DropLeads
  <2>4. CASE ~drop[d].was
    <3>1. /\ \A e \in Drops \ {d} : drop'[e] = drop[e]
          /\ drop'[d].pc = "done" /\ drop'[d].suggestion = drop[d].suggestion
      BY <1>3, <1>4, <1>5, <2>4 DEF DropMark
    <3>2. DropAt(d)'
      BY <3>1 DEF DropAt, DropRuns, DropRunning
    <3>3. dismissed' = dismissed \cup {drop[d].suggestion}
      BY <1>5 DEF DropMark
    <3>4. Settled'
      BY <2>1, <2>2, <2>4, <3>3 DEF Settled
    <3> QED
      BY <1>1, <1>2, <2>2, <3>1, <3>2, <3>4, DropLeads
  <2> QED
    BY <2>3, <2>4
<1>6. CASE DropClear(d)
  <2>1. /\ \A e \in Drops \ {d} : drop'[e] = drop[e]
        /\ drop'[d].pc = "delete" /\ drop'[d].suggestion = drop[d].suggestion
    BY <1>3, <1>4, <1>6 DEF DropClear
  <2>2. selected' = {} /\ \A p \in Gifts : record[p].suggestion = drop[d].suggestion
    BY <1>1, <1>2, <1>6 DEF DropClear, DropAt
  <2>3. OneGift' /\ Gifts' = Gifts /\ record' = record
    BY <1>1, <1>6 DEF DropClear, OneGift, Gifts
  <2>4. DropAt(d)' /\ DropRuns(d)'
    BY <2>1, <2>2, <2>3 DEF DropAt, DropRuns, DropRunning
  <2> QED
    BY <1>1, <1>2, <2>1, <2>3, <2>4, DropLeads
<1>7. CASE DropDelete(d)
  <2>1. /\ \A e \in Drops \ {d} : drop'[e] = drop[e]
        /\ drop'[d].pc = "done"
    BY <1>3, <1>4, <1>7 DEF DropDelete
  <2>2. selected' = {} /\ \A p \in Gifts : record[p].suggestion = drop[d].suggestion
    BY <1>1, <1>2, <1>7 DEF DropDelete, DropAt
  <2>3. \A p \in Picks : record'[p] = IF record[p].suggestion = drop[d].suggestion /\ ~record[p].scored
                                       THEN NoGift ELSE record[p]
    BY <1>7 DEF DropDelete
  <2>4. Gifts' \subseteq Gifts /\ \A p \in Gifts' : record'[p].scored /\ record'[p] = record[p]
    BY <2>2, <2>3 DEF Gifts, NoGift
  <2>5. OneGift'
    BY <1>1, <2>3, <2>4 DEF OneGift, NoGift
  <2>6. Settled'
    BY <2>2, <2>4 DEF Settled
  <2>7. DropAt(d)'
    BY <2>1 DEF DropAt, DropRuns, DropRunning
  <2> QED
    BY <1>1, <1>2, <2>1, <2>5, <2>6, <2>7, DropLeads
<1> QED
  BY <1>5, <1>6, <1>7 DEF DropStep

\* A gift that is rated is still the same gift.
LEMMA GiftInStep ==
  ASSUME PicksShape, InStep, NEW p \in Picks, GiftStep(p), ~mixed'
  PROVE  InStep'
<1>1. CASE GiftScore(p)
  <2>1. /\ UNCHANGED <<selected, dismissed, pick, drop>>
        /\ record' = [record EXCEPT ![p].scored = TRUE] /\ record \in [Picks -> Gift]
    BY <1>1 DEF GiftScore, PicksShape, PicksTypeOK
  <2>2. \A q \in Picks : /\ record'[q].suggestion = record[q].suggestion /\ record'[q].source = record[q].source
                         /\ record[q].scored => record'[q].scored
    BY <2>1 DEF Gift
  <2>3. Gifts' = Gifts
    BY <2>2 DEF Gifts
  <2>4. OneActor' /\ OneGift' /\ Busy' = Busy
    BY <2>1, <2>2, <2>3 DEF InStep, OneActor, OneGift, PickRuns, DropRuns, Busy
  <2>5. Settled => Settled'
    BY <2>1, <2>2, <2>3 DEF Settled, Gifts
  <2>6. \A q \in Picks : PickAt(q)'
    BY <2>1, <2>3 DEF InStep, PickAt, PickRuns
  <2>7. \A d \in Drops : DropAt(d)'
    BY <2>1, <2>2, <2>3, <2>5 DEF InStep, DropAt, DropRuns, Gifts
  <2> QED
    BY <2>4, <2>5, <2>6, <2>7 DEF InStep
<1>2. CASE GiftUnorder(p)
  BY <1>2 DEF GiftUnorder, InStep, OneGift, OpenGifts, Gifts
<1> QED
  BY <1>1, <1>2 DEF GiftStep, GiftDelete, GiftOrder

LEMMA AgreeKeeps == ASSUME PicksShape, AgreeInv, [Next]_vars PROVE AgreeInv'
<1> SUFFICES ASSUME ~mixed' PROVE InStep'
  BY DEF AgreeInv
<1>1. CASE UNCHANGED pickVars
  BY <1>1, AgreeRests DEF AgreeInv
<1>2. CASE Choose
  <2>1. ASSUME NEW p \in Picks, PickStep(p) \/ GiftStep(p) PROVE InStep'
    <3>1. CASE mixed
      BY <2>1, <3>1 DEF PickStep, PickClear, PickSet, PickFind, PickSave, PickSaveFails, GiftStep, GiftScore,
                        GiftDelete, GiftOrder, GiftUnorder
    <3>2. CASE ~mixed
      BY <2>1, <3>2, PickInStep, GiftInStep DEF AgreeInv
    <3> QED
      BY <3>1, <3>2
  <2>2. ASSUME NEW d \in Drops, DropStep(d) PROVE InStep'
    <3>1. ~mixed
      BY <2>2 DEF DropStep, DropMark, DropClear, DropDelete
    <3> QED
      BY <2>2, <3>1, DropInStep DEF AgreeInv
  <2> QED
    BY <1>2, <2>1, <2>2, ReadInStep, DropReadInStep DEF Choose
<1>3. ASSUME NEW d \in Days, CronStep(d) PROVE InStep'
  <2>1. CASE CronSelect(d)
    <3>1. answer[d] \in sets /\ d \in Picks
      BY <2>1, AutopilotAssumption DEF AutopilotAssumption, CronSelect, PickRead
    <3> QED
      BY <2>1, <3>1, ReadInStep DEF CronSelect
  <2> QED
    BY <1>1, <1>3, <2>1 DEF CronStep, CronStart, CronLook, CronCap, CronGenerate, CronCheck, CronReady, CronNotify,
                            CronFail
<1>4. CASE Restart
  <2>1. ~mixed /\ ~Busy
    BY <1>4 DEF Restart, PicksDie
  <2>2. pick' = pick /\ drop' = drop /\ UNCHANGED <<selected, dismissed, record>>
    BY <1>4, <2>1 DEF Restart, PicksDie, Busy, PicksShape, PicksTypeOK
  <2>3. mixed' = mixed
    BY <1>4 DEF Restart, PicksDie, PicksShape, PicksTypeOK
  <2> QED
    BY <1>1, <2>2, <2>3 DEF pickVars
<1>5. CASE Suggest \/ RuleCreate \/ RuleToggle \/ RuleDelete \/ UNCHANGED vars
  BY <1>1, <1>5 DEF Suggest, RuleCreate, RuleToggle, RuleDelete, vars
<1> QED
  BY <1>2, <1>3, <1>4, <1>5 DEF Next

\* While picks and dismissals run one after another, the event has at most one
\* selected suggestion, and it is the one of the event's gift, for any number of
\* them and with the autopilot among them (suggestions.service.ts:538-632).
THEOREM PicksAndGiftsAgree == Spec => []PickAndGiftAgree
<1>1. Spec => [](PicksShape /\ AgreeInv)
  BY ShapeStart, ShapeKeeps, AgreeStart, AgreeKeeps, PTL DEF Spec
<1> QED
  BY <1>1, SettledIsAgreed, PTL

-----------------------------------------------------------------------------
(* GiftPage.                                                               *)

-----------------------------------------------------------------------------
(* The gift page shows what the API has.                                   *)

PageAnswer == [cards : SUBSET Cards, picked : SUBSET Cards, pictured : BOOLEAN, more : BOOLEAN, sparse : BOOLEAN]
PageKinds == {"load", "generate", "select", "dismiss", "answers"}
PageCall == [kind : PageKinds, stage : {"list", "meta", "person"},
             card : Cards \cup {NoCard}, pc : {"new", "sent", "served", "refused"}, answer : PageAnswer]
PageView == [shown : SUBSET Cards, chosen : SUBSET Cards, pictures : BOOLEAN, more : BOOLEAN, loading : BOOLEAN,
             selecting : BOOLEAN, generated : BOOLEAN, guidance : BOOLEAN, error : BOOLEAN]
PageInterview == [step : Nat, filled : BOOLEAN, saving : BOOLEAN, show : BOOLEAN, checked : BOOLEAN]
PagePoll == [pc : {"off", "wait", "sent", "served"}, tries : Nat, answer : PageAnswer]

\* The cards of the sets that were made by now, and of those before the last.
Made == {c \in Cards : c[1] <= latest}
Past == {c \in Cards : c[1] < latest}

\* The calls of a kind.
Of(kind) == {n \in InFlight : calls[n].kind = kind}

PageShape ==
  /\ latest \in 0 .. MaxSets /\ sparse \in BOOLEAN
  /\ dropped \subseteq Made /\ picked \subseteq Made
  /\ view \in PageView /\ interview \in PageInterview /\ calls \in [Lines -> PageCall] /\ poll \in PagePoll
  /\ loads \in Nat /\ tainted \in BOOLEAN

\* What is shown and what is asked for was made, and the dismissed is dropped.
PageKnows ==
  /\ view.shown \subseteq Made /\ view.chosen \subseteq view.shown
  /\ ~view.generated => view.shown = {}
  /\ \A n \in Of("select") \cup Of("dismiss") : calls[n].card \in Made
  /\ \A n \in Of("dismiss") : calls[n].pc = "served" => calls[n].card \in dropped
  /\ \A n \in InFlight : /\ calls[n].pc = "refused" => n \in Of("generate") \cup Of("select")
                         /\ calls[n].stage = "person" => n \in Of("load")
                         /\ calls[n].stage = "meta" => n \in Of("load") \cup Of("generate") /\ calls[n].pc # "refused"

\* What turns, turns for a call under way.
SpinnersTurn ==
  /\ view.loading => Of("generate") # {}
  /\ view.selecting => Of("select") # {}

\* Calls that do not overlap without a taint.
CallsKeepApart ==
  /\ Of("load") # {} => Of("generate") = {} /\ Of("select") = {} /\ Of("dismiss") = {}
  /\ \A n \in Of("select"), m \in Of("select") : m = n
  /\ \A n \in Of("generate"), m \in Of("generate") : m = n
  /\ Of("generate") # {} => view.loading
  /\ \A n \in Of("answers"), m \in Of("answers") : m = n
  /\ Of("answers") # {} =>
       /\ interview.saving /\ interview.checked /\ interview.show
       /\ ~view.generated /\ ~view.loading

\* The set that was made and that the page has not heard of.
New == {n \in Of("generate") : calls[n].stage = "list" /\ calls[n].pc = "served"}

\* The answers on their way are not out of date.
AnswersAreFresh ==
  /\ \A n \in Of("load") : calls[n].stage = "list" /\ calls[n].pc = "served" =>
       calls[n].answer.cards = Served /\ calls[n].answer.picked = picked \cap Served
  /\ \A n \in New :
       /\ calls[n].answer.cards = Served /\ calls[n].answer.picked = {} /\ picked \cap Served = {}
       /\ \A m \in Of("select") \cup Of("dismiss") : calls[m].card \in Past
  /\ \A n \in InFlight : calls[n].stage = "meta" /\ calls[n].pc = "served" =>
       calls[n].answer.more = (latest < MaxSets)

\* Has the page heard the list, and whether there may be more, since it was opened?
Listed == interview.checked \/ \E n \in Of("load") : calls[n].stage # "list"
Told == interview.checked \/ \E n \in Of("load") : calls[n].stage = "person"

Dismissed == {calls[n].card : n \in {m \in Of("dismiss") : calls[m].pc = "served"}}
Chosen == {n \in Of("select") : calls[n].pc = "served"}

\* The page differs from the API by the answers that are on their way.
PageShows ==
  /\ loads > 0 => Listed \/ Of("load") # {}
  /\ New = {} => view.shown \subseteq Served \cup Dismissed
  /\ New = {} /\ Listed =>
       /\ Served \subseteq view.shown
       /\ Chosen = {} => \A c \in Served : c \in view.chosen <=> c \in picked
       /\ \A n \in Chosen : \A c \in Served : c \in picked <=> c = calls[n].card
  /\ New = {} /\ Told /\ (\A n \in Of("generate") : calls[n].stage = "list") =>
       view.more = (latest < MaxSets)

PageInv ==
  /\ PageShape /\ PageKnows /\ SpinnersTurn
  /\ ~tainted => CallsKeepApart /\ AnswersAreFresh /\ PageShows

\* One line is all that changes in the calls under way.
PageLine(n, q) ==
  /\ n \in Lines /\ q \in PageCall
  /\ calls' \in [Lines -> PageCall] /\ calls'[n] = q
  /\ \A m \in Lines \ {n} : calls'[m] = calls[m]
  /\ InFlight' = IF q.pc = "new" THEN InFlight \ {n} ELSE InFlight \cup {n}
  /\ \A kind \in PageKinds :
       Of(kind)' = IF q.pc # "new" /\ q.kind = kind THEN Of(kind) \cup {n} ELSE Of(kind) \ {n}

LEMMA OnePageLine ==
  ASSUME PageShape, NEW n \in Lines, NEW q \in PageCall, calls' = [calls EXCEPT ![n] = q]
  PROVE  PageLine(n, q)
<1>1. calls \in [Lines -> PageCall]
  BY DEF PageShape
<1>2. /\ calls' \in [Lines -> PageCall] /\ calls'[n] = q
      /\ \A m \in Lines \ {n} : calls'[m] = calls[m]
  BY <1>1
<1>3. InFlight' = IF q.pc = "new" THEN InFlight \ {n} ELSE InFlight \cup {n}
  BY <1>2 DEF InFlight
<1>4. ASSUME NEW kind \in PageKinds
      PROVE  Of(kind)' = IF q.pc # "new" /\ q.kind = kind THEN Of(kind) \cup {n} ELSE Of(kind) \ {n}
  BY <1>2, <1>3 DEF Of, InFlight
<1> QED
  BY <1>2, <1>3, <1>4 DEF PageLine

LEMMA NewCallIsACall == NewCall \in PageCall /\ NewCall.pc = "new" /\ NewCall.stage = "list" /\ NoAnswer \in PageAnswer
  BY DEF NewCall, NoAnswer, PageCall, PageAnswer, PageKinds

LEMMA AnswerIsAnAnswer ==
  PageShape => /\ Answer \in PageAnswer /\ Answer.cards = Served /\ Answer.picked = picked \cap Served
               /\ Answer.more = (latest < MaxSets)
<1> SUFFICES ASSUME PageShape
             PROVE  /\ Answer \in PageAnswer /\ Answer.cards = Served /\ Answer.picked = picked \cap Served
                    /\ Answer.more = (latest < MaxSets)
  OBVIOUS
<1>1. sparse \in BOOLEAN /\ (latest \in pictured) \in BOOLEAN /\ (latest < MaxSets) \in BOOLEAN
  BY DEF PageShape
<1>2. Served \in SUBSET Cards /\ picked \cap Served \in SUBSET Cards
  BY DEF Served
<1> QED
  BY <1>1, <1>2 DEF Answer, PageAnswer

LEMMA FreePageLine == InFlight # Lines => Free \in Lines /\ Free \notin InFlight
<1> SUFFICES ASSUME InFlight # Lines PROVE Free \in Lines /\ Free \notin InFlight
  OBVIOUS
<1>1. \E n \in Lines : n \notin InFlight
  BY DEF InFlight
<1> QED
  BY <1>1 DEF Free

\* What a call that starts is like.
Starts(n, q, kind, card) ==
  /\ n \in Lines \ InFlight /\ PageLine(n, q)
  /\ q.kind = kind /\ q.stage = "list" /\ q.card = card /\ q.pc = "sent"
  /\ tainted' = (tainted \/ Clashes(kind))

LEMMA SendStarts ==
  ASSUME PageShape, NEW kind \in PageKinds, NEW card \in Cards \cup {NoCard}, Send(kind, card)
  PROVE  \E n, q : Starts(n, q, kind, card)
<1>1. PICK n : n = Free
  OBVIOUS
<1>2. n \in Lines \ InFlight
  BY <1>1, FreePageLine DEF Send
<1>3. PICK q : q = [NewCall EXCEPT !.kind = kind, !.card = card, !.pc = "sent"]
  OBVIOUS
<1>4. q \in PageCall /\ q.kind = kind /\ q.stage = "list" /\ q.card = card /\ q.pc = "sent"
  BY <1>3, NewCallIsACall DEF PageCall
<1>5. calls' = [calls EXCEPT ![n] = q] /\ tainted' = (tainted \/ Clashes(kind))
  BY <1>1, <1>3 DEF Send
<1>6. PageLine(n, q)
  BY <1>2, <1>4, <1>5, OnePageLine
<1> QED
  BY <1>2, <1>4, <1>5, <1>6 DEF Starts

\* The view, but for what is shown, chosen and turning.
SameView == view'.shown = view.shown /\ view'.chosen = view.chosen /\ view'.generated = view.generated /\ view'.more = view.more

-----------------------------------------------------------------------------
(* The page asks.                                                          *)

LEMMA PageAsks ==
  ASSUME PageInv, NEW kind \in PageKinds, NEW card, NEW n, NEW q, Starts(n, q, kind, card),
         UNCHANGED <<latest, dropped, picked, sparse, poll>>, view' \in PageView, SameView,
         interview' \in PageInterview, interview'.checked = interview.checked,
         loads' \in Nat, kind # "load" => loads' = loads,
         kind \in {"select", "dismiss"} => card \in view.shown /\ ~view.loading,
         IF kind = "generate" THEN ~view.loading /\ view'.loading /\ ~(Interviewing /\ interview.saving)
         ELSE view'.loading = view.loading,
         view'.selecting => view.selecting \/ kind = "select",
         kind \notin {"generate", "answers"} => interview' = interview,
         kind = "answers" => /\ Interviewing /\ ~interview.saving /\ interview'.saving
                             /\ interview'.show = interview.show
  PROVE  PageInv'
<1>1. /\ n \in Lines \ InFlight /\ calls' \in [Lines -> PageCall] /\ calls'[n] = q /\ InFlight \subseteq Lines
      /\ InFlight' = InFlight \cup {n}
      /\ \A m \in InFlight : calls'[m] = calls[m] /\ m # n
      /\ \A k \in PageKinds : Of(k)' = IF kind = k THEN Of(k) \cup {n} ELSE Of(k)
      /\ q.kind = kind /\ q.stage = "list" /\ q.card = card /\ q.pc = "sent"
      /\ tainted' = (tainted \/ Clashes(kind))
  BY DEF Starts, PageLine, InFlight, Of
<1>2. /\ {"load", "generate", "select", "dismiss", "answers"} \subseteq PageKinds
      /\ \A k \in PageKinds : Of(k) \subseteq InFlight
  BY DEF PageKinds, Of
<1>3. tainted \in BOOLEAN /\ tainted' \in BOOLEAN
  BY <1>1 DEF PageInv, PageShape, Clashes
<1>4. Made' = Made /\ Served' = Served /\ Past' = Past
  BY DEF Made, Served, Past
<1>5. PageShape'
  BY <1>1, <1>3, <1>4 DEF PageInv, PageShape
<1>6. PageKnows'
  <2>1. kind \in {"select", "dismiss"} => card \in Made
    BY DEF PageInv, PageKnows
  <2>2. /\ \A m \in Of("select")' \cup Of("dismiss")' : calls'[m].card \in Made
        /\ \A m \in Of("dismiss")' : calls'[m].pc = "served" => calls'[m].card \in dropped
    BY <1>1, <1>2, <2>1 DEF PageInv, PageKnows
  <2>3. \A m \in InFlight' :
          /\ calls'[m].pc = "refused" => m \in Of("generate")' \cup Of("select")'
          /\ calls'[m].stage = "person" => m \in Of("load")'
          /\ calls'[m].stage = "meta" => m \in Of("load")' \cup Of("generate")' /\ calls'[m].pc # "refused"
    BY <1>1, <1>2 DEF PageInv, PageKnows
  <2> QED
    BY <1>4, <2>2, <2>3 DEF PageInv, PageKnows, SameView
<1>7. SpinnersTurn'
  BY <1>1, <1>2 DEF PageInv, SpinnersTurn
<1>8. ASSUME ~tainted' PROVE CallsKeepApart'
  <2>1. CallsKeepApart /\ ~Clashes(kind)
    BY <1>1, <1>8 DEF PageInv
  <2>2. /\ kind = "load" => Of("generate") = {} /\ Of("select") = {} /\ Of("dismiss") = {}
        /\ kind \in {"generate", "select", "dismiss"} => Of("load") = {}
        /\ kind = "select" => Of("select") = {}
    BY <2>1 DEF Clashes, Of
  <2>3. Of("load")' # {} => Of("generate")' = {} /\ Of("select")' = {} /\ Of("dismiss")' = {}
    BY <1>1, <1>2, <2>1, <2>2 DEF CallsKeepApart
  <2>4. \A l \in Of("select")', m \in Of("select")' : m = l
    BY <1>1, <1>2, <2>1, <2>2 DEF CallsKeepApart
  <2>5. /\ \A l \in Of("generate")', m \in Of("generate")' : m = l
        /\ Of("generate")' # {} => view'.loading
    BY <1>1, <1>2, <2>1 DEF CallsKeepApart
  <2>6. kind \in {"generate", "answers"} => Of("answers") = {}
    BY <2>1 DEF CallsKeepApart, Interviewing
  <2>7. \A l \in Of("answers")', m \in Of("answers")' : m = l
    BY <1>1, <1>2, <2>1, <2>6 DEF CallsKeepApart
  <2>8. Of("answers")' # {} =>
          interview'.saving /\ interview'.checked /\ interview'.show /\ ~view'.generated /\ ~view'.loading
    <3>1. CASE kind = "answers"
      BY <3>1 DEF Interviewing, SameView
    <3>2. CASE kind = "generate"
      BY <1>1, <1>2, <2>6, <3>2
    <3>3. CASE kind \notin {"answers", "generate"}
      BY <1>1, <1>2, <2>1, <3>3 DEF CallsKeepApart, SameView
    <3> QED
      BY <3>1, <3>2, <3>3
  <2> QED
    BY <2>3, <2>4, <2>5, <2>7, <2>8 DEF CallsKeepApart
<1>9. /\ New' = New /\ (Listed' <=> Listed) /\ (Told' <=> Told) /\ Dismissed' = Dismissed /\ Chosen' = Chosen
  <2>1. \A m : m \in New' <=> m \in New
    BY <1>1, <1>2 DEF New
  <2>2. (Listed' <=> Listed) /\ (Told' <=> Told)
    BY <1>1, <1>2 DEF Listed, Told
  <2>3. \A m : m \in Chosen' <=> m \in Chosen
    BY <1>1, <1>2 DEF Chosen
  <2>4. {m \in Of("dismiss") : calls[m].pc = "served"}' = {m \in Of("dismiss") : calls[m].pc = "served"}
    BY <1>1, <1>2
  <2>5. Dismissed' = Dismissed
    BY <1>1, <1>2, <2>4 DEF Dismissed
  <2> QED
    BY <2>1, <2>2, <2>3, <2>5
<1>10. ASSUME ~tainted' PROVE AnswersAreFresh'
  <2>1. AnswersAreFresh /\ CallsKeepApart
    BY <1>1, <1>10 DEF PageInv
  <2>2. kind \in {"select", "dismiss"} => New = {}
    BY <2>1 DEF CallsKeepApart, New
  <2>3. \A m \in Of("load")' : calls'[m].stage = "list" /\ calls'[m].pc = "served" =>
          calls'[m].answer.cards = Served /\ calls'[m].answer.picked = picked \cap Served
    BY <1>1, <1>2, <2>1 DEF AnswersAreFresh
  <2>4. New \subseteq InFlight
    BY <1>2 DEF New
  <2>5. \A m \in New : /\ calls'[m].answer.cards = Served /\ calls'[m].answer.picked = {} /\ picked \cap Served = {}
                       /\ \A l \in Of("select")' \cup Of("dismiss")' : calls'[l].card \in Past
    BY <1>1, <1>2, <2>1, <2>2, <2>4 DEF AnswersAreFresh
  <2>6. \A m \in InFlight' : calls'[m].stage = "meta" /\ calls'[m].pc = "served" =>
          calls'[m].answer.more = (latest < MaxSets)
    BY <1>1, <2>1 DEF AnswersAreFresh
  <2> QED
    BY <1>4, <1>9, <2>3, <2>5, <2>6 DEF AnswersAreFresh
<1>11. ASSUME ~tainted' PROVE PageShows'
  <2>1. PageShows
    BY <1>1, <1>11 DEF PageInv
  <2>2. loads' > 0 => Listed' \/ Of("load")' # {}
    BY <1>1, <1>2, <1>9, <2>1 DEF PageShows
  <2>3. Chosen \subseteq InFlight /\ \A m \in Chosen : calls'[m].card = calls[m].card
    BY <1>1, <1>2 DEF Chosen
  <2>4. (\A m \in Of("generate")' : calls'[m].stage = "list") => \A m \in Of("generate") : calls[m].stage = "list"
    BY <1>1, <1>2
  <2> QED
    BY <1>4, <1>9, <2>1, <2>2, <2>3, <2>4 DEF PageShows, SameView
<1> QED
  BY <1>5, <1>6, <1>7, <1>8, <1>10, <1>11 DEF PageInv

\* Steps that leave the calls and what the property is about alone.
LEMMA PageRests ==
  ASSUME PageInv, UNCHANGED <<latest, dropped, picked, calls, loads, tainted>>, sparse' \in BOOLEAN,
         view' \in PageView, SameView, view'.loading = view.loading, view'.selecting = view.selecting,
         interview' \in PageInterview, interview'.saving = interview.saving, interview'.show = interview.show,
         interview'.checked = interview.checked, poll' \in PagePoll
  PROVE  PageInv'
<1>1. /\ Made' = Made /\ Served' = Served /\ Past' = Past /\ InFlight' = InFlight
      /\ \A k : Of(k)' = Of(k)
  BY DEF Made, Served, Past, InFlight, Of
<1>2. New' = New /\ (Listed' <=> Listed) /\ (Told' <=> Told) /\ Dismissed' = Dismissed /\ Chosen' = Chosen
  BY <1>1 DEF New, Listed, Told, Dismissed, Chosen
<1>3. PageShape' /\ PageKnows' /\ SpinnersTurn'
  BY <1>1 DEF PageInv, PageShape, PageKnows, SpinnersTurn, SameView
<1>4. CallsKeepApart => CallsKeepApart'
  BY <1>1 DEF CallsKeepApart, SameView
<1>5. AnswersAreFresh => AnswersAreFresh'
  BY <1>1, <1>2 DEF AnswersAreFresh
<1>6. PageShows => PageShows'
  BY <1>1, <1>2 DEF PageShows, SameView
<1> QED
  BY <1>3, <1>4, <1>5, <1>6 DEF PageInv

-----------------------------------------------------------------------------
(* The API serves.                                                         *)

\* What a call that is answered or refused is like.
Replies(n, q) ==
  /\ n \in InFlight /\ PageLine(n, q) /\ calls[n].pc = "sent"
  /\ q.kind = calls[n].kind /\ q.stage = calls[n].stage /\ q.card = calls[n].card
  /\ q.pc \in {"served", "refused"}
  /\ UNCHANGED <<view, interview, poll, loads, tainted>>

LEMMA RefusalReplies ==
  ASSUME PageShape, NEW n \in Lines, calls[n].pc = "sent", UNCHANGED <<view, interview, poll, loads, tainted>>,
         Refuse(n)
  PROVE  \E q : Replies(n, q) /\ q.pc = "refused"
<1>1. PICK q : q = [calls[n] EXCEPT !.pc = "refused"]
  OBVIOUS
<1>2. calls[n] \in PageCall
  BY DEF PageShape
<1>3. q \in PageCall /\ q.kind = calls[n].kind /\ q.stage = calls[n].stage /\ q.card = calls[n].card /\ q.pc = "refused"
  BY <1>1, <1>2 DEF PageCall
<1>4. PageLine(n, q)
  BY <1>1, <1>3, OnePageLine DEF Refuse
<1>5. n \in InFlight
  BY DEF InFlight
<1> QED
  BY <1>3, <1>4, <1>5 DEF Replies

LEMMA AnswerReplies ==
  ASSUME PageShape, NEW n \in Lines, calls[n].pc = "sent", UNCHANGED <<view, interview, poll, loads, tainted>>,
         sparse' \in BOOLEAN, Replied(n)
  PROVE  \E q : /\ Replies(n, q) /\ q.pc = "served"
                /\ q.answer.cards = Served' /\ q.answer.picked = (picked \cap Served)'
                /\ q.answer.more = (latest' < MaxSets)
<1>1. PICK a : a = Answer'
  OBVIOUS
<1>2. /\ a \in PageAnswer /\ a.cards = Served' /\ a.picked = (picked \cap Served)' /\ a.more = (latest' < MaxSets)
  <2>1. (latest \in pictured)' \in BOOLEAN /\ (latest < MaxSets)' \in BOOLEAN
    OBVIOUS
  <2>2. Served' \in SUBSET Cards /\ (picked \cap Served)' \in SUBSET Cards
    BY DEF Served
  <2> QED
    BY <1>1, <2>1, <2>2 DEF Answer, PageAnswer
<1>3. PICK q : q = [calls[n] EXCEPT !.pc = "served", !.answer = a]
  OBVIOUS
<1>4. calls[n] \in PageCall /\ calls \in [Lines -> PageCall]
  BY DEF PageShape
<1>5. /\ q \in PageCall /\ q.kind = calls[n].kind /\ q.stage = calls[n].stage /\ q.card = calls[n].card
      /\ q.pc = "served" /\ q.answer = a
  BY <1>2, <1>3, <1>4 DEF PageCall
<1>6. calls' = [calls EXCEPT ![n] = q]
  BY <1>1, <1>3, <1>4 DEF Replied
<1>7. PageLine(n, q)
  BY <1>5, <1>6, OnePageLine
<1>8. n \in InFlight
  BY DEF InFlight
<1> QED
  BY <1>2, <1>5, <1>7, <1>8 DEF Replies

\* The parts of the invariant that a reply leaves alone.
LEMMA RepliesKeep ==
  ASSUME PageInv, NEW n, NEW q, Replies(n, q)
  PROVE  /\ n \in Lines /\ q \in PageCall /\ calls' \in [Lines -> PageCall] /\ calls'[n] = q
         /\ InFlight' = InFlight /\ \A k \in PageKinds : Of(k)' = Of(k) /\ Of(k) \subseteq InFlight
         /\ \A m \in InFlight \ {n} : calls'[m] = calls[m]
         /\ \A m \in InFlight : /\ calls'[m].kind = calls[m].kind /\ calls'[m].stage = calls[m].stage
                                /\ calls'[m].card = calls[m].card
         /\ (Listed' <=> Listed) /\ (Told' <=> Told)
         /\ SpinnersTurn' /\ (CallsKeepApart => CallsKeepApart')
<1>1. /\ n \in Lines /\ q \in PageCall /\ calls' \in [Lines -> PageCall] /\ calls'[n] = q
      /\ InFlight' = InFlight /\ \A m \in InFlight \ {n} : calls'[m] = calls[m]
  BY DEF Replies, PageLine, InFlight
<1>2. \A m \in InFlight : /\ calls'[m].kind = calls[m].kind /\ calls'[m].stage = calls[m].stage
                          /\ calls'[m].card = calls[m].card
  BY <1>1 DEF Replies
<1>3. \A k \in PageKinds : Of(k)' = Of(k) /\ Of(k) \subseteq InFlight
  BY <1>1, <1>2 DEF Of
<1>4. {"load", "generate", "select", "dismiss", "answers"} \subseteq PageKinds
  BY DEF PageKinds
<1>5. (Listed' <=> Listed) /\ (Told' <=> Told)
  BY <1>2, <1>3, <1>4 DEF Listed, Told, Replies
<1>6. SpinnersTurn'
  BY <1>3, <1>4 DEF PageInv, SpinnersTurn, Replies
<1>7. CallsKeepApart => CallsKeepApart'
  BY <1>3, <1>4 DEF CallsKeepApart, Replies
<1> QED
  BY <1>1, <1>2, <1>3, <1>5, <1>6, <1>7

\* A refusal, or an answer to a call that changes nothing that is shown.
LEMMA PageReads ==
  ASSUME PageInv, NEW n, NEW q, Replies(n, q), UNCHANGED <<latest, dropped, picked>>, sparse' \in BOOLEAN,
         IF q.pc = "refused" THEN calls[n].kind = "select" \/ (calls[n].kind = "generate" /\ calls[n].stage = "list")
         ELSE /\ calls[n].kind \in {"load", "answers"} \/ calls[n].stage = "meta"
              /\ q.answer.cards = Served /\ q.answer.picked = picked \cap Served
              /\ q.answer.more = (latest < MaxSets)
  PROVE  PageInv'
<1>1. /\ n \in Lines /\ q \in PageCall /\ calls' \in [Lines -> PageCall] /\ calls'[n] = q
      /\ InFlight' = InFlight /\ \A k \in PageKinds : Of(k)' = Of(k) /\ Of(k) \subseteq InFlight
      /\ \A m \in InFlight \ {n} : calls'[m] = calls[m]
      /\ \A m \in InFlight : /\ calls'[m].kind = calls[m].kind /\ calls'[m].stage = calls[m].stage
                             /\ calls'[m].card = calls[m].card
      /\ (Listed' <=> Listed) /\ (Told' <=> Told)
      /\ SpinnersTurn' /\ (CallsKeepApart => CallsKeepApart')
  BY RepliesKeep
<1>2. {"load", "generate", "select", "dismiss", "answers"} \subseteq PageKinds
  BY DEF PageKinds
<1>3. /\ n \in InFlight /\ calls[n].pc = "sent" /\ q.kind = calls[n].kind /\ q.stage = calls[n].stage
      /\ q.card = calls[n].card /\ q.pc \in {"served", "refused"}
      /\ UNCHANGED <<view, interview, poll, loads, tainted>>
  BY DEF Replies
<1>4. Made' = Made /\ Served' = Served /\ Past' = Past
  BY DEF Made, Served, Past
<1>5. PageShape'
  BY <1>1, <1>3, <1>4 DEF PageInv, PageShape
<1>6. PageKnows'
  <2>1. \A m \in Of("dismiss") : calls'[m].pc = "served" => calls[m].pc = "served"
    <3>1. n \in Of("dismiss") => calls[n].stage = "list" /\ calls[n].kind = "dismiss"
      BY <1>1, <1>2, <1>3 DEF PageInv, PageKnows, Of, PageShape, PageCall
    <3> QED
      BY <1>1, <1>2, <1>3, <3>1
  <2>2. \A m \in InFlight :
          /\ calls'[m].pc = "refused" => m \in Of("generate") \cup Of("select")
          /\ calls'[m].stage = "person" => m \in Of("load")
          /\ calls'[m].stage = "meta" => m \in Of("load") \cup Of("generate") /\ calls'[m].pc # "refused"
    <3>1. ASSUME NEW m \in InFlight, m # n
          PROVE  /\ calls'[m].pc = "refused" => m \in Of("generate") \cup Of("select")
                 /\ calls'[m].stage = "person" => m \in Of("load")
                 /\ calls'[m].stage = "meta" => m \in Of("load") \cup Of("generate") /\ calls'[m].pc # "refused"
      BY <1>1, <3>1 DEF PageInv, PageKnows
    <3>2. q.pc = "refused" => n \in Of("generate") \cup Of("select")
      BY <1>3 DEF Of
    <3>3. /\ calls[n].stage = "person" => n \in Of("load")
          /\ calls[n].stage = "meta" => n \in Of("load") \cup Of("generate")
      BY <1>3 DEF PageInv, PageKnows
    <3>4. q.pc = "refused" => q.stage # "meta"
      BY <1>3, <3>3 DEF Of
    <3> QED
      BY <1>1, <1>3, <3>1, <3>2, <3>3, <3>4
  <2> QED
    BY <1>1, <1>2, <1>3, <1>4, <2>1, <2>2 DEF PageInv, PageKnows
<1>7. New' = New /\ Dismissed' = Dismissed /\ Chosen' = Chosen
  <2>1. n \in Of("select") \cup Of("dismiss") => q.pc # "served"
    BY <1>3 DEF PageInv, PageKnows, Of
  <2>2. n \in Of("generate") /\ calls[n].stage = "list" => q.pc # "served"
    BY <1>3 DEF Of
  <2>3. \A m : m \in New' <=> m \in New
    BY <1>1, <1>2, <1>3, <2>2 DEF New
  <2>4. \A m : m \in Chosen' <=> m \in Chosen
    BY <1>1, <1>2, <1>3, <2>1 DEF Chosen
  <2>5. \A m \in Of("dismiss") : calls'[m].pc = "served" <=> calls[m].pc = "served"
    BY <1>1, <1>2, <1>3, <2>1
  <2>6. Dismissed' = Dismissed
    BY <1>1, <1>2, <2>5 DEF Dismissed
  <2> QED
    BY <2>3, <2>4, <2>6
<1>8. ASSUME ~tainted' PROVE AnswersAreFresh'
  <2>1. AnswersAreFresh
    BY <1>3, <1>8 DEF PageInv
  <2>2. \A m \in Of("load") : calls'[m].stage = "list" /\ calls'[m].pc = "served" =>
          calls'[m].answer.cards = Served /\ calls'[m].answer.picked = picked \cap Served
    BY <1>1, <1>2, <1>3, <2>1 DEF AnswersAreFresh
  <2>3. New \subseteq InFlight \ {n}
    BY <1>2, <1>1, <1>3 DEF New
  <2>4. \A m \in New : /\ calls'[m].answer.cards = Served /\ calls'[m].answer.picked = {} /\ picked \cap Served = {}
                       /\ \A l \in Of("select") \cup Of("dismiss") : calls'[l].card \in Past
    BY <1>1, <1>2, <2>1, <2>3 DEF AnswersAreFresh
  <2>5. \A m \in InFlight : calls'[m].stage = "meta" /\ calls'[m].pc = "served" =>
          calls'[m].answer.more = (latest < MaxSets)
    BY <1>1, <1>3, <2>1 DEF AnswersAreFresh
  <2> QED
    BY <1>1, <1>2, <1>3, <1>4, <1>7, <2>2, <2>4, <2>5 DEF AnswersAreFresh
<1>9. ASSUME ~tainted' PROVE PageShows'
  <2>1. PageShows
    BY <1>3, <1>9 DEF PageInv
  <2>2. Chosen \subseteq InFlight
    BY <1>1, <1>2 DEF Chosen
  <2> QED
    BY <1>1, <1>2, <1>3, <1>4, <1>7, <2>1, <2>2 DEF PageShows
<1> QED
  BY <1>1, <1>3, <1>5, <1>6, <1>8, <1>9 DEF PageInv

\* A set is made: the page has not heard of it.
LEMMA SetIsServed ==
  ASSUME PageInv, NEW n, NEW q, Replies(n, q), q.pc = "served", calls[n].kind = "generate", calls[n].stage = "list",
         latest < MaxSets, latest' = latest + 1, UNCHANGED <<dropped, picked, sparse>>,
         q.answer.cards = Served', q.answer.picked = (picked \cap Served)'
  PROVE  PageInv'
<1>1. /\ n \in Lines /\ q \in PageCall /\ calls' \in [Lines -> PageCall] /\ calls'[n] = q
      /\ InFlight' = InFlight /\ \A k \in PageKinds : Of(k)' = Of(k) /\ Of(k) \subseteq InFlight
      /\ \A m \in InFlight \ {n} : calls'[m] = calls[m]
      /\ \A m \in InFlight : /\ calls'[m].kind = calls[m].kind /\ calls'[m].stage = calls[m].stage
                             /\ calls'[m].card = calls[m].card
      /\ (Listed' <=> Listed) /\ (Told' <=> Told)
      /\ SpinnersTurn' /\ (CallsKeepApart => CallsKeepApart')
  BY RepliesKeep
<1>2. {"load", "generate", "select", "dismiss", "answers"} \subseteq PageKinds
  BY DEF PageKinds
<1>3. /\ n \in InFlight /\ calls[n].pc = "sent" /\ q.kind = calls[n].kind /\ q.stage = calls[n].stage
      /\ q.card = calls[n].card /\ n \in Of("generate")
      /\ UNCHANGED <<view, interview, poll, loads, tainted>>
  BY DEF Replies, Of
<1>4. latest \in Nat /\ MaxSets \in Nat /\ latest' \in 0 .. MaxSets
  BY GiftPageAssumption DEF PageInv, PageShape
<1>5. Made \subseteq Made' /\ Made \subseteq Past'
  <2>1. \A c \in Cards : c[1] \in Nat
    BY <1>4 DEF Cards
  <2> QED
    BY <1>4, <2>1 DEF Made, Past
<1>6. Made \cap Served' = {}
  <2>1. \A c \in Cards : c[1] \in Nat
    BY <1>4 DEF Cards
  <2> QED
    BY <1>4, <2>1 DEF Made, Served
<1>7. PageShape'
  BY <1>1, <1>3, <1>4, <1>5 DEF PageInv, PageShape
<1>8. PageKnows'
  <2>1. \A m \in Of("dismiss") : calls'[m].pc = "served" => calls[m].pc = "served"
    BY <1>1, <1>2, <1>3 DEF Of
  <2>2. \A m \in InFlight :
          /\ calls'[m].pc = "refused" => m \in Of("generate") \cup Of("select")
          /\ calls'[m].stage = "person" => m \in Of("load")
          /\ calls'[m].stage = "meta" => m \in Of("load") \cup Of("generate") /\ calls'[m].pc # "refused"
    BY <1>1, <1>3 DEF PageInv, PageKnows
  <2>3. view.shown \subseteq Made' /\ \A m \in Of("select") \cup Of("dismiss") : calls'[m].card \in Made'
    BY <1>1, <1>2, <1>5 DEF PageInv, PageKnows
  <2> QED
    BY <1>1, <1>2, <1>3, <2>1, <2>2, <2>3 DEF PageInv, PageKnows
<1>9. n \in New'
  BY <1>1, <1>2, <1>3 DEF New
<1>10. ASSUME ~tainted' PROVE AnswersAreFresh'
  <2>1. CallsKeepApart
    BY <1>3, <1>10 DEF PageInv
  <2>2. Of("load") = {} /\ \A m \in Of("generate") : m = n
    BY <1>3, <2>1 DEF CallsKeepApart
  <2>3. \A m \in New' : m = n
    BY <1>1, <1>2, <2>2 DEF New
  <2>4. q.answer.picked = {} /\ (picked \cap Served)' = {}
    BY <1>6 DEF PageInv, PageShape
  <2>5. \A m \in Of("select") \cup Of("dismiss") : calls'[m].card \in Past'
    BY <1>1, <1>2, <1>5 DEF PageInv, PageKnows
  <2>6. \A m \in InFlight : calls'[m].stage # "meta"
    BY <1>1, <1>3, <2>2 DEF PageInv, PageKnows
  <2> QED
    BY <1>1, <1>2, <2>2, <2>3, <2>4, <2>5, <2>6 DEF AnswersAreFresh
<1>11. ASSUME ~tainted' PROVE PageShows'
  <2>1. PageShows
    BY <1>3, <1>11 DEF PageInv
  <2> QED
    BY <1>1, <1>2, <1>3, <1>9, <2>1 DEF PageShows
<1> QED
  BY <1>1, <1>3, <1>7, <1>8, <1>10, <1>11 DEF PageInv

LEMMA SelectionIsServed ==
  ASSUME PageInv, NEW n, NEW q, Replies(n, q), q.pc = "served", calls[n].kind = "select",
         picked' = {calls[n].card}, UNCHANGED <<latest, dropped, sparse>>
  PROVE  PageInv'
<1>1. /\ n \in Lines /\ q \in PageCall /\ calls' \in [Lines -> PageCall] /\ calls'[n] = q
      /\ InFlight' = InFlight /\ \A k \in PageKinds : Of(k)' = Of(k) /\ Of(k) \subseteq InFlight
      /\ \A m \in InFlight \ {n} : calls'[m] = calls[m]
      /\ \A m \in InFlight : /\ calls'[m].kind = calls[m].kind /\ calls'[m].stage = calls[m].stage
                             /\ calls'[m].card = calls[m].card
      /\ (Listed' <=> Listed) /\ (Told' <=> Told)
      /\ SpinnersTurn' /\ (CallsKeepApart => CallsKeepApart')
  BY RepliesKeep
<1>2. {"load", "generate", "select", "dismiss", "answers"} \subseteq PageKinds
  BY DEF PageKinds
<1>3. /\ n \in InFlight /\ calls[n].pc = "sent" /\ q.kind = "select" /\ q.stage = calls[n].stage
      /\ q.card = calls[n].card /\ n \in Of("select") /\ n \notin Of("dismiss") /\ n \notin Of("generate")
      /\ UNCHANGED <<view, interview, poll, loads, tainted>>
  BY DEF Replies, Of
<1>4. Made' = Made /\ Served' = Served /\ Past' = Past
  BY DEF Made, Served, Past
<1>5. calls[n].card \in Made
  BY <1>3 DEF PageInv, PageKnows
<1>6. PageShape'
  BY <1>1, <1>3, <1>4, <1>5 DEF PageInv, PageShape
<1>7. PageKnows'
  <2>1. \A m \in Of("dismiss") : calls'[m].pc = "served" => calls[m].pc = "served"
    BY <1>1, <1>2, <1>3
  <2>2. \A m \in InFlight :
          /\ calls'[m].pc = "refused" => m \in Of("generate") \cup Of("select")
          /\ calls'[m].stage = "person" => m \in Of("load")
          /\ calls'[m].stage = "meta" => m \in Of("load") \cup Of("generate") /\ calls'[m].pc # "refused"
    BY <1>1, <1>3 DEF PageInv, PageKnows
  <2>3. \A m \in Of("select") \cup Of("dismiss") : calls'[m].card \in Made'
    BY <1>1, <1>2, <1>4 DEF PageInv, PageKnows
  <2> QED
    BY <1>1, <1>2, <1>3, <1>4, <2>1, <2>2, <2>3 DEF PageInv, PageKnows
<1>8. New' = New /\ Dismissed' = Dismissed /\ Chosen' = Chosen \cup {n}
  <2>1. \A m : m \in New' <=> m \in New
    BY <1>1, <1>2, <1>3 DEF New
  <2>2. \A m : m \in Chosen' <=> m \in Chosen \cup {n}
    BY <1>1, <1>2, <1>3 DEF Chosen
  <2>3. \A m \in Of("dismiss") : calls'[m].pc = "served" <=> calls[m].pc = "served"
    BY <1>1, <1>2, <1>3
  <2>4. Dismissed' = Dismissed
    BY <1>1, <1>2, <2>3 DEF Dismissed
  <2> QED
    BY <2>1, <2>2, <2>4
<1>9. Past \cap Served = {}
  BY DEF Past, Served, Cards, PageInv, PageShape
<1>10. ASSUME ~tainted' PROVE AnswersAreFresh'
  <2>1. CallsKeepApart /\ AnswersAreFresh
    BY <1>3, <1>10 DEF PageInv
  <2>2. Of("load") = {}
    BY <1>3, <2>1 DEF CallsKeepApart
  <2>3. \A m \in New : /\ calls'[m].answer.cards = Served /\ calls'[m].answer.picked = {} /\ picked' \cap Served = {}
                       /\ \A l \in Of("select") \cup Of("dismiss") : calls'[l].card \in Past
    <3> SUFFICES ASSUME NEW m \in New
                 PROVE  /\ calls'[m].answer.cards = Served /\ calls'[m].answer.picked = {} /\ picked' \cap Served = {}
                        /\ \A l \in Of("select") \cup Of("dismiss") : calls'[l].card \in Past
      OBVIOUS
    <3>1. m \in Of("generate") /\ m # n /\ m \in InFlight
      BY <1>2, <1>1, <1>3 DEF New
    <3>2. /\ calls[m].answer.cards = Served /\ calls[m].answer.picked = {}
          /\ \A l \in Of("select") \cup Of("dismiss") : calls[l].card \in Past
      BY <2>1 DEF AnswersAreFresh
    <3> QED
      BY <1>1, <1>2, <1>3, <1>9, <3>1, <3>2
  <2>4. \A m \in InFlight : calls'[m].stage = "meta" /\ calls'[m].pc = "served" =>
          calls'[m].answer.more = (latest < MaxSets)
    <3>1. calls[n].stage # "meta"
      BY <1>3, <2>2 DEF PageInv, PageKnows, Of
    <3> QED
      BY <1>1, <1>3, <2>1, <3>1 DEF AnswersAreFresh
  <2> QED
    BY <1>1, <1>2, <1>3, <1>4, <1>8, <2>2, <2>3, <2>4 DEF AnswersAreFresh
<1>11. ASSUME ~tainted' PROVE PageShows'
  <2>1. PageShows /\ CallsKeepApart
    BY <1>3, <1>11 DEF PageInv
  <2>2. \A m \in Chosen' : m = n
    BY <1>2, <1>3, <1>8, <2>1 DEF CallsKeepApart, Chosen
  <2>3. \A m \in Chosen' : \A c \in Served : c \in picked' <=> c = calls'[m].card
    BY <1>1, <1>3, <2>2
  <2> QED
    BY <1>1, <1>2, <1>3, <1>4, <1>8, <2>1, <2>3 DEF PageShows
<1> QED
  BY <1>1, <1>3, <1>6, <1>7, <1>10, <1>11 DEF PageInv

LEMMA DismissalIsServed ==
  ASSUME PageInv, NEW n, NEW q, Replies(n, q), q.pc = "served", calls[n].kind = "dismiss",
         dropped' = dropped \cup {calls[n].card}, picked' = picked \ {calls[n].card}, UNCHANGED <<latest, sparse>>
  PROVE  PageInv'
<1>1. /\ n \in Lines /\ q \in PageCall /\ calls' \in [Lines -> PageCall] /\ calls'[n] = q
      /\ InFlight' = InFlight /\ \A k \in PageKinds : Of(k)' = Of(k) /\ Of(k) \subseteq InFlight
      /\ \A m \in InFlight \ {n} : calls'[m] = calls[m]
      /\ \A m \in InFlight : /\ calls'[m].kind = calls[m].kind /\ calls'[m].stage = calls[m].stage
                             /\ calls'[m].card = calls[m].card
      /\ (Listed' <=> Listed) /\ (Told' <=> Told)
      /\ SpinnersTurn' /\ (CallsKeepApart => CallsKeepApart')
  BY RepliesKeep
<1>2. {"load", "generate", "select", "dismiss", "answers"} \subseteq PageKinds
  BY DEF PageKinds
<1>3. /\ n \in InFlight /\ calls[n].pc = "sent" /\ q.kind = "dismiss" /\ q.stage = calls[n].stage
      /\ q.card = calls[n].card /\ n \in Of("dismiss") /\ n \notin Of("select") /\ n \notin Of("generate")
      /\ UNCHANGED <<view, interview, poll, loads, tainted>>
  BY DEF Replies, Of
<1>4. PICK card : card = calls[n].card
  OBVIOUS
<1>5. Made' = Made /\ Past' = Past /\ Served' = Served \ {card}
  BY <1>4 DEF Made, Past, Served
<1>6. card \in Made
  BY <1>3, <1>4 DEF PageInv, PageKnows
<1>7. PageShape'
  BY <1>1, <1>3, <1>4, <1>5, <1>6 DEF PageInv, PageShape
<1>8. PageKnows'
  <2>1. \A m \in Of("dismiss") : calls'[m].pc = "served" => calls'[m].card \in dropped'
    BY <1>1, <1>2, <1>3, <1>4 DEF PageInv, PageKnows
  <2>2. \A m \in InFlight :
          /\ calls'[m].pc = "refused" => m \in Of("generate") \cup Of("select")
          /\ calls'[m].stage = "person" => m \in Of("load")
          /\ calls'[m].stage = "meta" => m \in Of("load") \cup Of("generate") /\ calls'[m].pc # "refused"
    BY <1>1, <1>3 DEF PageInv, PageKnows
  <2>3. \A m \in Of("select") \cup Of("dismiss") : calls'[m].card \in Made'
    BY <1>1, <1>2, <1>5 DEF PageInv, PageKnows
  <2> QED
    BY <1>1, <1>2, <1>3, <1>5, <2>1, <2>2, <2>3 DEF PageInv, PageKnows
<1>9. New' = New /\ Dismissed' = Dismissed \cup {card} /\ Chosen' = Chosen
  <2>1. \A m : m \in New' <=> m \in New
    BY <1>1, <1>2, <1>3 DEF New
  <2>2. \A m : m \in Chosen' <=> m \in Chosen
    BY <1>1, <1>2, <1>3 DEF Chosen
  <2>3. \A m \in Of("dismiss") : calls'[m].pc = "served" <=> calls[m].pc = "served" \/ m = n
    BY <1>1, <1>2, <1>3
  <2>4. \A c : c \in Dismissed' <=> c \in Dismissed \cup {card}
    BY <1>1, <1>2, <1>3, <1>4, <2>3 DEF Dismissed
  <2> QED
    BY <2>1, <2>2, <2>4
<1>10. Past \cap Served = {}
  BY DEF Past, Served, Cards, PageInv, PageShape
<1>11. ASSUME ~tainted' PROVE AnswersAreFresh'
  <2>1. CallsKeepApart /\ AnswersAreFresh
    BY <1>3, <1>11 DEF PageInv
  <2>2. Of("load") = {}
    BY <1>3, <2>1 DEF CallsKeepApart
  <2>3. \A m \in New : /\ calls'[m].answer.cards = Served' /\ calls'[m].answer.picked = {} /\ picked' \cap Served' = {}
                       /\ \A l \in Of("select") \cup Of("dismiss") : calls'[l].card \in Past
    <3> SUFFICES ASSUME NEW m \in New
                 PROVE  /\ calls'[m].answer.cards = Served' /\ calls'[m].answer.picked = {} /\ picked' \cap Served' = {}
                        /\ \A l \in Of("select") \cup Of("dismiss") : calls'[l].card \in Past
      OBVIOUS
    <3>1. m \in Of("generate") /\ m # n /\ m \in InFlight
      BY <1>2, <1>1, <1>3 DEF New
    <3>2. /\ calls[m].answer.cards = Served /\ calls[m].answer.picked = {} /\ picked \cap Served = {}
          /\ \A l \in Of("select") \cup Of("dismiss") : calls[l].card \in Past
      BY <2>1 DEF AnswersAreFresh
    <3>3. Served' = Served
      BY <1>3, <1>4, <1>5, <1>10, <3>2
    <3> QED
      BY <1>1, <1>2, <1>3, <3>1, <3>2, <3>3
  <2>4. \A m \in InFlight : calls'[m].stage = "meta" /\ calls'[m].pc = "served" =>
          calls'[m].answer.more = (latest < MaxSets)
    <3>1. calls[n].stage # "meta"
      BY <1>3, <2>2 DEF PageInv, PageKnows, Of
    <3> QED
      BY <1>1, <1>3, <2>1, <3>1 DEF AnswersAreFresh
  <2> QED
    BY <1>1, <1>2, <1>3, <1>5, <1>9, <2>2, <2>3, <2>4 DEF AnswersAreFresh
<1>12. ASSUME ~tainted' PROVE PageShows'
  <2>1. PageShows
    BY <1>3, <1>12 DEF PageInv
  <2>2. \A c \in Served' : c \in picked' <=> c \in picked
    BY <1>4, <1>5
  <2>3. Chosen \subseteq InFlight
    BY <1>1, <1>2 DEF Chosen
  <2> QED
    BY <1>1, <1>2, <1>3, <1>5, <1>9, <2>1, <2>2, <2>3 DEF PageShows
<1> QED
  BY <1>1, <1>3, <1>7, <1>8, <1>11, <1>12 DEF PageInv

LEMMA PageServes ==
  ASSUME PageInv, NEW n \in Lines, Serve(n)
  PROVE  PageInv'
<1>1. calls[n].pc = "sent" /\ UNCHANGED <<view, interview, poll, loads, tainted>> /\ PageShape
  BY DEF Serve, PageInv
<1>2. sparse \in BOOLEAN /\ n \in InFlight /\ calls[n] \in PageCall
  BY <1>1 DEF PageShape, InFlight
<1>3. CASE ServeRead(n) /\ UNCHANGED apiRows /\ Replied(n)
  <2>1. UNCHANGED <<latest, dropped, picked, sparse>> /\ Served' = Served
    BY <1>3 DEF apiRows, Served
  <2>2. PICK q : /\ Replies(n, q) /\ q.pc = "served"
                 /\ q.answer.cards = Served' /\ q.answer.picked = (picked \cap Served)'
                 /\ q.answer.more = (latest' < MaxSets)
    BY <1>1, <1>2, <1>3, <2>1, AnswerReplies
  <2> QED
    BY <1>2, <1>3, <2>1, <2>2, PageReads DEF ServeRead
<1>4. CASE ServeGenerate(n)
  <2>1. calls[n].kind = "generate" /\ calls[n].stage = "list"
    BY <1>4 DEF ServeGenerate
  <2>2. CASE latest < MaxSets /\ latest' = latest + 1 /\ UNCHANGED <<dropped, picked, pictured, sparse>> /\ Replied(n)
    <3>1. PICK q : /\ Replies(n, q) /\ q.pc = "served"
                   /\ q.answer.cards = Served' /\ q.answer.picked = (picked \cap Served)'
      BY <1>1, <1>2, <2>2, AnswerReplies
    <3> QED
      BY <2>1, <2>2, <3>1, SetIsServed
  <2>3. CASE UNCHANGED apiRows /\ Refuse(n)
    <3>1. PICK q : Replies(n, q) /\ q.pc = "refused"
      BY <1>1, <2>3, RefusalReplies
    <3> QED
      BY <1>2, <2>1, <2>3, <3>1, PageReads DEF apiRows
  <2> QED
    BY <1>4, <2>2, <2>3 DEF ServeGenerate
<1>5. CASE ServeSelect(n)
  <2>1. CASE UNCHANGED apiRows /\ Refuse(n)
    <3>1. PICK q : Replies(n, q) /\ q.pc = "refused"
      BY <1>1, <2>1, RefusalReplies
    <3> QED
      BY <1>2, <1>5, <2>1, <3>1, PageReads DEF apiRows, ServeSelect
  <2>2. CASE picked' = {calls[n].card} /\ UNCHANGED <<latest, dropped, pictured, sparse>> /\ Replied(n)
    <3>1. PICK q : Replies(n, q) /\ q.pc = "served"
      BY <1>1, <1>2, <2>2, AnswerReplies
    <3> QED
      BY <1>5, <2>2, <3>1, SelectionIsServed DEF ServeSelect
  <2> QED
    BY <1>5, <2>1, <2>2 DEF ServeSelect
<1>6. CASE ServeDismiss(n)
  <2>1. PICK q : Replies(n, q) /\ q.pc = "served"
    BY <1>1, <1>2, <1>6, AnswerReplies DEF ServeDismiss
  <2> QED
    BY <1>6, <2>1, DismissalIsServed DEF ServeDismiss
<1>7. CASE calls[n].kind = "answers" /\ sparse' = FALSE /\ UNCHANGED <<latest, dropped, picked, pictured>> /\ Replied(n)
  <2>1. sparse' \in BOOLEAN /\ Served' = Served
    BY <1>7 DEF Served
  <2>2. PICK q : /\ Replies(n, q) /\ q.pc = "served"
                 /\ q.answer.cards = Served' /\ q.answer.picked = (picked \cap Served)'
                 /\ q.answer.more = (latest' < MaxSets)
    BY <1>1, <1>7, <2>1, AnswerReplies
  <2> QED
    BY <1>7, <2>1, <2>2, PageReads
<1> QED
  BY <1>3, <1>4, <1>5, <1>6, <1>7 DEF Serve

-----------------------------------------------------------------------------
(* The page hears.                                                         *)

LEMMA HeardEnds ==
  ASSUME PageShape, NEW n \in Lines, Heard(n)
  PROVE  \E q : PageLine(n, q) /\ q.pc = "new"
  BY NewCallIsACall, OnePageLine DEF Heard

LEMMA ContinueGoesOn ==
  ASSUME PageShape, NEW n \in Lines, NEW stage \in {"meta", "person"}, Continue(n, stage)
  PROVE  \E q : PageLine(n, q) /\ q.kind = calls[n].kind /\ q.card = calls[n].card /\ q.stage = stage /\ q.pc = "sent"
<1>1. PICK q : q = [calls[n] EXCEPT !.stage = stage, !.pc = "sent", !.answer = NoAnswer]
  OBVIOUS
<1>2. calls[n] \in PageCall /\ calls \in [Lines -> PageCall]
  BY DEF PageShape
<1>3. q \in PageCall /\ q.kind = calls[n].kind /\ q.card = calls[n].card /\ q.stage = stage /\ q.pc = "sent"
  BY <1>1, <1>2, NewCallIsACall DEF PageCall
<1>4. calls' = [calls EXCEPT ![n] = q]
  BY <1>1, <1>2 DEF Continue
<1> QED
  BY <1>3, <1>4, OnePageLine

\* What a call that ends leaves alone.
LEMMA CallEnds ==
  ASSUME PageInv, NEW n \in InFlight, NEW q, PageLine(n, q), q.pc = "new",
         UNCHANGED <<latest, dropped, picked, sparse, poll, loads>>, tainted' \in BOOLEAN, tainted => tainted',
         view' \in PageView, view'.shown \subseteq view.shown, view'.chosen \subseteq view'.shown,
         view'.generated = view.generated,
         IF calls[n].kind = "generate" THEN ~view'.loading ELSE view'.loading = view.loading,
         view'.selecting => view.selecting /\ calls[n].kind # "select",
         interview' \in PageInterview,
         calls[n].kind # "answers" =>
           /\ interview'.saving = interview.saving
           /\ interview.checked => interview'.checked
           /\ interview.show => interview'.show
  PROVE  /\ PageShape' /\ PageKnows' /\ SpinnersTurn'
         /\ ~tainted' => CallsKeepApart' /\ AnswersAreFresh'
         /\ InFlight' = InFlight \ {n} /\ \A k \in PageKinds : Of(k)' = Of(k) \ {n}
         /\ \A m \in InFlight \ {n} : calls'[m] = calls[m]
         /\ New' = New \ {n} /\ Chosen' = Chosen \ {n} /\ Dismissed' \subseteq Dismissed
         /\ \A c \in Dismissed : c \in Dismissed' \/ (n \in Of("dismiss") /\ calls[n].pc = "served" /\ c = calls[n].card)
<1>1. /\ calls' \in [Lines -> PageCall] /\ InFlight' = InFlight \ {n}
      /\ \A k \in PageKinds : Of(k)' = Of(k) \ {n} /\ Of(k) \subseteq InFlight
      /\ \A m \in InFlight \ {n} : calls'[m] = calls[m]
      /\ {"load", "generate", "select", "dismiss", "answers"} \subseteq PageKinds
  BY DEF PageLine, InFlight, Of, PageKinds
<1>2. Made' = Made /\ Served' = Served /\ Past' = Past
  BY DEF Made, Served, Past
<1>3. PageShape'
  BY <1>1, <1>2 DEF PageInv, PageShape
<1>4. PageKnows'
  <2>1. \A m \in Of("select")' \cup Of("dismiss")' : calls'[m].card \in Made
    BY <1>1 DEF PageInv, PageKnows
  <2>2. \A m \in Of("dismiss")' : calls'[m].pc = "served" => calls'[m].card \in dropped
    BY <1>1 DEF PageInv, PageKnows
  <2>3. \A m \in InFlight' :
          /\ calls'[m].pc = "refused" => m \in Of("generate")' \cup Of("select")'
          /\ calls'[m].stage = "person" => m \in Of("load")'
          /\ calls'[m].stage = "meta" => m \in Of("load")' \cup Of("generate")' /\ calls'[m].pc # "refused"
    BY <1>1 DEF PageInv, PageKnows
  <2> QED
    BY <1>2, <2>1, <2>2, <2>3 DEF PageInv, PageKnows
<1>5. SpinnersTurn'
  <2>1. view'.loading => Of("generate")' # {}
    <3>1. calls[n].kind # "generate" => n \notin Of("generate")
      BY DEF Of
    <3> QED
      BY <1>1, <3>1 DEF PageInv, SpinnersTurn
  <2>2. view'.selecting => Of("select")' # {}
    <3>1. calls[n].kind # "select" => n \notin Of("select")
      BY DEF Of
    <3> QED
      BY <1>1, <3>1 DEF PageInv, SpinnersTurn
  <2> QED
    BY <2>1, <2>2 DEF SpinnersTurn
<1>6. New' = New \ {n} /\ Chosen' = Chosen \ {n}
  <2>1. \A m : m \in New' <=> m \in New /\ m # n
    BY <1>1 DEF New
  <2>2. \A m : m \in Chosen' <=> m \in Chosen /\ m # n
    BY <1>1 DEF Chosen
  <2> QED
    BY <2>1, <2>2
<1>7. \A c : c \in Dismissed <=> \E m \in Of("dismiss") : calls[m].pc = "served" /\ c = calls[m].card
  BY DEF Dismissed
<1>8. \A c : c \in Dismissed' <=> \E m \in Of("dismiss") \ {n} : calls[m].pc = "served" /\ c = calls[m].card
  BY <1>1 DEF Dismissed
<1>9. Dismissed' \subseteq Dismissed
  BY <1>7, <1>8
<1>10. \A c \in Dismissed : c \in Dismissed' \/ (n \in Of("dismiss") /\ calls[n].pc = "served" /\ c = calls[n].card)
  BY <1>7, <1>8
<1>11. ASSUME ~tainted' PROVE CallsKeepApart'
  <2>1. CallsKeepApart
    BY <1>11 DEF PageInv
  <2>2. Of("load")' # {} => Of("generate")' = {} /\ Of("select")' = {} /\ Of("dismiss")' = {}
    BY <1>1, <2>1 DEF CallsKeepApart
  <2>3. /\ \A l \in Of("select")', m \in Of("select")' : m = l
        /\ \A l \in Of("generate")', m \in Of("generate")' : m = l
        /\ \A l \in Of("answers")', m \in Of("answers")' : m = l
    BY <1>1, <2>1 DEF CallsKeepApart
  <2>4. Of("generate")' # {} => view'.loading
    <3>1. CASE calls[n].kind = "generate"
      <4>1. n \in Of("generate")
        BY <3>1 DEF Of
      <4> QED
        BY <1>1, <2>1, <4>1 DEF CallsKeepApart
    <3>2. CASE calls[n].kind # "generate"
      BY <1>1, <2>1, <3>2 DEF CallsKeepApart
    <3> QED
      BY <3>1, <3>2
  <2>5. Of("answers")' # {} =>
          interview'.saving /\ interview'.checked /\ interview'.show /\ ~view'.generated /\ ~view'.loading
    <3>1. CASE calls[n].kind = "answers"
      <4>1. n \in Of("answers")
        BY <3>1 DEF Of
      <4> QED
        BY <1>1, <2>1, <4>1 DEF CallsKeepApart
    <3>2. CASE calls[n].kind # "answers"
      BY <1>1, <2>1, <3>2 DEF CallsKeepApart
    <3> QED
      BY <3>1, <3>2
  <2> QED
    BY <2>2, <2>3, <2>4, <2>5 DEF CallsKeepApart
<1>12. ASSUME ~tainted' PROVE AnswersAreFresh'
  <2>1. AnswersAreFresh
    BY <1>12 DEF PageInv
  <2>2. \A m \in Of("load")' : calls'[m].stage = "list" /\ calls'[m].pc = "served" =>
          calls'[m].answer.cards = Served /\ calls'[m].answer.picked = picked \cap Served
    BY <1>1, <2>1 DEF AnswersAreFresh
  <2>3. New \subseteq InFlight
    BY <1>1 DEF New
  <2>4. \A m \in New' : /\ calls'[m].answer.cards = Served /\ calls'[m].answer.picked = {} /\ picked \cap Served = {}
                        /\ \A l \in Of("select")' \cup Of("dismiss")' : calls'[l].card \in Past
    BY <1>1, <1>6, <2>1, <2>3 DEF AnswersAreFresh
  <2>5. \A m \in InFlight' : calls'[m].stage = "meta" /\ calls'[m].pc = "served" =>
          calls'[m].answer.more = (latest < MaxSets)
    BY <1>1, <2>1 DEF AnswersAreFresh
  <2> QED
    BY <1>2, <2>2, <2>4, <2>5 DEF AnswersAreFresh
<1> QED
  BY <1>1, <1>3, <1>4, <1>5, <1>6, <1>9, <1>10, <1>11, <1>12

\* A load is done, with or without the answer about the dossier.
LEMMA LoadIsDone ==
  ASSUME PageInv, NEW n \in Lines, UNCHANGED <<apiRows, view, poll, loads>>,
         calls[n].kind = "load", calls[n].stage = "person", n \in InFlight, Heard(n),
         tainted' \in BOOLEAN, tainted => tainted',
         NEW b \in BOOLEAN, interview' = [interview EXCEPT !.checked = TRUE, !.show = b], interview.show => b
  PROVE  PageInv'
<1>1. PICK q : PageLine(n, q) /\ q.pc = "new"
  BY HeardEnds DEF PageInv
<1>2. /\ view' \in PageView /\ view'.chosen \subseteq view'.shown /\ interview \in PageInterview
      /\ UNCHANGED <<latest, dropped, picked, sparse>> /\ tainted' \in BOOLEAN /\ (tainted => tainted')
  BY DEF PageInv, PageShape, PageKnows, apiRows
<1>3. PICK i : i = [interview EXCEPT !.checked = TRUE, !.show = b]
  OBVIOUS
<1>4. i \in PageInterview /\ i.checked /\ i.saving = interview.saving /\ (interview.show => i.show)
  BY <1>2, <1>3 DEF PageInterview
<1>5. /\ PageShape' /\ PageKnows' /\ SpinnersTurn'
      /\ ~tainted' => CallsKeepApart' /\ AnswersAreFresh'
      /\ InFlight' = InFlight \ {n} /\ \A k \in PageKinds : Of(k)' = Of(k) \ {n}
      /\ \A m \in InFlight \ {n} : calls'[m] = calls[m]
      /\ New' = New \ {n} /\ Chosen' = Chosen \ {n} /\ Dismissed' \subseteq Dismissed
      /\ \A c \in Dismissed : c \in Dismissed' \/ (n \in Of("dismiss") /\ calls[n].pc = "served" /\ c = calls[n].card)
  BY <1>1, <1>2, <1>3, <1>4, CallEnds
<1>6. n \in Of("load") /\ n \notin Of("generate") /\ n \notin Of("select") /\ n \notin Of("dismiss")
  BY DEF Of
<1>7. /\ New' = New /\ Chosen' = Chosen /\ Dismissed' = Dismissed /\ Of("generate")' = Of("generate")
      /\ Chosen \subseteq InFlight \ {n} /\ Of("generate") \subseteq InFlight \ {n} /\ Served' = Served
  BY <1>2, <1>5, <1>6 DEF New, Chosen, PageKinds, Of, Served
<1>8. Listed /\ Told /\ Listed'
  BY <1>3, <1>4, <1>6 DEF Listed, Told
<1>9. ASSUME ~tainted' PROVE PageShows'
  BY <1>2, <1>5, <1>7, <1>8, <1>9 DEF PageInv, PageShows
<1> QED
  BY <1>5, <1>9 DEF PageInv

\* What a request that failed leaves, unless the failure is a taint.
LEMMA RequestFails ==
  ASSUME PageInv, NEW n \in Lines, Fail(n), calls[n].kind \in {"answers", "generate", "select", "dismiss"}
  PROVE  PageInv'
<1>1. n \in InFlight /\ UNCHANGED <<latest, dropped, picked, sparse, poll, loads>> /\ Heard(n)
  BY DEF Fail, apiRows
<1>2. PICK q : PageLine(n, q) /\ q.pc = "new"
  BY <1>1, HeardEnds DEF PageInv
<1>3. view \in PageView /\ interview \in PageInterview /\ tainted \in BOOLEAN /\ view.chosen \subseteq view.shown
  BY DEF PageInv, PageShape, PageKnows
<1>4. tainted' = (tainted \/ calls[n].pc # "refused") /\ tainted' \in BOOLEAN /\ (tainted => tainted')
  BY <1>3 DEF Fail
<1>5. /\ view' \in PageView /\ view'.shown = view.shown /\ view'.chosen = view.chosen
      /\ view'.generated = view.generated /\ view'.more = view.more
      /\ IF calls[n].kind = "generate" THEN ~view'.loading ELSE view'.loading = view.loading
      /\ view'.selecting => view.selecting /\ calls[n].kind # "select"
  <2>1. CASE calls[n].kind = "answers"
    <3>1. view' = view
      BY <2>1 DEF Fail
    <3> QED
      BY <1>3, <2>1, <3>1
  <2>2. CASE calls[n].kind \in {"generate", "select", "dismiss"}
    <3>1. PICK l \in BOOLEAN : l <=> view.loading /\ calls[n].kind # "generate"
      BY Zenon
    <3>2. PICK s \in BOOLEAN : s <=> view.selecting /\ calls[n].kind # "select"
      BY Zenon
    <3>3. PICK v : v = [view EXCEPT !.error = TRUE, !.loading = @ /\ calls[n].kind # "generate",
                              !.selecting = @ /\ calls[n].kind # "select"]
      OBVIOUS
    <3>4. view' = v
      BY <2>2, <3>3 DEF Fail
    <3>5. v \in PageView
      BY <1>3, <3>3 DEF PageView
    <3>6. /\ v.shown = view.shown /\ v.chosen = view.chosen /\ v.generated = view.generated /\ v.more = view.more
          /\ v.loading = (view.loading /\ calls[n].kind # "generate")
          /\ v.selecting = (view.selecting /\ calls[n].kind # "select")
      BY <1>3, <3>3 DEF PageView
    <3>7. IF calls[n].kind = "generate" THEN ~v.loading ELSE v.loading = view.loading
      BY <1>3, <3>6 DEF PageView
    <3> QED
      BY <3>4, <3>5, <3>6, <3>7
  <2> QED
    BY <2>1, <2>2
<1>6. /\ interview' \in PageInterview
      /\ calls[n].kind # "answers" => interview' = interview
  BY <1>3 DEF Fail, PageInterview
<1>7. /\ PageShape' /\ PageKnows' /\ SpinnersTurn'
      /\ ~tainted' => CallsKeepApart' /\ AnswersAreFresh'
      /\ InFlight' = InFlight \ {n} /\ \A k \in PageKinds : Of(k)' = Of(k) \ {n}
      /\ \A m \in InFlight \ {n} : calls'[m] = calls[m]
      /\ New' = New \ {n} /\ Chosen' = Chosen \ {n} /\ Dismissed' \subseteq Dismissed
      /\ \A c \in Dismissed : c \in Dismissed' \/ (n \in Of("dismiss") /\ calls[n].pc = "served" /\ c = calls[n].card)
  BY <1>1, <1>2, <1>3, <1>4, <1>5, <1>6, CallEnds
<1>8. ASSUME ~tainted' PROVE PageShows'
  <2>1. calls[n].pc = "refused" /\ PageShows
    BY <1>4, <1>8 DEF PageInv
  <2>2. n \in Of("generate") \cup Of("select") /\ calls[n].stage = "list"
    BY <1>1, <2>1 DEF PageInv, PageKnows, PageShape, PageCall, Of
  <2>3. n \notin Of("load") /\ n \notin New /\ n \notin Chosen /\ n \notin Of("dismiss") /\ calls[n].kind # "answers"
    BY <2>1, <2>2 DEF New, Chosen, Of
  <2>4. /\ New' = New /\ Chosen' = Chosen /\ Dismissed' = Dismissed /\ Of("load")' = Of("load")
        /\ Of("load") \subseteq InFlight \ {n} /\ Chosen \subseteq InFlight \ {n} /\ Served' = Served
    BY <1>1, <1>7, <2>3 DEF Chosen, PageKinds, Of, Served
  <2>5. interview' = interview /\ (Listed' <=> Listed) /\ (Told' <=> Told)
    BY <1>6, <1>7, <2>3, <2>4 DEF Listed, Told
  <2>6. (\A m \in Of("generate")' : calls'[m].stage = "list") => \A m \in Of("generate") : calls[m].stage = "list"
    BY <1>7, <2>2 DEF PageKinds, Of
  <2> QED
    BY <1>1, <1>5, <1>7, <2>1, <2>4, <2>5, <2>6 DEF PageShows
<1> QED
  BY <1>7, <1>8 DEF PageInv

LEMMA SelectionIsHeard ==
  ASSUME PageInv, NEW n \in Lines, Hear(n), HearSelect(n)
  PROVE  PageInv'
<1>1. /\ n \in InFlight /\ calls[n].pc = "served" /\ calls[n].kind = "select" /\ Heard(n)
      /\ UNCHANGED <<latest, dropped, picked, sparse, poll, loads, interview, tainted>>
  BY DEF Hear, HearSelect, InFlight, apiRows
<1>2. PICK q : PageLine(n, q) /\ q.pc = "new"
  BY <1>1, HeardEnds DEF PageInv
<1>3. view \in PageView /\ interview \in PageInterview /\ tainted \in BOOLEAN /\ view.chosen \subseteq view.shown
  BY DEF PageInv, PageShape, PageKnows
<1>4. PICK c : c = calls[n].card
  OBVIOUS
<1>5. PICK v : v = [view EXCEPT !.chosen = {c} \cap view.shown, !.selecting = FALSE]
  OBVIOUS
<1>6. view' = v
  BY <1>4, <1>5 DEF HearSelect
<1>7. /\ v \in PageView /\ v.shown = view.shown /\ v.chosen = {c} \cap view.shown /\ v.generated = view.generated
      /\ v.more = view.more /\ v.loading = view.loading /\ ~v.selecting
  <2>1. {c} \cap view.shown \in SUBSET Cards
    BY <1>3 DEF PageView
  <2> QED
    BY <1>3, <1>5, <2>1 DEF PageView
<1>8. /\ PageShape' /\ PageKnows' /\ SpinnersTurn'
      /\ ~tainted' => CallsKeepApart' /\ AnswersAreFresh'
      /\ InFlight' = InFlight \ {n} /\ \A k \in PageKinds : Of(k)' = Of(k) \ {n}
      /\ \A m \in InFlight \ {n} : calls'[m] = calls[m]
      /\ New' = New \ {n} /\ Chosen' = Chosen \ {n} /\ Dismissed' \subseteq Dismissed
      /\ \A d \in Dismissed : d \in Dismissed' \/ (n \in Of("dismiss") /\ calls[n].pc = "served" /\ d = calls[n].card)
  BY <1>1, <1>2, <1>3, <1>6, <1>7, CallEnds
<1>9. n \in Of("select") /\ n \in Chosen /\ n \notin Of("load") /\ n \notin Of("generate") /\ n \notin Of("dismiss")
  BY <1>1 DEF Of, Chosen
<1>10. /\ New' = New /\ Dismissed' = Dismissed /\ Of("load")' = Of("load") /\ Of("generate")' = Of("generate")
       /\ Of("load") \cup Of("generate") \subseteq InFlight \ {n} /\ Served' = Served
  BY <1>1, <1>8, <1>9 DEF New, PageKinds, Of, Served
<1>11. (Listed' <=> Listed) /\ (Told' <=> Told)
  BY <1>1, <1>8, <1>10 DEF Listed, Told
<1>12. ASSUME ~tainted' PROVE PageShows'
  <2>1. PageShows /\ CallsKeepApart
    BY <1>1, <1>12 DEF PageInv
  <2>2. Chosen' = {}
    BY <1>8, <1>9, <2>1 DEF CallsKeepApart, Chosen
  <2>3. New = {} /\ Listed => \A d \in Served : d \in v.chosen <=> d \in picked
    BY <1>4, <1>7, <1>9, <2>1 DEF PageShows
  <2> QED
    BY <1>1, <1>6, <1>7, <1>8, <1>10, <1>11, <2>1, <2>2, <2>3 DEF PageShows
<1> QED
  BY <1>8, <1>12 DEF PageInv

LEMMA DismissalIsHeard ==
  ASSUME PageInv, NEW n \in Lines, Hear(n), HearDismiss(n)
  PROVE  PageInv'
<1>1. /\ n \in InFlight /\ calls[n].pc = "served" /\ calls[n].kind = "dismiss" /\ Heard(n)
      /\ UNCHANGED <<latest, dropped, picked, sparse, poll, loads, interview, tainted>>
  BY DEF Hear, HearDismiss, InFlight, apiRows
<1>2. PICK q : PageLine(n, q) /\ q.pc = "new"
  BY <1>1, HeardEnds DEF PageInv
<1>3. view \in PageView /\ interview \in PageInterview /\ tainted \in BOOLEAN /\ view.chosen \subseteq view.shown
  BY DEF PageInv, PageShape, PageKnows
<1>4. PICK c : c = calls[n].card
  OBVIOUS
<1>5. PICK v : v = [view EXCEPT !.shown = @ \ {c}, !.chosen = @ \ {c}]
  OBVIOUS
<1>6. view' = v
  BY <1>4, <1>5 DEF HearDismiss
<1>7. /\ v \in PageView /\ v.shown = view.shown \ {c} /\ v.chosen = view.chosen \ {c} /\ v.generated = view.generated
      /\ v.more = view.more /\ v.loading = view.loading /\ v.selecting = view.selecting
  <2>1. view.shown \ {c} \in SUBSET Cards /\ view.chosen \ {c} \in SUBSET Cards
    BY <1>3 DEF PageView
  <2> QED
    BY <1>3, <1>5, <2>1 DEF PageView
<1>8. /\ PageShape' /\ PageKnows' /\ SpinnersTurn'
      /\ ~tainted' => CallsKeepApart' /\ AnswersAreFresh'
      /\ InFlight' = InFlight \ {n} /\ \A k \in PageKinds : Of(k)' = Of(k) \ {n}
      /\ \A m \in InFlight \ {n} : calls'[m] = calls[m]
      /\ New' = New \ {n} /\ Chosen' = Chosen \ {n} /\ Dismissed' \subseteq Dismissed
      /\ \A d \in Dismissed : d \in Dismissed' \/ (n \in Of("dismiss") /\ calls[n].pc = "served" /\ d = calls[n].card)
  BY <1>1, <1>2, <1>3, <1>6, <1>7, CallEnds
<1>9. n \in Of("dismiss") /\ n \notin Of("select") /\ n \notin Of("load") /\ n \notin Of("generate")
  BY <1>1 DEF Of
<1>10. /\ New' = New /\ Chosen' = Chosen /\ Of("load")' = Of("load") /\ Of("generate")' = Of("generate")
       /\ Of("load") \cup Of("generate") \cup Chosen \subseteq InFlight \ {n} /\ Served' = Served
  BY <1>1, <1>8, <1>9 DEF New, Chosen, PageKinds, Of, Served
<1>11. (Listed' <=> Listed) /\ (Told' <=> Told)
  BY <1>1, <1>8, <1>10 DEF Listed, Told
<1>12. c \notin Served
  BY <1>1, <1>4, <1>9 DEF PageInv, PageKnows, Served
<1>13. ASSUME ~tainted' PROVE PageShows'
  <2>1. PageShows
    BY <1>1, <1>13 DEF PageInv
  <2>2. New = {} => v.shown \subseteq Served \cup Dismissed'
    BY <1>4, <1>7, <1>8, <2>1 DEF PageShows
  <2>3. New = {} /\ Listed => Served \subseteq v.shown
    BY <1>7, <1>12, <2>1 DEF PageShows
  <2>4. \A d \in Served : d \in v.chosen <=> d \in view.chosen
    BY <1>7, <1>12
  <2> QED
    BY <1>1, <1>6, <1>7, <1>8, <1>10, <1>11, <2>1, <2>2, <2>3, <2>4 DEF PageShows
<1> QED
  BY <1>8, <1>13 DEF PageInv

\* A generation is done: the page knows whether there may be another set.
LEMMA GenerationIsDone ==
  ASSUME PageInv, NEW n \in Lines, Hear(n), HearGenerate(n), calls[n].stage # "list"
  PROVE  PageInv'
<1>1. /\ n \in InFlight /\ calls[n].pc = "served" /\ calls[n].kind = "generate" /\ Heard(n)
      /\ UNCHANGED <<latest, dropped, picked, sparse, poll, loads, interview, tainted>>
  BY DEF Hear, HearGenerate, InFlight, apiRows
<1>2. PICK q : PageLine(n, q) /\ q.pc = "new"
  BY <1>1, HeardEnds DEF PageInv
<1>3. /\ view \in PageView /\ interview \in PageInterview /\ tainted \in BOOLEAN /\ view.chosen \subseteq view.shown
      /\ calls[n] \in PageCall
  BY DEF PageInv, PageShape, PageKnows
<1>4. PICK a \in BOOLEAN : a = calls[n].answer.more
  BY <1>3 DEF PageCall, PageAnswer
<1>5. PICK v : v = [view EXCEPT !.more = a, !.loading = FALSE]
  OBVIOUS
<1>6. view' = v
  BY <1>4, <1>5 DEF HearGenerate
<1>7. /\ v \in PageView /\ v.shown = view.shown /\ v.chosen = view.chosen /\ v.generated = view.generated
      /\ v.more = a /\ ~v.loading /\ v.selecting = view.selecting
  BY <1>3, <1>5 DEF PageView
<1>8. n \in Of("generate") /\ n \notin Of("select") /\ n \notin Of("load") /\ n \notin Of("dismiss") /\ n \notin New
  BY <1>1 DEF Of, New
<1>9. /\ PageShape' /\ PageKnows' /\ SpinnersTurn'
      /\ ~tainted' => CallsKeepApart' /\ AnswersAreFresh'
      /\ InFlight' = InFlight \ {n} /\ \A k \in PageKinds : Of(k)' = Of(k) \ {n}
      /\ \A m \in InFlight \ {n} : calls'[m] = calls[m]
      /\ New' = New \ {n} /\ Chosen' = Chosen \ {n} /\ Dismissed' \subseteq Dismissed
      /\ \A d \in Dismissed : d \in Dismissed' \/ (n \in Of("dismiss") /\ calls[n].pc = "served" /\ d = calls[n].card)
  <2>1. view.selecting => calls[n].kind # "select"
    BY <1>1
  <2> QED
    BY <1>1, <1>2, <1>3, <1>6, <1>7, <2>1, CallEnds
<1>10. /\ New' = New /\ Chosen' = Chosen /\ Of("load")' = Of("load") /\ Dismissed' = Dismissed
       /\ Of("load") \cup Chosen \subseteq InFlight \ {n} /\ Served' = Served
  BY <1>1, <1>8, <1>9 DEF Chosen, PageKinds, Of, Served
<1>11. (Listed' <=> Listed) /\ (Told' <=> Told)
  BY <1>1, <1>9, <1>10 DEF Listed, Told
<1>12. ASSUME ~tainted' PROVE PageShows'
  <2>1. PageShows /\ AnswersAreFresh
    BY <1>1, <1>12 DEF PageInv
  <2>2. calls[n].stage = "meta"
    BY <1>1, <1>3, <1>8 DEF PageInv, PageKnows, PageCall
  <2>3. a = (latest < MaxSets)
    BY <1>1, <1>4, <2>1, <2>2 DEF AnswersAreFresh
  <2> QED
    BY <1>1, <1>6, <1>7, <1>9, <1>10, <1>11, <2>1, <2>3 DEF PageShows
<1> QED
  BY <1>9, <1>12 DEF PageInv

\* What a call that goes on to its next request leaves alone.
LEMMA CallGoesOn ==
  ASSUME PageInv, NEW n \in InFlight, NEW q, PageLine(n, q), q.pc = "sent", q.kind = calls[n].kind, q.card = calls[n].card,
         calls[n].kind = "load" \/ (calls[n].kind = "generate" /\ q.stage = "meta"),
         q.stage \in {"meta", "person"},
         UNCHANGED <<latest, dropped, picked, sparse, loads, interview>>, poll' \in PagePoll,
         tainted' \in BOOLEAN, tainted => tainted',
         view' \in PageView, view'.shown \subseteq Made, view'.chosen \subseteq view'.shown,
         ~view'.generated => view'.shown = {},
         view'.loading = view.loading, view'.selecting = view.selecting,
         ~tainted' /\ Of("answers") # {} => view'.generated = view.generated
  PROVE  /\ PageShape' /\ PageKnows' /\ SpinnersTurn'
         /\ ~tainted' => CallsKeepApart' /\ AnswersAreFresh'
         /\ InFlight' = InFlight /\ \A k \in PageKinds : Of(k)' = Of(k)
         /\ \A m \in InFlight \ {n} : calls'[m] = calls[m]
         /\ calls'[n].stage = q.stage
         /\ New' = New \ {n} /\ Chosen' = Chosen /\ Dismissed' = Dismissed
<1>1. /\ calls' \in [Lines -> PageCall] /\ calls'[n] = q /\ InFlight' = InFlight
      /\ \A k \in PageKinds : Of(k)' = Of(k) /\ Of(k) \subseteq InFlight
      /\ \A m \in InFlight \ {n} : calls'[m] = calls[m]
      /\ {"load", "generate", "select", "dismiss", "answers"} \subseteq PageKinds
      /\ n \in Of("load") \cup Of("generate") /\ n \notin Of("select") /\ n \notin Of("dismiss")
      /\ q.stage = "person" => n \in Of("load")
  BY DEF PageLine, InFlight, Of, PageKinds
<1>2. Made' = Made /\ Served' = Served /\ Past' = Past
  BY DEF Made, Served, Past
<1>3. PageShape'
  BY <1>1, <1>2 DEF PageInv, PageShape
<1>4. PageKnows'
  <2>1. /\ \A m \in Of("select") \cup Of("dismiss") : calls'[m].card \in Made
        /\ \A m \in Of("dismiss") : calls'[m].pc = "served" => calls'[m].card \in dropped
    BY <1>1 DEF PageInv, PageKnows
  <2>2. \A m \in InFlight :
          /\ calls'[m].pc = "refused" => m \in Of("generate") \cup Of("select")
          /\ calls'[m].stage = "person" => m \in Of("load")
          /\ calls'[m].stage = "meta" => m \in Of("load") \cup Of("generate") /\ calls'[m].pc # "refused"
    BY <1>1 DEF PageInv, PageKnows
  <2> QED
    BY <1>1, <1>2, <2>1, <2>2 DEF PageInv, PageKnows
<1>5. SpinnersTurn'
  BY <1>1 DEF PageInv, SpinnersTurn
<1>6. New' = New \ {n} /\ Chosen' = Chosen /\ Dismissed' = Dismissed
  <2>1. \A m : m \in New' <=> m \in New /\ m # n
    BY <1>1 DEF New
  <2>2. \A m : m \in Chosen' <=> m \in Chosen
    BY <1>1 DEF Chosen
  <2>3. \A m \in Of("dismiss") : calls'[m] = calls[m]
    BY <1>1
  <2>4. Dismissed' = Dismissed
    BY <1>1, <2>3 DEF Dismissed
  <2> QED
    BY <2>1, <2>2, <2>4
<1>7. ASSUME ~tainted' PROVE CallsKeepApart'
  BY <1>1, <1>7 DEF PageInv, CallsKeepApart
<1>8. ASSUME ~tainted' PROVE AnswersAreFresh'
  <2>1. AnswersAreFresh
    BY <1>8 DEF PageInv
  <2>2. \A m \in Of("load") : calls'[m].stage = "list" /\ calls'[m].pc = "served" =>
          calls'[m].answer.cards = Served /\ calls'[m].answer.picked = picked \cap Served
    BY <1>1, <2>1 DEF AnswersAreFresh
  <2>3. New \subseteq InFlight
    BY <1>1 DEF New
  <2>4. \A m \in New' : /\ calls'[m].answer.cards = Served /\ calls'[m].answer.picked = {} /\ picked \cap Served = {}
                        /\ \A l \in Of("select") \cup Of("dismiss") : calls'[l].card \in Past
    BY <1>1, <1>6, <2>1, <2>3 DEF AnswersAreFresh
  <2>5. \A m \in InFlight : calls'[m].stage = "meta" /\ calls'[m].pc = "served" =>
          calls'[m].answer.more = (latest < MaxSets)
    BY <1>1, <2>1 DEF AnswersAreFresh
  <2> QED
    BY <1>1, <1>2, <2>2, <2>4, <2>5 DEF AnswersAreFresh
<1> QED
  BY <1>1, <1>3, <1>4, <1>5, <1>6, <1>7, <1>8

\* The answers hold cards of sets that were made.
AnswersWereMade ==
  \A n \in Lines : calls[n].answer.cards \subseteq Made /\ calls[n].answer.picked \subseteq calls[n].answer.cards

\* The view once the list of a load or of a new set was heard.
LEMMA ListIsShown ==
  ASSUME PageInv, AnswersWereMade, NEW n \in Lines
  PROVE  /\ Shows(calls[n].answer) \in PageView
         /\ Shows(calls[n].answer).shown = calls[n].answer.cards /\ Shows(calls[n].answer).chosen = calls[n].answer.picked
         /\ calls[n].answer.cards \subseteq Made /\ calls[n].answer.picked \subseteq calls[n].answer.cards
         /\ Shows(calls[n].answer).generated
         /\ Shows(calls[n].answer).loading = view.loading /\ Shows(calls[n].answer).selecting = view.selecting
         /\ Shows(calls[n].answer).more = view.more
<1>1. PICK a : a = calls[n].answer
  OBVIOUS
<1>2. a \in PageAnswer /\ view \in PageView
  BY <1>1 DEF PageInv, PageShape, PageCall
<1>3. PICK v : v = [view EXCEPT !.shown = a.cards, !.chosen = a.picked, !.pictures = a.pictured, !.generated = TRUE]
  OBVIOUS
<1>4. v = Shows(calls[n].answer)
  BY <1>1, <1>3 DEF Shows
<1>5. /\ v \in PageView /\ v.shown = a.cards /\ v.chosen = a.picked /\ v.generated
      /\ v.loading = view.loading /\ v.selecting = view.selecting /\ v.more = view.more
  BY <1>2, <1>3 DEF PageAnswer, PageView
<1>6. a.cards \subseteq Made /\ a.picked \subseteq a.cards
  BY <1>1 DEF AnswersWereMade
<1> QED
  BY <1>1, <1>4, <1>5, <1>6

LEMMA LoadHearsTheList ==
  ASSUME PageInv, AnswersWereMade, NEW n \in Lines, Hear(n), HearLoad(n), calls[n].stage = "list"
  PROVE  PageInv'
<1>1. /\ n \in InFlight /\ calls[n].pc = "served" /\ calls[n].kind = "load" /\ Continue(n, "meta")
      /\ UNCHANGED <<latest, dropped, picked, sparse, poll, loads, interview, tainted>>
  BY DEF Hear, HearLoad, InFlight, apiRows
<1>2. PICK q : PageLine(n, q) /\ q.kind = calls[n].kind /\ q.card = calls[n].card /\ q.stage = "meta" /\ q.pc = "sent"
  BY <1>1, ContinueGoesOn DEF PageInv
<1>3. /\ view \in PageView /\ tainted \in BOOLEAN /\ view.chosen \subseteq view.shown /\ view.shown \subseteq Made
      /\ poll \in PagePoll
      /\ ~view.generated => view.shown = {}
  BY DEF PageInv, PageShape, PageKnows
<1>4. PICK a : a = calls[n].answer
  OBVIOUS
<1>5. n \in Of("load") /\ n \notin New
  BY <1>1 DEF Of, New
<1>6. ASSUME ~tainted
      PROVE  /\ a.cards = Served /\ a.picked = picked \cap Served /\ Of("generate") = {} /\ Of("select") = {}
             /\ Of("dismiss") = {} /\ New = {} /\ Chosen = {} /\ Dismissed = {}
             /\ Of("answers") # {} => a.cards = {}
  <2>1. CallsKeepApart /\ AnswersAreFresh /\ PageShows
    BY <1>6 DEF PageInv
  <2>2. a.cards = Served /\ a.picked = picked \cap Served
    BY <1>1, <1>4, <1>5, <2>1 DEF AnswersAreFresh
  <2>3. Of("generate") = {} /\ Of("select") = {} /\ Of("dismiss") = {}
    BY <1>5, <2>1 DEF CallsKeepApart
  <2>4. New = {} /\ Chosen = {} /\ Dismissed = {}
    BY <2>3 DEF New, Chosen, Dismissed
  <2>5. Of("answers") # {} => Listed /\ ~view.generated
    BY <2>1 DEF CallsKeepApart, Listed
  <2>6. Of("answers") # {} => Served \subseteq {}
    BY <1>3, <2>1, <2>4, <2>5 DEF PageShows
  <2> QED
    BY <2>2, <2>3, <2>4, <2>6
<1>7. /\ Shows(a) \in PageView /\ Shows(a).shown = a.cards /\ Shows(a).chosen = a.picked
      /\ a.cards \subseteq Made /\ a.picked \subseteq a.cards
      /\ Shows(a).generated /\ Shows(a).loading = view.loading /\ Shows(a).selecting = view.selecting
      /\ Shows(a).more = view.more
  BY <1>4, ListIsShown
<1>8. view' = IF a.cards # {} THEN Shows(a) ELSE view
  BY <1>1, <1>4 DEF HearLoad
<1>9. /\ view' \in PageView /\ view'.shown \subseteq Made /\ view'.chosen \subseteq view'.shown
      /\ ~view'.generated => view'.shown = {}
      /\ view'.loading = view.loading /\ view'.selecting = view.selecting /\ view'.more = view.more
      /\ a.cards # {} => view'.shown = a.cards /\ view'.chosen = a.picked
      /\ a.cards = {} => view' = view
  <2>1. CASE a.cards # {}
    BY <1>7, <1>8, <2>1
  <2>2. CASE a.cards = {}
    BY <1>3, <1>8, <2>2
  <2> QED
    BY <2>1, <2>2
<1>10. ~tainted' /\ Of("answers") # {} => view'.generated = view.generated
  BY <1>1, <1>6, <1>9
<1>11. /\ PageShape' /\ PageKnows' /\ SpinnersTurn'
       /\ ~tainted' => CallsKeepApart' /\ AnswersAreFresh'
       /\ InFlight' = InFlight /\ \A k \in PageKinds : Of(k)' = Of(k)
       /\ \A m \in InFlight \ {n} : calls'[m] = calls[m]
       /\ calls'[n].stage = q.stage
       /\ New' = New \ {n} /\ Chosen' = Chosen /\ Dismissed' = Dismissed
  BY <1>1, <1>2, <1>3, <1>9, <1>10, CallGoesOn
<1>12. Served' = Served /\ Of("load")' = Of("load") /\ Of("load") \subseteq InFlight
  BY <1>1, <1>11 DEF Served, PageKinds, Of
<1>13. Told' <=> Told
  BY <1>1, <1>2, <1>5, <1>11, <1>12 DEF Told
<1>14. ASSUME ~tainted' PROVE PageShows'
  <2>1. PageShows
    BY <1>1, <1>14 DEF PageInv
  <2>2. New' = {} /\ Chosen' = {} /\ Dismissed' = {} /\ Of("generate") = {}
    BY <1>1, <1>6, <1>11, <1>14
  <2>3. view'.shown \subseteq Served \cup Dismissed'
    BY <1>1, <1>6, <1>9, <1>14, <2>1 DEF PageShows
  <2>4. Served \subseteq view'.shown /\ \A c \in Served : c \in view'.chosen <=> c \in picked
    BY <1>1, <1>6, <1>9, <1>14
  <2>5. Told' => view'.more = (latest < MaxSets)
    BY <1>1, <1>6, <1>9, <1>13, <1>14, <2>1 DEF PageShows
  <2> QED
    BY <1>1, <1>5, <1>12, <2>2, <2>3, <2>4, <2>5 DEF PageShows
<1> QED
  BY <1>11, <1>14 DEF PageInv

LEMMA LoadHearsOfMore ==
  ASSUME PageInv, NEW n \in Lines, Hear(n), HearLoad(n), calls[n].stage = "meta"
  PROVE  PageInv'
<1>1. /\ n \in InFlight /\ calls[n].pc = "served" /\ calls[n].kind = "load" /\ Continue(n, "person")
      /\ UNCHANGED <<latest, dropped, picked, sparse, poll, loads, interview, tainted>>
  BY DEF Hear, HearLoad, InFlight, apiRows
<1>2. PICK q : PageLine(n, q) /\ q.kind = calls[n].kind /\ q.card = calls[n].card /\ q.stage = "person" /\ q.pc = "sent"
  BY <1>1, ContinueGoesOn DEF PageInv
<1>3. /\ view \in PageView /\ tainted \in BOOLEAN /\ view.chosen \subseteq view.shown /\ view.shown \subseteq Made
      /\ poll \in PagePoll /\ calls[n] \in PageCall
      /\ ~view.generated => view.shown = {}
  BY DEF PageInv, PageShape, PageKnows
<1>4. PICK a \in BOOLEAN : a = calls[n].answer.more
  BY <1>3 DEF PageCall, PageAnswer
<1>5. PICK v : v = [view EXCEPT !.more = a]
  OBVIOUS
<1>6. view' = v
  BY <1>1, <1>4, <1>5 DEF HearLoad
<1>7. /\ v \in PageView /\ v.shown = view.shown /\ v.chosen = view.chosen /\ v.generated = view.generated
      /\ v.more = a /\ v.loading = view.loading /\ v.selecting = view.selecting
  BY <1>3, <1>5 DEF PageView
<1>8. n \in Of("load") /\ n \notin New
  BY <1>1 DEF Of, New
<1>9. /\ PageShape' /\ PageKnows' /\ SpinnersTurn'
      /\ ~tainted' => CallsKeepApart' /\ AnswersAreFresh'
      /\ InFlight' = InFlight /\ \A k \in PageKinds : Of(k)' = Of(k)
      /\ \A m \in InFlight \ {n} : calls'[m] = calls[m]
      /\ calls'[n].stage = q.stage
      /\ New' = New \ {n} /\ Chosen' = Chosen /\ Dismissed' = Dismissed
  BY <1>1, <1>2, <1>3, <1>6, <1>7, CallGoesOn
<1>10. Served' = Served /\ Of("load")' = Of("load") /\ Listed /\ New' = New
  BY <1>1, <1>8, <1>9 DEF Served, PageKinds, Listed
<1>11. ASSUME ~tainted' PROVE PageShows'
  <2>1. PageShows /\ AnswersAreFresh /\ CallsKeepApart
    BY <1>1, <1>11 DEF PageInv
  <2>2. a = (latest < MaxSets)
    BY <1>1, <1>4, <2>1 DEF AnswersAreFresh
  <2>3. Chosen = {}
    BY <1>8, <2>1 DEF CallsKeepApart, Chosen
  <2> QED
    BY <1>1, <1>6, <1>7, <1>8, <1>9, <1>10, <2>1, <2>2, <2>3 DEF PageShows
<1> QED
  BY <1>9, <1>11 DEF PageInv

\* A load that fails goes on to the dossier.
LEMMA LoadFails ==
  ASSUME PageInv, NEW n \in Lines, Fail(n), calls[n].kind = "load"
  PROVE  PageInv'
<1>1. n \in InFlight /\ UNCHANGED <<latest, dropped, picked, sparse, poll, loads, apiRows>>
  BY DEF Fail, apiRows
<1>2. n \in Of("load") /\ n \notin Of("generate") /\ n \notin Of("select")
  BY <1>1 DEF Of
<1>3. calls[n].pc # "refused"
  BY <1>1, <1>2 DEF PageInv, PageKnows
<1>4. tainted' = TRUE
  BY <1>3 DEF Fail
<1>5. /\ view \in PageView /\ view.chosen \subseteq view.shown /\ view.shown \subseteq Made
      /\ poll \in PagePoll /\ interview \in PageInterview
      /\ ~view.generated => view.shown = {}
  BY DEF PageInv, PageShape, PageKnows
<1>6. CASE calls[n].stage = "person"
  <2>1. Heard(n) /\ interview' = [interview EXCEPT !.checked = TRUE] /\ UNCHANGED view
    BY <1>6 DEF Fail
  <2>2. PICK b \in BOOLEAN : b = interview.show
    BY <1>5 DEF PageInterview
  <2>3. interview' = [interview EXCEPT !.checked = TRUE, !.show = b]
    BY <1>5, <2>1, <2>2 DEF PageInterview
  <2> QED
    BY <1>1, <1>4, <1>6, <2>1, <2>2, <2>3, LoadIsDone
<1>7. CASE calls[n].stage # "person"
  <2>1. Continue(n, "person") /\ UNCHANGED <<view, interview>>
    BY <1>7 DEF Fail
  <2>2. PICK q : PageLine(n, q) /\ q.kind = calls[n].kind /\ q.card = calls[n].card /\ q.stage = "person" /\ q.pc = "sent"
    BY <2>1, ContinueGoesOn DEF PageInv
  <2>3. PageShape' /\ PageKnows' /\ SpinnersTurn'
    BY <1>1, <1>4, <1>5, <2>1, <2>2, CallGoesOn
  <2> QED
    BY <1>4, <2>3 DEF PageInv
<1> QED
  BY <1>6, <1>7

LEMMA NewSetIsHeard ==
  ASSUME PageInv, AnswersWereMade, NEW n \in Lines, Hear(n), HearGenerate(n), calls[n].stage = "list"
  PROVE  PageInv'
<1>1. /\ n \in InFlight /\ calls[n].pc = "served" /\ calls[n].kind = "generate" /\ Continue(n, "meta")
      /\ UNCHANGED <<latest, dropped, picked, sparse, loads, interview, tainted>>
  BY DEF Hear, HearGenerate, InFlight, apiRows
<1>2. PICK q : PageLine(n, q) /\ q.kind = calls[n].kind /\ q.card = calls[n].card /\ q.stage = "meta" /\ q.pc = "sent"
  BY <1>1, ContinueGoesOn DEF PageInv
<1>3. /\ tainted \in BOOLEAN /\ poll \in PagePoll /\ latest \in Nat
  BY DEF PageInv, PageShape
<1>4. PICK a : a = calls[n].answer
  OBVIOUS
<1>5. n \in Of("generate") /\ n \in New /\ n \notin Of("load")
  BY <1>1 DEF Of, New
<1>6. /\ Shows(a) \in PageView /\ Shows(a).shown = a.cards /\ Shows(a).chosen = a.picked
      /\ a.cards \subseteq Made /\ a.picked \subseteq a.cards
      /\ Shows(a).generated /\ Shows(a).loading = view.loading /\ Shows(a).selecting = view.selecting
      /\ Shows(a).more = view.more
  BY <1>4, ListIsShown
<1>7. PICK s : s = Shows(a)
  OBVIOUS
<1>8. PICK v : v = [s EXCEPT !.guidance = FALSE]
  OBVIOUS
<1>9. view' = v
  BY <1>1, <1>4, <1>7, <1>8 DEF HearGenerate
<1>10. /\ v \in PageView /\ v.shown = a.cards /\ v.chosen = a.picked /\ v.generated
       /\ v.loading = view.loading /\ v.selecting = view.selecting
  BY <1>6, <1>7, <1>8 DEF PageView
<1>11. poll' \in PagePoll
  <2>1. [pc |-> "wait", tries |-> 0, answer |-> NoAnswer] \in PagePoll
    BY NewCallIsACall DEF PagePoll
  <2>2. poll' = poll \/ poll' = [pc |-> "wait", tries |-> 0, answer |-> NoAnswer]
    BY DEF HearGenerate
  <2> QED
    BY <1>3, <2>1, <2>2
<1>12. ~tainted' => Of("answers") = {}
  BY <1>1, <1>5 DEF PageInv, CallsKeepApart
<1>13. /\ PageShape' /\ PageKnows' /\ SpinnersTurn'
       /\ ~tainted' => CallsKeepApart' /\ AnswersAreFresh'
       /\ InFlight' = InFlight /\ \A k \in PageKinds : Of(k)' = Of(k)
       /\ \A m \in InFlight \ {n} : calls'[m] = calls[m]
       /\ calls'[n].stage = q.stage
       /\ New' = New \ {n} /\ Chosen' = Chosen /\ Dismissed' = Dismissed
  BY <1>1, <1>2, <1>3, <1>6, <1>9, <1>10, <1>11, <1>12, CallGoesOn
<1>14. ASSUME ~tainted' PROVE PageShows'
  <2>1. CallsKeepApart /\ AnswersAreFresh
    BY <1>1, <1>14 DEF PageInv
  <2>2. /\ a.cards = Served /\ a.picked = {} /\ picked \cap Served = {}
        /\ \A m \in Of("select") \cup Of("dismiss") : calls[m].card \in Past
    BY <1>4, <1>5, <2>1 DEF AnswersAreFresh
  <2>3. Of("load") = {} /\ Of("load")' = {} /\ Served' = Served
    BY <1>1, <1>5, <1>13, <2>1 DEF CallsKeepApart, PageKinds, Served
  <2>4. loads' > 0 => Listed'
    BY <1>1, <2>1, <2>3, <1>14 DEF PageInv, PageShows, Listed
  <2>5. Past \cap Served = {}
    BY <1>3 DEF Past, Served, Cards
  <2>6. Chosen \subseteq Of("select") /\ Chosen \subseteq InFlight \ {n}
    BY <1>1 DEF Chosen, Of
  <2>7. \A m \in Chosen' : \A c \in Served : c \in picked <=> c = calls'[m].card
    BY <1>13, <2>2, <2>5, <2>6
  <2>8. ~\A m \in Of("generate")' : calls'[m].stage = "list"
    BY <1>2, <1>5, <1>13 DEF PageKinds
  <2>9. v.shown \subseteq Served \cup Dismissed' /\ Served \subseteq v.shown
    BY <1>10, <2>2
  <2>10. \A c \in Served : c \in v.chosen <=> c \in picked
    BY <1>10, <2>2
  <2> QED
    BY <1>1, <1>9, <2>3, <2>4, <2>7, <2>8, <2>9, <2>10 DEF PageShows
<1> QED
  BY <1>13, <1>14 DEF PageInv

\* The dossier is saved, and the call becomes a generation.
LEMMA AnswersAreHeard ==
  ASSUME PageInv, NEW n \in Lines, HearAnswers(n)
  PROVE  PageInv'
<1>1. /\ n \in InFlight /\ calls[n].pc = "served" /\ calls[n].kind = "answers"
      /\ UNCHANGED <<latest, dropped, picked, sparse, poll, loads>>
      /\ tainted' = (tainted \/ Clashes("generate"))
  BY DEF HearAnswers, InFlight, apiRows
<1>2. PICK q : q = [NewCall EXCEPT !.kind = "generate", !.pc = "sent"]
  OBVIOUS
<1>3. q \in PageCall /\ q.kind = "generate" /\ q.stage = "list" /\ q.pc = "sent"
  BY <1>2, NewCallIsACall DEF PageCall, PageKinds
<1>4. PageLine(n, q)
  BY <1>2, <1>3, OnePageLine DEF HearAnswers, PageInv
<1>5. /\ calls' \in [Lines -> PageCall] /\ calls'[n] = q /\ InFlight' = InFlight
      /\ \A m \in InFlight \ {n} : calls'[m] = calls[m]
      /\ {"load", "generate", "select", "dismiss", "answers"} \subseteq PageKinds
      /\ Of("generate")' = Of("generate") \cup {n} /\ Of("answers")' = Of("answers") \ {n}
      /\ n \notin Of("load") /\ n \notin Of("select") /\ n \notin Of("dismiss") /\ n \notin Of("generate")
      /\ n \in Of("answers") /\ \A k \in PageKinds : Of(k) \subseteq InFlight
  BY <1>1, <1>3, <1>4 DEF PageLine, InFlight, Of, PageKinds
<1>6. Of("load")' = Of("load") /\ Of("select")' = Of("select") /\ Of("dismiss")' = Of("dismiss")
  <2>1. \A k \in PageKinds : k # "generate" => Of(k)' = Of(k) \ {n}
    BY <1>3, <1>4 DEF PageLine
  <2>2. Of("load")' = Of("load") \ {n}
    BY <1>5, <2>1
  <2>3. Of("select")' = Of("select") \ {n}
    BY <1>5, <2>1
  <2>4. Of("dismiss")' = Of("dismiss") \ {n}
    BY <1>5, <2>1
  <2> QED
    BY <1>5, <2>2, <2>3, <2>4
<1>7. /\ view \in PageView /\ interview \in PageInterview /\ tainted \in BOOLEAN
      /\ tainted' \in BOOLEAN
  BY <1>1 DEF PageInv, PageShape, Clashes
<1>8. /\ view' \in PageView /\ SameView /\ view'.loading /\ view'.selecting = view.selecting
  <2>1. PICK v : v = [view EXCEPT !.loading = TRUE, !.error = FALSE]
    OBVIOUS
  <2>2. view' = v
    BY <2>1 DEF HearAnswers
  <2> QED
    BY <1>7, <2>1, <2>2 DEF PageView, SameView
<1>9. interview' \in PageInterview /\ interview'.checked = interview.checked
  <2>1. PICK i : i = [interview EXCEPT !.show = FALSE]
    OBVIOUS
  <2>2. interview' = i
    BY <2>1 DEF HearAnswers
  <2> QED
    BY <1>7, <2>1, <2>2 DEF PageInterview
<1>10. Made' = Made /\ Served' = Served /\ Past' = Past
  BY <1>1 DEF Made, Served, Past
<1>11. PageShape'
  BY <1>1, <1>5, <1>7, <1>8, <1>9, <1>10 DEF PageInv, PageShape
<1>12. PageKnows'
  <2>1. /\ \A m \in Of("select") \cup Of("dismiss") : calls'[m].card \in Made
        /\ \A m \in Of("dismiss") : calls'[m].pc = "served" => calls'[m].card \in dropped
    BY <1>5 DEF PageInv, PageKnows
  <2>2. \A m \in InFlight' :
          /\ calls'[m].pc = "refused" => m \in Of("generate")' \cup Of("select")'
          /\ calls'[m].stage = "person" => m \in Of("load")'
          /\ calls'[m].stage = "meta" => m \in Of("load")' \cup Of("generate")' /\ calls'[m].pc # "refused"
    BY <1>3, <1>5, <1>6 DEF PageInv, PageKnows
  <2> QED
    BY <1>1, <1>6, <1>8, <1>10, <2>1, <2>2 DEF PageInv, PageKnows, SameView
<1>13. SpinnersTurn'
  BY <1>5, <1>6, <1>8 DEF PageInv, SpinnersTurn
<1>14. New' = New /\ Chosen' = Chosen /\ Dismissed' = Dismissed
  <2>1. \A m : m \in New' <=> m \in New
    BY <1>3, <1>5 DEF New
  <2>2. \A m : m \in Chosen' <=> m \in Chosen
    BY <1>5, <1>6 DEF Chosen
  <2>3. \A m \in Of("dismiss") : calls'[m] = calls[m]
    BY <1>5
  <2>4. Dismissed' = Dismissed
    BY <1>6, <2>3 DEF Dismissed
  <2> QED
    BY <2>1, <2>2, <2>4
<1>15. ASSUME ~tainted' PROVE CallsKeepApart'
  <2>1. CallsKeepApart /\ ~Clashes("generate")
    BY <1>1, <1>15 DEF PageInv
  <2>2. Of("load") = {}
    BY <2>1 DEF Clashes, Of
  <2>3. Of("generate") = {} /\ \A m \in Of("answers") : m = n
    BY <1>5, <2>1 DEF CallsKeepApart
  <2>4. Of("answers")' = {} /\ \A m \in Of("generate")' : m = n
    BY <1>5, <2>3
  <2> QED
    BY <1>6, <1>8, <2>1, <2>2, <2>4 DEF CallsKeepApart
<1>16. ASSUME ~tainted' PROVE AnswersAreFresh'
  <2>1. AnswersAreFresh
    BY <1>1, <1>16 DEF PageInv
  <2>2. \A m \in Of("load") : calls'[m].stage = "list" /\ calls'[m].pc = "served" =>
          calls'[m].answer.cards = Served /\ calls'[m].answer.picked = picked \cap Served
    BY <1>5, <2>1 DEF AnswersAreFresh
  <2>3. New \subseteq InFlight \ {n}
    BY <1>5 DEF New
  <2>4. \A m \in New : /\ calls'[m].answer.cards = Served /\ calls'[m].answer.picked = {} /\ picked \cap Served = {}
                       /\ \A l \in Of("select") \cup Of("dismiss") : calls'[l].card \in Past
    BY <1>5, <2>1, <2>3 DEF AnswersAreFresh
  <2>5. \A m \in InFlight : calls'[m].stage = "meta" /\ calls'[m].pc = "served" =>
          calls'[m].answer.more = (latest < MaxSets)
    BY <1>3, <1>5, <2>1 DEF AnswersAreFresh
  <2> QED
    BY <1>1, <1>5, <1>6, <1>10, <1>14, <2>2, <2>4, <2>5 DEF AnswersAreFresh
<1>17. ASSUME ~tainted' PROVE PageShows'
  <2>1. PageShows
    BY <1>1, <1>17 DEF PageInv
  <2>2. (Listed' <=> Listed) /\ (Told' <=> Told)
    BY <1>5, <1>6, <1>9 DEF Listed, Told
  <2>3. (\A m \in Of("generate")' : calls'[m].stage = "list") => \A m \in Of("generate") : calls[m].stage = "list"
    BY <1>5
  <2>4. Chosen \subseteq InFlight \ {n}
    BY <1>5 DEF Chosen
  <2> QED
    BY <1>1, <1>5, <1>6, <1>8, <1>10, <1>14, <2>1, <2>2, <2>3, <2>4 DEF PageShows, SameView
<1> QED
  BY <1>11, <1>12, <1>13, <1>15, <1>16, <1>17 DEF PageInv

LEMMA PageHears ==
  ASSUME PageInv, AnswersWereMade, NEW n \in Lines, Hear(n)
  PROVE  PageInv'
<1>1. UNCHANGED <<apiRows, loads, tainted>> /\ calls[n].pc = "served" /\ n \in InFlight /\ calls[n] \in PageCall
  BY DEF Hear, InFlight, PageInv, PageShape
<1>2. CASE HearLoad(n)
  <2>1. calls[n].kind = "load" /\ UNCHANGED poll
    BY <1>2 DEF HearLoad
  <2>2. CASE calls[n].stage = "person"
    <3>1. interview \in PageInterview /\ calls[n].answer \in PageAnswer
      BY <1>1 DEF PageInv, PageShape, PageCall
    <3>2. PICK b \in BOOLEAN : b = (interview.show \/ calls[n].answer.sparse)
      BY Zenon
    <3>3. interview' = [interview EXCEPT !.checked = TRUE, !.show = b]
      <4>1. interview' = [interview EXCEPT !.checked = TRUE, !.show = @ \/ calls[n].answer.sparse]
        BY <1>2, <2>2 DEF HearLoad
      <4>2. [interview EXCEPT !.checked = TRUE].show = interview.show
        BY <3>1 DEF PageInterview
      <4> QED
        BY <3>1, <3>2, <4>1, <4>2 DEF PageInterview
    <3>4. Heard(n) /\ UNCHANGED view
      BY <1>2, <2>2 DEF HearLoad
    <3>5. interview.show => b
      BY <3>2
    <3>6. tainted' \in BOOLEAN /\ (tainted => tainted')
      BY <1>1 DEF PageInv, PageShape
    <3> QED
      BY <1>1, <2>1, <2>2, <3>3, <3>4, <3>5, <3>6, LoadIsDone
  <2>3. CASE calls[n].stage = "list"
    BY <1>2, <2>3, LoadHearsTheList
  <2>4. CASE calls[n].stage = "meta"
    BY <1>2, <2>4, LoadHearsOfMore
  <2> QED
    BY <1>1, <2>2, <2>3, <2>4 DEF PageCall
<1>3. CASE HearGenerate(n)
  BY <1>3, NewSetIsHeard, GenerationIsDone
<1>4. CASE HearSelect(n)
  BY <1>4, SelectionIsHeard
<1>5. CASE HearDismiss(n)
  BY <1>5, DismissalIsHeard
<1> QED
  BY <1>2, <1>3, <1>4, <1>5 DEF Hear

LEMMA PageFails ==
  ASSUME PageInv, NEW n \in Lines, Fail(n)
  PROVE  PageInv'
<1>1. calls[n].kind \in PageKinds
  BY DEF PageInv, PageShape, PageCall
<1> QED
  BY <1>1, LoadFails, RequestFails DEF PageKinds

-----------------------------------------------------------------------------
(* Every step.                                                             *)

LEMMA GenerationStarts ==
  ASSUME PageInv, StartGenerate, ~view.loading, ~(Interviewing /\ interview.saving),
         UNCHANGED <<apiRows, poll, loads>>,
         interview' \in PageInterview, interview'.checked = interview.checked
  PROVE  PageInv'
<1>1. view \in PageView /\ loads \in Nat /\ {"generate"} \subseteq PageKinds
  BY DEF PageInv, PageShape, PageKinds
<1>2. PICK v : v = [view EXCEPT !.loading = TRUE, !.error = FALSE]
  OBVIOUS
<1>3. view' = v /\ Send("generate", NoCard)
  BY <1>2 DEF StartGenerate, SendNow
<1>4. v \in PageView /\ v.loading /\ v.selecting = view.selecting
  BY <1>1, <1>2 DEF PageView
<1>5. SameView
  BY <1>1, <1>2, <1>3 DEF PageView, SameView
<1>6. PICK n, q : Starts(n, q, "generate", NoCard)
  BY <1>1, <1>3, SendStarts DEF PageInv
<1>7. UNCHANGED <<latest, dropped, picked, sparse, poll>>
  BY DEF apiRows
<1> QED
  BY <1>1, <1>3, <1>4, <1>5, <1>6, <1>7, PageAsks

LEMMA SelectionStarts ==
  ASSUME PageInv, NEW card \in Cards, Select(card), card \in view.shown, ShowsCards
  PROVE  PageInv'
<1>1. view \in PageView /\ loads \in Nat /\ interview \in PageInterview /\ {"select"} \subseteq PageKinds
  BY DEF PageInv, PageShape, PageKinds
<1>2. PICK v : v = [view EXCEPT !.selecting = TRUE]
  OBVIOUS
<1>3. view' = v /\ Send("select", card) /\ UNCHANGED <<apiRows, interview, poll, loads>>
  BY <1>2 DEF Select, SendNow
<1>4. v \in PageView /\ v.loading = view.loading
  BY <1>1, <1>2 DEF PageView
<1>5. SameView
  BY <1>1, <1>2, <1>3 DEF PageView, SameView
<1>6. PICK n, q : Starts(n, q, "select", card)
  BY <1>1, <1>3, SendStarts DEF PageInv
<1>7. UNCHANGED <<latest, dropped, picked, sparse, poll>>
  BY <1>3 DEF apiRows
<1>8. ~view.loading
  BY DEF ShowsCards
<1> QED
  BY <1>1, <1>3, <1>4, <1>5, <1>6, <1>7, <1>8, PageAsks

LEMMA DismissalStarts ==
  ASSUME PageInv, NEW card \in Cards, Dismiss(card)
  PROVE  PageInv'
<1>1. view \in PageView /\ loads \in Nat /\ interview \in PageInterview /\ {"dismiss"} \subseteq PageKinds
  BY DEF PageInv, PageShape, PageKinds
<1>2. Send("dismiss", card) /\ UNCHANGED <<view, interview, poll, loads>> /\ card \in view.shown /\ ~view.loading
  BY DEF Dismiss, SendNow, ShowsCards
<1>3. SameView
  BY <1>2 DEF SameView
<1>4. PICK n, q : Starts(n, q, "dismiss", card)
  BY <1>1, <1>2, SendStarts DEF PageInv
<1>5. UNCHANGED <<latest, dropped, picked, sparse, poll>>
  BY <1>2 DEF Dismiss, apiRows
<1> QED
  BY <1>1, <1>2, <1>3, <1>4, <1>5, PageAsks

LEMMA LoadStarts ==
  ASSUME PageInv, Load
  PROVE  PageInv'
<1>1. view \in PageView /\ loads \in Nat /\ interview \in PageInterview /\ {"load"} \subseteq PageKinds
  BY DEF PageInv, PageShape, PageKinds
<1>2. Send("load", NoCard) /\ UNCHANGED <<view, interview, poll>> /\ loads' \in Nat
  BY <1>1 DEF Load
<1>3. SameView
  BY <1>2 DEF SameView
<1>4. PICK n, q : Starts(n, q, "load", NoCard)
  BY <1>1, <1>2, SendStarts DEF PageInv
<1>5. UNCHANGED <<latest, dropped, picked, sparse, poll>>
  BY <1>2 DEF Load, apiRows
<1> QED
  BY <1>1, <1>2, <1>3, <1>4, <1>5, PageAsks

LEMMA InterviewFinishes ==
  ASSUME PageInv, NEW typed \in BOOLEAN, FinishInterview(typed)
  PROVE  PageInv'
<1>1. view \in PageView /\ loads \in Nat /\ interview \in PageInterview /\ {"answers"} \subseteq PageKinds
  BY DEF PageInv, PageShape, PageKinds
<1>2. Interviewing /\ ~interview.saving /\ UNCHANGED <<apiRows, poll, loads>> /\ ~view.loading
  BY DEF FinishInterview, Interviewing
<1>3. CASE interview.filled \/ typed
  <2>1. PICK i : i = [interview EXCEPT !.saving = TRUE, !.filled = TRUE]
    OBVIOUS
  <2>2. interview' = i /\ Send("answers", NoCard) /\ UNCHANGED view
    BY <1>3, <2>1 DEF FinishInterview, SendNow
  <2>3. i \in PageInterview /\ i.checked = interview.checked /\ i.saving /\ i.show = interview.show
    BY <1>1, <2>1 DEF PageInterview
  <2>4. SameView
    BY <2>2 DEF SameView
  <2>5. PICK n, q : Starts(n, q, "answers", NoCard)
    BY <1>1, <2>2, SendStarts DEF PageInv
  <2>6. UNCHANGED <<latest, dropped, picked, sparse, poll>>
    BY <1>2 DEF apiRows
  <2> QED
    BY <1>1, <1>2, <2>2, <2>3, <2>4, <2>5, <2>6, PageAsks
<1>4. CASE ~(interview.filled \/ typed)
  <2>1. StartGenerate /\ interview' = [interview EXCEPT !.show = FALSE]
    BY <1>4 DEF FinishInterview
  <2>2. interview' \in PageInterview /\ interview'.checked = interview.checked
    BY <1>1, <2>1 DEF PageInterview
  <2> QED
    BY <1>2, <2>1, <2>2, GenerationStarts
<1> QED
  BY <1>3, <1>4

\* Steps of the page on its own, and of the poll.
LEMMA PageIsQuiet ==
  ASSUME PageInv,
         \/ AskGuidance \/ PreviousQuestion \/ \E typed \in BOOLEAN : NextQuestion(typed)
         \/ \E set \in 1 .. MaxSets : Enrich(set)
         \/ PollTick \/ PollServed \/ PollHeard \/ PollLost \/ UNCHANGED giftPageVars
  PROVE  PageInv'
<1>1. /\ view \in PageView /\ interview \in PageInterview /\ poll \in PagePoll /\ sparse \in BOOLEAN
      /\ NoAnswer \in PageAnswer /\ Answer \in PageAnswer
  BY NewCallIsACall, AnswerIsAnAnswer DEF PageInv, PageShape
<1>2. UNCHANGED <<latest, dropped, picked, calls, loads, tainted>>
  BY DEF AskGuidance, PreviousQuestion, NextQuestion, Enrich, PollTick, PollServed, PollHeard, PollLost, giftPageVars, apiRows
<1>3. sparse' \in BOOLEAN
  BY <1>1 DEF AskGuidance, PreviousQuestion, NextQuestion, Enrich, PollTick, PollServed, PollHeard, PollLost, giftPageVars, apiRows
<1>4. /\ view' \in PageView /\ SameView /\ view'.loading = view.loading /\ view'.selecting = view.selecting
  <2>1. CASE UNCHANGED view
    BY <1>1, <2>1 DEF SameView
  <2>2. CASE AskGuidance
    <3>1. view' = [view EXCEPT !.guidance = TRUE]
      BY <2>2 DEF AskGuidance
    <3> QED
      BY <1>1, <3>1 DEF PageView, SameView
  <2>3. CASE PollHeard
    <3>1. PICK p \in BOOLEAN : p <=> view.pictures \/ (poll.answer.pictured /\ view.shown \cap poll.answer.cards # {})
      BY Zenon
    <3>2. view' = [view EXCEPT !.pictures = @ \/ (poll.answer.pictured /\ view.shown \cap poll.answer.cards # {})]
      BY <2>3 DEF PollHeard, Patch
    <3> QED
      BY <1>1, <3>1, <3>2 DEF PageView, SameView
  <2> QED
    BY <2>1, <2>2, <2>3 DEF PreviousQuestion, NextQuestion, Enrich, PollTick, PollServed, PollLost, giftPageVars
<1>5. /\ interview' \in PageInterview /\ interview'.saving = interview.saving /\ interview'.show = interview.show
      /\ interview'.checked = interview.checked
  <2>1. CASE UNCHANGED interview
    BY <1>1, <2>1
  <2>2. CASE PreviousQuestion
    <3>1. interview' = [interview EXCEPT !.step = @ - 1] /\ interview.step > 0
      BY <2>2 DEF PreviousQuestion
    <3> QED
      BY <1>1, <3>1 DEF PageInterview
  <2>3. ASSUME NEW typed \in BOOLEAN, NextQuestion(typed)
        PROVE  /\ interview' \in PageInterview /\ interview'.saving = interview.saving /\ interview'.show = interview.show
               /\ interview'.checked = interview.checked
    <3>1. PICK f \in BOOLEAN : f = (interview.filled \/ typed)
      BY Zenon
    <3>2. interview.step \in Nat /\ interview.step + 1 \in Nat
      BY <1>1 DEF PageInterview
    <3>3. PICK k \in Nat : k = interview.step + 1
      BY <3>2
    <3>4. PICK i : i = [interview EXCEPT !.step = k, !.filled = f]
      OBVIOUS
    <3>5. interview' = [interview EXCEPT !.step = @ + 1, !.filled = @ \/ typed]
      BY <2>3 DEF NextQuestion
    <3>6. interview.step \in Nat /\ [interview EXCEPT !.step = @ + 1].filled = interview.filled
      BY <1>1 DEF PageInterview
    <3>7. interview' = i
      BY <3>1, <3>4, <3>5, <3>6, <3>3
    <3>8. /\ i \in PageInterview /\ i.saving = interview.saving /\ i.show = interview.show
          /\ i.checked = interview.checked
      BY <1>1, <3>4 DEF PageInterview
    <3> QED
      BY <3>7, <3>8
  <2> QED
    BY <2>1, <2>2, <2>3 DEF AskGuidance, Enrich, PollTick, PollServed, PollHeard, PollLost, giftPageVars
<1>6. poll' \in PagePoll
  <2>1. PollGoesOn(poll) \in PagePoll
    BY <1>1 DEF PollGoesOn, PagePoll
  <2>2. CASE UNCHANGED poll
    BY <1>1, <2>2
  <2>3. CASE PollTick
    <3>1. PICK p : p = [poll EXCEPT !.pc = "sent", !.tries = @ + 1]
      OBVIOUS
    <3>2. poll' = p
      BY <2>3, <3>1 DEF PollTick
    <3>3. poll.tries + 1 \in Nat
      BY <1>1 DEF PagePoll
    <3>4. p \in PagePoll
      BY <1>1, <3>1, <3>3 DEF PagePoll
    <3> QED
      BY <3>2, <3>4
  <2>4. CASE PollServed
    <3>1. PICK a : a = Answer
      OBVIOUS
    <3>2. poll' = [poll EXCEPT !.pc = "served", !.answer = a] /\ a \in PageAnswer
      BY <1>1, <2>4, <3>1 DEF PollServed
    <3> QED
      BY <1>1, <3>2 DEF PagePoll
  <2>5. CASE PollHeard
    <3>1. [poll EXCEPT !.pc = "off", !.answer = NoAnswer] \in PagePoll
      BY <1>1 DEF PagePoll
    <3> QED
      BY <2>1, <2>5, <3>1 DEF PollHeard
  <2>6. CASE PollLost
    BY <2>1, <2>6 DEF PollLost
  <2> QED
    BY <2>2, <2>3, <2>4, <2>5, <2>6 DEF AskGuidance, PreviousQuestion, NextQuestion, Enrich, giftPageVars
<1> QED
  BY <1>2, <1>3, <1>4, <1>5, <1>6, PageRests

\* A call's answer is what the API had at some time, or nothing.
LEMMA AnswersStayMade ==
  ASSUME PageInv, AnswersWereMade, [GiftPageNext]_giftPageVars
  PROVE  AnswersWereMade'
<1>1. calls \in [Lines -> PageCall] /\ latest \in Nat /\ NoAnswer \in PageAnswer
  BY NewCallIsACall DEF PageInv, PageShape
<1>2. Made \subseteq Made'
  <2>1. latest' = latest \/ latest' = latest + 1
    BY DEF GiftPageNext, Load, PressGenerate, AskGuidance, PreviousQuestion, SkipInterview, NextQuestion, FinishInterview,
           SelectThis, SurpriseMe, Select, Dismiss, Serve, ServeRead, ServeGenerate, ServeSelect, ServeDismiss, Hear,
           HearAnswers, Fail, Enrich, PollTick, PollServed, PollHeard, PollLost, apiRows, giftPageVars
  <2>2. \A c \in Cards : c[1] \in Nat
    BY GiftPageAssumption DEF Cards
  <2> QED
    BY <1>1, <2>1, <2>2 DEF Made
<1>3. \A m \in Lines : \/ calls'[m].answer = calls[m].answer \/ calls'[m].answer = NoAnswer \/ calls'[m].answer = Answer'
  <2>1. ASSUME NEW kind, NEW card, Send(kind, card)
        PROVE  \A m \in Lines : calls'[m].answer = calls[m].answer \/ calls'[m].answer = NoAnswer
    <3>1. PICK q : q = [NewCall EXCEPT !.kind = kind, !.card = card, !.pc = "sent"]
      OBVIOUS
    <3>2. q.answer = NoAnswer
      BY <3>1 DEF NewCall
    <3>3. calls' = [calls EXCEPT ![Free] = q]
      BY <2>1, <3>1 DEF Send
    <3> QED
      BY <1>1, <3>2, <3>3
  <2>2. ASSUME NEW n \in Lines, Serve(n)
        PROVE  \A m \in Lines : calls'[m].answer = calls[m].answer \/ calls'[m].answer = Answer'
    <3>1. Replied(n) \/ Refuse(n)
      BY <2>2 DEF Serve, ServeGenerate, ServeSelect, ServeDismiss
    <3>2. calls[n] \in PageCall
      BY <1>1
    <3> QED
      BY <1>1, <3>1, <3>2 DEF Replied, Refuse, PageCall
  <2>3. ASSUME NEW n \in Lines, Hear(n) \/ Fail(n)
        PROVE  \A m \in Lines : calls'[m].answer = calls[m].answer \/ calls'[m].answer = NoAnswer
    <3>1. calls[n] \in PageCall
      BY <1>1
    <3>2. Heard(n) \/ \E stage \in {"meta", "person"} : Continue(n, stage)
      BY <2>3, <3>1 DEF Hear, HearLoad, HearGenerate, HearSelect, HearDismiss, Fail, PageCall, PageKinds
    <3> QED
      BY <1>1, <3>1, <3>2 DEF Heard, Continue, NewCall, PageCall
  <2>4. ASSUME NEW n \in Lines, HearAnswers(n)
        PROVE  \A m \in Lines : calls'[m].answer = calls[m].answer \/ calls'[m].answer = NoAnswer
    <3>1. PICK q : q = [NewCall EXCEPT !.kind = "generate", !.pc = "sent"]
      OBVIOUS
    <3>2. q.answer = NoAnswer
      BY <3>1 DEF NewCall
    <3>3. calls' = [calls EXCEPT ![n] = q]
      BY <2>4, <3>1 DEF HearAnswers
    <3> QED
      BY <1>1, <3>2, <3>3
  <2>5. CASE UNCHANGED calls
    BY <2>5
  <2> QED
    BY <2>1, <2>2, <2>3, <2>4, <2>5
       DEF GiftPageNext, Load, PressGenerate, StartGenerate, SendNow, AskGuidance, PreviousQuestion, SkipInterview,
           NextQuestion, FinishInterview, SelectThis, SurpriseMe, Select, Dismiss, Enrich, PollTick, PollServed, PollHeard,
           PollLost, giftPageVars
<1>4. Answer'.cards \subseteq Made' /\ Answer'.picked \subseteq Answer'.cards
  BY DEF Answer, Served, Made, Cards
<1>5. NoAnswer.cards = {} /\ NoAnswer.picked = {}
  BY DEF NoAnswer
<1> QED
  BY <1>2, <1>3, <1>4, <1>5 DEF AnswersWereMade

LEMMA PageStarts == GiftPageInit => PageInv /\ AnswersWereMade
<1> SUFFICES ASSUME GiftPageInit PROVE PageInv /\ AnswersWereMade
  OBVIOUS
<1>1. /\ calls \in [Lines -> PageCall] /\ InFlight = {} /\ \A k : Of(k) = {}
  BY NewCallIsACall DEF GiftPageInit, InFlight, Of
<1>2. PageShape
  <2>1. latest \in 0 .. MaxSets /\ loads \in Nat
    BY GiftPageAssumption DEF GiftPageInit
  <2>2. view \in PageView /\ interview \in PageInterview
    BY DEF GiftPageInit, PageView, PageInterview
  <2>3. poll \in PagePoll
    BY NewCallIsACall DEF GiftPageInit, PagePoll
  <2>4. sparse \in BOOLEAN /\ tainted \in BOOLEAN /\ dropped \subseteq Made /\ picked \subseteq Made
    BY DEF GiftPageInit
  <2> QED
    BY <1>1, <2>1, <2>2, <2>3, <2>4 DEF PageShape
<1>3. view.shown = {} /\ view.chosen = {} /\ ~view.loading /\ ~view.selecting /\ ~view.generated
  BY DEF GiftPageInit
<1>4. PageKnows /\ SpinnersTurn
  BY <1>1, <1>3 DEF PageKnows, SpinnersTurn
<1>5. CallsKeepApart /\ AnswersAreFresh
  BY <1>1 DEF CallsKeepApart, AnswersAreFresh, New
<1>6. ~Listed /\ ~Told
  BY <1>1 DEF GiftPageInit, Listed, Told
<1>7. loads = 0
  BY DEF GiftPageInit
<1>8. PageShows
  BY <1>3, <1>6, <1>7 DEF PageShows
<1>9. \A n \in Lines : calls[n].answer = NoAnswer
  BY DEF GiftPageInit, NewCall
<1>10. AnswersWereMade
  BY <1>9 DEF AnswersWereMade, NoAnswer
<1> QED
  BY <1>2, <1>4, <1>5, <1>8, <1>10 DEF PageInv

LEMMA PageGoesOn == PageInv /\ AnswersWereMade /\ [GiftPageNext]_giftPageVars => PageInv' /\ AnswersWereMade'
<1> SUFFICES ASSUME PageInv, AnswersWereMade, [GiftPageNext]_giftPageVars PROVE PageInv' /\ AnswersWereMade'
  OBVIOUS
<1>1. AnswersWereMade'
  BY AnswersStayMade
<1>2. interview \in PageInterview
  BY DEF PageInv, PageShape
<1>3. ASSUME Load PROVE PageInv'
  BY <1>3, LoadStarts
<1>4. ASSUME PressGenerate PROVE PageInv'
  BY <1>2, <1>4, GenerationStarts DEF PressGenerate
<1>5. ASSUME SkipInterview PROVE PageInv'
  <2>1. interview' \in PageInterview /\ interview'.checked = interview.checked
    BY <1>2, <1>5 DEF SkipInterview, PageInterview
  <2> QED
    BY <1>5, <2>1, GenerationStarts DEF SkipInterview, Interviewing
<1>6. ASSUME NEW typed \in BOOLEAN, FinishInterview(typed) PROVE PageInv'
  BY <1>6, InterviewFinishes
<1>7. ASSUME NEW card \in Cards, SelectThis(card) \/ SurpriseMe(card) PROVE PageInv'
  BY <1>7, SelectionStarts DEF SelectThis, SurpriseMe
<1>8. ASSUME NEW card \in Cards, Dismiss(card) PROVE PageInv'
  BY <1>8, DismissalStarts
<1>9. ASSUME NEW n \in Lines, Serve(n) PROVE PageInv'
  BY <1>9, PageServes
<1>10. ASSUME NEW n \in Lines, Hear(n) PROVE PageInv'
  BY <1>10, PageHears
<1>11. ASSUME NEW n \in Lines, HearAnswers(n) PROVE PageInv'
  BY <1>11, AnswersAreHeard
<1>12. ASSUME NEW n \in Lines, Fail(n) PROVE PageInv'
  BY <1>12, PageFails
<1>13. ASSUME \/ AskGuidance \/ PreviousQuestion \/ \E typed \in BOOLEAN : NextQuestion(typed)
              \/ \E set \in 1 .. MaxSets : Enrich(set)
              \/ PollTick \/ PollServed \/ PollHeard \/ PollLost \/ UNCHANGED giftPageVars
       PROVE  PageInv'
  BY <1>13, PageIsQuiet
<1> QED
  BY <1>1, <1>3, <1>4, <1>5, <1>6, <1>7, <1>8, <1>9, <1>10, <1>11, <1>12, <1>13 DEF GiftPageNext

\* The ideas on an event's page (suggestions-view.tsx): when no request is on
\* its way, no spinner turns, and the page shows the latest set without what
\* was dismissed, its selection and whether another set may be asked for, for
\* any number of ideas, sets, questions and requests.
THEOREM ThePageShowsWhatIsServed == GiftPageSpec => []ShownAsServed
<1>1. PageInv => ShownAsServed
  <2> SUFFICES ASSUME PageInv, InFlight = {}, loads > 0
               PROVE  /\ ~view.loading /\ ~view.selecting
                      /\ ~tainted => /\ view.shown = Served /\ view.chosen = picked \cap Served
                                     /\ view.more = (latest < MaxSets)
    BY DEF ShownAsServed
  <2>1. \A k : Of(k) = {}
    BY DEF Of
  <2>2. ~view.loading /\ ~view.selecting
    BY <2>1 DEF PageInv, SpinnersTurn
  <2>3. ASSUME ~tainted
        PROVE  view.shown = Served /\ view.chosen = picked \cap Served /\ view.more = (latest < MaxSets)
    <3>1. New = {} /\ Chosen = {} /\ Dismissed = {} /\ PageShows
      BY <2>1, <2>3 DEF PageInv, New, Chosen, Dismissed
    <3>2. Listed /\ Told
      BY <2>1, <3>1 DEF PageShows, Listed, Told
    <3>3. view.shown = Served
      BY <3>1, <3>2 DEF PageShows
    <3>4. view.chosen = picked \cap Served
      BY <3>1, <3>2, <3>3 DEF PageInv, PageKnows, PageShows
    <3>5. view.more = (latest < MaxSets)
      BY <2>1, <3>1, <3>2 DEF PageShows
    <3> QED
      BY <3>3, <3>4, <3>5
  <2> QED
    BY <2>2, <2>3
<1> QED
  BY <1>1, PageStarts, PageGoesOn, PTL DEF GiftPageSpec
=============================================================================
