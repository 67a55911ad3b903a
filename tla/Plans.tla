------------------------------- MODULE Plans -------------------------------
(***************************************************************************)
(* EntitlementsService: the plans that an administrator edits, and the     *)
(* caches they are read through.  Each instance of the API has an entry in *)
(* RedisService's store (the in-memory fallback, see README) and, for the  *)
(* list of all plans, a copy in front of it.                               *)
(*                                                                         *)
(* What a cached plan says is its age: 0 while the database agrees with    *)
(* it, n + 1 when an edit replaced it n ticks ago.  No step counts edits,  *)
(* so their number has no bound.                                           *)
(***************************************************************************)
EXTENDS Naturals, FiniteSets

CONSTANTS
  Instances,   \* processes of the API
  Readers,     \* reads that find the caches empty and ask the database
  AllTtl,      \* time to live of the stored list: 300 s
  PlanTtl,     \* of a stored plan: 60 s (ENTITLEMENTS_TTL_SECONDS)
  LocalTtl,    \* of the copy in front: 5 s (ALL_PLANS_IN_PROCESS_TTL_MS)
  ReadTime     \* the longest a query of the database takes

ASSUME PlansAssumption ==
  /\ AllTtl \in Nat /\ LocalTtl \in Nat \ {0} /\ ReadTime \in Nat
  /\ PlanTtl \in 0..AllTtl

VARIABLES
  cached,  \* what this behaviour reads: the list of plans or one plan
  store,   \* store[i]: the entry in the store of instance i
  local,   \* local[i]: allPlansCache of instance i
  reader,  \* reader[r]: where it is, its instance, what it read, its time
  editor,  \* the instance whose edit has yet to invalidate, if any
  got      \* the age of what the last call returned

planVars == <<cached, store, local, reader, editor, got>>

-----------------------------------------------------------------------------
(* Types.                                                                  *)

Oldest == AllTtl + LocalTtl + ReadTime + 1
Ages == 0..Oldest

Entry == [set : BOOLEAN, age : Ages, left : 0..(AllTtl + LocalTtl)]
NoEntry == [set |-> FALSE, age |-> 0, left |-> 0]
Reader == [pc : {"idle", "query", "read"}, at : Instances, age : Ages, time : 0..ReadTime]

PlansTypeOK ==
  /\ cached \in {"all", "plan"}
  /\ store \in [Instances -> Entry]
  /\ local \in [Instances -> Entry]
  /\ reader \in [Readers -> Reader]
  /\ editor \in SUBSET Instances
  /\ got \in Ages

NoReader == [pc |-> "idle", at |-> CHOOSE i \in Instances : TRUE, age |-> 0, time |-> 0]

PlansInit ==
  /\ cached \in {"all", "plan"}
  /\ store = [i \in Instances |-> NoEntry]
  /\ local = [i \in Instances |-> NoEntry]
  /\ reader = [r \in Readers |-> NoReader]
  /\ editor = {}
  /\ got = 0

-----------------------------------------------------------------------------
(* Reads.                                                                  *)

\* memGet keeps an entry to the end of its time, the copy goes at its end.
LocalHit(i) == local[i].set /\ local[i].left > 0
StoreHit(i) == store[i].set

Fresh(age, ttl) == [set |-> TRUE, age |-> age, left |-> ttl]

\* A plausible bug: a hit renews the entry of the store.
AllPlansHitRenews(i) ==
  /\ cached = "all" /\ ~LocalHit(i) /\ StoreHit(i)
  /\ got' = store[i].age
  /\ local' = [local EXCEPT ![i] = Fresh(store[i].age, LocalTtl)]
  /\ store' = [store EXCEPT ![i] = Fresh(@.age, AllTtl)]
  /\ UNCHANGED <<cached, reader, editor>>

\* getAllPlans: the copy, else the store, which renews the copy.
AllPlansHit(i) ==
  /\ cached = "all"
  /\ \/ LocalHit(i) /\ got' = local[i].age /\ UNCHANGED local
     \/ /\ ~LocalHit(i) /\ StoreHit(i)
        /\ got' = store[i].age
        /\ local' = [local EXCEPT ![i] = Fresh(store[i].age, LocalTtl)]
  /\ UNCHANGED <<cached, store, reader, editor>>

PlanHit(i) ==
  /\ cached = "plan" /\ StoreHit(i)
  /\ got' = store[i].age
  /\ UNCHANGED <<cached, store, local, reader, editor>>

\* Neither has it: the database is asked.
PlansMiss(r, i) ==
  /\ reader[r].pc = "idle"
  /\ ~StoreHit(i) /\ (cached = "all" => ~LocalHit(i))
  /\ reader' = [reader EXCEPT ![r] = [NoReader EXCEPT !.pc = "query", !.at = i]]
  /\ UNCHANGED <<cached, store, local, editor, got>>

QueryPlans(r) ==
  /\ reader[r].pc = "query"
  /\ reader' = [reader EXCEPT ![r].pc = "read"]
  /\ UNCHANGED <<cached, store, local, editor, got>>

\* The answer is stored, whatever has been invalidated meanwhile.
PlansStore(r) ==
  LET q == reader[r] IN
  /\ q.pc = "read"
  /\ store' = [store EXCEPT ![q.at] = Fresh(q.age, IF cached = "all" THEN AllTtl ELSE PlanTtl)]
  /\ local' = IF cached = "all" THEN [local EXCEPT ![q.at] = Fresh(q.age, LocalTtl)] ELSE local
  /\ got' = q.age
  /\ reader' = [reader EXCEPT ![r] = NoReader]
  /\ UNCHANGED <<cached, editor>>

-----------------------------------------------------------------------------
(* Edits, and time.                                                        *)

\* What everybody holds is replaced: its age starts.
Replace(e) == IF e.set /\ e.age = 0 THEN [e EXCEPT !.age = 1] ELSE e

\* upsertPlanLimit, createPlan, setPlanActive: the write comes first.
PlanWrite(i) ==
  /\ editor = {}
  /\ editor' = {i}
  /\ store' = [j \in Instances |-> Replace(store[j])]
  /\ local' = [j \in Instances |-> Replace(local[j])]
  /\ reader' = [r \in Readers |-> IF reader[r].pc = "read" /\ reader[r].age = 0
                                  THEN [reader[r] EXCEPT !.age = 1] ELSE reader[r]]
  /\ got' = 0
  /\ UNCHANGED cached

\* Then the caches of the instance that wrote, and of no other.
InvalidateCache(i) ==
  /\ i \in editor
  /\ store' = [store EXCEPT ![i] = NoEntry]
  /\ local' = [local EXCEPT ![i] = NoEntry]
  /\ editor' = {}
  /\ UNCHANGED <<cached, reader, got>>

Older(age) == IF age \in 1..(Oldest - 1) THEN age + 1 ELSE age

\* An entry whose time has passed is as good as gone.
Wear(e) == IF e.set /\ e.left > 0
           THEN [e EXCEPT !.left = @ - 1, !.age = Older(@)] ELSE NoEntry

\* A query does not outlast ReadTime, and an edit invalidates in its tick.
PlansTick ==
  /\ editor = {}
  /\ \A r \in Readers : reader[r].pc # "idle" => reader[r].time < ReadTime
  /\ store' = [i \in Instances |-> Wear(store[i])]
  /\ local' = [i \in Instances |-> Wear(local[i])]
  /\ reader' = [r \in Readers |->
                  IF reader[r].pc = "idle" THEN reader[r]
                  ELSE [reader[r] EXCEPT !.time = @ + 1, !.age = Older(@)]]
  /\ got' = 0
  /\ UNCHANGED <<cached, editor>>

PlansNext ==
  \/ \E i \in Instances : \/ AllPlansHit(i) \/ PlanHit(i)
                          \/ PlanWrite(i) \/ InvalidateCache(i)
  \/ \E r \in Readers : \/ \E i \in Instances : PlansMiss(r, i)
                        \/ QueryPlans(r) \/ PlansStore(r)
  \/ PlansTick

PlansSpec == PlansInit /\ [][PlansNext]_planVars

-----------------------------------------------------------------------------
(* Properties.                                                             *)

\* An edit reaches every reader of every instance in the end: what a read
\* returns was replaced no longer ago than the times to live and one query
\* together, though a slow reader stores an old plan again after the edit has
\* emptied the caches, and the copy in front outlives the entry it was taken
\* from (getPlan, getAllPlans, invalidateCache, entitlements.service.ts:46-83, 222-230).
StalenessIsBounded ==
  got <= IF cached = "all" THEN AllTtl + LocalTtl + ReadTime ELSE PlanTtl + ReadTime + 1
=============================================================================
