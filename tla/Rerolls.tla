------------------------------ MODULE Rerolls ------------------------------
(***************************************************************************)
(* SuggestionsService.generate for one event of one user: the count of the *)
(* re-rolls, the cache, the claim of a request index that brackets the     *)
(* slow call of the AI service, and the release of the claim on failure.   *)
(*                                                                         *)
(* One action is one stretch of the handler between two awaits.  A set of  *)
(* suggestions is named by the call that makes it.  The checks before the  *)
(* count (rate limit, spend cap, ownership) only refuse; the Limits module *)
(* has the counters they use.                                              *)
(***************************************************************************)
EXTENDS Naturals, FiniteSets

CONSTANTS
  Calls,        \* POST /ai/suggestions calls, and the sets they make
  Bold,         \* the calls that ask for bold suggestions
  NoCall,       \* no set
  MaxRequests,  \* maxRerollRequests of the plan
  MaxFaults     \* bound on restarts and failing writes

ASSUME RerollsAssumption ==
  /\ IsFiniteSet(Calls)
  /\ Bold \subseteq Calls
  /\ NoCall \notin Calls
  /\ MaxRequests \in Nat
  /\ MaxFaults \in Nat

VARIABLES
  gen,      \* gen[c]: where call c is
  index,    \* index[c]: the request index it has counted
  answer,   \* answer[c]: the set it answers with
  claimed,  \* the calls that hold a row of suggestion_request_claims
  sets,     \* the calls whose suggestions are in the database
  cache,    \* cache[k]: the set stored under cache key k
  faults    \* restarts and failing writes so far

rerollVars == <<gen, index, answer, claimed, sets, cache, faults>>

-----------------------------------------------------------------------------
(* Types.                                                                  *)

GenRunning == {"counted", "missed", "claimed", "stored", "failing"}
GenEnded == {"done", "cached", "limit", "failed", "dead"}

\* suggest:<person>:<event>:<tier>:<index>:<surprise>, of which the last two
\* vary here.
Keys == (0..MaxRequests) \X BOOLEAN
Key(c) == <<index[c], c \in Bold>>

RerollsTypeOK ==
  /\ gen \in [Calls -> {"start"} \cup GenRunning \cup GenEnded]
  /\ index \in [Calls -> 0..MaxRequests]
  /\ answer \in [Calls -> Calls \cup {NoCall}]
  /\ claimed \subseteq Calls
  /\ sets \subseteq Calls
  /\ cache \in [Keys -> Calls \cup {NoCall}]
  /\ faults \in 0..MaxFaults

RerollsInit ==
  /\ gen = [c \in Calls |-> "start"]
  /\ index = [c \in Calls |-> 0]
  /\ answer = [c \in Calls |-> NoCall]
  /\ claimed = {}
  /\ sets = {}
  /\ cache = [k \in Keys |-> NoCall]
  /\ faults = 0

-----------------------------------------------------------------------------
(* Helpers.                                                                *)

EmptyCache == [k \in Keys |-> NoCall]
Fault == faults < MaxFaults /\ faults' = faults + 1

\* (event_id, request_index) of suggestion_request_claims is unique.
SlotTaken(i) == \E d \in claimed : index[d] = i

GenGoes(c, pc) == gen' = [gen EXCEPT ![c] = pc]

-----------------------------------------------------------------------------
(* generate.                                                               *)

\* The count of claims is the request index; at the limit the call ends.
GenCount(c) ==
  /\ gen[c] = "start"
  /\ index' = [index EXCEPT ![c] = Cardinality(claimed)]
  /\ GenGoes(c, IF Cardinality(claimed) >= MaxRequests THEN "limit" ELSE "counted")
  /\ UNCHANGED <<answer, claimed, sets, cache, faults>>

\* A cached set is answered without a claim.
GenHit(c) ==
  /\ gen[c] = "counted"
  /\ cache[Key(c)] # NoCall
  /\ answer' = [answer EXCEPT ![c] = cache[Key(c)]]
  /\ GenGoes(c, "cached")
  /\ UNCHANGED <<index, claimed, sets, cache, faults>>

GenMiss(c) ==
  /\ gen[c] = "counted"
  /\ cache[Key(c)] = NoCall
  /\ GenGoes(c, "missed")
  /\ UNCHANGED <<index, answer, claimed, sets, cache, faults>>

\* A plausible bug: (event_id, request_index) is not unique.
GenClaimUnchecked(c) ==
  /\ gen[c] = "missed"
  /\ GenGoes(c, "claimed")
  /\ claimed' = claimed \cup {c}
  /\ UNCHANGED <<index, answer, sets, cache, faults>>

GenClaim(c) ==
  /\ gen[c] = "missed"
  /\ IF SlotTaken(index[c])
     THEN GenGoes(c, "limit") /\ UNCHANGED claimed
     ELSE GenGoes(c, "claimed") /\ claimed' = claimed \cup {c}
  /\ UNCHANGED <<index, answer, sets, cache, faults>>

\* The AI service has answered and the suggestions are stored.
GenStore(c) ==
  /\ gen[c] = "claimed"
  /\ sets' = sets \cup {c}
  /\ GenGoes(c, "stored")
  /\ UNCHANGED <<index, answer, claimed, cache, faults>>

\* Audit row, spend, cache; the call answers with its own set.
GenFinish(c) ==
  /\ gen[c] = "stored"
  /\ cache' = [cache EXCEPT ![Key(c)] = c]
  /\ answer' = [answer EXCEPT ![c] = c]
  /\ GenGoes(c, "done")
  /\ UNCHANGED <<index, claimed, sets, faults>>

\* The AI service fails or times out, or a write after its answer fails.
GenFail(c) ==
  /\ gen[c] \in {"claimed", "stored"}
  /\ GenGoes(c, "failing")
  /\ UNCHANGED <<index, answer, claimed, sets, cache, faults>>

GenRelease(c) ==
  /\ gen[c] = "failing"
  /\ claimed' = claimed \ {c}
  /\ GenGoes(c, "failed")
  /\ UNCHANGED <<index, answer, sets, cache, faults>>

\* The release is best effort.
GenReleaseFails(c) ==
  /\ gen[c] = "failing"
  /\ Fault
  /\ GenGoes(c, "failed")
  /\ UNCHANGED <<index, answer, claimed, sets, cache>>

\* Entries expire.
CacheExpire(k) ==
  /\ cache[k] # NoCall
  /\ cache' = [cache EXCEPT ![k] = NoCall]
  /\ UNCHANGED <<gen, index, answer, claimed, sets, faults>>

\* The handlers die, and so does the cache, which is in the process.
GenRestart ==
  /\ Fault
  /\ gen' = [c \in Calls |-> IF gen[c] \in GenRunning THEN "dead" ELSE gen[c]]
  /\ cache' = EmptyCache
  /\ UNCHANGED <<index, answer, claimed, sets>>

GenStep(c) ==
  \/ GenHit(c) \/ GenMiss(c) \/ GenClaim(c) \/ GenStore(c)
  \/ GenFinish(c) \/ GenFail(c) \/ GenRelease(c) \/ GenReleaseFails(c)

RerollsNext ==
  \/ \E c \in Calls : GenCount(c) \/ GenStep(c)
  \/ \E k \in Keys : CacheExpire(k)
  \/ GenRestart

RerollsSpec == RerollsInit /\ [][RerollsNext]_rerollVars

-----------------------------------------------------------------------------
(* Properties.                                                             *)

\* However the calls interleave, fail or die, the user never gets, and the AI
\* service never works on, more sets than the plan allows: two calls that have
\* counted the same claims are told apart by the unique index, and a released
\* slot is given once (generate, suggestions.service.ts:81-128, 380-383).
SetsWithinPlan ==
  Cardinality({c \in Calls : gen[c] \in {"claimed", "stored", "done"}}) <= MaxRequests
=============================================================================
