------------------------------- MODULE Family -------------------------------
(***************************************************************************)
(* Family groups and the tiers that hang on them: FamilyService            *)
(* (createGroup, inviteMember, acceptInvite, removeMember, leaveFamily and *)
(* the cascade) and BillingService, whose webhooks and developer override  *)
(* change the tier of a subscriber and start the cascade.                  *)
(*                                                                         *)
(* One action is one stretch of a handler between two awaits.  A group, an *)
(* invite and a membership are named by the call that creates them.  A     *)
(* client's call that dies half-way is one that takes no further step.     *)
(***************************************************************************)
EXTENDS Naturals, FiniteSets

CONSTANTS
  Users,
  Subscribers,   \* users with a plan of their own: Stripe has events about them
  Groups,        \* POST /family/group calls, and the groups they create
  Invites,       \* POST /family/invites calls, and the invites they create
  Accepts,       \* POST /family/invites/:token/accept calls, and memberships
  Departures,    \* DELETE /family/members/:userId and POST /family/leave calls
  Hooks,         \* events of Stripe, and calls of the developer override
  NoSeat,        \* no membership
  MaxSeats,      \* familyMaxSeats of the plan, DEFAULT_MAX_SEATS without one
  MaxFaults      \* bound on failed and on repeated webhook calls

ASSUME FamilyAssumption ==
  /\ Users # {} /\ IsFiniteSet(Users)
  /\ Subscribers \subseteq Users
  /\ Groups # {}
  /\ Invites # {}
  /\ NoSeat \notin Accepts
  /\ MaxSeats \in Nat \ {0}
  /\ MaxFaults \in Nat

VARIABLES
  tier,     \* tier[u]: users.subscription_tier
  live,     \* the groups that exist
  owner,    \* owner[g]: who owns, or is about to own, group g
  seat,     \* seat[u]: the membership of u, named by the call that made it
  invite,   \* invite[i]: the row of i
  create,   \* create[g]: where the createGroup call of g is
  send,     \* send[i]: where the inviteMember call of i is
  accept,   \* accept[a]: where acceptInvite call a is, and its invite
  depart,   \* depart[d]: where removal or leave d is, its user and membership
  hook,     \* hook[e]: where the handler of e is, and what it has read
  faults    \* failed and repeated webhook calls so far

vars == <<tier, live, owner, seat, invite, create, send, accept, depart, hook, faults>>

-----------------------------------------------------------------------------
(* Types.                                                                  *)

Tier == {"free", "family"}   \* "free" stands for the other plans too

Invite == [status : {"none", "pending", "revoked", "accepted", "gone"},
           by : Users, group : Groups, email : Users]

Accept == [pc : {"start", "look", "seat", "joined", "refused"}, invite : Invites]

Departure == [pc : {"start", "write", "done", "refused"}, user : Users,
              seat : Accepts \cup {NoSeat}]

\* tier: what the event says; cascades: does its handler go on to the family?
\* retried: does Stripe send it again?
HookPc == {"start", "write", "read", "check", "delete", "done", "failed"}
HookRunning == {"write", "read", "check", "delete"}
Hook == [pc : HookPc, user : Users, tier : Tier, cascades : BOOLEAN,
         retried : BOOLEAN, group : Groups, members : SUBSET Users]

TypeOK ==
  /\ tier \in [Users -> Tier]
  /\ live \subseteq Groups
  /\ owner \in [Groups -> Users]
  /\ seat \in [Users -> Accepts \cup {NoSeat}]
  /\ invite \in [Invites -> Invite]
  /\ create \in [Groups -> {"start", "look", "create", "done", "refused"}]
  /\ send \in [Invites -> {"start", "read", "revoke", "create", "done", "refused"}]
  /\ accept \in [Accepts -> Accept]
  /\ depart \in [Departures -> Departure]
  /\ hook \in [Hooks -> Hook]
  /\ faults \in 0..MaxFaults

SomeUser == CHOOSE u \in Users : TRUE
SomeGroup == CHOOSE g \in Groups : TRUE

Init ==
  /\ tier = [u \in Users |-> IF u \in Subscribers THEN "family" ELSE "free"]
  /\ live = {}
  /\ owner = [g \in Groups |-> SomeUser]
  /\ seat = [u \in Users |-> NoSeat]
  /\ invite = [i \in Invites |-> [status |-> "none", by |-> SomeUser, group |-> SomeGroup,
                                  email |-> SomeUser]]
  /\ create = [g \in Groups |-> "start"]
  /\ send = [i \in Invites |-> "start"]
  /\ accept = [a \in Accepts |-> [pc |-> "start", invite |-> CHOOSE i \in Invites : TRUE]]
  /\ depart = [d \in Departures |-> [pc |-> "start", user |-> SomeUser, seat |-> NoSeat]]
  /\ hook = [e \in Hooks |-> [pc |-> "start", user |-> SomeUser, tier |-> "free",
                              cascades |-> FALSE, retried |-> FALSE,
                              group |-> SomeGroup, members |-> {}]]
  /\ faults = 0

-----------------------------------------------------------------------------
(* Helpers.                                                                *)

GroupOf(a) == invite[accept[a].invite].group
Members(g) == {u \in Users : seat[u] # NoSeat /\ GroupOf(seat[u]) = g}

\* owner_id is unique.
Owned(u) == {g \in live : owner[g] = u}

SeatsUsed(g) == Cardinality(Members(g)) + 1

SetTier(u, t) == tier' = [tier EXCEPT ![u] = t]
CreateGo(g, pc) == create' = [create EXCEPT ![g] = pc]
SendGo(i, pc) == send' = [send EXCEPT ![i] = pc]
AcceptGo(a, pc) == accept' = [accept EXCEPT ![a].pc = pc]
DepartGo(d, pc) == depart' = [depart EXCEPT ![d].pc = pc]
HookGo(e, pc) == hook' = [hook EXCEPT ![e].pc = pc]

-----------------------------------------------------------------------------
(* createGroup.                                                            *)

\* The user row is the one that the request was authenticated with.
CreateLoad(g, u) ==
  /\ create[g] = "start"
  /\ tier[u] = "family"
  /\ owner' = [owner EXCEPT ![g] = u]
  /\ CreateGo(g, "look")
  /\ UNCHANGED <<tier, live, seat, invite, send, accept, depart, hook, faults>>

CreateLook(g) ==
  /\ create[g] = "look"
  /\ CreateGo(g, IF Owned(owner[g]) = {} /\ seat[owner[g]] = NoSeat THEN "create" ELSE "refused")
  /\ UNCHANGED <<tier, live, owner, seat, invite, send, accept, depart, hook, faults>>

\* The unique index refuses a second group of one owner.
CreateGroup(g) ==
  /\ create[g] = "create"
  /\ \/ /\ Owned(owner[g]) = {}
        /\ live' = live \cup {g}
        /\ CreateGo(g, "done")
     \/ /\ Owned(owner[g]) # {}
        /\ CreateGo(g, "refused")
        /\ UNCHANGED live
  /\ UNCHANGED <<tier, owner, seat, invite, send, accept, depart, hook, faults>>

-----------------------------------------------------------------------------
(* inviteMember.                                                           *)

InviteLoad(i, u) ==
  /\ send[i] = "start"
  /\ tier[u] = "family"
  /\ invite' = [invite EXCEPT ![i].by = u]
  /\ SendGo(i, "read")
  /\ UNCHANGED <<tier, live, owner, seat, create, accept, depart, hook, faults>>

\* The group, the caller's own address and the seats.
InviteRead(i, v) ==
  /\ send[i] = "read"
  /\ v # invite[i].by
  /\ \E g \in Owned(invite[i].by) :
       /\ SeatsUsed(g) < MaxSeats
       /\ invite' = [invite EXCEPT ![i].group = g, ![i].email = v]
  /\ SendGo(i, "revoke")
  /\ UNCHANGED <<tier, live, owner, seat, create, accept, depart, hook, faults>>

InviteRevoke(i) ==
  /\ send[i] = "revoke"
  /\ invite' = [k \in Invites |->
       IF invite[k].status = "pending" /\ invite[k].group = invite[i].group
            /\ invite[k].email = invite[i].email
       THEN [invite[k] EXCEPT !.status = "revoked"] ELSE invite[k]]
  /\ SendGo(i, "create")
  /\ UNCHANGED <<tier, live, owner, seat, create, accept, depart, hook, faults>>

\* The foreign key refuses an invite to a group that is gone.
InviteCreate(i) ==
  /\ send[i] = "create"
  /\ \/ /\ invite[i].group \in live
        /\ invite' = [invite EXCEPT ![i].status = "pending"]
        /\ SendGo(i, "done")
     \/ /\ invite[i].group \notin live
        /\ SendGo(i, "refused")
        /\ UNCHANGED invite
  /\ UNCHANGED <<tier, live, owner, seat, create, accept, depart, hook, faults>>

-----------------------------------------------------------------------------
(* acceptInvite.                                                           *)

\* The caller is the user with the address of the invite; an invite that is
\* older than 14 days is one that nobody accepts.
AcceptRead(a, i) ==
  /\ accept[a].pc = "start"
  /\ invite[i].status = "pending"
  /\ accept' = [accept EXCEPT ![a].invite = i,
                               ![a].pc = "look"]
  /\ UNCHANGED <<tier, live, owner, seat, invite, create, send, depart, hook, faults>>

AcceptLook(a) ==
  /\ accept[a].pc = "look"
  /\ AcceptGo(a, IF seat[invite[accept[a].invite].email] = NoSeat THEN "seat" ELSE "refused")
  /\ UNCHANGED <<tier, live, owner, seat, invite, create, send, depart, hook, faults>>

Seats(a) ==
  LET u == invite[accept[a].invite].email IN
  /\ seat' = [seat EXCEPT ![u] = a]
  /\ SetTier(u, "family")
  /\ invite' = [invite EXCEPT ![accept[a].invite].status = "accepted"]
  /\ AcceptGo(a, "joined")

\* (mutant) the seats were counted before the transaction.
AcceptSeatUncounted(a) ==
  /\ accept[a].pc = "seat"
  /\ GroupOf(a) \in live
  /\ seat[invite[accept[a].invite].email] = NoSeat
  /\ Seats(a)
  /\ UNCHANGED <<live, owner, create, send, depart, hook, faults>>

\* One serializable transaction: two that overlap are one after the other, or
\* one is refused (P2034).  It does not look at the invite's status again.
AcceptSeat(a) ==
  /\ accept[a].pc = "seat"
  /\ GroupOf(a) \in live
  /\ SeatsUsed(GroupOf(a)) < MaxSeats
  /\ seat[invite[accept[a].invite].email] = NoSeat
  /\ Seats(a)
  /\ UNCHANGED <<live, owner, create, send, depart, hook, faults>>

AcceptRefuse(a) ==
  /\ accept[a].pc = "seat"
  /\ \/ GroupOf(a) \notin live
     \/ SeatsUsed(GroupOf(a)) >= MaxSeats
     \/ seat[invite[accept[a].invite].email] # NoSeat
     \/ \E b \in Accepts \ {a} : accept[b].pc = "seat"
  /\ AcceptGo(a, "refused")
  /\ UNCHANGED <<tier, live, owner, seat, invite, create, send, depart, hook, faults>>

-----------------------------------------------------------------------------
(* removeMember, by the owner of the user's group, and leaveFamily, by the *)
(* user: both read the membership and then delete it by its id.            *)

DepartRead(d, u) ==
  /\ depart[d].pc = "start"
  /\ seat[u] # NoSeat
  /\ depart' = [depart EXCEPT ![d] = [pc |-> "write", user |-> u, seat |-> seat[u]]]
  /\ UNCHANGED <<tier, live, owner, seat, invite, create, send, accept, hook, faults>>

\* (mutant) a membership that is gone is no error.
DepartWriteAnyway(d) ==
  /\ depart[d].pc = "write"
  /\ seat' = [seat EXCEPT ![depart[d].user] = IF @ = depart[d].seat THEN NoSeat ELSE @]
  /\ SetTier(depart[d].user, "free")
  /\ DepartGo(d, "done")
  /\ UNCHANGED <<live, owner, invite, create, send, accept, hook, faults>>

\* One transaction: if the membership is gone, nothing is written (P2025).
DepartWrite(d) ==
  /\ depart[d].pc = "write"
  /\ \/ /\ seat[depart[d].user] = depart[d].seat
        /\ seat' = [seat EXCEPT ![depart[d].user] = NoSeat]
        /\ SetTier(depart[d].user, "free")
        /\ DepartGo(d, "done")
     \/ /\ seat[depart[d].user] # depart[d].seat
        /\ DepartGo(d, "refused")
        /\ UNCHANGED <<seat, tier>>
  /\ UNCHANGED <<live, owner, invite, create, send, accept, hook, faults>>

-----------------------------------------------------------------------------
(* Billing.                                                                *)

\* What can be said about a subscriber: a checkout is completed, the
\* subscription is updated to any plan (a price that no plan has means free),
\* it ends or its payment fails, or the developer override sets any tier.
\* Only a checkout does not cascade, and Stripe sends all but the override
\* again until they are answered.
HookArrive(e, u) ==
  /\ hook[e].pc = "start"
  /\ u \in Subscribers
  /\ \E t \in Tier, cascades \in BOOLEAN, retried \in BOOLEAN :
       /\ ~cascades => retried
       /\ hook' = [hook EXCEPT ![e].pc = "write", ![e].user = u, ![e].tier = t,
                     ![e].cascades = cascades, ![e].retried = retried]
  /\ UNCHANGED <<tier, live, owner, seat, invite, create, send, accept, depart, faults>>

HookWrite(e) ==
  /\ hook[e].pc = "write"
  /\ SetTier(hook[e].user, hook[e].tier)
  /\ HookGo(e, IF hook[e].cascades THEN "read" ELSE "done")
  /\ UNCHANGED <<live, owner, seat, invite, create, send, accept, depart, faults>>

\* The cascade: the group of the user with its members,
HookRead(e) ==
  /\ hook[e].pc = "read"
  /\ \/ /\ Owned(hook[e].user) = {}
        /\ HookGo(e, "done")
     \/ \E g \in Owned(hook[e].user) :
          hook' = [hook EXCEPT ![e].pc = "check", ![e].group = g, ![e].members = Members(g)]
  /\ UNCHANGED <<tier, live, owner, seat, invite, create, send, accept, depart, faults>>

\* then the tier of the user,
HookCheck(e) ==
  /\ hook[e].pc = "check"
  /\ HookGo(e, IF tier[hook[e].user] = "family" THEN "done" ELSE "delete")
  /\ UNCHANGED <<tier, live, owner, seat, invite, create, send, accept, depart, faults>>

\* then one transaction: the members read above lose the tier, and the group
\* goes with its memberships and invites, unless it is gone already (P2025).
HookDelete(e) ==
  /\ hook[e].pc = "delete"
  /\ \/ /\ hook[e].group \in live
        /\ tier' = [u \in Users |-> IF u \in hook[e].members THEN "free" ELSE tier[u]]
        /\ live' = live \ {hook[e].group}
        /\ seat' = [u \in Users |-> IF u \in Members(hook[e].group) THEN NoSeat ELSE seat[u]]
        /\ invite' = [i \in Invites |->
             IF invite[i].group = hook[e].group /\ invite[i].status # "none"
             THEN [invite[i] EXCEPT !.status = "gone"] ELSE invite[i]]
        /\ HookGo(e, "done")
     \/ /\ hook[e].group \notin live
        /\ HookGo(e, "failed")
        /\ UNCHANGED <<tier, live, seat, invite>>
  /\ UNCHANGED <<owner, create, send, accept, depart, faults>>

\* (mutant) the handler logs a failure and answers as if it had worked.
HookFailAnswered(e) ==
  /\ hook[e].pc \in HookRunning
  /\ faults < MaxFaults
  /\ faults' = faults + 1
  /\ HookGo(e, "done")
  /\ UNCHANGED <<tier, live, owner, seat, invite, create, send, accept, depart>>

\* A query fails or the process dies.
HookFail(e) ==
  /\ hook[e].pc \in HookRunning
  /\ faults < MaxFaults
  /\ faults' = faults + 1
  /\ HookGo(e, "failed")
  /\ UNCHANGED <<tier, live, owner, seat, invite, create, send, accept, depart>>

\* Stripe sends an event again that has not been answered with success,
HookRetry(e) ==
  /\ hook[e].pc = "failed"
  /\ hook[e].retried
  /\ HookGo(e, "write")
  /\ UNCHANGED <<tier, live, owner, seat, invite, create, send, accept, depart, faults>>

\* and sometimes one that has been.
HookRepeat(e) ==
  /\ hook[e].pc = "done"
  /\ hook[e].retried
  /\ faults < MaxFaults
  /\ faults' = faults + 1
  /\ HookGo(e, "write")
  /\ UNCHANGED <<tier, live, owner, seat, invite, create, send, accept, depart>>

-----------------------------------------------------------------------------
HookStep(e) ==
  HookWrite(e) \/ HookRead(e) \/ HookCheck(e) \/ HookDelete(e) \/ HookRetry(e)

Next ==
  \/ \E g \in Groups, u \in Users : CreateLoad(g, u)
  \/ \E g \in Groups : CreateLook(g) \/ CreateGroup(g)
  \/ \E i \in Invites, u \in Users : InviteLoad(i, u) \/ InviteRead(i, u)
  \/ \E i \in Invites : InviteRevoke(i) \/ InviteCreate(i)
  \/ \E a \in Accepts, i \in Invites : AcceptRead(a, i)
  \/ \E a \in Accepts : AcceptLook(a) \/ AcceptSeat(a) \/ AcceptRefuse(a)
  \/ \E d \in Departures, u \in Users : DepartRead(d, u)
  \/ \E d \in Departures : DepartWrite(d)
  \/ \E e \in Hooks, u \in Users : HookArrive(e, u)
  \/ \E e \in Hooks : HookStep(e) \/ HookFail(e) \/ HookRepeat(e)

Spec == Init /\ [][Next]_vars

\* The handler of an event goes on, and Stripe retries (for days).
FairSpec == Spec /\ \A e \in Hooks : WF_vars(HookStep(e))

-----------------------------------------------------------------------------
(* Properties.                                                             *)

\* No group has more seats than the plan says, although invites are sent and
\* accepted against counts that are old (acceptInvite,
\* family.service.ts:271-276).
SeatsWithinPlan == \A g \in live : SeatsUsed(g) <= MaxSeats

\* The groups that have ever seated u.
SeatedIn(u) ==
  {GroupOf(a) : a \in {b \in Accepts : accept[b].pc = "joined"
                                       /\ invite[accept[b].invite].email = u}}

\* A member without a plan of his own is on the family tier, through removals,
\* leaves and new invites, as long as one group is all he has been in (the
\* transactions of family.service.ts:279-314, :341-347, :358-364, :384-394).
\* The cascade of a second group may have read him while he was in that one.
MembersHaveTheTier ==
  \A u \in Users \ Subscribers :
    seat[u] # NoSeat /\ SeatedIn(u) = {GroupOf(seat[u])} => tier[u] = "family"

\* Once a webhook has taken the family tier from an owner, his group ends, or
\* he is back on the tier, through failures of the handler and other events
\* (handleSubscriptionUpdated to handlePaymentFailed, billing.service.ts:234-304).
DowngradesReachTheFamily ==
  \A e \in Hooks, g \in Groups :
    /\ hook[e].pc = "read" /\ hook[e].retried
    /\ g \in live /\ owner[g] = hook[e].user
    ~> g \notin live \/ tier[owner[g]] = "family"

(* What the comment of the cascade says: "If that user owned a family      *)
(* group, every member loses their free ride too" (family.service.ts:369): *)
(* once the group is gone and the cascade over, nobody whom it seated is   *)
(* on the family tier without a seat or a plan.                            *)
EveryMemberLosesTheRide ==
  \A u \in Users \ Subscribers :
    tier[u] = "family" => seat[u] # NoSeat
=============================================================================
