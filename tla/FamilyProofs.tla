---------------------------- MODULE FamilyProofs ----------------------------
(***************************************************************************)
(* Theorems about Family, for any set of calls and groups and any finite   *)
(* set of users: types, the bound on seats, and the tier of the members.   *)
(***************************************************************************)
EXTENDS Family, FiniteSetTheorems, TLAPS

-----------------------------------------------------------------------------
(* The inductive invariant.                                                *)

\* An invite has a status only once its call has created it.
Sent == \A i \in Invites : invite[i].status # "none" => send[i] = "done"

\* A call that got past its reads has an invite that was created.
Begun(a) == accept[a].pc \in {"look", "seat", "joined"}
Invited == \A a \in Accepts : Begun(a) => invite[accept[a].invite].status # "none"

\* A membership is that of the user whose invite was accepted.
Held(u) ==
  seat[u] # NoSeat => /\ accept[seat[u]].pc = "joined"
                      /\ invite[accept[seat[u]].invite].email = u

\* A cascade is about a subscriber, and about users whom its group has seated.
Cascade(e) ==
  /\ hook[e].pc # "start" => hook[e].user \in Subscribers
  /\ hook[e].pc \in {"check", "delete"} =>
       \A u \in hook[e].members : hook[e].group \in SeatedIn(u)

WithinPlan == \A g \in Groups : SeatsUsed(g) <= MaxSeats

IInv ==
  /\ TypeOK
  /\ Sent
  /\ Invited
  /\ \A u \in Users : Held(u)
  /\ \A e \in Hooks : Cascade(e)
  /\ WithinPlan
  /\ MembersHaveTheTier

-----------------------------------------------------------------------------
(* Types.                                                                  *)

LEMMA TypeInit == Init => TypeOK
<1> SUFFICES ASSUME Init PROVE TypeOK
  OBVIOUS
<1>1. SomeUser \in Users /\ SomeGroup \in Groups /\ (CHOOSE i \in Invites : TRUE) \in Invites
  BY FamilyAssumption DEF SomeUser, SomeGroup
<1>2. 0 \in 0..MaxFaults
  BY FamilyAssumption
<1> QED
  BY <1>1, <1>2 DEF Init, TypeOK, Tier, Invite, Accept, Departure, Hook, HookPc

LEMMA TypeClients ==
  ASSUME TypeOK,
         \/ \E g \in Groups, u \in Users : CreateLoad(g, u)
         \/ \E g \in Groups : CreateLook(g) \/ CreateGroup(g)
         \/ \E i \in Invites, u \in Users : InviteLoad(i, u) \/ InviteRead(i, u)
         \/ \E i \in Invites : InviteRevoke(i) \/ InviteCreate(i)
         \/ \E a \in Accepts, i \in Invites : AcceptRead(a, i)
         \/ \E a \in Accepts : AcceptLook(a) \/ AcceptSeat(a) \/ AcceptRefuse(a)
         \/ \E d \in Departures, u \in Users : DepartRead(d, u)
         \/ \E d \in Departures : DepartWrite(d)
  PROVE  TypeOK'
<1>1. ASSUME NEW g \in Groups, NEW u \in Users, CreateLoad(g, u) PROVE TypeOK'
  BY <1>1 DEF CreateLoad, CreateGo, TypeOK
<1>2. ASSUME NEW g \in Groups, CreateLook(g) \/ CreateGroup(g) PROVE TypeOK'
  BY <1>2 DEF CreateLook, CreateGroup, CreateGo, TypeOK
<1>3. ASSUME NEW i \in Invites, NEW u \in Users, InviteLoad(i, u) \/ InviteRead(i, u) PROVE TypeOK'
  <2>1. CASE InviteLoad(i, u)
    <3>1. invite' \in [Invites -> Invite]
      BY <2>1 DEF InviteLoad, TypeOK, Invite
    <3> QED
      BY <2>1, <3>1 DEF InviteLoad, SendGo, TypeOK
  <2>2. CASE InviteRead(i, u)
    <3>1. PICK g \in Groups : invite' = [invite EXCEPT ![i].group = g, ![i].email = u]
      BY <2>2 DEF InviteRead, Owned, TypeOK
    <3>2. invite' \in [Invites -> Invite]
      BY <3>1 DEF TypeOK, Invite
    <3> QED
      BY <2>2, <3>2 DEF InviteRead, SendGo, TypeOK
  <2> QED
    BY <1>3, <2>1, <2>2
<1>4. ASSUME NEW i \in Invites, InviteRevoke(i) PROVE TypeOK'
  <2>1. invite' \in [Invites -> Invite]
    BY <1>4 DEF InviteRevoke, TypeOK, Invite
  <2> QED
    BY <1>4, <2>1 DEF InviteRevoke, SendGo, TypeOK
<1>5. ASSUME NEW i \in Invites, InviteCreate(i) PROVE TypeOK'
  <2>1. invite' \in [Invites -> Invite]
    BY <1>5 DEF InviteCreate, TypeOK, Invite
  <2> QED
    BY <1>5, <2>1 DEF InviteCreate, SendGo, TypeOK
<1>6. ASSUME NEW a \in Accepts, NEW i \in Invites, AcceptRead(a, i) PROVE TypeOK'
  <2>1. accept' \in [Accepts -> Accept]
    BY <1>6 DEF AcceptRead, TypeOK, Accept
  <2> QED
    BY <1>6, <2>1 DEF AcceptRead, TypeOK
<1>7. ASSUME NEW a \in Accepts, AcceptSeat(a) PROVE TypeOK'
  <2>1. accept[a].invite \in Invites /\ invite[accept[a].invite].email \in Users
    BY DEF TypeOK, Accept, Invite
  <2>2. accept' \in [Accepts -> Accept] /\ invite' \in [Invites -> Invite]
    BY <1>7, <2>1 DEF AcceptSeat, Seats, AcceptGo, TypeOK, Accept, Invite
  <2>3. seat' \in [Users -> Accepts \cup {NoSeat}] /\ tier' \in [Users -> Tier]
    BY <1>7, <2>1 DEF AcceptSeat, Seats, SetTier, TypeOK, Tier
  <2> QED
    BY <1>7, <2>2, <2>3 DEF AcceptSeat, Seats, TypeOK
<1>8. ASSUME NEW a \in Accepts, AcceptLook(a) \/ AcceptRefuse(a) PROVE TypeOK'
  <2>1. accept' \in [Accepts -> Accept]
    BY <1>8 DEF AcceptLook, AcceptRefuse, AcceptGo, TypeOK, Accept
  <2> QED
    BY <1>8, <2>1 DEF AcceptLook, AcceptRefuse, TypeOK
<1>9. ASSUME NEW d \in Departures, NEW u \in Users, DepartRead(d, u) PROVE TypeOK'
  <2>1. depart' \in [Departures -> Departure]
    BY <1>9 DEF DepartRead, TypeOK, Departure
  <2> QED
    BY <1>9, <2>1 DEF DepartRead, TypeOK
<1>10. ASSUME NEW d \in Departures, DepartWrite(d) PROVE TypeOK'
  <2>1. depart[d].user \in Users
    BY DEF TypeOK, Departure
  <2>2. depart' \in [Departures -> Departure]
    BY <1>10 DEF DepartWrite, DepartGo, TypeOK, Departure
  <2>3. seat' \in [Users -> Accepts \cup {NoSeat}] /\ tier' \in [Users -> Tier]
    BY <1>10, <2>1 DEF DepartWrite, SetTier, TypeOK, Tier
  <2> QED
    BY <1>10, <2>2, <2>3 DEF DepartWrite, TypeOK
<1> QED
  BY <1>1, <1>2, <1>3, <1>4, <1>5, <1>6, <1>7, <1>8, <1>9, <1>10

(* One handler's record changes, to one of the right type.                 *)
LEMMA HookType ==
  ASSUME TypeOK, NEW e \in Hooks, NEW h \in Hook, hook' = [hook EXCEPT ![e] = h]
  PROVE  hook' \in [Hooks -> Hook]
BY DEF TypeOK

LEMMA TypeHooks ==
  ASSUME TypeOK, NEW e \in Hooks,
         (\E u \in Users : HookArrive(e, u)) \/ HookStep(e) \/ HookFail(e) \/ HookRepeat(e)
  PROVE  TypeOK'
<1>1. hook[e] \in Hook /\ hook[e].user \in Users /\ hook[e].tier \in Tier
  BY DEF TypeOK, Hook
<1>2. ASSUME NEW u \in Users, HookArrive(e, u) PROVE TypeOK'
  <2>1. PICK t \in Tier, cascades \in BOOLEAN, retried \in BOOLEAN :
          hook' = [hook EXCEPT ![e].pc = "write", ![e].user = u, ![e].tier = t,
                     ![e].cascades = cascades, ![e].retried = retried]
    BY <1>2 DEF HookArrive
  <2> DEFINE h == [hook[e] EXCEPT !.pc = "write", !.user = u, !.tier = t,
                     !.cascades = cascades, !.retried = retried]
  <2>2. h \in Hook
    BY <1>1 DEF Hook, HookPc
  <2>3. hook' = [hook EXCEPT ![e] = h]
    BY <2>1 DEF TypeOK
  <2>4. hook' \in [Hooks -> Hook]
    BY <2>2, <2>3, HookType
  <2> QED
    BY <1>2, <2>4 DEF HookArrive, TypeOK
<1>3. ASSUME NEW pc \in HookPc, HookGo(e, pc) PROVE hook' \in [Hooks -> Hook]
  BY <1>3 DEF HookGo, TypeOK, Hook
<1>4. CASE HookWrite(e)
  <2>1. tier' \in [Users -> Tier]
    BY <1>1, <1>4 DEF HookWrite, SetTier, TypeOK
  <2> QED
    BY <1>3, <1>4, <2>1 DEF HookWrite, HookPc, TypeOK
<1>5. CASE HookRead(e)
  <2>1. CASE HookGo(e, "done")
    BY <1>3, <1>5, <2>1 DEF HookRead, HookPc, TypeOK
  <2>2. CASE \E g \in Owned(hook[e].user) :
          hook' = [hook EXCEPT ![e].pc = "check", ![e].group = g, ![e].members = Members(g)]
    <3>1. PICK g \in Groups :
            hook' = [hook EXCEPT ![e].pc = "check", ![e].group = g, ![e].members = Members(g)]
      BY <2>2 DEF Owned, TypeOK
    <3>2. Members(g) \in SUBSET Users
      BY DEF Members
    <3> DEFINE h == [hook[e] EXCEPT !.pc = "check", !.group = g, !.members = Members(g)]
    <3>3. h \in Hook
      BY <1>1, <3>2 DEF Hook, HookPc
    <3>4. hook' = [hook EXCEPT ![e] = h]
      BY <3>1 DEF TypeOK
    <3>5. hook' \in [Hooks -> Hook]
      BY <3>3, <3>4, HookType
    <3> QED
      BY <1>5, <3>5 DEF HookRead, TypeOK
  <2> QED
    BY <1>5, <2>1, <2>2 DEF HookRead
<1>6. CASE HookCheck(e) \/ HookRetry(e)
  BY <1>3, <1>6 DEF HookCheck, HookRetry, HookPc, TypeOK
<1>7. CASE HookDelete(e)
  <2>1. hook' \in [Hooks -> Hook]
    BY <1>3, <1>7 DEF HookDelete, HookPc
  <2>2. tier' \in [Users -> Tier] /\ seat' \in [Users -> Accepts \cup {NoSeat}] /\ live' \subseteq Groups
    BY <1>7 DEF HookDelete, TypeOK, Tier
  <2>3. invite' \in [Invites -> Invite]
    BY <1>7 DEF HookDelete, TypeOK, Invite
  <2> QED
    BY <1>7, <2>1, <2>2, <2>3 DEF HookDelete, TypeOK
<1>8. CASE HookFail(e) \/ HookRepeat(e)
  <2>1. hook' \in [Hooks -> Hook]
    BY <1>3, <1>8 DEF HookFail, HookRepeat, HookPc
  <2>2. faults' \in 0..MaxFaults
    BY <1>8, FamilyAssumption DEF HookFail, HookRepeat, TypeOK
  <2> QED
    BY <1>8, <2>1, <2>2 DEF HookFail, HookRepeat, TypeOK
<1> QED
  BY <1>2, <1>4, <1>5, <1>6, <1>7, <1>8 DEF HookStep

LEMMA TypeStep == TypeOK /\ [Next]_vars => TypeOK'
<1> SUFFICES ASSUME TypeOK, [Next]_vars PROVE TypeOK'
  OBVIOUS
<1>1. CASE UNCHANGED vars
  BY <1>1 DEF vars, TypeOK
<1>2. CASE \E e \in Hooks :
             (\E u \in Users : HookArrive(e, u)) \/ HookStep(e) \/ HookFail(e) \/ HookRepeat(e)
  BY <1>2, TypeHooks
<1> QED
  BY <1>1, <1>2, TypeClients DEF Next

-----------------------------------------------------------------------------
(* Invites and accepted invites.                                           *)

(* A step that touches neither invites nor accepts keeps what is about     *)
(* them; the others are taken one at a time.                               *)
LEMMA InvitesInv == IInv /\ [Next]_vars => Sent' /\ Invited'
<1> SUFFICES ASSUME IInv, [Next]_vars PROVE Sent' /\ Invited'
  OBVIOUS
<1>1. /\ invite \in [Invites -> Invite] /\ accept \in [Accepts -> Accept]
      /\ send \in [Invites -> {"start", "read", "revoke", "create", "done", "refused"}]
      /\ Sent /\ Invited
  BY DEF IInv, TypeOK
<1>2. \A a \in Accepts : accept[a].invite \in Invites
  BY <1>1 DEF Accept
<1>3. CASE UNCHANGED <<invite, send, accept>>
  BY <1>1, <1>3 DEF Sent, Invited, Begun
<1>4. ASSUME NEW i \in Invites, NEW u \in Users, InviteLoad(i, u) \/ InviteRead(i, u)
      PROVE  Sent' /\ Invited'
  <2>1. /\ \A k \in Invites : send'[k] = send[k] \/ k = i
        /\ send[i] \in {"start", "read"} /\ accept' = accept
    BY <1>1, <1>4 DEF InviteLoad, InviteRead, SendGo
  <2>2. \A k \in Invites : invite'[k].status = invite[k].status
    <3>1. CASE InviteLoad(i, u)
      BY <1>1, <3>1 DEF InviteLoad, Invite
    <3>2. CASE InviteRead(i, u)
      BY <1>1, <3>2 DEF InviteRead, Invite
    <3> QED
      BY <1>4, <3>1, <3>2
  <2>3. invite[i].status = "none"
    BY <1>1, <1>4 DEF Sent, InviteLoad, InviteRead
  <2> QED
    BY <1>1, <1>2, <2>1, <2>2, <2>3 DEF Sent, Invited, Begun
<1>5. ASSUME NEW i \in Invites, InviteRevoke(i) PROVE Sent' /\ Invited'
  <2>1. /\ send' = [send EXCEPT ![i] = "create"] /\ send[i] = "revoke" /\ accept' = accept
        /\ \A k \in Invites : invite'[k].status = "none" <=> invite[k].status = "none"
    BY <1>1, <1>5 DEF InviteRevoke, SendGo, Invite
  <2> QED
    BY <1>1, <1>2, <2>1 DEF Sent, Invited, Begun
<1>6. ASSUME NEW i \in Invites, InviteCreate(i) PROVE Sent' /\ Invited'
  <2>1. send[i] = "create" /\ accept' = accept /\ invite[i].status = "none"
    BY <1>1, <1>6 DEF InviteCreate, Sent
  <2>2. \/ send' = [send EXCEPT ![i] = "done"] /\ invite' = [invite EXCEPT ![i].status = "pending"]
        \/ send' = [send EXCEPT ![i] = "refused"] /\ invite' = invite
    BY <1>6 DEF InviteCreate, SendGo
  <2> QED
    BY <1>1, <1>2, <2>1, <2>2 DEF Sent, Invited, Begun, Invite
<1>7. ASSUME NEW a \in Accepts, NEW i \in Invites, AcceptRead(a, i) PROVE Sent' /\ Invited'
  <2>1. /\ UNCHANGED <<invite, send>> /\ invite[i].status = "pending"
        /\ \A b \in Accepts : accept'[b] = accept[b] \/ accept'[b].invite = i
    BY <1>1, <1>7 DEF AcceptRead, Accept
  <2> QED
    BY <1>1, <1>2, <2>1 DEF Sent, Invited, Begun
<1>8. ASSUME NEW a \in Accepts, AcceptSeat(a) PROVE Sent' /\ Invited'
  <2>1. /\ send' = send /\ Begun(a)
        /\ invite' = [invite EXCEPT ![accept[a].invite].status = "accepted"]
        /\ accept' = [accept EXCEPT ![a].pc = "joined"]
    BY <1>8 DEF AcceptSeat, Seats, AcceptGo, Begun
  <2>2. \A k \in Invites : invite'[k].status # "none" <=> invite[k].status # "none"
    BY <1>1, <1>2, <2>1 DEF Invited, Invite
  <2>3. \A b \in Accepts : accept'[b].invite = accept[b].invite /\ (Begun(b)' => Begun(b))
    BY <1>1, <2>1 DEF Begun, Accept
  <2> QED
    BY <1>1, <1>2, <2>1, <2>2, <2>3 DEF Sent, Invited
<1>9. ASSUME NEW a \in Accepts, AcceptLook(a) \/ AcceptRefuse(a) PROVE Sent' /\ Invited'
  <2>1. /\ UNCHANGED <<invite, send>>
        /\ \A b \in Accepts : accept'[b].invite = accept[b].invite /\ (Begun(b)' => Begun(b))
    BY <1>1, <1>9 DEF AcceptLook, AcceptRefuse, AcceptGo, Begun, Accept
  <2> QED
    BY <1>1, <1>2, <2>1 DEF Sent, Invited
<1>10. ASSUME NEW e \in Hooks, HookDelete(e) PROVE Sent' /\ Invited'
  <2>1. /\ UNCHANGED <<send, accept>>
        /\ \A k \in Invites : invite'[k].status # "none" <=> invite[k].status # "none"
    BY <1>1, <1>10 DEF HookDelete, Invite
  <2> QED
    BY <1>1, <1>2, <2>1 DEF Sent, Invited, Begun
<1>11. \/ UNCHANGED <<invite, send, accept>>
       \/ \E i \in Invites, u \in Users : InviteLoad(i, u) \/ InviteRead(i, u)
       \/ \E i \in Invites : InviteRevoke(i) \/ InviteCreate(i)
       \/ \E a \in Accepts, i \in Invites : AcceptRead(a, i)
       \/ \E a \in Accepts : AcceptLook(a) \/ AcceptSeat(a) \/ AcceptRefuse(a)
       \/ \E e \in Hooks : HookDelete(e)
  BY DEF Next, vars, CreateLoad, CreateLook, CreateGroup, DepartRead, DepartWrite, HookArrive,
     HookStep, HookWrite, HookRead, HookCheck, HookRetry, HookFail, HookRepeat
<1> QED
  BY <1>3, <1>4, <1>5, <1>6, <1>7, <1>8, <1>9, <1>10, <1>11

(* What an accept call refers to never changes once it has read it.        *)
LEMMA Stable ==
  ASSUME IInv, [Next]_vars, NEW a \in Accepts, Begun(a)
  PROVE  /\ accept'[a].invite = accept[a].invite
         /\ invite'[accept[a].invite].group = invite[accept[a].invite].group
         /\ invite'[accept[a].invite].email = invite[accept[a].invite].email
         /\ accept[a].pc = "joined" => accept'[a].pc = "joined"
<1>1. /\ invite \in [Invites -> Invite] /\ accept \in [Accepts -> Accept]
      /\ accept[a].invite \in Invites /\ send[accept[a].invite] = "done"
  BY DEF IInv, TypeOK, Accept, Sent, Invited
<1>2. CASE UNCHANGED <<invite, accept>>
  BY <1>2
<1>3. CASE \E i \in Invites, u \in Users : InviteLoad(i, u) \/ InviteRead(i, u)
  BY <1>1, <1>3 DEF InviteLoad, InviteRead
<1>4. CASE \E i \in Invites : InviteRevoke(i) \/ InviteCreate(i)
  BY <1>1, <1>4 DEF InviteRevoke, InviteCreate, Invite
<1>5. CASE \E b \in Accepts, i \in Invites : AcceptRead(b, i)
  BY <1>1, <1>5 DEF AcceptRead, Begun, Accept
<1>6. CASE \E b \in Accepts : AcceptLook(b) \/ AcceptSeat(b) \/ AcceptRefuse(b)
  <2>1. PICK b \in Accepts : AcceptLook(b) \/ AcceptSeat(b) \/ AcceptRefuse(b)
    BY <1>6
  <2>2. CASE AcceptSeat(b)
    BY <1>1, <2>2 DEF AcceptSeat, Seats, AcceptGo, Accept, Invite
  <2>3. CASE AcceptLook(b) \/ AcceptRefuse(b)
    BY <1>1, <2>3 DEF AcceptLook, AcceptRefuse, AcceptGo, Accept
  <2> QED
    BY <2>1, <2>2, <2>3
<1>7. CASE \E e \in Hooks : HookDelete(e)
  BY <1>1, <1>7 DEF HookDelete, Invite
<1> QED
  BY <1>2, <1>3, <1>4, <1>5, <1>6, <1>7 DEF Next, vars, CreateLoad, CreateLook, CreateGroup,
     DepartRead, DepartWrite, HookArrive, HookStep, HookWrite, HookRead, HookCheck, HookRetry,
     HookFail, HookRepeat

(* The memberships change in three ways only.                              *)
LEMMA SeatChanges ==
  ASSUME [Next]_vars
  PROVE  \/ seat' = seat
         \/ \E a \in Accepts : AcceptSeat(a)
         \/ \E d \in Departures : DepartWrite(d)
         \/ \E e \in Hooks : HookDelete(e)
BY DEF Next, vars, CreateLoad, CreateLook, CreateGroup, InviteLoad, InviteRead, InviteRevoke, InviteCreate,
   AcceptRead, AcceptLook, AcceptRefuse, DepartRead, HookArrive, HookStep, HookWrite, HookRead, HookCheck,
   HookRetry, HookFail, HookRepeat

\* The user that call a seats.
UserOf(a) == invite[accept[a].invite].email

(* Who has a membership that he had not before has just been seated.       *)
LEMMA NewSeat ==
  ASSUME IInv, [Next]_vars, NEW u \in Users, seat'[u] # NoSeat, seat'[u] # seat[u]
  PROVE  \E a \in Accepts : AcceptSeat(a) /\ UserOf(a) = u /\ seat'[u] = a
<1>1. seat \in [Users -> Accepts \cup {NoSeat}]
  BY DEF IInv, TypeOK
<1>2. CASE \E a \in Accepts : AcceptSeat(a)
  BY <1>1, <1>2 DEF AcceptSeat, Seats, UserOf
<1>3. CASE \E d \in Departures : DepartWrite(d)
  BY <1>1, <1>3 DEF DepartWrite
<1>4. CASE \E e \in Hooks : HookDelete(e)
  BY <1>1, <1>4 DEF HookDelete
<1> QED
  BY <1>2, <1>3, <1>4, SeatChanges

LEMMA HeldInv == IInv /\ [Next]_vars => \A u \in Users : Held(u)'
<1> SUFFICES ASSUME IInv, [Next]_vars, NEW u \in Users, seat'[u] # NoSeat
             PROVE  accept'[seat'[u]].pc = "joined" /\ invite'[accept'[seat'[u]].invite].email = u
  BY DEF Held
<1>1. Held(u) /\ seat \in [Users -> Accepts \cup {NoSeat}]
  BY DEF IInv, TypeOK
<1>2. CASE seat'[u] = seat[u]
  <2>1. seat[u] \in Accepts /\ Begun(seat[u])
    BY <1>1, <1>2 DEF Held, Begun
  <2> QED
    BY <1>1, <1>2, <2>1, Stable DEF Held
<1>3. CASE seat'[u] # seat[u]
  <2>1. PICK a \in Accepts : AcceptSeat(a) /\ UserOf(a) = u /\ seat'[u] = a
    BY <1>3, NewSeat
  <2>2. Begun(a) /\ accept'[a].pc = "joined"
    BY <2>1 DEF AcceptSeat, Seats, AcceptGo, Begun, IInv, TypeOK, Accept
  <2> QED
    BY <2>1, <2>2, Stable DEF UserOf
<1> QED
  BY <1>2, <1>3

(* A membership that stays is in the same group, one of those that have    *)
(* seated the user.                                                        *)
LEMMA SeatStays ==
  ASSUME IInv, [Next]_vars, NEW u \in Users, seat[u] # NoSeat
  PROVE  /\ seat[u] \in Accepts
         /\ invite'[accept'[seat[u]].invite].group = GroupOf(seat[u])
         /\ GroupOf(seat[u]) \in SeatedIn(u)
<1>1. Held(u) /\ seat[u] \in Accepts
  BY DEF IInv, TypeOK
<1>2. Begun(seat[u])
  BY <1>1 DEF Held, Begun
<1>3. GroupOf(seat[u]) \in SeatedIn(u)
  BY <1>1 DEF Held, SeatedIn
<1> QED
  BY <1>1, <1>2, <1>3, Stable DEF GroupOf

-----------------------------------------------------------------------------
(* Cascades.                                                               *)

(* Who has been in a group will always have been.                          *)
LEMMA SeatedInGrows ==
  ASSUME IInv, [Next]_vars, NEW u \in Users
  PROVE  SeatedIn(u) \subseteq SeatedIn(u)'
<1> SUFFICES ASSUME NEW a \in Accepts, accept[a].pc = "joined",
                    invite[accept[a].invite].email = u
             PROVE  GroupOf(a) \in SeatedIn(u)'
  BY DEF SeatedIn
<1>1. /\ accept'[a].pc = "joined"
      /\ invite'[accept'[a].invite].email = u
      /\ invite'[accept'[a].invite].group = GroupOf(a)
  BY Stable DEF Begun, GroupOf
<1> QED
  BY <1>1 DEF SeatedIn, GroupOf

LEMMA CascadeInv == IInv /\ [Next]_vars => \A e \in Hooks : Cascade(e)'
<1> SUFFICES ASSUME IInv, [Next]_vars, NEW e \in Hooks PROVE Cascade(e)'
  OBVIOUS
<1>1. hook \in [Hooks -> Hook] /\ hook[e] \in Hook /\ Cascade(e)
  BY DEF IInv, TypeOK
<1>2. ASSUME hook'[e].user = hook[e].user, hook[e].pc # "start",
             hook'[e].pc \in {"check", "delete"} =>
               /\ hook[e].pc \in {"check", "delete"}
               /\ hook'[e].group = hook[e].group /\ hook'[e].members = hook[e].members
      PROVE  Cascade(e)'
  <2>1. hook[e].members \subseteq Users
    BY <1>1 DEF Hook
  <2> QED
    BY <1>1, <1>2, <2>1, SeatedInGrows DEF Cascade
<1>3. CASE hook'[e] = hook[e]
  <2>1. CASE hook[e].pc = "start"
    BY <1>3, <2>1 DEF Cascade
  <2> QED
    BY <1>2, <1>3, <2>1
<1>4. CASE \E u \in Users : HookArrive(e, u)
  <2>1. hook'[e].pc = "write" /\ hook'[e].user \in Subscribers
    BY <1>1, <1>4 DEF HookArrive, Hook
  <2> QED
    BY <2>1 DEF Cascade
<1>5. CASE HookWrite(e) \/ HookCheck(e) \/ HookRetry(e) \/ HookFail(e) \/ HookRepeat(e)
  BY <1>1, <1>2, <1>5 DEF HookWrite, HookCheck, HookRetry, HookFail, HookRepeat, HookGo,
     HookRunning, Hook
<1>6. CASE HookDelete(e)
  BY <1>1, <1>2, <1>6 DEF HookDelete, HookGo, Hook
<1>7. CASE HookRead(e)
  <2>1. CASE HookGo(e, "done")
    BY <1>1, <1>2, <1>7, <2>1 DEF HookRead, HookGo, Hook
  <2>2. CASE \E g \in Owned(hook[e].user) :
          hook' = [hook EXCEPT ![e].pc = "check", ![e].group = g, ![e].members = Members(g)]
    <3>1. PICK g : hook' = [hook EXCEPT ![e].pc = "check", ![e].group = g, ![e].members = Members(g)]
      BY <2>2
    <3>2. /\ hook'[e].user = hook[e].user /\ hook[e].pc = "read"
          /\ hook'[e].group = g /\ hook'[e].members = Members(g)
      BY <1>1, <1>7, <3>1 DEF HookRead, Hook
    <3>3. \A u \in Members(g) : g \in SeatedIn(u)'
      BY SeatStays, SeatedInGrows DEF Members
    <3> QED
      BY <1>1, <3>2, <3>3 DEF Cascade
  <2> QED
    BY <1>7, <2>1, <2>2 DEF HookRead
<1>8. \/ hook'[e] = hook[e] \/ \E u \in Users : HookArrive(e, u)
      \/ HookStep(e) \/ HookFail(e) \/ HookRepeat(e)
  <2>1. CASE \E f \in Hooks : (\E u \in Users : HookArrive(f, u)) \/ HookStep(f) \/ HookFail(f) \/ HookRepeat(f)
    <3>1. PICK f \in Hooks : (\E u \in Users : HookArrive(f, u)) \/ HookStep(f) \/ HookFail(f) \/ HookRepeat(f)
      BY <2>1
    <3>2. f # e => hook'[e] = hook[e]
      BY <1>1, <3>1 DEF HookArrive, HookStep, HookWrite, HookRead, HookCheck, HookDelete,
         HookRetry, HookFail, HookRepeat, HookGo
    <3> QED
      BY <3>1, <3>2
  <2>2. CASE UNCHANGED hook
    BY <2>2
  <2> QED
    BY <2>1, <2>2 DEF Next, vars, CreateLoad, CreateLook, CreateGroup, InviteLoad, InviteRead, InviteRevoke,
       InviteCreate, AcceptRead, AcceptLook, AcceptSeat, AcceptRefuse, DepartRead, DepartWrite
<1> QED
  BY <1>3, <1>4, <1>5, <1>6, <1>7, <1>8 DEF HookStep

-----------------------------------------------------------------------------
(* Seats.                                                                  *)

LEMMA MembersFinite ==
  ASSUME NEW g
  PROVE  IsFiniteSet(Members(g)) /\ Cardinality(Members(g)) \in Nat
<1>1. IsFiniteSet(Members(g))
  BY FamilyAssumption, FS_Subset DEF Members
<1> QED
  BY <1>1, FS_CardinalityType

(* A group has only the members that it had, but for the one whom a step   *)
(* of acceptInvite seats.                                                  *)
LEMMA MembersNext ==
  ASSUME IInv, [Next]_vars, NEW g \in Groups
  PROVE  \/ Members(g)' \subseteq Members(g)
         \/ \E a \in Accepts, u \in Users :
              AcceptSeat(a) /\ g = GroupOf(a) /\ Members(g)' \subseteq Members(g) \cup {u}
<1>1. ASSUME NEW u \in Users, u \in Members(g)', u \notin Members(g)
      PROVE  \E a \in Accepts : AcceptSeat(a) /\ UserOf(a) = u /\ g = GroupOf(a)
  <2>1. seat'[u] # NoSeat /\ invite'[accept'[seat'[u]].invite].group = g
    BY <1>1 DEF Members, GroupOf
  <2>2. seat'[u] # seat[u]
    BY <1>1, <2>1, SeatStays DEF Members
  <2>3. PICK a \in Accepts : AcceptSeat(a) /\ UserOf(a) = u /\ seat'[u] = a
    BY <2>1, <2>2, NewSeat
  <2>4. g = GroupOf(a)
    BY <2>1, <2>3, Stable DEF AcceptSeat, Begun, GroupOf
  <2> QED
    BY <2>3, <2>4
<1>2. Members(g)' \subseteq Users
  BY DEF Members
<1>3. ASSUME NEW u \in Members(g)', u \notin Members(g)
      PROVE  \E a \in Accepts, v \in Users :
               AcceptSeat(a) /\ g = GroupOf(a) /\ Members(g)' \subseteq Members(g) \cup {v}
  <2>1. PICK a \in Accepts : AcceptSeat(a) /\ UserOf(a) = u /\ g = GroupOf(a)
    BY <1>1, <1>2, <1>3
  <2>2. seat' = [seat EXCEPT ![u] = a]
    BY <2>1 DEF AcceptSeat, Seats, UserOf
  <2>3. ASSUME NEW v \in Members(g)', v # u PROVE v \in Members(g)
    <3>1. v \in Users /\ seat'[v] # NoSeat /\ invite'[accept'[seat'[v]].invite].group = g
      BY <1>2, <2>3 DEF Members, GroupOf
    <3>2. seat'[v] = seat[v]
      BY <2>2, <2>3, <3>1 DEF IInv, TypeOK
    <3> QED
      BY <3>1, <3>2, SeatStays DEF Members
  <2> QED
    BY <1>2, <2>1, <2>3
<1> QED
  BY <1>3

LEMMA WithinPlanInv == IInv /\ [Next]_vars => WithinPlan'
<1> SUFFICES ASSUME IInv, [Next]_vars, NEW g \in Groups PROVE SeatsUsed(g)' <= MaxSeats
  BY DEF WithinPlan
<1> DEFINE old == Members(g)
           new == Members(g)'
<1>1. IsFiniteSet(old) /\ Cardinality(old) \in Nat /\ Cardinality(old) + 1 <= MaxSeats
  BY MembersFinite DEF IInv, WithinPlan, SeatsUsed
<1>2. SeatsUsed(g)' = Cardinality(new) + 1
  BY DEF SeatsUsed
<1>3. MaxSeats \in Nat
  BY FamilyAssumption
<1>4. CASE new \subseteq old
  <2>1. IsFiniteSet(new) /\ Cardinality(new) <= Cardinality(old)
    BY <1>1, <1>4, FS_Subset
  <2>2. Cardinality(new) \in Nat
    BY <2>1, FS_CardinalityType
  <2> HIDE DEF old, new
  <2> QED
    BY <1>1, <1>2, <1>3, <2>1, <2>2
<1>5. CASE \E a \in Accepts, u \in Users :
             AcceptSeat(a) /\ g = GroupOf(a) /\ new \subseteq old \cup {u}
  <2>1. PICK a \in Accepts, u \in Users :
          AcceptSeat(a) /\ g = GroupOf(a) /\ new \subseteq old \cup {u}
    BY <1>5
  <2>2. Cardinality(old) + 1 < MaxSeats
    BY <2>1 DEF AcceptSeat, SeatsUsed
  <2>3. IsFiniteSet(old \cup {u}) /\ Cardinality(old \cup {u}) <= Cardinality(old) + 1
    <3> HIDE DEF old
    <3>1. Cardinality(old \cup {u}) = IF u \in old THEN Cardinality(old) ELSE Cardinality(old) + 1
      BY <1>1, FS_AddElement
    <3>2. IsFiniteSet(old \cup {u})
      BY <1>1, FS_AddElement
    <3> QED
      BY <1>1, <3>1, <3>2
  <2>4. IsFiniteSet(new) /\ Cardinality(new) <= Cardinality(old \cup {u})
    BY <2>1, <2>3, FS_Subset
  <2>5. Cardinality(new) \in Nat /\ Cardinality(old \cup {u}) \in Nat
    BY <2>3, <2>4, FS_CardinalityType
  <2> HIDE DEF old, new
  <2> QED
    BY <1>1, <1>2, <1>3, <2>2, <2>3, <2>4, <2>5
<1> QED
  BY <1>4, <1>5, MembersNext

-----------------------------------------------------------------------------
(* Tiers.                                                                  *)

(* The tier of a user without a plan changes in three ways only.           *)
LEMMA TierChanges ==
  ASSUME IInv, [Next]_vars, NEW u \in Users \ Subscribers
  PROVE  \/ tier'[u] = tier[u]
         \/ tier'[u] = "family"
         \/ seat'[u] = NoSeat
         \/ \E e \in Hooks : HookDelete(e) /\ u \in hook[e].members
<1>1. tier \in [Users -> Tier] /\ seat \in [Users -> Accepts \cup {NoSeat}]
  BY DEF IInv, TypeOK
<1>2. CASE UNCHANGED tier
  BY <1>2
<1>3. CASE \E a \in Accepts : AcceptSeat(a)
  BY <1>1, <1>3 DEF AcceptSeat, Seats, SetTier, Tier
<1>4. CASE \E d \in Departures : DepartWrite(d)
  BY <1>1, <1>4 DEF DepartWrite, SetTier
<1>5. CASE \E e \in Hooks : HookWrite(e)
  <2>1. PICK e \in Hooks : HookWrite(e)
    BY <1>5
  <2>2. hook[e].user \in Subscribers
    BY <2>1 DEF HookWrite, IInv, Cascade
  <2> QED
    BY <1>1, <2>1, <2>2 DEF HookWrite, SetTier
<1>6. CASE \E e \in Hooks : HookDelete(e)
  BY <1>1, <1>6 DEF HookDelete
<1> QED
  BY <1>2, <1>3, <1>4, <1>5, <1>6 DEF Next, vars, CreateLoad, CreateLook, CreateGroup, InviteLoad, InviteRead,
     InviteRevoke, InviteCreate, AcceptRead, AcceptLook, AcceptRefuse, DepartRead, HookArrive, HookStep,
     HookRead, HookCheck, HookRetry, HookFail, HookRepeat

LEMMA MembersHaveTheTierInv == IInv /\ [Next]_vars => MembersHaveTheTier'
<1> SUFFICES ASSUME IInv, [Next]_vars, NEW u \in Users \ Subscribers, seat'[u] # NoSeat,
                    SeatedIn(u)' = {GroupOf(seat[u])'}
             PROVE  tier'[u] = "family"
  BY DEF MembersHaveTheTier
<1>1. tier \in [Users -> Tier] /\ seat \in [Users -> Accepts \cup {NoSeat}]
  BY DEF IInv, TypeOK
<1>2. CASE seat'[u] # seat[u]
  <2>1. PICK a \in Accepts : AcceptSeat(a) /\ UserOf(a) = u
    BY <1>2, NewSeat
  <2> QED
    BY <1>1, <2>1 DEF AcceptSeat, Seats, SetTier, UserOf
<1>3. CASE seat'[u] = seat[u]
  <2>1. SeatedIn(u)' = {GroupOf(seat[u])}
    BY <1>3, SeatStays DEF GroupOf
  <2>2. SeatedIn(u) = {GroupOf(seat[u])}
    BY <1>3, <2>1, SeatStays, SeatedInGrows
  <2>3. tier[u] = "family"
    BY <1>3, <2>2 DEF IInv, MembersHaveTheTier
  <2>4. ASSUME NEW e \in Hooks, HookDelete(e), u \in hook[e].members PROVE tier'[u] = tier[u]
    <3>1. hook[e].group \in SeatedIn(u)
      BY <2>4 DEF HookDelete, IInv, Cascade
    <3>2. u \in Members(hook[e].group)
      BY <1>3, <2>2, <3>1 DEF Members
    <3> QED
      BY <1>1, <2>4, <3>2 DEF HookDelete
  <2> QED
    BY <2>3, <2>4, TierChanges
<1> QED
  BY <1>2, <1>3

-----------------------------------------------------------------------------
(* The theorems.                                                           *)

LEMMA InvInit == Init => IInv
<1> SUFFICES ASSUME Init PROVE IInv
  OBVIOUS
<1>1. TypeOK
  BY TypeInit
<1>2. Sent /\ Invited /\ (\A u \in Users : Held(u)) /\ (\A e \in Hooks : Cascade(e))
  BY DEF Init, Sent, Invited, Begun, Held, Cascade
<1>3. ASSUME NEW g \in Groups PROVE SeatsUsed(g) <= MaxSeats
  <2>1. Members(g) = {}
    BY DEF Init, Members
  <2> QED
    BY <2>1, FS_EmptySet, FamilyAssumption DEF SeatsUsed
<1>4. MembersHaveTheTier
  BY DEF Init, MembersHaveTheTier
<1> QED
  BY <1>1, <1>2, <1>3, <1>4 DEF IInv, WithinPlan

(* The inductive invariant: types, what calls under way refer to, what a   *)
(* cascade has read, and the two properties it is for.                     *)
THEOREM Invariance == Spec => []IInv
<1>1. IInv /\ [Next]_vars => IInv'
  <2> SUFFICES ASSUME IInv, [Next]_vars PROVE IInv'
    OBVIOUS
  <2>1. TypeOK' /\ Sent' /\ Invited'
    BY TypeStep, InvitesInv DEF IInv
  <2>2. (\A u \in Users : Held(u)') /\ (\A e \in Hooks : Cascade(e)')
    BY HeldInv, CascadeInv
  <2> QED
    BY <2>1, <2>2, WithinPlanInv, MembersHaveTheTierInv DEF IInv
<1> QED
  BY <1>1, InvInit, PTL DEF Spec

(* Every table and every call's state keeps to its type.                   *)
THEOREM TypeCorrect == Spec => []TypeOK
BY Invariance, PTL DEF IInv

(* No group ever has more seats than the plan says, whatever the number of *)
(* calls that invite, accept and leave at a time: the transaction of       *)
(* acceptInvite counts again (family.service.ts:279-298).                  *)
THEOREM SeatsStayWithinPlan == Spec => []SeatsWithinPlan
<1>1. IInv => SeatsWithinPlan
  BY DEF IInv, TypeOK, WithinPlan, SeatsWithinPlan
<1> QED
  BY <1>1, Invariance, PTL

(* A member without a plan of his own is on the family tier as long as one *)
(* group is all he has been in: no removal, leave, event of Stripe or      *)
(* cascade that overlaps with others takes it from him.                    *)
THEOREM MembersKeepTheTier == Spec => []MembersHaveTheTier
BY Invariance, PTL DEF IInv
=============================================================================
