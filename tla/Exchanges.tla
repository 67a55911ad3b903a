----------------------------- MODULE Exchanges -----------------------------
(***************************************************************************)
(* What members of a family group do together: a Secret Santa exchange     *)
(* (SecretSantaService) and a gift pool (GiftPoolService).  The group is   *)
(* the Family module's; here its members only leave it.                    *)
(***************************************************************************)
EXTENDS Naturals, FiniteSets, Sequences, Functions

CONSTANTS
  Members,    \* the members of the group
  Organizer,  \* the one who created the exchange and the pool
  Nobody,     \* no member
  Excludes,   \* Excludes[m]: whom m excludes when joining
  Draws,      \* calls of assign
  MinParticipants,  \* MIN_PARTICIPANTS: 3
  ChipIns     \* contributions to the pool

ASSUME ExchangesAssumption ==
  /\ Organizer \in Members /\ Nobody \notin Members
  /\ Excludes \in [Members -> SUBSET Members] /\ Excludes[Organizer] = {}
  /\ MinParticipants \in Nat

VARIABLES
  members,      \* who is in the group
  status,       \* of the exchange
  participant,  \* who takes part
  target,       \* target[m]: assigned_to_user_id
  join,         \* join[m]: where m's joinExchange is
  draw,         \* draw[d]: where assign d is, the participants it read, its search
  late,         \* those who joined while a draw was under way
  chip,         \* chip[c]: a contribution: the row, and a change of it
  notified      \* the contributions that the organizer was told of

exchangeVars == <<members, status, participant, target, join, draw, late,
                  chip, notified>>

-----------------------------------------------------------------------------
(* Types.                                                                  *)

\* order, picks, used, next: the backtracking.  The giver order[i] has been
\* assigned the receiver order[picks[i]]; the loop of the giver after those looks
\* at the receivers from order[next] on.  pairs: the assignment that was found.
Draw == [pc : {"new", "read", "search", "found", "refused", "done"}, read : SUBSET Members,
         order : Seq(Members), picks : Seq(Nat), used : SUBSET Members, next : Nat,
         pairs : [Members -> Members \cup {Nobody}]]

\* row: is the contribution there?  amount: is it the first one or a later one?
Chip == [by : Members, row : {"none", "there", "deleted"}, amount : {"first", "changed"},
         told : BOOLEAN, update : {"none", "found", "done"}, delete : {"none", "found", "done"}]

ExchangesTypeOK ==
  /\ members \subseteq Members
  /\ status \in {"open", "assigned"}
  /\ participant \subseteq Members
  /\ target \in [Members -> Members \cup {Nobody}]
  /\ join \in [Members -> {"new", "read", "done"}]
  /\ draw \in [Draws -> Draw]
  /\ late \subseteq Members
  /\ chip \in [ChipIns -> Chip]
  /\ notified \subseteq ChipIns

NoPairs == [m \in Members |-> Nobody]

\* createExchange: the creator takes part.
ExchangesInit ==
  /\ members = Members
  /\ status = "open"
  /\ participant = {Organizer}
  /\ target = NoPairs
  /\ join = [m \in Members |-> IF m = Organizer THEN "done" ELSE "new"]
  /\ draw = [d \in Draws |-> [pc |-> "new", read |-> {}, order |-> <<>>, picks |-> <<>>,
                              used |-> {}, next |-> 1, pairs |-> NoPairs]]
  /\ late = {}
  /\ chip = [c \in ChipIns |-> [by |-> Organizer, row |-> "none", amount |-> "first",
                                told |-> FALSE, update |-> "none", delete |-> "none"]]
  /\ notified = {}

poolVars == <<chip, notified>>
santaVars == <<status, participant, target, join, draw, late>>

-----------------------------------------------------------------------------
(* The exchange.                                                           *)

\* getExchangeInMyGroup, and the checks on what it read.
JoinRead(m) ==
  /\ join[m] = "new" /\ m \in members
  /\ status = "open" /\ m \notin participant
  /\ join' = [join EXCEPT ![m] = "read"]
  /\ UNCHANGED <<members, status, participant, target, draw, late, poolVars>>

Drawing == {d \in Draws : draw[d].pc \in {"read", "search", "found"}}

JoinCreate(m) ==
  /\ join[m] = "read"
  /\ join' = [join EXCEPT ![m] = "done"]
  /\ participant' = participant \cup {m}
  /\ late' = IF Drawing # {} \/ status = "assigned" THEN late \cup {m} ELSE late
  /\ UNCHANGED <<members, status, target, draw, poolVars>>

DrawRead(d) ==
  /\ draw[d].pc = "new"
  /\ Organizer \in members /\ status = "open"
  /\ Cardinality(participant) >= MinParticipants
  /\ draw' = [draw EXCEPT ![d].pc = "read", ![d].read = participant]
  /\ UNCHANGED <<members, status, participant, target, join, late, poolVars>>

\* isValid.  Exclusions work both ways.
MayGive(giver, receiver) ==
  /\ giver # receiver
  /\ receiver \notin Excludes[giver] /\ giver \notin Excludes[receiver]

\* The participants in some order: of a shuffle, or as the read returned them.
Orders(P) == Bijection(1 .. Cardinality(P), P)

\* The assignment in which order[i] gives to order[to[i]].
Pairs(order, to) ==
  [m \in Members |->
     IF \E i \in DOMAIN order : order[i] = m
     THEN order[to[CHOOSE i \in DOMAIN order : order[i] = m]]
     ELSE Nobody]

\* In a shuffle everybody gives to the next one, the last one to the first.
Round(n) == [i \in 1 .. n |-> IF i = n THEN 1 ELSE i + 1]

RoundIsValid(order) ==
  \A i \in DOMAIN order : MayGive(order[i], order[Round(Len(order))[i]])

SearchUnchanged == UNCHANGED <<members, status, participant, target, join, late, poolVars>>

\* findValidAssignment: a shuffle that is valid.
DrawShuffle(d) ==
  /\ draw[d].pc = "read"
  /\ \E order \in Orders(draw[d].read) :
       /\ RoundIsValid(order)
       /\ draw' = [draw EXCEPT ![d].pc = "found", ![d].pairs = Pairs(order, Round(Len(order)))]
  /\ SearchUnchanged

\* None of MAX_ASSIGNMENT_ATTEMPTS shuffles was valid: it falls back to the
\* backtracking.
DrawFallBack(d) ==
  /\ draw[d].pc = "read"
  /\ \E order \in Orders(draw[d].read) : ~RoundIsValid(order)
  /\ \E order \in Orders(draw[d].read) :
       draw' = [draw EXCEPT ![d].pc = "search", ![d].order = order]
  /\ SearchUnchanged

\* The receivers that the loop of the next giver has still to try.
Receivers(w) ==
  {i \in w.next .. Len(w.order) :
     w.order[i] \notin w.used /\ MayGive(w.order[Len(w.picks) + 1], w.order[i])}

Searching(d) == draw[d].pc = "search" /\ Len(draw[d].picks) < Len(draw[d].order)

DrawTake(d) ==
  /\ Searching(d)
  /\ LET w == draw[d] IN
     \E i \in Receivers(w) :
       /\ \A j \in Receivers(w) : i <= j
       /\ draw' = [draw EXCEPT ![d].picks = Append(w.picks, i), ![d].next = 1,
                               ![d].used = w.used \cup {w.order[i]}]
  /\ SearchUnchanged

\* A plausible bug: the giver before returns what the next one returned.
DrawBackNever(d) ==
  /\ Searching(d) /\ Receivers(draw[d]) = {} /\ draw[d].picks # <<>>
  /\ draw' = [draw EXCEPT ![d].pc = "refused", ![d].order = <<>>, ![d].picks = <<>>,
                          ![d].used = {}, ![d].next = 1]
  /\ SearchUnchanged

\* backtrack returns false: the giver before takes the pick back and goes on.
DrawBack(d) ==
  /\ Searching(d) /\ Receivers(draw[d]) = {} /\ draw[d].picks # <<>>
  /\ LET w == draw[d]
         k == Len(w.picks)
     IN  draw' = [draw EXCEPT ![d].picks = SubSeq(w.picks, 1, k - 1), ![d].next = w.picks[k] + 1,
                             ![d].used = w.used \ {w.order[w.picks[k]]}]
  /\ SearchUnchanged

\* "Couldn't find a valid pairing": the first giver has tried everybody.
DrawRefuse(d) ==
  /\ Searching(d) /\ Receivers(draw[d]) = {} /\ draw[d].picks = <<>>
  /\ draw' = [draw EXCEPT ![d].pc = "refused", ![d].order = <<>>, ![d].next = 1]
  /\ SearchUnchanged

DrawFind(d) ==
  /\ draw[d].pc = "search" /\ Len(draw[d].picks) = Len(draw[d].order)
  /\ draw' = [draw EXCEPT ![d].pc = "found", ![d].pairs = Pairs(draw[d].order, draw[d].picks),
                          ![d].order = <<>>, ![d].picks = <<>>, ![d].used = {}, ![d].next = 1]
  /\ SearchUnchanged

\* One transaction writes the pairs and closes the exchange.
DrawWrite(d) ==
  /\ draw[d].pc = "found"
  /\ target' = [m \in Members |-> IF m \in draw[d].read THEN draw[d].pairs[m] ELSE target[m]]
  /\ status' = "assigned"
  /\ draw' = [draw EXCEPT ![d].pc = "done", ![d].pairs = NoPairs]
  /\ UNCHANGED <<members, participant, join, late, poolVars>>

\* Leaving the group leaves the exchange and the pool as they are.
Leave(m) ==
  /\ m \in members
  /\ members' = members \ {m}
  /\ UNCHANGED <<santaVars, poolVars>>

-----------------------------------------------------------------------------
(* The pool.  Nothing in the code closes it.                               *)

ChipIn(c, m) ==
  /\ chip[c].row = "none" /\ m \in members
  /\ chip' = [chip EXCEPT ![c].by = m, ![c].row = "there"]
  /\ UNCHANGED <<members, notified, santaVars>>

\* The organizer hears of the others' contributions.
ChipTell(c) ==
  /\ chip[c].row # "none" /\ ~chip[c].told
  /\ chip' = [chip EXCEPT ![c].told = TRUE]
  /\ notified' = IF chip[c].by # Organizer THEN notified \cup {c} ELSE notified
  /\ UNCHANGED <<members, santaVars>>

\* updateContribution and deleteContribution look for the row first.
ChipFind(c) ==
  /\ chip[c].by \in members /\ chip[c].row = "there"
  /\ \/ /\ chip[c].update = "none"
        /\ chip' = [chip EXCEPT ![c].update = "found"]
     \/ /\ chip[c].delete = "none"
        /\ chip' = [chip EXCEPT ![c].delete = "found"]
  /\ UNCHANGED <<members, notified, santaVars>>

\* The update of a row that has gone fails.
ChipUpdate(c) ==
  /\ chip[c].update = "found"
  /\ chip' = [chip EXCEPT ![c].update = "done",
                ![c].amount = IF chip[c].row = "there" THEN "changed" ELSE @]
  /\ UNCHANGED <<members, notified, santaVars>>

ChipDelete(c) ==
  /\ chip[c].delete = "found"
  /\ chip' = [chip EXCEPT ![c].delete = "done", ![c].row = "deleted"]
  /\ UNCHANGED <<members, notified, santaVars>>

\* The backtracking is one synchronous call that touches nothing shared: what
\* happens elsewhere in the meantime may as well happen before it or after it.
NoSearch == \A d \in Draws : draw[d].pc # "search"

ExchangesNext ==
  \/ NoSearch /\ \E m \in Members : JoinRead(m) \/ JoinCreate(m) \/ Leave(m)
  \/ NoSearch /\ \E d \in Draws : DrawRead(d) \/ DrawShuffle(d) \/ DrawFallBack(d) \/ DrawWrite(d)
  \/ \E d \in Draws : DrawTake(d) \/ DrawBack(d) \/ DrawRefuse(d) \/ DrawFind(d)
  \/ NoSearch /\ \E c \in ChipIns : \/ \E m \in Members : ChipIn(c, m)
                                \/ ChipTell(c) \/ ChipFind(c) \/ ChipUpdate(c) \/ ChipDelete(c)

ExchangesSpec == ExchangesInit /\ [][ExchangesNext]_exchangeVars

-----------------------------------------------------------------------------
(* Properties.                                                             *)

\* Every way in which each of P gives to one of P who may get from them, and no
\* two to the same one: what the search is after.
Assignments(P) ==
  {a \in Injection(P, P) : \A m \in P : MayGive(m, a[m])}

\* The draws that wrote their pairs had all read the same participants.
SameReading ==
  \A d, e \in Draws : draw[d].pc = "done" /\ draw[e].pc = "done" => draw[d].read = draw[e].read

\* Once the pairs are drawn, everybody who had joined before the draw gives to
\* one of the others and gets from one, nobody to somebody that either of the
\* two excludes, and only somebody who joined during a draw has no pair; also
\* when several draws overlap, unless they read different participants, which
\* may leave pairs of the one among those of the other.  And a draw is refused
\* only if there is no valid pairing of those it read, whatever the backtracking
\* went through (assign, findValidAssignment and backtrackAssignment,
\* secret-santa.service.ts:97-210).
GiftsMakeACircle ==
  /\ status = "assigned" /\ SameReading =>
       LET paired == {m \in participant : target[m] # Nobody} IN
       /\ participant \ late \subseteq paired
       /\ {target[m] : m \in paired} = paired
       /\ \A m \in paired : MayGive(m, target[m])
  /\ \A d \in Draws : draw[d].pc = "refused" => Assignments(draw[d].read) = {}
=============================================================================
