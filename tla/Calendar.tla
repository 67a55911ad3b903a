------------------------------ MODULE Calendar ------------------------------
(***************************************************************************)
(* One person's occasions: PersonsService.update and the automatic event   *)
(* it keeps in step with the birthday (the anniversary's is alike),        *)
(* EventsService, and the two daily jobs, which roll recurring events      *)
(* forward at 1 am and create reminders at 6 am.                           *)
(*                                                                         *)
(* Days are numbered; every year has Year days (29 February, which falls   *)
(* on 1 March in other years, is left out).  No handler runs over midnight.*)
(***************************************************************************)
EXTENDS Integers, FiniteSets

CONSTANTS
  Events,   \* ids of rows of events
  NoEvent,  \* no event
  Dates,    \* the dates that a birthday or an event may have: days
  NoDate,   \* no birthday
  Saves,    \* saves of the person with a birthday in them
  Changes,  \* updates of an event by the user
  Removals, \* removals of an event by the user
  Leads,    \* LEAD_DAYS: days before an event that it is announced
  Year,     \* days of a year
  MaxDay,   \* bound on the clock
  Crashes   \* bound on restarts

Horizon == CHOOSE l \in Leads : \A k \in Leads : k <= l

ASSUME CalendarAssumption ==
  /\ Leads \subseteq Nat /\ \E l \in Leads : \A k \in Leads : k <= l
  /\ Dates \subseteq Nat /\ Dates # {} /\ NoDate \notin Dates
  /\ NoEvent \notin Events
  /\ Year \in Nat \ {0} /\ Horizon < Year /\ MaxDay \in Nat /\ Crashes \in Nat

VARIABLES
  day,       \* today
  birthday,  \* persons.birthday
  event,     \* event[e]: the row, with the state it is in
  reminders, \* the rows of reminders
  save,      \* save[s]: a save of the person: where it is, and what it found
  change,    \* change[u]: an update or a removal: where it is, and what it read
  refresh,   \* the 1 am job: where it is, and the rows that it read
  remind,    \* the 6 am job: where it is, and the rows that it will insert
  fresh,     \* the events that no handler has touched since midnight
  overtaken, \* the events whose next day was found for a date, or for a
             \* recurrence, that they had lost
  torn,      \* has a save overlapped another one, or been cut short?
  missed,    \* the days in a row, until yesterday, without a 1 am job
  crashes    \* restarts so far

calendarVars == <<day, birthday, event, reminders, save, change, refresh, remind,
                  fresh, overtaken, torn, missed, crashes>>

-----------------------------------------------------------------------------
(* Types.                                                                  *)

\* marked is the column user_deleted.
Event == [pc : {"new", "live", "gone"}, auto : BOOLEAN, modified : BOOLEAN,
          marked : BOOLEAN, recurring : BOOLEAN, date : Dates, next : Int]

Reminder == [event : Events, lead : Leads, on : Int, dismissed : BOOLEAN]

Save == [pc : {"new", "find", "write", "done"}, found : Events \cup {NoEvent},
         modified : BOOLEAN, marked : BOOLEAN, date : Dates \cup {NoDate}]

\* given: what the update gives; date, recurring: that, or as the event was read.
Change == [pc : {"new", "clear", "write", "mark", "delete", "done"},
           event : Events \cup {NoEvent}, auto : BOOLEAN,
           given : SUBSET {"date", "recurring"}, date : Dates, recurring : BOOLEAN]

CalendarTypeOK ==
  /\ day \in 0..MaxDay
  /\ birthday \in Dates \cup {NoDate}
  /\ event \in [Events -> Event]
  /\ \A r \in reminders : r \in Reminder
  /\ save \in [Saves -> Save]
  /\ change \in [Changes \cup Removals -> Change]
  /\ refresh.pc \in {"due", "read", "done", "failed"} /\ refresh.rows \subseteq Events \X Dates
  /\ remind.pc \in {"due", "read", "done", "failed"}
  /\ \A r \in remind.rows : r \in Reminder
  /\ fresh \subseteq Events
  /\ overtaken \subseteq Events
  /\ torn \in BOOLEAN
  /\ missed \in 0..MaxDay
  /\ crashes \in 0..Crashes

NoSave(pc) == [pc |-> pc, found |-> NoEvent, modified |-> FALSE, marked |-> FALSE,
               date |-> NoDate]
SomeDate == CHOOSE d \in Dates : TRUE
NoChange(pc) == [pc |-> pc, event |-> NoEvent, auto |-> FALSE, given |-> {},
                 date |-> SomeDate, recurring |-> FALSE]

CalendarInit ==
  /\ day = 0
  /\ birthday = NoDate
  /\ event = [e \in Events |-> [pc |-> "new", auto |-> FALSE, modified |-> FALSE,
                marked |-> FALSE, recurring |-> FALSE, date |-> SomeDate, next |-> 0]]
  /\ reminders = {}
  /\ save = [s \in Saves |-> NoSave("new")]
  /\ change = [u \in Changes \cup Removals |-> NoChange("new")]
  /\ refresh = [pc |-> "due", rows |-> {}]
  /\ remind = [pc |-> "due", rows |-> {}]
  /\ fresh = Events
  /\ overtaken = {}
  /\ torn = FALSE
  /\ missed = 0
  /\ crashes = 0

-----------------------------------------------------------------------------
(* Dates and rows.                                                         *)

Live(e) == event[e].pc = "live"

\* computeNextOccurrence.
NextOccurrence(date, recurring, today) ==
  LET thisYear == (today \div Year) * Year + (date % Year) IN
  IF ~recurring THEN date
  ELSE IF thisYear >= today THEN thisYear ELSE thisYear + Year

\* Event e is written: row.
Write(e, row) ==
  /\ event' = [event EXCEPT ![e] = row]
  /\ fresh' = fresh \ {e}

\* The same with the next day that a date and a recurrence lead to.
WriteNext(e, row, date, recurring) ==
  /\ Write(e, [row EXCEPT !.next = NextOccurrence(date, recurring, day)])
  /\ overtaken' = IF date = row.date /\ recurring = row.recurring
                  THEN overtaken \ {e} ELSE overtaken \cup {e}

\* ON DELETE CASCADE.
DropEvent(e) ==
  /\ Write(e, [event[e] EXCEPT !.pc = "gone"])
  /\ UNCHANGED overtaken
  /\ reminders' = {r \in reminders : r.event # e}

NewRow(auto, recurring, date) ==
  [pc |-> "live", auto |-> auto, modified |-> FALSE, marked |-> FALSE,
   recurring |-> recurring, date |-> date, next |-> 0]

\* EventsService.create.
EventCreate(e, recurring, date) ==
  /\ event[e].pc = "new"
  /\ WriteNext(e, NewRow(FALSE, recurring, date), date, recurring)
  /\ UNCHANGED <<day, birthday, reminders, save, change, refresh, remind, torn, missed, crashes>>

-----------------------------------------------------------------------------
(* Saves of the person: the row, then syncAutoEvent.                       *)

Saving == {s \in Saves : save[s].pc \in {"find", "write"}}

PersonSave(s, date) ==
  /\ save[s].pc = "new"
  /\ birthday' = date
  /\ save' = [save EXCEPT ![s].pc = "find", ![s].date = date]
  /\ torn' = (torn \/ Saving # {})
  /\ UNCHANGED <<day, event, reminders, change, refresh, remind, fresh, overtaken, missed, crashes>>

AutoEvents == {e \in Events : Live(e) /\ event[e].auto}

\* A plausible bug: a save without a birthday does not look for the event.
SyncFindDated(s) ==
  /\ save[s].pc = "find"
  /\ \E e \in IF AutoEvents = {} \/ save[s].date = NoDate THEN {NoEvent} ELSE AutoEvents :
       save' = [save EXCEPT ![s] = [@ EXCEPT !.pc = "write", !.found = e,
                  !.modified = e # NoEvent /\ event[e].modified,
                  !.marked = e # NoEvent /\ event[e].marked]]
  /\ UNCHANGED <<day, birthday, event, reminders, change, refresh, remind, fresh, overtaken, torn, missed, crashes>>

SyncFind(s) ==
  /\ save[s].pc = "find"
  /\ \E e \in IF AutoEvents = {} THEN {NoEvent} ELSE AutoEvents :
       save' = [save EXCEPT ![s] = [@ EXCEPT !.pc = "write", !.found = e,
                  !.modified = e # NoEvent /\ event[e].modified,
                  !.marked = e # NoEvent /\ event[e].marked]]
  /\ UNCHANGED <<day, birthday, event, reminders, change, refresh, remind, fresh, overtaken, torn, missed, crashes>>

\* What the user has modified or marked is left alone.
SyncWrite(s) ==
  LET q == save[s] IN
  /\ q.pc = "write"
  /\ save' = [save EXCEPT ![s] = NoSave("done")]
  /\ \/ /\ q.found = NoEvent /\ q.date # NoDate
        /\ \E e \in Events :
             event[e].pc = "new" /\ WriteNext(e, NewRow(TRUE, TRUE, q.date), q.date, TRUE)
        /\ UNCHANGED <<reminders, torn>>
     \/ /\ q.found = NoEvent /\ q.date = NoDate
        /\ UNCHANGED <<event, reminders, fresh, overtaken, torn>>
     \/ /\ q.found # NoEvent /\ (q.modified \/ q.marked)
        /\ UNCHANGED <<event, reminders, fresh, overtaken, torn>>
     \/ /\ q.found # NoEvent /\ ~q.modified /\ ~q.marked
        /\ IF ~Live(q.found)   \* the write fails, and the save with it
           THEN torn' = TRUE /\ UNCHANGED <<event, reminders, fresh, overtaken>>
           ELSE /\ IF q.date = NoDate THEN DropEvent(q.found)
                   ELSE /\ WriteNext(q.found, [event[q.found] EXCEPT !.date = q.date], q.date, TRUE)
                        /\ UNCHANGED reminders
                /\ UNCHANGED torn
  /\ UNCHANGED <<day, birthday, change, refresh, remind, missed, crashes>>

-----------------------------------------------------------------------------
(* The user's changes to an event.                                         *)

ChangeGoes(u, pc) == change' = [change EXCEPT ![u].pc = pc]

\* EventsService.update; with a date, it deletes the reminders first.
ChangeRead(u, e, given, date, recurring) ==
  /\ change[u].pc = "new" /\ Live(e)
  /\ "date" \in given \/ date = event[e].date
  /\ "recurring" \in given \/ recurring = event[e].recurring
  /\ change' = [change EXCEPT ![u] = [pc |-> IF "date" \in given THEN "clear" ELSE "write",
                   event |-> e, auto |-> event[e].auto, given |-> given, date |-> date,
                   recurring |-> recurring]]
  /\ UNCHANGED <<day, birthday, event, reminders, save, refresh, remind, fresh, overtaken, torn, missed, crashes>>

ChangeClear(u) ==
  /\ change[u].pc = "clear"
  /\ reminders' = {r \in reminders : r.event # change[u].event}
  /\ ChangeGoes(u, "write")
  /\ fresh' = fresh \ {change[u].event}
  /\ UNCHANGED <<day, birthday, event, save, refresh, remind, overtaken, torn, missed, crashes>>

\* What the update does not give stays as it is by now.
ChangedRow(q) ==
  [event[q.event] EXCEPT !.modified = @ \/ q.auto,
                         !.date = IF "date" \in q.given THEN q.date ELSE @,
                         !.recurring = IF "recurring" \in q.given THEN q.recurring ELSE @]

ChangeWrite(u) ==
  LET q == change[u] IN
  /\ q.pc = "write"
  /\ change' = [change EXCEPT ![u] = NoChange("done")]
  /\ \/ ~Live(q.event) /\ UNCHANGED <<event, fresh, overtaken>>
     \/ Live(q.event) /\ q.given = {} /\ Write(q.event, ChangedRow(q)) /\ UNCHANGED overtaken
     \/ Live(q.event) /\ q.given # {} /\ WriteNext(q.event, ChangedRow(q), q.date, q.recurring)
  /\ UNCHANGED <<day, birthday, reminders, save, refresh, remind, torn, missed, crashes>>

\* EventsService.remove: an automatic event is marked, then deleted all the same.
RemoveRead(x, e) ==
  /\ change[x].pc = "new" /\ Live(e)
  /\ change' = [change EXCEPT ![x].pc = IF event[e].auto THEN "mark" ELSE "delete",
                              ![x].event = e, ![x].auto = event[e].auto]
  /\ UNCHANGED <<day, birthday, event, reminders, save, refresh, remind, fresh, overtaken, torn, missed, crashes>>

RemoveMark(x) ==
  LET e == change[x].event IN
  /\ change[x].pc = "mark"
  /\ IF Live(e)
     THEN Write(e, [event[e] EXCEPT !.marked = TRUE]) /\ ChangeGoes(x, "delete")
     ELSE ChangeGoes(x, "done") /\ UNCHANGED <<event, fresh>>
  /\ UNCHANGED <<day, birthday, reminders, save, refresh, remind, overtaken, torn, missed, crashes>>

RemoveDelete(x) ==
  LET e == change[x].event IN
  /\ change[x].pc = "delete"
  /\ ChangeGoes(x, "done")
  /\ IF Live(e) THEN DropEvent(e) ELSE UNCHANGED <<event, reminders, fresh, overtaken>>
  /\ UNCHANGED <<day, birthday, save, refresh, remind, torn, missed, crashes>>

-----------------------------------------------------------------------------
(* The daily jobs.                                                         *)

\* refreshStaleRecurring reads the recurring events whose turn is over.
RefreshRead ==
  /\ refresh.pc = "due"
  /\ refresh' = [pc |-> "read",
                 rows |-> {<<e, event[e].date>> : e \in {f \in Events :
                             Live(f) /\ event[f].recurring /\ event[f].next < day}}]
  /\ UNCHANGED <<day, birthday, event, reminders, save, change, remind, fresh, overtaken, torn, missed, crashes>>

\* One transaction: a row that has gone fails it for all.
RefreshWrite ==
  /\ refresh.pc = "read"
  /\ IF \A row \in refresh.rows : Live(row[1])
     THEN /\ refresh' = [pc |-> "done", rows |-> {}]
          /\ event' = [e \in Events |->
               IF \E row \in refresh.rows : row[1] = e
               THEN [event[e] EXCEPT !.next = NextOccurrence(
                       (CHOOSE row \in refresh.rows : row[1] = e)[2], TRUE, day)]
               ELSE event[e]]
          /\ overtaken' = (overtaken \ {row[1] : row \in refresh.rows}) \cup
                {row[1] : row \in {q \in refresh.rows :
                             event[q[1]].date # q[2] \/ ~event[q[1]].recurring}}
     ELSE refresh' = [pc |-> "failed", rows |-> {}] /\ UNCHANGED <<event, overtaken>>
  /\ UNCHANGED <<day, birthday, reminders, save, change, remind, fresh, torn, missed, crashes>>

\* A plausible bug: the horizon itself is left out.
RemindReadShort ==
  /\ refresh.pc \in {"done", "failed"} /\ remind.pc = "due"
  /\ remind' = [pc |-> "read",
                rows |-> {r \in [event : {e \in Events : Live(e) /\ event[e].next < day + Horizon},
                                 lead : Leads, on : day..(day + Horizon), dismissed : {FALSE}] :
                            r.on = event[r.event].next - r.lead}]
  /\ UNCHANGED <<day, birthday, event, reminders, save, change, refresh, fresh, overtaken, torn, missed, crashes>>

\* generateReminders, five hours later: the rows within the horizon.
RemindRead ==
  /\ refresh.pc \in {"done", "failed"} /\ remind.pc = "due"
  /\ remind' = [pc |-> "read",
                rows |-> {r \in [event : {e \in Events : Live(e) /\ event[e].next <= day + Horizon},
                                 lead : Leads, on : day..(day + Horizon), dismissed : {FALSE}] :
                            r.on = event[r.event].next - r.lead}]
  /\ UNCHANGED <<day, birthday, event, reminders, save, change, refresh, fresh, overtaken, torn, missed, crashes>>

SameReminder(r, s) == r.event = s.event /\ r.lead = s.lead /\ r.on = s.on

\* One insert that skips what is there; it fails if an event has gone.
RemindWrite ==
  /\ remind.pc = "read"
  /\ IF \A r \in remind.rows : Live(r.event)
     THEN /\ reminders' = reminders \cup
                {r \in remind.rows : ~\E s \in reminders : SameReminder(r, s)}
          /\ remind' = [pc |-> "done", rows |-> {}]
     ELSE /\ remind' = [pc |-> "failed", rows |-> {}]
          /\ UNCHANGED reminders
  /\ UNCHANGED <<day, birthday, event, save, change, refresh, fresh, overtaken, torn, missed, crashes>>

Dismiss(r) ==
  /\ r \in reminders /\ ~r.dismissed /\ r.on <= day
  /\ reminders' = (reminders \ {r}) \cup {[r EXCEPT !.dismissed = TRUE]}
  /\ UNCHANGED <<day, birthday, event, save, change, refresh, remind, fresh, overtaken, torn, missed, crashes>>

Changing == {u \in Changes \cup Removals : change[u].pc \notin {"new", "done"}}

Missed == IF refresh.pc = "done" THEN 0 ELSE missed + 1

\* Midnight.  The jobs of the day have run, unless the process was down.
NextDay ==
  /\ day < MaxDay
  /\ Saving = {} /\ Changing = {}
  /\ remind.pc \in {"done", "failed"}
  /\ day' = day + 1
  /\ missed' = Missed
  /\ refresh' = [pc |-> "due", rows |-> {}]
  /\ remind' = [pc |-> "due", rows |-> {}]
  /\ fresh' = Events
  /\ UNCHANGED <<birthday, event, reminders, save, change, overtaken, torn, crashes>>

\* A restart cuts every handler short; a job that misses its hour is not run.
CalendarRestart ==
  /\ crashes < Crashes
  /\ crashes' = crashes + 1
  /\ save' = [s \in Saves |-> IF s \in Saving THEN NoSave("done") ELSE save[s]]
  /\ change' = [u \in DOMAIN change |->
                  IF u \in Changing THEN [change[u] EXCEPT !.pc = "done"] ELSE change[u]]
  /\ torn' = (torn \/ Saving # {})
  /\ refresh' = IF refresh.pc = "done" THEN refresh ELSE [pc |-> "failed", rows |-> {}]
  /\ remind' = IF remind.pc = "done" THEN remind ELSE [pc |-> "failed", rows |-> {}]
  /\ UNCHANGED <<day, birthday, event, reminders, fresh, overtaken, missed>>

CalendarNext ==
  \/ \E e \in Events, d \in Dates : EventCreate(e, TRUE, d) \/ EventCreate(e, FALSE, d)
  \/ \E s \in Saves : \/ \E d \in Dates \cup {NoDate} : PersonSave(s, d)
                      \/ SyncFind(s) \/ SyncWrite(s)
  \/ \E u \in Changes : \/ \E e \in Events, given \in SUBSET {"date", "recurring"},
                              d \in Dates, recurring \in BOOLEAN : ChangeRead(u, e, given, d, recurring)
                        \/ ChangeClear(u) \/ ChangeWrite(u)
  \/ \E x \in Removals : \/ \E e \in Events : RemoveRead(x, e)
                         \/ RemoveMark(x) \/ RemoveDelete(x)
  \/ RefreshRead \/ RefreshWrite \/ RemindRead \/ RemindWrite
  \/ \E r \in reminders : Dismiss(r)
  \/ NextDay \/ CalendarRestart

CalendarSpec == CalendarInit /\ [][CalendarNext]_calendarVars

-----------------------------------------------------------------------------
(* Properties.                                                             *)

\* The automatic event has the person's birthday, and goes with it, unless the
\* user changed or removed it: only saves that overlap or are cut short, and a save whose
\* event is removed under it, leave the two apart (update,
\* persons.service.ts:137-203; syncAutoEvent, events.service.ts:194-249).
AutoEventFollows ==
  Saving = {} /\ ~torn =>
    \A e \in AutoEvents :
      ~event[e].modified /\ ~event[e].marked => event[e].date = birthday

\* Once the 6 am job has run, an event that nobody touched since midnight has
\* every reminder that falls on this day, also when the 1 am job has failed for
\* days (a restart at its hour, an event deleted under it), as long as that is
\* shorter than a year less the longest lead.  Only an event whose next day was
\* found for a date or a recurrence that it had lost, by the 1 am job or by an
\* update, can miss them (generateReminders, reminders.service.ts:53-106;
\* refreshStaleRecurring, events.service.ts:251-277; update, :101-152).
RemindersAreDue ==
  remind.pc = "done" /\ Missed < Year - Horizon =>
    \A e \in fresh \ overtaken, l \in Leads :
      /\ Live(e)
      /\ day = NextOccurrence(event[e].date, event[e].recurring, day) - l
      /\ l # 0
      => \E r \in reminders : r.event = e /\ r.lead = l /\ r.on = day

\* The calendar keeps up with the person and with the days.
CalendarKeepsUp == AutoEventFollows /\ RemindersAreDue

\* What the comment says: "Mark as user-deleted so auto-sync won't re-create it"
\* (events.service.ts:158).
DeletedEventsStayDeleted ==
  (\E x \in Removals : change[x].pc = "done" /\ change[x].auto /\ ~Live(change[x].event))
    => AutoEvents = {} \/ torn
=============================================================================
