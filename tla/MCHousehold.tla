---------------------------- MODULE MCHousehold ----------------------------
(* What surrounds one person on small instances: the people and the form   *)
(* of a dossier, the gift history, the calendar, Secret Santa and the gift *)
(* pool, photos and tags, the photos on the page, surveys and their pages, *)
(* the price watch, and personal data at rest.                             *)
(* These components share no state; a behaviour is about one of them, with *)
(* a cast: the calls that happen in it.  Both are chosen at the start, so  *)
(* that one run covers all of them at the cost of their sum.               *)
EXTENDS Calendar, Exchanges, Photos, Surveys, PriceWatch, Vault, People, GiftHistory, Gallery,
        SurveyPages

CONSTANTS
  m1, m2, m3, m4,
  k1, k2,                                                \* gifts
  CalendarCasts, ExchangeCasts, PhotoCasts, SurveyCasts, PageCasts  \* the actors of a behaviour

VARIABLES part, cast

\* m2 has excluded m3.
OneExclusion == [m \in Members |-> IF m = m2 THEN {m3} ELSE {}]

\* Actors that are not in the cast stay where they were.  A manual event is
\* only created on the first day, with the first id or ids of its own, and a
\* restart happens on the second day only; a reminder is dismissed on its day.
CalendarOffStage ==
  /\ \A s \in Saves \ cast : save'[s].pc = "new"
  /\ \A u \in (Changes \cup Removals) \ cast : change'[u].pc = "new"
  /\ \A e \in Events :
       event[e].pc = "new" /\ event'[e].pc = "live" /\ ~event'[e].auto => day = 0 /\ e # "e1"
  /\ crashes' > crashes => day = 1
  /\ \A r \in reminders : r.on # day => [r EXCEPT !.dismissed = TRUE] \notin reminders' \ reminders

ExchangesOffStage ==
  /\ \A c \in ChipIns \ cast : chip'[c].row = "none"
  /\ \A d \in Draws \ cast : draw'[d].pc = "new"
  /\ Draws \cap cast = {} => join' = join

\* Of two photos, which only fill the plan, nothing fails; of a photo and a
\* generation of tags at once, one thing does.
PhotosOffStage ==
  /\ Cardinality(cast \cap Photos) = 2 => fails' = 0
  /\ cast \cap Photos # {} /\ cast \cap Generates # {} => fails' <= 1
  /\ \A p \in Photos \ cast : photo'[p].pc = "new"
  /\ \A g \in Generates \ cast : generate'[g].pc = "new"
  /\ \A a \in Adds \ cast : add'[a].pc = "new"
  /\ \A j \in Jobs \ cast : job'[j].pc = "new"
  /\ \A t \in Labels \ cast : /\ tag'[t] = "none"
                               /\ \A j \in Jobs : t \notin job'[j].sees
                               /\ \A g \in Generates : t \notin generate'[g].rest
                               /\ \A a \in Adds : add'[a].label # t

SurveysOffStage ==
  /\ \A s \in Sends \ cast : surveyLink'[s].pc = "new"
  /\ \A b \in Submits \ cast : submit'[b].pc = "new"
  /\ \A u \in Updates \ cast : update'[u].pc = "new"

\* The two halves of People: adding people, and the form.
PeopleOffStage ==
  /\ cast = {} => newcomer' = newcomer /\ people' = people /\ unlimited' = unlimited
  /\ cast # {} => page' = page

\* After a clash or a lost answer nothing new is asked for.
HistoryOffStage == mixed => sends' = sends /\ lists' = lists

\* The two halves of Gallery: choosing files, and the viewer.  After a lost or
\* late answer nothing new is asked for.
GalleryOffStage ==
  /\ blurred \/ crossed =>
       <<posts', loads', looks'>> = <<posts, loads, looks>> /\ tray'.dialog \in {"none", tray.dialog}
  /\ cast = {"files"} => looks' = 0
  /\ cast = {"viewer"} => tray' = tray /\ posts' <= 1
  /\ confirm' \notin {confirm, NoShot} => posts < MaxPosts
  /\ cast = {"viewer"} => (confirm' = NoShot => confirm = NoShot \/ posts' > posts)

\* The two halves of SurveyPages: the owner reviews one response, or sends
\* surveys that are answered.  A form is filled in once, before it is sent.
SurveyPagesOffStage ==
  /\ cast = {} => sheet' = sheet /\ dialog' = dialog /\ pressed' <= 2
  /\ cast # {} => section' = section /\ fetches' = fetches
  /\ \A l \in Mails \ cast : mail'[l].row = "none"
  /\ \A f \in Tabs \ cast : sheet'[f].shows = "nothing"
  /\ dialog'.on /\ ~dialog.on => OnTrip = {} /\ \E l \in Mails \cap cast : mail[l].row = "none"
  /\ dialog'.questions # dialog.questions => pressed = 0 /\ Mails \subseteq cast
  /\ \A f \in Tabs : sheet'[f].filled # sheet[f].filled =>
       ~sheet[f].sending /\ sheet[f].told = "none" /\ Cardinality(sheet'[f].filled) = 1

TwoYears == [g \in Gifts |-> IF g = k1 THEN 1 ELSE 2]

photosVars == <<tagVars, photoVars>>

MCInit ==
  /\ \/ part = "calendar" /\ cast \in CalendarCasts
     \/ part = "exchanges" /\ cast \in ExchangeCasts
     \/ part = "photos" /\ cast \in PhotoCasts
     \/ part = "surveys" /\ cast \in SurveyCasts
     \/ part \in {"watch", "vault", "history"} /\ cast = {}
     \/ part = "people" /\ cast \in {{}, Newcomers}
     \/ part = "gallery" /\ cast \in {{"files"}, {"viewer"}}
     \/ part = "pages" /\ cast \in PageCasts
  /\ CalendarInit /\ ExchangesInit /\ PhotosInit /\ SurveysInit
  /\ WatchInit /\ (part # "watch" => \A s \in Watched : wish[s].url /\ \A price \in Prices : market[s] >= price)
  /\ VaultInit /\ (part # "vault" => \A r \in Rows : stored[r] = NoRow)
  /\ PeopleInit /\ ((part = "people" /\ cast = {}) \/ dossier = [f \in Details |-> Blank])
  /\ HistoryInit /\ (part # "history" => \A g \in Gifts : row[g] = "none")
  /\ GalleryInit /\ (part # "gallery" => \A s \in Shots : pic[s] = "none")
  /\ tray.agreed <=> cast = {"viewer"}
  /\ cast = {"viewer"} => \A s \in Shots : pic[s] # "none"
  /\ SurveyPagesInit
  /\ LET old == {r \in Replies : reply[r].row # "none"} IN
     IF part = "pages" /\ cast = {} THEN Cardinality(old) = 1 ELSE old = {}

MCNext ==
  /\ UNCHANGED <<part, cast>>
  /\ \/ /\ part = "calendar" /\ CalendarNext /\ CalendarOffStage
        /\ UNCHANGED <<exchangeVars, photosVars, surveyVars, watchVars, vaultVars, peopleVars, historyVars, galleryVars,
                       surveyPageVars>>
     \/ /\ part = "exchanges" /\ ExchangesNext /\ ExchangesOffStage
        /\ UNCHANGED <<calendarVars, photosVars, surveyVars, watchVars, vaultVars, peopleVars, historyVars, galleryVars,
                       surveyPageVars>>
     \/ /\ part = "photos" /\ PhotosNext /\ PhotosOffStage
        /\ UNCHANGED <<calendarVars, exchangeVars, surveyVars, watchVars, vaultVars, peopleVars, historyVars, galleryVars,
                       surveyPageVars>>
     \/ /\ part = "surveys" /\ SurveysNext /\ SurveysOffStage
        /\ UNCHANGED <<calendarVars, exchangeVars, photosVars, watchVars, vaultVars, peopleVars, historyVars, galleryVars,
                       surveyPageVars>>
     \/ /\ part = "watch" /\ WatchNext
        /\ UNCHANGED <<calendarVars, exchangeVars, photosVars, surveyVars, vaultVars, peopleVars, historyVars, galleryVars,
                       surveyPageVars>>
     \/ /\ part = "vault" /\ VaultNext
        /\ UNCHANGED <<calendarVars, exchangeVars, photosVars, surveyVars, watchVars, peopleVars, historyVars, galleryVars,
                       surveyPageVars>>
     \/ /\ part = "people" /\ PeopleNext /\ PeopleOffStage
        /\ UNCHANGED <<calendarVars, exchangeVars, photosVars, surveyVars, watchVars, vaultVars, historyVars, galleryVars,
                       surveyPageVars>>
     \/ /\ part = "history" /\ HistoryNext /\ HistoryOffStage
        /\ UNCHANGED <<calendarVars, exchangeVars, photosVars, surveyVars, watchVars, vaultVars, peopleVars, galleryVars,
                       surveyPageVars>>
     \/ /\ part = "gallery" /\ GalleryNext /\ GalleryOffStage
        /\ UNCHANGED <<calendarVars, exchangeVars, photosVars, surveyVars, watchVars, vaultVars, peopleVars,
                       historyVars, surveyPageVars>>
     \/ /\ part = "pages" /\ SurveyPagesNext /\ SurveyPagesOffStage
        /\ UNCHANGED <<calendarVars, exchangeVars, photosVars, surveyVars, watchVars, vaultVars, peopleVars,
                       historyVars, galleryVars>>

MCSpec ==
  MCInit /\ [][MCNext]_<<part, cast, calendarVars, exchangeVars, photosVars, surveyVars, watchVars, vaultVars,
                          peopleVars, historyVars, galleryVars, surveyPageVars>>

\* What a behaviour is about is well typed; the rest stays as it began.
HouseholdTypeOK ==
  /\ part = "calendar" => CalendarTypeOK
  /\ part = "exchanges" => ExchangesTypeOK
  /\ part = "photos" => PhotosTypeOK
  /\ part = "surveys" => SurveysTypeOK
  /\ part = "watch" => WatchTypeOK
  /\ part = "vault" => VaultTypeOK
  /\ part = "people" => PeopleTypeOK
  /\ part = "history" => HistoryTypeOK
  /\ part = "gallery" => GalleryTypeOK
  /\ part = "pages" => SurveyPagesTypeOK
=============================================================================
