------------------------------ MODULE Gallery ------------------------------
(***************************************************************************)
(* The photos on a person's page: the list with its polling, the choice of *)
(* files with consent and category, the uploads one after the other, and   *)
(* the viewer with deletion and re-analysis.  Every request may be         *)
(* answered late, in any order, refused or lost.  What the API does with a *)
(* photo is module Photos; here it is one row that appears, is analysed    *)
(* and goes.  The plan is Elite, whose buttons include those of the others.*)
(***************************************************************************)
EXTENDS Naturals, FiniteSets

CONSTANTS
  Shots,     \* photos of the person, stored already or to be chosen as files
  NoShot,
  Wires,     \* requests that may be under way at once
  MaxPosts,  \* bound on uploads, deletions and re-analyses
  MaxLoads,  \* bound on the loads that follow nothing, and on those of pictures
  MaxLooks

ASSUME GalleryAssumption == NoShot \notin Shots /\ {MaxPosts, MaxLoads, MaxLooks} \subseteq Nat

VARIABLES
  pic,             \* pic[s]: the row of s in the API
  clock, changed,  \* changes of rows so far; changed[s]: the last one of s
  gallery,         \* what the section shows, and when what it heard of each photo was true
  tray,            \* the chosen files and the dialogs they go through
  viewer, confirm, \* the viewer; the photo whose deletion waits for a second press
  wire,            \* the section's requests under way
  posts, loads, looks,
  blurred,         \* an answer was lost, or a load was heard that is older than what was heard before
  bare,            \* the dialog was opened without files, or while others were being uploaded
  crossed          \* a picture was lost, or replaced by one asked for earlier

picVars == <<pic, clock, changed>>
galleryVars == <<picVars, gallery, tray, viewer, confirm, wire, posts, loads, looks, blurred, bare, crossed>>

Statuses == {"pending", "complete", "failed"}
NoViewer == [on |-> FALSE, shot |-> NoShot, image |-> NoShot]
Nothing == [s \in Shots |-> "none"]
NoWire == [kind |-> "load", shot |-> NoShot, left |-> {}, pc |-> "idle", view |-> Nothing, at |-> 0]

\* A placeholder is listed as pending.
Seen == [s \in Shots |-> CASE pic[s] = "claimed" -> "pending"
                           [] pic[s] = "gone" -> "none"
                           [] OTHER -> pic[s]]

Wire == [kind : {"load", "upload", "delete", "reanalyze", "url"}, shot : Shots \cup {NoShot}, left : SUBSET Shots,
         pc : {"idle", "sent", "claimed", "served", "refused"}, view : [Shots -> Statuses \cup {"none"}], at : Nat]

GalleryTypeOK ==
  /\ pic \in [Shots -> Statuses \cup {"none", "claimed", "gone"}]
  /\ clock \in Nat /\ changed \in [Shots -> Nat]
  /\ gallery \in [shots : [Shots -> Statuses \cup {"none"}], heard : [Shots -> Nat], loading : BOOLEAN]
  /\ tray \in [pending : SUBSET Shots, dialog : {"none", "consent", "category"},
               agreed : BOOLEAN, uploading : BOOLEAN]
  /\ viewer \in [on : BOOLEAN, shot : Shots \cup {NoShot}, image : Shots \cup {NoShot}]
  /\ confirm \in Shots \cup {NoShot}
  /\ wire \in [Wires -> Wire]
  /\ posts \in 0 .. MaxPosts /\ loads \in 0 .. MaxLoads /\ looks \in 0 .. MaxLooks
  /\ {blurred, bare, crossed} \subseteq BOOLEAN

GalleryInit ==
  /\ pic \in [Shots -> {"none", "pending", "complete"}]
  /\ clock = 0 /\ changed = [s \in Shots |-> 0]
  /\ gallery = [shots |-> Nothing, heard |-> [s \in Shots |-> 0], loading |-> TRUE]
  /\ tray \in [pending : {{}}, dialog : {"none"}, agreed : BOOLEAN, uploading : {FALSE}]
  /\ viewer = NoViewer /\ confirm = NoShot
  /\ wire = [n \in Wires |-> NoWire]
  /\ posts = 0 /\ loads = 0 /\ looks = 0
  /\ blurred = FALSE /\ bare = FALSE /\ crossed = FALSE

-----------------------------------------------------------------------------
(* The section.                                                            *)

UnderWay == {n \in Wires : wire[n].pc # "idle"}
FreeWire == CHOOSE n \in Wires : n \notin UnderWay
Uploads == {n \in UnderWay : wire[n].kind = "upload"}

Shown(s) == gallery.shots[s] # "none"
ViewerSeen == viewer.on /\ Shown(viewer.shot)

\* The dialogs and the viewer lie over the page.
PageInFront == ~gallery.loading /\ tray.dialog = "none" /\ ~ViewerSeen

Request(kind, s) ==
  /\ UnderWay # Wires
  /\ wire' = [wire EXCEPT ![FreeWire] = [NoWire EXCEPT !.kind = kind, !.shot = s, !.pc = "sent"]]

Post(kind, s) == posts < MaxPosts /\ posts' = posts + 1 /\ Request(kind, s)

PollDue == \E s \in Shots : gallery.shots[s] = "pending"

\* loadPhotos(): on mount, with a new access token, and every ten seconds while
\* a poll is due.
LoadShots ==
  /\ loads < MaxLoads /\ loads' = loads + 1
  /\ Request("load", NoShot)
  /\ UNCHANGED <<picVars, gallery, tray, viewer, confirm, posts, looks, blurred, bare, crossed>>

\* The button is disabled during an upload; the drop zone, which is there as
\* long as no photo is, takes files all the same.  What is dropped may hold no
\* file, and what is picked may be taken back: the dialog opens without any.
ChooseFiles(files) ==
  /\ PageInFront
  /\ ~tray.uploading \/ \A s \in Shots : ~Shown(s)
  /\ \A s \in files : pic[s] = "none" /\ \A n \in Uploads : s \notin wire[n].left \cup {wire[n].shot}
  /\ tray' = [tray EXCEPT !.pending = files, !.dialog = IF tray.agreed THEN "category" ELSE "consent"]
  /\ bare' = (files = {} \/ Uploads # {})
  /\ UNCHANGED <<picVars, gallery, viewer, confirm, wire, posts, loads, looks, blurred, crossed>>

Consent ==
  /\ tray.dialog = "consent"
  /\ tray' = [tray EXCEPT !.dialog = "category", !.agreed = TRUE]
  /\ UNCHANGED <<picVars, gallery, viewer, confirm, wire, posts, loads, looks, blurred, bare, crossed>>

Decline ==
  /\ tray.dialog = "consent"
  /\ tray' = [tray EXCEPT !.dialog = "none", !.pending = {}]
  /\ UNCHANGED <<picVars, gallery, viewer, confirm, wire, posts, loads, looks, blurred, bare, crossed>>

\* handleUpload(): a category, or none.  The files go out one after the other;
\* without files nothing happens, and the dialog stays.
StartUpload(s) ==
  /\ tray.dialog = "category" /\ s \in tray.pending
  /\ posts < MaxPosts /\ posts' = posts + 1 /\ UnderWay # Wires
  /\ wire' = [wire EXCEPT ![FreeWire] =
       [NoWire EXCEPT !.kind = "upload", !.shot = s, !.left = tray.pending \ {s}, !.pc = "sent"]]
  /\ tray' = [tray EXCEPT !.dialog = "none", !.uploading = TRUE]
  /\ UNCHANGED <<picVars, gallery, viewer, confirm, loads, looks, blurred, bare, crossed>>

\* The first press asks, for five seconds; an earlier press' timer may end it
\* sooner.
PressDelete(s) ==
  /\ PageInFront /\ Shown(s)
  /\ IF confirm = s THEN confirm' = NoShot /\ Post("delete", s)
     ELSE confirm' = s /\ UNCHANGED <<wire, posts>>
  /\ UNCHANGED <<picVars, gallery, tray, viewer, loads, looks, blurred, bare, crossed>>

ConfirmFades ==
  /\ confirm # NoShot /\ confirm' = NoShot
  /\ UNCHANGED <<picVars, gallery, tray, viewer, wire, posts, loads, looks, blurred, bare, crossed>>

\* The answers for a viewer that was closed change nothing.
Closed(wires) == [n \in Wires |-> IF wires[n].kind = "url" THEN NoWire ELSE wires[n]]

Look(s) == looks < MaxLooks /\ looks' = looks + 1 /\ Request("url", s)

\* A viewer whose photo is no longer shown is still there, and keeps its photo.
OpenViewer(s) ==
  /\ PageInFront /\ Shown(s) /\ ~viewer.on
  /\ viewer' = [NoViewer EXCEPT !.on = TRUE, !.shot = s]
  /\ Look(s)
  /\ UNCHANGED <<picVars, gallery, tray, confirm, posts, loads, blurred, bare, crossed>>

\* The arrows, whose keys work in a viewer without a photo as well, and a new
\* access token, which asks for the same picture again.
Turn(s) ==
  /\ viewer.on /\ (Shown(s) \/ s = viewer.shot)
  /\ viewer' = [viewer EXCEPT !.shot = s]
  /\ Look(s)
  /\ UNCHANGED <<picVars, gallery, tray, confirm, posts, loads, blurred, bare, crossed>>

CloseViewer ==
  /\ viewer.on
  /\ viewer' = NoViewer /\ crossed' = FALSE
  /\ wire' = Closed(wire)
  /\ UNCHANGED <<picVars, gallery, tray, confirm, posts, loads, looks, blurred, bare>>

ViewerReanalyze ==
  /\ ViewerSeen /\ gallery.shots[viewer.shot] = "complete"
  /\ Post("reanalyze", viewer.shot)
  /\ UNCHANGED <<picVars, gallery, tray, viewer, confirm, loads, looks, blurred, bare, crossed>>

ViewerDelete ==
  /\ ViewerSeen
  /\ posts < MaxPosts /\ posts' = posts + 1 /\ UnderWay # Wires
  /\ wire' = [Closed(wire) EXCEPT ![FreeWire] =
       [NoWire EXCEPT !.kind = "delete", !.shot = viewer.shot, !.pc = "sent"]]
  /\ viewer' = NoViewer /\ crossed' = FALSE
  /\ UNCHANGED <<picVars, gallery, tray, confirm, loads, looks, blurred, bare>>

-----------------------------------------------------------------------------
(* The API.                                                                *)

Stored(s) == pic[s] \notin {"none", "gone"}

Becomes(s, status) ==
  /\ pic' = [pic EXCEPT ![s] = status]
  /\ clock' = clock + 1 /\ changed' = [changed EXCEPT ![s] = clock']

Answers(n, pc) == wire' = [wire EXCEPT ![n].pc = pc]

ServeLoad(n) ==
  /\ wire[n].kind = "load" /\ wire[n].pc = "sent"
  /\ wire' = [wire EXCEPT ![n].pc = "served", ![n].view = Seen, ![n].at = clock]
  /\ UNCHANGED picVars

\* The limits of a minute and an hour, the size, the type, the plan's quota.
RefuseUpload(n) ==
  /\ wire[n].kind = "upload" /\ wire[n].pc = "sent"
  /\ Answers(n, "refused") /\ UNCHANGED picVars

ClaimUpload(n) ==
  /\ wire[n].kind = "upload" /\ wire[n].pc = "sent" /\ pic[wire[n].shot] = "none"
  /\ Becomes(wire[n].shot, "claimed") /\ Answers(n, "claimed")

\* A row that was deleted meanwhile cannot be written.  A storage that fails
\* leaves the placeholder, an image that cannot be processed gives it back.
StoreUpload(n) ==
  LET s == wire[n].shot IN
  /\ wire[n].kind = "upload" /\ wire[n].pc = "claimed"
  /\ \/ pic[s] = "claimed" /\ pic' = [pic EXCEPT ![s] = "pending"] /\ UNCHANGED <<clock, changed>>
        /\ Answers(n, "served")
     \/ Answers(n, "refused") /\ UNCHANGED picVars
     \/ pic[s] = "claimed" /\ Becomes(s, "gone") /\ Answers(n, "refused")

ServeDelete(n) ==
  /\ wire[n].kind = "delete" /\ wire[n].pc = "sent"
  /\ IF Stored(wire[n].shot)
     THEN /\ Becomes(wire[n].shot, "gone")
          /\ wire' = [wire EXCEPT ![n].pc = "served", ![n].at = clock']
     ELSE Answers(n, "refused") /\ UNCHANGED picVars

\* Refused if it was done in the last ten minutes.
ServeReanalyze(n) ==
  /\ wire[n].kind = "reanalyze" /\ wire[n].pc = "sent"
  /\ \/ Stored(wire[n].shot) /\ Becomes(wire[n].shot, "pending") /\ Answers(n, "served")
     \/ Answers(n, "refused") /\ UNCHANGED picVars

ServeUrl(n) ==
  /\ wire[n].kind = "url" /\ wire[n].pc = "sent"
  /\ Answers(n, IF Stored(wire[n].shot) THEN "served" ELSE "refused") /\ UNCHANGED picVars

ServeWire(n) ==
  /\ \/ ServeLoad(n) \/ RefuseUpload(n) \/ ClaimUpload(n) \/ StoreUpload(n)
     \/ ServeDelete(n) \/ ServeReanalyze(n) \/ ServeUrl(n)
  /\ UNCHANGED <<gallery, tray, viewer, confirm, posts, loads, looks, blurred, bare, crossed>>

\* The analysis of a stored photo ends.
Analysed(s, status) ==
  /\ pic[s] = "pending" /\ status \in {"complete", "failed"}
  /\ pic' = [pic EXCEPT ![s] = status]
  /\ UNCHANGED <<clock, changed, gallery, tray, viewer, confirm, wire, posts, loads, looks, blurred, bare, crossed>>

-----------------------------------------------------------------------------
(* What the section hears.                                                 *)

Forget(n) == [wire EXCEPT ![n] = NoWire]
LoadNext(n) == [wire EXCEPT ![n] = [NoWire EXCEPT !.pc = "sent"]]

HearShots(n) ==
  /\ wire[n].kind = "load" /\ wire[n].pc = "served"
  /\ wire' = Forget(n)
  /\ gallery' = [shots |-> wire[n].view, heard |-> [s \in Shots |-> wire[n].at], loading |-> FALSE]
  /\ blurred' = (blurred \/ \E s \in Shots : wire[n].at < gallery.heard[s])
  /\ UNCHANGED <<tray, viewer, crossed>>

\* A load that fails is silent.
LoseShots(n) ==
  /\ wire[n].kind = "load" /\ wire[n].pc \in {"sent", "served"}
  /\ wire' = Forget(n)
  /\ gallery' = [gallery EXCEPT !.loading = FALSE]
  /\ blurred' = TRUE
  /\ UNCHANGED <<tray, viewer, crossed>>

\* A plausible bug: the list is loaded again only if the last file was stored.
UploadGoesOnQuietly(n) ==
  /\ wire[n].kind = "upload" /\ wire[n].pc \in {"sent", "served", "refused"}
  /\ IF wire[n].left # {}
     THEN /\ \E s \in wire[n].left :
               wire' = [wire EXCEPT ![n].shot = s, ![n].left = @ \ {s}, ![n].pc = "sent"]
          /\ UNCHANGED tray
     ELSE /\ wire' = IF wire[n].pc = "served" THEN LoadNext(n) ELSE Forget(n)
          /\ tray' = [tray EXCEPT !.pending = {}, !.uploading = FALSE]
  /\ UNCHANGED <<gallery, viewer, blurred, crossed>>

\* Stored, refused or lost: the next file, or the end, which forgets whatever
\* files are chosen by now and loads the list.
UploadGoesOn(n) ==
  /\ wire[n].kind = "upload" /\ wire[n].pc \in {"sent", "served", "refused"}
  /\ IF wire[n].left # {}
     THEN /\ \E s \in wire[n].left :
               wire' = [wire EXCEPT ![n].shot = s, ![n].left = @ \ {s}, ![n].pc = "sent"]
          /\ UNCHANGED tray
     ELSE /\ wire' = LoadNext(n)
          /\ tray' = [tray EXCEPT !.pending = {}, !.uploading = FALSE]
  /\ UNCHANGED <<gallery, viewer, blurred, crossed>>

\* The viewer closes whatever photo it is at.
HearDeleted(n) ==
  /\ wire[n].kind = "delete" /\ wire[n].pc = "served"
  /\ gallery' = [gallery EXCEPT !.shots[wire[n].shot] = "none", !.heard[wire[n].shot] = wire[n].at]
  /\ wire' = Closed(Forget(n))
  /\ viewer' = NoViewer /\ crossed' = FALSE
  /\ UNCHANGED <<tray, blurred>>

HearReanalyzing(n) ==
  /\ wire[n].kind = "reanalyze" /\ wire[n].pc = "served"
  /\ wire' = LoadNext(n)
  /\ UNCHANGED <<gallery, tray, viewer, blurred, crossed>>

LosePost(n) ==
  /\ wire[n].kind \in {"delete", "reanalyze"} /\ wire[n].pc # "idle"
  /\ wire' = Forget(n)
  /\ blurred' = (blurred \/ wire[n].pc = "served")
  /\ UNCHANGED <<gallery, tray, viewer, crossed>>

\* The picture is shown if it is the current photo's.
HearUrl(n) ==
  /\ wire[n].kind = "url" /\ wire[n].pc = "served"
  /\ wire' = Forget(n)
  /\ viewer' = [viewer EXCEPT !.image = wire[n].shot]
  /\ crossed' = (crossed \/ (viewer.image = viewer.shot /\ wire[n].shot # viewer.shot))
  /\ UNCHANGED <<gallery, tray, blurred>>

LoseUrl(n) ==
  /\ wire[n].kind = "url" /\ wire[n].pc # "idle"
  /\ wire' = Forget(n)
  /\ crossed' = TRUE
  /\ UNCHANGED <<gallery, tray, viewer, blurred>>

\* Without photos there are no buttons, and no deletion that waits for a press.
HearWire(n) ==
  /\ \/ HearShots(n) \/ LoseShots(n) \/ UploadGoesOn(n) \/ HearDeleted(n)
     \/ HearReanalyzing(n) \/ LosePost(n) \/ HearUrl(n) \/ LoseUrl(n)
  /\ confirm' = IF \E s \in Shots : Shown(s)' THEN confirm ELSE NoShot
  /\ UNCHANGED <<picVars, posts, loads, looks, bare>>

GalleryNext ==
  \/ LoadShots \/ Consent \/ Decline \/ ConfirmFades
  \/ \E files \in SUBSET Shots : ChooseFiles(files)
  \/ \E s \in Shots : StartUpload(s) \/ PressDelete(s) \/ OpenViewer(s) \/ Turn(s)
  \/ CloseViewer \/ ViewerReanalyze \/ ViewerDelete
  \/ \E n \in Wires : ServeWire(n) \/ HearWire(n)
  \/ \E s \in Shots : \E status \in {"complete", "failed"} : Analysed(s, status)

GallerySpec == GalleryInit /\ [][GalleryNext]_galleryVars

-----------------------------------------------------------------------------
(* Properties.                                                             *)

\* When nothing is on its way and no photo is shown as pending, which would be
\* asked about again, the section shows the API's photos with their states -
\* whatever uploads, deletions, analyses and loads overlapped, those that were
\* refused or failed halfway included - unless an answer was lost or a load
\* came too late; the viewer shows its photo, unless its picture was lost or
\* overtaken; and a dialog that was opened for files, while none were being
\* uploaded, has them until it is answered
\* (photo-section.tsx:52-161, photo-lightbox.tsx:41-45).
GalleryAsServed ==
  /\ tray.dialog # "none" => tray.pending # {} \/ bare
  /\ UnderWay = {} /\ loads > 0 =>
       /\ ~gallery.loading /\ ~tray.uploading
       /\ viewer.on /\ viewer.image # viewer.shot => crossed
       /\ ~PollDue /\ ~blurred => gallery.shots = Seen
=============================================================================
