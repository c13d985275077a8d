------------------------------- MODULE Events -------------------------------
(***************************************************************************)
(* Events and the public list of them: modules/events/events.service.ts.   *)
(*                                                                         *)
(* publish(), cancel() and uploadBanner() read the event, decide, and save *)
(* what they read with their change, so a column another request changed   *)
(* in between is put back.  After each write the service increments        *)
(* events:cache:version; a list is cached under the version its request    *)
(* saw first, and a missing version counts as 1.  publish() then adds the  *)
(* delayed job of module Notifications that reminds the ticket owners.     *)
(***************************************************************************)
EXTENDS Naturals, FiniteSets, Functions

CONSTANTS
  EventIds,   \* primary keys of table "events"
  Writers,    \* bound on the organizers' requests in progress
  Readers,    \* bound on the list requests in progress
  MaxSaves,   \* bound on the requests that write in one behaviour
  MaxFaults   \* bound on the failures of one behaviour

ASSUME EventBounds == {MaxSaves, MaxFaults} \subseteq Nat

Status == {"draft", "published", "cancelled"}
Row == [status: Status, banner: BOOLEAN]
Change == {"publish", "cancel", "banner"}
Versions == 0 .. MaxSaves

VARIABLES
  events,    \* the rows of table "events", by primary key
  write,     \* write[w]: what organizer request w does next
  version,   \* events:cache:version; 0 means no key
  lists,     \* the cached lists, by the version in their key
  read,      \* read[q]: what list request q does next
  answer,    \* answer[q]: the list request q was answered with
  valid,     \* valid[q]: those of them when request q began, and the lists published since
  reminders, \* reminders[e]: reminder jobs added for event e
  reminded,  \* reminded[e]: those of them that have run
  recent,    \* the lists that were published since no bump was still to come
  saves,     \* writes begun
  faults     \* failures so far

vars == <<events, write, version, lists, read, answer, valid, reminders, reminded, recent, saves, faults>>

Idle == [at |-> "idle"]
Changing == [at: {"save"}, what: Change, id: EventIds, row: Row]
Bumping == [at: {"bump"}, what: Change \cup {"create"}, id: EventIds]
Scheduling == [at: {"schedule"}, id: EventIds]
Keyed == [at: {"get", "select"}, key: 1 .. MaxSaves + 1]
Storing == [at: {"store"}, key: 1 .. MaxSaves + 1, list: SUBSET EventIds]

TypeOK ==
  /\ DOMAIN events \subseteq EventIds
  /\ events \in [DOMAIN events -> Row]
  /\ write \in [Writers -> {Idle} \cup Changing \cup Bumping \cup Scheduling]
  /\ version \in 0 .. MaxSaves
  /\ DOMAIN lists \subseteq 1 .. MaxSaves + 1
  /\ lists \in [DOMAIN lists -> SUBSET EventIds]
  /\ read \in [Readers -> {Idle} \cup Keyed \cup Storing]
  /\ answer \in [Readers -> SUBSET EventIds]
  /\ valid \in [Readers -> SUBSET SUBSET EventIds]
  /\ reminders \in [EventIds -> 0 .. MaxSaves]
  /\ \A e \in EventIds : reminded[e] \in 0 .. reminders[e]
  /\ recent \in SUBSET SUBSET EventIds
  /\ saves \in 0 .. MaxSaves
  /\ faults \in 0 .. MaxFaults

(* WHERE event.status = 'published' *)
Listed(rows) == {e \in DOMAIN rows : rows[e].status = "published"}

Init ==
  /\ events = [e \in {} |-> e]
  /\ write = [w \in Writers |-> Idle]
  /\ version = 0
  /\ lists = [v \in {} |-> v]
  /\ read = [q \in Readers |-> Idle]
  /\ answer = [q \in Readers |-> {}]
  /\ valid = [q \in Readers |-> {{}}]
  /\ reminders = [e \in EventIds |-> 0]
  /\ reminded = [e \in EventIds |-> 0]
  /\ recent = {{}}
  /\ saves = 0
  /\ faults = 0

listVars == <<lists, read, answer>>
mailVars == <<reminders, reminded>>

-----------------------------------------------------------------------------
(* The organizer                                                           *)

(* Requests whose bump is still to come. *)
ToCome == {w \in Writers : write[w].at = "bump"}

(* A commit: requests in progress may be answered with the new list too.   *)
Commits(w, e, what, rows) ==
  /\ events' = rows
  /\ valid' = [q \in Readers |-> IF read[q] = Idle THEN valid[q]
                                                   ELSE valid[q] \cup {Listed(rows)}]
  /\ recent' = recent \cup {Listed(rows)}
  /\ write' = [write EXCEPT ![w] = [at |-> "bump", what |-> what, id |-> e]]

CreateEvent(w, e) ==
  /\ write[w] = Idle
  /\ e \in EventIds \ DOMAIN events
  /\ saves < MaxSaves
  /\ saves' = saves + 1
  /\ Commits(w, e, "create", [x \in DOMAIN events \cup {e} |->
                   IF x = e THEN [status |-> "draft", banner |-> FALSE] ELSE events[x]])
  /\ UNCHANGED <<version, listVars, mailVars, faults>>

(* findOne() and the checks of publish(), cancel() and uploadBanner() *)
MayChange_Mut(e, what) == TRUE
MayChange(e, what) == what = "publish" => events[e].status = "draft"

ReadEvent(w, e, what) ==
  /\ write[w] = Idle
  /\ e \in DOMAIN events
  /\ MayChange(e, what)
  /\ saves < MaxSaves
  /\ saves' = saves + 1
  /\ write' = [write EXCEPT ![w] = [at |-> "save", what |-> what, id |-> e, row |-> events[e]]]
  /\ UNCHANGED <<events, version, listVars, valid, mailVars, recent, faults>>

Changed(row, what) ==
  CASE what = "publish" -> [row EXCEPT !.status = "published"]
    [] what = "cancel" -> [row EXCEPT !.status = "cancelled"]
    [] what = "banner" -> [row EXCEPT !.banner = TRUE]

SaveEvent(w) ==
  /\ write[w].at = "save"
  /\ LET e == write[w].id what == write[w].what
     IN  Commits(w, e, what, [events EXCEPT ![e] = Changed(write[w].row, what)])
  /\ UNCHANGED <<version, listVars, mailVars, saves, faults>>

(* bumpEventsCache(): INCR makes a missing key 1. *)
Bumped_Mut == version
Bumped == version + 1

AfterBump_Mut(w) == Idle
AfterBump(w) ==
  IF write[w].what = "publish" THEN [at |-> "schedule", id |-> write[w].id] ELSE Idle

Bump(w) ==
  /\ write[w].at = "bump"
  /\ version' = Bumped
  /\ write' = [write EXCEPT ![w] = AfterBump(w)]
  /\ recent' = IF ToCome \ {w} = {} THEN {Listed(events)} ELSE recent
  /\ UNCHANGED <<events, listVars, valid, mailVars, saves, faults>>

(* The request fails or the process dies between its save and its bump. *)
BumpIsLost(w) ==
  /\ write[w].at = "bump"
  /\ faults < MaxFaults
  /\ faults' = faults + 1
  /\ write' = [write EXCEPT ![w] = Idle]
  /\ UNCHANGED <<events, version, listVars, valid, mailVars, recent, saves>>

(* scheduleEventReminder(): a job without an id of its own, delayed until  *)
(* the day before the event.                                               *)
Schedules(w) ==
  /\ write[w].at = "schedule"
  /\ reminders' = [reminders EXCEPT ![write[w].id] = @ + 1]
  /\ write' = [write EXCEPT ![w] = Idle]
  /\ UNCHANGED <<events, version, listVars, valid, reminded, recent, saves, faults>>

(* Redis refuses the job: publish() logs that and answers all the same. *)
ScheduleFails(w) ==
  /\ write[w].at = "schedule"
  /\ faults < MaxFaults
  /\ faults' = faults + 1
  /\ write' = [write EXCEPT ![w] = Idle]
  /\ UNCHANGED <<events, version, listVars, valid, mailVars, recent, saves>>

(* handleEventReminder() looks for the event and its tickets, whatever the *)
(* status of either.                                                       *)
Reminds(e) ==
  /\ reminded[e] < reminders[e]
  /\ reminded' = [reminded EXCEPT ![e] = @ + 1]
  /\ UNCHANGED <<events, write, version, listVars, valid, reminders, recent, saves, faults>>

(* Redis comes back empty. *)
RedisRestarts ==
  /\ faults < MaxFaults
  /\ faults' = faults + 1
  /\ version' = 0
  /\ lists' = [v \in {} |-> v]
  /\ UNCHANGED <<events, write, read, answer, valid, mailVars, recent, saves>>

-----------------------------------------------------------------------------
(* listPublished() *)

(* buildListCacheKey() *)
CurrentKey_Mut == version
CurrentKey == IF version = 0 THEN 1 ELSE version

Asks(q) ==
  /\ read[q] = Idle
  /\ read' = [read EXCEPT ![q] = [at |-> "get", key |-> CurrentKey]]
  /\ valid' = [valid EXCEPT ![q] = recent]
  /\ UNCHANGED <<events, write, version, lists, answer, mailVars, recent, saves, faults>>

Answers(q, list) ==
  /\ answer' = [answer EXCEPT ![q] = list]
  /\ read' = [read EXCEPT ![q] = Idle]

(* A hit is answered as it is; it does not renew the entry. *)
Hit_Mut(q, list) ==
  read' = [read EXCEPT ![q] = [at |-> "store", key |-> @.key, list |-> list]] /\ UNCHANGED answer
Hit(q, list) == Answers(q, list)

Gets(q) ==
  /\ read[q].at = "get"
  /\ IF read[q].key \in DOMAIN lists
     THEN Hit(q, lists[read[q].key])
     ELSE read' = [read EXCEPT ![q].at = "select"] /\ UNCHANGED answer
  /\ UNCHANGED <<events, write, version, lists, valid, mailVars, recent, saves, faults>>

Selects(q) ==
  /\ read[q].at = "select"
  /\ read' = [read EXCEPT ![q] = [at |-> "store", key |-> read[q].key, list |-> Listed(events)]]
  /\ UNCHANGED <<events, write, version, lists, answer, valid, mailVars, recent, saves, faults>>

Stores(q) ==
  /\ read[q].at = "store"
  /\ lists' = [v \in DOMAIN lists \cup {read[q].key} |->
                 IF v = read[q].key THEN read[q].list ELSE lists[v]]
  /\ Answers(q, read[q].list)
  /\ UNCHANGED <<events, write, version, valid, mailVars, recent, saves, faults>>

(* The ten minutes of SETEX are over. *)
Expires(v) ==
  /\ v \in DOMAIN lists
  /\ lists' = Restrict(lists, DOMAIN lists \ {v})
  /\ UNCHANGED <<events, write, version, read, answer, valid, mailVars, recent, saves, faults>>

-----------------------------------------------------------------------------
Organize(w) ==
  \/ \E e \in EventIds : CreateEvent(w, e)
  \/ \E e \in EventIds, what \in Change : ReadEvent(w, e, what)
  \/ SaveEvent(w)
  \/ Bump(w)
  \/ Schedules(w)

List(q) == Asks(q) \/ Gets(q) \/ Selects(q) \/ Stores(q)

Next ==
  \/ \E w \in Writers : Organize(w) \/ BumpIsLost(w) \/ ScheduleFails(w)
  \/ \E q \in Readers : List(q)
  \/ \E v \in 1 .. MaxSaves + 1 : Expires(v)
  \/ \E e \in EventIds : Reminds(e)
  \/ RedisRestarts

Fairness ==
  /\ \A w \in Writers : WF_vars(Organize(w))
  /\ \A q \in Readers : WF_vars(List(q))
  /\ \A v \in 1 .. MaxSaves + 1 : WF_vars(Expires(v))
  /\ \A e \in EventIds : WF_vars(Reminds(e))

Spec == Init /\ [][Next]_vars
FairSpec == Spec /\ Fairness

-----------------------------------------------------------------------------
(* What becomes of "Fast reads without staleness" (README) as long as no   *)
(* step fails: while no bump is to come, the list in the cache is what is  *)
(* published, and a list request is answered with a list that was          *)
(* published during the request or, if a bump was still to come as it      *)
(* began, since the first of the writes whose bumps were.  No list that a  *)
(* bump has ended is brought back, although a request finds its key, looks *)
(* in the cache, reads the table and fills the cache in four steps: what   *)
(* is stored late is stored under an old version.  The first bump does not *)
(* change the key (a missing version counts as 1), but the first write is  *)
(* the creation of a draft, which no list shows.                           *)
AnswersAreRecent ==
  faults = 0 =>
    /\ ToCome = {} /\ CurrentKey \in DOMAIN lists => lists[CurrentKey] = Listed(events)
    /\ \A q \in Readers : read[q] = Idle => answer[q] \in valid[q]

(* Whatever was lost between a save and its bump, and whoever stores late, *)
(* the cached list is wrong for a time only: once the organizers are done, *)
(* what is wrong expires and what is stored after that is right.           *)
StaleListsEnd ==
  <>[](CurrentKey \in DOMAIN lists => lists[CurrentKey] = Listed(events))

(* A cancellation is settled when no request is left that read the event   *)
(* before it: such a request saves the status it has read, or publishes.   *)
Settled(e) ==
  /\ e \in DOMAIN events /\ events[e].status = "cancelled"
  /\ \A w \in Writers : write[w].at = "save" /\ write[w].id = e
                         => write[w].row.status = "cancelled"

(* "Only draft events can be published": a settled cancellation is final,  *)
(* whatever is requested of the event later.                               *)
SettledCancellationsLast == [][\A e \in EventIds : Settled(e) => Settled(e)']_vars

Published(e) == e \in DOMAIN events /\ events[e].status = "published"

(* "Draft->published (schedules reminder)": whatever overtakes publish()   *)
(* after its commit, a published event gets its reminder, unless something *)
(* failed in between.                                                      *)
PublishedEventsAreReminded ==
  \A e \in EventIds : Published(e) ~> (reminded[e] > 0 \/ faults > 0)

-----------------------------------------------------------------------------
(* What the project's own words promise and the steps above do not keep.   *)

(* "Fast reads without staleness" (README): the list in the cache is what  *)
(* is published.  Between the save and the bump it is the one before.      *)
ListsAreCurrent ==
  faults = 0 => (CurrentKey \in DOMAIN lists => lists[CurrentKey] = Listed(events))

(* "Only draft events can be published" (publish()): no request makes an   *)
(* event public that was cancelled.                                        *)
OnlyDraftsArePublished ==
  [][\A e \in DOMAIN events :
       events'[e].status = "published" => events[e].status # "cancelled"]_events

(* "must be singleton or idempotent to avoid duplicate reminders" (README, *)
(* of scheduleEventReminder): an event has one reminder.  Two publish()    *)
(* that overlap add two, and so does a second publish() after the late     *)
(* save of a banner has made the event a draft again.                      *)
OneReminderPerEvent == \A e \in EventIds : reminders[e] <= 1

(* "is coming up" (subject of the reminder): the owners are reminded of    *)
(* events that take place.                                                 *)
RemindedEventsTakePlace ==
  [][\A e \in EventIds : Reminds(e) => Published(e)]_vars
=============================================================================
