----------------------------- MODULE ListCaches -----------------------------
(***************************************************************************)
(* The lists kept in Redis under one key each: the venues, the sections of *)
(* an event, and the favorites of a user (venues.service.ts,               *)
(* sections.service.ts, favorites.service.ts).                             *)
(*                                                                         *)
(* A reader that finds no key selects and stores; a writer commits and     *)
(* deletes the key.  No two of these steps belong together.  A favorite is *)
(* listed with its event and the event's venue, whose own services do not  *)
(* delete it.                                                              *)
(***************************************************************************)
EXTENDS Naturals, FiniteSets, Functions

CONSTANTS
  Ids,        \* primary keys of the venues, and of the sections of one event
  EventIds,   \* events that can be favorites
  Home,       \* their venue
  Users,      \* customers with favorites
  Readers,    \* bound on the list requests in progress
  Writers,    \* bound on the writing requests in progress
  MaxSaves,   \* bound on the commits of one behaviour
  MaxFaults   \* bound on the failures of one behaviour

ASSUME ListBounds ==
  /\ {MaxSaves, MaxFaults} \subseteq Nat
  /\ Home \in Ids
  /\ {"venues", "sections"} \cap Users = {}

Tables == {"venues", "sections"}
Keys == Tables \cup Users

(* What a row holds is the number of the commit that wrote it.             *)
Edition == 0 .. MaxSaves
Favorite == [id: Edition, user: Users, event: EventIds]

VARIABLES
  rows,        \* rows[t]: the rows of table t, by primary key
  events,      \* the rows of table "events"
  favorites,   \* the rows of table "favorites"
  cached,      \* cached[k]: the list stored under key k, if any: a set
  read,        \* read[q]: what list request q does next
  write,       \* write[w]: what writing request w does next
  outrun,      \* keys whose list was stored after, or kept without, a delete
  saves,       \* commits so far
  faults       \* failures so far

tableVars == <<rows, events, favorites, saves>>
cacheVars == <<cached, read, outrun, faults>>
vars == <<rows, events, favorites, cached, read, write, outrun, saves, faults>>

Idle == [at |-> "idle"]
Nothing == [x \in {} |-> 0]

(* SELECT: a favorite comes with its event and the venue of that. *)
Favorites(u) ==
  [e \in {f.event : f \in {g \in favorites : g.user = u}} |-> <<events[e], rows["venues"][Home]>>]
Current(k) == IF k \in Tables THEN rows[k] ELSE Favorites(k)
Lists(k) == IF k \in Tables THEN UNION {[I -> Edition] : I \in SUBSET Ids}
                            ELSE UNION {[E -> Edition \X Edition] : E \in SUBSET EventIds}

Selecting == [at: {"select"}, key: Keys]
Storing(k) == [at: {"store"}, key: {k}, list: Lists(k), late: BOOLEAN]
Writing ==
  [at: {"save", "product", "drop"}, row: [t: Tables, i: Ids]]
    \cup [at: {"add"}, user: Users, event: EventIds]
    \cup [at: {"take"}, favorite: Favorite]
    \cup [at: {"del"}, key: Keys]

(* The part of a list that the writers deleting its key answer for.        *)
Own(k, list) == IF k \in Tables THEN list ELSE DOMAIN list

TypeOK ==
  /\ \A t \in Tables : rows[t] \in Lists(t)
  /\ Home \in DOMAIN rows["venues"]
  /\ events \in [EventIds -> Edition]
  /\ favorites \subseteq Favorite
  /\ \A k \in Keys : cached[k] \subseteq Lists(k) /\ Cardinality(cached[k]) <= 1
  /\ read \in [Readers -> {Idle} \cup Selecting \cup UNION {Storing(k) : k \in Keys}]
  /\ write \in [Writers -> {Idle} \cup Writing]
  /\ outrun \subseteq Keys
  /\ saves \in 0 .. MaxSaves
  /\ faults \in 0 .. MaxFaults

Init ==
  /\ rows = [t \in Tables |-> IF t = "venues" THEN [i \in {Home} |-> 0] ELSE Nothing]
  /\ events = [e \in EventIds |-> 0]
  /\ favorites = {}
  /\ cached = [k \in Keys |-> {}]
  /\ read = [q \in Readers |-> Idle]
  /\ write = [w \in Writers |-> Idle]
  /\ outrun = {}
  /\ saves = 0
  /\ faults = 0

-----------------------------------------------------------------------------
(* list(), listByEvent(): GET, SELECT, SETEX.  A hit changes nothing. *)
Misses_Mut(q, k) ==
  /\ read[q] = Idle
  /\ \/ cached[k] = {} /\ read' = [read EXCEPT ![q] = [at |-> "select", key |-> k]]
     \/ \E list \in cached[k] :
          read' = [read EXCEPT ![q] = [at |-> "store", key |-> k, list |-> list, late |-> FALSE]]
  /\ UNCHANGED <<tableVars, cached, write, outrun, faults>>
Misses(q, k) ==
  /\ read[q] = Idle
  /\ cached[k] = {}
  /\ read' = [read EXCEPT ![q] = [at |-> "select", key |-> k]]
  /\ UNCHANGED <<tableVars, cached, write, outrun, faults>>

Selects(q) ==
  /\ read[q].at = "select"
  /\ read' = [read EXCEPT ![q] = [at |-> "store", key |-> read[q].key,
                                  list |-> Current(read[q].key), late |-> FALSE]]
  /\ UNCHANGED <<tableVars, cached, write, outrun, faults>>

Stores(q) ==
  /\ read[q].at = "store"
  /\ LET k == read[q].key
     IN  /\ cached' = [cached EXCEPT ![k] = {read[q].list}]
         /\ outrun' = IF read[q].late THEN outrun \cup {k} ELSE outrun \ {k}
  /\ read' = [read EXCEPT ![q] = Idle]
  /\ UNCHANGED <<tableVars, write, faults>>

(* The ten minutes of SETEX are over. *)
Expires(k) ==
  /\ cached[k] # {}
  /\ cached' = [cached EXCEPT ![k] = {}]
  /\ outrun' = outrun \ {k}
  /\ UNCHANGED <<tableVars, read, write, faults>>

-----------------------------------------------------------------------------
Begins(w, r) == write[w] = Idle /\ write' = [write EXCEPT ![w] = r]
Deleting(k) == [at |-> "del", key |-> k]
GoesOn(w, r) == write' = [write EXCEPT ![w] = r]
Commits == saves < MaxSaves /\ saves' = saves + 1
InHand == {write[w].row : w \in {x \in Writers : write[x].at \in {"save", "product", "drop"}}}
Put(t, i) == [rows EXCEPT ![t] = [x \in DOMAIN @ \cup {i} |-> IF x = i THEN saves + 1 ELSE @[x]]]

(* VenuesService.create() saves once.  SectionsService.create() saves,     *)
(* asks the provider for a product, and saves again unless it refuses.     *)
CreateRow(w, t, i) ==
  /\ i \notin DOMAIN rows[t]
  /\ [t |-> t, i |-> i] \notin InHand
  /\ Commits
  /\ rows' = Put(t, i)
  /\ Begins(w, IF t = "venues" THEN Deleting(t) ELSE [at |-> "product", row |-> [t |-> t, i |-> i]])
  /\ UNCHANGED <<events, favorites, cacheVars>>

(* update() and remove(): findOne(), or 404 *)
ReadRow(w, t, i, step) ==
  /\ i \in DOMAIN rows[t]
  /\ Begins(w, [at |-> step, row |-> [t |-> t, i |-> i]])
  /\ UNCHANGED <<tableVars, cacheVars>>

(* save(): a row that is gone by then is inserted again. *)
AfterSave_Mut(w) == Idle
AfterSave(w) == Deleting(write[w].row.t)

SaveRow(w) ==
  /\ write[w].at \in {"save", "product"}
  /\ Commits
  /\ rows' = Put(write[w].row.t, write[w].row.i)
  /\ GoesOn(w, AfterSave(w))
  /\ UNCHANGED <<events, favorites, cacheVars>>

NoProduct(w) ==
  /\ write[w].at = "product"
  /\ GoesOn(w, AfterSave(w))
  /\ UNCHANGED <<tableVars, cacheVars>>

(* events.venue_id refers to the venue of an event. *)
Removable(r) == r # [t |-> "venues", i |-> Home]

(* remove() of an entity whose row is gone deletes nothing. *)
DropRow(w) ==
  /\ write[w].at = "drop"
  /\ Removable(write[w].row)
  /\ LET r == write[w].row IN rows' = [rows EXCEPT ![r.t] = Restrict(@, DOMAIN @ \ {r.i})]
  /\ GoesOn(w, Deleting(write[w].row.t))
  /\ UNCHANGED <<events, favorites, saves, cacheVars>>

-----------------------------------------------------------------------------
Unfavorited(u, e) == \A f \in favorites : ~(f.user = u /\ f.event = e)

(* FavoritesService.add(): the check, or 409 *)
ChecksFavorite(w, u, e) ==
  /\ Unfavorited(u, e)
  /\ Begins(w, [at |-> "add", user |-> u, event |-> e])
  /\ UNCHANGED <<tableVars, cacheVars>>

(* UNIQUE(user_id, event_id) *)
NoOtherRow_Mut(w) == TRUE
NoOtherRow(w) == Unfavorited(write[w].user, write[w].event)

AddsFavorite(w) ==
  /\ write[w].at = "add"
  /\ NoOtherRow(w)
  /\ Commits
  /\ favorites' = favorites \cup {[id |-> saves', user |-> write[w].user, event |-> write[w].event]}
  /\ GoesOn(w, Deleting(write[w].user))
  /\ UNCHANGED <<rows, events, cacheVars>>

(* FavoritesService.remove(): findOne(), then a DELETE of that row *)
FindsFavorite(w, f) ==
  /\ f \in favorites
  /\ Begins(w, [at |-> "take", favorite |-> f])
  /\ UNCHANGED <<tableVars, cacheVars>>

TakesFavorite(w) ==
  /\ write[w].at = "take"
  /\ favorites' = favorites \ {write[w].favorite}
  /\ GoesOn(w, Deleting(write[w].favorite.user))
  /\ UNCHANGED <<rows, events, saves, cacheVars>>

(* publish(), cancel(), uploadBanner() of module Events *)
ChangesEvent(e) ==
  /\ Commits
  /\ events' = [events EXCEPT ![e] = saves']
  /\ UNCHANGED <<rows, favorites, write, cacheVars>>

-----------------------------------------------------------------------------
(* Lists selected before the delete of their key and stored after it *)
Outruns(k) ==
  read' = [q \in Readers |-> IF read[q].at = "store" /\ read[q].key = k
                             THEN [read[q] EXCEPT !.late = TRUE] ELSE read[q]]

(* redis.del() *)
DeletesKey(w) ==
  /\ write[w].at = "del"
  /\ cached' = [cached EXCEPT ![write[w].key] = {}]
  /\ outrun' = outrun \ {write[w].key}
  /\ Outruns(write[w].key)
  /\ GoesOn(w, Idle)
  /\ UNCHANGED <<tableVars, faults>>

(* A commit is made whose delete is to come. *)
Owes(w, k) ==
  \/ write[w] = Deleting(k)
  \/ write[w].at = "product" /\ write[w].row.t = k

(* Redis does not answer, or the process dies in between. *)
DeleteIsLost(w, k) ==
  /\ Owes(w, k)
  /\ faults < MaxFaults
  /\ faults' = faults + 1
  /\ outrun' = IF cached[k] = {} THEN outrun ELSE outrun \cup {k}
  /\ Outruns(k)
  /\ GoesOn(w, Idle)
  /\ UNCHANGED <<tableVars, cached>>

(* MySQL refuses the statement: a foreign or unique key, or an error. *)
RequestFails(w) ==
  /\ write[w].at \notin {"idle", "del", "product"}
  /\ GoesOn(w, Idle)
  /\ UNCHANGED <<tableVars, cacheVars>>

-----------------------------------------------------------------------------
Writes(w) ==
  \/ \E t \in Tables, i \in Ids :
       \/ CreateRow(w, t, i)
       \/ \E step \in {"save", "drop"} : ReadRow(w, t, i, step)
  \/ SaveRow(w)
  \/ NoProduct(w)
  \/ DropRow(w)
  \/ \E u \in Users, e \in EventIds : ChecksFavorite(w, u, e)
  \/ AddsFavorite(w)
  \/ \E f \in favorites : FindsFavorite(w, f)
  \/ TakesFavorite(w)
  \/ DeletesKey(w)
  \/ \E k \in Keys : DeleteIsLost(w, k)
  \/ RequestFails(w)

Next ==
  \/ \E w \in Writers : Writes(w)
  \/ \E e \in EventIds : ChangesEvent(e)
  \/ \E q \in Readers : Selects(q) \/ Stores(q) \/ \E k \in Keys : Misses(q, k)
  \/ \E k \in Keys : Expires(k)

(* Redis drops a key when its time is over, whoever asks for it. *)
Spec == Init /\ [][Next]_vars
FairSpec == Spec /\ \A k \in Keys : WF_vars(Expires(k))

-----------------------------------------------------------------------------
(* "Cached 10m": every operation of the three services that changes what a *)
(* list shows deletes its key, so a cached list that is wrong waits for    *)
(* that delete, was stored by a reader the delete had passed, or outlived  *)
(* a delete that was lost.  Favorites are meant by their events here.      *)
WrongListsHaveACause ==
  \A k \in Keys : \A list \in cached[k] :
    Own(k, list) # Own(k, Current(k)) => k \in outrun \/ \E w \in Writers : Owes(w, k)

(* "409 duplicate": no user has an event twice among the favorites,        *)
(* although add() looks and inserts in two steps.                          *)
OneFavoritePerEvent ==
  \A f, g \in favorites : f.user = g.user /\ f.event = g.event => f = g

(* Whatever was lost or late, and whichever service changed what a list    *)
(* shows, the list that is served is wrong for a time only: a hit does not *)
(* renew it, so it expires, and what is selected after that is right.      *)
StaleListsEnd == \A k \in Keys : <>[](cached[k] \subseteq {Current(k)})

-----------------------------------------------------------------------------
(* What the project's own words promise and the steps above do not keep.   *)

(* "Fast reads without staleness" (README): when no request is in progress *)
(* and nothing failed or was late, the favorites that are served show the  *)
(* events as they are.  No change of an event or venue deletes them.       *)
FavoritesAreCurrent ==
  \A u \in Users \ outrun :
    /\ faults = 0
    /\ \A w \in Writers : write[w] = Idle
    /\ \A q \in Readers : read[q] = Idle
    => cached[u] \subseteq {Favorites(u)}

(* "Delete" (README, DELETE /api/venues/:id): a venue that is gone is not  *)
(* brought back by an update, whose 404 is decided by an earlier read.     *)
DeletedRowsStayAway ==
  [][\A w \in Writers : SaveRow(w) => DOMAIN rows'["venues"] = DOMAIN rows["venues"]]_vars
=============================================================================
