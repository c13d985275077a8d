---------------------------- MODULE EventsProofs ----------------------------
(***************************************************************************)
(* Proofs about the public list of events, and about the mail that is sent *)
(* of them and of all else.                                                *)
(*                                                                         *)
(* A list is stored under the version its request found first, so a        *)
(* version that counts every commit makes late lists harmless.  It does    *)
(* not count the first one: it has to be known besides that no list shows  *)
(* what that one creates.  Versions and reminders are bounded by the saves *)
(* that have made them, mails by the attempts that have sent them.         *)
(***************************************************************************)
EXTENDS Events, Notifications, FiniteSetTheorems, TLAPS

IsReading(r) ==
  \/ r = Idle
  \/ r.at \in {"get", "select"} /\ r.key \in Nat /\ r = [at |-> r.at, key |-> r.key]
  \/ r.at = "store" /\ r.key \in Nat /\ r.list \subseteq EventIds

Shapes ==
  /\ DOMAIN events \subseteq EventIds
  /\ events \in [DOMAIN events -> Row]
  /\ write = [w \in Writers |-> write[w]]
  /\ read = [q \in Readers |-> read[q]]
  /\ answer = [q \in Readers |-> answer[q]]
  /\ valid = [q \in Readers |-> valid[q]]
  /\ \A q \in Readers : IsReading(read[q])
  /\ \A v \in DOMAIN lists : lists[v] \subseteq EventIds
  /\ version \in Nat /\ faults \in Nat

(* Requests that save have passed the check of publish(). *)
SavesFollowChecks ==
  \A w \in Writers : write[w].at = "save" =>
    /\ write[w].what \in Change
    /\ write[w].row \in Row
    /\ write[w].what = "publish" => write[w].row.status = "draft"

-----------------------------------------------------------------------------
NonePending == \A w \in Writers : write[w].at # "bump"
OnePending == \A w, x \in Writers : write[w].at = "bump" /\ write[x].at = "bump" => w = x

KeysAreOld ==
  /\ \A v \in DOMAIN lists : v \in Nat /\ v <= CurrentKey
  /\ \A q \in Readers : read[q] # Idle => read[q].key <= CurrentKey

(* With every commit counted, what is published now is all that is recent. *)
RecentIsTold ==
  /\ Listed(events) \in recent
  /\ NonePending => recent = {Listed(events)}

(* What is, or will be, stored under the key in use is recent.             *)
StoredIsRecent ==
  /\ \A v \in DOMAIN lists : v = CurrentKey => lists[v] \in recent
  /\ \A q \in Readers : read[q].at = "store" /\ read[q].key = CurrentKey
                          => read[q].list \in recent

(* The commit that changes no key changes no list. *)
FirstIsADraft ==
  version = 0 =>
    /\ NonePending => DOMAIN events = {}
    /\ OnePending =>
         /\ Listed(events) = {}
         /\ \A v \in DOMAIN lists : lists[v] = {}
         /\ \A q \in Readers : read[q].at = "store" => read[q].list = {}

(* What a request may come to be answered with was right in its time, or   *)
(* recent when that began.                                                 *)
AnswersToCome ==
  \A q \in Readers : read[q] # Idle =>
    /\ Listed(events) \in valid[q]
    /\ \A v \in DOMAIN lists : v = read[q].key => lists[v] \in valid[q]
    /\ \A p \in Readers : read[p].at = "store" /\ read[p].key = read[q].key
                            => read[p].list \in valid[q]

AnswersGiven == \A q \in Readers : read[q] = Idle => answer[q] \in valid[q]

Counted ==
  /\ KeysAreOld
  /\ RecentIsTold
  /\ StoredIsRecent
  /\ FirstIsADraft
  /\ AnswersToCome
  /\ AnswersGiven

Inv == Shapes /\ SavesFollowChecks /\ (faults = 0 => Counted)

-----------------------------------------------------------------------------
LEMMA InitInv == Init => Inv
<1> SUFFICES ASSUME Init PROVE Inv
  OBVIOUS
<1>1. /\ \A q \in Readers : read[q] = Idle /\ answer[q] \in valid[q]
      /\ \A w \in Writers : write[w] = Idle
      /\ DOMAIN events = {} /\ DOMAIN lists = {}
  BY DEF Init
<1>2. Shapes /\ SavesFollowChecks
  BY <1>1 DEF Init, Shapes, SavesFollowChecks, IsReading, Idle
<1>3. Listed(events) = {}
  BY <1>1 DEF Listed
<1>4. Counted
  BY <1>1, <1>3 DEF Init, Counted, KeysAreOld, RecentIsTold, StoredIsRecent, FirstIsADraft, AnswersToCome,
                    AnswersGiven, Idle
<1> QED
  BY <1>2, <1>4 DEF Inv

(* What the list shows of rows that differ in the event e alone. *)
LEMMA ListedType == Shapes => Listed(events) \subseteq EventIds
BY DEF Shapes, Listed

-----------------------------------------------------------------------------
(* Commits: the list may change, and no step of a reader is made.          *)
LEMMA CommitInv ==
  ASSUME Inv, NEW w \in Writers, NEW e, NEW what, NEW rows, Commits(w, e, what, rows),
         write[w].at # "bump",
         DOMAIN rows \subseteq EventIds, rows \in [DOMAIN rows -> Row],
         DOMAIN events = {} => Listed(rows) = {},
         UNCHANGED <<version, listVars, faults>>
  PROVE  Inv'
<1>1. /\ events' = rows /\ recent' = recent \cup {Listed(rows)}
      /\ \A q \in Readers : valid'[q] = IF read[q] = Idle THEN valid[q] ELSE valid[q] \cup {Listed(rows)}
      /\ \A x \in Writers : write'[x] = IF x = w THEN [at |-> "bump", what |-> what, id |-> e] ELSE write[x]
      /\ UNCHANGED <<lists, read, answer, version, faults>>
  BY DEF Commits, Inv, Shapes, listVars
<1>2. Shapes'
  BY <1>1 DEF Commits, Inv, Shapes, IsReading
<1>3. SavesFollowChecks'
  BY <1>1 DEF Inv, SavesFollowChecks
<1>4. ASSUME Counted PROVE Counted'
  <2>1. ~NonePending'
    BY <1>1 DEF NonePending
  <2>2. OnePending' => NonePending
    BY <1>1 DEF NonePending, OnePending
  <2>3. NonePending => OnePending
    BY DEF NonePending, OnePending
  <2>4. FirstIsADraft'
    BY <1>1, <1>4, <2>1, <2>2, <2>3 DEF Counted, FirstIsADraft
  <2>5. AnswersToCome' /\ AnswersGiven'
    BY <1>1, <1>4 DEF Counted, AnswersToCome, AnswersGiven
  <2> QED
    BY <1>1, <1>4, <2>1, <2>4, <2>5 DEF Counted, KeysAreOld, CurrentKey, RecentIsTold, StoredIsRecent
<1> QED
  BY <1>1, <1>2, <1>3, <1>4 DEF Inv

LEMMA CreateEventInv ==
  ASSUME Inv, NEW w \in Writers, NEW e \in EventIds, CreateEvent(w, e)
  PROVE  Inv'
<1> DEFINE new == [status |-> "draft", banner |-> FALSE]
           rows == [x \in DOMAIN events \cup {e} |-> IF x = e THEN new ELSE events[x]]
<1>1. new \in Row /\ new.status # "published"
  BY DEF Row, Status
<1>2. Commits(w, e, "create", rows) /\ write[w].at # "bump" /\ UNCHANGED <<version, listVars, faults>>
  BY DEF CreateEvent, Idle
<1> HIDE DEF new
<1>3. DOMAIN rows \subseteq EventIds /\ rows \in [DOMAIN rows -> Row]
  BY <1>1 DEF Inv, Shapes
<1>4. DOMAIN events = {} => Listed(rows) = {}
  BY <1>1 DEF Listed
<1> HIDE DEF rows
<1> QED
  BY <1>2, <1>3, <1>4, CommitInv

LEMMA SaveEventInv ==
  ASSUME Inv, NEW w \in Writers, SaveEvent(w)
  PROVE  Inv'
<1> DEFINE rows == [events EXCEPT ![write[w].id] = Changed(write[w].row, write[w].what)]
<1>1. Commits(w, write[w].id, write[w].what, rows) /\ write[w].at = "save"
      /\ UNCHANGED <<version, listVars, faults>>
  BY DEF SaveEvent
<1>2. write[w].row \in Row /\ write[w].what \in Change
  BY <1>1 DEF Inv, SavesFollowChecks
<1>3. Changed(write[w].row, write[w].what) \in Row
  BY <1>2 DEF Changed, Change, Row, Status
<1>4. DOMAIN rows = DOMAIN events /\ rows \in [DOMAIN events -> Row] /\ DOMAIN events \subseteq EventIds
  BY <1>3 DEF Inv, Shapes
<1>5. DOMAIN events = {} => Listed(rows) = {}
  BY <1>4 DEF Listed
<1> HIDE DEF rows
<1> QED
  BY <1>1, <1>4, <1>5, CommitInv

-----------------------------------------------------------------------------
(* A writing request begins or ends, and no commit is made or counted.     *)
LEMMA WriterMoves ==
  ASSUME Inv, NEW w \in Writers, NEW r, write' = [write EXCEPT ![w] = r],
         write[w].at # "bump", r.at # "bump",
         r.at = "save" => /\ r.what \in Change /\ r.row \in Row
                          /\ r.what = "publish" => r.row.status = "draft",
         UNCHANGED <<events, version, listVars, valid, recent>>,
         faults' \in Nat, faults' = 0 => faults = 0
  PROVE  Inv'
<1>1. /\ \A x \in Writers : write'[x] = IF x = w THEN r ELSE write[x]
      /\ UNCHANGED <<lists, read, answer>>
  BY DEF Inv, Shapes, listVars
<1>2. Shapes'
  BY <1>1 DEF Inv, Shapes, IsReading
<1>3. SavesFollowChecks'
  BY <1>1 DEF Inv, SavesFollowChecks
<1>4. (NonePending' <=> NonePending) /\ (OnePending' <=> OnePending)
  BY <1>1 DEF NonePending, OnePending
<1>5. Counted => Counted'
  BY <1>1, <1>4 DEF Counted, KeysAreOld, CurrentKey, RecentIsTold, StoredIsRecent, FirstIsADraft,
                    AnswersToCome, AnswersGiven
<1> QED
  BY <1>2, <1>3, <1>5 DEF Inv

(* The commit is counted.  Only the first bump leaves the key as it is.    *)
LEMMA BumpInv ==
  ASSUME Inv, NEW w \in Writers, Bump(w)
  PROVE  Inv'
<1>1. /\ write[w].at = "bump"
      /\ \A x \in Writers : write'[x] = IF x = w THEN AfterBump(w) ELSE write[x]
      /\ version' = version + 1 /\ version \in Nat
      /\ recent' = IF ToCome \ {w} = {} THEN {Listed(events)} ELSE recent
      /\ UNCHANGED <<events, lists, read, answer, valid, faults>>
  BY DEF Bump, Bumped, Inv, Shapes, listVars
<1>2. AfterBump(w).at \in {"idle", "schedule"}
  BY DEF AfterBump, Idle
<1>3. Shapes'
  <2>1. write' = [write EXCEPT ![w] = AfterBump(w)] /\ version' \in Nat
    BY <1>1 DEF Bump
  <2>2. UNCHANGED <<events, lists, read, answer, valid, faults>>
    BY <1>1
  <2> QED
    BY <2>1, <2>2 DEF Inv, Shapes, IsReading
<1>4. SavesFollowChecks'
  BY <1>1, <1>2 DEF Inv, SavesFollowChecks
<1>5. ASSUME Counted PROVE Counted'
  <2>1. \/ version = 0 /\ CurrentKey' = CurrentKey
        \/ version # 0 /\ CurrentKey' = CurrentKey + 1
    BY <1>1 DEF CurrentKey
  <2>2. CurrentKey \in Nat
    BY <1>1 DEF CurrentKey
  <2>3. \A q \in Readers : read[q] # Idle => read[q].key \in Nat
    BY DEF Inv, Shapes, IsReading
  <2>4. KeysAreOld'
    BY <1>1, <1>5, <2>1, <2>2, <2>3 DEF Counted, KeysAreOld
  <2>5. recent' = IF NonePending' THEN {Listed(events)} ELSE recent
    BY <1>1, <1>2 DEF NonePending, ToCome
  <2>6. RecentIsTold'
    BY <1>1, <1>5, <2>5 DEF Counted, RecentIsTold
  <2>7. StoredIsRecent'
    <3>1. CASE version # 0
      BY <1>1, <1>5, <2>1, <2>2, <2>3, <3>1 DEF Counted, KeysAreOld, StoredIsRecent, Idle
    <3>2. CASE version = 0 /\ NonePending'
      <4>1. OnePending
        BY <1>1, <3>2 DEF NonePending, OnePending
      <4> QED
        BY <1>1, <1>5, <2>5, <3>2, <4>1 DEF Counted, FirstIsADraft, StoredIsRecent
    <3>3. CASE version = 0 /\ ~NonePending'
      BY <1>1, <1>5, <2>1, <2>5, <3>3 DEF Counted, StoredIsRecent
    <3> QED
      BY <3>1, <3>2, <3>3
  <2>8. FirstIsADraft'
    BY <1>1 DEF FirstIsADraft
  <2>9. AnswersToCome' /\ AnswersGiven'
    BY <1>1, <1>5 DEF Counted, AnswersToCome, AnswersGiven
  <2> QED
    BY <1>1, <2>4, <2>6, <2>7, <2>8, <2>9 DEF Counted
<1> QED
  BY <1>1, <1>3, <1>4, <1>5 DEF Inv

(* Failures: what follows them is not promised to be recent. *)
LEMMA LossInv ==
  ASSUME Inv, NEW w \in Writers, BumpIsLost(w)
  PROVE  Inv'
<1>1. faults' \in Nat /\ faults' # 0
  BY DEF BumpIsLost, Inv, Shapes
<1>2. Shapes'
  BY <1>1 DEF BumpIsLost, listVars, Inv, Shapes, IsReading
<1>3. SavesFollowChecks'
  BY DEF BumpIsLost, Inv, Shapes, SavesFollowChecks, Idle
<1> QED
  BY <1>1, <1>2, <1>3 DEF Inv

LEMMA RedisRestartsInv ==
  ASSUME Inv, RedisRestarts
  PROVE  Inv'
<1>1. faults' \in Nat /\ faults' # 0
  BY DEF RedisRestarts, Inv, Shapes
<1>2. Shapes' /\ SavesFollowChecks'
  BY <1>1 DEF RedisRestarts, Inv, Shapes, IsReading, SavesFollowChecks
<1> QED
  BY <1>1, <1>2 DEF Inv

-----------------------------------------------------------------------------
(* The steps of a list request leave the rows and their writers alone.     *)
LEMMA ReaderShapes ==
  ASSUME Inv, NEW q \in Readers, NEW r, read' = [read EXCEPT ![q] = r], IsReading(r),
         UNCHANGED <<events, write, version, faults>>,
         answer' = [x \in Readers |-> answer'[x]], valid' = [x \in Readers |-> valid'[x]],
         \A v \in DOMAIN lists' : lists'[v] \subseteq EventIds
  PROVE  /\ Shapes' /\ SavesFollowChecks'
         /\ \A x \in Readers : read'[x] = IF x = q THEN r ELSE read[x]
<1>1. \A x \in Readers : read'[x] = IF x = q THEN r ELSE read[x]
  BY DEF Inv, Shapes
<1> QED
  BY <1>1 DEF Inv, Shapes, IsReading, SavesFollowChecks

LEMMA AsksInv ==
  ASSUME Inv, NEW q \in Readers, Asks(q)
  PROVE  Inv'
<1> DEFINE r == [at |-> "get", key |-> CurrentKey]
<1>1. /\ read[q] = Idle /\ read' = [read EXCEPT ![q] = r]
      /\ UNCHANGED <<events, write, version, lists, answer, recent, faults>>
      /\ valid' = [valid EXCEPT ![q] = recent]
  BY DEF Asks
<1>2. CurrentKey \in Nat /\ r.at = "get" /\ r.key = CurrentKey /\ r # Idle
  BY DEF Inv, Shapes, CurrentKey, Idle
<1>3. IsReading(r)
  BY <1>2 DEF IsReading
<1> HIDE DEF r
<1>4. /\ Shapes' /\ SavesFollowChecks'
      /\ \A x \in Readers : read'[x] = IF x = q THEN r ELSE read[x]
  BY <1>1, <1>3, ReaderShapes DEF Inv, Shapes
<1>5. \A x \in Readers : valid'[x] = IF x = q THEN recent ELSE valid[x]
  BY <1>1 DEF Inv, Shapes
<1>6. ASSUME Counted PROVE Counted'
  <2>1. KeysAreOld' /\ CurrentKey' = CurrentKey
    BY <1>1, <1>2, <1>4, <1>6 DEF Counted, KeysAreOld, CurrentKey
  <2>2. RecentIsTold' /\ StoredIsRecent' /\ FirstIsADraft'
    BY <1>1, <1>2, <1>4, <1>6, <2>1
       DEF Counted, RecentIsTold, StoredIsRecent, FirstIsADraft, NonePending, OnePending
  <2>3. AnswersToCome'
    <3> SUFFICES ASSUME NEW x \in Readers, read'[x] # Idle
                 PROVE  /\ Listed(events) \in valid'[x]
                        /\ \A v \in DOMAIN lists : v = read'[x].key => lists[v] \in valid'[x]
                        /\ \A p \in Readers : read'[p].at = "store" /\ read'[p].key = read'[x].key
                                                => read'[p].list \in valid'[x]
      BY <1>1 DEF AnswersToCome
    <3>1. CASE x # q
      BY <1>2, <1>4, <1>5, <1>6, <3>1 DEF Counted, AnswersToCome
    <3>2. CASE x = q
      BY <1>2, <1>4, <1>5, <1>6, <3>2 DEF Counted, RecentIsTold, StoredIsRecent
    <3> QED
      BY <3>1, <3>2
  <2>4. AnswersGiven'
    BY <1>1, <1>2, <1>4, <1>5, <1>6 DEF Counted, AnswersGiven
  <2> QED
    BY <1>1, <1>6, <2>1, <2>2, <2>3, <2>4 DEF Counted
<1> QED
  BY <1>1, <1>4, <1>6 DEF Inv

(* A request that neither stores nor is answered: it looks on, or has      *)
(* selected what is shown by now.                                          *)
LEMMA LooksOn ==
  ASSUME Inv, NEW q \in Readers, NEW r, read' = [read EXCEPT ![q] = r],
         read[q] # Idle, r # Idle, IsReading(r), r.key = read[q].key,
         r.at = "store" => r.list = Listed(events),
         UNCHANGED <<events, write, version, lists, answer, valid, recent, faults>>
  PROVE  Inv'
<1>1. /\ Shapes' /\ SavesFollowChecks'
      /\ \A x \in Readers : read'[x] = IF x = q THEN r ELSE read[x]
  BY ReaderShapes DEF Inv, Shapes
<1>2. ASSUME Counted PROVE Counted'
  <2>1. KeysAreOld' /\ CurrentKey' = CurrentKey
    BY <1>1, <1>2 DEF Counted, KeysAreOld, CurrentKey
  <2>2. RecentIsTold' /\ StoredIsRecent'
    BY <1>1, <1>2, <2>1 DEF Counted, RecentIsTold, StoredIsRecent, NonePending
  <2>3. FirstIsADraft'
    BY <1>1, <1>2 DEF Counted, FirstIsADraft, NonePending, OnePending
  <2>4. AnswersToCome'
    BY <1>1, <1>2 DEF Counted, AnswersToCome
  <2>5. AnswersGiven'
    BY <1>1, <1>2 DEF Counted, AnswersGiven
  <2> QED
    BY <1>2, <2>1, <2>2, <2>3, <2>4, <2>5 DEF Counted
<1> QED
  BY <1>1, <1>2 DEF Inv

(* A request is answered, with what it selected or found under its key.    *)
LEMMA IsAnswered ==
  ASSUME Inv, NEW q \in Readers, NEW list, Answers(q, list),
         Counted => list \in valid[q],
         lists' = lists \/ (/\ DOMAIN lists' = DOMAIN lists \cup {read[q].key}
                            /\ lists'[read[q].key] = list /\ list = read[q].list
                            /\ \A v \in DOMAIN lists : v # read[q].key => lists'[v] = lists[v]
                            /\ read[q].at = "store"),
         UNCHANGED <<events, write, version, valid, recent, faults>>
  PROVE  Inv'
<1>1. read' = [read EXCEPT ![q] = Idle] /\ IsReading(Idle) /\ Idle.at = "idle"
  BY DEF Answers, IsReading, Idle
<1>2. answer' = [x \in Readers |-> answer'[x]]
      /\ \A x \in Readers : answer'[x] = IF x = q THEN list ELSE answer[x]
  BY DEF Answers, Inv, Shapes
<1>3. read[q].at = "store" => read[q].list \subseteq EventIds /\ read[q].key \in Nat /\ read[q] # Idle
  BY DEF Inv, Shapes, IsReading, Idle
<1>4. \A v \in DOMAIN lists' : lists'[v] \subseteq EventIds
  BY <1>3 DEF Inv, Shapes
<1>5. /\ Shapes' /\ SavesFollowChecks'
      /\ \A x \in Readers : read'[x] = IF x = q THEN Idle ELSE read[x]
  BY <1>1, <1>2, <1>4, ReaderShapes DEF Inv, Shapes
<1>6. ASSUME Counted PROVE Counted'
  <2>1. KeysAreOld' /\ CurrentKey' = CurrentKey
    BY <1>3, <1>5, <1>6 DEF Counted, KeysAreOld, CurrentKey
  <2>2. RecentIsTold' /\ StoredIsRecent'
    BY <1>1, <1>5, <1>6, <2>1 DEF Counted, RecentIsTold, StoredIsRecent, NonePending
  <2>3. FirstIsADraft'
    BY <1>1, <1>5, <1>6 DEF Counted, FirstIsADraft, NonePending, OnePending
  <2>4. AnswersToCome'
    BY <1>1, <1>3, <1>5, <1>6 DEF Counted, AnswersToCome
  <2>5. AnswersGiven'
    BY <1>2, <1>5, <1>6 DEF Counted, AnswersGiven
  <2> QED
    BY <1>6, <2>1, <2>2, <2>3, <2>4, <2>5 DEF Counted
<1> QED
  BY <1>5, <1>6 DEF Inv

LEMMA GetsInv ==
  ASSUME Inv, NEW q \in Readers, Gets(q)
  PROVE  Inv'
<1> DEFINE k == read[q].key
           r == [read[q] EXCEPT !.at = "select"]
<1>1. /\ read[q].at = "get" /\ read[q] # Idle
      /\ UNCHANGED <<events, write, version, lists, valid, recent, faults>>
  BY DEF Gets, Idle
<1>2. read[q] = [at |-> "get", key |-> k] /\ k \in Nat
  BY <1>1 DEF Inv, Shapes, IsReading
<1>3. CASE k \in DOMAIN lists
  <2>1. Answers(q, lists[k])
    BY <1>3 DEF Gets, Hit
  <2>2. Counted => lists[k] \in valid[q]
    BY <1>1, <1>3 DEF Counted, AnswersToCome
  <2> QED
    BY <1>1, <2>1, <2>2, IsAnswered
<1>4. CASE k \notin DOMAIN lists
  <2>1. read' = [read EXCEPT ![q] = r] /\ UNCHANGED answer
    BY <1>4 DEF Gets
  <2>2. r = [at |-> "select", key |-> k]
    BY <1>2
  <2>3. r # Idle /\ IsReading(r) /\ r.key = read[q].key /\ r.at = "select"
    BY <1>2, <2>2 DEF IsReading, Idle
  <2> HIDE DEF r
  <2> QED
    BY <1>1, <2>1, <2>3, LooksOn
<1> QED
  BY <1>3, <1>4

LEMMA SelectsInv ==
  ASSUME Inv, NEW q \in Readers, Selects(q)
  PROVE  Inv'
<1> DEFINE r == [at |-> "store", key |-> read[q].key, list |-> Listed(events)]
<1>1. /\ read[q].at = "select" /\ read[q] # Idle /\ read' = [read EXCEPT ![q] = r]
      /\ UNCHANGED <<events, write, version, lists, answer, valid, recent, faults>>
  BY DEF Selects, Idle
<1>2. read[q].key \in Nat
  BY <1>1 DEF Inv, Shapes, IsReading
<1>3. r # Idle /\ IsReading(r) /\ r.key = read[q].key /\ r.list = Listed(events)
  BY <1>2, ListedType DEF IsReading, Idle, Inv
<1> HIDE DEF r
<1> QED
  BY <1>1, <1>3, LooksOn

LEMMA StoresInv ==
  ASSUME Inv, NEW q \in Readers, Stores(q)
  PROVE  Inv'
<1>1. /\ read[q].at = "store" /\ read[q] # Idle /\ Answers(q, read[q].list)
      /\ UNCHANGED <<events, write, version, valid, recent, faults>>
      /\ DOMAIN lists' = DOMAIN lists \cup {read[q].key}
      /\ lists'[read[q].key] = read[q].list
      /\ \A v \in DOMAIN lists : v # read[q].key => lists'[v] = lists[v]
  BY DEF Stores, Idle
<1>2. Counted => read[q].list \in valid[q]
  BY <1>1 DEF Counted, AnswersToCome
<1> QED
  BY <1>1, <1>2, IsAnswered

LEMMA ExpiresInv ==
  ASSUME Inv, NEW v, Expires(v)
  PROVE  Inv'
<1>1. /\ DOMAIN lists' \subseteq DOMAIN lists
      /\ \A x \in DOMAIN lists' : lists'[x] = lists[x]
      /\ UNCHANGED <<events, write, version, read, answer, valid, recent, faults>>
  BY DEF Expires, Restrict
<1>2. Shapes' /\ SavesFollowChecks'
  BY <1>1 DEF Inv, Shapes, IsReading, SavesFollowChecks
<1>3. Counted => Counted'
  BY <1>1 DEF Counted, KeysAreOld, CurrentKey, RecentIsTold, StoredIsRecent, FirstIsADraft, NonePending,
              OnePending, AnswersToCome, AnswersGiven
<1> QED
  BY <1>1, <1>2, <1>3 DEF Inv

LEMMA NothingMoves ==
  ASSUME Inv, UNCHANGED <<events, write, version, lists, read, answer, valid, recent, faults>>
  PROVE  Inv'
<1>1. Shapes' /\ SavesFollowChecks'
  BY DEF Inv, Shapes, IsReading, SavesFollowChecks
<1>2. Counted => Counted'
  BY DEF Counted, KeysAreOld, CurrentKey, RecentIsTold, StoredIsRecent, FirstIsADraft, NonePending,
         OnePending, AnswersToCome, AnswersGiven
<1> QED
  BY <1>1, <1>2 DEF Inv

LEMMA NextInv == Inv /\ [Next]_vars => Inv'
<1> SUFFICES ASSUME Inv, [Next]_vars PROVE Inv'
  OBVIOUS
<1>1. ASSUME NEW w \in Writers, NEW e \in EventIds, NEW what \in Change, ReadEvent(w, e, what) PROVE Inv'
  <2> DEFINE r == [at |-> "save", what |-> what, id |-> e, row |-> events[e]]
  <2>1. /\ write[w] = Idle /\ write' = [write EXCEPT ![w] = r] /\ e \in DOMAIN events
        /\ what = "publish" => events[e].status = "draft"
        /\ UNCHANGED <<events, version, listVars, valid, recent, faults>>
    BY <1>1 DEF ReadEvent, MayChange
  <2>2. r.at = "save" /\ r.what = what /\ r.row = events[e] /\ events[e] \in Row
    BY <2>1 DEF Inv, Shapes
  <2> HIDE DEF r
  <2> QED
    BY <2>1, <2>2, WriterMoves DEF Idle, Inv, Shapes
<1>2. ASSUME NEW w \in Writers, Schedules(w) \/ ScheduleFails(w) PROVE Inv'
  <2>1. /\ write[w].at = "schedule" /\ write' = [write EXCEPT ![w] = Idle]
        /\ UNCHANGED <<events, version, listVars, valid, recent>>
        /\ faults' \in Nat /\ (faults' = 0 => faults = 0)
    BY <1>2 DEF Schedules, ScheduleFails, Inv, Shapes
  <2>2. Idle.at = "idle"
    BY DEF Idle
  <2> QED
    BY <2>1, <2>2, WriterMoves
<1>3. ASSUME NEW e \in EventIds, Reminds(e) PROVE Inv'
  <2>1. UNCHANGED <<events, write, version, lists, read, answer, valid, recent, faults>>
    BY <1>3 DEF Reminds, listVars
  <2> QED
    BY <2>1, NothingMoves
<1>4. CASE UNCHANGED vars
  BY <1>4, NothingMoves DEF vars
<1> QED
  BY <1>1, <1>2, <1>3, <1>4, CreateEventInv, SaveEventInv, BumpInv, LossInv, RedisRestartsInv,
     AsksInv, GetsInv, SelectsInv, StoresInv, ExpiresInv DEF Next, Organize, List

LEMMA Invariance == Spec => []Inv
BY InitInv, NextInv, PTL DEF Spec

-----------------------------------------------------------------------------
(* As long as nothing fails, for any number of organizers and requests: no *)
(* list is stored late under a version in use.  The cache is right when    *)
(* every commit has been counted, and else it is behind by no more than    *)
(* the commits since the first of those that have not been.                *)
THEOREM ListsAreRecent == Spec => []AnswersAreRecent
<1>1. ASSUME Inv PROVE AnswersAreRecent
  <2>1. ToCome = {} => NonePending
    BY DEF ToCome, NonePending
  <2> QED
    BY <1>1, <2>1 DEF Inv, Counted, RecentIsTold, StoredIsRecent, AnswersGiven, AnswersAreRecent
<1> QED
  BY <1>1, Invariance, PTL

(* No request that reads an event after its cancellation makes it anything *)
(* else again, whatever organizers do at the same time.                    *)
LEMMA SettledStep ==
  ASSUME Inv, [Next]_vars, NEW e \in EventIds, Settled(e)
  PROVE  Settled(e)'
<1>1. /\ e \in DOMAIN events /\ events[e].status = "cancelled"
      /\ \A w \in Writers : write[w].at = "save" /\ write[w].id = e => write[w].row.status = "cancelled"
      /\ write = [w \in Writers |-> write[w]]
  BY DEF Settled, Inv, Shapes
<1>2. CASE UNCHANGED <<events, write>>
  BY <1>2 DEF Settled
<1>3. ASSUME NEW w \in Writers, NEW x \in EventIds, CreateEvent(w, x) PROVE Settled(e)'
  BY <1>1, <1>3 DEF CreateEvent, Commits, Settled
<1>4. ASSUME NEW w \in Writers, NEW x \in EventIds, NEW what \in Change, ReadEvent(w, x, what) PROVE Settled(e)'
  <2>1. /\ UNCHANGED events
        /\ \A v \in Writers : write'[v] = IF v = w THEN [at |-> "save", what |-> what, id |-> x, row |-> events[x]]
                                                 ELSE write[v]
    BY <1>1, <1>4 DEF ReadEvent
  <2>2. \A v \in Writers : write'[v].at = "save" /\ write'[v].id = e => write'[v].row.status = "cancelled"
    BY <1>1, <2>1
  <2> QED
    BY <1>1, <2>1, <2>2 DEF Settled
<1>5. ASSUME NEW w \in Writers, SaveEvent(w) PROVE Settled(e)'
  <2> DEFINE new == Changed(write[w].row, write[w].what)
  <2>1. /\ write[w].at = "save" /\ events' = [events EXCEPT ![write[w].id] = new]
        /\ \A x \in Writers : x # w => write'[x] = write[x]
        /\ write'[w].at = "bump"
    BY <1>1, <1>5 DEF SaveEvent, Commits
  <2>2. write[w].id = e => new.status = "cancelled"
    BY <1>1, <2>1 DEF Inv, SavesFollowChecks, Changed, Change, Row
  <2> HIDE DEF new
  <2> QED
    BY <1>1, <2>1, <2>2 DEF Settled
<1>6. ASSUME NEW w \in Writers, Bump(w) \/ BumpIsLost(w) \/ Schedules(w) \/ ScheduleFails(w) PROVE Settled(e)'
  BY <1>1, <1>6 DEF Bump, AfterBump, BumpIsLost, Schedules, ScheduleFails, Idle, Settled
<1> QED
  BY <1>2, <1>3, <1>4, <1>5, <1>6
     DEF Next, Organize, List, Asks, Gets, Selects, Stores, Expires, Reminds, RedisRestarts, vars

THEOREM CancellationsAreFinal == Spec => SettledCancellationsLast
<1>1. Inv /\ [Next]_vars => [\A e \in EventIds : Settled(e) => Settled(e)']_vars
  BY SettledStep
<1> QED
  BY <1>1, Invariance, PTL DEF Spec, SettledCancellationsLast
-----------------------------------------------------------------------------
(* Types.  A version, and a reminder, is what one of the saves has made of *)
(* itself: those and the requests that still have theirs to make are not   *)
(* more than the saves that were begun.                                    *)
Busy == {w \in Writers : write[w] # Idle}
Saving == {w \in Writers : write[w].at \in {"save", "bump"}}

TypeInv ==
  /\ TypeOK
  /\ IsFiniteSet(Busy)
  /\ version + Cardinality(Saving) <= saves
  /\ \A e \in EventIds : reminders[e] + Cardinality(Busy) <= saves

(* Two finite sets that agree but for one element.                         *)
LEMMA OneChanges ==
  ASSUME NEW S, NEW T, NEW w, IsFiniteSet(S), S \ {w} = T \ {w}
  PROVE  /\ IsFiniteSet(T) /\ Cardinality(S) \in Nat /\ Cardinality(T) \in Nat
         /\ (w \in S <=> w \in T) => Cardinality(T) = Cardinality(S)
         /\ w \in T /\ w \notin S => Cardinality(T) = Cardinality(S) + 1
         /\ w \notin T /\ w \in S => Cardinality(T) + 1 = Cardinality(S)
<1>1. CASE w \in S <=> w \in T
  <2>1. S = T
    BY <1>1
  <2> QED
    BY <1>1, <2>1, FS_CardinalityType
<1>2. CASE w \in T /\ w \notin S
  <2>1. T = S \cup {w}
    BY <1>2
  <2> QED
    BY <1>2, <2>1, FS_AddElement, FS_CardinalityType
<1>3. CASE w \notin T /\ w \in S
  <2>1. T = S \ {w}
    BY <1>3
  <2>2. IsFiniteSet(T) /\ Cardinality(T) = Cardinality(S) - 1
    BY <1>3, <2>1, FS_RemoveElement
  <2> QED
    BY <1>3, <2>2, FS_CardinalityType
<1> QED
  BY <1>1, <1>2, <1>3

(* A request goes on: the counts follow where it comes from and goes to.   *)
LEMMA WriterCounts ==
  ASSUME TypeInv, NEW w \in Writers, NEW r \in {Idle} \cup Changing \cup Bumping \cup Scheduling,
         write' = [write EXCEPT ![w] = r]
  PROVE  /\ write' \in [Writers -> {Idle} \cup Changing \cup Bumping \cup Scheduling]
         /\ IsFiniteSet(Busy') /\ {Cardinality(Busy), Cardinality(Busy'),
                                   Cardinality(Saving), Cardinality(Saving')} \subseteq Nat
         /\ r # Idle /\ write[w] = Idle => Cardinality(Busy') = Cardinality(Busy) + 1
         /\ r # Idle /\ write[w] # Idle => Cardinality(Busy') = Cardinality(Busy)
         /\ r = Idle /\ write[w] # Idle => Cardinality(Busy') + 1 = Cardinality(Busy)
         /\ (r.at \in {"save", "bump"} <=> write[w].at \in {"save", "bump"})
              => Cardinality(Saving') = Cardinality(Saving)
         /\ r.at \in {"save", "bump"} /\ write[w].at \notin {"save", "bump"}
              => Cardinality(Saving') = Cardinality(Saving) + 1
         /\ r.at \notin {"save", "bump"} /\ write[w].at \in {"save", "bump"}
              => Cardinality(Saving') + 1 = Cardinality(Saving)
<1>1. write' \in [Writers -> {Idle} \cup Changing \cup Bumping \cup Scheduling] /\ write'[w] = r
      /\ \A x \in Writers : x # w => write'[x] = write[x]
  BY DEF TypeInv, TypeOK
<1>2. /\ Busy \ {w} = Busy' \ {w} /\ (w \in Busy <=> write[w] # Idle) /\ (w \in Busy' <=> r # Idle)
      /\ Saving \ {w} = Saving' \ {w} /\ (w \in Saving <=> write[w].at \in {"save", "bump"})
      /\ (w \in Saving' <=> r.at \in {"save", "bump"})
  BY <1>1 DEF Busy, Saving
<1>3. IsFiniteSet(Busy) /\ IsFiniteSet(Saving)
  <2>1. Saving \subseteq Busy
    BY DEF Saving, Busy, Idle
  <2> QED
    BY <2>1, FS_Subset DEF TypeInv
<1> HIDE DEF Busy, Saving
<1> QED
  BY <1>1, <1>2, <1>3, OneChanges

LEMMA CountsAreNumbers ==
  ASSUME TypeInv
  PROVE  /\ MaxSaves \in Nat /\ MaxFaults \in Nat /\ version \in Nat
         /\ saves \in Nat /\ saves <= MaxSaves /\ faults \in Nat /\ faults <= MaxFaults
         /\ \A e \in EventIds : reminders[e] \in Nat
BY EventBounds DEF TypeInv, TypeOK

LEMMA InitTypes == Init => TypeInv
<1> SUFFICES ASSUME Init PROVE TypeInv
  OBVIOUS
<1>1. TypeOK
  <2>1. /\ events = [e \in {} |-> e] /\ lists = [v \in {} |-> v]
        /\ valid = [q \in Readers |-> {{}}] /\ {{}} \in SUBSET SUBSET EventIds
    BY DEF Init
  <2>2. /\ DOMAIN events \subseteq EventIds /\ events \in [DOMAIN events -> Row]
        /\ DOMAIN lists \subseteq 1 .. MaxSaves + 1 /\ lists \in [DOMAIN lists -> SUBSET EventIds]
        /\ valid \in [Readers -> SUBSET SUBSET EventIds]
    BY <2>1
  <2>3. MaxSaves \in Nat /\ MaxFaults \in Nat
    BY EventBounds
  <2>4. /\ write \in [Writers -> {Idle} \cup Changing \cup Bumping \cup Scheduling]
        /\ read \in [Readers -> {Idle} \cup Keyed \cup Storing]
        /\ answer \in [Readers -> SUBSET EventIds]
    BY DEF Init
  <2>5. /\ version \in 0 .. MaxSaves /\ saves \in 0 .. MaxSaves /\ faults \in 0 .. MaxFaults
        /\ reminders \in [EventIds -> 0 .. MaxSaves]
        /\ \A e \in EventIds : reminded[e] \in 0 .. reminders[e]
    BY <2>3 DEF Init
  <2> QED
    BY <2>2, <2>4, <2>5 DEF Init, TypeOK
<1>2. Busy = {} /\ Saving = {}
  BY DEF Init, Busy, Saving, Idle
<1>3. IsFiniteSet({}) /\ Cardinality({}) = 0
  BY FS_EmptySet
<1> QED
  BY <1>1, <1>2, <1>3 DEF Init, TypeInv

(* What a request of an organizer does to the counts, and what it leaves.  *)
LEMMA WriterTypes ==
  ASSUME TypeInv, NEW w \in Writers, NEW r \in {Idle} \cup Changing \cup Bumping \cup Scheduling,
         write' = [write EXCEPT ![w] = r],
         UNCHANGED <<listVars, reminded>>,
         DOMAIN events' \subseteq EventIds, events' \in [DOMAIN events' -> Row],
         valid' \in [Readers -> SUBSET SUBSET EventIds],
         recent' \in SUBSET SUBSET EventIds, faults' \in 0 .. MaxFaults, saves' \in 0 .. MaxSaves,
         version' \in Nat, version' + Cardinality(Saving') <= saves',
         reminders' \in [EventIds -> Nat],
         \A e \in EventIds : reminders[e] <= reminders'[e] /\ reminders'[e] + Cardinality(Busy') <= saves'
  PROVE  TypeInv'
<1>1. write' \in [Writers -> {Idle} \cup Changing \cup Bumping \cup Scheduling]
      /\ IsFiniteSet(Busy') /\ {Cardinality(Busy'), Cardinality(Saving')} \subseteq Nat
  BY WriterCounts
<1>2. version' \in 0 .. MaxSaves /\ reminders' \in [EventIds -> 0 .. MaxSaves]
  BY <1>1, EventBounds
<1>3. \A e \in EventIds : reminded'[e] \in 0 .. reminders'[e]
  BY DEF TypeInv, TypeOK
<1>4. TypeOK'
  BY <1>1, <1>2, <1>3 DEF TypeInv, TypeOK, listVars
<1> QED
  BY <1>1, <1>4 DEF TypeInv

(* A commit, begun by a new request or by one that has read its event.     *)
LEMMA CommitTypes ==
  ASSUME TypeInv, NEW w \in Writers, NEW e \in EventIds, NEW what \in Change \cup {"create"},
         NEW rows, Commits(w, e, what, rows), DOMAIN rows \subseteq EventIds, rows \in [DOMAIN rows -> Row],
         UNCHANGED <<version, listVars, mailVars, faults>>,
         \/ write[w] = Idle /\ saves < MaxSaves /\ saves' = saves + 1
         \/ write[w].at = "save" /\ saves' = saves
  PROVE  TypeInv'
<1> DEFINE r == [at |-> "bump", what |-> what, id |-> e]
<1>1. r \in Bumping /\ r.at = "bump" /\ r # Idle
  BY DEF Bumping, Idle
<1>2. write' = [write EXCEPT ![w] = r] /\ events' = rows
  BY DEF Commits
<1> HIDE DEF r
<1>3. valid' \in [Readers -> SUBSET SUBSET EventIds] /\ recent' \in SUBSET SUBSET EventIds
  BY DEF Commits, TypeInv, TypeOK, Listed
<1>4. Idle.at = "idle"
  BY DEF Idle
<1>5. /\ {Cardinality(Busy), Cardinality(Busy'), Cardinality(Saving), Cardinality(Saving')} \subseteq Nat
      /\ \/ /\ Cardinality(Busy') = Cardinality(Busy) + 1 /\ Cardinality(Saving') = Cardinality(Saving) + 1
            /\ saves < MaxSaves /\ saves' = saves + 1
         \/ Cardinality(Busy') = Cardinality(Busy) /\ Cardinality(Saving') = Cardinality(Saving) /\ saves' = saves
  BY <1>1, <1>2, <1>4, WriterCounts
<1>6. version' + Cardinality(Saving') <= saves' /\ saves' \in 0 .. MaxSaves
  BY <1>5, CountsAreNumbers DEF TypeInv
<1>7. \A x \in EventIds : reminders[x] <= reminders'[x] /\ reminders'[x] + Cardinality(Busy') <= saves'
  BY <1>5, CountsAreNumbers DEF TypeInv, mailVars
<1>8. /\ faults' \in 0 .. MaxFaults /\ version' \in Nat
      /\ reminders' \in [EventIds -> Nat] /\ UNCHANGED <<listVars, reminded>>
  BY EventBounds DEF TypeInv, TypeOK, mailVars
<1> QED
  BY <1>1, <1>2, <1>3, <1>6, <1>7, <1>8, WriterTypes

LEMMA CreateTypes ==
  ASSUME TypeInv, NEW w \in Writers, NEW e \in EventIds, CreateEvent(w, e)
  PROVE  TypeInv'
<1> DEFINE new == [status |-> "draft", banner |-> FALSE]
           rows == [x \in DOMAIN events \cup {e} |-> IF x = e THEN new ELSE events[x]]
<1>1. /\ Commits(w, e, "create", rows) /\ write[w] = Idle /\ saves < MaxSaves /\ saves' = saves + 1
      /\ UNCHANGED <<version, listVars, mailVars, faults>>
  BY DEF CreateEvent
<1>2. new \in Row
  BY DEF Row, Status
<1> HIDE DEF new
<1>3. DOMAIN rows \subseteq EventIds /\ rows \in [DOMAIN rows -> Row]
  BY <1>2 DEF TypeInv, TypeOK
<1> HIDE DEF rows
<1> QED
  BY <1>1, <1>3, CommitTypes

LEMMA SaveTypes ==
  ASSUME TypeInv, NEW w \in Writers, SaveEvent(w)
  PROVE  TypeInv'
<1> DEFINE rows == [events EXCEPT ![write[w].id] = Changed(write[w].row, write[w].what)]
<1>1. /\ Commits(w, write[w].id, write[w].what, rows) /\ write[w].at = "save" /\ saves' = saves
      /\ UNCHANGED <<version, listVars, mailVars, faults>>
  BY DEF SaveEvent
<1>2. write[w] \in Changing
  BY <1>1 DEF TypeInv, TypeOK, Idle, Bumping, Scheduling
<1>3. write[w].id \in EventIds /\ write[w].what \in Change /\ write[w].row \in Row
  BY <1>2 DEF Changing
<1>4. Changed(write[w].row, write[w].what) \in Row
  BY <1>3 DEF Changed, Change, Row, Status
<1>5. DOMAIN rows \subseteq EventIds /\ rows \in [DOMAIN rows -> Row]
  BY <1>4 DEF TypeInv, TypeOK
<1> HIDE DEF rows
<1> QED
  BY <1>1, <1>3, <1>5, CommitTypes

LEMMA ReadTypes ==
  ASSUME TypeInv, NEW w \in Writers, NEW e \in EventIds, NEW what \in Change, ReadEvent(w, e, what)
  PROVE  TypeInv'
<1> DEFINE r == [at |-> "save", what |-> what, id |-> e, row |-> events[e]]
<1>1. /\ write[w] = Idle /\ e \in DOMAIN events /\ saves < MaxSaves /\ saves' = saves + 1
      /\ write' = [write EXCEPT ![w] = r]
      /\ UNCHANGED <<events, version, listVars, valid, mailVars, recent, faults>>
  BY DEF ReadEvent
<1>2. r \in Changing /\ r.at = "save" /\ r # Idle /\ Idle.at = "idle"
  BY <1>1 DEF Changing, Idle, TypeInv, TypeOK
<1> HIDE DEF r
<1>3. /\ {Cardinality(Busy), Cardinality(Busy'), Cardinality(Saving), Cardinality(Saving')} \subseteq Nat
      /\ Cardinality(Busy') = Cardinality(Busy) + 1 /\ Cardinality(Saving') = Cardinality(Saving) + 1
  BY <1>1, <1>2, WriterCounts
<1>4. version' + Cardinality(Saving') <= saves' /\ saves' \in 0 .. MaxSaves
  BY <1>1, <1>3, CountsAreNumbers DEF TypeInv
<1>5. \A x \in EventIds : reminders[x] <= reminders'[x] /\ reminders'[x] + Cardinality(Busy') <= saves'
  BY <1>1, <1>3, CountsAreNumbers DEF TypeInv, mailVars
<1>6. /\ DOMAIN events' \subseteq EventIds /\ events' \in [DOMAIN events' -> Row]
      /\ valid' \in [Readers -> SUBSET SUBSET EventIds] /\ UNCHANGED <<listVars, reminded>>
      /\ recent' \in SUBSET SUBSET EventIds /\ faults' \in 0 .. MaxFaults /\ version' \in Nat
      /\ reminders' \in [EventIds -> Nat]
  BY <1>1, EventBounds DEF TypeInv, TypeOK, mailVars
<1> QED
  BY <1>1, <1>2, <1>4, <1>5, <1>6, WriterTypes

(* The end of a request: its bump, or that and its reminder, are made or   *)
(* will not be.                                                            *)
LEMMA EndTypes ==
  ASSUME TypeInv, NEW w \in Writers,
         Bump(w) \/ BumpIsLost(w) \/ Schedules(w) \/ ScheduleFails(w)
  PROVE  TypeInv'
<1> DEFINE r == IF Bump(w) THEN AfterBump(w) ELSE Idle
<1>1. Idle.at = "idle" /\ write[w].at \in {"bump", "schedule"} /\ write[w] # Idle
  BY DEF Idle, Bump, BumpIsLost, Schedules, ScheduleFails
<1>2. /\ write[w].id \in EventIds
      /\ write[w] \in Bumping \/ write[w] \in Scheduling
  BY <1>1 DEF TypeInv, TypeOK, Changing, Bumping, Scheduling
<1>3. write' = [write EXCEPT ![w] = r]
  BY DEF Bump, BumpIsLost, Schedules, ScheduleFails
<1>4. /\ r \in {Idle} \cup Changing \cup Bumping \cup Scheduling /\ r.at \in {"idle", "schedule"}
      /\ r # Idle => Bump(w)
  BY <1>1, <1>2 DEF AfterBump, Scheduling
<1> HIDE DEF r
<1>5. /\ UNCHANGED <<events, valid, listVars, reminded, saves>> /\ recent' \in SUBSET SUBSET EventIds
      /\ faults' \in 0 .. MaxFaults
  <2>1. /\ UNCHANGED <<events, valid, listVars, reminded, saves>> /\ recent' \in {recent, {Listed(events)}}
        /\ faults' = faults \/ (faults < MaxFaults /\ faults' = faults + 1)
    BY DEF Bump, BumpIsLost, Schedules, ScheduleFails, mailVars
  <2>2. faults' \in 0 .. MaxFaults
    BY <2>1, CountsAreNumbers
  <2>3. Listed(events) \subseteq EventIds
    BY DEF TypeInv, TypeOK, Listed
  <2> QED
    BY <2>1, <2>2, <2>3 DEF TypeInv, TypeOK
<1>6. /\ write[w].at = "bump" /\ version' \in {version, version + 1} /\ reminders' = reminders
      \/ /\ write[w].at = "schedule" /\ version' = version /\ r = Idle
         /\ reminders' \in {reminders, [reminders EXCEPT ![write[w].id] = @ + 1]}
  BY <1>4 DEF Bump, Bumped, BumpIsLost, Schedules, ScheduleFails, mailVars
<1>7. /\ {Cardinality(Busy), Cardinality(Busy'), Cardinality(Saving), Cardinality(Saving')} \subseteq Nat
      /\ Cardinality(Busy') <= Cardinality(Busy) /\ (r = Idle => Cardinality(Busy') + 1 = Cardinality(Busy))
      /\ write[w].at = "bump" => Cardinality(Saving') + 1 = Cardinality(Saving)
      /\ write[w].at = "schedule" => Cardinality(Saving') = Cardinality(Saving)
  <2> DEFINE moving == {"save", "bump"}
  <2>1. /\ {Cardinality(Busy), Cardinality(Busy'), Cardinality(Saving), Cardinality(Saving')} \subseteq Nat
        /\ r # Idle /\ write[w] # Idle => Cardinality(Busy') = Cardinality(Busy)
        /\ r = Idle /\ write[w] # Idle => Cardinality(Busy') + 1 = Cardinality(Busy)
        /\ (r.at \in moving <=> write[w].at \in moving) => Cardinality(Saving') = Cardinality(Saving)
        /\ r.at \notin moving /\ write[w].at \in moving => Cardinality(Saving') + 1 = Cardinality(Saving)
    BY <1>3, <1>4, WriterCounts
  <2>2. r.at \notin moving /\ (write[w].at = "bump" => write[w].at \in moving)
        /\ (write[w].at = "schedule" => write[w].at \notin moving)
    BY <1>4
  <2> HIDE DEF moving
  <2> QED
    BY <1>1, <2>1, <2>2
<1>8. version' \in Nat /\ version' + Cardinality(Saving') <= saves'
  BY <1>5, <1>6, <1>7, CountsAreNumbers DEF TypeInv
<1>9. /\ reminders' \in [EventIds -> Nat]
      /\ \A x \in EventIds : reminders[x] <= reminders'[x] /\ reminders'[x] + Cardinality(Busy') <= saves'
  <2>1. reminders \in [EventIds -> Nat] /\ saves \in Nat
    BY EventBounds DEF TypeInv, TypeOK
  <2>2. CASE write[w].at = "bump" /\ reminders' = reminders
    BY <1>5, <1>7, <2>1, <2>2 DEF TypeInv
  <2>3. CASE r = Idle /\ reminders' \in {reminders, [reminders EXCEPT ![write[w].id] = @ + 1]}
    <3>1. Cardinality(Busy') + 1 = Cardinality(Busy) /\ Cardinality(Busy') \in Nat /\ Cardinality(Busy) \in Nat
      BY <1>7, <2>3
    <3>2. \A x \in EventIds : reminders'[x] \in {reminders[x], reminders[x] + 1}
      BY <2>1, <2>3
    <3> QED
      BY <1>5, <2>1, <2>3, <3>1, <3>2 DEF TypeInv
  <2> QED
    BY <1>6, <2>2, <2>3
<1>10. /\ DOMAIN events' \subseteq EventIds /\ events' \in [DOMAIN events' -> Row]
      /\ valid' \in [Readers -> SUBSET SUBSET EventIds] /\ saves' \in 0 .. MaxSaves
  BY <1>5 DEF TypeInv, TypeOK
<1> QED
  BY <1>3, <1>4, <1>5, <1>8, <1>9, <1>10, WriterTypes

(* The steps that no writing request makes.                                *)
LEMMA OtherTypes ==
  ASSUME TypeInv, UNCHANGED <<events, write, saves>>,
         version' \in {0, version},
         DOMAIN lists' \subseteq 1 .. MaxSaves + 1, lists' \in [DOMAIN lists' -> SUBSET EventIds],
         read' \in [Readers -> {Idle} \cup Keyed \cup Storing],
         answer' \in [Readers -> SUBSET EventIds],
         valid' \in [Readers -> SUBSET SUBSET EventIds],
         reminders' = reminders, \A e \in EventIds : reminded'[e] \in 0 .. reminders[e],
         recent' \in SUBSET SUBSET EventIds, faults' \in 0 .. MaxFaults
  PROVE  TypeInv'
<1>1. Busy' = Busy /\ Saving' = Saving
  BY DEF Busy, Saving
<1>2. IsFiniteSet(Saving)
  <2>1. Saving \subseteq Busy
    BY DEF Saving, Busy, Idle
  <2> QED
    BY <2>1, FS_Subset DEF TypeInv
<1>3. Cardinality(Saving) \in Nat
  BY <1>2, FS_CardinalityType
<1>4. version' \in 0 .. MaxSaves /\ version' <= version
  BY EventBounds DEF TypeInv, TypeOK
<1>5. TypeOK'
  BY <1>4 DEF TypeInv, TypeOK
<1>6. version' + Cardinality(Saving) <= saves
  BY <1>3, <1>4, EventBounds DEF TypeInv, TypeOK
<1> QED
  BY <1>1, <1>5, <1>6 DEF TypeInv

LEMMA ReaderTypes ==
  ASSUME TypeInv, NEW q \in Readers, List(q)
  PROVE  TypeInv'
<1>1. UNCHANGED <<events, write, saves, version, mailVars, recent, faults>>
  BY DEF List, Asks, Gets, Selects, Stores
<1>2. Listed(events) \subseteq EventIds /\ CurrentKey \in 1 .. MaxSaves + 1
  BY EventBounds DEF TypeInv, TypeOK, Listed, CurrentKey
<1>3. /\ read[q].at \in {"get", "select"} => read[q] \in Keyed
      /\ read[q].at = "store" => read[q] \in Storing
  BY DEF TypeInv, TypeOK, Idle, Keyed, Storing
<1>4. valid' \in [Readers -> SUBSET SUBSET EventIds]
  BY <1>2 DEF List, Asks, Gets, Selects, Stores, TypeInv, TypeOK
<1>5. read' \in [Readers -> {Idle} \cup Keyed \cup Storing] /\ answer' \in [Readers -> SUBSET EventIds]
  <2>1. CASE Asks(q)
    BY <1>2, <2>1 DEF Asks, TypeInv, TypeOK, Keyed
  <2>2. CASE Gets(q)
    BY <1>3, <2>2 DEF Gets, Hit, Answers, TypeInv, TypeOK, Keyed
  <2>3. CASE Selects(q)
    BY <1>2, <1>3, <2>3 DEF Selects, TypeInv, TypeOK, Keyed, Storing
  <2>4. CASE Stores(q)
    BY <1>3, <2>4 DEF Stores, Answers, TypeInv, TypeOK, Storing
  <2> QED
    BY <2>1, <2>2, <2>3, <2>4 DEF List
<1>6. DOMAIN lists' \subseteq 1 .. MaxSaves + 1 /\ lists' \in [DOMAIN lists' -> SUBSET EventIds]
  BY <1>3 DEF List, Asks, Gets, Selects, Stores, TypeInv, TypeOK, Storing
<1>7. /\ version' \in {0, version} /\ reminders' = reminders
      /\ \A e \in EventIds : reminded'[e] \in 0 .. reminders[e]
      /\ recent' \in SUBSET SUBSET EventIds /\ faults' \in 0 .. MaxFaults
  BY <1>1 DEF TypeInv, TypeOK, mailVars
<1> QED
  BY <1>1, <1>4, <1>5, <1>6, <1>7, OtherTypes

LEMMA NextTypes == TypeInv /\ [Next]_vars => TypeInv'
<1> SUFFICES ASSUME TypeInv, [Next]_vars PROVE TypeInv'
  OBVIOUS
<1>1. TypeOK
  BY DEF TypeInv
<1>2. ASSUME NEW v, Expires(v) PROVE TypeInv'
  BY <1>1, <1>2, OtherTypes DEF Expires, Restrict, TypeOK, mailVars
<1>3. ASSUME NEW e \in EventIds, Reminds(e) PROVE TypeInv'
  <2>1. \A x \in EventIds : reminded'[x] \in 0 .. reminders[x]
    BY <1>1, <1>3 DEF Reminds, TypeOK
  <2> QED
    BY <1>1, <1>3, <2>1, OtherTypes DEF Reminds, TypeOK, listVars
<1>4. CASE RedisRestarts
  <2>1. DOMAIN lists' = {} /\ lists' \in [DOMAIN lists' -> SUBSET EventIds]
    BY <1>4 DEF RedisRestarts
  <2>2. faults' \in 0 .. MaxFaults
    BY <1>1, <1>4, EventBounds DEF RedisRestarts, TypeOK
  <2> QED
    BY <1>1, <1>4, <2>1, <2>2, OtherTypes DEF RedisRestarts, TypeOK, mailVars
<1>5. CASE UNCHANGED vars
  BY <1>1, <1>5, OtherTypes DEF vars, TypeOK
<1> QED
  BY <1>2, <1>3, <1>4, <1>5, CreateTypes, ReadTypes, SaveTypes, EndTypes, ReaderTypes DEF Next, Organize

(* The version of the lists and the reminders of an event never run ahead  *)
(* of the saves, and all else keeps its shape.                             *)
THEOREM EventsTyped == Spec => []TypeOK
<1>1. TypeInv => TypeOK
  BY DEF TypeInv
<1> QED
  BY <1>1, InitTypes, NextTypes, PTL DEF Spec

-----------------------------------------------------------------------------
(* Mail.  A mail that was sent is paid for: by the one attempt that is not *)
(* a repetition, or by the failure that made the worker repeat the job.    *)
AttemptsAreLeft == \A j \in Jobs : at[j] \notin {"done", "failed"} => made[j] < MaxAttempts

NotSent(j) == at[j] \notin {"save", "finish", "done"}

(* The reminder has not come to the user in the attempt it makes, or will  *)
(* begin with a new one.                                                   *)
NotReached(u) ==
  \/ at[Reminder] \in {"none", "adding", "lost", "waiting"}
  \/ at[Reminder] \in Running /\ u \notin seen
  \/ at[Reminder] = "send" /\ u \in now

MailsArePaidFor ==
  /\ now \subseteq seen
  /\ \A x \in Mails : mails[x] <= 1 + breakdowns
  /\ \A j \in Notices \cup PlainMails : NotSent(j) => mails[j] <= breakdowns
  /\ \A u \in Users : NotReached(u) => mails[u] <= breakdowns

RowsFollowMails ==
  /\ \A p \in PlainMails : at[p] \notin {"save", "deny"}
  /\ \A j \in Jobs : at[j] = "save" => \A x \in Addressees(j) : mails[x] > 0
  /\ \A n \in Notices : at[n] \in {"finish", "done"} => row[n] = "sent"
  /\ at[Reminder] \in {"send", "save"} => \A u \in now : row[u] = "queued"
  /\ at[Reminder] = "deny" /\ breakdowns = 0 => \A u \in now : mails[u] = 0

MailInv ==
  /\ MailTypeOK
  /\ AttemptsAreLeft
  /\ MailsArePaidFor
  /\ RowsFollowMails
  /\ RowsTellTheTruth

-----------------------------------------------------------------------------
LEMMA MailInitInv == MailInit => MailInv
<1> SUFFICES ASSUME MailInit PROVE MailInv
  OBVIOUS
<1>1. /\ \A j \in Jobs : at[j] = "none" /\ made[j] = 0
      /\ \A x \in Mails : mails[x] = 0
      /\ \A x \in Recorded : row[x] = "none"
      /\ now = {} /\ breakdowns = 0 /\ Reminder \in Jobs
  BY DEF MailInit, Jobs
<1>2. Cardinality(now) = 0
  BY <1>1, FS_EmptySet
<1>3. MailTypeOK
  BY <1>2, NotificationBounds DEF MailInit, MailTypeOK, Stage
<1>4. AttemptsAreLeft /\ MailsArePaidFor /\ RowsFollowMails /\ RowsTellTheTruth
  BY <1>1, NotificationBounds
     DEF AttemptsAreLeft, MailsArePaidFor, RowsFollowMails, RowsTellTheTruth, Mails, Recorded, Jobs
<1> QED
  BY <1>3, <1>4 DEF MailInv

(* The jobs are told apart by their kind; whom one writes to has a mail of *)
(* its own in the books.                                                   *)
LEMMA JobKinds ==
  /\ Reminder \in Jobs /\ Reminder \notin Notices /\ Reminder \notin PlainMails
  /\ \A j \in Jobs : j \in Notices \/ j \in PlainMails \/ j = Reminder
  /\ \A n \in Notices : n \in Jobs /\ n \in Recorded /\ n \in Mails /\ n \notin PlainMails /\ n \notin Users
  /\ \A p \in PlainMails : p \in Jobs /\ p \in Mails /\ p \notin Recorded /\ p \notin Users
  /\ \A u \in Users : u \in Recorded /\ u \in Mails /\ u \notin Notices /\ u \notin PlainMails
BY NamesDiffer DEF Jobs, Recorded, Mails

LEMMA JobGoes ==
  ASSUME MailTypeOK, NEW j \in Jobs, NEW s \in Stage, GoesTo(j, s)
  PROVE  /\ at' \in [Jobs -> Stage]
         /\ at'[j] = s
         /\ \A i \in Jobs : i # j => at'[i] = at[i]
         /\ made' = made /\ stalled' = stalled
BY DEF MailTypeOK, GoesTo

(* A job that is thrown back has an attempt less, and rests.               *)
LEMMA JobThrows ==
  ASSUME MailInv, NEW j \in Jobs, at[j] \in {"next", "send", "deny"}, Throws(j)
  PROVE  /\ at' \in [Jobs -> Stage]
         /\ made' \in [Jobs -> 0 .. MaxAttempts]
         /\ at'[j] \in {"waiting", "failed"}
         /\ at'[j] = "waiting" => made'[j] < MaxAttempts
         /\ \A i \in Jobs : i # j => at'[i] = at[i] /\ made'[i] = made[i]
         /\ stalled' = stalled
<1>1. made[j] < MaxAttempts /\ made[j] \in Nat
  BY DEF MailInv, MailTypeOK, AttemptsAreLeft
<1> QED
  BY <1>1, NotificationBounds DEF MailInv, MailTypeOK, Throws, TriesLeft, Stage

-----------------------------------------------------------------------------
(* Steps outside the worker's handlers: a row or a job is added, a job is  *)
(* taken or completed.                                                     *)
LEMMA SaveNoticeInv ==
  ASSUME MailInv, NEW n \in Notices, SaveNotice(n)
  PROVE  MailInv'
<1>1. /\ at' \in [Jobs -> Stage] /\ at[n] = "none" /\ at'[n] = "adding"
      /\ \A i \in Jobs : i # n => at'[i] = at[i]
      /\ made' = made /\ stalled' = stalled /\ UNCHANGED <<mails, owner, todo, seen, now, breakdowns>>
      /\ n \in Jobs
  BY JobGoes, JobKinds DEF SaveNotice, MailInv, Stage, loopVars
<1>2. row' \in [Recorded -> {"none", "queued", "sent", "failed"}] /\ row'[n] = "queued"
      /\ \A x \in Recorded : x # n => row'[x] = row[x]
  BY JobKinds DEF SaveNotice, MailInv, MailTypeOK
<1>3. MailTypeOK' /\ AttemptsAreLeft'
  BY <1>1, <1>2 DEF MailInv, MailTypeOK, AttemptsAreLeft
<1>4. MailsArePaidFor'
  BY <1>1, JobKinds DEF MailInv, MailsArePaidFor, NotSent, NotReached
<1>5. RowsFollowMails'
  <2>1. \A j \in Jobs : at'[j] = "save" => at[j] = "save"
    BY <1>1
  <2>2. \A i \in Notices : at'[i] \in {"finish", "done"} => row'[i] = "sent"
    BY <1>1, <1>2, JobKinds DEF MailInv, RowsFollowMails
  <2>3. at'[Reminder] = at[Reminder] /\ \A u \in Users : row'[u] = row[u]
    BY <1>1, <1>2, JobKinds
  <2>4. now \subseteq Users
    BY DEF MailInv, MailTypeOK
  <2> QED
    BY <1>1, <2>1, <2>2, <2>3, <2>4, JobKinds DEF MailInv, RowsFollowMails, Addressees
<1>6. RowsTellTheTruth'
  BY <1>1, <1>2, JobKinds DEF MailInv, RowsTellTheTruth
<1> QED
  BY <1>3, <1>4, <1>5, <1>6 DEF MailInv

(* Steps that leave the rows and the mails alone, and come to no state in  *)
(* which a job must know of them.                                          *)
LEMMA QueueMoves ==
  ASSUME MailInv, NEW j \in Jobs, NEW s \in {"lost", "waiting", "done"}, GoesTo(j, s),
         \/ at[j] \in {"none", "adding"} /\ s # "done"
         \/ at[j] = "finish" /\ s = "done",
         UNCHANGED <<row, mails, owner, loopVars>>,
         breakdowns' \in breakdowns .. MaxBreakdowns
  PROVE  MailInv'
<1>1. /\ at' \in [Jobs -> Stage] /\ at'[j] = s
      /\ \A i \in Jobs : i # j => at'[i] = at[i]
      /\ made' = made /\ stalled' = stalled /\ UNCHANGED <<todo, seen, now>>
  BY JobGoes DEF MailInv, Stage, loopVars
<1>2. MailTypeOK' /\ AttemptsAreLeft'
  BY <1>1, NotificationBounds DEF MailInv, MailTypeOK, AttemptsAreLeft
<1>3. \A x \in Mails : mails[x] \in Nat
  BY DEF MailInv, MailTypeOK
<1>4. breakdowns \in Nat /\ breakdowns' \in Nat /\ breakdowns <= breakdowns'
  BY NotificationBounds DEF MailInv, MailTypeOK
<1>5. MailsArePaidFor'
  <2>1. \A i \in Jobs : NotSent(i)' => NotSent(i)
    BY <1>1 DEF NotSent
  <2>2. \A u \in Users : NotReached(u)' => NotReached(u)
    BY <1>1, JobKinds DEF NotReached, Running
  <2> QED
    BY <1>1, <1>3, <1>4, <2>1, <2>2, JobKinds DEF MailInv, MailsArePaidFor
<1>6. RowsFollowMails'
  BY <1>1, <1>4, JobKinds DEF MailInv, RowsFollowMails, Addressees
<1>7. RowsTellTheTruth'
  BY <1>1, <1>4, JobKinds DEF MailInv, RowsFollowMails, RowsTellTheTruth
<1> QED
  BY <1>2, <1>5, <1>6, <1>7 DEF MailInv

LEMMA TakesInv ==
  ASSUME MailInv, NEW j \in Jobs, Takes(j)
  PROVE  MailInv'
<1> DEFINE s == IF j = Reminder THEN "next" ELSE "send"
<1>1. /\ at[j] = "waiting" /\ UNCHANGED <<row, mails, owner, breakdowns>>
      /\ j = Reminder => todo' = DOMAIN owner /\ seen' = {} /\ now' = {}
      /\ j # Reminder => UNCHANGED <<todo, seen, now>>
      /\ GoesTo(j, s) /\ s \in Stage
  BY DEF Takes, loopVars, Stage
<1>2. /\ at' \in [Jobs -> Stage] /\ at'[j] = s
      /\ \A i \in Jobs : i # j => at'[i] = at[i]
      /\ made' = made /\ stalled' = stalled
  BY <1>1, JobGoes DEF MailInv
<1>3. Cardinality({}) = 0
  BY FS_EmptySet
<1>4. MailTypeOK'
  <2>1. todo' \subseteq DOMAIN owner' /\ seen' \subseteq Users /\ now' \subseteq Users /\ Cardinality(now') <= 1
    <3>1. CASE j = Reminder
      BY <1>1, <1>3, <3>1 DEF MailInv, MailTypeOK
    <3>2. CASE j # Reminder
      BY <1>1, <3>2 DEF MailInv, MailTypeOK
    <3> QED
      BY <3>1, <3>2
  <2> QED
    BY <1>1, <1>2, <2>1 DEF MailInv, MailTypeOK
<1>5. AttemptsAreLeft'
  BY <1>1, <1>2 DEF MailInv, AttemptsAreLeft
<1>6. MailsArePaidFor'
  BY <1>1, <1>2, JobKinds DEF MailInv, MailsArePaidFor, NotSent, NotReached, Running
<1>7. RowsFollowMails' /\ RowsTellTheTruth'
  BY <1>1, <1>2, JobKinds DEF MailInv, RowsFollowMails, RowsTellTheTruth, Addressees
<1> QED
  BY <1>4, <1>5, <1>6, <1>7 DEF MailInv

-----------------------------------------------------------------------------
(* The reminder's loop.                                                    *)
LEMMA NextOwnerInv ==
  ASSUME MailInv, NEW t \in Tickets, NextOwner(t)
  PROVE  MailInv'
<1> DEFINE u == owner[t]
<1>1. /\ at[Reminder] = "next" /\ t \in todo /\ u \notin seen
      /\ todo' = todo \ {t} /\ seen' = seen \cup {u} /\ now' = {u}
      /\ row' = [row EXCEPT ![u] = "queued"]
      /\ GoesTo(Reminder, "send") /\ UNCHANGED <<mails, owner, breakdowns>>
  BY DEF NextOwner, Unseen
<1>2. u \in Users
  BY <1>1 DEF MailInv, MailTypeOK
<1> HIDE DEF u
<1>3. /\ at' \in [Jobs -> Stage] /\ at'[Reminder] = "send"
      /\ \A i \in Jobs : i # Reminder => at'[i] = at[i]
      /\ made' = made /\ stalled' = stalled
  BY <1>1, JobGoes, JobKinds DEF MailInv, Stage
<1>4. row' \in [Recorded -> {"none", "queued", "sent", "failed"}] /\ row'[u] = "queued"
      /\ \A x \in Recorded : x # u => row'[x] = row[x]
  BY <1>1, <1>2, JobKinds DEF MailInv, MailTypeOK
<1>5. Cardinality({u}) = 1
  BY FS_Singleton
<1>6. MailTypeOK' /\ AttemptsAreLeft'
  BY <1>1, <1>2, <1>3, <1>4, <1>5 DEF MailInv, MailTypeOK, AttemptsAreLeft
<1>7. MailsArePaidFor'
  BY <1>1, <1>2, <1>3, JobKinds DEF MailInv, MailsArePaidFor, NotSent, NotReached, Running
<1>8. RowsFollowMails' /\ RowsTellTheTruth'
  BY <1>1, <1>2, <1>3, <1>4, JobKinds DEF MailInv, RowsFollowMails, RowsTellTheTruth, Addressees
<1> QED
  BY <1>6, <1>7, <1>8 DEF MailInv

LEMMA AllRemindedInv ==
  ASSUME MailInv, AllReminded
  PROVE  MailInv'
<1>1. /\ at[Reminder] = "next" /\ GoesTo(Reminder, "finish")
      /\ UNCHANGED <<row, mails, owner, todo, seen, now, breakdowns>>
  BY DEF AllReminded, loopVars
<1>2. /\ at' \in [Jobs -> Stage] /\ at'[Reminder] = "finish"
      /\ \A i \in Jobs : i # Reminder => at'[i] = at[i]
      /\ made' = made /\ stalled' = stalled
  BY <1>1, JobGoes, JobKinds DEF MailInv, Stage
<1>3. MailTypeOK' /\ AttemptsAreLeft'
  BY <1>1, <1>2 DEF MailInv, MailTypeOK, AttemptsAreLeft
<1>4. MailsArePaidFor'
  BY <1>1, <1>2, JobKinds DEF MailInv, MailsArePaidFor, NotSent, NotReached, Running
<1>5. RowsFollowMails' /\ RowsTellTheTruth'
  BY <1>1, <1>2, JobKinds DEF MailInv, RowsFollowMails, RowsTellTheTruth, Addressees
<1> QED
  BY <1>3, <1>4, <1>5 DEF MailInv

-----------------------------------------------------------------------------
(* Sending, and writing down what came of it.                              *)
LEMMA AddresseesExist ==
  ASSUME MailInv, NEW j \in Jobs
  PROVE  /\ Addressees(j) \subseteq Mails
         /\ j \notin PlainMails => Addressees(j) \subseteq Recorded
         /\ j # Reminder => Addressees(j) = {j}
         /\ Addressees(Reminder) = now /\ now \subseteq Users
BY JobKinds DEF MailInv, MailTypeOK, Addressees

LEMMA AcceptedInv ==
  ASSUME MailInv, NEW j \in Jobs, Accepted(j)
  PROVE  MailInv'
<1> DEFINE s == IF j \in PlainMails THEN "finish" ELSE "save"
<1>1. /\ at[j] = "send" /\ UNCHANGED <<row, owner, todo, seen, now, breakdowns>>
      /\ mails' = [x \in Mails |-> IF x \in Addressees(j) THEN mails[x] + 1 ELSE mails[x]]
      /\ GoesTo(j, s) /\ s \in Stage
  BY DEF Accepted, loopVars, Stage
<1>2. /\ at' \in [Jobs -> Stage] /\ at'[j] = s
      /\ \A i \in Jobs : i # j => at'[i] = at[i]
      /\ made' = made /\ stalled' = stalled
  BY <1>1, JobGoes DEF MailInv
<1>3. /\ \A x \in Mails : mails[x] \in Nat /\ mails'[x] \in Nat
      /\ \A x \in Mails : x \in Addressees(j) => mails'[x] = mails[x] + 1
      /\ \A x \in Mails : x \notin Addressees(j) => mails'[x] = mails[x]
      /\ mails' \in [Mails -> Nat] /\ breakdowns \in Nat
  BY <1>1, NotificationBounds DEF MailInv, MailTypeOK
<1>4. MailTypeOK' /\ AttemptsAreLeft'
  BY <1>1, <1>2, <1>3 DEF MailInv, MailTypeOK, AttemptsAreLeft
<1>5. \A x \in Addressees(j) : x \in Mails /\ mails[x] <= breakdowns
  BY <1>1, JobKinds, AddresseesExist DEF MailInv, MailsArePaidFor, NotSent, NotReached
<1>6. MailsArePaidFor'
  <2>1. \A x \in Mails : mails'[x] <= 1 + breakdowns'
    BY <1>1, <1>3, <1>5 DEF MailInv, MailsArePaidFor
  <2>2. ASSUME NEW i \in Notices \cup PlainMails, NotSent(i)' PROVE mails'[i] <= breakdowns'
    <3>1. i # j /\ i \notin Addressees(j)
      BY <1>1, <1>2, <2>2, JobKinds, AddresseesExist DEF NotSent
    <3> QED
      BY <1>1, <1>2, <1>3, <2>2, <3>1, JobKinds DEF MailInv, MailsArePaidFor, NotSent
  <2>3. ASSUME NEW u \in Users, NotReached(u)' PROVE mails'[u] <= breakdowns'
    <3>1. CASE j = Reminder
      <4>1. u \notin seen /\ u \notin now
        BY <1>1, <1>2, <2>3, <3>1, JobKinds DEF NotReached, MailInv, MailsArePaidFor
      <4> QED
        BY <1>1, <1>3, <3>1, <4>1, JobKinds, AddresseesExist DEF MailInv, MailsArePaidFor, NotReached, Running
    <3>2. CASE j # Reminder
      BY <1>1, <1>2, <1>3, <2>3, <3>2, JobKinds, AddresseesExist DEF MailInv, MailsArePaidFor, NotReached
    <3> QED
      BY <3>1, <3>2
  <2> QED
    BY <1>1, <1>2, <2>1, <2>2, <2>3 DEF MailInv, MailsArePaidFor
<1>7. RowsFollowMails'
  <2>1. \A i \in Jobs : Addressees(i)' = Addressees(i)
    BY <1>1 DEF Addressees
  <2>2. \A i \in Jobs : at'[i] = "save" => \A x \in Addressees(i) : mails'[x] > 0
    <3> SUFFICES ASSUME NEW i \in Jobs, at'[i] = "save", NEW x \in Addressees(i) PROVE mails'[x] > 0
      OBVIOUS
    <3>1. x \in Mails
      BY AddresseesExist
    <3>2. i # j => mails[x] > 0
      BY <1>2 DEF MailInv, RowsFollowMails
    <3> QED
      BY <1>3, <3>1, <3>2
  <2>3. at'[Reminder] = "deny" => j # Reminder
    BY <1>2
  <2>4. at'[Reminder] = "deny" /\ breakdowns' = 0 => \A u \in now' : mails'[u] = 0
    BY <1>1, <1>2, <1>3, <2>3, JobKinds, AddresseesExist DEF MailInv, RowsFollowMails
  <2> QED
    BY <1>1, <1>2, <2>1, <2>2, <2>4, JobKinds DEF MailInv, RowsFollowMails
<1>8. RowsTellTheTruth'
  <2> SUFFICES ASSUME NEW x \in Recorded
               PROVE  /\ row[x] = "sent" => mails'[x] > 0
                      /\ row[x] = "failed" /\ breakdowns = 0 /\ (x \in Notices => at'[x] # "save")
                           => mails'[x] = 0
    BY <1>1 DEF RowsTellTheTruth
  <2>1. x \in Mails
    BY DEF Mails
  <2>2. row[x] = "sent" => mails'[x] > 0
    BY <1>3, <2>1 DEF MailInv, RowsTellTheTruth
  <2>3. CASE x \in Addressees(j)
    BY <1>1, <1>2, <2>2, <2>3, JobKinds, AddresseesExist DEF MailInv, RowsFollowMails
  <2>4. CASE x \notin Addressees(j)
    BY <1>2, <1>3, <2>1, <2>2, <2>4, JobKinds, AddresseesExist DEF MailInv, RowsTellTheTruth
  <2> QED
    BY <2>3, <2>4
<1> QED
  BY <1>4, <1>6, <1>7, <1>8 DEF MailInv

(* A job is thrown back.  If mails may have been sent in this attempt, a   *)
(* failure pays for their repetition.                                      *)
LEMMA ThrowsInv ==
  ASSUME MailInv, NEW j \in Jobs, at[j] \in {"next", "send", "deny"}, Throws(j),
         UNCHANGED <<mails, owner, loopVars>>,
         breakdowns' \in breakdowns .. MaxBreakdowns,
         \/ breakdowns' = breakdowns + 1 /\ row' = row
         \/ j \notin PlainMails /\ j # Reminder /\ SetRow(j, "failed") /\ at[j] = "deny"
         \/ j \in PlainMails /\ row' = row
  PROVE  MailInv'
<1>1. /\ at' \in [Jobs -> Stage] /\ made' \in [Jobs -> 0 .. MaxAttempts]
      /\ at'[j] \in {"waiting", "failed"}
      /\ at'[j] = "waiting" => made'[j] < MaxAttempts
      /\ \A i \in Jobs : i # j => at'[i] = at[i] /\ made'[i] = made[i]
      /\ stalled' = stalled
  BY JobThrows
<1>2. /\ \A x \in Mails : mails[x] \in Nat
      /\ breakdowns \in Nat /\ breakdowns' \in Nat /\ breakdowns <= breakdowns'
      /\ UNCHANGED <<mails, owner, todo, seen, now>>
  BY NotificationBounds DEF MailInv, MailTypeOK, loopVars
<1>3. /\ row' \in [Recorded -> {"none", "queued", "sent", "failed"}]
      /\ \A x \in Recorded : x # j => row'[x] = row[x]
      /\ \A x \in Recorded : row'[x] # row[x] => x = j /\ row'[x] = "failed" /\ j \in Notices /\ at[j] = "deny"
  BY JobKinds, AddresseesExist DEF MailInv, MailTypeOK, SetRow
<1>4. MailTypeOK' /\ AttemptsAreLeft'
  BY <1>1, <1>2, <1>3, NotificationBounds DEF MailInv, MailTypeOK, AttemptsAreLeft
<1>5. MailsArePaidFor'
  <2>1. \A x \in Mails : mails'[x] <= 1 + breakdowns'
    BY <1>2 DEF MailInv, MailsArePaidFor
  <2>2. ASSUME NEW i \in Notices \cup PlainMails, NotSent(i)' PROVE mails'[i] <= breakdowns'
    <3>1. NotSent(i)
      BY <1>1, <2>2, JobKinds DEF NotSent
    <3> QED
      BY <1>2, <3>1, JobKinds DEF MailInv, MailsArePaidFor
  <2>3. ASSUME NEW u \in Users, NotReached(u)' PROVE mails'[u] <= breakdowns'
    <3>1. CASE j = Reminder
      <4>1. breakdowns' = breakdowns + 1
        BY <3>1, JobKinds
      <4> QED
        BY <1>2, <4>1, JobKinds DEF MailInv, MailsArePaidFor
    <3>2. CASE j # Reminder
      <4>1. NotReached(u)
        BY <1>1, <1>2, <2>3, <3>2, JobKinds DEF NotReached
      <4> QED
        BY <1>2, <4>1, JobKinds DEF MailInv, MailsArePaidFor
    <3> QED
      BY <3>1, <3>2
  <2> QED
    BY <1>1, <1>2, <2>1, <2>2, <2>3 DEF MailInv, MailsArePaidFor
<1>6. RowsFollowMails'
  BY <1>1, <1>2, <1>3, JobKinds, AddresseesExist DEF MailInv, RowsFollowMails, Addressees
<1>7. RowsTellTheTruth'
  <2> SUFFICES ASSUME NEW x \in Recorded
               PROVE  /\ row'[x] = "sent" => mails[x] > 0
                      /\ row'[x] = "failed" /\ breakdowns' = 0 /\ (x \in Notices => at'[x] # "save")
                           => mails[x] = 0
    BY <1>2 DEF RowsTellTheTruth
  <2>1. x \in Mails
    BY DEF Mails
  <2>2. CASE row'[x] # row[x]
    BY <1>2, <1>3, <2>1, <2>2, JobKinds DEF MailInv, MailsArePaidFor, NotSent
  <2>3. CASE row'[x] = row[x]
    BY <1>1, <1>2, <2>3, JobKinds DEF MailInv, RowsTellTheTruth
  <2> QED
    BY <2>2, <2>3
<1> QED
  BY <1>4, <1>5, <1>6, <1>7 DEF MailInv

(* The mail of a notice or of the reminder is refused, or the row of one   *)
(* that was sent cannot be saved.                                          *)
LEMMA DeniesInv ==
  ASSUME MailInv, NEW j \in Jobs, j \notin PlainMails, GoesTo(j, "deny"),
         UNCHANGED <<row, mails, owner, loopVars>>,
         breakdowns' \in breakdowns .. MaxBreakdowns,
         \/ at[j] = "send" /\ breakdowns' = breakdowns
         \/ at[j] = "save" /\ breakdowns' = breakdowns + 1
  PROVE  MailInv'
<1>1. /\ at' \in [Jobs -> Stage] /\ at'[j] = "deny"
      /\ \A i \in Jobs : i # j => at'[i] = at[i]
      /\ made' = made /\ stalled' = stalled
      /\ UNCHANGED <<row, mails, owner, todo, seen, now>>
  BY JobGoes DEF MailInv, Stage, loopVars
<1>2. /\ \A x \in Mails : mails[x] \in Nat
      /\ breakdowns \in Nat /\ breakdowns' \in Nat /\ breakdowns <= breakdowns'
  BY NotificationBounds DEF MailInv, MailTypeOK
<1>3. MailTypeOK' /\ AttemptsAreLeft'
  BY <1>1, <1>2, NotificationBounds DEF MailInv, MailTypeOK, AttemptsAreLeft
<1>4. MailsArePaidFor'
  <2>1. \A x \in Mails : mails'[x] <= 1 + breakdowns'
    BY <1>1, <1>2 DEF MailInv, MailsArePaidFor
  <2>2. ASSUME NEW i \in Notices \cup PlainMails, NotSent(i)' PROVE mails'[i] <= breakdowns'
    <3>1. CASE i = j /\ at[j] = "save"
      BY <1>1, <1>2, <3>1, JobKinds DEF MailInv, MailsArePaidFor
    <3>2. CASE ~(i = j /\ at[j] = "save")
      <4>1. NotSent(i)
        BY <1>1, <2>2, <3>2, JobKinds DEF NotSent
      <4> QED
        BY <1>1, <1>2, <4>1, JobKinds DEF MailInv, MailsArePaidFor
    <3> QED
      BY <3>1, <3>2
  <2>3. ASSUME NEW u \in Users, NotReached(u)' PROVE mails'[u] <= breakdowns'
    <3>1. NotReached(u)
      BY <1>1, <2>3, JobKinds DEF NotReached, Running
    <3> QED
      BY <1>1, <1>2, <3>1, JobKinds DEF MailInv, MailsArePaidFor
  <2> QED
    BY <1>1, <1>2, <2>1, <2>2, <2>3 DEF MailInv, MailsArePaidFor
<1>5. RowsFollowMails'
  <2>1. at'[Reminder] = "deny" /\ breakdowns' = 0 => \A u \in now' : mails'[u] = 0
    <3> SUFFICES ASSUME at'[Reminder] = "deny", breakdowns' = 0, NEW u \in now PROVE mails[u] = 0
      BY <1>1
    <3>1. breakdowns = 0 /\ u \in Mails /\ u \in Users
      BY <1>2, JobKinds, AddresseesExist
    <3>2. CASE j = Reminder
      <4>1. NotReached(u)
        BY <1>2, <3>2 DEF NotReached
      <4> QED
        BY <1>2, <3>1, <4>1 DEF MailInv, MailsArePaidFor
    <3>3. CASE j # Reminder
      BY <1>1, <3>1, <3>3, JobKinds DEF MailInv, RowsFollowMails
    <3> QED
      BY <3>2, <3>3
  <2> QED
    BY <1>1, <2>1, JobKinds DEF MailInv, RowsFollowMails, Addressees
<1>6. RowsTellTheTruth'
  <2> SUFFICES ASSUME NEW x \in Recorded, row[x] = "failed", breakdowns' = 0,
                      x \in Notices => at'[x] # "save"
               PROVE  mails[x] = 0
    BY <1>1 DEF MailInv, RowsTellTheTruth
  <2>1. breakdowns = 0 /\ at[j] = "send"
    BY <1>2
  <2> QED
    BY <1>1, <2>1, JobKinds DEF MailInv, RowsTellTheTruth
<1> QED
  BY <1>3, <1>4, <1>5, <1>6 DEF MailInv

(* The row is saved, and the handler goes on or comes to its end.          *)
LEMMA SavesRowInv ==
  ASSUME MailInv, NEW j \in Jobs, j \notin PlainMails, NEW status \in {"sent", "failed"}, SetRow(j, status),
         NEW s \in {"next", "finish"}, GoesTo(j, s), UNCHANGED <<mails, owner, loopVars, breakdowns>>,
         s = IF j = Reminder THEN "next" ELSE "finish",
         \/ at[j] = "save" /\ status = "sent"
         \/ at[j] = "deny" /\ status = "failed" /\ j = Reminder
  PROVE  MailInv'
<1>1. /\ at' \in [Jobs -> Stage] /\ at'[j] = s
      /\ \A i \in Jobs : i # j => at'[i] = at[i]
      /\ made' = made /\ stalled' = stalled
      /\ UNCHANGED <<mails, owner, todo, seen, now, breakdowns>>
  BY JobGoes DEF MailInv, Stage, loopVars
<1>2. /\ row' \in [Recorded -> {"none", "queued", "sent", "failed"}]
      /\ \A x \in Recorded : x \in Addressees(j) => row'[x] = status
      /\ \A x \in Recorded : x \notin Addressees(j) => row'[x] = row[x]
  BY DEF MailInv, MailTypeOK, SetRow
<1>3. MailTypeOK' /\ AttemptsAreLeft'
  BY <1>1, <1>2 DEF MailInv, MailTypeOK, AttemptsAreLeft
<1>4. MailsArePaidFor'
  BY <1>1, JobKinds DEF MailInv, MailsArePaidFor, NotSent, NotReached, Running
<1>5. RowsFollowMails'
  BY <1>1, <1>2, JobKinds, AddresseesExist DEF MailInv, RowsFollowMails, Addressees
<1>6. RowsTellTheTruth'
  <2> SUFFICES ASSUME NEW x \in Recorded
               PROVE  /\ row'[x] = "sent" => mails[x] > 0
                      /\ row'[x] = "failed" /\ breakdowns = 0 /\ (x \in Notices => at'[x] # "save")
                           => mails[x] = 0
    BY <1>1 DEF RowsTellTheTruth
  <2>1. CASE x \in Addressees(j)
    <3>1. row'[x] = status
      BY <1>2, <2>1
    <3>2. CASE status = "sent"
      BY <2>1, <3>1, <3>2 DEF MailInv, RowsFollowMails
    <3>3. CASE status = "failed"
      BY <2>1, <3>1, <3>3, AddresseesExist DEF MailInv, RowsFollowMails
    <3> QED
      BY <3>2, <3>3
  <2>2. CASE x \notin Addressees(j)
    <3>1. x \in Notices => x # j
      BY <2>2, JobKinds, AddresseesExist
    <3> QED
      BY <1>1, <1>2, <2>2, <3>1, JobKinds DEF MailInv, RowsTellTheTruth
  <2> QED
    BY <2>1, <2>2
<1> QED
  BY <1>3, <1>4, <1>5, <1>6 DEF MailInv

LEMMA WorkerDiesInv ==
  ASSUME MailInv, NEW j \in Jobs, WorkerDies(j)
  PROVE  MailInv'
<1>1. /\ at[j] \in Running /\ UNCHANGED <<made, row, mails, owner, todo, seen, now>>
      /\ at' = [at EXCEPT ![j] = IF j \in stalled THEN "failed" ELSE "waiting"]
      /\ stalled' = stalled \cup {j}
      /\ breakdowns < MaxBreakdowns /\ breakdowns' = breakdowns + 1
  BY DEF WorkerDies, Fault, loopVars
<1>2. /\ at' \in [Jobs -> Stage] /\ at'[j] \in {"failed", "waiting"}
      /\ \A i \in Jobs : i # j => at'[i] = at[i]
  BY <1>1 DEF MailInv, MailTypeOK, Stage
<1>3. /\ \A x \in Mails : mails[x] \in Nat
      /\ breakdowns \in Nat /\ breakdowns' \in 1 .. MaxBreakdowns
  BY <1>1, NotificationBounds DEF MailInv, MailTypeOK
<1>4. MailTypeOK'
  BY <1>1, <1>2, <1>3, NotificationBounds DEF MailInv, MailTypeOK
<1>5. AttemptsAreLeft'
  BY <1>1, <1>2 DEF MailInv, AttemptsAreLeft, Running
<1>6. MailsArePaidFor'
  BY <1>1, <1>3, JobKinds DEF MailInv, MailsArePaidFor
<1>7. RowsFollowMails'
  BY <1>1, <1>2, <1>3, JobKinds DEF MailInv, RowsFollowMails, Addressees
<1>8. RowsTellTheTruth'
  BY <1>1, <1>3 DEF MailInv, RowsTellTheTruth
<1> QED
  BY <1>4, <1>5, <1>6, <1>7, <1>8 DEF MailInv

-----------------------------------------------------------------------------
LEMMA MailNextInv == MailInv /\ [MailNext]_deliveryVars => MailInv'
<1> SUFFICES ASSUME MailInv, [MailNext]_deliveryVars PROVE MailInv'
  OBVIOUS
<1>1. breakdowns \in 0 .. MaxBreakdowns /\ breakdowns \in breakdowns .. MaxBreakdowns
  BY NotificationBounds DEF MailInv, MailTypeOK
<1>2. Fault => breakdowns' = breakdowns + 1 /\ breakdowns' \in breakdowns .. MaxBreakdowns
  BY <1>1, NotificationBounds DEF Fault
<1>3. CASE UNCHANGED deliveryVars
  BY <1>3 DEF deliveryVars, queueVars, loopVars, MailInv, MailTypeOK, AttemptsAreLeft, MailsArePaidFor, NotSent,
              NotReached, RowsFollowMails, RowsTellTheTruth, Addressees
<1>4. ASSUME NEW j \in Jobs, AddJob(j) \/ AddFails(j) PROVE MailInv'
  BY <1>1, <1>2, <1>4, QueueMoves DEF AddJob, AddFails, Adding
<1>5. ASSUME NEW j \in Jobs, Completes(j) PROVE MailInv'
  BY <1>1, <1>5, QueueMoves DEF Completes
<1>6. ASSUME NEW j \in Jobs, Refused(j) PROVE MailInv'
  <2>1. CASE j \in PlainMails
    BY <1>1, <1>6, <2>1, ThrowsInv DEF Refused
  <2>2. CASE j \notin PlainMails
    BY <1>1, <1>6, <2>2, DeniesInv DEF Refused, AfterRefusal
  <2> QED
    BY <2>1, <2>2
<1>7. \A j \in Jobs : at[j] \in {"save", "deny"} => j \notin PlainMails
  BY DEF MailInv, RowsFollowMails
<1>8. ASSUME NEW j \in Jobs, SaveSent(j) PROVE MailInv'
  BY <1>7, <1>8, SavesRowInv DEF SaveSent
<1>9. ASSUME NEW j \in Jobs, SaveFailed(j) PROVE MailInv'
  <2>1. CASE j = Reminder
    BY <1>7, <1>9, <2>1, SavesRowInv DEF SaveFailed, GoesOn
  <2>2. CASE j # Reminder
    BY <1>1, <1>7, <1>9, <2>2, ThrowsInv DEF SaveFailed, GoesOn
  <2> QED
    BY <2>1, <2>2
<1>10. ASSUME NEW j \in Jobs, SaveThrows(j) PROVE MailInv'
  BY <1>2, <1>7, <1>10, DeniesInv DEF SaveThrows
<1>11. ASSUME NEW j \in Jobs, CatchThrows(j) PROVE MailInv'
  BY <1>2, <1>11, ThrowsInv DEF CatchThrows
<1>12. CASE NextOwnerThrows
  BY <1>2, <1>12, JobKinds, ThrowsInv DEF NextOwnerThrows
<1> QED
  BY <1>3, <1>4, <1>5, <1>6, <1>8, <1>9, <1>10, <1>11, <1>12,
     SaveNoticeInv, TakesInv, NextOwnerInv, AllRemindedInv, AcceptedInv, WorkerDiesInv
     DEF MailNext, Works, Breaks

LEMMA MailInvariance == MailSpec => []MailInv
BY MailInitInv, MailNextInv, PTL DEF MailSpec

(* Jobs, rows and the reminder's loop keep their shapes; no job is tried   *)
(* more often than the queue allows.                                       *)
THEOREM MailTyped == MailSpec => []MailTypeOK
<1>1. MailInv => MailTypeOK
  BY DEF MailInv
<1> QED
  BY <1>1, MailInvariance, PTL

(* Whatever is refused, thrown back or dies, for any jobs, tickets and     *)
(* owners: a mail is repeated at most once for each failure, be it of a    *)
(* notice, a code or the reminder that goes through the owners again.      *)
THEOREM MailsAreRepeatedForCause == MailSpec => []RepeatedMailsHaveACause
<1>1. MailInv => RepeatedMailsHaveACause
  BY DEF MailInv, MailsArePaidFor, RepeatedMailsHaveACause
<1> QED
  BY <1>1, MailInvariance, PTL

(* A row marked sent had its mail sent, whatever fails between the two;    *)
(* and without a failure no row says failed of a mail that was sent.       *)
THEOREM RowsAreTrue == MailSpec => []RowsTellTheTruth
<1>1. MailInv => RowsTellTheTruth
  BY DEF MailInv
<1> QED
  BY <1>1, MailInvariance, PTL
=============================================================================
