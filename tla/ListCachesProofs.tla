-------------------------- MODULE ListCachesProofs --------------------------
(***************************************************************************)
(* Proofs about cached lists.  A list goes wrong by a commit, and whoever  *)
(* commits owes the delete of that list's key and of no other.  What a     *)
(* reader has selected and not stored goes wrong in the same way, so the   *)
(* same is said of it as long as no delete has passed it.                  *)
(***************************************************************************)
EXTENDS ListCaches, TLAPS

(* What a right list under key k has in it, as far as its writers go.      *)
Shown(k) == Own(k, Current(k))
Owed(k) == \E w \in Writers : Owes(w, k)

IsStoring(r) ==
  /\ r = [at |-> "store", key |-> r.key, list |-> r.list, late |-> r.late]
  /\ r.key \in Keys

Shapes ==
  /\ rows = [t \in Tables |-> rows[t]]
  /\ cached = [k \in Keys |-> cached[k]]
  /\ read = [q \in Readers |-> read[q]]
  /\ write = [w \in Writers |-> write[w]]
  /\ \A q \in Readers : read[q].at = "select" => read[q].key \in Keys
  /\ \A q \in Readers : read[q].at = "store" => IsStoring(read[q])

(* The reader would store a wrong list, and no delete has passed it.       *)
FillsHaveACause ==
  \A q \in Readers, k \in Keys :
    /\ read[q].at = "store" /\ read[q].key = k /\ ~read[q].late
    /\ Own(k, read[q].list) # Shown(k)
    => Owed(k)

Inv ==
  /\ Shapes
  /\ WrongListsHaveACause
  /\ FillsHaveACause

-----------------------------------------------------------------------------
LEMMA WhatIsShown ==
  /\ \A k \in Tables : Shown(k) = rows[k]
  /\ \A u \in Users : Shown(u) = {f.event : f \in {g \in favorites : g.user = u}}
<1>1. \A u \in Users : u \notin Tables
  BY ListBounds DEF Tables
<1>2. \A k \in Tables : Shown(k) = rows[k]
  BY DEF Shown, Own, Current
<1>3. \A u \in Users : Shown(u) = DOMAIN Favorites(u)
  BY <1>1 DEF Shown, Own, Current
<1> QED
  BY <1>2, <1>3 DEF Favorites

(* The same after a step. *)
LEMMA WhatIsShownThen ==
  /\ \A k \in Tables : Shown(k)' = rows'[k]
  /\ \A u \in Users : Shown(u)' = {f.event : f \in {g \in favorites' : g.user = u}}
<1>1. \A u \in Users : u \notin Tables
  BY ListBounds DEF Tables
<1>2. \A k \in Tables : Shown(k)' = rows'[k]
  BY DEF Shown, Own, Current
<1>3. \A u \in Users : Shown(u)' = DOMAIN Favorites(u)'
  BY <1>1 DEF Shown, Own, Current
<1> QED
  BY <1>2, <1>3 DEF Favorites

LEMMA InitInv == Init => Inv
<1> SUFFICES ASSUME Init PROVE Inv
  OBVIOUS
<1>1. \A q \in Readers : read[q].at = "idle"
  BY DEF Init, Idle
<1> QED
  BY <1>1 DEF Init, Inv, Shapes, WrongListsHaveACause, FillsHaveACause

(* Whoever writes moves on and the rest of the cache is as it was: what is *)
(* not shown any more is owed a delete, and what was owed still is.        *)
LEMMA WriterMoves ==
  ASSUME Inv, UNCHANGED <<cached, read, outrun>>,
         rows' = [t \in Tables |-> rows'[t]], write' = [w \in Writers |-> write'[w]],
         \A k \in Keys : Owed(k) => Owed(k)',
         \A k \in Keys : Shown(k)' # Shown(k) => Owed(k)'
  PROVE  Inv'
<1>1. Shapes'
  BY DEF Inv, Shapes, IsStoring
<1>2. WrongListsHaveACause'
  <2> SUFFICES ASSUME NEW k \in Keys, NEW list \in cached'[k], Own(k, list) # Shown(k)'
               PROVE  k \in outrun' \/ Owed(k)'
    BY DEF WrongListsHaveACause, Own, Shown, Owed
  <2>1. CASE Shown(k)' # Shown(k)
    BY <2>1
  <2>2. CASE Shown(k)' = Shown(k)
    BY <2>2 DEF Inv, WrongListsHaveACause, Shown, Owed
  <2> QED
    BY <2>1, <2>2
<1>3. FillsHaveACause'
  <2> SUFFICES ASSUME NEW q \in Readers, NEW k \in Keys, read[q].at = "store", read[q].key = k,
                      ~read[q].late, Own(k, read[q].list) # Shown(k)'
               PROVE  Owed(k)'
    BY DEF FillsHaveACause, Own, Shown, Owed
  <2>1. CASE Shown(k)' # Shown(k)
    BY <2>1
  <2>2. CASE Shown(k)' = Shown(k)
    BY <2>2 DEF Inv, FillsHaveACause
  <2> QED
    BY <2>1, <2>2
<1> QED
  BY <1>1, <1>2, <1>3 DEF Inv
-----------------------------------------------------------------------------
LEMMA OwedByOthers ==
  ASSUME Inv, NEW w \in Writers, NEW r, write' = [write EXCEPT ![w] = r],
         NEW k, Owed(k), ~Owes(w, k) \/ r = Deleting(k)
  PROVE  Owed(k)'
<1>1. \A x \in Writers : write'[x] = IF x = w THEN r ELSE write[x]
  BY DEF Inv, Shapes
<1>2. PICK x \in Writers : Owes(x, k)
  BY DEF Owed
<1>3. CASE x = w
  BY <1>1, <1>2, <1>3 DEF Owed, Owes, Deleting
<1>4. CASE x # w
  BY <1>1, <1>2, <1>4 DEF Owed, Owes, Deleting
<1> QED
  BY <1>3, <1>4

(* A commit of writer w that shows in the list under key c.                *)
LEMMA Commit ==
  ASSUME Inv, NEW w \in Writers, NEW r, NEW c, write' = [write EXCEPT ![w] = r],
         UNCHANGED <<cached, read, outrun>>, rows' = [t \in Tables |-> rows'[t]],
         \A k \in Keys : Owes(w, k) => k = c,
         r = Deleting(c) \/ (r.at = "product" /\ r.row.t = c),
         \A k \in Keys : k # c => Shown(k)' = Shown(k)
  PROVE  Inv'
<1>1. write'[w] = r /\ write' = [x \in Writers |-> write'[x]]
  BY DEF Inv, Shapes
<1>2. Owed(c)'
  BY <1>1 DEF Owed, Owes, Deleting
<1>3. \A k \in Keys : Owed(k) => Owed(k)'
  BY <1>2, OwedByOthers
<1> QED
  BY <1>1, <1>2, <1>3, WriterMoves

(* A step of writer w that commits nothing and keeps what it owes.         *)
LEMMA NoCommit ==
  ASSUME Inv, NEW w \in Writers, NEW r, write' = [write EXCEPT ![w] = r],
         UNCHANGED <<rows, events, favorites, cached, read, outrun>>,
         \A k \in Keys : Owes(w, k) => r = Deleting(k)
  PROVE  Inv'
<1>1. write' = [x \in Writers |-> write'[x]] /\ rows' = [t \in Tables |-> rows'[t]]
  BY DEF Inv, Shapes
<1>2. \A k \in Keys : Shown(k)' = Shown(k)
  BY WhatIsShown, WhatIsShownThen DEF Keys
<1>3. \A k \in Keys : Owed(k) => Owed(k)'
  BY OwedByOthers
<1> QED
  BY <1>1, <1>2, <1>3, WriterMoves

(* Commits to one table show in its list alone, and those to the favorites *)
(* of a user in that user's.                                               *)
LEMMA OneTable ==
  ASSUME Inv, NEW t, NEW f, rows' = [rows EXCEPT ![t] = f], UNCHANGED favorites
  PROVE  /\ rows' = [x \in Tables |-> rows'[x]]
         /\ \A k \in Keys : k # t => Shown(k)' = Shown(k)
<1>1. rows = [x \in Tables |-> rows[x]]
  BY DEF Inv, Shapes
<1>2. rows' = [x \in Tables |-> rows'[x]] /\ \A k \in Tables : k # t => rows'[k] = rows[k]
  BY <1>1
<1> QED
  BY <1>2, WhatIsShown, WhatIsShownThen DEF Keys

LEMMA OneUser ==
  ASSUME Inv, NEW u, UNCHANGED rows,
         \A f : f.user # u => (f \in favorites' <=> f \in favorites)
  PROVE  /\ rows' = [x \in Tables |-> rows'[x]]
         /\ \A k \in Keys : k # u => Shown(k)' = Shown(k)
<1>1. rows' = [x \in Tables |-> rows'[x]]
  BY DEF Inv, Shapes
<1>2. \A k \in Users : k # u => {g \in favorites' : g.user = k} = {g \in favorites : g.user = k}
  OBVIOUS
<1>3. \A k \in Users : k # u => Shown(k)' = Shown(k)
  BY <1>2, WhatIsShown, WhatIsShownThen
<1>4. \A k \in Tables : Shown(k)' = Shown(k)
  BY WhatIsShown, WhatIsShownThen
<1> QED
  BY <1>1, <1>3, <1>4 DEF Keys

LEMMA WritesInv ==
  ASSUME Inv, NEW w \in Writers, Writes(w)
  PROVE  Inv' \/ DeletesKey(w) \/ \E k \in Keys : DeleteIsLost(w, k)
<1>1. ASSUME NEW t \in Tables, NEW i \in Ids, CreateRow(w, t, i) PROVE Inv'
  <2> DEFINE r == IF t = "venues" THEN Deleting(t) ELSE [at |-> "product", row |-> [t |-> t, i |-> i]]
  <2>1. write[w] = Idle /\ write' = [write EXCEPT ![w] = r]
    BY <1>1 DEF CreateRow, Begins
  <2>2. r = Deleting(t) \/ (r.at = "product" /\ r.row.t = t)
    OBVIOUS
  <2>3. \A k \in Keys : ~Owes(w, k)
    BY <2>1 DEF Owes, Idle, Deleting
  <2>4. UNCHANGED <<cached, read, outrun, favorites>>
    BY <1>1 DEF CreateRow, cacheVars
  <2>5. /\ rows' = [x \in Tables |-> rows'[x]]
        /\ \A k \in Keys : k # t => Shown(k)' = Shown(k)
    BY <1>1, <2>4, OneTable DEF CreateRow, Put
  <2> HIDE DEF r
  <2> QED
    BY <2>1, <2>2, <2>3, <2>4, <2>5, Commit
<1>2. ASSUME NEW t \in Tables, NEW i \in Ids, NEW step, ReadRow(w, t, i, step) PROVE Inv'
  <2>1. \A k \in Keys : ~Owes(w, k)
    BY <1>2 DEF ReadRow, Begins, Owes, Idle, Deleting
  <2> QED
    BY <1>2, <2>1, NoCommit DEF ReadRow, Begins, tableVars, cacheVars
<1>3. CASE SaveRow(w)
  <2> DEFINE c == write[w].row.t
  <2>1. write' = [write EXCEPT ![w] = Deleting(c)]
    BY <1>3 DEF SaveRow, GoesOn, AfterSave
  <2>2. \A k \in Keys : Owes(w, k) => k = c
    BY <1>3 DEF SaveRow, Owes, Deleting
  <2>3. UNCHANGED <<cached, read, outrun, favorites>>
    BY <1>3 DEF SaveRow, cacheVars
  <2>4. /\ rows' = [x \in Tables |-> rows'[x]]
        /\ \A k \in Keys : k # c => Shown(k)' = Shown(k)
    BY <1>3, <2>3, OneTable DEF SaveRow, Put
  <2> HIDE DEF c
  <2> QED
    BY <2>1, <2>2, <2>3, <2>4, Commit
<1>4. CASE NoProduct(w)
  <2>1. \A k \in Keys : Owes(w, k) => Deleting(write[w].row.t) = Deleting(k)
    BY <1>4 DEF NoProduct, Owes, Deleting
  <2> QED
    BY <1>4, <2>1, NoCommit DEF NoProduct, GoesOn, AfterSave, tableVars, cacheVars
<1>5. CASE DropRow(w)
  <2> DEFINE c == write[w].row.t
  <2>1. write' = [write EXCEPT ![w] = Deleting(c)]
    BY <1>5 DEF DropRow, GoesOn
  <2>2. \A k \in Keys : Owes(w, k) => k = c
    BY <1>5 DEF DropRow, Owes, Deleting
  <2>3. UNCHANGED <<cached, read, outrun, favorites>>
    BY <1>5 DEF DropRow, cacheVars
  <2>4. /\ rows' = [x \in Tables |-> rows'[x]]
        /\ \A k \in Keys : k # c => Shown(k)' = Shown(k)
    BY <1>5, <2>3, OneTable DEF DropRow
  <2> HIDE DEF c
  <2> QED
    BY <2>1, <2>2, <2>3, <2>4, Commit
<1>6. ASSUME NEW u \in Users, NEW e \in EventIds, ChecksFavorite(w, u, e) PROVE Inv'
  <2>1. \A k \in Keys : ~Owes(w, k)
    BY <1>6 DEF ChecksFavorite, Begins, Owes, Idle, Deleting
  <2> QED
    BY <1>6, <2>1, NoCommit DEF ChecksFavorite, Begins, tableVars, cacheVars
<1>7. CASE AddsFavorite(w)
  <2> DEFINE c == write[w].user
  <2>1. write' = [write EXCEPT ![w] = Deleting(c)]
    BY <1>7 DEF AddsFavorite, GoesOn
  <2>2. \A k \in Keys : ~Owes(w, k)
    BY <1>7 DEF AddsFavorite, Owes, Deleting
  <2>3. UNCHANGED <<cached, read, outrun, rows>>
    BY <1>7 DEF AddsFavorite, cacheVars
  <2>4. \A f : f.user # c => (f \in favorites' <=> f \in favorites)
    BY <1>7 DEF AddsFavorite
  <2> HIDE DEF c
  <2>5. /\ rows' = [x \in Tables |-> rows'[x]]
        /\ \A k \in Keys : k # c => Shown(k)' = Shown(k)
    BY <2>3, <2>4, OneUser
  <2> QED
    BY <2>1, <2>2, <2>3, <2>5, Commit
<1>8. ASSUME NEW f \in favorites, FindsFavorite(w, f) PROVE Inv'
  <2>1. \A k \in Keys : ~Owes(w, k)
    BY <1>8 DEF FindsFavorite, Begins, Owes, Idle, Deleting
  <2> QED
    BY <1>8, <2>1, NoCommit DEF FindsFavorite, Begins, tableVars, cacheVars
<1>9. CASE TakesFavorite(w)
  <2> DEFINE c == write[w].favorite.user
  <2>1. write' = [write EXCEPT ![w] = Deleting(c)]
    BY <1>9 DEF TakesFavorite, GoesOn
  <2>2. \A k \in Keys : ~Owes(w, k)
    BY <1>9 DEF TakesFavorite, Owes, Deleting
  <2>3. UNCHANGED <<cached, read, outrun, rows>>
    BY <1>9 DEF TakesFavorite, cacheVars
  <2>4. \A f : f.user # c => (f \in favorites' <=> f \in favorites)
    BY <1>9 DEF TakesFavorite
  <2> HIDE DEF c
  <2>5. /\ rows' = [x \in Tables |-> rows'[x]]
        /\ \A k \in Keys : k # c => Shown(k)' = Shown(k)
    BY <2>3, <2>4, OneUser
  <2> QED
    BY <2>1, <2>2, <2>3, <2>5, Commit
<1>10. CASE RequestFails(w)
  <2>1. \A k \in Keys : ~Owes(w, k)
    BY <1>10 DEF RequestFails, Owes, Deleting
  <2> QED
    BY <1>10, <2>1, NoCommit DEF RequestFails, GoesOn, tableVars, cacheVars
<1> QED
  BY <1>1, <1>2, <1>3, <1>4, <1>5, <1>6, <1>7, <1>8, <1>9, <1>10 DEF Writes

-----------------------------------------------------------------------------
(* The delete under key c is done, or will never be: the readers it passes *)
(* are late, and nobody else's debts change.                               *)
LEMMA DebtEnds ==
  ASSUME Inv, NEW w \in Writers, NEW c \in Keys, Outruns(c), GoesOn(w, Idle),
         \A k \in Keys : Owes(w, k) => k = c,
         UNCHANGED <<rows, events, favorites>>,
         cached' = [k \in Keys |-> cached'[k]],
         \A k \in Keys : k # c => cached'[k] = cached[k] /\ (k \in outrun' <=> k \in outrun),
         cached'[c] = {} \/ c \in outrun'
  PROVE  Inv'
<1>1. \A k \in Keys : Shown(k)' = Shown(k)
  BY WhatIsShown, WhatIsShownThen DEF Keys
<1>2. \A k \in Keys \ {c} : Owed(k) => Owed(k)'
  BY OwedByOthers DEF GoesOn
<1>3. \A q \in Readers : read'[q] = IF read[q].at = "store" /\ read[q].key = c
                                   THEN [read[q] EXCEPT !.late = TRUE] ELSE read[q]
  BY DEF Outruns
<1>4. ASSUME NEW q \in Readers, read[q].at = "store", read[q].key = c
      PROVE  IsStoring(read'[q]) /\ read'[q].at = "store" /\ read'[q].late
  <2>1. read[q] = [at |-> "store", key |-> c, list |-> read[q].list, late |-> read[q].late]
    BY <1>4 DEF Inv, Shapes, IsStoring
  <2>2. read'[q] = [at |-> "store", key |-> c, list |-> read[q].list, late |-> TRUE]
    BY <1>3, <1>4, <2>1
  <2> QED
    BY <2>2 DEF IsStoring
<1>5. Shapes'
  <2>1. read' = [q \in Readers |-> read'[q]] /\ write' = [x \in Writers |-> write'[x]]
    BY DEF Outruns, GoesOn, Inv, Shapes
  <2>2. \A q \in Readers : read'[q].at = "select" => read'[q].key \in Keys
    BY <1>3, <1>4 DEF Inv, Shapes
  <2>3. \A q \in Readers : read'[q].at = "store" => IsStoring(read'[q])
    BY <1>3, <1>4 DEF Inv, Shapes
  <2> QED
    BY <2>1, <2>2, <2>3 DEF Inv, Shapes, IsStoring
<1>6. WrongListsHaveACause'
  <2> SUFFICES ASSUME NEW k \in Keys, NEW list \in cached'[k], Own(k, list) # Shown(k)'
               PROVE  k \in outrun' \/ Owed(k)'
    BY DEF WrongListsHaveACause, Own, Shown, Owed
  <2>1. CASE k = c
    BY <2>1
  <2>2. CASE k # c
    BY <1>1, <1>2, <2>2 DEF Inv, WrongListsHaveACause, Shown, Owed
  <2> QED
    BY <2>1, <2>2
<1>7. FillsHaveACause'
  <2> SUFFICES ASSUME NEW q \in Readers, NEW k \in Keys, read'[q].at = "store", read'[q].key = k,
                      ~read'[q].late, Own(k, read'[q].list) # Shown(k)'
               PROVE  Owed(k)'
    BY DEF FillsHaveACause, Own, Shown, Owed
  <2>1. read'[q] = read[q] /\ k # c
    BY <1>3, <1>4
  <2> QED
    BY <1>1, <1>2, <2>1 DEF Inv, FillsHaveACause
<1> QED
  BY <1>5, <1>6, <1>7 DEF Inv

LEMMA DeletesKeyInv ==
  ASSUME Inv, NEW w \in Writers, write[w].key \in Keys, DeletesKey(w)
  PROVE  Inv'
<1>1. \A k \in Keys : Owes(w, k) => k = write[w].key
  BY DEF DeletesKey, Owes, Deleting
<1>2. cached' = [cached EXCEPT ![write[w].key] = {}] /\ outrun' = outrun \ {write[w].key}
  BY DEF DeletesKey
<1>3. cached' = [k \in Keys |-> cached'[k]] /\ cached'[write[w].key] = {}
      /\ \A k \in Keys : k # write[w].key => cached'[k] = cached[k] /\ (k \in outrun' <=> k \in outrun)
  BY <1>2 DEF Inv, Shapes
<1> QED
  BY <1>1, <1>3, DebtEnds DEF DeletesKey, tableVars

LEMMA DeleteIsLostInv ==
  ASSUME Inv, NEW w \in Writers, NEW c \in Keys, DeleteIsLost(w, c)
  PROVE  Inv'
<1>1. Owes(w, c) /\ UNCHANGED <<rows, events, favorites, cached>>
  BY DEF DeleteIsLost, tableVars
<1>2. \A k \in Keys : Owes(w, k) => k = c
  BY <1>1 DEF Owes, Deleting
<1>3. \A k \in Keys : k # c => (k \in outrun' <=> k \in outrun)
  BY DEF DeleteIsLost
<1>4. cached'[c] = {} \/ c \in outrun'
  BY <1>1 DEF DeleteIsLost
<1>5. cached' = [k \in Keys |-> cached'[k]]
  BY <1>1 DEF Inv, Shapes
<1> QED
  BY <1>1, <1>2, <1>3, <1>4, <1>5, DebtEnds DEF DeleteIsLost

-----------------------------------------------------------------------------
LEMMA ReaderMoves ==
  ASSUME Inv, NEW q \in Readers, NEW r, read' = [read EXCEPT ![q] = r],
         UNCHANGED <<rows, events, favorites, write, cached, outrun>>,
         r.at = "select" => r.key \in Keys, r.at = "store" => IsStoring(r),
         r.at = "store" => Own(r.key, r.list) = Shown(r.key)
  PROVE  Inv'
<1>1. \A k \in Keys : (Shown(k)' = Shown(k)) /\ (Owed(k)' <=> Owed(k))
  BY WhatIsShown, WhatIsShownThen DEF Keys, Owed, Owes
<1>2. \A x \in Readers : read'[x] = IF x = q THEN r ELSE read[x]
  BY DEF Inv, Shapes
<1>3. Shapes'
  BY <1>2 DEF Inv, Shapes, IsStoring
<1>4. WrongListsHaveACause'
  BY <1>1 DEF Inv, WrongListsHaveACause, Shown, Owed
<1>5. FillsHaveACause'
  <2> SUFFICES ASSUME NEW x \in Readers, NEW k \in Keys, read'[x].at = "store", read'[x].key = k,
                      ~read'[x].late, Own(k, read'[x].list) # Shown(k)'
               PROVE  Owed(k)'
    BY DEF FillsHaveACause, Own, Shown, Owed
  <2>1. x # q /\ read'[x] = read[x]
    BY <1>1, <1>2
  <2> QED
    BY <1>1, <2>1 DEF Inv, FillsHaveACause
<1> QED
  BY <1>3, <1>4, <1>5 DEF Inv

LEMMA StoresInv ==
  ASSUME Inv, NEW q \in Readers, Stores(q)
  PROVE  Inv'
<1> DEFINE c == read[q].key
<1>1. c \in Keys /\ read[q].at = "store"
  BY DEF Stores, Inv, Shapes, IsStoring
<1>2. /\ read' = [read EXCEPT ![q] = Idle]
      /\ cached' = [cached EXCEPT ![c] = {read[q].list}]
      /\ outrun' = (IF read[q].late THEN outrun \cup {c} ELSE outrun \ {c})
      /\ UNCHANGED <<rows, events, favorites, write>>
  BY DEF Stores, tableVars
<1>3. \A k \in Keys : (Shown(k)' = Shown(k)) /\ (Owed(k)' <=> Owed(k))
  BY <1>2, WhatIsShown, WhatIsShownThen DEF Keys, Owed, Owes
<1>4. \A x \in Readers : read'[x] = IF x = q THEN Idle ELSE read[x]
  BY <1>2 DEF Inv, Shapes
<1>5. Idle.at = "idle"
  BY DEF Idle
<1>6. Shapes'
  BY <1>2, <1>4, <1>5 DEF Inv, Shapes, IsStoring
<1>7. WrongListsHaveACause'
  <2> SUFFICES ASSUME NEW k \in Keys, NEW list \in cached'[k], Own(k, list) # Shown(k)'
               PROVE  k \in outrun' \/ Owed(k)'
    BY DEF WrongListsHaveACause, Own, Shown, Owed
  <2>1. CASE k # c
    <3>1. cached'[k] = cached[k] /\ (k \in outrun' <=> k \in outrun)
      BY <1>2, <2>1 DEF Inv, Shapes
    <3> QED
      BY <1>3, <3>1 DEF Inv, WrongListsHaveACause, Shown, Owed
  <2>2. CASE k = c
    <3>1. list = read[q].list
      BY <1>1, <1>2, <2>2 DEF Inv, Shapes
    <3>2. CASE read[q].late
      BY <1>2, <2>2, <3>2
    <3>3. CASE ~read[q].late
      BY <1>1, <1>3, <2>2, <3>1, <3>3 DEF Inv, FillsHaveACause
    <3> QED
      BY <3>2, <3>3
  <2> QED
    BY <2>1, <2>2
<1>8. FillsHaveACause'
  <2> SUFFICES ASSUME NEW x \in Readers, NEW k \in Keys, read'[x].at = "store", read'[x].key = k,
                      ~read'[x].late, Own(k, read'[x].list) # Shown(k)'
               PROVE  Owed(k)'
    BY DEF FillsHaveACause, Own, Shown, Owed
  <2>1. read'[x] = read[x]
    BY <1>4, <1>5
  <2> QED
    BY <1>3, <2>1 DEF Inv, FillsHaveACause
<1> QED
  BY <1>6, <1>7, <1>8 DEF Inv

LEMMA ExpiresInv ==
  ASSUME Inv, NEW c \in Keys, Expires(c)
  PROVE  Inv'
<1>1. \A k \in Keys : (Shown(k)' = Shown(k)) /\ (Owed(k)' <=> Owed(k))
  BY WhatIsShown, WhatIsShownThen DEF Expires, tableVars, Keys, Owed, Owes
<1>2. /\ cached' = [k \in Keys |-> cached'[k]] /\ cached'[c] = {}
      /\ \A k \in Keys : k # c => cached'[k] = cached[k] /\ (k \in outrun' <=> k \in outrun)
  BY DEF Expires, Inv, Shapes
<1>3. Shapes'
  BY <1>2 DEF Expires, tableVars, Inv, Shapes, IsStoring
<1>4. WrongListsHaveACause'
  BY <1>1, <1>2 DEF Inv, WrongListsHaveACause, Shown, Owed
<1>5. FillsHaveACause'
  BY <1>1 DEF Expires, tableVars, Inv, FillsHaveACause, Shown, Owed
<1> QED
  BY <1>3, <1>4, <1>5 DEF Inv

-----------------------------------------------------------------------------
(* A writing request that has a key to delete deletes one that exists.     *)
WritersKnowKeys ==
  /\ \A f \in favorites : f.user \in Users
  /\ \A w \in Writers :
       /\ write[w].at = "del" => write[w].key \in Keys
       /\ write[w].at \in {"save", "product", "drop"} => write[w].row.t \in Tables
       /\ write[w].at = "add" => write[w].user \in Users
       /\ write[w].at = "take" => write[w].favorite.user \in Users

LEMMA RequestChanges ==
  ASSUME WritersKnowKeys, Shapes, NEW w \in Writers, NEW r, write' = [write EXCEPT ![w] = r],
         \A f \in favorites' : f.user \in Users,
         r.at = "del" => r.key \in Keys,
         r.at \in {"save", "product", "drop"} => r.row.t \in Tables,
         r.at = "add" => r.user \in Users,
         r.at = "take" => r.favorite.user \in Users
  PROVE  WritersKnowKeys'
<1>1. \A x \in Writers : write'[x] = IF x = w THEN r ELSE write[x]
  BY DEF Shapes
<1> QED
  BY <1>1 DEF WritersKnowKeys

LEMMA KeysKnown ==
  ASSUME WritersKnowKeys, Shapes, [Next]_vars
  PROVE  WritersKnowKeys'
<1> USE DEF WritersKnowKeys
<1>1. ASSUME NEW w \in Writers, Writes(w) PROVE WritersKnowKeys'
  <2>1. ASSUME NEW t \in Tables, NEW i \in Ids, CreateRow(w, t, i) PROVE WritersKnowKeys'
    <3> DEFINE r == IF t = "venues" THEN Deleting(t) ELSE [at |-> "product", row |-> [t |-> t, i |-> i]]
    <3>1. /\ write' = [write EXCEPT ![w] = r]
          /\ UNCHANGED favorites
      BY <2>1 DEF CreateRow, Begins
    <3>2. /\ r.at = "del" => r.key \in Keys
          /\ r.at \in {"save", "product", "drop"} => r.row.t \in Tables
          /\ r.at # "add" /\ r.at # "take"
      BY DEF Deleting, Keys
    <3> HIDE DEF r
    <3> QED
      BY <3>1, <3>2, RequestChanges
  <2>2. ASSUME NEW t \in Tables, NEW i \in Ids, NEW step \in {"save", "drop"}, ReadRow(w, t, i, step)
        PROVE  WritersKnowKeys'
    BY <2>2, RequestChanges DEF ReadRow, Begins, tableVars
  <2>3. CASE SaveRow(w) \/ NoProduct(w) \/ DropRow(w)
    <3>1. write[w].row.t \in Tables
      BY <2>3 DEF SaveRow, NoProduct, DropRow
    <3>2. write' = [write EXCEPT ![w] = Deleting(write[w].row.t)] /\ UNCHANGED favorites
      BY <2>3 DEF SaveRow, NoProduct, DropRow, GoesOn, AfterSave, tableVars
    <3> QED
      BY <3>1, <3>2, RequestChanges DEF Deleting, Keys
  <2>4. ASSUME NEW u \in Users, NEW e \in EventIds, ChecksFavorite(w, u, e) PROVE WritersKnowKeys'
    BY <2>4, RequestChanges DEF ChecksFavorite, Begins, tableVars
  <2>5. CASE AddsFavorite(w)
    <3>1. write[w].user \in Users
      BY <2>5 DEF AddsFavorite
    <3>2. \A f \in favorites' : f.user \in Users
      BY <2>5, <3>1 DEF AddsFavorite
    <3> QED
      BY <2>5, <3>1, <3>2, RequestChanges DEF AddsFavorite, GoesOn, Deleting, Keys
  <2>6. ASSUME NEW f \in favorites, FindsFavorite(w, f) PROVE WritersKnowKeys'
    BY <2>6, RequestChanges DEF FindsFavorite, Begins, tableVars
  <2>7. CASE TakesFavorite(w)
    <3>1. write[w].favorite.user \in Users
      BY <2>7 DEF TakesFavorite
    <3>2. \A f \in favorites' : f.user \in Users
      BY <2>7 DEF TakesFavorite
    <3> QED
      BY <2>7, <3>1, <3>2, RequestChanges DEF TakesFavorite, GoesOn, Deleting, Keys
  <2>8. ASSUME DeletesKey(w) \/ (\E k \in Keys : DeleteIsLost(w, k)) \/ RequestFails(w)
        PROVE  WritersKnowKeys'
    <3>1. write' = [write EXCEPT ![w] = Idle] /\ UNCHANGED favorites
      BY <2>8 DEF DeletesKey, DeleteIsLost, RequestFails, GoesOn, tableVars
    <3> QED
      BY <3>1, RequestChanges DEF Idle
  <2> QED
    BY <1>1, <2>1, <2>2, <2>3, <2>4, <2>5, <2>6, <2>7, <2>8 DEF Writes
<1>2. CASE UNCHANGED <<favorites, write>>
  BY <1>2
<1>3. ASSUME NEW e \in EventIds, ChangesEvent(e) PROVE WritersKnowKeys'
  BY <1>2, <1>3 DEF ChangesEvent
<1>4. ASSUME NEW q \in Readers, Selects(q) \/ Stores(q) \/ \E k \in Keys : Misses(q, k)
      PROVE  WritersKnowKeys'
  BY <1>2, <1>4 DEF Selects, Stores, Misses, tableVars
<1>5. ASSUME NEW k \in Keys, Expires(k) PROVE WritersKnowKeys'
  BY <1>2, <1>5 DEF Expires, tableVars
<1>6. CASE UNCHANGED vars
  BY <1>2, <1>6 DEF vars
<1> QED
  BY <1>1, <1>3, <1>4, <1>5, <1>6 DEF Next

-----------------------------------------------------------------------------
LEMMA SelectsInv ==
  ASSUME Inv, NEW q \in Readers, Selects(q)
  PROVE  Inv'
<1> DEFINE c == read[q].key
           r == [at |-> "store", key |-> c, list |-> Current(c), late |-> FALSE]
<1>1. c \in Keys
  BY DEF Selects, Inv, Shapes
<1>2. read' = [read EXCEPT ![q] = r] /\ UNCHANGED <<rows, events, favorites, write, cached, outrun>>
  BY DEF Selects, tableVars
<1>3. r.at = "store" /\ IsStoring(r) /\ Own(r.key, r.list) = Shown(r.key)
  BY <1>1 DEF IsStoring, Shown
<1> HIDE DEF r
<1> QED
  BY <1>2, <1>3, ReaderMoves

LEMMA MissesInv ==
  ASSUME Inv, NEW q \in Readers, NEW k \in Keys, Misses(q, k)
  PROVE  Inv'
<1> DEFINE r == [at |-> "select", key |-> k]
<1>1. read' = [read EXCEPT ![q] = r] /\ UNCHANGED <<rows, events, favorites, write, cached, outrun>>
  BY DEF Misses, tableVars
<1>2. r.at = "select" /\ r.key \in Keys
  OBVIOUS
<1> HIDE DEF r
<1> QED
  BY <1>1, <1>2, ReaderMoves

LEMMA NothingMoves ==
  ASSUME Inv, UNCHANGED <<rows, favorites, cached, read, write, outrun>>
  PROVE  Inv'
<1>1. \A k \in Keys : (Shown(k)' = Shown(k)) /\ (Owed(k) => Owed(k)')
  BY WhatIsShown, WhatIsShownThen DEF Keys, Owed, Owes
<1>2. rows' = [t \in Tables |-> rows'[t]] /\ write' = [w \in Writers |-> write'[w]]
  BY DEF Inv, Shapes
<1> QED
  BY <1>1, <1>2, WriterMoves

LEMMA NextInv ==
  ASSUME Inv, WritersKnowKeys, [Next]_vars
  PROVE  Inv'
<1>1. ASSUME NEW w \in Writers, Writes(w) PROVE Inv'
  <2>1. CASE DeletesKey(w)
    BY <2>1, DeletesKeyInv DEF DeletesKey, WritersKnowKeys
  <2>2. ASSUME NEW k \in Keys, DeleteIsLost(w, k) PROVE Inv'
    BY <2>2, DeleteIsLostInv
  <2> QED
    BY <1>1, <2>1, <2>2, WritesInv
<1>2. ASSUME NEW e \in EventIds, ChangesEvent(e) PROVE Inv'
  BY <1>2, NothingMoves DEF ChangesEvent, cacheVars
<1>3. ASSUME NEW q \in Readers, Selects(q) \/ Stores(q) \/ \E k \in Keys : Misses(q, k) PROVE Inv'
  BY <1>3, SelectsInv, StoresInv, MissesInv
<1>4. ASSUME NEW k \in Keys, Expires(k) PROVE Inv'
  BY <1>4, ExpiresInv
<1>5. CASE UNCHANGED vars
  BY <1>5, NothingMoves DEF vars
<1> QED
  BY <1>1, <1>2, <1>3, <1>4, <1>5 DEF Next

-----------------------------------------------------------------------------
(* A list in Redis that lacks a row, or shows one that is gone, still has  *)
(* its delete to come, or was stored by a reader the delete had passed, or *)
(* has outlived a delete that was lost: for any number of readers, writing *)
(* requests and failures.                                                  *)
THEOREM StaleListsAreExplained == Spec => []WrongListsHaveACause
<1>1. Init => Inv /\ WritersKnowKeys
  BY InitInv DEF Init, WritersKnowKeys, Idle
<1>2. Inv /\ WritersKnowKeys /\ [Next]_vars => (Inv /\ WritersKnowKeys)'
  BY NextInv, KeysKnown DEF Inv
<1>3. Inv => WrongListsHaveACause
  BY DEF Inv
<1> QED
  BY <1>1, <1>2, <1>3, PTL DEF Spec

(* No user has an event twice among the favorites, however many requests   *)
(* add it at once: the unique key decides, not add()'s own check.          *)
THEOREM FavoritesAreUnique == Spec => []OneFavoritePerEvent
<1>1. Init => OneFavoritePerEvent
  BY DEF Init, OneFavoritePerEvent
<1>2. OneFavoritePerEvent /\ [Next]_vars => OneFavoritePerEvent'
  <2> SUFFICES ASSUME OneFavoritePerEvent, [Next]_vars PROVE OneFavoritePerEvent'
    OBVIOUS
  <2>1. CASE favorites' \subseteq favorites
    BY <2>1 DEF OneFavoritePerEvent
  <2>2. ASSUME NEW w \in Writers, AddsFavorite(w) PROVE OneFavoritePerEvent'
    <3> DEFINE new == [id |-> saves', user |-> write[w].user, event |-> write[w].event]
    <3>1. favorites' = favorites \cup {new}
      BY <2>2 DEF AddsFavorite
    <3>2. \A f \in favorites : ~(f.user = new.user /\ f.event = new.event)
      BY <2>2 DEF AddsFavorite, NoOtherRow, Unfavorited
    <3> HIDE DEF new
    <3> QED
      BY <3>1, <3>2 DEF OneFavoritePerEvent
  <2>3. (\E w \in Writers : AddsFavorite(w)) \/ favorites' \subseteq favorites
    BY DEF Next, Writes, CreateRow, ReadRow, SaveRow, NoProduct, DropRow, ChecksFavorite,
           FindsFavorite, TakesFavorite, DeletesKey, DeleteIsLost, RequestFails, ChangesEvent,
           Selects, Stores, Misses, Expires, tableVars, vars
  <2> QED
    BY <2>1, <2>2, <2>3
<1> QED
  BY <1>1, <1>2, PTL DEF Spec
=============================================================================
