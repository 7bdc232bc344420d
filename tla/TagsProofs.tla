----------------------------- MODULE TagsProofs -----------------------------
(***************************************************************************)
(* Proofs about Tags, for all sets of names, groups, files, operators and  *)
(* requests:                                                               *)
(*   - TypeOK;                                                             *)
(*   - NoTagIsLost, from what the keys that pages and requests hold still  *)
(*     stand for;                                                          *)
(*   - AsAsked, from what a page that is up to date and a request at work  *)
(*     hold.                                                               *)
(***************************************************************************)
EXTENDS Tags, TLAPS

\* A request that moves tags knows where to.
HasTarget == \A r \in Requests : req[r].move # {} => req[r].to \in Groups

TInv == TypeOK /\ HasTarget

LEMMA InitTyped == Init => TInv
  <1> SUFFICES ASSUME Init PROVE TInv
    OBVIOUS
  <1>1. /\ Idle \in [names : SUBSET Names, items : SUBSET Item,
                     move : SUBSET Names, to : Groups \cup {NoGroup}]
        /\ Idle.move = {}
        /\ [items |-> {}, imported |-> FALSE, records |-> {}] \in Page
    BY DEF Idle, Page
  <1>2. Nothing \in [Names -> Groups \cup {NoGroup}]
    BY DEF Nothing
  <1>3. HasTarget
    BY <1>1 DEF Init, HasTarget
  <1>4. TypeOK
    <2>1. page \in [Operators -> Page]
      BY <1>1 DEF Init
    <2>2. req \in [Requests -> [names : SUBSET Names, items : SUBSET Item,
                                move : SUBSET Names, to : Groups \cup {NoGroup}]]
      BY <1>1 DEF Init
    <2>3. rows \in [Ids -> Row \cup {NoRow}] /\ asked \in 0 .. MaxAsked
      BY MaxAskedAssumption DEF Init
    <2> QED
      BY <1>2, <2>1, <2>2, <2>3 DEF Init, TypeOK
  <1> QED
    BY <1>3, <1>4 DEF TInv

(***************************************************************************)
(* What is written to the table is a row, and what is asked for a group.   *)
(***************************************************************************)
LEMMA StoredIsRow ==
    ASSUME NEW i \in Item
    PROVE  Stored(i) \in Row
  BY GroupsAssumption DEF Item, Stored, Row

LEMMA SaveTyped ==
    ASSUME TypeOK, NEW i \in Item, NEW renamed \in BOOLEAN,
           SaveTag(i, renamed) \/ Create(i)
    PROVE  /\ rows' \in [Ids -> Row \cup {NoRow}]
           /\ moved' \in BOOLEAN
           /\ top' \in Nat
  <1> USE IdsAssumption, StoredIsRow DEF TypeOK
  <1>1. CASE NotWritten(renamed) \/ NotWritten(FALSE)
    BY <1>1 DEF NotWritten
  <1>2. CASE Overwrite(i, renamed)
    BY <1>2 DEF Overwrite
  <1>3. ASSUME NEW id \in Ids, Insert(id, i)
        PROVE  /\ rows' \in [Ids -> Row \cup {NoRow}]
               /\ moved' \in BOOLEAN
               /\ top' \in Nat
    BY <1>3 DEF Insert
  <1>4. i.id # NoId => i.id \in Ids
    BY DEF Item
  <1> QED
    BY <1>1, <1>2, <1>3, <1>4 DEF SaveTag, Create

LEMMA AsksTyped ==
    ASSUME TypeOK, NEW ok \in BOOLEAN, NEW wanted, NEW kept,
           Asks(ok, wanted, kept),
           turns' => wanted \in [Names -> Groups \cup {NoGroup}]
    PROVE  /\ asked' \in 0 .. MaxAsked
           /\ turns' \in BOOLEAN
           /\ want' \in [Names -> Groups \cup {NoGroup}]
           /\ fresh' \in SUBSET Operators
  BY MaxAskedAssumption DEF Asks, Nothing, TypeOK

LEMMA ItemOfTyped ==
    ASSUME TypeOK, NEW id \in Used
    PROVE  ItemOf(id) \in Item
  <1>1. rows[id] \in Row /\ id \in Ids
    BY DEF Used, TypeOK
  <1> QED
    BY <1>1 DEF ItemOf, Item, Row
-----------------------------------------------------------------------------
(***************************************************************************)
(* The types.                                                              *)
(***************************************************************************)
\* The page: reading it, importing a file, editing and deleting an item.
LEMMA UpdateTyped ==
    ASSUME TInv, NEW o \in Operators, Update(o)
    PROVE  TInv'
  <1>1. {ItemOf(id) : id \in {k \in Used : rows[k].live}} \in SUBSET Item
    BY ItemOfTyped DEF TInv
  <1> QED
    BY <1>1 DEF TInv, TypeOK, HasTarget, Update, Page

ImportedItem(i, o, r, group) ==
    \/ i \in page[o].items
    \/ \E j \in page[o].items :
         i = [j EXCEPT !.groupid = r.groupid, !.group = group]
    \/ i = [id |-> NoId, name |-> r.name, groupid |-> r.groupid, group |-> group]

\* The items of an import: those of the page, those with another group, or
\* new ones.
LEMMA ImportItems ==
    ASSUME TInv, NEW o \in Operators, NEW R \in Imports, Import(o, R)
    PROVE  \E S \in SUBSET page'[o].items :
             /\ page' = [page EXCEPT ![o] =
                            [items |-> S, imported |-> TRUE, records |-> R]]
             /\ page'[o].items = S
             /\ \A i \in S : \E r \in R, group \in Groups \cup {NoGroup} :
                  ImportedItem(i, o, r, group)
  <1> DEFINE moves(r) == {i \in Found(r.name, page[o].items) : i.groupid # r.groupid}
             old(g, r) == {[i EXCEPT !.groupid = r.groupid, !.group = g[r]] :
                              i \in moves(r)}
             new(g) == {[id |-> NoId, name |-> r.name, groupid |-> r.groupid,
                         group |-> g[r]] :
                           r \in {q \in R : Found(q.name, page[o].items) = {}}}
  <1>1. PICK kept \in SUBSET page[o].items, g \in [R -> Groups \cup {NoGroup}] :
            page' = [page EXCEPT ![o] =
                       [items |-> kept \cup (UNION {old(g, r) : r \in R}) \cup new(g),
                        imported |-> TRUE, records |-> R]]
    <2> DEFINE stays(i) == /\ page[o].imported
                           /\ \A r \in R : i \in Found(r.name, page[o].items) =>
                                 i.id = NoId /\ i.groupid = r.groupid
    <2>1. {i \in page[o].items : stays(i)} \in SUBSET page[o].items
      OBVIOUS
    <2>2. \E g \in [R -> Groups \cup {NoGroup}] :
            page' = [page EXCEPT ![o] =
                       [items |-> {i \in page[o].items : stays(i)}
                                    \cup (UNION {old(g, r) : r \in R}) \cup new(g),
                        imported |-> TRUE, records |-> R]]
      BY DEF Import
    <2> HIDE DEF stays, old, new
    <2> QED
      BY <2>1, <2>2
  <1> DEFINE items == kept \cup (UNION {old(g, r) : r \in R}) \cup new(g)
  <1>2. \A i \in items : \/ i \in kept
                         \/ \E r \in R : i \in old(g, r)
                         \/ i \in new(g)
    <2>1. \A i \in UNION {old(g, r) : r \in R} : \E r \in R : i \in old(g, r)
      <3> HIDE DEF old
      <3> QED
        OBVIOUS
    <2> HIDE DEF old, new
    <2> QED
      BY <2>1
  <1>3. ASSUME NEW i \in items
        PROVE  \E r \in R, group \in Groups \cup {NoGroup} :
                   ImportedItem(i, o, r, group)
    <2>1. CASE i \in kept
      <3>1. R # {}
        BY DEF Import
      <3> QED
        BY <2>1, <3>1 DEF ImportedItem
    <2>2. ASSUME NEW r \in R, i \in old(g, r)
          PROVE  ImportedItem(i, o, r, g[r])
      <3>1. Found(r.name, page[o].items) \subseteq page[o].items
        BY DEF Found
      <3> QED
        BY <2>2, <3>1 DEF ImportedItem
    <2>3. CASE i \in new(g)
      BY <2>3 DEF ImportedItem
    <2> QED
      BY <1>2, <1>3, <2>1, <2>2, <2>3
  <1>4. page'[o].items = items
    <2> HIDE DEF items
    <2> QED
      BY <1>1 DEF TInv, TypeOK, items
  <1>5. page' = [page EXCEPT ![o] = [items |-> items, imported |-> TRUE, records |-> R]]
    BY <1>1
  <1> HIDE DEF items
  <1> QED
    BY <1>3, <1>4, <1>5

LEMMA ImportTyped ==
    ASSUME TInv, NEW o \in Operators, NEW R \in Imports, Import(o, R)
    PROVE  TInv'
  <1>1. R \subseteq Record /\ page[o].items \subseteq Item
    BY ImportsAssumption DEF TInv, TypeOK, Page
  <1>2. PICK S \in SUBSET page'[o].items :
             /\ page' = [page EXCEPT ![o] =
                            [items |-> S, imported |-> TRUE, records |-> R]]
             /\ page'[o].items = S
             /\ \A i \in S : \E r \in R, group \in Groups \cup {NoGroup} :
                  ImportedItem(i, o, r, group)
    BY ImportItems
  <1>3. ASSUME NEW i, NEW r \in R, NEW group \in Groups \cup {NoGroup},
               ImportedItem(i, o, r, group)
        PROVE  i \in Item
    <2>1. r.name \in Names /\ r.groupid \in GroupIds
      BY <1>1 DEF Record
    <2>2. ASSUME NEW j \in page[o].items
          PROVE  [j EXCEPT !.groupid = r.groupid, !.group = group] \in Item
      BY <1>1, <2>1 DEF Item
    <2>3. [id |-> NoId, name |-> r.name, groupid |-> r.groupid, group |-> group]
              \in Item
      BY <2>1 DEF Item
    <2> QED
      BY <1>1, <1>3, <2>2, <2>3 DEF ImportedItem
  <1>4. [items |-> S, imported |-> TRUE, records |-> R] \in Page
    BY <1>1, <1>2, <1>3 DEF Page
  <1>5. /\ UNCHANGED <<rows, req, turns, want, moved, top, asked>>
        /\ fresh' \in {fresh, fresh \ {o}}
    BY DEF Import
  <1> QED
    BY <1>2, <1>4, <1>5 DEF TInv, TypeOK, HasTarget

\* What was asked for on a page, and the page with an item edited or deleted.
LEMMA NotedTyped ==
    ASSUME TypeOK, NEW o \in Operators, NEW gone, NEW new \in SUBSET Record
    PROVE  Noted(o, gone, new) \in SUBSET Record
  BY DEF Noted, TypeOK, Page

LEMMA EditedPage ==
    ASSUME TypeOK, NEW o \in Operators, NEW S, NEW R,
           page' = [page EXCEPT ![o].items = S, ![o].records = R]
    PROVE  /\ page'[o].items = S /\ page'[o].records = R
           /\ page'[o].imported = page[o].imported
           /\ \A q \in Operators : q # o => page'[q] = page[q]
           /\ S \in SUBSET Item /\ R \in SUBSET Record =>
                page' \in [Operators -> Page]
  <1> DEFINE was == page[o]
             now == [was EXCEPT !.items = S, !.records = R]
  <1>1. was \in Page /\ page \in [Operators -> Page]
    BY DEF TypeOK
  <1>2. /\ now.items = S /\ now.records = R /\ now.imported = was.imported
        /\ S \in SUBSET Item /\ R \in SUBSET Record => now \in Page
    BY <1>1 DEF Page
  <1>3. page' = [page EXCEPT ![o] = now]
    BY <1>1
  <1> HIDE DEF now
  <1>4. page'[o] = now /\ \A q \in Operators : q # o => page'[q] = page[q]
    BY <1>1, <1>3
  <1>5. now \in Page => page' \in [Operators -> Page]
    BY <1>1, <1>3
  <1> QED
    BY <1>2, <1>4, <1>5

LEMMA UpdateDataTyped ==
    ASSUME TInv, NEW o \in Operators, NEW i \in page[o].items,
           NEW n \in Names, NEW g \in Groups, UpdateData(o, i, n, g)
    PROVE  TInv'
  <1> DEFINE edited == [i EXCEPT !.name = n, !.group = g]
             S == (page[o].items \ {i}) \cup {edited}
             new == {[name |-> n, groupid |-> g]}
             R == Noted(o, {i.name, n}, new)
             kept == IF i.id # NoId /\ \A j \in page[o].items : j.name = n => j = i
                     THEN {o} ELSE {}
  <1>1. i \in Item /\ edited \in Item /\ page[o].items \subseteq Item
    <2>1. page[o].items \subseteq Item
      BY DEF TInv, TypeOK, Page
    <2> QED
      BY <2>1 DEF Item
  <1>2. SaveTag(edited, n # i.name)
    BY DEF UpdateData
  <1>3. page' = [page EXCEPT ![o].items = S, ![o].records = R] /\ UNCHANGED req
    BY DEF UpdateData
  <1>4. Asks(o \in fresh /\ (n = i.name \/ n \notin LiveNames),
             [want EXCEPT ![i.name] = NoGroup, ![n] = g], kept)
    BY DEF UpdateData
  <1>5. [want EXCEPT ![i.name] = NoGroup, ![n] = g]
            \in [Names -> Groups \cup {NoGroup}]
    BY DEF TInv, TypeOK
  <1>6. S \in SUBSET Item /\ new \in SUBSET Record
    BY <1>1, GroupsAssumption DEF Record
  <1> HIDE DEF edited, S, new, kept
  <1>7. R \in SUBSET Record
    BY <1>6, NotedTyped DEF TInv
  <1> HIDE DEF R
  <1>8. page' \in [Operators -> Page]
    BY <1>3, <1>6, <1>7, EditedPage DEF TInv
  <1>9. rows' \in [Ids -> Row \cup {NoRow}] /\ moved' \in BOOLEAN /\ top' \in Nat
    BY <1>1, <1>2, SaveTyped DEF TInv
  <1>10. /\ asked' \in 0 .. MaxAsked /\ turns' \in BOOLEAN
         /\ want' \in [Names -> Groups \cup {NoGroup}]
         /\ fresh' \in SUBSET Operators
    BY <1>4, <1>5, AsksTyped DEF TInv
  <1> QED
    BY <1>3, <1>8, <1>9, <1>10 DEF TInv, TypeOK, HasTarget

LEMMA DeleteTyped ==
    ASSUME TInv,
           \/ \E o \in Operators : \E i \in page[o].items : DeleteDataByID(o, i)
           \/ \E n \in Names : DeleteDataByField(n)
           \/ \E S \in SUBSET Names : DeleteTagNames(S)
    PROVE  TInv'
  <1>1. ASSUME NEW o \in Operators, NEW i \in page[o].items, DeleteDataByID(o, i)
        PROVE  TInv'
    <2>1. [want EXCEPT ![i.name] = NoGroup] \in [Names -> Groups \cup {NoGroup}]
      BY DEF TInv, TypeOK
    <2>2. /\ asked' \in 0 .. MaxAsked /\ turns' \in BOOLEAN
          /\ want' \in [Names -> Groups \cup {NoGroup}]
          /\ fresh' \in SUBSET Operators
      <3>1. Asks(o \in fresh, [want EXCEPT ![i.name] = NoGroup], {o})
        BY <1>1 DEF DeleteDataByID
      <3> QED
        BY <2>1, <3>1, MaxAskedAssumption DEF Asks, Nothing, TInv, TypeOK
    <2>3. rows' \in [Ids -> Row \cup {NoRow}]
      BY <1>1 DEF TInv, TypeOK, DeleteDataByID
    <2>4. page' \in [Operators -> Page]
      <3> DEFINE T == {j \in page[o].items : j.id # i.id}
                 R == Noted(o, {i.name}, {})
      <3>1. T \in SUBSET Item /\ R \in SUBSET Record
        BY NotedTyped DEF TInv, TypeOK, Page
      <3>2. page' = [page EXCEPT ![o].items = T, ![o].records = R]
        BY <1>1 DEF DeleteDataByID
      <3> HIDE DEF T, R
      <3> QED
        BY <3>1, <3>2, EditedPage DEF TInv
    <2>5. UNCHANGED <<req, moved, top>>
      BY <1>1 DEF DeleteDataByID
    <2> QED
      BY <2>2, <2>3, <2>4, <2>5 DEF TInv, TypeOK, HasTarget
  <1>2. ASSUME NEW n \in Names, DeleteDataByField(n)
        PROVE  TInv'
    <2>1. [want EXCEPT ![n] = NoGroup] \in [Names -> Groups \cup {NoGroup}]
      BY DEF TInv, TypeOK
    <2>2. /\ asked' \in 0 .. MaxAsked /\ turns' \in BOOLEAN
          /\ want' \in [Names -> Groups \cup {NoGroup}]
          /\ fresh' \in SUBSET Operators
      BY <1>2, <2>1, AsksTyped DEF TInv, DeleteDataByField
    <2> QED
      BY <1>2, <2>2 DEF TInv, TypeOK, HasTarget, DeleteDataByField
  <1>3. ASSUME NEW S \in SUBSET Names, DeleteTagNames(S)
        PROVE  TInv'
    <2>1. [n \in Names |-> IF n \in S THEN NoGroup ELSE want[n]]
              \in [Names -> Groups \cup {NoGroup}]
      BY DEF TInv, TypeOK
    <2>2. /\ asked' \in 0 .. MaxAsked /\ turns' \in BOOLEAN
          /\ want' \in [Names -> Groups \cup {NoGroup}]
          /\ fresh' \in SUBSET Operators
      BY <1>3, <2>1, AsksTyped DEF TInv, DeleteTagNames
    <2>3. rows' \in [Ids -> Row \cup {NoRow}]
      <3>1. \A id \in Used : [rows[id] EXCEPT !.live = FALSE] \in Row
        <4>1. \A id \in Used : rows[id] \in Row
          BY DEF TInv, TypeOK, Used
        <4> QED
          BY <4>1 DEF Row
      <3> QED
        BY <1>3, <3>1 DEF TInv, TypeOK, DeleteTagNames
    <2> QED
      BY <1>3, <2>2, <2>3 DEF TInv, TypeOK, HasTarget, DeleteTagNames
  <1> QED
    BY <1>1, <1>2, <1>3

\* A request that begins: what it has to do is typed, the rest is kept.
LEMMA GotoTyped ==
    ASSUME TInv, NEW r \in Requests, NEW names \in SUBSET Names,
           NEW items \in SUBSET Item, NEW move \in SUBSET Names,
           NEW to \in Groups \cup {NoGroup}, Goto(r, names, items, move, to),
           move # {} => to \in Groups,
           rows' \in [Ids -> Row \cup {NoRow}], UNCHANGED page,
           moved' \in BOOLEAN, top' \in Nat, asked' \in 0 .. MaxAsked,
           turns' \in BOOLEAN, want' \in [Names -> Groups \cup {NoGroup}],
           fresh' \in SUBSET Operators
    PROVE  TInv'
  <1>1. [names |-> names, items |-> items, move |-> move, to |-> to]
            \in [names : SUBSET Names, items : SUBSET Item,
                 move : SUBSET Names, to : Groups \cup {NoGroup}]
    OBVIOUS
  <1>2. req' \in [Requests -> [names : SUBSET Names, items : SUBSET Item,
                               move : SUBSET Names, to : Groups \cup {NoGroup}]]
    BY <1>1 DEF Goto, TInv, TypeOK
  <1>3. HasTarget'
    BY DEF Goto, TInv, TypeOK, HasTarget
  <1> QED
    BY <1>2, <1>3 DEF TInv, TypeOK

LEMMA PostTyped ==
    ASSUME TInv, NEW r \in Requests,
           \/ \E S \in SUBSET Names : PostTagNames(r, S)
           \/ \E o \in Operators : PostTagChanges(r, o)
           \/ \E S \in SUBSET Names, g \in Groups : PostGroupAddTag(r, S, g)
    PROVE  TInv'
  <1>1. ASSUME NEW S \in SUBSET Names, PostTagNames(r, S)
        PROVE  TInv'
    <2> DEFINE items == {[id |-> NoId, name |-> n, groupid |-> Default,
                          group |-> NoGroup] : n \in S \ LiveNames}
               wanted == [n \in Names |-> IF n \in S /\ want[n] = NoGroup
                                          THEN Default ELSE want[n]]
    <2>1. items \in SUBSET Item /\ LiveNames \in SUBSET Names
      BY GroupsAssumption DEF Item, LiveNames
    <2>2. wanted \in [Names -> Groups \cup {NoGroup}]
      BY GroupsAssumption DEF TInv, TypeOK
    <2>3. /\ Goto(r, LiveNames, items, {}, NoGroup)
          /\ Asks(TRUE, wanted, IF S \subseteq LiveNames THEN Operators ELSE {})
          /\ UNCHANGED <<rows, page, moved, top>>
      BY <1>1 DEF PostTagNames
    <2> HIDE DEF items, wanted
    <2>4. /\ asked' \in 0 .. MaxAsked /\ turns' \in BOOLEAN
          /\ want' \in [Names -> Groups \cup {NoGroup}]
          /\ fresh' \in SUBSET Operators
      BY <2>2, <2>3, AsksTyped DEF TInv
    <2> QED
      BY <2>1, <2>3, <2>4, GotoTyped DEF TInv, TypeOK
  \* As long as the operators take turns, every group of the file is known.
  <1>2. ASSUME NEW o \in Operators, PostTagChanges(r, o)
        PROVE  TInv'
    <2> DEFINE R == page[o].records
               ok == o \in fresh /\ \A q \in R : q.groupid \in Groups
               wanted == [n \in Names |->
                    IF \E q \in R : q.name = n /\ q.groupid \in Groups
                    THEN (CHOOSE q \in R : q.name = n).groupid ELSE want[n]]
               kept == IF \A i \in page[o].items : i.id # NoId THEN {o} ELSE {}
    <2>1. page[o].items \in SUBSET Item /\ LiveNames \in SUBSET Names
      BY DEF TInv, TypeOK, LiveNames, Page
    <2>2. /\ Goto(r, LiveNames, page[o].items, {}, NoGroup)
          /\ Asks(ok, wanted, kept)
          /\ UNCHANGED <<rows, page, moved, top>>
      BY <1>2 DEF PostTagChanges
    <2>3. ok => wanted \in [Names -> Groups \cup {NoGroup}]
      <3> SUFFICES ASSUME \A q \in R : q.groupid \in Groups, NEW n \in Names
                   PROVE  wanted[n] \in Groups \cup {NoGroup}
        OBVIOUS
      <3>1. (\E q \in R : q.name = n) => (CHOOSE q \in R : q.name = n) \in R
        OBVIOUS
      <3> QED
        BY <3>1 DEF TInv, TypeOK
    <2> HIDE DEF ok, wanted, R, kept
    <2>4. /\ asked' \in 0 .. MaxAsked /\ turns' \in BOOLEAN
          /\ fresh' \in SUBSET Operators
      BY <2>2, MaxAskedAssumption DEF Asks, TInv, TypeOK
    <2>5. want' \in [Names -> Groups \cup {NoGroup}]
      <3>1. CASE turns'
        BY <2>2, <2>3, <3>1 DEF Asks
      <3>2. CASE ~turns'
        BY <2>2, <3>2 DEF Asks, Nothing
      <3> QED
        BY <3>1, <3>2
    <2> QED
      BY <2>1, <2>2, <2>4, <2>5, GotoTyped DEF TInv, TypeOK
  <1>3. ASSUME NEW S \in SUBSET Names, NEW g \in Groups, PostGroupAddTag(r, S, g)
        PROVE  TInv'
    <2> DEFINE wanted == [n \in Names |-> IF n \in S /\ want[n] # NoGroup
                                          THEN g ELSE want[n]]
    <2>1. wanted \in [Names -> Groups \cup {NoGroup}]
      BY DEF TInv, TypeOK
    <2>2. /\ Goto(r, {}, {}, S, g)
          /\ Asks(TRUE, wanted, {})
          /\ UNCHANGED <<rows, page, moved, top>>
      BY <1>3 DEF PostGroupAddTag
    <2> HIDE DEF wanted
    <2>3. /\ asked' \in 0 .. MaxAsked /\ turns' \in BOOLEAN
          /\ want' \in [Names -> Groups \cup {NoGroup}]
          /\ fresh' \in SUBSET Operators
      BY <2>1, <2>2, AsksTyped DEF TInv
    <2> QED
      BY <2>2, <2>3, GotoTyped DEF TInv, TypeOK
  <1> QED
    BY <1>1, <1>2, <1>3

LEMMA SaveItemTyped ==
    ASSUME TInv, NEW r \in Requests, SaveItem(r)
    PROVE  TInv'
  <1>1. PICK i \in req[r].items :
          /\ IF i.name \in req[r].names THEN SaveTag(i, FALSE)
             ELSE Create([i EXCEPT !.groupid = IF @ = NoGroup THEN Default ELSE @])
          /\ req' = [req EXCEPT ![r].items = @ \ {i}]
    BY DEF SaveItem
  <1> DEFINE j == [i EXCEPT !.groupid = IF @ = NoGroup THEN Default ELSE @]
  <1>2. i \in Item /\ j \in Item
    <2>1. i \in Item
      BY DEF TInv, TypeOK
    <2> QED
      BY <2>1, GroupsAssumption DEF Item
  <1> HIDE DEF j
  <1>3. rows' \in [Ids -> Row \cup {NoRow}] /\ moved' \in BOOLEAN /\ top' \in Nat
    <2>1. CASE SaveTag(i, FALSE)
      BY <1>2, <2>1, SaveTyped DEF TInv
    <2>2. CASE Create(j)
      BY <1>2, <2>2, SaveTyped DEF TInv
    <2> QED
      BY <1>1, <2>1, <2>2 DEF j
  <1>4. UNCHANGED <<page, fresh, turns, want, asked>>
    BY DEF SaveItem
  <1> DEFINE Work == [names : SUBSET Names, items : SUBSET Item,
                      move : SUBSET Names, to : Groups \cup {NoGroup}]
             left == [req[r] EXCEPT !.items = @ \ {i}]
  <1>5. req \in [Requests -> Work] /\ req' = [req EXCEPT ![r] = left]
    BY <1>1 DEF TInv, TypeOK
  <1>6. left \in Work /\ left.move = req[r].move /\ left.to = req[r].to
    BY <1>5
  <1> HIDE DEF left
  <1>7. HasTarget'
    BY <1>5, <1>6 DEF TInv, HasTarget
  <1>8. req' \in [Requests -> Work]
    BY <1>5, <1>6
  <1>9. TypeOK'
    BY <1>3, <1>4, <1>8 DEF TInv, TypeOK
  <1> QED
    BY <1>7, <1>9 DEF TInv

LEMMA TakeTagTyped ==
    ASSUME TInv, NEW r \in Requests, TakeTag(r)
    PROVE  TInv'
  <1>1. PICK n \in req[r].move :
          \/ \E id \in Live(n) :
               Goto(r, {n}, {[ItemOf(id) EXCEPT !.groupid = req[r].to,
                                               !.group = NoGroup]},
                    req[r].move \ {n}, req[r].to)
          \/ Goto(r, {}, {}, req[r].move \ {n}, req[r].to)
    BY DEF TakeTag
  <1>2. /\ n \in Names /\ req[r].to \in Groups
        /\ req[r].move \ {n} \in SUBSET Names
    BY DEF TInv, TypeOK, HasTarget
  <1>3. UNCHANGED <<rows, page, fresh, turns, want, moved, top, asked>>
    BY DEF TakeTag
  <1>4. ASSUME NEW id \in Live(n)
        PROVE  [ItemOf(id) EXCEPT !.groupid = req[r].to, !.group = NoGroup] \in Item
    <2>1. ItemOf(id) \in Item
      BY ItemOfTyped DEF TInv, Live
    <2> QED
      BY <1>2, <2>1, GroupsAssumption DEF Item
  <1> QED
    BY <1>1, <1>2, <1>3, <1>4, GotoTyped DEF TInv, TypeOK

LEMMA NextTyped == TInv /\ [Next]_vars => TInv'
  <1>1. TInv /\ UNCHANGED vars => TInv'
    BY DEF TInv, TypeOK, HasTarget, vars
  <1> QED
    BY <1>1, UpdateTyped, ImportTyped, UpdateDataTyped, DeleteTyped, PostTyped,
       SaveItemTyped, TakeTagTyped DEF Next

\* The table, the pages and the requests have their types at any moment: no
\* tag is written with a group id that no row or file may hold.
THEOREM TypeCorrect == Spec => []TypeOK
  <1>1. TInv => TypeOK
    BY DEF TInv
  <1> QED
    BY <1>1, InitTyped, NextTyped, PTL DEF Spec
-----------------------------------------------------------------------------
(***************************************************************************)
(* NoTagIsLost.  Whatever a page or a request holds, its key is one that   *)
(* was given, and until a key is given again or a tag renamed the row with *)
(* that key, if there still is one, is the row of the same tag.            *)
(***************************************************************************)
Known(i) ==
    i.id # NoId => /\ i.id <= top
                   /\ ~moved /\ i.id \in Used => rows[i.id].name = i.name

Keys ==
    /\ \A id \in Used : id <= top
    /\ \A o \in Operators : \A i \in page[o].items : Known(i)
    /\ \A r \in Requests : \A i \in req[r].items : Known(i)

\* What a step may do to the table: keys up to top keep their tags.
Careful ==
    /\ top \in Nat /\ top' \in Nat /\ top <= top'
    /\ \A id \in Used' : id <= top'
    /\ moved => moved'
    /\ ~moved' => \A id \in Used' : id <= top =>
                     id \in Used /\ rows'[id].name = rows[id].name

LEMMA InitKeys == Init => Keys
  BY DEF Init, Keys, Used, Idle

LEMMA KnownKept ==
    ASSUME Careful, NEW i \in Item, Known(i)
    PROVE  Known(i)'
  <1>1. CASE i.id = NoId
    BY <1>1 DEF Known
  <1>2. CASE i.id # NoId
    <2>1. i.id \in Nat /\ i.id <= top
      BY <1>2, IdsAssumption DEF Item, Known
    <2>2. i.id <= top'
      BY <2>1 DEF Careful
    <2>3. ~moved' /\ i.id \in Used' => rows'[i.id].name = i.name
      BY <1>2, <2>1 DEF Careful, Known
    <2> QED
      BY <2>2, <2>3 DEF Known
  <1> QED
    BY <1>1, <1>2

\* A tag that is saved, by its own name, or renamed and so said to be.
LEMMA SaveCareful ==
    ASSUME TInv, Keys, NEW i \in Item, NEW renamed \in BOOLEAN,
           i.id # NoId => i.id <= top,
           ~renamed => Known(i),
           SaveTag(i, renamed) \/ Create(i)
    PROVE  /\ Careful
           /\ ~moved' => \A n \in Names : Live(n) # {} => Live(n)' # {}
  <1>1. /\ top \in Nat /\ Ids \subseteq Nat
        /\ rows \in [Ids -> Row \cup {NoRow}]
        /\ i.id # NoId => i.id \in Ids
        /\ \A id \in Used : id <= top
    BY IdsAssumption DEF TInv, TypeOK, Item, Keys
  <1>2. /\ Stored(i) # NoRow /\ Stored(i).name = i.name /\ Stored(i).live
    BY StoredIsRow, NoRowAssumption DEF Stored
  <1>3. CASE NotWritten(renamed) \/ NotWritten(FALSE)
    <2>1. UNCHANGED <<rows, top>> /\ (moved => moved')
      BY <1>3 DEF NotWritten
    <2>2. Careful
      BY <1>1, <2>1 DEF Careful, Used
    <2> QED
      BY <2>1, <2>2 DEF Used, Live
  <1>4. CASE i.id \in Used /\ Overwrite(i, renamed)
    <2>1. /\ rows' = [rows EXCEPT ![i.id] = Stored(i)] /\ top' = top
          /\ moved' = (moved \/ renamed)
      BY <1>4 DEF Overwrite
    <2>2. Used' = Used /\ i.id \in Ids
      BY <1>1, <1>2, <1>4, <2>1 DEF Used
    <2>3. ~moved' => ~moved /\ rows[i.id].name = i.name
      BY <1>4, <2>1, IdsAssumption DEF Known, Used
    <2>4. ~moved' => \A id \in Used : rows'[id].name = rows[id].name
      BY <1>1, <1>2, <2>1, <2>3 DEF Used
    <2>5. Careful
      <3>1. moved => moved'
        BY <2>1, Zenon
      <3>2. top <= top'
        BY <1>1, <2>1
      <3> QED
        BY <1>1, <2>1, <2>2, <2>4, <3>1, <3>2 DEF Careful
    <2>6. ASSUME ~moved', NEW n \in Names, NEW id \in Live(n)
          PROVE  id \in Live(n)'
      BY <1>1, <1>2, <2>1, <2>2, <2>4, <2>6 DEF Live
    <2> QED
      BY <2>5, <2>6
  <1>5. ASSUME NEW id \in Ids, id \notin Used, Insert(id, i)
        PROVE  /\ Careful
               /\ ~moved' => \A n \in Names : Live(n) # {} => Live(n)' # {}
    <2>1. /\ rows' = [rows EXCEPT ![id] = Stored(i)]
          /\ moved' = (moved \/ id <= top)
          /\ top' = IF id > top THEN id ELSE top
      BY <1>5 DEF Insert
    <2>2. Used' = Used \cup {id}
      BY <1>1, <1>2, <2>1 DEF Used
    <2>3. \A k \in Used : rows'[k] = rows[k]
      BY <1>1, <1>5, <2>1 DEF Used
    <2>4. top' \in Nat /\ top <= top' /\ id <= top'
      BY <1>1, <2>1
    <2>5. \A k \in Used' : k <= top'
      <3>1. \A k \in Used : k \in Nat
        BY <1>1 DEF Used
      <3> QED
        BY <1>1, <2>2, <2>4, <3>1
    <2>6. Careful
      BY <1>1, <2>1, <2>2, <2>3, <2>4, <2>5 DEF Careful
    <2>7. \A n \in Names : Live(n) \subseteq Live(n)'
      BY <2>2, <2>3 DEF Live
    <2> QED
      BY <2>6, <2>7
  <1>6. \A id \in Ids : IsNext(id) => id \notin Used
    BY <1>1 DEF IsNext
  <1> QED
    BY <1>1, <1>3, <1>4, <1>5, <1>6 DEF SaveTag, Create, Used

\* A page that renames a tag says so, unless the row is a new one.
LEMMA RenameSaid ==
    ASSUME TInv, Keys, NEW i \in Item, SaveTag(i, TRUE), i.id # NoId,
           i.id <= top
    PROVE  moved'
  <1>1. Overwrite(i, TRUE) \/ NotWritten(TRUE) \/ Insert(i.id, i)
    BY DEF SaveTag, Create, Used, Item
  <1> QED
    BY <1>1 DEF Insert, Overwrite, NotWritten

\* A step that only takes rows away, or marks them.
LEMMA DeleteCareful ==
    ASSUME TInv, Keys, UNCHANGED <<top, moved>>,
           \A id \in Used' : id \in Used /\ rows'[id].name = rows[id].name
    PROVE  Careful
  BY DEF Careful, TInv, TypeOK, Keys

\* What is held of the rows that are read.
LEMMA ItemOfKnown ==
    ASSUME TInv, Keys, NEW id \in Used
    PROVE  /\ ItemOf(id).id = id /\ ItemOf(id).name = rows[id].name
           /\ Known(ItemOf(id))
  BY DEF ItemOf, Known, Keys

LEMMA KeysKept ==
    ASSUME TInv', Keys, Careful,
           \A o \in Operators : \A i \in page'[o].items : Known(i) \/ Known(i)',
           \A r \in Requests : \A i \in req'[r].items : Known(i) \/ Known(i)'
    PROVE  Keys'
  <1>1. \A o \in Operators : page'[o].items \subseteq Item
    BY DEF TInv, TypeOK, Page
  <1>2. \A r \in Requests : req'[r].items \subseteq Item
    BY DEF TInv, TypeOK
  <1>3. \A i \in Item : Known(i) => Known(i)'
    BY KnownKept
  <1>4. \A id \in Used' : id <= top'
    BY DEF Careful
  <1> QED
    BY <1>1, <1>2, <1>3, <1>4 DEF Keys

\* What NoTagIsLost says of a step.
Deleted(n) ==
    \/ DeleteDataByField(n)
    \/ \E S \in SUBSET Names : n \in S /\ DeleteTagNames(S)
    \/ \E o \in Operators : \E i \in page[o].items :
           i.name = n /\ DeleteDataByID(o, i)

NoneLost ==
    ~moved' => \A n \in Names :
        Live(n) # {} /\ Live(n)' = {} => Deleted(n)

\* Reading the table, importing a file and posting a request write nothing.
LEMMA ReadKeys ==
    ASSUME TInv, TInv', Keys, UNCHANGED <<rows, moved, top>>,
           \A o \in Operators : \A i \in page'[o].items : Known(i),
           \A r \in Requests : \A i \in req'[r].items : Known(i)
    PROVE  Keys' /\ NoneLost
  <1>1. Used' = Used
    BY DEF Used
  <1>2. Careful
    BY <1>1, DeleteCareful
  <1>3. \A n \in Names : Live(n)' = Live(n)
    BY <1>1 DEF Live
  <1> QED
    BY <1>2, <1>3, KeysKept DEF NoneLost

LEMMA UpdateKeys ==
    ASSUME TInv, TInv', Keys, NEW o \in Operators, Update(o)
    PROVE  Keys' /\ NoneLost
  <1>1. \A q \in Operators : \A i \in page'[q].items : Known(i)
    BY ItemOfKnown DEF Update, Keys, TInv, TypeOK
  <1> QED
    BY <1>1, ReadKeys DEF Update, Keys

LEMMA ImportKeys ==
    ASSUME TInv, TInv', Keys, NEW o \in Operators, NEW R \in Imports, Import(o, R)
    PROVE  Keys' /\ NoneLost
  <1>1. PICK S \in SUBSET page'[o].items :
             /\ page' = [page EXCEPT ![o] =
                            [items |-> S, imported |-> TRUE, records |-> R]]
             /\ page'[o].items = S
             /\ \A i \in S : \E r \in R, group \in Groups \cup {NoGroup} :
                  ImportedItem(i, o, r, group)
    BY ImportItems
  <1>2. ASSUME NEW i \in S
        PROVE  \/ i.id = NoId
               \/ \E j \in page[o].items : i.id = j.id /\ i.name = j.name
    <2>1. page[o].items \subseteq Item
      BY DEF TInv, TypeOK, Page
    <2>2. ASSUME NEW j \in page[o].items, NEW r, NEW group
          PROVE  LET k == [j EXCEPT !.groupid = r.groupid, !.group = group]
                 IN  k.id = j.id /\ k.name = j.name
      BY <2>1 DEF Item
    <2>3. PICK r \in R, group \in Groups \cup {NoGroup} :
              ImportedItem(i, o, r, group)
      BY <1>1
    <2>4. CASE \E j \in page[o].items :
                  i = [j EXCEPT !.groupid = r.groupid, !.group = group]
      BY <2>2, <2>4
    <2>5. CASE i = [id |-> NoId, name |-> r.name, groupid |-> r.groupid,
                    group |-> group]
      BY <2>5
    <2> QED
      BY <2>3, <2>4, <2>5 DEF ImportedItem
  <1>3. \A i \in S : Known(i)
    BY <1>2 DEF Keys, Known
  <1>4. \A q \in Operators : page'[q].items = IF q = o THEN S ELSE page[q].items
    BY <1>1 DEF TInv, TypeOK
  <1> QED
    BY <1>3, <1>4, ReadKeys DEF Import, Keys

\* Saving an edited item: what was not renamed keeps its name.
LEMMA UpdateDataKeys ==
    ASSUME TInv, TInv', Keys, NEW o \in Operators, NEW i \in page[o].items,
           NEW n \in Names, NEW g \in Groups, UpdateData(o, i, n, g)
    PROVE  Keys' /\ NoneLost
  <1> DEFINE edited == [i EXCEPT !.name = n, !.group = g]
             S == (page[o].items \ {i}) \cup {edited}
             R == Noted(o, {i.name, n}, {[name |-> n, groupid |-> g]})
  <1>1. /\ edited \in Item /\ edited.id = i.id /\ edited.name = n
        /\ Known(i)
    <2>1. page[o].items \subseteq Item
      BY DEF TInv, TypeOK, Page
    <2> QED
      BY <2>1 DEF Item, Keys
  <1>2. /\ SaveTag(edited, n # i.name)
        /\ page' = [page EXCEPT ![o].items = S, ![o].records = R]
        /\ UNCHANGED req
    BY DEF UpdateData
  <1> HIDE DEF edited, R
  <1>3. edited.id # NoId => edited.id <= top
    BY <1>1 DEF Known
  <1>4. /\ Careful
        /\ ~moved' => \A m \in Names : Live(m) # {} => Live(m)' # {}
        /\ Known(edited) \/ Known(edited)'
    <2>1. CASE n = i.name
      <3>1. Known(edited) /\ SaveTag(edited, FALSE)
        BY <1>1, <1>2, <2>1 DEF Known
      <3> QED
        BY <1>1, <1>3, <3>1, SaveCareful
    <2>2. CASE n # i.name
      <3>1. SaveTag(edited, TRUE)
        BY <1>2, <2>2
      <3>2. /\ Careful
            /\ ~moved' => \A m \in Names : Live(m) # {} => Live(m)' # {}
        BY <1>1, <1>3, <3>1, SaveCareful
      <3>3. edited.id # NoId => moved'
        BY <1>1, <1>3, <3>1, RenameSaid
      <3>4. edited.id # NoId => edited.id \in Nat
        BY <1>1, IdsAssumption DEF Item
      <3>5. Known(edited)'
        BY <1>3, <3>2, <3>3, <3>4 DEF Known, Careful
      <3> QED
        BY <3>2, <3>5
    <2> QED
      BY <2>1, <2>2
  <1>5. \A q \in Operators : \A j \in page'[q].items : j = edited \/ Known(j)
    <2> HIDE DEF S
    <2>1. page'[o].items = S /\ \A q \in Operators : q # o => page'[q] = page[q]
      BY <1>2, EditedPage DEF TInv
    <2> QED
      BY <2>1 DEF Keys, S
  <1>6. Keys'
    BY <1>2, <1>4, <1>5, KeysKept DEF Keys
  <1> QED
    BY <1>4, <1>6 DEF NoneLost

\* A deletion takes the row of the tag it names.
LEMMA DeleteKeys ==
    ASSUME TInv, TInv', Keys,
           \/ \E o \in Operators : \E i \in page[o].items : DeleteDataByID(o, i)
           \/ \E n \in Names : DeleteDataByField(n)
           \/ \E S \in SUBSET Names : DeleteTagNames(S)
    PROVE  Keys' /\ NoneLost
  <1>0. rows \in [Ids -> Row \cup {NoRow}]
    BY DEF TInv, TypeOK
  <1>1. ASSUME NEW o \in Operators, NEW i \in page[o].items, DeleteDataByID(o, i)
        PROVE  Keys' /\ NoneLost
    <2>1. /\ i.id # NoId /\ rows' = [rows EXCEPT ![i.id] = NoRow]
          /\ UNCHANGED <<req, moved, top>>
      BY <1>1 DEF DeleteDataByID
    <2>2. Careful
      BY <1>0, <2>1, DeleteCareful DEF Used
    <2>3. \A q \in Operators : page'[q].items \subseteq page[q].items
      <3> DEFINE T == {j \in page[o].items : j.id # i.id}
                 R == Noted(o, {i.name}, {})
      <3>1. page' = [page EXCEPT ![o].items = T, ![o].records = R]
        BY <1>1 DEF DeleteDataByID
      <3>2. T \subseteq page[o].items
        OBVIOUS
      <3> HIDE DEF T, R
      <3>3. page'[o].items = T /\ \A q \in Operators : q # o => page'[q] = page[q]
        BY <3>1, EditedPage DEF TInv
      <3> QED
        BY <3>2, <3>3
    <2>4. Keys'
      BY <2>1, <2>2, <2>3, KeysKept DEF Keys
    <2>5. ASSUME ~moved', NEW n \in Names, Live(n) # {}, Live(n)' = {}
          PROVE  Deleted(n)
      <3>1. PICK id \in Live(n) : id \notin Live(n)'
        BY <2>5
      <3>2. id \in Used /\ id = i.id
        BY <1>0, <2>1, <3>1 DEF Live, Used
      <3>3. rows[i.id].name = i.name
        BY <2>1, <2>5, <3>2 DEF Keys, Known
      <3>4. i.name = n
        BY <3>1, <3>2, <3>3 DEF Live
      <3> QED
        BY <1>1, <3>4 DEF Deleted
    <2> QED
      BY <2>4, <2>5 DEF NoneLost
  <1>2. ASSUME NEW n \in Names, DeleteDataByField(n)
        PROVE  Keys' /\ NoneLost
    <2>1. /\ rows' = [id \in Ids |-> IF id \in Used /\ rows[id].name = n
                                     THEN NoRow ELSE rows[id]]
          /\ UNCHANGED <<page, req, moved, top>>
      BY <1>2 DEF DeleteDataByField
    <2>2. Careful
      BY <1>0, <2>1, DeleteCareful DEF Used
    <2>3. Keys'
      BY <2>1, <2>2, KeysKept DEF Keys
    <2>4. ASSUME NEW m \in Names, m # n
          PROVE  Live(m) \subseteq Live(m)'
      BY <1>0, <2>1, <2>4 DEF Live, Used
    <2> QED
      BY <1>2, <2>3, <2>4 DEF NoneLost, Deleted
  <1>3. ASSUME NEW S \in SUBSET Names, DeleteTagNames(S)
        PROVE  Keys' /\ NoneLost
    <2>1. /\ rows' = [id \in Ids |-> IF id \in Used /\ rows[id].name \in S
                                     THEN [rows[id] EXCEPT !.live = FALSE]
                                     ELSE rows[id]]
          /\ UNCHANGED <<page, req, moved, top>>
      BY <1>3 DEF DeleteTagNames
    <2>2. \A id \in Used : rows[id] \in Row
      BY <1>0 DEF Used
    <2>3. \A id \in Used' : id \in Used /\ rows'[id].name = rows[id].name
      BY <1>0, <2>1, <2>2 DEF Used, Row
    <2>4. Careful
      BY <2>1, <2>3, DeleteCareful
    <2>5. Keys'
      BY <2>1, <2>4, KeysKept DEF Keys
    <2>6. ASSUME NEW m \in Names, m \notin S
          PROVE  Live(m) \subseteq Live(m)'
      BY <1>0, <2>1, <2>6 DEF Live, Used
    <2> QED
      BY <1>3, <2>5, <2>6 DEF NoneLost, Deleted
  <1> QED
    BY <1>1, <1>2, <1>3

\* A request begins with the page's items or with new ones.
LEMMA PostKeys ==
    ASSUME TInv, TInv', Keys, NEW r \in Requests,
           \/ \E S \in SUBSET Names : PostTagNames(r, S)
           \/ \E o \in Operators : PostTagChanges(r, o)
           \/ \E S \in SUBSET Names, g \in Groups : PostGroupAddTag(r, S, g)
    PROVE  Keys' /\ NoneLost
  <1>1. ASSUME NEW names, NEW items, NEW move, NEW to,
               Goto(r, names, items, move, to), \A i \in items : Known(i),
               UNCHANGED <<rows, page, moved, top>>
        PROVE  Keys' /\ NoneLost
    <2>1. \A q \in Requests :
              req'[q].items = IF q = r THEN items ELSE req[q].items
      BY <1>1 DEF Goto, TInv, TypeOK
    <2> QED
      BY <1>1, <2>1, ReadKeys DEF Keys
  <1>2. ASSUME NEW S \in SUBSET Names, PostTagNames(r, S)
        PROVE  Keys' /\ NoneLost
    <2> DEFINE items == {[id |-> NoId, name |-> n, groupid |-> Default,
                          group |-> NoGroup] : n \in S \ LiveNames}
    <2>1. \A i \in items : Known(i)
      BY DEF Known
    <2>2. /\ Goto(r, LiveNames, items, {}, NoGroup)
          /\ UNCHANGED <<rows, page, moved, top>>
      BY <1>2 DEF PostTagNames
    <2> HIDE DEF items
    <2> QED
      BY <1>1, <2>1, <2>2
  <1>3. ASSUME NEW o \in Operators, PostTagChanges(r, o)
        PROVE  Keys' /\ NoneLost
    <2>1. /\ Goto(r, LiveNames, page[o].items, {}, NoGroup)
          /\ UNCHANGED <<rows, page, moved, top>>
      BY <1>3 DEF PostTagChanges
    <2>2. \A i \in page[o].items : Known(i)
      BY DEF Keys
    <2> QED
      BY <1>1, <2>1, <2>2
  <1>4. ASSUME NEW S \in SUBSET Names, NEW g \in Groups, PostGroupAddTag(r, S, g)
        PROVE  Keys' /\ NoneLost
    <2>1. Goto(r, {}, {}, S, g) /\ UNCHANGED <<rows, page, moved, top>>
      BY <1>4 DEF PostGroupAddTag
    <2> QED
      BY <1>1, <2>1
  <1> QED
    BY <1>2, <1>3, <1>4

LEMMA SaveItemKeys ==
    ASSUME TInv, TInv', Keys, NEW r \in Requests, SaveItem(r)
    PROVE  Keys' /\ NoneLost
  <1>1. PICK i \in req[r].items :
          /\ IF i.name \in req[r].names THEN SaveTag(i, FALSE)
             ELSE Create([i EXCEPT !.groupid = IF @ = NoGroup THEN Default ELSE @])
          /\ req' = [req EXCEPT ![r].items = @ \ {i}]
    BY DEF SaveItem
  <1> DEFINE j == [i EXCEPT !.groupid = IF @ = NoGroup THEN Default ELSE @]
  <1>2. /\ i \in Item /\ j \in Item /\ j.id = i.id /\ j.name = i.name
        /\ Known(i)
    <2>1. i \in Item
      BY DEF TInv, TypeOK
    <2> QED
      BY <2>1, GroupsAssumption DEF Item, Keys
  <1>3. SaveTag(i, FALSE) \/ Create(j)
    BY <1>1
  <1> HIDE DEF j
  <1>4. /\ Known(j)
        /\ i.id # NoId => i.id <= top
        /\ j.id # NoId => j.id <= top
    BY <1>2 DEF Known
  <1>5. /\ Careful
        /\ ~moved' => \A n \in Names : Live(n) # {} => Live(n)' # {}
    BY <1>2, <1>3, <1>4, SaveCareful
  <1>6. page' = page /\ \A q \in Requests : req'[q].items \subseteq req[q].items
    BY <1>1 DEF SaveItem, TInv, TypeOK
  <1>7. Keys'
    BY <1>5, <1>6, KeysKept DEF Keys
  <1> QED
    BY <1>5, <1>7 DEF NoneLost

LEMMA TakeTagKeys ==
    ASSUME TInv, TInv', Keys, NEW r \in Requests, TakeTag(r)
    PROVE  Keys' /\ NoneLost
  <1> DEFINE Taken(n, items, names) ==
                 /\ Goto(r, names, items, req[r].move \ {n}, req[r].to)
                 /\ \/ items = {}
                    \/ \E id \in Live(n) :
                         items = {[ItemOf(id) EXCEPT !.groupid = req[r].to,
                                                     !.group = NoGroup]}
  <1>0. PICK n \in req[r].move : \E items, names : Taken(n, items, names)
    BY DEF TakeTag
  <1>1. PICK items, names : Taken(n, items, names)
    BY <1>0
  <1>2. ASSUME NEW id \in Live(n)
        PROVE  Known([ItemOf(id) EXCEPT !.groupid = req[r].to, !.group = NoGroup])
    <2>1. ItemOf(id) \in Item /\ Known(ItemOf(id))
      BY ItemOfTyped, ItemOfKnown DEF TInv, Live
    <2> QED
      BY <2>1 DEF Item, Known
  <1>3. \A i \in items : Known(i)
    BY <1>1, <1>2
  <1>4. \A q \in Requests : req'[q].items = IF q = r THEN items ELSE req[q].items
    BY <1>1 DEF Goto, TInv, TypeOK
  <1>5. UNCHANGED <<rows, page, moved, top>>
    BY DEF TakeTag
  <1> QED
    BY <1>3, <1>4, <1>5, ReadKeys DEF Keys

LEMMA NextKeys == TInv /\ TInv' /\ Keys /\ [Next]_vars => Keys' /\ NoneLost
  <1> SUFFICES ASSUME TInv, TInv', Keys, [Next]_vars PROVE Keys' /\ NoneLost
    OBVIOUS
  <1>1. CASE UNCHANGED vars
    BY <1>1, ReadKeys DEF vars, Keys
  <1> QED
    BY <1>1, UpdateKeys, ImportKeys, UpdateDataKeys, DeleteKeys, PostKeys,
       SaveItemKeys, TakeTagKeys DEF Next

\* A tag is lost to a deletion that names it and to nothing else, as long as
\* no tag is renamed and no key given again (routes/opc.go 337-480,
\* routes/data.go), however many pages, files and requests there are.
THEOREM NothingElseLoses == Spec => NoTagIsLost
  <1>1. TInv /\ TInv' /\ Keys /\ [Next]_vars =>
          [~moved' => \A n \in Names :
             Live(n) # {} /\ Live(n)' = {} =>
                \/ DeleteDataByField(n)
                \/ \E S \in SUBSET Names : n \in S /\ DeleteTagNames(S)
                \/ \E o \in Operators : \E i \in page[o].items :
                       i.name = n /\ DeleteDataByID(o, i)]_vars
    BY NextKeys DEF NoneLost, Deleted
  <1> QED
    BY <1>1, InitTyped, NextTyped, InitKeys, NextKeys, PTL DEF Spec, NoTagIsLost

-----------------------------------------------------------------------------
(***************************************************************************)
(* AsAsked.  While the operators take turns, one request is at work at the *)
(* most, what it still has to do leads to what was asked for, and an       *)
(* up-to-date page holds the table as it is, or with an import laid over   *)
(* it; a request at work beside such a page leaves it so.                  *)
(***************************************************************************)
Agree(n) ==
    IF want[n] = NoGroup THEN Live(n) = {}
    ELSE \E id \in Ids : Live(n) = {id} /\ rows[id].group = want[n]

\* What SaveItem writes for an item that is not in the table.
WithGroup(i) == [i EXCEPT !.groupid = IF @ = NoGroup THEN Default ELSE @]

\* Each item of a request will write the one row of its tag, in its group.
ItemsLead(r) ==
    \A i \in req[r].items :
        /\ \A j \in req[r].items : j.name = i.name => j = i
        /\ i.name \notin req[r].move
        /\ want[i.name] # NoGroup
        /\ IF i.name \in req[r].names
           THEN Live(i.name) = {i.id} /\ Stored(i).group = want[i.name]
           ELSE /\ Live(i.name) = {} /\ i.id = NoId
                /\ Stored(WithGroup(i)).group = want[i.name]

\* Each tag that is still to be moved has one row, or was never there.
MovesLead(r) ==
    \A n \in req[r].move :
        IF want[n] = NoGroup THEN Live(n) = {}
        ELSE want[n] = req[r].to /\ \E id \in Ids : Live(n) = {id}

\* A page that nobody changed the table under.
UpToDate(o) ==
    LET items == page[o].items
        R == page[o].records
    IN  /\ \A i, j \in items : i.name = j.name => i = j
        /\ \A i \in items : IF i.id = NoId THEN Live(i.name) = {}
                            ELSE i.id \in Live(i.name)
        /\ ~page[o].imported =>
             /\ R = {}
             /\ \A i \in items : i.id # NoId /\ Stored(i) = rows[i.id]
             /\ \A n \in LiveNames : \E i \in items : i.name = n
        /\ \A q, r \in R : q.name = r.name => q = r
        /\ page[o].imported =>
             /\ \A i \in items : \E q \in R :
                    q.name = i.name /\ (q.groupid \in Groups => i.group = q.groupid)
             /\ \A q \in R : (\A i \in items : i.name # q.name) =>
                    \E id \in Live(q.name) : rows[id].group = q.groupid

\* To save i changes nothing that a true page says: it is what the table
\* holds, or the tag has an item on the page, which will be saved as well.
Rests(o, i) ==
    /\ i.id # NoId
    /\ \/ Stored(i) = rows[i.id]
       \/ page[o].imported /\ \E k \in page[o].items : k.name = i.name

Settled(o) ==
    \A r \in Requests : req[r].move = {} /\ \A i \in req[r].items : Rests(o, i)

InTurns ==
    /\ \A r, s \in Busy : r = s
    /\ \A n \in Names \ Pending : Agree(n)
    /\ \A r \in Requests : ItemsLead(r) /\ MovesLead(r)
    /\ \A o \in fresh : UpToDate(o) /\ Settled(o)

AInv == TInv /\ (turns => InTurns)

\* What a written row does to the tags.
LEMMA StoredLive ==
    ASSUME TypeOK, NEW i \in Item, NEW id \in Ids,
           rows' = [rows EXCEPT ![id] = Stored(i)]
    PROVE  /\ \A n \in Names : Live(n)' = IF n = i.name THEN Live(n) \cup {id}
                                          ELSE Live(n) \ {id}
           /\ rows'[id] = Stored(i)
           /\ \A k \in Ids : k # id => rows'[k] = rows[k]
  <1>1. rows \in [Ids -> Row \cup {NoRow}]
    BY DEF TypeOK
  <1>2. rows'[id] = Stored(i) /\ \A k \in Ids : k # id => rows'[k] = rows[k]
    BY <1>1
  <1>3. Stored(i) # NoRow /\ Stored(i).name = i.name /\ Stored(i).live
    BY StoredIsRow, NoRowAssumption DEF Stored
  <1> QED
    BY <1>2, <1>3 DEF Live, Used

\* A tag that is in the table is saved over its row.
LEMMA SaveWrites ==
    ASSUME TypeOK, NEW i \in Item, NEW renamed \in BOOLEAN, NEW n \in Names,
           i.id \in Live(n), SaveTag(i, renamed)
    PROVE  rows' = [rows EXCEPT ![i.id] = Stored(i)]
  BY DEF SaveTag, Overwrite, Live

\* A new tag gets a key of its own.
LEMMA CreateWrites ==
    ASSUME TypeOK, NEW i \in Item, i.id = NoId, Create(i)
    PROVE  \E id \in Ids \ Used : rows' = [rows EXCEPT ![id] = Stored(i)]
  <1>1. PICK id \in Ids : IsNext(id) /\ Insert(id, i)
    BY DEF Create
  <1>2. id \notin Used
    BY <1>1, IdsAssumption DEF IsNext
  <1> QED
    BY <1>1, <1>2 DEF Insert

\* One row has one tag.
LEMMA OneName ==
    ASSUME NEW n, NEW m, NEW id, id \in Live(n), id \in Live(m)
    PROVE  n = m
  BY DEF Live

\* And while the operators take turns, one tag has one row.
LEMMA OneRow ==
    ASSUME TInv, InTurns, NEW n \in Names, NEW id \in Live(n)
    PROVE  Live(n) = {id}
  <1>1. CASE n \notin Pending
    BY <1>1 DEF InTurns, Agree
  <1>2. ASSUME NEW r \in Requests, n \in req[r].move
        PROVE  Live(n) = {id}
    BY <1>2 DEF InTurns, MovesLead
  <1>3. ASSUME NEW r \in Requests, NEW i \in req[r].items, i.name = n
        PROVE  Live(n) = {id}
    BY <1>3 DEF InTurns, ItemsLead
  <1> QED
    BY <1>1, <1>2, <1>3 DEF Pending

\* What the properties of the table see of a step that leaves it alone.
LEMMA SameTable ==
    ASSUME UNCHANGED rows
    PROVE  /\ \A n : Live(n)' = Live(n)
           /\ LiveNames' = LiveNames
           /\ \A o \in Operators : page'[o] = page[o] /\ UpToDate(o)
                                     => UpToDate(o)'
  <1>1. \A n : Live(n)' = Live(n)
    BY DEF Live, Used
  <1>2. LiveNames' = LiveNames
    BY <1>1 DEF LiveNames
  <1> QED
    BY <1>1, <1>2 DEF UpToDate

LEMMA StaysSettled ==
    ASSUME UNCHANGED <<rows, req>>, NEW o \in Operators,
           page'[o] = page[o], Settled(o)
    PROVE  Settled(o)'
  <1>1. \A i : Rests(o, i) => Rests(o, i)'
    BY DEF Rests
  <1> QED
    BY <1>1 DEF Settled

LEMMA NobodyBusy ==
    ASSUME Busy = {}
    PROVE  /\ Pending = {}
           /\ \A r \in Requests : req[r].items = {} /\ req[r].move = {}
           /\ \A o \in Operators : Settled(o)
  BY DEF Busy, Pending, Settled

\* A request with nothing left to do.
LEMMA DoneLeads ==
    ASSUME NEW r \in Requests, req[r].items = {}, req[r].move = {}
    PROVE  ItemsLead(r) /\ MovesLead(r)
  BY DEF ItemsLead, MovesLead

LEMMA InitAsked == Init => AInv
  <1> SUFFICES ASSUME Init PROVE AInv
    OBVIOUS
  <1>1. \A n \in Names : Live(n) = {} /\ want[n] = NoGroup
    BY DEF Init, Live, Used, Nothing
  <1>2. Busy = {}
    BY DEF Init, Busy, Idle
  <1>3. \A r \in Requests : ItemsLead(r) /\ MovesLead(r)
    BY <1>2, NobodyBusy, DoneLeads
  <1>4. fresh = {}
    BY DEF Init
  <1> QED
    BY InitTyped, <1>1, <1>2, <1>3, <1>4 DEF AInv, InTurns, Agree

(***************************************************************************)
(* A change that is asked for in turn finds every tag as it was asked for. *)
(***************************************************************************)
LEMMA AskedInTurn ==
    ASSUME AInv, NEW ok \in BOOLEAN, NEW wanted, NEW kept,
           Asks(ok, wanted, kept), turns'
    PROVE  /\ InTurns /\ ok /\ Busy = {}
           /\ want' = wanted /\ fresh' = fresh \cap kept
           /\ \A n \in Names : Agree(n)
  <1>1. turns /\ ok /\ Busy = {}
    BY DEF Asks, AInv, TInv, TypeOK
  <1>2. \A n \in Names : Agree(n)
    BY <1>1, NobodyBusy DEF AInv, InTurns
  <1> QED
    BY <1>1, <1>2 DEF Asks, AInv

\* A change that is made at once and leaves nobody with a true page, or its
\* author with one.
LEMMA MadeAtOnce ==
    ASSUME Busy = {}, UNCHANGED req,
           \A n \in Names : Agree(n)',
           \A o \in fresh' : UpToDate(o)'
    PROVE  InTurns'
  <1>1. Busy' = {}
    BY DEF Busy
  <1>2. \A r \in Requests : (ItemsLead(r) /\ MovesLead(r))'
    BY NobodyBusy DEF ItemsLead, MovesLead
  <1>3. \A o : Settled(o)'
    BY NobodyBusy DEF Settled
  <1> QED
    BY <1>1, <1>2, <1>3 DEF InTurns

\* A request that begins: nobody else is at work.
LEMMA BeginsInTurn ==
    ASSUME TInv, InTurns, Busy = {}, NEW r \in Requests,
           NEW names, NEW items, NEW move, NEW to,
           Goto(r, names, items, move, to), UNCHANGED <<rows, page>>,
           fresh' \subseteq fresh,
           \A o \in fresh' : move = {} /\ \A i \in items : Rests(o, i),
           \A n \in Names : (\A i \in items : i.name # n) /\ n \notin move
                              => Agree(n)',
           ItemsLead(r)', MovesLead(r)'
    PROVE  InTurns'
  <1>1. \A s \in Requests : s # r => req'[s] = req[s]
    BY DEF Goto, TInv, TypeOK
  <1>2. req'[r].items = items /\ req'[r].move = move
    BY DEF Goto, TInv, TypeOK
  <1>3. \A s \in Requests : s # r => req'[s].items = {} /\ req'[s].move = {}
    BY <1>1, NobodyBusy
  <1>4. \A s \in Requests : (ItemsLead(s) /\ MovesLead(s))'
    BY <1>3 DEF ItemsLead, MovesLead
  <1>5. \A s, t \in Busy' : s = t
    BY <1>3 DEF Busy
  <1>6. \A n \in Names \ Pending' : Agree(n)'
    BY <1>2 DEF Pending
  <1>7. \A o \in fresh' : UpToDate(o)'
    BY SameTable DEF InTurns, TInv, TypeOK
  <1>8. \A o \in fresh' : Settled(o)'
    <2>1. \A o, i : Rests(o, i) => Rests(o, i)'
      BY DEF Rests
    <2> QED
      BY <1>2, <1>3, <2>1 DEF Settled
  <1> QED
    BY <1>4, <1>5, <1>6, <1>7, <1>8 DEF InTurns

-----------------------------------------------------------------------------
\* Reading the page.
LEMMA UpdateAsked ==
    ASSUME AInv, NEW o \in Operators, Update(o), turns'
    PROVE  InTurns'
  <1> DEFINE items == {ItemOf(id) : id \in {k \in Used : rows[k].live}}
  <1>0. /\ rows \in [Ids -> Row \cup {NoRow}]
        /\ page \in [Operators -> Page]
    BY DEF AInv, TInv, TypeOK
  <1>1. /\ page' = [page EXCEPT ![o] =
                       [items |-> items, imported |-> FALSE, records |-> {}]]
        /\ fresh' = IF Busy = {} THEN fresh \cup {o} ELSE fresh \ {o}
        /\ turns
        /\ UNCHANGED <<rows, req, want>>
    BY DEF Update, AInv, TInv, TypeOK
  <1>2. InTurns /\ TInv
    BY <1>1 DEF AInv
  <1>3. \A id \in Used : rows[id].live => id \in Live(rows[id].name)
                                          /\ rows[id].name \in Names
    BY <1>0 DEF Live, Used, Row
  <1>4. \A id \in Used : rows[id].live => Stored(ItemOf(id)) = rows[id]
    BY <1>0, GroupsAssumption DEF Stored, ItemOf, Used, Row
  <1>5. /\ page'[o].items = items /\ page'[o].records = {}
        /\ ~page'[o].imported
    <2> HIDE DEF items
    <2> QED
      BY <1>0, <1>1
  <1>6. \A i \in items : \E id \in Used :
            i = ItemOf(id) /\ rows[id].live /\ i.id = id /\ id # NoId
              /\ i.name = rows[id].name
    BY IdsAssumption DEF ItemOf, Used
  <1>7. UpToDate(o)'
    <2>1. \A i, j \in items : i.name = j.name => i = j
      <3> SUFFICES ASSUME NEW i \in items, NEW j \in items, i.name = j.name
                   PROVE  i = j
        OBVIOUS
      <3>1. PICK k \in Used : i = ItemOf(k) /\ rows[k].live
                                /\ i.name = rows[k].name
        BY <1>6
      <3>2. PICK l \in Used : j = ItemOf(l) /\ rows[l].live
                                /\ j.name = rows[l].name
        BY <1>6
      <3>3. k \in Live(i.name) /\ l \in Live(i.name) /\ i.name \in Names
        BY <1>3, <3>1, <3>2
      <3>4. k = l
        BY <1>2, <3>3, OneRow
      <3> QED
        BY <3>1, <3>2, <3>4
    <2>2. \A i \in items : /\ i.id # NoId /\ i.id \in Live(i.name)
                           /\ Stored(i) = rows[i.id]
      BY <1>3, <1>4, <1>6
    <2>3. \A n \in LiveNames : \E i \in items : i.name = n
      <3> SUFFICES ASSUME NEW n \in Names, NEW id \in Live(n)
                   PROVE  \E i \in items : i.name = n
        BY DEF LiveNames
      <3>1. ItemOf(id) \in items /\ ItemOf(id).name = n
        BY DEF Live, ItemOf
      <3> QED
        BY <3>1
    <2> HIDE DEF items
    <2>5. LiveNames' = LiveNames /\ \A n : Live(n)' = Live(n)
      BY <1>1, SameTable
    <2> QED
      BY <1>1, <1>5, <2>1, <2>2, <2>3, <2>5 DEF UpToDate
  <1>8. \A q \in fresh : q # o => UpToDate(q)' /\ Settled(q)'
    <2>1. \A q \in fresh : q \in Operators /\ UpToDate(q) /\ Settled(q)
      BY <1>2 DEF InTurns, TInv, TypeOK
    <2>2. \A q \in Operators : q # o => page'[q] = page[q]
      BY <1>0, <1>1
    <2> QED
      BY <1>1, <2>1, <2>2, SameTable, StaysSettled
  <1>9. \A n : Live(n)' = Live(n)
    BY <1>1, SameTable
  <1>10. Pending' = Pending /\ Busy' = Busy
    BY <1>1 DEF Pending, Busy
  <1>11. \A r \in Requests : (ItemsLead(r) /\ MovesLead(r))'
    BY <1>1, <1>2, <1>9 DEF InTurns, ItemsLead, MovesLead
  <1>12. \A n \in Names \ Pending' : Agree(n)'
    BY <1>1, <1>2, <1>9, <1>10 DEF InTurns, Agree
  <1>13. \A q \in fresh' : UpToDate(q)' /\ Settled(q)'
    <2>1. CASE Busy = {}
      <3>1. Settled(o)'
        BY <1>1, <2>1, NobodyBusy DEF Settled
      <3> QED
        BY <1>1, <1>7, <1>8, <2>1, <3>1
    <2>2. CASE Busy # {}
      BY <1>1, <1>8, <2>2
    <2> QED
      BY <2>1, <2>2
  <1> QED
    BY <1>2, <1>10, <1>11, <1>12, <1>13 DEF InTurns

LEMMA KeyOrdered ==
    ASSUME NEW i \in Item
    PROVE  i.id <= i.id
  <1>1. i.id \in Ids \/ i.id = NoId
    BY DEF Item
  <1>2. Ids \subseteq Nat
    BY IdsAssumption
  <1>3. NoId \in Nat
    BY DEF NoId
  <1>4. i.id \in Nat
    BY <1>1, <1>2, <1>3, Zenon
  <1> QED
    BY <1>4

\* What makes a page with an import on it a true one.
LEMMA LaidOver ==
    ASSUME NEW o \in Operators, NEW S, NEW R,
           page'[o].items = S, page'[o].records = R, page'[o].imported,
           \A i, j \in S : i.name = j.name => i = j,
           \A i \in S : IF i.id = NoId THEN Live(i.name)' = {}
                        ELSE i.id \in Live(i.name)',
           \A q, r \in R : q.name = r.name => q = r,
           \A i \in S : \E q \in R :
               q.name = i.name /\ (q.groupid \in Groups => i.group = q.groupid),
           \A q \in R : (\A i \in S : i.name # q.name) =>
               \E id \in Live(q.name)' : rows'[id].group = q.groupid
    PROVE  UpToDate(o)'
  BY DEF UpToDate

\* An item that is found by its name.
LEMMA FoundOne ==
    ASSUME NEW items \in SUBSET Item,
           \A i, j \in items : i.name = j.name => i = j
    PROVE  /\ \A i \in items : Found(i.name, items) = {i}
           /\ \A n : (\A i \in items : i.name # n) => Found(n, items) = {}
           /\ \A n : \A i \in Found(n, items) : i \in items /\ i.name = n
  <1>1. ASSUME NEW i \in items
        PROVE  Found(i.name, items) = {i}
    <2> DEFINE named == {k \in items : k.name = i.name}
               first == {k \in named : \A j \in named :
                           j.id = NoId \/ (k.id # NoId /\ k.id <= j.id)}
    <2>1. i.id <= i.id
      BY KeyOrdered
    <2>2. \A k \in named : k = i
      OBVIOUS
    <2>3. i \in named
      OBVIOUS
    <2>4. first = {i}
      <3> HIDE DEF named
      <3> QED
        BY <2>1, <2>2, <2>3
    <2>5. Found(i.name, items) =
            IF first = {} THEN {} ELSE {CHOOSE k \in first : TRUE}
      BY DEF Found
    <2> HIDE DEF first
    <2> QED
      BY <2>4, <2>5
  <1>2. ASSUME NEW n, \A i \in items : i.name # n
        PROVE  Found(n, items) = {}
    <2>1. {k \in items : k.name = n} = {}
      BY <1>2
    <2> QED
      BY <2>1 DEF Found
  <1>3. ASSUME NEW n, NEW i \in Found(n, items)
        PROVE  i \in items /\ i.name = n
    BY DEF Found
  <1> QED
    BY <1>1, <1>2, <1>3

\* A file laid over a page as it was read: an item for each tag that is to get
\* another group or is new, none for a tag that is in its group already.
LEMMA ImportLaysOver ==
    ASSUME AInv, NEW o \in Operators, NEW R \in Imports,
           Import(o, R), UpToDate(o), ~page[o].imported,
           \A i \in page[o].items : i.group \in {NoGroup, i.groupid}
    PROVE  UpToDate(o)'
  <1> DEFINE items == page[o].items
             found(n) == Found(n, items)
             to(i, r, g) == [i EXCEPT !.groupid = r.groupid, !.group = g[r]]
             new(r, g) == [id |-> NoId, name |-> r.name, groupid |-> r.groupid,
                           group |-> g[r]]
             moves(r) == {i \in found(r.name) : i.groupid # r.groupid}
             old(r, g) == {to(i, r, g) : i \in moves(r)}
             S(g) == (UNION {old(r, g) : r \in R})
                       \cup {new(r, g) : r \in {q \in R : found(q.name) = {}}}
  <1>1. /\ R # {} /\ UNCHANGED rows
        /\ page \in [Operators -> Page]
        /\ R \subseteq Record
        /\ items \in SUBSET Item
        /\ \A q, r \in R : q.name = r.name => q = r
    BY ImportsAssumption DEF Import, AInv, TInv, TypeOK, Page
  <1>2. PICK g \in [R -> Groups \cup {NoGroup}] :
            /\ \A r \in R : g[r] \in GroupFor(r, R)
            /\ page' = [page EXCEPT ![o] =
                           [items |-> S(g), imported |-> TRUE, records |-> R]]
    <2> DEFINE stays(i) == /\ page[o].imported
                           /\ \A r \in R : i \in found(r.name) =>
                                 i.id = NoId /\ i.groupid = r.groupid
               T(g) == {i \in items : stays(i)}
                         \cup (UNION {old(r, g) : r \in R})
                         \cup {new(r, g) : r \in {q \in R : found(q.name) = {}}}
    <2>1. \E g \in [R -> Groups \cup {NoGroup}] :
            /\ \A r \in R : g[r] \in GroupFor(r, R)
            /\ page' = [page EXCEPT ![o] =
                           [items |-> T(g), imported |-> TRUE, records |-> R]]
      BY DEF Import
    <2>2. {i \in items : stays(i)} = {}
      OBVIOUS
    <2>3. \A g : T(g) = S(g)
      <3> HIDE DEF old, new, found, stays
      <3> QED
        BY <2>2
    <2> HIDE DEF T, S
    <2> QED
      BY <2>1, <2>3
  <1>3. /\ \A i, j \in items : i.name = j.name => i = j
        /\ \A i \in items : i.id # NoId /\ i.id \in Live(i.name)
                              /\ Stored(i) = rows[i.id]
        /\ \A n \in LiveNames : \E i \in items : i.name = n
    BY <1>1 DEF UpToDate
  <1>4. /\ \A i \in items : found(i.name) = {i}
        /\ \A n : (\A i \in items : i.name # n) => found(n) = {}
        /\ \A n : \A i \in found(n) : i \in items /\ i.name = n
    BY <1>1, <1>3, FoundOne
  <1>5. \A i \in items, r \in R : /\ to(i, r, g).id = i.id
                                  /\ to(i, r, g).name = i.name
                                  /\ to(i, r, g).group = g[r]
    BY <1>1 DEF Item
  <1>6. page'[o].items = S(g) /\ page'[o].records = R /\ page'[o].imported
    <2> HIDE DEF S
    <2> QED
      BY <1>1, <1>2
  \* Where each item of the page now comes from.
  <1> DEFINE From(k, r) ==
        /\ k.name = r.name /\ k.group = g[r]
        /\ \/ \E i \in items : k = to(i, r, g) /\ i.name = r.name
           \/ k = new(r, g) /\ \A i \in items : i.name # r.name
  <1> HIDE DEF found
  <1>7. \A k \in S(g) : \E r \in R : From(k, r)
    <2> SUFFICES ASSUME NEW k \in S(g) PROVE \E r \in R : From(k, r)
      OBVIOUS
    <2>1. ASSUME NEW r \in R, k \in old(r, g)
          PROVE  From(k, r)
      <3>1. PICK i \in found(r.name) : k = to(i, r, g)
        BY <2>1
      <3>2. i \in items /\ i.name = r.name
        BY <1>4, <3>1
      <3> HIDE DEF to
      <3> QED
        BY <1>5, <3>1, <3>2
    <2>2. ASSUME NEW r \in R, found(r.name) = {}, k = new(r, g)
          PROVE  From(k, r)
      <3>1. \A i \in items : i.name = r.name => i \in found(r.name)
        BY <1>4
      <3>2. \A i \in items : i.name # r.name
        <4> HIDE DEF items
        <4> QED
          BY <2>2, <3>1
      <3> QED
        BY <2>2, <3>2
    <2>3. (\E r \in R : k \in old(r, g))
             \/ \E r \in R : found(r.name) = {} /\ k = new(r, g)
      <3> HIDE DEF old, new
      <3> QED
        OBVIOUS
    <2> QED
      BY <2>1, <2>2, <2>3
  <1>8. \A r \in R : (\A k \in S(g) : k.name # r.name) =>
            \E i \in items : i.name = r.name /\ i.groupid = r.groupid
    <2> SUFFICES ASSUME NEW r \in R, \A k \in S(g) : k.name # r.name
                 PROVE  \E i \in items :
                            i.name = r.name /\ i.groupid = r.groupid
      OBVIOUS
    <2>1. new(r, g).name = r.name
      OBVIOUS
    <2>2. found(r.name) # {}
      <3> HIDE DEF old, new
      <3> QED
        BY <2>1
    <2>3. PICK i \in items : i.name = r.name /\ i \in found(r.name)
      BY <1>4, <2>2
    <2>4. i.groupid # r.groupid => to(i, r, g) \in old(r, g)
      BY <2>3
    <2>5. \A k \in old(r, g) : k \in S(g)
      <3> HIDE DEF old, new
      <3> QED
        OBVIOUS
    <2> HIDE DEF to, S
    <2> QED
      BY <1>5, <2>3, <2>4, <2>5
  <1> HIDE DEF S, moves, old
  <1>9. \A k, l \in S(g) : k.name = l.name => k = l
    <2> SUFFICES ASSUME NEW k \in S(g), NEW l \in S(g), k.name = l.name
                 PROVE  k = l
      OBVIOUS
    <2>1. PICK r \in R : From(k, r) /\ From(l, r)
      <3>1. PICK q \in R : From(k, q)
        BY <1>7
      <3>2. PICK r \in R : From(l, r)
        BY <1>7
      <3>3. k.name = q.name /\ l.name = r.name
        BY <3>1, <3>2
      <3>4. q = r
        BY <1>1, <3>3
      <3> HIDE DEF From
      <3> QED
        BY <3>1, <3>2, <3>4
    <2> HIDE DEF to, new
    <2> QED
      BY <1>3, <2>1
  <1>10. \A n : Live(n)' = Live(n)
    BY <1>1, SameTable
  <1>11. \A k \in S(g) : IF k.id = NoId THEN Live(k.name)' = {}
                         ELSE k.id \in Live(k.name)'
    <2> SUFFICES ASSUME NEW k \in S(g)
                 PROVE  IF k.id = NoId THEN Live(k.name) = {}
                        ELSE k.id \in Live(k.name)
      BY <1>10
    <2>1. PICK r \in R : From(k, r)
      BY <1>7
    <2>2. ASSUME NEW i \in items, k = to(i, r, g)
          PROVE  k.id # NoId /\ k.id \in Live(k.name)
      BY <1>3, <1>5, <2>2
    <2>3. CASE k = new(r, g) /\ \A i \in items : i.name # r.name
      <3>1. r.name \notin LiveNames /\ r.name \in Names
        BY <1>1, <1>3, <2>3 DEF Record
      <3>2. Live(r.name) = {}
        BY <3>1 DEF LiveNames
      <3> QED
        BY <2>3, <3>2
    <2> QED
      BY <2>1, <2>2, <2>3
  <1>12. \A k \in S(g) : \E q \in R :
            q.name = k.name /\ (q.groupid \in Groups => k.group = q.groupid)
    <2>1. \A q \in R : q.groupid \in Groups => g[q] = q.groupid
      BY <1>2 DEF GroupFor
    <2> QED
      BY <1>7, <2>1
  <1>13. \A q \in R : (\A k \in S(g) : k.name # q.name) =>
            \E id \in Live(q.name)' : rows'[id].group = q.groupid
    <2> SUFFICES ASSUME NEW q \in R, \A k \in S(g) : k.name # q.name
                 PROVE  \E id \in Live(q.name) : rows[id].group = q.groupid
      BY <1>1, <1>10
    <2>1. PICK i \in items : i.name = q.name /\ i.groupid = q.groupid
      BY <1>8
    <2>2. Stored(i).group = i.groupid
      BY <2>1 DEF Stored
    <2> QED
      BY <1>3, <2>1, <2>2
  <1> DEFINE U == S(g)
  <1> HIDE DEF From, to, new, U
  <1>14. /\ page'[o].items = U /\ page'[o].records = R /\ page'[o].imported
         /\ \A i, j \in U : i.name = j.name => i = j
         /\ \A q, r \in R : q.name = r.name => q = r
    BY <1>1, <1>6, <1>9 DEF U
  <1>15. \A i \in U : IF i.id = NoId THEN Live(i.name)' = {}
                      ELSE i.id \in Live(i.name)'
    BY <1>11 DEF U
  <1>16. \A i \in U : \E q \in R :
            q.name = i.name /\ (q.groupid \in Groups => i.group = q.groupid)
    BY <1>12 DEF U
  <1>17. \A q \in R : (\A i \in U : i.name # q.name) =>
            \E id \in Live(q.name)' : rows'[id].group = q.groupid
    BY <1>13 DEF U
  <1> QED
    BY <1>14, <1>15, <1>16, <1>17 DEF UpToDate

LEMMA ImportAsked ==
    ASSUME AInv, NEW o \in Operators, NEW R \in Imports, Import(o, R), turns'
    PROVE  InTurns'
  <1>1. /\ UNCHANGED <<rows, req, turns, want>>
        /\ fresh' = IF \/ page[o].imported
                       \/ \E i \in page[o].items :
                             i.group \notin {NoGroup, i.groupid}
                    THEN fresh \ {o} ELSE fresh
        /\ \A q \in Operators : q # o => page'[q] = page[q]
    BY DEF Import, AInv, TInv, TypeOK
  <1>2. InTurns /\ fresh \subseteq Operators
    BY <1>1 DEF AInv, TInv, TypeOK
  <1>3. \A q \in fresh' : UpToDate(q)' /\ Settled(q)'
    <2>1. ASSUME o \in fresh'
          PROVE  UpToDate(o)' /\ Settled(o)'
      <3>1. /\ ~page[o].imported /\ UpToDate(o) /\ Settled(o)
            /\ \A i \in page[o].items : i.group \in {NoGroup, i.groupid}
        BY <1>1, <1>2, <2>1 DEF InTurns
      <3>2. UpToDate(o)'
        BY <3>1, ImportLaysOver
      <3>3. \A i : Rests(o, i) => Rests(o, i)'
        BY <1>1, <3>1 DEF Rests
      <3> QED
        BY <1>1, <3>1, <3>2, <3>3 DEF Settled
    <2>2. ASSUME NEW q \in fresh', q # o
          PROVE  UpToDate(q)' /\ Settled(q)'
      BY <1>1, <1>2, <2>2, SameTable, StaysSettled DEF InTurns
    <2> QED
      BY <2>1, <2>2
  <1>4. \A n : Live(n)' = Live(n)
    BY <1>1, SameTable
  <1>5. Pending' = Pending /\ Busy' = Busy
    BY <1>1 DEF Pending, Busy
  <1>6. \A r \in Requests : (ItemsLead(r) /\ MovesLead(r))'
    BY <1>1, <1>2, <1>4 DEF InTurns, ItemsLead, MovesLead
  <1>7. \A n \in Names \ Pending' : Agree(n)'
    BY <1>1, <1>2, <1>4, <1>5 DEF InTurns, Agree
  <1> QED
    BY <1>2, <1>3, <1>5, <1>6, <1>7 DEF InTurns

\* What makes a page that was only read and edited a true one.
LEMMA ReadAgain ==
    ASSUME NEW o \in Operators, NEW S,
           page'[o].items = S, page'[o].records = {}, ~page'[o].imported,
           \A i, j \in S : i.name = j.name => i = j,
           \A i \in S : /\ i.id # NoId /\ i.id \in Live(i.name)'
                        /\ Stored(i) = rows'[i.id],
           \A n \in Names : Live(n)' # {} => \E i \in S : i.name = n
    PROVE  UpToDate(o)'
  <1>1. \A n \in LiveNames' : \E i \in S : i.name = n
    BY DEF LiveNames
  <1> QED
    BY <1>1 DEF UpToDate

\* Editing an item: its row, or a new one, becomes the only row of the tag.
LEMMA UpdateDataAsked ==
    ASSUME AInv, NEW o \in Operators, NEW i \in page[o].items,
           NEW n \in Names, NEW g \in Groups, UpdateData(o, i, n, g), turns'
    PROVE  InTurns'
  <1> DEFINE edited == [i EXCEPT !.name = n, !.group = g]
             items == page[o].items
             wanted == [want EXCEPT ![i.name] = NoGroup, ![n] = g]
             S == (items \ {i}) \cup {edited}
             new == [name |-> n, groupid |-> g]
             R == Noted(o, {i.name, n}, {new})
             kept == IF i.id # NoId /\ \A j \in items : j.name = n => j = i
                     THEN {o} ELSE {}
             ok == o \in fresh /\ (n = i.name \/ n \notin LiveNames)
  <1>1. /\ rows \in [Ids -> Row \cup {NoRow}]
        /\ page \in [Operators -> Page]
        /\ want \in [Names -> Groups \cup {NoGroup}]
        /\ items \subseteq Item /\ page[o].records \subseteq Record
        /\ g # NoGroup /\ TypeOK
    BY GroupsAssumption DEF AInv, TInv, TypeOK, Page
  <1>2. /\ i \in Item /\ i.name \in Names
        /\ edited \in Item /\ edited.id = i.id /\ edited.name = n
        /\ edited.group = g
    <2>1. i \in Item
      BY <1>1
    <2> QED
      BY <2>1 DEF Item
  <1>3. /\ SaveTag(edited, n # i.name)
        /\ page' = [page EXCEPT ![o].items = S, ![o].records = R]
        /\ Asks(ok, wanted, kept)
        /\ UNCHANGED req
    BY DEF UpdateData
  <1>4. /\ wanted[n] = g
        /\ n # i.name => wanted[i.name] = NoGroup
        /\ \A m \in Names : m # n /\ m # i.name => wanted[m] = want[m]
    BY <1>1, <1>2
  <1>5. ok \in BOOLEAN
    OBVIOUS
  <1> HIDE DEF edited, wanted, kept, ok, S, R
  <1>6. /\ InTurns /\ ok /\ Busy = {}
        /\ want' = wanted /\ fresh' = fresh \cap kept
        /\ \A m \in Names : Agree(m)
    BY <1>3, <1>5, AskedInTurn
  <1>7. UpToDate(o) /\ (n = i.name \/ Live(n) = {})
    BY <1>6 DEF ok, InTurns, LiveNames
  <1>8. /\ \A j, k \in items : j.name = k.name => j = k
        /\ \A j \in items : IF j.id = NoId THEN Live(j.name) = {}
                            ELSE j.id \in Live(j.name)
    BY <1>7 DEF UpToDate
  <1>9. PICK id \in Ids :
            /\ rows' = [rows EXCEPT ![id] = Stored(edited)]
            /\ Live(i.name) \subseteq {id}
            /\ i.id # NoId => id = i.id
            /\ i.id = NoId => id \notin Used
    <2>1. CASE i.id # NoId
      <3>1. i.id \in Live(i.name) /\ i.id \in Ids
        BY <1>2, <1>8, <2>1 DEF Live, Used
      <3>2. Live(i.name) = {i.id}
        BY <1>2, <1>6, <3>1, OneRow DEF AInv
      <3>3. (n # i.name) \in BOOLEAN
        OBVIOUS
      <3>4. rows' = [rows EXCEPT ![i.id] = Stored(edited)]
        BY <1>2, <1>3, <3>1, <3>3, SaveWrites DEF AInv, TInv
      <3> QED
        BY <2>1, <3>1, <3>2, <3>4
    <2>2. CASE i.id = NoId
      <3>1. edited.id \notin Used
        BY <1>2, <2>2, IdsAssumption DEF Used
      <3>2. Create(edited)
        BY <1>3, <3>1 DEF SaveTag
      <3>3. PICK id \in Ids \ Used :
                rows' = [rows EXCEPT ![id] = Stored(edited)]
        BY <1>2, <2>2, <3>2, CreateWrites DEF AInv, TInv
      <3>4. Live(i.name) = {}
        BY <1>8, <2>2
      <3> QED
        BY <2>2, <3>3, <3>4
    <2> QED
      BY <2>1, <2>2
  <1>10. /\ \A m \in Names : Live(m)' = IF m = n THEN Live(m) \cup {id}
                                        ELSE Live(m) \ {id}
         /\ rows'[id] = Stored(edited)
         /\ \A k \in Ids : k # id => rows'[k] = rows[k]
    <2>1. \A m \in Names : Live(m)' = IF m = edited.name THEN Live(m) \cup {id}
                                      ELSE Live(m) \ {id}
      <3>1. TypeOK /\ edited \in Item
        BY <1>2 DEF AInv, TInv
      <3>2. id \in Ids /\ rows' = [rows EXCEPT ![id] = Stored(edited)]
        BY <1>9
      <3> QED
        BY <3>1, <3>2, StoredLive
    <2>2. /\ rows'[id] = Stored(edited)
          /\ \A k \in Ids : k # id => rows'[k] = rows[k]
      BY <1>1, <1>9
    <2> QED
      BY <1>2, <2>1, <2>2
  <1>11. Live(n)' = {id} /\ rows'[id].group = g
    <2>1. Live(n) \subseteq {id}
      BY <1>7, <1>9
    <2>2. Stored(edited).group = g
      BY <1>1, <1>2 DEF Stored
    <2> QED
      BY <1>10, <2>1, <2>2
  <1>12. \A m \in Names : id \in Live(m) => m = i.name
    <2> SUFFICES ASSUME NEW m \in Names, id \in Live(m)
                 PROVE  m = i.name
      OBVIOUS
    <2>1. id \in Used
      BY DEF Live
    <2>2. id = i.id /\ i.id \in Live(i.name)
      BY <1>8, <1>9, <2>1
    <2> QED
      BY <2>2, OneName
  <1>13. \A m \in Names : Agree(m)'
    <2> SUFFICES ASSUME NEW m \in Names PROVE Agree(m)'
      OBVIOUS
    <2>1. CASE m = n
      BY <1>1, <1>4, <1>6, <1>11, <2>1 DEF Agree
    <2>2. CASE m # n /\ m = i.name
      <3>1. Live(m)' = {} /\ want'[m] = NoGroup
        BY <1>4, <1>6, <1>9, <1>10, <2>2
      <3> QED
        BY <3>1 DEF Agree
    <2>3. CASE m # n /\ m # i.name
      <3>1. Live(m)' = Live(m) /\ want'[m] = want[m]
        BY <1>4, <1>6, <1>10, <1>12, <2>3
      <3>2. \A k \in Live(m) : rows'[k] = rows[k]
        BY <1>10, <1>12, <2>3 DEF Live, Used
      <3> QED
        BY <1>6, <3>1, <3>2 DEF Agree
    <2> QED
      BY <2>1, <2>2, <2>3
  <1>14. ASSUME i.id # NoId, \A j \in items : j.name = n => j = i
         PROVE  UpToDate(o)'
    <2>1. id = i.id /\ i.id \in Live(i.name)
      BY <1>8, <1>9, <1>14
    <2>2. /\ page'[o].items = S /\ page'[o].records = R
          /\ page'[o].imported = page[o].imported
      <3>1. page'[o] = [page[o] EXCEPT !.items = S, !.records = R]
        BY <1>1, <1>3
      <3>2. page[o] \in Page
        BY <1>1
      <3> QED
        BY <3>1, <3>2 DEF Page
    <2>3. \A j \in items : j # i =>
            /\ j.name # n /\ j.name # i.name
            /\ j.name \in Names
            /\ (j.id \in Live(j.name) => j.id # id)
      <3> SUFFICES ASSUME NEW j \in items, j # i
                   PROVE  /\ j.name # n /\ j.name # i.name /\ j.name \in Names
                          /\ j.id \in Live(j.name) => j.id # id
        OBVIOUS
      <3>1. j.name # n /\ j.name # i.name
        BY <1>8, <1>14
      <3>2. j.name \in Names
        BY <1>1 DEF Item
      <3>3. j.id \in Live(j.name) => j.id # id
        BY <2>1, <3>1, OneName
      <3> QED
        BY <3>1, <3>2, <3>3
    <2>8. /\ \A j \in S : j = edited \/ (j \in items /\ j # i)
          /\ \A j \in items : j # i => j \in S
          /\ edited \in S /\ edited.name = n
      BY <1>2 DEF S
    <2>4. \A j, k \in S : j.name = k.name => j = k
      <3> SUFFICES ASSUME NEW j \in S, NEW k \in S, j.name = k.name
                   PROVE  j = k
        OBVIOUS
      <3> HIDE DEF items
      <3> QED
        BY <1>8, <2>3, <2>8
    <2>5. \A j \in S : IF j.id = NoId THEN Live(j.name)' = {}
                       ELSE j.id \in Live(j.name)'
      <3> SUFFICES ASSUME NEW j \in S
                   PROVE  IF j.id = NoId THEN Live(j.name)' = {}
                          ELSE j.id \in Live(j.name)'
        OBVIOUS
      <3>1. CASE j = edited
        BY <1>2, <1>11, <1>14, <2>1, <3>1
      <3>2. CASE j \in items /\ j # i
        <4>1. Live(j.name)' = Live(j.name) \ {id}
          BY <1>10, <2>3, <3>2
        <4>2. CASE j.id = NoId
          BY <1>8, <3>2, <4>1, <4>2
        <4>3. CASE j.id # NoId
          BY <1>8, <2>3, <3>2, <4>1, <4>3
        <4> QED
          BY <4>2, <4>3
      <3> QED
        BY <2>8, <3>1, <3>2
    <2>6. CASE ~page[o].imported
      <3>1. /\ page[o].records = {}
            /\ \A j \in items : j.id # NoId /\ Stored(j) = rows[j.id]
            /\ \A m \in LiveNames : \E j \in items : j.name = m
        BY <1>7, <2>6 DEF UpToDate
      <3>2. R = {}
        BY <2>6, <3>1 DEF R, Noted
      <3>3. \A j \in S : /\ j.id # NoId /\ j.id \in Live(j.name)'
                         /\ Stored(j) = rows'[j.id]
        <4> SUFFICES ASSUME NEW j \in S
                     PROVE  /\ j.id # NoId /\ j.id \in Live(j.name)'
                            /\ Stored(j) = rows'[j.id]
          OBVIOUS
        <4>1. CASE j = edited
          BY <1>2, <1>10, <1>11, <1>14, <2>1, <4>1
        <4>2. CASE j \in items /\ j # i
          <5>1. j.id # NoId /\ j.id \in Live(j.name)'
            BY <2>5, <3>1, <4>2
          <5>2. j.id \in Live(j.name)
            BY <1>8, <4>2, <5>1
          <5>3. j.id # id /\ j.id \in Ids
            BY <2>3, <4>2, <5>2 DEF Live, Used
          <5> QED
            BY <1>10, <3>1, <4>2, <5>1, <5>3
        <4> QED
          BY <2>8, <4>1, <4>2
      <3>4. ASSUME NEW m \in Names, Live(m)' # {}
            PROVE  \E j \in S : j.name = m
        <4>1. CASE m = n
          BY <2>8, <4>1
        <4>2. CASE m # n
          <5>1. Live(m) # {} /\ m # i.name
            BY <1>9, <1>10, <3>4, <4>2
          <5>2. PICK j \in items : j.name = m
            BY <3>1, <5>1 DEF LiveNames
          <5> QED
            BY <2>8, <5>1, <5>2
        <4> QED
          BY <4>1, <4>2
      <3> QED
        BY <2>2, <2>4, <2>6, <3>2, <3>3, <3>4, ReadAgain
    <2>7. CASE page[o].imported
      <3>1. /\ \A q, r \in page[o].records : q.name = r.name => q = r
            /\ \A j \in items : \E q \in page[o].records :
                  /\ q.name = j.name
                  /\ q.groupid \in Groups => j.group = q.groupid
            /\ \A q \in page[o].records :
                  (\A j \in items : j.name # q.name) =>
                  \E k \in Live(q.name) : rows[k].group = q.groupid
        BY <1>7, <2>7 DEF UpToDate
      <3>2. /\ new.name = n /\ new.groupid = g /\ new \in R
            /\ \A q \in R :
                  \/ q = new
                  \/ /\ q \in page[o].records
                     /\ q.name # i.name /\ q.name # n
            /\ \A q \in page[o].records :
                  q.name # i.name /\ q.name # n => q \in R
        BY <2>7 DEF R, Noted
      <3> HIDE DEF new
      <3>3. \A q, r \in R : q.name = r.name => q = r
        BY <3>1, <3>2
      <3>4. \A j \in S : \E q \in R :
                q.name = j.name /\ (q.groupid \in Groups => j.group = q.groupid)
        <4> SUFFICES ASSUME NEW j \in S
                     PROVE  \E q \in R : /\ q.name = j.name
                                         /\ q.groupid \in Groups => j.group = q.groupid
          OBVIOUS
        <4>1. CASE j = edited
          BY <1>2, <3>2, <4>1
        <4>2. CASE j \in items /\ j # i
          <5>1. PICK q \in page[o].records :
                    /\ q.name = j.name
                    /\ q.groupid \in Groups => j.group = q.groupid
            BY <3>1, <4>2
          <5>2. q \in R
            BY <2>3, <3>2, <4>2, <5>1
          <5> QED
            BY <5>1, <5>2
        <4> QED
          BY <2>8, <4>1, <4>2
      <3>5. ASSUME NEW q \in R, \A j \in S : j.name # q.name
            PROVE  \E k \in Live(q.name)' : rows'[k].group = q.groupid
        <4>2. q # new
          BY <2>8, <3>2, <3>5
        <4>3. /\ q \in page[o].records /\ q.name # i.name /\ q.name # n
              /\ q.name \in Names
          BY <1>1, <3>2, <4>2 DEF Record
        <4>4. \A j \in items : j.name # q.name
          BY <2>8, <3>5, <4>3
        <4>5. PICK k \in Live(q.name) : rows[k].group = q.groupid
          BY <3>1, <4>3, <4>4
        <4>6. k # id /\ k \in Ids
          BY <1>12, <4>3 DEF Live, Used
        <4>7. k \in Live(q.name)' /\ rows'[k] = rows[k]
          BY <1>10, <4>3, <4>6
        <4> QED
          BY <4>5, <4>7
      <3>6. \A q \in R : (\A j \in S : j.name # q.name) =>
                \E k \in Live(q.name)' : rows'[k].group = q.groupid
        BY <3>5
      <3> QED
        BY <2>2, <2>4, <2>5, <2>7, <3>3, <3>4, <3>6 DEF UpToDate
    <2> QED
      BY <2>6, <2>7
  <1>15. \A q \in fresh' : UpToDate(q)'
    BY <1>6, <1>14 DEF kept
  <1> QED
    BY <1>3, <1>6, <1>13, <1>15, MadeAtOnce

\* Deleting an item by its key, a tag by its name, or several.
LEMMA DeleteAsked ==
    ASSUME AInv, turns',
           \/ \E o \in Operators : \E i \in page[o].items : DeleteDataByID(o, i)
           \/ \E n \in Names : DeleteDataByField(n)
           \/ \E S \in SUBSET Names : DeleteTagNames(S)
    PROVE  InTurns'
  <1>1. /\ rows \in [Ids -> Row \cup {NoRow}]
        /\ page \in [Operators -> Page]
        /\ want \in [Names -> Groups \cup {NoGroup}]
        /\ TypeOK
    BY DEF AInv, TInv, TypeOK, Page
  <1>2. ASSUME NEW o \in Operators, NEW i \in page[o].items,
               DeleteDataByID(o, i)
        PROVE  InTurns'
    <2> DEFINE items == page[o].items
               wanted == [want EXCEPT ![i.name] = NoGroup]
               T == {j \in items : j.id # i.id}
               R == Noted(o, {i.name}, {})
    <2>1. /\ i.id # NoId /\ rows' = [rows EXCEPT ![i.id] = NoRow]
          /\ page' = [page EXCEPT ![o].items = T, ![o].records = R]
          /\ Asks(o \in fresh, wanted, {o})
          /\ UNCHANGED req
      BY <1>2 DEF DeleteDataByID
    <2>2. i \in Item /\ i.name \in Names /\ items \subseteq Item
      <3>1. items \subseteq Item
        BY <1>1 DEF Page
      <3> QED
        BY <3>1 DEF Item
    <2>3. wanted[i.name] = NoGroup
            /\ \A m \in Names : m # i.name => wanted[m] = want[m]
      BY <1>1, <2>2
    <2> HIDE DEF wanted, T, R
    <2>4. (o \in fresh) \in BOOLEAN
      OBVIOUS
    <2>5. /\ InTurns /\ o \in fresh /\ Busy = {}
          /\ want' = wanted /\ fresh' = fresh \cap {o}
          /\ \A m \in Names : Agree(m)
      BY <2>1, <2>4, AskedInTurn
    <2>6. UpToDate(o) /\ i.id \in Live(i.name)
      BY <2>1, <2>5 DEF InTurns, UpToDate
    <2>7. Live(i.name) = {i.id} /\ i.id \in Ids
      <3>1. Live(i.name) = {i.id}
        BY <2>2, <2>5, <2>6, OneRow DEF AInv
      <3> QED
        BY <2>6, <3>1 DEF Live, Used
    <2>8. /\ rows'[i.id] = NoRow
          /\ \A k \in Ids : k # i.id => rows'[k] = rows[k]
      BY <1>1, <2>1, <2>7
    <2>9. \A m \in Names : Live(m)' = Live(m) \ {i.id}
      BY <2>7, <2>8 DEF Live, Used
    <2>10. \A m \in Names : m # i.name => i.id \notin Live(m)
      BY <2>6, OneName
    <2>11. \A m \in Names : Agree(m)'
      <3> SUFFICES ASSUME NEW m \in Names PROVE Agree(m)'
        OBVIOUS
      <3>1. CASE m = i.name
        <4>1. Live(m)' = {} /\ want'[m] = NoGroup
          BY <2>3, <2>5, <2>7, <2>9, <3>1
        <4> QED
          BY <4>1 DEF Agree
      <3>2. CASE m # i.name
        <4>1. Live(m)' = Live(m) /\ want'[m] = want[m]
          BY <2>3, <2>5, <2>9, <2>10, <3>2
        <4>2. \A k \in Live(m) : rows'[k] = rows[k]
          BY <2>8, <2>10, <3>2 DEF Live, Used
        <4> QED
          BY <2>5, <4>1, <4>2 DEF Agree
      <3> QED
        BY <3>1, <3>2
    <2>12. UpToDate(o)'
      <3>1. /\ page'[o].items = T /\ page'[o].records = R
            /\ page'[o].imported = page[o].imported
        <4>1. page'[o] = [page[o] EXCEPT !.items = T, !.records = R]
          BY <1>1, <2>1
        <4>2. page[o] \in Page
          BY <1>1
        <4> QED
          BY <4>1, <4>2 DEF Page
      <3>2. /\ \A j, k \in items : j.name = k.name => j = k
            /\ \A j \in items : IF j.id = NoId THEN Live(j.name) = {}
                                ELSE j.id \in Live(j.name)
            /\ \A q, r \in page[o].records : q.name = r.name => q = r
        BY <2>6 DEF UpToDate
      <3>3. /\ \A j \in T : j \in items /\ j.id # i.id /\ j.name \in Names
            /\ \A j \in items : j.id # i.id => j \in T
        BY <2>2 DEF Item, T
      <3>4. \A j \in items : j.id = i.id => j = i
        <4> SUFFICES ASSUME NEW j \in items, j.id = i.id PROVE j = i
          OBVIOUS
        <4>1. i.id \in Live(j.name)
          BY <2>1, <3>2
        <4> QED
          BY <2>6, <3>2, <4>1, OneName
      <3>5. \A j, k \in T : j.name = k.name => j = k
        BY <3>2, <3>3
      <3>6. \A j \in T : IF j.id = NoId THEN Live(j.name)' = {}
                         ELSE j.id \in Live(j.name)'
        BY <2>9, <3>2, <3>3
      <3>7. CASE ~page[o].imported
        <4>1. /\ page[o].records = {}
              /\ \A j \in items : j.id # NoId /\ Stored(j) = rows[j.id]
              /\ \A m \in LiveNames : \E j \in items : j.name = m
          BY <2>6, <3>7 DEF UpToDate
        <4>2. R = {}
          BY <3>7, <4>1 DEF R, Noted
        <4>3. \A j \in T : /\ j.id # NoId /\ j.id \in Live(j.name)'
                           /\ Stored(j) = rows'[j.id]
          <5> SUFFICES ASSUME NEW j \in T
                       PROVE  /\ j.id # NoId /\ j.id \in Live(j.name)'
                              /\ Stored(j) = rows'[j.id]
            OBVIOUS
          <5>1. j \in items /\ j.id # i.id
            BY <3>3
          <5>2. j.id # NoId /\ j.id \in Live(j.name)'
            BY <3>6, <4>1, <5>1
          <5>3. j.id \in Ids
            BY <3>2, <4>1, <5>1 DEF Live, Used
          <5> QED
            BY <2>8, <4>1, <5>1, <5>2, <5>3
        <4>4. ASSUME NEW m \in Names, Live(m)' # {}
              PROVE  \E j \in T : j.name = m
          <5>1. Live(m) # {} /\ m # i.name
            BY <2>7, <2>9, <4>4
          <5>2. PICK j \in items : j.name = m
            BY <4>1, <5>1 DEF LiveNames
          <5> QED
            BY <3>3, <3>4, <5>1, <5>2
        <4> QED
          BY <3>1, <3>5, <3>7, <4>2, <4>3, <4>4, ReadAgain
      <3>8. CASE page[o].imported
        <4>1. /\ \A j \in items : \E q \in page[o].records :
                    /\ q.name = j.name
                    /\ q.groupid \in Groups => j.group = q.groupid
              /\ \A q \in page[o].records :
                    (\A j \in items : j.name # q.name) =>
                    \E k \in Live(q.name) : rows[k].group = q.groupid
          BY <2>6, <3>8 DEF UpToDate
        <4>2. /\ \A q \in R : q \in page[o].records /\ q.name # i.name
              /\ \A q \in page[o].records : q.name # i.name => q \in R
          BY DEF R, Noted
        <4>3. \A q, r \in R : q.name = r.name => q = r
          BY <3>2, <4>2
        <4>4. \A j \in T : \E q \in R :
                  q.name = j.name /\ (q.groupid \in Groups => j.group = q.groupid)
          <5> SUFFICES ASSUME NEW j \in T
                       PROVE  \E q \in R : /\ q.name = j.name
                                           /\ q.groupid \in Groups => j.group = q.groupid
            OBVIOUS
          <5>1. j \in items /\ j.name # i.name
            BY <3>2, <3>3
          <5> QED
            BY <4>1, <4>2, <5>1
        <4>5. ASSUME NEW q \in R, \A j \in T : j.name # q.name
              PROVE  \E k \in Live(q.name)' : rows'[k].group = q.groupid
          <5>1. q \in page[o].records /\ q.name # i.name /\ q.name \in Names
            <6>1. page[o].records \subseteq Record
              BY <1>1 DEF Page
            <6> QED
              BY <4>2, <6>1 DEF Record
          <5>2. \A j \in items : j.name # q.name
            BY <3>3, <3>4, <4>5, <5>1
          <5>3. PICK k \in Live(q.name) : rows[k].group = q.groupid
            BY <4>1, <5>1, <5>2
          <5>4. k # i.id /\ k \in Ids
            BY <2>10, <5>1 DEF Live, Used
          <5>5. k \in Live(q.name)' /\ rows'[k] = rows[k]
            BY <2>8, <2>9, <5>1, <5>4
          <5> QED
            BY <5>3, <5>5
        <4>6. \A q \in R : (\A j \in T : j.name # q.name) =>
                  \E k \in Live(q.name)' : rows'[k].group = q.groupid
          BY <4>5
        <4> QED
          BY <3>1, <3>5, <3>6, <3>8, <4>3, <4>4, <4>6 DEF UpToDate
      <3> QED
        BY <3>7, <3>8
    <2>13. \A q \in fresh' : UpToDate(q)'
      BY <2>5, <2>12
    <2> QED
      BY <2>1, <2>5, <2>11, <2>13, MadeAtOnce
  \* The tags of S are gone, the others as they were.
  <1>3. ASSUME NEW S \in SUBSET Names, NEW wanted, Asks(TRUE, wanted, {}),
               \A m \in Names :
                   wanted[m] = IF m \in S THEN NoGroup ELSE want[m],
               \A m \in Names : Live(m)' = IF m \in S THEN {} ELSE Live(m),
               \A m \in Names \ S : \A k \in Live(m) : rows'[k] = rows[k],
               UNCHANGED req
        PROVE  InTurns'
    <2>1. /\ InTurns /\ Busy = {} /\ want' = wanted /\ fresh' = {}
          /\ \A m \in Names : Agree(m)
      BY <1>3, AskedInTurn
    <2>2. \A m \in Names : Agree(m)'
      BY <1>3, <2>1 DEF Agree
    <2> QED
      BY <1>3, <2>1, <2>2, MadeAtOnce
  <1>4. ASSUME NEW n \in Names, DeleteDataByField(n)
        PROVE  InTurns'
    <2> DEFINE wanted == [want EXCEPT ![n] = NoGroup]
    <2>1. /\ rows' = [id \in Ids |-> IF id \in Used /\ rows[id].name = n
                                     THEN NoRow ELSE rows[id]]
          /\ Asks(TRUE, wanted, {}) /\ UNCHANGED req
      BY <1>4 DEF DeleteDataByField
    <2>2. \A m \in Names : wanted[m] = IF m \in {n} THEN NoGroup ELSE want[m]
      BY <1>1
    <2>3. \A m \in Names : Live(m)' = IF m \in {n} THEN {} ELSE Live(m)
      BY <1>1, <2>1 DEF Live, Used
    <2>4. \A m \in Names \ {n} : \A k \in Live(m) : rows'[k] = rows[k]
      BY <1>1, <2>1 DEF Live, Used
    <2> HIDE DEF wanted
    <2> QED
      BY <1>3, <2>1, <2>2, <2>3, <2>4
  <1>5. ASSUME NEW S \in SUBSET Names, DeleteTagNames(S)
        PROVE  InTurns'
    <2> DEFINE wanted == [n \in Names |-> IF n \in S THEN NoGroup ELSE want[n]]
    <2>1. /\ rows' = [id \in Ids |-> IF id \in Used /\ rows[id].name \in S
                                     THEN [rows[id] EXCEPT !.live = FALSE]
                                     ELSE rows[id]]
          /\ Asks(TRUE, wanted, {}) /\ UNCHANGED req
      BY <1>5 DEF DeleteTagNames
    <2>2. \A m \in Names : wanted[m] = IF m \in S THEN NoGroup ELSE want[m]
      OBVIOUS
    <2>3. \A m \in Names \ S : \A k \in Live(m) : rows'[k] = rows[k]
      BY <1>1, <2>1 DEF Live, Used
    <2>4. \A k \in Ids : /\ k \in Used' <=> k \in Used
                         /\ k \in Used /\ rows[k].name \in S => ~rows'[k].live
                         /\ k \in Used => rows'[k].name = rows[k].name
                         /\ rows[k].name \notin S => rows'[k] = rows[k]
      <3> SUFFICES ASSUME NEW k \in Ids
                   PROVE  /\ k \in Used' <=> k \in Used
                          /\ k \in Used /\ rows[k].name \in S => ~rows'[k].live
                          /\ k \in Used => rows'[k].name = rows[k].name
                          /\ rows[k].name \notin S => rows'[k] = rows[k]
        OBVIOUS
      <3>1. CASE k \in Used /\ rows[k].name \in S
        <4>1. rows[k] \in Row
          BY <1>1, <3>1 DEF Used
        <4>2. rows'[k] = [rows[k] EXCEPT !.live = FALSE]
          BY <2>1, <3>1
        <4>3. /\ rows'[k].live = FALSE /\ rows'[k].name = rows[k].name
              /\ rows'[k] \in Row
          BY <4>1, <4>2 DEF Row
        <4> QED
          BY <3>1, <4>3, NoRowAssumption DEF Used
      <3>2. CASE ~(k \in Used /\ rows[k].name \in S)
        <4>1. rows'[k] = rows[k]
          BY <2>1, <3>2
        <4> QED
          BY <3>2, <4>1 DEF Used
      <3> QED
        BY <3>1, <3>2
    <2>5. \A m \in Names : Live(m)' = IF m \in S THEN {} ELSE Live(m)
      <3>1. \A k \in Used : k \in Ids
        BY DEF Used
      <3>2. \A k \in Used' : k \in Ids
        BY DEF Used
      <3> QED
        BY <2>4, <3>1, <3>2 DEF Live
    <2> HIDE DEF wanted
    <2> QED
      BY <1>3, <2>1, <2>2, <2>3, <2>5
  <1> QED
    BY <1>2, <1>4, <1>5

\* What a request holds when it has begun.
LEMMA Begun ==
    ASSUME TypeOK, NEW r \in Requests, NEW names, NEW items, NEW move, NEW to,
           Goto(r, names, items, move, to)
    PROVE  /\ req'[r].names = names /\ req'[r].items = items
           /\ req'[r].move = move /\ req'[r].to = to
           /\ \A s \in Requests : s # r => req'[s] = req[s]
  BY DEF Goto, TypeOK

\* Posting names: what is not in the table is to be created by default.
LEMMA PostNamesAsked ==
    ASSUME AInv, NEW r \in Requests, NEW S \in SUBSET Names,
           PostTagNames(r, S), turns'
    PROVE  InTurns'
  <1> DEFINE new(n) == [id |-> NoId, name |-> n, groupid |-> Default,
                        group |-> NoGroup]
             items == {new(n) : n \in S \ LiveNames}
             wanted == [n \in Names |-> IF n \in S /\ want[n] = NoGroup
                                        THEN Default ELSE want[n]]
  <1>1. /\ Goto(r, LiveNames, items, {}, NoGroup)
        /\ Asks(TRUE, wanted, IF S \subseteq LiveNames THEN Operators ELSE {})
        /\ UNCHANGED <<rows, page>>
    BY DEF PostTagNames
  <1>2. \A n \in Names : wanted[n] = IF n \in S /\ want[n] = NoGroup
                                     THEN Default ELSE want[n]
    OBVIOUS
  <1>3. /\ \A n \in S \ LiveNames : \E i \in items : i.name = n
        /\ \A i \in items : i = new(i.name) /\ i.name \in S \ LiveNames
    <2>1. \A n : new(n).name = n
      OBVIOUS
    <2> QED
      BY <2>1
  <1>4. Default \in Groups /\ Default # NoGroup /\ TypeOK /\ TInv
    BY GroupsAssumption DEF AInv, TInv
  <1> HIDE DEF items, wanted
  <1>5. /\ InTurns /\ Busy = {} /\ want' = wanted
        /\ fresh' = fresh \cap IF S \subseteq LiveNames THEN Operators ELSE {}
        /\ \A n \in Names : Agree(n)
    BY <1>1, AskedInTurn
  \* Beside a true page nothing is left to create.
  <1>11. fresh' \subseteq fresh /\ (fresh' # {} => items = {})
    BY <1>3, <1>5
  <1>6. \A n \in Names : Live(n)' = Live(n)
    BY <1>1, SameTable
  <1>7. \A n \in Names : n \in LiveNames <=> want[n] # NoGroup
    BY <1>5 DEF Agree, LiveNames
  <1>8. ItemsLead(r)'
    <2> SUFFICES ASSUME NEW i \in items
                 PROVE  /\ \A j \in items : j.name = i.name => j = i
                        /\ want'[i.name] # NoGroup
                        /\ i.name \notin LiveNames
                        /\ Live(i.name)' = {} /\ i.id = NoId
                        /\ Stored(WithGroup(i)).group = want'[i.name]
      <3>1. /\ req'[r].names = LiveNames /\ req'[r].items = items
            /\ req'[r].move = {}
        BY <1>1, <1>4, Begun
      <3> QED
        BY <3>1 DEF ItemsLead
    <2>1. i.name \in Names /\ i.name \in S /\ i.name \notin LiveNames
      BY <1>3
    <2>2. want[i.name] = NoGroup /\ want'[i.name] = Default
      BY <1>2, <1>5, <1>7, <2>1
    <2>3. Live(i.name)' = {}
      BY <1>6, <2>1 DEF LiveNames
    <2>4. Stored(WithGroup(i)).group = Default /\ i.id = NoId
      BY <1>3, <1>4 DEF Stored, WithGroup
    <2>5. \A j \in items : j.name = i.name => j = i
      BY <1>3
    <2> QED
      BY <1>4, <2>1, <2>2, <2>3, <2>4, <2>5
  <1>9. MovesLead(r)'
    <2>1. req'[r].move = {}
      BY <1>1, <1>4, Begun
    <2> QED
      BY <2>1 DEF MovesLead
  <1>10. ASSUME NEW n \in Names, \A i \in items : i.name # n
         PROVE  Agree(n)'
    <2>1. n \notin S \/ n \in LiveNames
      BY <1>3, <1>10
    <2>2. want'[n] = want[n]
      BY <1>2, <1>5, <1>7, <2>1
    <2> QED
      BY <1>1, <1>5, <1>6, <2>2 DEF Agree
  <1> QED
    BY <1>1, <1>4, <1>5, <1>8, <1>9, <1>10, <1>11, BeginsInTurn

\* Moving tags: those that are in the table have one row each.
LEMMA PostGroupAsked ==
    ASSUME AInv, NEW r \in Requests, NEW S \in SUBSET Names, NEW g \in Groups,
           PostGroupAddTag(r, S, g), turns'
    PROVE  InTurns'
  <1> DEFINE wanted == [n \in Names |-> IF n \in S /\ want[n] # NoGroup
                                        THEN g ELSE want[n]]
  <1>1. /\ Goto(r, {}, {}, S, g)
        /\ Asks(TRUE, wanted, {})
        /\ UNCHANGED <<rows, page>>
    BY DEF PostGroupAddTag
  <1>2. \A n \in Names : wanted[n] = IF n \in S /\ want[n] # NoGroup
                                     THEN g ELSE want[n]
    OBVIOUS
  <1>3. g # NoGroup /\ TypeOK /\ TInv
    BY GroupsAssumption DEF AInv, TInv
  <1> HIDE DEF wanted
  <1>4. /\ InTurns /\ Busy = {} /\ want' = wanted /\ fresh' = {}
        /\ \A n \in Names : Agree(n)
    BY <1>1, AskedInTurn
  <1>5. \A n \in Names : Live(n)' = Live(n)
    BY <1>1, SameTable
  <1>6. /\ req'[r].items = {} /\ req'[r].move = S /\ req'[r].to = g
    BY <1>1, <1>3, Begun
  <1>7. ItemsLead(r)'
    BY <1>6 DEF ItemsLead
  <1>8. MovesLead(r)'
    <2> SUFFICES ASSUME NEW n \in S
                 PROVE  IF want'[n] = NoGroup THEN Live(n)' = {}
                        ELSE want'[n] = g /\ \E id \in Ids : Live(n)' = {id}
      BY <1>6 DEF MovesLead
    <2>1. n \in Names /\ Agree(n)
      BY <1>4
    <2> QED
      BY <1>2, <1>3, <1>4, <1>5, <2>1 DEF Agree
  <1>9. ASSUME NEW n \in Names, n \notin S
        PROVE  Agree(n)'
    BY <1>1, <1>2, <1>4, <1>5, <1>9 DEF Agree
  <1> QED
    BY <1>1, <1>3, <1>4, <1>7, <1>8, <1>9, BeginsInTurn

\* Saving the changes: each item of a true page leads to what the file, or
\* the table, says of its tag, and a record without an item needs none.
LEMMA PostChangesAsked ==
    ASSUME AInv, NEW r \in Requests, NEW o \in Operators,
           PostTagChanges(r, o), turns'
    PROVE  InTurns'
  <1> DEFINE R == page[o].records
             items == page[o].items
             ok == o \in fresh /\ \A q \in R : q.groupid \in Groups
             wanted == [n \in Names |->
                  IF \E q \in R : q.name = n /\ q.groupid \in Groups
                  THEN (CHOOSE q \in R : q.name = n).groupid ELSE want[n]]
             kept == IF \A i \in items : i.id # NoId THEN {o} ELSE {}
  <1>1. /\ Goto(r, LiveNames, items, {}, NoGroup)
        /\ Asks(ok, wanted, kept)
        /\ UNCHANGED <<rows, page>>
    BY DEF PostTagChanges
  <1>2. /\ TypeOK /\ TInv /\ ok \in BOOLEAN
        /\ items \subseteq Item /\ R \subseteq Record
        /\ NoGroup \notin Groups
    BY GroupsAssumption DEF AInv, TInv, TypeOK, Page
  <1>3. \A n \in Names : wanted[n] =
           IF \E q \in R : q.name = n /\ q.groupid \in Groups
           THEN (CHOOSE q \in R : q.name = n).groupid ELSE want[n]
    OBVIOUS
  <1> HIDE DEF wanted, ok, kept
  <1>4. /\ InTurns /\ ok /\ Busy = {} /\ want' = wanted
        /\ fresh' = fresh \cap kept
        /\ \A n \in Names : Agree(n)
    BY <1>1, <1>2, AskedInTurn
  <1>5. UpToDate(o) /\ \A q \in R : q.groupid \in Groups
    BY <1>4 DEF ok, InTurns
  <1>6. /\ \A i, j \in items : i.name = j.name => i = j
        /\ \A i \in items : IF i.id = NoId THEN Live(i.name) = {}
                            ELSE i.id \in Live(i.name)
        /\ \A q, s \in R : q.name = s.name => q = s
    BY <1>5 DEF UpToDate
  <1>7. ~page[o].imported =>
          R = {} /\ \A i \in items : i.id # NoId /\ Stored(i) = rows[i.id]
    BY <1>5 DEF UpToDate
  <1>8. page[o].imported =>
          /\ \A i \in items : \E q \in R :
                 q.name = i.name /\ (q.groupid \in Groups => i.group = q.groupid)
          /\ \A q \in R : (\A i \in items : i.name # q.name) =>
                 \E id \in Live(q.name) : rows[id].group = q.groupid
    BY <1>5 DEF UpToDate
  <1>9. \A q \in R : wanted[q.name] = q.groupid
    <2> SUFFICES ASSUME NEW q \in R PROVE wanted[q.name] = q.groupid
      OBVIOUS
    <2>1. q.name \in Names /\ q.groupid \in Groups
      BY <1>2, <1>5 DEF Record
    <2>2. (CHOOSE s \in R : s.name = q.name) = q
      BY <1>6
    <2> QED
      BY <1>3, <2>1, <2>2
  <1>10. \A n \in Names : (\A q \in R : q.name # n) => wanted[n] = want[n]
    BY <1>3
  <1>11. \A n \in Names : Live(n)' = Live(n)
    BY <1>1, SameTable
  <1>12. /\ req'[r].names = LiveNames /\ req'[r].items = items
         /\ req'[r].move = {}
    BY <1>1, <1>2, Begun
  <1>13. ItemsLead(r)'
    <2> SUFFICES ASSUME NEW i \in items
                 PROVE  /\ want'[i.name] # NoGroup
                        /\ IF i.name \in LiveNames
                           THEN /\ Live(i.name)' = {i.id}
                                /\ Stored(i).group = want'[i.name]
                           ELSE /\ Live(i.name)' = {} /\ i.id = NoId
                                /\ Stored(WithGroup(i)).group = want'[i.name]
      BY <1>6, <1>12 DEF ItemsLead
    <2>1. i \in Item /\ i.name \in Names
      BY <1>2 DEF Item
    <2>2. CASE ~page[o].imported
      <3>1. /\ i.id # NoId /\ Stored(i) = rows[i.id] /\ i.id \in Live(i.name)
        BY <1>6, <1>7, <2>2
      <3>2. Live(i.name) = {i.id} /\ want[i.name] # NoGroup
              /\ rows[i.id].group = want[i.name]
        BY <1>4, <2>1, <3>1 DEF Agree
      <3>3. want'[i.name] = want[i.name]
        BY <1>4, <1>7, <1>10, <2>1, <2>2
      <3>4. i.name \in LiveNames
        BY <2>1, <3>1 DEF LiveNames
      <3> QED
        BY <1>11, <2>1, <3>1, <3>2, <3>3, <3>4
    <2>3. CASE page[o].imported
      <3>1. PICK q \in R : q.name = i.name /\ q.groupid = i.group
        BY <1>5, <1>8, <2>3
      <3>2. want'[i.name] = i.group /\ i.group \in Groups
        BY <1>4, <1>5, <1>9, <3>1
      <3>3. Stored(i).group = i.group /\ i.group # NoGroup
        BY <1>2, <3>2 DEF Stored
      <3>4. Stored(WithGroup(i)).group = i.group
        BY <2>1, <3>3 DEF Stored, WithGroup, Item
      <3>5. CASE i.id = NoId
        <4>1. Live(i.name) = {} /\ i.name \notin LiveNames
          BY <1>6, <3>5 DEF LiveNames
        <4> QED
          BY <1>11, <2>1, <3>2, <3>3, <3>4, <3>5, <4>1
      <3>6. CASE i.id # NoId
        <4>1. i.id \in Live(i.name)
          BY <1>6, <3>6
        <4>2. Live(i.name) = {i.id} /\ i.name \in LiveNames
          BY <1>4, <2>1, <4>1 DEF Agree, LiveNames
        <4> QED
          BY <1>11, <2>1, <3>2, <3>3, <4>2
      <3> QED
        BY <3>5, <3>6
    <2> QED
      BY <2>2, <2>3
  <1>14. MovesLead(r)'
    BY <1>12 DEF MovesLead
  <1>15. ASSUME NEW n \in Names, \A i \in items : i.name # n
         PROVE  Agree(n)'
    <2>1. CASE \E q \in R : q.name = n
      <3>1. PICK q \in R : q.name = n
        BY <2>1
      <3>2. PICK id \in Live(n) : rows[id].group = q.groupid
        BY <1>7, <1>8, <1>15, <3>1
      <3>3. Live(n) = {id} /\ id \in Ids
        BY <1>4, <3>2 DEF Agree
      <3>4. want'[n] = rows[id].group /\ want'[n] # NoGroup
        BY <1>2, <1>4, <1>5, <1>9, <3>1, <3>2
      <3> QED
        BY <1>1, <1>11, <3>3, <3>4 DEF Agree
    <2>2. CASE \A q \in R : q.name # n
      <3>1. want'[n] = want[n]
        BY <1>4, <1>10, <2>2
      <3> QED
        BY <1>1, <1>4, <1>11, <3>1 DEF Agree
    <2> QED
      BY <2>1, <2>2
  \* Every item of the author's page has a key, and is saved as it is there.
  <1>16. /\ fresh' \subseteq fresh
         /\ \A q \in fresh' : \A i \in items : Rests(q, i)
    <2> SUFFICES ASSUME NEW q \in fresh', NEW i \in items
                 PROVE  Rests(q, i)
      BY <1>4
    <2>1. q = o /\ i.id # NoId
      BY <1>4 DEF kept
    <2>2. CASE page[o].imported
      BY <2>1, <2>2 DEF Rests
    <2>3. CASE ~page[o].imported
      BY <1>7, <2>1, <2>3 DEF Rests
    <2> QED
      BY <2>2, <2>3
  <1> QED
    BY <1>1, <1>2, <1>4, <1>13, <1>14, <1>15, <1>16, BeginsInTurn

\* One statement of the request at work: the tag has the row that was asked
\* for, the rest of its work is what it was.
LEMMA SaveItemAsked ==
    ASSUME AInv, NEW r \in Requests, SaveItem(r), turns'
    PROVE  InTurns'
  <1>1. PICK i \in req[r].items :
          /\ IF i.name \in req[r].names THEN SaveTag(i, FALSE)
             ELSE Create(WithGroup(i))
          /\ req' = [req EXCEPT ![r].items = @ \ {i}]
    BY DEF SaveItem, WithGroup
  <1>2. UNCHANGED <<page, fresh, want>> /\ turns
    BY DEF SaveItem
  <1>3. InTurns /\ TInv /\ TypeOK
    BY <1>2 DEF AInv, TInv
  <1>4. i \in Item /\ i.name \in Names
    <2>1. i \in Item
      BY <1>3 DEF TypeOK
    <2> QED
      BY <2>1 DEF Item
  <1>5. /\ \A j \in req[r].items : j.name = i.name => j = i
        /\ i.name \notin req[r].move
        /\ want[i.name] # NoGroup
        /\ IF i.name \in req[r].names
           THEN Live(i.name) = {i.id} /\ Stored(i).group = want[i.name]
           ELSE /\ Live(i.name) = {} /\ i.id = NoId
                /\ Stored(WithGroup(i)).group = want[i.name]
    BY <1>3 DEF InTurns, ItemsLead
  <1>6. PICK j \in Item, id \in Ids :
          /\ rows' = [rows EXCEPT ![id] = Stored(j)] /\ j.name = i.name
          /\ Stored(j).group = want[i.name]
          /\ Live(i.name) \subseteq {id}
          /\ \A m \in Names : m # i.name => id \notin Live(m)
          /\ i.id # NoId => id = i.id /\ j = i /\ i.id \in Live(i.name)
    <2>1. CASE i.name \in req[r].names
      <3>1. Live(i.name) = {i.id} /\ Stored(i).group = want[i.name]
        BY <1>5, <2>1
      <3>2. i.id \in Live(i.name) /\ i.id \in Ids
        BY <3>1 DEF Live, Used
      <3>3. rows' = [rows EXCEPT ![i.id] = Stored(i)]
        BY <1>1, <1>3, <1>4, <2>1, <3>2, SaveWrites
      <3>4. \A m \in Names : m # i.name => i.id \notin Live(m)
        BY <3>2, OneName
      <3> QED
        BY <1>4, <2>1, <3>1, <3>2, <3>3, <3>4
    <2>2. CASE i.name \notin req[r].names
      <3>1. /\ WithGroup(i) \in Item /\ WithGroup(i).name = i.name
            /\ WithGroup(i).id = i.id
        BY <1>4, GroupsAssumption DEF WithGroup, Item
      <3>2. /\ Live(i.name) = {} /\ i.id = NoId
            /\ Stored(WithGroup(i)).group = want[i.name]
        BY <1>5, <2>2
      <3>3. PICK id \in Ids \ Used :
                rows' = [rows EXCEPT ![id] = Stored(WithGroup(i))]
        BY <1>1, <1>3, <2>2, <3>1, <3>2, CreateWrites
      <3>4. \A m : id \notin Live(m)
        BY DEF Live
      <3> QED
        BY <3>1, <3>2, <3>3, <3>4
    <2> QED
      BY <2>1, <2>2
  <1>7. /\ \A m \in Names : Live(m)' = IF m = i.name THEN {id} ELSE Live(m)
        /\ rows'[id].group = want[i.name]
        /\ \A k \in Ids : k # id => rows'[k] = rows[k]
    <2>1. /\ \A m \in Names : Live(m)' = IF m = j.name THEN Live(m) \cup {id}
                                         ELSE Live(m) \ {id}
          /\ rows'[id] = Stored(j)
          /\ \A k \in Ids : k # id => rows'[k] = rows[k]
      BY <1>3, <1>6, StoredLive
    <2>2. ASSUME NEW m \in Names, m # i.name
          PROVE  Live(m)' = Live(m)
      BY <1>6, <2>1, <2>2
    <2>3. Live(i.name)' = {id}
      <3>1. Live(i.name)' = Live(i.name) \cup {id} /\ Live(i.name) \subseteq {id}
        BY <1>4, <1>6, <2>1
      <3> QED
        BY <3>1
    <2>4. rows'[id].group = want[i.name]
      BY <1>6, <2>1
    <2> QED
      BY <2>1, <2>2, <2>3, <2>4
  <1>8. /\ req'[r].items = req[r].items \ {i} /\ req'[r].move = req[r].move
        /\ req'[r].names = req[r].names /\ req'[r].to = req[r].to
        /\ \A s \in Requests : s # r => req'[s] = req[s]
    BY <1>1, <1>3 DEF TypeOK
  <1>9. \A s \in Requests : s # r => req[s].items = {} /\ req[s].move = {}
    BY <1>3 DEF InTurns, Busy
  <1>10. \A s, t \in Busy' : s = t
    BY <1>8, <1>9 DEF Busy
  <1>11. \A k \in req[r].items \ {i} : k.name # i.name /\ k.name \in Names
    <2>1. \A k \in req[r].items : k \in Item
      BY <1>3 DEF TypeOK
    <2> QED
      BY <1>5, <2>1 DEF Item
  <1>12. ItemsLead(r)'
    <2> SUFFICES ASSUME NEW k \in req[r].items \ {i}
                 PROVE  /\ \A l \in req[r].items : l.name = k.name => l = k
                        /\ k.name \notin req[r].move
                        /\ want[k.name] # NoGroup
                        /\ IF k.name \in req[r].names
                           THEN /\ Live(k.name)' = {k.id}
                                /\ Stored(k).group = want[k.name]
                           ELSE /\ Live(k.name)' = {} /\ k.id = NoId
                                /\ Stored(WithGroup(k)).group = want[k.name]
      BY <1>2, <1>8 DEF ItemsLead
    <2>1. Live(k.name)' = Live(k.name)
      BY <1>7, <1>11
    <2> QED
      BY <1>3, <2>1 DEF InTurns, ItemsLead
  <1>13. MovesLead(r)'
    <2> SUFFICES ASSUME NEW n \in req[r].move
                 PROVE  IF want[n] = NoGroup THEN Live(n)' = {}
                        ELSE /\ want[n] = req[r].to
                             /\ \E k \in Ids : Live(n)' = {k}
      BY <1>2, <1>8 DEF MovesLead
    <2>1. n \in Names /\ n # i.name
      BY <1>3, <1>5 DEF TypeOK
    <2>2. Live(n)' = Live(n)
      BY <1>7, <2>1
    <2> QED
      BY <1>3, <2>2 DEF InTurns, MovesLead
  <1>14. \A s \in Requests : (ItemsLead(s) /\ MovesLead(s))'
    BY <1>8, <1>9, <1>12, <1>13 DEF ItemsLead, MovesLead
  <1>15. ASSUME NEW n \in Names \ Pending'
         PROVE  Agree(n)'
    <2>1. CASE n = i.name
      BY <1>2, <1>5, <1>7, <2>1 DEF Agree
    <2>2. CASE n # i.name
      <3>1. n \notin Pending
        <4> SUFFICES ASSUME n \in Pending PROVE FALSE
          OBVIOUS
        <4>1. PICK s \in Requests : (\E k \in req[s].items : k.name = n)
                                      \/ n \in req[s].move
          BY DEF Pending
        <4>2. s = r
          BY <1>9, <4>1
        <4>3. (\E k \in req'[r].items : k.name = n) \/ n \in req'[r].move
          BY <1>8, <2>2, <4>1, <4>2
        <4> QED
          BY <4>3 DEF Pending
      <3>2. Agree(n)
        BY <1>3, <3>1 DEF InTurns
      <3>3. Live(n)' = Live(n) /\ \A k \in Live(n) : rows'[k] = rows[k]
        BY <1>6, <1>7, <2>2 DEF Live, Used
      <3> QED
        BY <1>2, <3>2, <3>3 DEF Agree
    <2> QED
      BY <2>1, <2>2
  \* Beside a true page, the row is written as it was, or its tag has an item
  \* on that page.
  <1>16. ASSUME NEW o \in fresh'
         PROVE  UpToDate(o)' /\ Settled(o)'
    <2>1. /\ o \in Operators /\ UpToDate(o) /\ Settled(o)
          /\ page[o].items \subseteq Item /\ page[o].records \subseteq Record
      BY <1>2, <1>3 DEF InTurns, TypeOK, Page
    <2>2. Rests(o, i)
      BY <2>1 DEF Settled
    <2>3. id = i.id /\ j = i /\ i.id \in Live(i.name)
      BY <1>6, <2>2 DEF Rests
    <2>4. \A m \in Names : Live(m)' = Live(m)
      BY <1>4, <1>5, <1>6, <1>7, <2>3
    <2>5. \A k \in req[r].items \ {i} : Rests(o, k) /\ k.id # i.id /\ k.id \in Ids
      <3> SUFFICES ASSUME NEW k \in req[r].items \ {i}
                   PROVE  Rests(o, k) /\ k.id # i.id /\ k.id \in Ids
        OBVIOUS
      <3>1. Rests(o, k) /\ k.id # NoId
        BY <2>1 DEF Settled, Rests
      <3>2. Live(k.name) = {k.id}
        BY <1>3, <3>1 DEF InTurns, ItemsLead
      <3>3. k.id # i.id
        BY <1>11, <2>3, <3>2, OneName
      <3>4. k.id \in Ids
        BY <3>2 DEF Live, Used
      <3> QED
        BY <3>1, <3>3, <3>4
    <2>6. Settled(o)'
      <3>1. \A k \in req[r].items \ {i} : Rests(o, k)'
        BY <1>2, <1>7, <2>3, <2>5 DEF Rests
      <3>2. req[r].move = {}
        BY <2>1 DEF Settled
      <3> QED
        BY <1>8, <1>9, <3>1, <3>2 DEF Settled
    <2>7. CASE Stored(i) = rows[i.id]
      <3>1. UNCHANGED rows
        BY <1>3, <1>6, <2>3, <2>7 DEF TypeOK
      <3>2. UpToDate(o)'
        BY <1>2, <2>1, <3>1, SameTable
      <3> QED
        BY <2>6, <3>2
    <2>8. CASE page[o].imported /\ \E k \in page[o].items : k.name = i.name
      <3>1. /\ \A k, l \in page[o].items : k.name = l.name => k = l
            /\ \A k \in page[o].items : IF k.id = NoId THEN Live(k.name) = {}
                                        ELSE k.id \in Live(k.name)
            /\ \A q, s \in page[o].records : q.name = s.name => q = s
            /\ \A k \in page[o].items : \E q \in page[o].records :
                  /\ q.name = k.name
                  /\ q.groupid \in Groups => k.group = q.groupid
            /\ \A q \in page[o].records :
                  (\A k \in page[o].items : k.name # q.name) =>
                  \E l \in Live(q.name) : rows[l].group = q.groupid
        BY <2>1, <2>8 DEF UpToDate
      <3>2. \A k \in page[o].items : IF k.id = NoId THEN Live(k.name)' = {}
                                     ELSE k.id \in Live(k.name)'
        <4>1. \A k \in page[o].items : k.name \in Names
          BY <2>1 DEF Item
        <4> QED
          BY <2>4, <3>1, <4>1
      <3>3. ASSUME NEW q \in page[o].records,
                   \A k \in page[o].items : k.name # q.name
            PROVE  \E l \in Live(q.name)' : rows'[l].group = q.groupid
        <4>1. q.name \in Names /\ q.name # i.name
          BY <2>1, <2>8, <3>3 DEF Record
        <4>2. PICK l \in Live(q.name) : rows[l].group = q.groupid
          BY <3>1, <3>3
        <4>3. l # i.id /\ l \in Ids
          BY <2>3, <4>1, <4>2, OneName DEF Live, Used
        <4>4. l \in Live(q.name)' /\ rows'[l] = rows[l]
          BY <1>7, <2>3, <2>4, <4>1, <4>3
        <4> QED
          BY <4>2, <4>4
      <3>4. \A q \in page[o].records :
                (\A k \in page[o].items : k.name # q.name) =>
                \E l \in Live(q.name)' : rows'[l].group = q.groupid
        BY <3>3
      <3>5. page'[o] = page[o] /\ page[o].imported
        BY <1>2, <2>8
      <3>6. UpToDate(o)'
        BY <3>1, <3>2, <3>4, <3>5 DEF UpToDate
      <3> QED
        BY <2>6, <3>6
    <2> QED
      BY <2>2, <2>7, <2>8 DEF Rests
  <1> QED
    BY <1>2, <1>10, <1>14, <1>15, <1>16 DEF InTurns

\* The look-up of a tag that is to be moved.
LEMMA TakeTagAsked ==
    ASSUME AInv, NEW r \in Requests, TakeTag(r), turns'
    PROVE  InTurns'
  <1> DEFINE found(id) == [ItemOf(id) EXCEPT !.groupid = req[r].to,
                                             !.group = NoGroup]
  <1>1. PICK n \in req[r].move :
          \/ \E id \in Live(n) :
               Goto(r, {n}, {found(id)}, req[r].move \ {n}, req[r].to)
          \/ Live(n) = {} /\ Goto(r, {}, {}, req[r].move \ {n}, req[r].to)
    BY DEF TakeTag
  <1>2. /\ req[r].items = {}
        /\ UNCHANGED <<rows, page, fresh, turns, want>>
    BY DEF TakeTag
  <1>3. InTurns /\ TInv /\ TypeOK
    BY <1>2 DEF AInv, TInv
  <1>4. /\ n \in Names /\ req[r].to \in Groups /\ req[r].to # NoGroup
    BY <1>3, GroupsAssumption DEF TInv, HasTarget, TypeOK
  <1>5. \A m \in Names : Live(m)' = Live(m)
    BY <1>2, SameTable
  <1>6. PICK items, names :
          /\ Goto(r, names, items, req[r].move \ {n}, req[r].to)
          /\ \/ \E id \in Live(n) : names = {n} /\ items = {found(id)}
             \/ Live(n) = {} /\ items = {}
    BY <1>1
  <1>7. /\ req'[r].items = items /\ req'[r].move = req[r].move \ {n}
        /\ req'[r].names = names /\ req'[r].to = req[r].to
        /\ \A s \in Requests : s # r => req'[s] = req[s]
    <2>1. Goto(r, names, items, req[r].move \ {n}, req[r].to)
      BY <1>6
    <2> HIDE DEF found
    <2> QED
      BY <1>3, <2>1, Begun
  <1>8. \A id \in Live(n) : /\ found(id).name = n /\ found(id).id = id
                            /\ Stored(found(id)).group = req[r].to
    <2> SUFFICES ASSUME NEW id \in Live(n)
                 PROVE  /\ found(id).name = n /\ found(id).id = id
                        /\ Stored(found(id)).group = req[r].to
      OBVIOUS
    <2>1. rows[id].name = n
      BY DEF Live
    <2>2. /\ found(id).name = n /\ found(id).id = id
          /\ found(id).groupid = req[r].to /\ found(id).group = NoGroup
      BY <2>1 DEF ItemOf
    <2> HIDE DEF found
    <2> QED
      BY <2>2 DEF Stored
  <1> HIDE DEF found
  <1>9. \A s \in Requests : s # r => req[s].items = {} /\ req[s].move = {}
    BY <1>3 DEF InTurns, Busy
  <1>10. \A s, t \in Busy' : s = t
    BY <1>7, <1>9 DEF Busy
  <1>11. ItemsLead(r)'
    <2> SUFFICES ASSUME NEW i \in items
                 PROVE  /\ \A j \in items : j.name = i.name => j = i
                        /\ i.name \notin req[r].move \ {n}
                        /\ want[i.name] # NoGroup
                        /\ i.name \in names
                        /\ Live(i.name)' = {i.id}
                        /\ Stored(i).group = want[i.name]
      BY <1>2, <1>7 DEF ItemsLead
    <2>1. PICK id \in Live(n) : names = {n} /\ items = {found(id)}
      BY <1>6
    <2>2. i = found(id) /\ i.name = n /\ i.id = id
            /\ Stored(i).group = req[r].to
      BY <1>8, <2>1
    <2>3. /\ want[n] # NoGroup /\ want[n] = req[r].to
          /\ \E k \in Ids : Live(n) = {k}
      BY <1>3, <2>1 DEF InTurns, MovesLead
    <2>4. Live(n) = {id}
      BY <2>3
    <2> QED
      BY <1>4, <1>5, <2>1, <2>2, <2>3, <2>4
  <1>12. MovesLead(r)'
    <2> SUFFICES ASSUME NEW m \in req[r].move
                 PROVE  IF want[m] = NoGroup THEN Live(m)' = {}
                        ELSE /\ want[m] = req[r].to
                             /\ \E k \in Ids : Live(m)' = {k}
      BY <1>2, <1>7 DEF MovesLead
    <2>1. m \in Names
      BY <1>3 DEF TypeOK
    <2> QED
      BY <1>3, <1>5, <2>1 DEF InTurns, MovesLead
  <1>13. \A s \in Requests : (ItemsLead(s) /\ MovesLead(s))'
    BY <1>7, <1>9, <1>11, <1>12 DEF ItemsLead, MovesLead
  <1>14. ASSUME NEW m \in Names \ Pending'
         PROVE  Agree(m)'
    <2>1. CASE m \notin Pending
      <3>1. Agree(m)
        BY <1>3, <2>1 DEF InTurns
      <3> QED
        BY <1>2, <1>5, <3>1 DEF Agree
    <2>2. CASE m \in Pending
      <3>1. PICK s \in Requests : (\E k \in req[s].items : k.name = m)
                                    \/ m \in req[s].move
        BY <2>2 DEF Pending
      <3>2. m \in req[r].move
        BY <1>2, <1>9, <3>1
      <3>3. m = n /\ \A i \in items : i.name # m
        BY <1>7, <1>14, <3>2 DEF Pending
      <3>4. Live(n) = {}
        BY <1>6, <1>8, <3>3
      <3>5. want[n] = NoGroup
        BY <1>3, <3>4 DEF InTurns, MovesLead
      <3> QED
        BY <1>2, <1>5, <3>3, <3>4, <3>5 DEF Agree
    <2> QED
      BY <2>1, <2>2
  \* While tags are to be moved no page is a true one.
  <1>15. fresh' = {}
    BY <1>2, <1>3 DEF InTurns, Settled
  <1> QED
    BY <1>10, <1>13, <1>14, <1>15 DEF InTurns

LEMMA NextAsked == AInv /\ [Next]_vars => AInv'
  <1> SUFFICES ASSUME AInv, [Next]_vars, turns' PROVE InTurns'
    BY NextTyped DEF AInv
  <1>1. CASE UNCHANGED vars
    <2>1. UNCHANGED <<rows, page, req, fresh, turns, want>>
      BY <1>1 DEF vars
    <2>2. InTurns /\ TypeOK
      BY <2>1 DEF AInv, TInv
    <2>3. \A n : Live(n)' = Live(n)
      BY <2>1, SameTable
    <2>4. Pending' = Pending /\ Busy' = Busy
      BY <2>1 DEF Pending, Busy
    <2>5. \A r \in Requests : (ItemsLead(r) /\ MovesLead(r))'
      BY <2>1, <2>2, <2>3 DEF InTurns, ItemsLead, MovesLead
    <2>6. \A n \in Names \ Pending' : Agree(n)'
      BY <2>1, <2>2, <2>3, <2>4 DEF InTurns, Agree
    <2>7. \A o \in fresh' : UpToDate(o)' /\ Settled(o)'
      BY <2>1, <2>2, SameTable, StaysSettled DEF InTurns, TypeOK
    <2> QED
      BY <2>2, <2>4, <2>5, <2>6, <2>7 DEF InTurns
  <1> QED
    BY <1>1, UpdateAsked, ImportAsked, UpdateDataAsked, DeleteAsked,
       PostNamesAsked, PostChangesAsked, PostGroupAsked, SaveItemAsked,
       TakeTagAsked DEF Next

\* Operators who take turns get what they asked for, whatever was renamed,
\* soft-deleted or given an old key before, for any number of tags, groups,
\* pages and requests: from a page as it was read, with one file imported onto
\* it, items edited and deleted, and saved once or again, while whatever else
\* changes the table makes the page one that has to be read again.
THEOREM GetWhatWasAsked == Spec => []AsAsked
  <1>1. AInv => AsAsked
    BY DEF AInv, InTurns, Agree, AsAsked
  <1> QED
    BY InitAsked, NextAsked, <1>1, PTL DEF Spec
=============================================================================
