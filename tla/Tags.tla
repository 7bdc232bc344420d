--------------------------------- MODULE Tags ---------------------------------
(***************************************************************************)
(* The table opc_tags, the handlers that write it (routes/opc.go,          *)
(* routes/data.go), and the Tags page and tag browser of the user          *)
(* interface, which post what they read some time ago.                     *)
(*                                                                         *)
(* A handler of several statements takes its names, or its page's items,   *)
(* one by one; between two statements everybody else may come in.  A row   *)
(* that DELETE /opc/tag/names removes stays, with deleted_at set, and keeps *)
(* its key; the other deletions remove it, and SQLite gives the key again. *)
(*                                                                         *)
(* Abstracted: description and deadband of a tag, and the groups, which    *)
(* stay as they are here.  The order of the items in a request is left     *)
(* open; an import takes any one of the new items of a name for the first. *)
(* A file names a tag once.  The Save button is enabled: it is from the    *)
(* first import on.  A statement fails here only for a key that is in use. *)
(***************************************************************************)
EXTENDS Naturals, FiniteSets

CONSTANTS
    Names,      \* the names of tags
    Groups,     \* the ids of the groups there are
    Default,    \* the default group
    GroupIds,   \* the group ids that rows and files of tags may hold
    Imports,    \* the files an operator may import: sets of records
    Ids,        \* the keys the database may give to a tag: a bound
    Operators,  \* the browsers with the Tags page open
    Requests,   \* requests of several statements at once: a bound
    MaxAsked,   \* how often the operators ask for a change: a bound
    NoRow       \* the value of a key that has no row

NoId == 0      \* an item that has not been saved
NoGroup == 0   \* an item without a group object; a name nobody has asked for

Row == [name : Names, group : GroupIds, live : BOOLEAN]
Record == [name : Names, groupid : GroupIds]
Item == [id : Ids \cup {NoId}, name : Names, groupid : GroupIds,
         group : Groups \cup {NoGroup}]
Page == [items : SUBSET Item, imported : BOOLEAN, records : SUBSET Record]

ASSUME IdsAssumption == Ids \subseteq Nat \ {NoId}
ASSUME GroupsAssumption ==
    /\ Groups \subseteq GroupIds \ {NoGroup}
    /\ Default \in Groups
ASSUME ImportsAssumption ==
    /\ Imports \subseteq SUBSET Record
    /\ \A R \in Imports : \A q, r \in R : q.name = r.name => q = r
ASSUME NoRowAssumption == NoRow \notin Row
ASSUME MaxAskedAssumption == MaxAsked \in Nat

VARIABLES
    rows,      \* opc_tags: a row, or NoRow, for each key
    page,      \* each operator's items, whether they are left from an import,
               \* and the records that were asked for since (history)
    req,       \* each request: names it read, items to save, names to move
    fresh,     \* history: the operators whose page is up to date
    turns,     \* history: so far nobody used an old page or came in between
    want,      \* history: the group asked for last, for each name
    moved,     \* history: a key was given again, or its tag renamed on a page
    top,       \* history: the largest key that was ever given
    asked      \* how many changes were asked for

vars == <<rows, page, req, fresh, turns, want, moved, top, asked>>

Idle == [names |-> {}, items |-> {}, move |-> {}, to |-> NoGroup]

Nothing == [n \in Names |-> NoGroup]

TypeOK ==
    /\ rows \in [Ids -> Row \cup {NoRow}]
    /\ page \in [Operators -> Page]
    /\ req \in [Requests -> [names : SUBSET Names, items : SUBSET Item,
                             move : SUBSET Names, to : Groups \cup {NoGroup}]]
    /\ fresh \in SUBSET Operators
    /\ turns \in BOOLEAN
    /\ want \in [Names -> Groups \cup {NoGroup}]
    /\ moved \in BOOLEAN
    /\ top \in Nat
    /\ asked \in 0..MaxAsked

Init ==
    /\ rows = [id \in Ids |-> NoRow]
    /\ page = [o \in Operators |-> [items |-> {}, imported |-> FALSE, records |-> {}]]
    /\ req = [r \in Requests |-> Idle]
    /\ fresh = {}
    /\ turns = TRUE
    /\ want = Nothing
    /\ moved = FALSE
    /\ top = 0
    /\ asked = 0

(***************************************************************************)
(* The table.  Every query of the code leaves out what is soft-deleted.    *)
(***************************************************************************)
Used == {id \in Ids : rows[id] # NoRow}
Live(n) == {id \in Used : rows[id].live /\ rows[id].name = n}
\* Mutant: the names that are read include the soft-deleted ones.
NamesOfAllRows == {n \in Names : \E id \in Used : rows[id].name = n}

LiveNames == {n \in Names : Live(n) # {}}

\* SQLite gives a new row the key that follows the largest in use.
IsNext(id) == (\A k \in Used : k < id) /\ (id = 1 \/ id - 1 \in Used)

\* What gorm writes for an item: the group object goes before the group id.
Stored(i) == [name |-> i.name, live |-> TRUE,
              group |-> IF i.group # NoGroup THEN i.group ELSE i.groupid]

Insert(id, i) ==
    /\ rows' = [rows EXCEPT ![id] = Stored(i)]
    /\ moved' = (moved \/ id <= top)
    /\ top' = IF id > top THEN id ELSE top

NotWritten(renamed) ==
    /\ moved' = (moved \/ renamed)
    /\ UNCHANGED <<rows, top>>

Overwrite(i, renamed) ==
    /\ rows' = [rows EXCEPT ![i.id] = Stored(i)]
    /\ moved' = (moved \/ renamed)
    /\ UNCHANGED top

\* db.DB.Create: with a key of its own, or a new one; a used key fails.
Create(i) ==
    \/ i.id = NoId /\ \E id \in Ids : IsNext(id) /\ Insert(id, i)
    \/ i.id # NoId /\ rows[i.id] = NoRow /\ Insert(i.id, i)
    \/ i.id # NoId /\ rows[i.id] # NoRow /\ NotWritten(FALSE)

\* db.DB.Save: the whole row is written by its key, whatever tag that is now,
\* or inserted.  Of a soft-deleted row it depends on the version of gorm
\* whether the update finds it; if not, inserting it fails.
SaveTag(i, renamed) ==
    IF i.id \in Used
    THEN Overwrite(i, renamed) \/ (~rows[i.id].live /\ NotWritten(renamed))
    ELSE Create(i)

(***************************************************************************)
(* The history of what was asked for.  Operators take turns when each asks *)
(* only while no request is at work, and from a page that nobody else has  *)
(* changed the table under (ok).                                           *)
(***************************************************************************)
Busy == {r \in Requests : req[r].items # {} \/ req[r].move # {}}

\* After a change only its author may still have a true page (kept).  The
\* history ends with the first change that is out of turn.
Asks(ok, wanted, kept) ==
    /\ asked < MaxAsked
    /\ asked' = asked + 1
    /\ turns' = (turns /\ ok /\ Busy = {})
    /\ want' = IF turns' THEN wanted ELSE Nothing
    /\ fresh' = IF turns' THEN fresh \cap kept ELSE {}

(***************************************************************************)
(* The Tags page.                                                          *)
(***************************************************************************)
ItemOf(id) == [id |-> id, name |-> rows[id].name, groupid |-> rows[id].group,
               group |-> IF rows[id].group \in Groups THEN rows[id].group
                         ELSE NoGroup]

\* update(): GET /data/opc_tags, with the group of each.
Update(o) ==
    /\ page' = [page EXCEPT ![o] =
                    [items |-> {ItemOf(id) : id \in {k \in Used : rows[k].live}},
                     imported |-> FALSE, records |-> {}]]
    /\ fresh' = IF turns /\ Busy = {} THEN fresh \cup {o} ELSE fresh \ {o}
    /\ UNCHANGED <<rows, req, turns, want, moved, top, asked>>

\* The group object for a record: the one with its id, else what the variable
\* holds from an earlier record.
GroupFor(r, R) ==
    IF r.groupid \in Groups THEN {r.groupid}
    ELSE {NoGroup} \cup {q.groupid : q \in {q \in R : q.groupid \in Groups}}

\* What the loop over the items finds for a name: items without a key come
\* last, in the order in which they were imported.
Found(n, items) ==
    LET named == {i \in items : i.name = n}
        first == {i \in named : \A j \in named :
                     j.id = NoId \/ (i.id # NoId /\ i.id <= j.id)}
    IN  IF first = {} THEN {} ELSE {CHOOSE i \in first : TRUE}

\* processResponse: the page keeps the items whose group id the file changes,
\* the new ones, and from an earlier import those that this one does not name.
\* The page is no longer a true one if it is imported into again, or if a group
\* was edited on it, as only the group ids are compared.
Import(o, R) ==
    LET items == page[o].items
        moves(r) == {i \in Found(r.name, items) : i.groupid # r.groupid}
        stays(i) == /\ page[o].imported
                    /\ \A r \in R : i \in Found(r.name, items) =>
                          i.id = NoId /\ i.groupid = r.groupid
    IN  /\ R # {}
        /\ \E g \in [R -> Groups \cup {NoGroup}] :
             /\ \A r \in R : g[r] \in GroupFor(r, R)
             /\ page' = [page EXCEPT ![o] =
                  [items |->
                     {i \in items : stays(i)}
                     \cup (UNION {{[i EXCEPT !.groupid = r.groupid, !.group = g[r]] :
                                      i \in moves(r)} : r \in R})
                     \cup {[id |-> NoId, name |-> r.name, groupid |-> r.groupid,
                            group |-> g[r]] :
                              r \in {q \in R : Found(q.name, items) = {}}},
                   imported |-> TRUE, records |-> R]]
        /\ fresh' = IF \/ page[o].imported
                       \/ \E i \in items : i.group \notin {NoGroup, i.groupid}
                    THEN fresh \ {o} ELSE fresh
        /\ UNCHANGED <<rows, req, turns, want, moved, top, asked>>

\* What was asked for on a page with an import: now also, or no longer, this.
Noted(o, gone, new) ==
    {q \in page[o].records : q.name \notin gone}
        \cup (IF page[o].imported THEN new ELSE {})

\* The dialog, which does not open for an import without a group object, and
\* its save(): PUT /data/opc_tags.  An item without a key stays without one.
UpdateData(o, i, n, g) ==
    LET edited == [i EXCEPT !.name = n, !.group = g] IN
    /\ i \in page[o].items
    /\ ~page[o].imported \/ i.group # NoGroup
    /\ SaveTag(edited, n # i.name)
    /\ page' = [page EXCEPT ![o].items = (@ \ {i}) \cup {edited},
                            ![o].records = Noted(o, {i.name, n}, {[name |-> n, groupid |-> g]})]
    /\ Asks(o \in fresh /\ (n = i.name \/ n \notin LiveNames),
            [want EXCEPT ![i.name] = NoGroup, ![n] = g],
            IF i.id # NoId /\ \A j \in page[o].items : j.name = n => j = i
            THEN {o} ELSE {})
    /\ UNCHANGED req

\* deleteItem: DELETE /data/opc_tags/:id.
DeleteDataByID(o, i) ==
    /\ i \in page[o].items
    /\ i.id # NoId
    /\ rows' = [rows EXCEPT ![i.id] = NoRow]
    /\ page' = [page EXCEPT ![o].items = {j \in @ : j.id # i.id},
                            ![o].records = Noted(o, {i.name}, {})]
    /\ Asks(o \in fresh, [want EXCEPT ![i.name] = NoGroup], {o})
    /\ UNCHANGED <<req, moved, top>>

\* Mutant: the condition is left out, as in DeleteDataAllItems.
DeleteEveryTag(n) ==
    /\ rows' = [id \in Ids |-> NoRow]
    /\ Asks(TRUE, [want EXCEPT ![n] = NoGroup], {})
    /\ UNCHANGED <<page, req, moved, top>>

\* DELETE /data/opc_tags/field/name/:value, the tag browser's uncheck; soft-deleted rows go too.
DeleteDataByField(n) ==
    /\ rows' = [id \in Ids |-> IF id \in Used /\ rows[id].name = n
                               THEN NoRow ELSE rows[id]]
    /\ Asks(TRUE, [want EXCEPT ![n] = NoGroup], {})
    /\ UNCHANGED <<page, req, moved, top>>

\* DELETE /opc/tag/names.
DeleteTagNames(S) ==
    /\ rows' = [id \in Ids |-> IF id \in Used /\ rows[id].name \in S
                               THEN [rows[id] EXCEPT !.live = FALSE]
                               ELSE rows[id]]
    /\ Asks(TRUE, [n \in Names |-> IF n \in S THEN NoGroup ELSE want[n]], {})
    /\ UNCHANGED <<page, req, moved, top>>

(***************************************************************************)
(* The requests of several statements.                                     *)
(***************************************************************************)
Goto(r, names, items, move, to) ==
    req' = [req EXCEPT ![r] = [names |-> names, items |-> items,
                               move |-> move, to |-> to]]

IsIdle(r) == r \notin Busy

\* POST /opc/tag/names: what is not among the names in the table is created.
PostTagNames(r, S) ==
    /\ IsIdle(r)
    /\ Goto(r, LiveNames,
            {[id |-> NoId, name |-> n, groupid |-> Default, group |-> NoGroup] :
                n \in S \ LiveNames}, {}, NoGroup)
    /\ Asks(TRUE, [n \in Names |-> IF n \in S /\ want[n] = NoGroup
                                   THEN Default ELSE want[n]],
            IF S \subseteq LiveNames THEN Operators ELSE {})
    /\ UNCHANGED <<rows, page, moved, top>>

\* saveChanges: POST /opc/tag/changes with the items of the page.
PostTagChanges(r, o) ==
    LET R == page[o].records
    IN  /\ IsIdle(r)
        /\ page[o].items # {}
        /\ Goto(r, LiveNames, page[o].items, {}, NoGroup)
        /\ Asks(o \in fresh /\ \A q \in R : q.groupid \in Groups,
                [n \in Names |->
                    IF \E q \in R : q.name = n /\ q.groupid \in Groups
                    THEN (CHOOSE q \in R : q.name = n).groupid ELSE want[n]],
                IF \A i \in page[o].items : i.id # NoId THEN {o} ELSE {})
        /\ UNCHANGED <<rows, page, moved, top>>

\* One turn of the loop over the items of either.
SaveItem(r) ==
    /\ \E i \in req[r].items :
         /\ IF i.name \in req[r].names THEN SaveTag(i, FALSE)
            ELSE Create([i EXCEPT !.groupid = IF @ = NoGroup THEN Default ELSE @])
         /\ req' = [req EXCEPT ![r].items = @ \ {i}]
    /\ UNCHANGED <<page, fresh, turns, want, asked>>

\* POST /opc/group/:gid/tag: the tags are looked up and saved one by one.
PostGroupAddTag(r, S, g) ==
    /\ IsIdle(r)
    /\ S # {}
    /\ Goto(r, {}, {}, S, g)
    /\ Asks(TRUE, [n \in Names |-> IF n \in S /\ want[n] # NoGroup
                                   THEN g ELSE want[n]], {})
    /\ UNCHANGED <<rows, page, moved, top>>

TakeTag(r) ==
    /\ req[r].items = {}
    /\ \E n \in req[r].move :
         \/ \E id \in Live(n) :
              Goto(r, {n}, {[ItemOf(id) EXCEPT !.groupid = req[r].to,
                                              !.group = NoGroup]},
                   req[r].move \ {n}, req[r].to)
         \/ /\ Live(n) = {}
            /\ Goto(r, {}, {}, req[r].move \ {n}, req[r].to)
    /\ UNCHANGED <<rows, page, fresh, turns, want, moved, top, asked>>

Next ==
    \/ \E o \in Operators :
         \/ Update(o)
         \/ \E R \in Imports : Import(o, R)
         \/ \E i \in page[o].items :
              \/ DeleteDataByID(o, i)
              \/ \E n \in Names, g \in Groups : UpdateData(o, i, n, g)
         \/ \E r \in Requests : PostTagChanges(r, o)
    \/ \E n \in Names : DeleteDataByField(n)
    \/ \E S \in SUBSET Names \ {{}} : DeleteTagNames(S)
    \/ \E r \in Requests :
         \/ \E S \in SUBSET Names \ {{}} :
              PostTagNames(r, S) \/ \E g \in Groups : PostGroupAddTag(r, S, g)
         \/ SaveItem(r)
         \/ TakeTag(r)

Spec == Init /\ [][Next]_vars

(***************************************************************************)
(* Properties.                                                             *)
(***************************************************************************)
Pending == UNION {{i.name : i \in req[r].items} \cup req[r].move : r \in Requests}

\* Operators who take turns get what they asked for: each tag that was posted,
\* imported, moved or edited has one row, in the group asked for last, and a
\* tag that was removed has none, whatever was soft-deleted, renamed or given
\* an old key before (PostTagNames, PostTagChanges, PostGroupAddTag, UpdateData
\* and the deletions); only the tags of a request at work may still differ.
\* To take a turn on the page is to read it again before a second import, after
\* an import with a group there is not, after saving or editing items that have
\* no key yet, and after anybody else's change; else see OneGroupPerTag.
AsAsked ==
    turns => \A n \in Names \ Pending :
                IF want[n] = NoGroup THEN Live(n) = {}
                ELSE \E id \in Ids : Live(n) = {id} /\ rows[id].group = want[n]

\* As long as no tag was renamed and no key given again, a tag is lost to a
\* deletion that names it and to nothing else: no request that was overtaken,
\* and no page however old, takes the row of another tag (DeleteDataByID and
\* Save go by key, all else by name).
NoTagIsLost ==
    [][~moved' => \A n \in Names :
         Live(n) # {} /\ Live(n)' = {} =>
            \/ DeleteDataByField(n)
            \/ \E S \in SUBSET Names : n \in S /\ DeleteTagNames(S)
            \/ \E o \in Operators : \E i \in page[o].items :
                   i.name = n /\ DeleteDataByID(o, i)]_vars

\* Not run, TLC refutes it: a tag is in one group only (USERINTERFACE.md:58).
\* One operator is enough: items that were saved have no key on the page, and
\* saving or editing them again, or importing onto them, makes a second row.
OneGroupPerTag == \A n \in Names : \A i, j \in Live(n) : rows[i].group = rows[j].group
=============================================================================
