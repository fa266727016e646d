------------------------------ MODULE Projections ------------------------------
(***************************************************************************)
(* What the two stores derive from the operations of a space and how it is *)
(* read: the entity heads, the immutable visibility of an entity and the   *)
(* projection rows of fractonica-store-sqlite (a node) and of              *)
(* fractonica-client-sqlite (a client), the pages of the client projection *)
(* routes, the lists of a client, the statistics, and the rebuilding of    *)
(* all of it from the log.                                                 *)
(*                                                                         *)
(* Both stores hold operations of one schema and space.  They receive them *)
(* in different orders; an operation is admitted once its parents are.     *)
(***************************************************************************)
EXTENDS Integers, FiniteSets, Sequences, SequencesExt

CONSTANTS
    Ids,            \* operation ids: numbers, in the order of their text
    Entities,       \* entity ids: numbers, in the order of their text
    Starts,         \* start times of a document, or ranks of its sort text
    Limit,          \* rows in a page
    MaxHeads,       \* MAX_ENTITY_HEADS
    None

ASSUME ProjectionAssumption ==
    /\ Ids \subseteq Nat /\ Entities \subseteq Nat /\ Starts \subseteq Nat
    /\ Limit \in Nat \ {0} /\ MaxHeads \in Nat \ {0}

Stores == {"node", "client"}

VARIABLES
    temporal,       \* whether the schema is sorted by time (record, event)
    op,             \* the operations signed so far
    log,            \* of each store: operation ids by local_sequence
    heads,          \* of each store: entity_heads
    shown,          \* of each store: client_entity_visibility
    row,            \* of each store: the projections
    pass            \* a reader of the node's pages

tables == <<log, heads, shown, row>>
vars == <<temporal, op, log, heads, shown, row, pass>>

Signed == {i \in Ids : op[i] # None}
Stored(s) == Range(log[s])
NoPass == [on |-> FALSE, done |-> FALSE, cursor |-> None, seen |-> <<>>, touched |-> {}]

Init ==
    /\ temporal \in BOOLEAN
    /\ op = [i \in Ids |-> None]
    /\ log = [s \in Stores |-> <<>>]
    /\ heads = [s \in Stores |-> {}]
    /\ shown = [s \in Stores |-> [e \in Entities |-> None]]
    /\ row = [s \in Stores |-> [i \in Ids |-> None]]
    /\ pass = NoPass

-------------------------------------------------------------------------------
(* What a store derives from one more operation o, with id i; the tables   *)
(* are passed and returned as one record, as they are for a rebuild.       *)

(* Mutant of Heads: the operation that arrives last is the only head.      *)
Heads_Latest(old, i, o) == {j \in old : op[j].entity # o.entity} \cup {i}

(* insert_graph, insert_operation: an operation supersedes its parents.    *)
Heads(old, i, o) == (old \ o.parents) \cup {i}

(* The visibility a put declares, None for a tombstone.                    *)
Declared(o) == IF o.kind = "tombstone" THEN None ELSE o.kind

(* The origin of an entity fixes its visibility for good.                  *)
Shown(old, o) == [old EXCEPT ![o.entity] = IF o.parents = {} THEN Declared(o) ELSE @]

(* What an operation does not declare is inherited from the entity.        *)
Visible(o, table) == IF Declared(o) = None THEN table[o.entity] ELSE Declared(o)

(* insert_projection, insert_client_projection: a private document and a   *)
(* tombstone have no sort key of their own and nothing to preview.         *)
Projected(o, table) ==
    [entity |-> o.entity, visibility |-> Visible(o, table),
     tombstone |-> o.kind = "tombstone",
     key |-> IF o.kind = "public" THEN o.start ELSE None,
     preview |-> o.kind = "public",
     files |-> o.files]

(* The derived tables t after operation o, stored as i.                    *)
Insert(t, i, o) ==
    LET s == Shown(t.shown, o) IN
    [heads |-> Heads(t.heads, i, o), shown |-> s,
     row |-> [t.row EXCEPT ![i] = Projected(o, s)]]

Nothing == [heads |-> {}, shown |-> [e \in Entities |-> None], row |-> [i \in Ids |-> None]]
Tables(s) == [heads |-> heads[s], shown |-> shown[s], row |-> row[s]]

Store(s, t) ==
    /\ heads' = [heads EXCEPT ![s] = t.heads]
    /\ shown' = [shown EXCEPT ![s] = t.shown]
    /\ row' = [row EXCEPT ![s] = t.row]

(* validate_topology and the check of the declared visibility.             *)
Admissible(s, o) ==
    LET known == {i \in Stored(s) : op[i].entity = o.entity} IN
    /\ o.parents \subseteq known
    /\ known # {} => heads[s] \cap known # {} /\ o.parents # {}
    /\ known = {} => o.kind # "tombstone"
    /\ o.parents # {} /\ Declared(o) # None => Declared(o) = shown[s][o.entity]
    /\ Cardinality((heads[s] \cap known) \ o.parents) + 1 <= MaxHeads

(* The entities that changed under a reader of the pages are noted; what a *)
(* finished reader saw is kept until the next write.                       *)
Touch(s, e) ==
    pass' = IF s = "client" THEN pass
            ELSE IF pass.on THEN [pass EXCEPT !.touched = @ \cup {e}]
            ELSE NoPass

(* A new operation of store s supersedes some or all of the heads its      *)
(* author sees; the id of a new entity is fresh.                           *)
Sign(s, i, o) ==
    /\ i \notin Signed
    /\ o.parents \subseteq heads[s] /\ Admissible(s, o)
    /\ o.parents = {} => \A j \in Signed : op[j].entity # o.entity
    /\ op' = [op EXCEPT ![i] = o]
    /\ log' = [log EXCEPT ![s] = Append(@, i)]
    /\ Store(s, Insert(Tables(s), i, o))
    /\ Touch(s, o.entity)
    /\ UNCHANGED temporal

(* An operation signed at the other store arrives and is admitted.         *)
Admit(s, i) ==
    /\ i \in Signed \ Stored(s) /\ Admissible(s, op[i])
    /\ log' = [log EXCEPT ![s] = Append(@, i)]
    /\ Store(s, Insert(Tables(s), i, op[i]))
    /\ Touch(s, op[i].entity)
    /\ UNCHANGED <<temporal, op>>

Replayed(t, ids) == FoldLeft(LAMBDA u, i : Insert(u, i, op[i]), t, ids)

(* The client drops everything it derived and replays its log.             *)
rebuild_derived_state ==
    /\ Store("client", Replayed(Nothing, log["client"]))
    /\ UNCHANGED <<temporal, op, log, pass>>

(* The node drops its rows only: heads and visibility are not recomputed,  *)
(* and a tombstone takes its visibility from the table.                    *)
rebuild_client_projections ==
    /\ row' = [row EXCEPT !["node"] =
          [i \in Ids |-> IF i \in Stored("node") THEN Projected(op[i], shown["node"])
                         ELSE None]]
    /\ UNCHANGED <<temporal, op, log, heads, shown, pass>>
-------------------------------------------------------------------------------
(* Reading.  Rows are sorted by descending start time or ascending text,   *)
(* then by entity and by operation; a row without key sorts as -1 or ''.   *)

HeadsOf(s, e) == {i \in heads[s] : op[i].entity = e}
Live(s) == {i \in heads[s] : row[s][i] # None /\ ~row[s][i].tombstone}

Position(s, i) ==
    [sort |-> IF row[s][i].key = None THEN -1 ELSE row[s][i].key,
     entity |-> row[s][i].entity, id |-> i]

(* The ORDER BY of the lists and the keyset predicate of the pages.        *)
Precedes(a, b) ==
    \/ IF temporal THEN a.sort > b.sort ELSE a.sort < b.sort
    \/ a.sort = b.sort /\ a.entity < b.entity
    \/ a.sort = b.sort /\ a.entity = b.entity /\ a.id < b.id

Sorted(s, S) == SetToSortSeq(S, LAMBDA i, j : Precedes(Position(s, i), Position(s, j)))
First(n, q) == SubSeq(q, 1, IF Len(q) < n THEN Len(q) ELSE n)

(* The columns a list returns of row i.                                    *)
Summary(s, i) ==
    [id |-> i, visibility |-> row[s][i].visibility, key |-> row[s][i].key,
     files |-> row[s][i].files,
     conflicted |-> Cardinality(HeadsOf(s, row[s][i].entity)) > 1]

Summaries(s, q) == [k \in DOMAIN q |-> Summary(s, q[k])]

list_entities(n) == Summaries("client", First(n, Sorted("client", Live("client"))))

(* A listed record comes with its document unless that is encrypted ...    *)
list_records(n) ==
    LET q == First(n, Sorted("client", Live("client"))) IN
    [k \in DOMAIN q |-> [summary |-> Summary("client", q[k]),
                         readable |-> op[q[k]].kind = "public"]]

(* ... and a listed preview with the columns kept in its row.              *)
list_record_previews(n) ==
    LET q == First(n, Sorted("client", Live("client"))) IN
    [k \in DOMAIN q |-> [summary |-> Summary("client", q[k]),
                         readable |-> row["client"][q[k]].preview]]

(* The record of exactly this live head, or nothing.                       *)
record(i) ==
    IF i \in Live("client")
    THEN {[summary |-> Summary("client", i), readable |-> op[i].kind = "public"]}
    ELSE {}

(* The cursor of the node is sent back as query parameters: the number for *)
(* a schema sorted by time, the text for the others, never both.           *)
Cursor(p) == [number |-> IF temporal THEN p.sort ELSE None,
              text |-> IF temporal THEN None ELSE p.sort,
              entity |-> p.entity, id |-> p.id]

parse_client_cursor(q) ==
    IF q = None THEN None
    ELSE [sort |-> IF temporal THEN q.number ELSE q.text,
          entity |-> q.entity, id |-> q.id]

(* Mutant of load_client_entities: the cursor is the row that was popped.  *)
load_client_entities_Popped(cursor) ==
    LET rest == {i \in Live("node") :
                    cursor = None \/ Precedes(cursor, Position("node", i))}
        fetched == First(Limit + 1, Sorted("node", rest))
        items == First(Limit, fetched)
    IN  [items |-> items,
         next |-> IF Len(fetched) > Limit THEN Cursor(Position("node", Last(fetched)))
                 ELSE None]

(* One page: one row more than asked for is fetched to learn whether there *)
(* is a next page, whose cursor is the last row of this one.               *)
load_client_entities(cursor) ==
    LET rest == {i \in Live("node") :
                    cursor = None \/ Precedes(cursor, Position("node", i))}
        fetched == First(Limit + 1, Sorted("node", rest))
        items == First(Limit, fetched)
    IN  [items |-> items,
         next |-> IF Len(fetched) > Limit THEN Cursor(Position("node", Last(items)))
                 ELSE None]

(* Entities are counted once, files once for each live head.               *)
load_client_stats ==
    [entities |-> Cardinality({row["node"][i].entity : i \in Live("node")}),
     files |-> FoldSet(LAMBDA i, n : n + row["node"][i].files, 0, Live("node"))]

(* entity_state: the heads of an entity that has a history.                *)
entity_state(e) == SetToSortSeq(HeadsOf("node", e), <)

StartPass ==
    /\ ~pass.on
    /\ pass' = [NoPass EXCEPT !.on = TRUE]
    /\ UNCHANGED <<temporal, op, tables>>

(* The reader asks for the page after its cursor and keeps what it gets.   *)
NextPage ==
    /\ pass.on
    /\ LET page == load_client_entities(parse_client_cursor(pass.cursor)) IN
       pass' = [pass EXCEPT !.seen = @ \o Summaries("node", page.items),
                            !.cursor = page.next,
                            !.on = page.next # None, !.done = page.next = None]
    /\ UNCHANGED <<temporal, op, tables>>
-------------------------------------------------------------------------------
(* A put has one attached file, a tombstone none and no start.             *)
Operations(s) ==
    LET Puts == [kind : {"public"}, start : Starts, files : {1}]
        Others == {[kind |-> "private", start |-> None, files |-> 1],
                   [kind |-> "tombstone", start |-> None, files |-> 0]}
    IN  {[entity |-> e, parents |-> P, kind |-> b.kind, start |-> b.start,
          files |-> b.files] :
            e \in Entities, P \in SUBSET heads[s], b \in Puts \cup Others}

Next ==
    \/ \E s \in Stores, i \in Ids : \E o \in Operations(s) : Sign(s, i, o)
    \/ \E s \in Stores, i \in Ids : Admit(s, i)
    \/ rebuild_derived_state \/ rebuild_client_projections
    \/ StartPass \/ NextPage

Spec == Init /\ [][Next]_vars
-------------------------------------------------------------------------------
Operation == [entity : Entities, parents : SUBSET Ids, kind : {"public", "private", "tombstone"},
              start : Starts \cup {None}, files : {0, 1}]
Row == [entity : Entities, visibility : {"public", "private"}, tombstone : BOOLEAN,
        key : Starts \cup {None}, preview : BOOLEAN, files : {0, 1}]

(* The tables hold well-formed values: a row always has a visibility.      *)
TypeOK ==
    /\ temporal \in BOOLEAN
    /\ op \in [Ids -> Operation \cup {None}]
    /\ \A s \in Stores : Stored(s) \subseteq Signed /\ IsInjective(log[s])
    /\ heads \in [Stores -> SUBSET Ids]
    /\ shown \in [Stores -> [Entities -> {"public", "private", None}]]
    /\ row \in [Stores -> [Ids -> Row \cup {None}]]
    /\ pass.on \in BOOLEAN /\ pass.touched \subseteq Entities

(* Whatever the order in which they received them, two stores that hold    *)
(* the same operations list the same entities in the same order, with the  *)
(* same visibility, sort key, attachments and conflict mark, and the same  *)
(* heads of each entity, also after either has rebuilt what it derives     *)
(* from its log (list_entities, the pages of the node).  On the client,    *)
(* the records, their previews and the lookup of one record show the same  *)
(* heads: a superseded or deleted record cannot be opened although its row *)
(* is still there (list_records, list_record_previews, record).            *)
ReplicasAgree ==
    LET all == Cardinality(Ids)
        listed == list_records(all)
    IN  /\ \A s \in Stores :
              heads[s] = {i \in Stored(s) : \A j \in Stored(s) : i \notin op[j].parents}
        /\ Stored("node") = Stored("client") =>
              list_entities(all) = Summaries("node", Sorted("node", Live("node")))
        /\ list_record_previews(all) = listed
        /\ Range(listed) = UNION {record(i) : i \in Ids}

(* A pass over the pages is exact, whatever is written between two pages:  *)
(* an entity whose heads did not change was returned with all its live     *)
(* heads, as they are; no operation is returned twice, and the rows are in *)
(* order (load_client_entities).  A pass nothing interfered with returns   *)
(* as many entities and attachments as the statistics count                *)
(* (load_client_stats).                                                    *)
PassIsExact ==
    /\ pass.done =>
          \A e \in Entities \ pass.touched :
              {v \in Range(pass.seen) : op[v.id].entity = e} =
              {Summary("node", i) : i \in Live("node") \cap HeadsOf("node", e)}
    /\ \A k \in 2..Len(pass.seen) :
          LET At(n) == Position("node", pass.seen[n].id) IN Precedes(At(k - 1), At(k))
    /\ pass.done /\ pass.touched = {} =>
          /\ load_client_stats.entities = Cardinality({op[v.id].entity : v \in Range(pass.seen)})
          /\ load_client_stats.files = FoldSeq(LAMBDA v, n : n + v.files, 0, pass.seen)

===============================================================================
