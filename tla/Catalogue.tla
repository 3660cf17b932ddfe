----------------------------- MODULE Catalogue -----------------------------
(***************************************************************************)
(* The model catalogue: ai_models with its routes and prices, kept by the  *)
(* SyncModels calls of genfity-app, edited by administrators, and read by  *)
(* every request that resolves a model.  A sync is many statements without *)
(* a transaction; so is an edit, which reads a row and writes all of it.   *)
(*                                                                         *)
(* Routes and prices are kept alike, as rows of two tables: a route's      *)
(* value is its target, a price's value its amount.  A unique index allows *)
(* one active row per table and model, and a model that is deleted takes   *)
(* its rows along.  Edits that rename a model or move a row to another     *)
(* model are left out.                                                     *)
(***************************************************************************)
EXTENDS Integers, FiniteSets

CONSTANTS
  Models,     \* public model names
  Prefixed,   \* of a bare name, the name with the genfity/ prefix
  Targets,    \* router instance and router model of a route
  Amounts,    \* prices
  None,       \* a value the payload leaves out, and no row
  Payloads,   \* the bodies genfity-app sends: an item for each model it names
  Syncs,      \* SyncModels calls that may overlap
  Admins,     \* PATCH requests that may overlap
  MaxSyncs, MaxEdits, MaxFaults   \* bounds

Statuses == {"active", "retired"}   \* any other status counts as active here
Items    == [status : Statuses, route : Targets \cup {None}, price : Amounts \cup {None}]
Tables   == {"route", "price"}
Values(t) == IF t = "route" THEN Targets ELSE Amounts
Rows     == [id : Nat, table : Tables, model : Models, value : Targets \cup Amounts,
             active : BOOLEAN]

ASSUME CatalogueAssumption ==
  /\ DOMAIN Prefixed \subseteq Models
  /\ \A b \in DOMAIN Prefixed : Prefixed[b] \in Models \ DOMAIN Prefixed
  /\ None \notin Targets \cup Amounts /\ None \notin Rows
  /\ \A p \in Payloads : DOMAIN p \subseteq Models /\ \A m \in DOMAIN p : p[m] \in Items
  /\ MaxSyncs \in Nat /\ MaxEdits \in Nat /\ MaxFaults \in Nat

VARIABLES
  status,     \* of each model: "none" (no row), "active" or "retired"
  mid,        \* of each model: the id it was last created with
  rows,       \* ai_model_routes and ai_model_prices
  ids,        \* rows created so far, an id being its row's age
  spc, payload, todo, cur, found,  \* of each sync: where it is, what it was sent,
                                   \* the models to do, the one being done with
                                   \* its table, and the row read
  apc, copy,  \* of each PATCH: where it is, the row or model to be written back
  syncs, edits, faults,
  disturbed,  \* of each sync: someone else wrote since it began, or one of its
              \* statements failed
  tampered    \* an edit, a failure, an aborted or overlapped sync, or a payload
              \* that names a retired model has happened

sync   == <<spc, payload, todo, cur, found>>
admin  == <<apc, copy>>
bounds == <<syncs, edits, faults>>
vars   == <<status, mid, rows, ids, sync, admin, bounds, disturbed, tampered>>

Init ==
  /\ status = [m \in Models |-> "none"] /\ mid = [m \in Models |-> 0]
  /\ rows = {} /\ ids = 0
  /\ spc = [s \in Syncs |-> "idle"] /\ payload = [s \in Syncs |-> None]
  /\ todo = [s \in Syncs |-> {}] /\ cur = [s \in Syncs |-> None] /\ found = [s \in Syncs |-> None]
  /\ apc = [a \in Admins |-> "idle"] /\ copy = [a \in Admins |-> None]
  /\ syncs = 0 /\ edits = 0 /\ faults = 0
  /\ disturbed = [s \in Syncs |-> FALSE] /\ tampered = FALSE

-----------------------------------------------------------------------------
(* The tables                                                              *)

Of(t, m)     == {r \in rows : r.table = t /\ r.model = m}
Active(t, m) == {r \in Of(t, m) : r.active}
Newest(rs)   == IF rs = {} THEN None ELSE CHOOSE r \in rs : \A q \in rs : q.id <= r.id
IsRow(id)    == \E q \in rows : q.id = id

\* Mutant: the route that is there is not looked up.
ExistingPriceOnly(t, m) == IF t = "route" THEN None ELSE Newest(Of(t, m))

\* GetRouteByModelID reads active routes only; of the prices, ListPrices has the
\* newest first.
Existing(t, m) == IF t = "route" THEN Newest(Active(t, m)) ELSE Newest(Of(t, m))

\* The rows with r written, and whether the model it is to belong to still is the
\* one known as id and the unique index accepts it.
Written(r) == {q \in rows : q.id # r.id} \cup {r}
Unique(r)  == ~r.active \/ \A q \in Active(r.table, r.model) : q.id = r.id
Accepted(r, id) == Unique(r) /\ (IsRow(r.id) \/ (status[r.model] # "none" /\ mid[r.model] = id))

\* UpsertModel: insert with a fresh id, or overwrite what has this public name.
Upserted(m, st) ==
  /\ status' = [status EXCEPT ![m] = st]
  /\ mid' = [mid EXCEPT ![m] = IF status[m] = "none" THEN @ + 1 ELSE @]

\* A write by p is one that the other syncs under way did not make.
Disturb(p) ==
  disturbed' = [s \in Syncs |-> disturbed[s] \/ (s # p /\ spc[s] # "idle")]

\* Mutant: only a missing model is looked for under its prefix.
ResolveMissing(m) ==
  LET n == IF m \in DOMAIN Prefixed /\ status[m] = "none" THEN Prefixed[m] ELSE m
  IN IF status[n] \in {"none", "retired"} THEN None ELSE Newest(Active("route", n))

\* ResolveRouteByPublicModel: a bare name without a live model stands for the
\* prefixed one, and a retired model has no route.
Resolve(m) ==
  LET n == IF m \in DOMAIN Prefixed /\ status[m] \in {"none", "retired"} THEN Prefixed[m] ELSE m
  IN IF status[n] \in {"none", "retired"} THEN None ELSE Newest(Active("route", n))

-----------------------------------------------------------------------------
(* SyncModels: each model of the payload with its route and price          *)

StartSync(s, p) ==
  /\ spc[s] = "idle" /\ syncs < MaxSyncs
  /\ syncs' = syncs + 1
  /\ payload' = [payload EXCEPT ![s] = p]
  /\ todo' = [todo EXCEPT ![s] = {[model |-> m, id |-> 0] : m \in DOMAIN p}]
  /\ spc' = [spc EXCEPT ![s] = "models"]
  /\ LET overlap == \E z \in Syncs : spc[z] # "idle"
     IN /\ disturbed' = [disturbed EXCEPT ![s] = overlap]
        /\ tampered' = (tampered \/ overlap \/ \E m \in DOMAIN p : p[m].status = "retired")
  /\ UNCHANGED <<status, mid, rows, ids, cur, found, admin, edits, faults>>

\* The tables for which the item of m has a value, the route being written first.
Wanted(s, m) == {t \in Tables : payload[s][m][t] # None}

UpsertModel(s, x) ==
  /\ spc[s] = "models" /\ x \in todo[s]
  /\ Upserted(x.model, payload[s][x.model].status)
  /\ todo' = [todo EXCEPT ![s] = @ \ {x}]
  /\ LET w == Wanted(s, x.model)
         t == IF "route" \in w THEN "route" ELSE "price"
     IN /\ spc' = [spc EXCEPT ![s] = IF w = {} THEN "models" ELSE "find"]
        /\ cur' = [cur EXCEPT ![s] = IF w = {} THEN None
                                     ELSE [model |-> x.model, id |-> mid'[x.model], table |-> t]]
  /\ Disturb(s)
  /\ UNCHANGED <<rows, ids, payload, found, admin, bounds, tampered>>

FindRow(s) ==
  /\ spc[s] = "find"
  /\ found' = [found EXCEPT ![s] = IF mid[cur[s].model] = cur[s].id
                                   THEN Existing(cur[s].table, cur[s].model) ELSE None]
  /\ spc' = [spc EXCEPT ![s] = "put"]
  /\ UNCHANGED <<status, mid, rows, ids, payload, todo, cur, admin, bounds, disturbed, tampered>>

\* UpsertRoute, UpsertPrice: the row read is overwritten, without one a new row is
\* inserted.
NewRow(s) ==
  [id |-> IF found[s] = None THEN ids + 1 ELSE found[s].id, table |-> cur[s].table,
   model |-> cur[s].model, value |-> payload[s][cur[s].model][cur[s].table], active |-> TRUE]

PutRow(s) ==
  /\ spc[s] = "put"
  /\ Accepted(NewRow(s), cur[s].id)
  /\ rows' = Written(NewRow(s)) /\ ids' = ids + (IF found[s] = None THEN 1 ELSE 0)
  /\ LET more == cur[s].table = "route" /\ "price" \in Wanted(s, cur[s].model)
     IN /\ spc' = [spc EXCEPT ![s] = IF more THEN "find" ELSE "models"]
        /\ cur' = [cur EXCEPT ![s] = IF more THEN [@ EXCEPT !.table = "price"] ELSE None]
  /\ found' = [found EXCEPT ![s] = None]
  /\ Disturb(s)
  /\ UNCHANGED <<status, mid, payload, todo, admin, bounds, tampered>>

\* The database refuses the row: the call ends with an error, the remaining
\* models and the cleanup are not done.
Conflict(s) ==
  /\ spc[s] = "put" /\ ~Accepted(NewRow(s), cur[s].id)
  /\ spc' = [spc EXCEPT ![s] = "conflict"] /\ tampered' = TRUE
  /\ UNCHANGED <<status, mid, rows, ids, payload, todo, cur, found, admin, bounds, disturbed>>

-----------------------------------------------------------------------------
(* SyncModels: the cleanup retires the live models outside the payload     *)

ListAllModels(s) ==
  /\ spc[s] = "models" /\ todo[s] = {}
  /\ todo' = [todo EXCEPT ![s] = {[model |-> m, id |-> mid[m]] :
                                  m \in {n \in Models \ DOMAIN payload[s] : status[n] = "active"}}]
  /\ spc' = [spc EXCEPT ![s] = "retire"]
  /\ UNCHANGED <<status, mid, rows, ids, payload, cur, found, admin, bounds, disturbed, tampered>>

IsCurrent(x) == status[x.model] # "none" /\ mid[x.model] = x.id

RetireModel(s, x) ==
  /\ spc[s] = "retire" /\ x \in todo[s]
  /\ status' = IF IsCurrent(x) THEN [status EXCEPT ![x.model] = "retired"] ELSE status
  /\ todo' = [todo EXCEPT ![s] = @ \ {x}]
  /\ cur' = [cur EXCEPT ![s] = [model |-> x.model, id |-> x.id, table |-> "route"]]
  /\ spc' = [spc EXCEPT ![s] = "find_old"]
  /\ Disturb(s)
  /\ UNCHANGED <<mid, rows, ids, payload, found, admin, bounds, tampered>>

FindOld(s) ==
  /\ spc[s] = "find_old"
  /\ found' = [found EXCEPT ![s] = IF IsCurrent(cur[s])
                                   THEN Newest(Active(cur[s].table, cur[s].model)) ELSE None]
  /\ spc' = [spc EXCEPT ![s] = "put_old"]
  /\ UNCHANGED <<status, mid, rows, ids, payload, todo, cur, admin, bounds, disturbed, tampered>>

NextOld(s) ==
  /\ spc' = [spc EXCEPT ![s] = IF cur[s].table = "route" THEN "find_old" ELSE "retire"]
  /\ cur' = [cur EXCEPT ![s] = IF @.table = "route" THEN [@ EXCEPT !.table = "price"] ELSE None]
  /\ found' = [found EXCEPT ![s] = None]

\* Mutant: only the route goes.
RetireRowRouteOnly(s) ==
  /\ spc[s] = "put_old"
  /\ rows' = IF found[s] = None \/ cur[s].table = "price" THEN rows
             ELSE IF IsRow(found[s].id) THEN Written([found[s] EXCEPT !.active = FALSE]) ELSE rows
  /\ NextOld(s)
  /\ Disturb(s)
  /\ UNCHANGED <<status, mid, ids, payload, todo, admin, bounds, tampered>>

\* UpdateRoute, UpdatePrice with the row that was read, if it is still there.
RetireRow(s) ==
  /\ spc[s] = "put_old"
  /\ rows' = IF found[s] = None THEN rows
             ELSE IF IsRow(found[s].id) THEN Written([found[s] EXCEPT !.active = FALSE]) ELSE rows
  /\ NextOld(s)
  /\ Disturb(s)
  /\ UNCHANGED <<status, mid, ids, payload, todo, admin, bounds, tampered>>

SyncDone(s) ==
  /\ spc[s] = "retire" /\ todo[s] = {}
  /\ spc' = [spc EXCEPT ![s] = "done"]
  /\ UNCHANGED <<status, mid, rows, ids, payload, todo, cur, found, admin, bounds, disturbed, tampered>>

\* The call is over: done, ended by an error, or lost with its process.
Forget(s) ==
  /\ spc' = [spc EXCEPT ![s] = "idle"] /\ payload' = [payload EXCEPT ![s] = None]
  /\ todo' = [todo EXCEPT ![s] = {}] /\ cur' = [cur EXCEPT ![s] = None]
  /\ found' = [found EXCEPT ![s] = None] /\ disturbed' = [disturbed EXCEPT ![s] = FALSE]

Return(s) ==
  /\ spc[s] \in {"done", "conflict"}
  /\ Forget(s)
  /\ UNCHANGED <<status, mid, rows, ids, admin, bounds, tampered>>

-----------------------------------------------------------------------------
(* Faults of the statements of a sync                                      *)

Fault(s) ==
  /\ faults < MaxFaults /\ faults' = faults + 1 /\ tampered' = TRUE
  /\ UNCHANGED <<status, mid, rows, ids, admin, syncs, edits>>

\* A write of the first half fails, an item has no name, or the process dies.
SyncFails(s) ==
  /\ spc[s] \notin {"idle", "done", "conflict"}
  /\ Fault(s) /\ Forget(s)

\* A read that fails is taken for no row.
FindFails(s) ==
  /\ spc[s] \in {"find", "find_old"}
  /\ Fault(s)
  /\ found' = [found EXCEPT ![s] = None]
  /\ spc' = [spc EXCEPT ![s] = IF @ = "find" THEN "put" ELSE "put_old"]
  /\ disturbed' = [disturbed EXCEPT ![s] = TRUE]
  /\ UNCHANGED <<payload, todo, cur>>

\* ListAllModels answers nothing when it fails, and the cleanup is skipped.
ListFails(s) ==
  /\ spc[s] = "models" /\ todo[s] = {}
  /\ Fault(s)
  /\ spc' = [spc EXCEPT ![s] = "retire"] /\ disturbed' = [disturbed EXCEPT ![s] = TRUE]
  /\ UNCHANGED <<payload, todo, cur, found>>

\* The failures of the cleanup's writes are ignored.
RetireFails(s) ==
  /\ Fault(s)
  /\ \/ /\ spc[s] = "put_old" /\ NextOld(s) /\ UNCHANGED todo
     \/ \E x \in todo[s] :
          /\ spc[s] = "retire"
          /\ todo' = [todo EXCEPT ![s] = @ \ {x}]
          /\ cur' = [cur EXCEPT ![s] = [model |-> x.model, id |-> x.id, table |-> "route"]]
          /\ spc' = [spc EXCEPT ![s] = "find_old"] /\ UNCHANGED found
  /\ disturbed' = [disturbed EXCEPT ![s] = TRUE]
  /\ UNCHANGED payload

-----------------------------------------------------------------------------
(* Administrators                                                          *)

Edit ==
  /\ edits < MaxEdits /\ edits' = edits + 1 /\ tampered' = TRUE
  /\ disturbed' = [s \in Syncs |-> disturbed[s] \/ spc[s] # "idle"]
  /\ UNCHANGED <<sync, syncs, faults>>

\* CreateModel is an upsert too.
CreateModel(m, st) ==
  /\ Edit /\ Upserted(m, st)
  /\ UNCHANGED <<rows, ids, admin>>

\* Mutant: routes and prices outlive their model.
DeleteModelOnly(m) ==
  /\ Edit /\ status[m] # "none"
  /\ status' = [status EXCEPT ![m] = "none"]
  /\ UNCHANGED <<rows, mid, ids, admin>>

DeleteModel(m) ==
  /\ Edit /\ status[m] # "none"
  /\ status' = [status EXCEPT ![m] = "none"]
  /\ rows' = {r \in rows : r.model # m}
  /\ UNCHANGED <<mid, ids, admin>>

\* UpsertModelRoute, UpsertModelPrice with an id of its own or that of a row, which
\* keeps its model.
PostRow(t, m, v, b) ==
  /\ Edit
  /\ \E r \in Of(t, m) \cup {[id |-> ids + 1, table |-> t, model |-> m]} :
       LET n == [id |-> r.id, table |-> t, model |-> m, value |-> v, active |-> b]
       IN /\ Accepted(n, mid[m])
          /\ rows' = Written(n) /\ ids' = IF n.id > ids THEN n.id ELSE ids
  /\ UNCHANGED <<status, mid, admin>>

DeleteRow(r) ==
  /\ Edit /\ r \in rows
  /\ rows' = rows \ {r}
  /\ UNCHANGED <<status, mid, ids, admin>>

\* UpdateModelRoute, UpdateModelPrice, UpdateModel: read the row, change some of
\* its fields, write all of them.
ReadForPatch(a) ==
  /\ apc[a] = "idle" /\ edits < MaxEdits
  /\ \/ \E r \in rows : copy' = [copy EXCEPT ![a] = r] /\ apc' = [apc EXCEPT ![a] = "row"]
     \/ \E m \in Models :
          /\ status[m] # "none"
          /\ copy' = [copy EXCEPT ![a] = [model |-> m, id |-> mid[m], status |-> status[m]]]
          /\ apc' = [apc EXCEPT ![a] = "model"]
  /\ UNCHANGED <<status, mid, rows, ids, sync, bounds, disturbed, tampered>>

Patched(a) == apc' = [apc EXCEPT ![a] = "idle"] /\ copy' = [copy EXCEPT ![a] = None]

PatchRow(a) ==
  /\ apc[a] = "row"
  /\ Edit /\ Patched(a)
  /\ \E v \in Values(copy[a].table) \cup {copy[a].value}, b \in BOOLEAN :
       LET n == [copy[a] EXCEPT !.value = v, !.active = b]
       IN rows' = IF IsRow(n.id) /\ Unique(n) THEN Written(n) ELSE rows
  /\ UNCHANGED <<status, mid, ids>>

PatchModel(a) ==
  /\ apc[a] = "model"
  /\ Edit /\ Patched(a)
  /\ \E st \in Statuses : status' = IF IsCurrent(copy[a]) THEN [status EXCEPT ![copy[a].model] = st] ELSE status
  /\ UNCHANGED <<mid, rows, ids>>

-----------------------------------------------------------------------------
SyncStep(s) ==
  \/ \E p \in Payloads : StartSync(s, p)
  \/ \E x \in todo[s] : UpsertModel(s, x) \/ RetireModel(s, x)
  \/ FindRow(s) \/ PutRow(s) \/ Conflict(s)
  \/ ListAllModels(s) \/ FindOld(s) \/ RetireRow(s) \/ SyncDone(s) \/ Return(s)
  \/ SyncFails(s) \/ FindFails(s) \/ ListFails(s) \/ RetireFails(s)

AdminStep ==
  \/ \E m \in Models : DeleteModel(m) \/ \E st \in Statuses : CreateModel(m, st)
  \/ \E t \in Tables, m \in Models, b \in BOOLEAN : \E v \in Values(t) : PostRow(t, m, v, b)
  \/ \E r \in rows : DeleteRow(r)
  \/ \E a \in Admins : ReadForPatch(a) \/ PatchRow(a) \/ PatchModel(a)

Next == (\E s \in Syncs : SyncStep(s)) \/ AdminStep

Spec == Init /\ [][Next]_vars

-----------------------------------------------------------------------------
(* Properties                                                              *)

\* Types, and what the schema promises: a row belongs to a model that exists, and
\* at most one row of a table is active for a model.
TypeOK ==
  /\ status \in [Models -> Statuses \cup {"none"}] /\ mid \in [Models -> Nat]
  /\ rows \subseteq Rows
  /\ \A r \in rows : r.id \in 1..ids /\ status[r.model] # "none" /\ r.value \in Values(r.table)
  /\ \A t \in Tables, m \in Models : Cardinality(Active(t, m)) <= 1
  /\ spc \in [Syncs -> {"idle", "models", "find", "put", "retire", "find_old", "put_old", "done", "conflict"}]
  /\ apc \in [Admins -> {"idle", "row", "model"}]

\* A SyncModels call that returned without an error, with nothing else written and
\* no statement failing meanwhile, leaves the catalogue as the payload says: the
\* models it names have its status, route and price, and requests for a live one
\* take that route; the others are retired, and a bare name among them follows its
\* prefixed model.
SyncedExact ==
  \A s \in Syncs : (spc[s] = "done" /\ ~disturbed[s]) =>
    LET p == payload[s]
        Live(m) == m \in DOMAIN p /\ p[m].status = "active" /\ p[m].route # None
        Routed(m, n) == Live(n) => (Resolve(m) # None /\ Resolve(m).value = p[n].route)
    IN /\ \A m \in DOMAIN p :
            /\ status[m] = p[m].status
            /\ \A t \in Wanted(s, m) : {r.value : r \in Active(t, m)} = {p[m][t]}
            /\ Routed(m, m)
       /\ \A m \in Models \ DOMAIN p :
            /\ status[m] \in {"none", "retired"}
            /\ m \in DOMAIN Prefixed => Routed(m, Prefixed[m])

\* "deactivate their associated routes and prices so billing/routing cannot
\* reference a retired model": as long as the calls were not overlapped, edited
\* around or failed in the middle, no retired model keeps an active row between
\* them.
RetiredInert ==
  ((\A s \in Syncs : spc[s] = "idle") /\ ~tampered) =>
    \A m \in Models : status[m] = "retired" => \A t \in Tables : Active(t, m) = {}

\* A sync ends with a refused row only if it was disturbed, or if an administrator
\* left an inactive price that is newer than the active one: the sync takes the
\* newest price and activates it beside the other, and so will every later sync.
Shadowed(m) == \E q \in Of("price", m), r \in Active("price", m) : ~q.active /\ q.id > r.id
SyncSucceeds ==
  \A s \in Syncs : (spc[s] = "conflict" /\ ~disturbed[s]) =>
    cur[s].table = "price" /\ Shadowed(cur[s].model)

=============================================================================
