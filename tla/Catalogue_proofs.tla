-------------------------- MODULE Catalogue_proofs --------------------------
(***************************************************************************)
(* Proofs about Catalogue, for any models, payloads and values, any number *)
(* of overlapping syncs and edits, any number of failures.                 *)
(*                                                                         *)
(* The inductive invariant has six parts: Types; Schema, what the schema   *)
(* promises of the rows; Held, that the rows a sync or a PATCH has read    *)
(* still agree with the tables on whose rows they are; Place, where a sync *)
(* is, whatever others do; Progress, what an undisturbed one has done so   *)
(* far; and Calm, what holds as long as calls come one after the other.    *)
(***************************************************************************)
EXTENDS Catalogue, FiniteSetTheorems, WellFoundedInduction, TLAPS

-----------------------------------------------------------------------------
(* The inductive invariant                                                 *)

\* A model to be done, a table of one being done, and a model read by a PATCH.
Entries == [model : Models, id : Nat]
Places  == [model : Models, id : Nat, table : Tables]
Copies  == [model : Models, id : Nat, status : Statuses]

\* The types of the variables.
Types ==
  /\ status \in [Models -> Statuses \cup {"none"}] /\ mid \in [Models -> Nat] /\ ids \in Nat
  /\ spc \in [Syncs -> {"idle", "models", "find", "put", "retire", "find_old", "put_old",
                        "done", "conflict"}]
  /\ payload \in [Syncs -> Payloads \cup {None}]
  /\ todo \in [Syncs -> SUBSET Entries]
  /\ cur \in [Syncs -> Places \cup {None}]
  /\ found \in [Syncs -> Rows \cup {None}]
  /\ apc \in [Admins -> {"idle", "row", "model"}]
  /\ copy \in [Admins -> Rows \cup Copies \cup {None}]
  /\ disturbed \in [Syncs -> BOOLEAN] /\ tampered \in BOOLEAN

\* What the schema promises: ids are unique, a row belongs to a model that
\* exists, and a table has at most one active row for a model.
Schema ==
  /\ rows \subseteq Rows
  /\ \A r \in rows : r.id \in 1..ids /\ status[r.model] # "none" /\ r.value \in Values(r.table)
  /\ \A q, r \in rows : q.id = r.id => q = r
  /\ \A q, r \in rows : q.active /\ r.active /\ q.table = r.table /\ q.model = r.model => q = r

\* The rows that a sync or a PATCH has read and may write back.
Read == ({found[s] : s \in Syncs} \ {None}) \cup {copy[a] : a \in {b \in Admins : apc[b] = "row"}}

\* An id stands for one table and model for ever, also in copies of its row.
Held ==
  /\ \A r \in Read : r.id \in 1..ids /\ r.value \in Values(r.table)
  /\ \A q, r \in rows \cup Read : q.id = r.id => q.table = r.table /\ q.model = r.model
  /\ \A a \in Admins : /\ apc[a] = "row" => copy[a] \in Rows
                       /\ apc[a] = "model" => copy[a] \in Copies

\* Where a sync is, whatever others do meanwhile.
Place(s) ==
  /\ spc[s] # "idle" => payload[s] \in Payloads
  /\ spc[s] \in {"models", "find", "put"} =>
       \A x \in todo[s] : x.model \in DOMAIN payload[s] /\ x.id = 0
  /\ spc[s] \in {"find", "put", "conflict"} =>
       /\ cur[s] \in Places /\ cur[s].model \in DOMAIN payload[s]
       /\ cur[s].table \in Wanted(s, cur[s].model)
  /\ spc[s] \in {"find_old", "put_old"} => cur[s] \in Places
  /\ spc[s] \notin {"put", "put_old", "conflict"} => found[s] = None
  /\ found[s] # None => found[s].table = cur[s].table /\ found[s].model = cur[s].model

\* The models a sync has not yet written.
Left(s) == {x.model : x \in todo[s]}

\* The item of m is in the table t.
Has(s, t, m) == \E r \in Active(t, m) : r.value = payload[s][m][t]

\* What an undisturbed sync has done.
Upserting(s) ==
  /\ \A m \in DOMAIN payload[s] \ Left(s) : status[m] = payload[s][m].status
  /\ \A m \in DOMAIN payload[s] \ Left(s) : \A t \in Wanted(s, m) :
       \/ Has(s, t, m)
       \/ spc[s] # "models" /\ m = cur[s].model /\ (t = "price" \/ cur[s].table = "route")
  /\ spc[s] \in {"find", "put"} => cur[s].model \notin Left(s) /\ mid[cur[s].model] = cur[s].id
  /\ spc[s] = "put" => found[s] = Existing(cur[s].table, cur[s].model)

Cleaning(s) ==
  /\ \A m \in DOMAIN payload[s] :
       /\ status[m] = payload[s][m].status
       /\ \A t \in Wanted(s, m) : Has(s, t, m)
       /\ m \notin Left(s)
  /\ \A m \in Models \ DOMAIN payload[s] : status[m] \in {"none", "retired"} \/ m \in Left(s)
  /\ \A x \in todo[s] : IsCurrent(x)
  /\ spc[s] = "done" => todo[s] = {}
  /\ spc[s] \in {"find_old", "put_old"} =>
       cur[s].model \notin DOMAIN payload[s] /\ IsCurrent(cur[s])
  /\ spc[s] = "put_old" => found[s] = Newest(Active(cur[s].table, cur[s].model))

Progress(s) ==
  ~disturbed[s] =>
    /\ spc[s] \in {"models", "find", "put"} => Upserting(s)
    /\ spc[s] \in {"retire", "find_old", "put_old", "done"} => Cleaning(s)
    /\ spc[s] = "conflict" => cur[s].table = "price" /\ Shadowed(cur[s].model)

\* A table of a retired model that a sync is about to clean.
Pending(t, m) ==
  \E s \in Syncs : /\ spc[s] \in {"find_old", "put_old"} /\ cur[s].model = m
                   /\ t = "price" \/ cur[s].table = "route"

\* Calls one after the other, without edits, failures and retired items.
Calm ==
  ~tampered =>
    /\ \A s \in Syncs : ~disturbed[s] /\ spc[s] # "conflict"
    /\ \A s, z \in Syncs : spc[s] # "idle" /\ spc[z] # "idle" => s = z
    /\ \A s \in Syncs : spc[s] # "idle" =>
         \A m \in DOMAIN payload[s] : payload[s][m].status = "active"
    /\ \A m \in Models : status[m] = "retired" =>
         \A t \in Tables : Active(t, m) = {} \/ Pending(t, m)

IInv == /\ Types /\ Schema /\ Held /\ Calm
        /\ \A s \in Syncs : Place(s) /\ Progress(s)

-----------------------------------------------------------------------------
(* The newest row of a set                                                 *)

\* Bounded ids have a greatest one.
LEMMA GreatestId ==
  ASSUME NEW rs \in SUBSET Rows, rs # {}, NEW b \in Nat, \A r \in rs : r.id <= b
  PROVE  \E r \in rs : \A q \in rs : q.id <= r.id
<1> DEFINE R == OpToRel(<, Nat)
           D == {b - r.id : r \in rs}
<1>1. IsWellFoundedOn(R, Nat)
  BY NatLessThanWellFounded
<1>2. ASSUME NEW i \in Nat, NEW k \in Nat, <<i, k>> \notin R
      PROVE  k <= i
  BY <1>2 DEF OpToRel
<1>3. \A r \in rs : r.id \in Nat
  BY DEF Rows
<1>4. D \subseteq Nat /\ D # {}
  BY <1>3
<1> HIDE DEF R
<1>5. PICK d \in D : \A e \in D : <<e, d>> \notin R
  <2> HIDE DEF D
  <2> QED
    BY <1>1, <1>4, WFMin
<1>6. PICK r \in rs : d = b - r.id
  BY <1>5
<1>7. ASSUME NEW q \in rs PROVE q.id <= r.id
  <2>1. b - q.id \in D /\ b - q.id \in Nat /\ d \in Nat
    BY <1>4
  <2>2. d <= b - q.id
    BY <1>2, <1>5, <2>1
  <2> QED
    BY <1>3, <1>6, <2>2
<1> QED
  BY <1>7

\* Of no rows there is no newest; of some, it is one of them, and none is newer.
LEMMA NewestRow ==
  ASSUME Types, Schema, NEW rs \in SUBSET rows
  PROVE  /\ rs = {} => Newest(rs) = None
         /\ rs # {} => Newest(rs) \in rs /\ Newest(rs) # None /\ \A q \in rs : q.id <= Newest(rs).id
<1>1. rs = {} => Newest(rs) = None
  BY DEF Newest
<1>2. ASSUME rs # {}
      PROVE  Newest(rs) \in rs /\ Newest(rs) # None /\ \A q \in rs : q.id <= Newest(rs).id
  <2>1. rs \in SUBSET Rows /\ ids \in Nat /\ \A r \in rs : r.id <= ids
    BY DEF Schema, Types
  <2>2. \E r \in rs : \A q \in rs : q.id <= r.id
    BY <1>2, <2>1, GreatestId
  <2>3. Newest(rs) = CHOOSE r \in rs : \A q \in rs : q.id <= r.id
    BY <1>2 DEF Newest
  <2>4. Newest(rs) \in rs /\ \A q \in rs : q.id <= Newest(rs).id
    BY <2>2, <2>3
  <2>5. None \notin Rows
    BY CatalogueAssumption
  <2> QED
    BY <2>1, <2>4, <2>5
<1> QED
  BY <1>1, <1>2

\* What a sync or the cleanup finds is a row of the table and model it looks at.
LEMMA Finding ==
  ASSUME Types, Schema, NEW t \in Tables, NEW m \in Models
  PROVE  /\ Existing(t, m) # None => Existing(t, m) \in Of(t, m)
         /\ Newest(Active(t, m)) # None => Newest(Active(t, m)) \in Active(t, m)
<1>1. Of(t, m) \in SUBSET rows /\ Active(t, m) \in SUBSET rows /\ Active(t, m) \subseteq Of(t, m)
  BY DEF Of, Active
<1>2. Newest(Active(t, m)) # None => Newest(Active(t, m)) \in Active(t, m)
  BY <1>1, NewestRow
<1>3. Newest(Of(t, m)) # None => Newest(Of(t, m)) \in Of(t, m)
  BY <1>1, NewestRow
<1> QED
  BY <1>1, <1>2, <1>3 DEF Existing

-----------------------------------------------------------------------------
(* Types                                                                   *)

\* The items of a payload.
LEMMA PayloadItems ==
  ASSUME NEW p \in Payloads, NEW m \in DOMAIN p
  PROVE  /\ m \in Models /\ p[m].status \in Statuses
         /\ \A t \in Tables : p[m][t] # None => p[m][t] \in Values(t)
<1>1. m \in Models /\ p[m] \in Items
  BY CatalogueAssumption
<1>2. p[m].status \in Statuses
  BY <1>1 DEF Items
<1>3. /\ p[m]["route"] \in Targets \cup {None}
      /\ p[m]["price"] \in Amounts \cup {None}
  BY <1>1 DEF Items
<1> QED
  BY <1>1, <1>2, <1>3 DEF Tables, Values

\* The row a sync writes.
LEMMA NewRowTyped ==
  ASSUME Types, NEW s \in Syncs, Place(s), spc[s] = "put"
  PROVE  /\ NewRow(s) \in Rows /\ NewRow(s).active
         /\ NewRow(s).table = cur[s].table /\ NewRow(s).model = cur[s].model
         /\ NewRow(s).value = payload[s][cur[s].model][cur[s].table]
         /\ NewRow(s).value \in Values(cur[s].table)
         /\ NewRow(s).id = IF found[s] = None THEN ids + 1 ELSE found[s].id
<1>1. /\ payload[s] \in Payloads /\ cur[s] \in Places /\ cur[s].model \in DOMAIN payload[s]
      /\ cur[s].table \in Wanted(s, cur[s].model)
  BY DEF Place
<1>2. /\ cur[s].table \in Tables /\ cur[s].model \in Models
      /\ payload[s][cur[s].model][cur[s].table] \in Values(cur[s].table)
  BY <1>1, PayloadItems DEF Wanted
<1>3. Values(cur[s].table) \subseteq Targets \cup Amounts
  BY DEF Values
<1>4. (IF found[s] = None THEN ids + 1 ELSE found[s].id) \in Nat
  BY DEF Types, Rows
<1> QED
  BY <1>2, <1>3, <1>4 DEF NewRow, Rows

\* What a PATCH writes back.
LEMMA CopyTyped ==
  ASSUME Types, Held, NEW a \in Admins, apc[a] = "row",
         NEW v \in Values(copy[a].table) \cup {copy[a].value}, NEW b \in BOOLEAN
  PROVE  LET n == [copy[a] EXCEPT !.value = v, !.active = b]
         IN /\ n \in Rows /\ n.id = copy[a].id /\ n.table = copy[a].table
            /\ n.model = copy[a].model /\ n.value \in Values(n.table)
<1>1. copy[a] \in Rows /\ copy[a] \in Read
  BY DEF Held, Read
<1>2. copy[a].value \in Values(copy[a].table)
  BY <1>1 DEF Held
<1>3. v \in Values(copy[a].table)
  BY <1>2
<1>4. Values(copy[a].table) \subseteq Targets \cup Amounts
  BY DEF Values
<1> QED
  BY <1>1, <1>3, <1>4 DEF Rows

\* Every step of a sync keeps the types.
LEMMA TypesSync ==
  ASSUME IInv, NEW s \in Syncs, SyncStep(s)
  PROVE  Types'
<1> USE DEF IInv
<1>0. Types /\ Schema /\ Place(s)
  OBVIOUS
<1>1. ASSUME NEW p \in Payloads, StartSync(s, p) PROVE Types'
  <2>1. {[model |-> m, id |-> 0] : m \in DOMAIN p} \subseteq Entries
    BY CatalogueAssumption DEF Entries
  <2>2. todo' \in [Syncs -> SUBSET Entries] /\ payload' \in [Syncs -> Payloads \cup {None}]
    BY <1>0, <1>1, <2>1 DEF Types, StartSync
  <2>3. /\ status' = status /\ mid' = mid /\ ids' = ids /\ cur' = cur /\ found' = found
        /\ apc' = apc /\ copy' = copy
    BY <1>1 DEF StartSync, admin
  <2>4. disturbed' \in [Syncs -> BOOLEAN] /\ tampered' \in BOOLEAN
    BY <1>0, <1>1 DEF Types, StartSync
  <2>5. spc' = [spc EXCEPT ![s] = "models"]
    BY <1>1 DEF StartSync
  <2> QED
    BY <1>0, <2>2, <2>3, <2>4, <2>5 DEF Types
<1>2. ASSUME NEW x \in todo[s], UpsertModel(s, x) PROVE Types'
  <2>1. /\ payload[s] \in Payloads /\ x.model \in DOMAIN payload[s] /\ x.model \in Models
        /\ payload[s][x.model].status \in Statuses
    BY <1>0, <1>2, PayloadItems DEF Place, UpsertModel
  <2>2. /\ status' = [status EXCEPT ![x.model] = payload[s][x.model].status]
        /\ mid' \in [Models -> Nat]
    BY <1>0, <1>2, <2>1 DEF UpsertModel, Upserted, Types
  <2>3. status' \in [Models -> Statuses \cup {"none"}]
    BY <1>0, <2>1, <2>2 DEF Types
  <2>4. todo' \in [Syncs -> SUBSET Entries]
    BY <1>0, <1>2 DEF Types, UpsertModel
  <2>5. PICK t \in Tables :
          /\ spc' \in {[spc EXCEPT ![s] = "models"], [spc EXCEPT ![s] = "find"]}
          /\ cur' \in {[cur EXCEPT ![s] = None],
                       [cur EXCEPT ![s] = [model |-> x.model, id |-> mid'[x.model], table |-> t]]}
    BY <1>2 DEF UpsertModel, Tables
  <2>6. cur' \in [Syncs -> Places \cup {None}]
    BY <1>0, <2>1, <2>2, <2>5 DEF Types, Places
  <2>7. disturbed' \in [Syncs -> BOOLEAN]
    BY <1>2 DEF UpsertModel, Disturb
  <2>8. /\ ids' = ids /\ payload' = payload /\ found' = found /\ apc' = apc /\ copy' = copy
        /\ tampered' = tampered
    BY <1>2 DEF UpsertModel, admin
  <2> QED
    BY <1>0, <2>2, <2>3, <2>4, <2>5, <2>6, <2>7, <2>8 DEF Types
<1>3. ASSUME FindRow(s) PROVE Types'
  <2>1. cur[s] \in Places /\ cur[s].table \in Tables /\ cur[s].model \in Models
    BY <1>0, <1>3 DEF Place, FindRow, Places
  <2>2. Existing(cur[s].table, cur[s].model) \in Rows \cup {None}
    BY <1>0, <2>1, Finding DEF Of, Schema
  <2>3. found' \in [Syncs -> Rows \cup {None}]
    BY <1>0, <1>3, <2>2 DEF FindRow, Types
  <2> QED
    BY <1>0, <1>3, <2>3 DEF FindRow, Types, admin
<1>4. ASSUME PutRow(s) PROVE Types'
  <2>1. cur[s] \in Places
    BY <1>0, <1>4 DEF Place, PutRow
  <2>2. [cur[s] EXCEPT !.table = "price"] \in Places
    BY <2>1 DEF Places, Tables
  <2>3. /\ spc' \in {[spc EXCEPT ![s] = "find"], [spc EXCEPT ![s] = "models"]}
        /\ cur' \in {[cur EXCEPT ![s] = [cur[s] EXCEPT !.table = "price"]], [cur EXCEPT ![s] = None]}
    BY <1>0, <1>4 DEF PutRow, Types
  <2>4. cur' \in [Syncs -> Places \cup {None}]
    BY <1>0, <2>2, <2>3 DEF Types
  <2>5. disturbed' \in [Syncs -> BOOLEAN] /\ ids' \in Nat
    BY <1>0, <1>4 DEF PutRow, Disturb, Types
  <2>6. /\ status' = status /\ mid' = mid /\ payload' = payload /\ todo' = todo /\ apc' = apc
        /\ copy' = copy /\ tampered' = tampered /\ found' = [found EXCEPT ![s] = None]
    BY <1>4 DEF PutRow, admin
  <2> QED
    BY <1>0, <2>3, <2>4, <2>5, <2>6 DEF Types
<1>5. ASSUME Conflict(s) PROVE Types'
  BY <1>0, <1>5 DEF Conflict, Types, admin
<1>6. ASSUME ListAllModels(s) PROVE Types'
  <2>1. {[model |-> m, id |-> mid[m]] :
          m \in {n \in Models \ DOMAIN payload[s] : status[n] = "active"}} \subseteq Entries
    BY <1>0 DEF Types, Entries
  <2>2. todo' \in [Syncs -> SUBSET Entries]
    BY <1>0, <1>6, <2>1 DEF ListAllModels, Types
  <2> QED
    BY <1>0, <1>6, <2>2 DEF ListAllModels, Types, admin
<1>7. ASSUME NEW x \in todo[s], RetireModel(s, x) PROVE Types'
  <2>1. x \in Entries
    BY <1>0 DEF Types
  <2>2. [model |-> x.model, id |-> x.id, table |-> "route"] \in Places
    BY <2>1 DEF Places, Entries, Tables
  <2>3. cur' \in [Syncs -> Places \cup {None}] /\ todo' \in [Syncs -> SUBSET Entries]
    BY <1>0, <1>7, <2>2 DEF RetireModel, Types
  <2>4. disturbed' \in [Syncs -> BOOLEAN]
    BY <1>7 DEF RetireModel, Disturb
  <2>5. status' \in [Models -> Statuses \cup {"none"}]
    BY <1>0, <1>7, <2>1 DEF RetireModel, Types, Statuses, Entries
  <2> QED
    BY <1>0, <1>7, <2>3, <2>4, <2>5 DEF RetireModel, Types, admin
<1>8. ASSUME FindOld(s) PROVE Types'
  <2>1. cur[s].table \in Tables /\ cur[s].model \in Models
    BY <1>0, <1>8 DEF Place, FindOld, Places
  <2>2. Newest(Active(cur[s].table, cur[s].model)) \in Rows \cup {None}
    BY <1>0, <2>1, Finding DEF Of, Active, Schema
  <2>3. found' \in [Syncs -> Rows \cup {None}]
    BY <1>0, <1>8, <2>2 DEF FindOld, Types
  <2> QED
    BY <1>0, <1>8, <2>3 DEF FindOld, Types, admin
<1>9. ASSUME NextOld(s), spc[s] = "put_old"
      PROVE  /\ spc' \in [Syncs -> {"idle", "models", "find", "put", "retire", "find_old", "put_old",
                        "done", "conflict"}]
             /\ cur' \in [Syncs -> Places \cup {None}]
             /\ found' \in [Syncs -> Rows \cup {None}]
  <2>1. cur[s] \in Places
    BY <1>0, <1>9 DEF Place
  <2>2. [cur[s] EXCEPT !.table = "price"] \in Places
    BY <2>1 DEF Places, Tables
  <2>3. /\ spc' \in {[spc EXCEPT ![s] = "find_old"], [spc EXCEPT ![s] = "retire"]}
        /\ cur' \in {[cur EXCEPT ![s] = [cur[s] EXCEPT !.table = "price"]], [cur EXCEPT ![s] = None]}
        /\ found' = [found EXCEPT ![s] = None]
    BY <1>0, <1>9 DEF NextOld, Types
  <2> QED
    BY <1>0, <2>2, <2>3 DEF Types
<1>10. ASSUME RetireRow(s) PROVE Types'
  <2>1. disturbed' \in [Syncs -> BOOLEAN]
    BY <1>10 DEF RetireRow, Disturb
  <2> QED
    BY <1>0, <1>9, <1>10, <2>1 DEF RetireRow, Types, admin
<1>11. ASSUME SyncDone(s) PROVE Types'
  BY <1>0, <1>11 DEF SyncDone, Types, admin
<1>12. ASSUME Return(s) PROVE Types'
  BY <1>0, <1>12 DEF Return, Forget, Types, admin
<1>13. ASSUME SyncFails(s) PROVE Types'
  BY <1>0, <1>13 DEF SyncFails, Fault, Forget, Types, admin
<1>14. ASSUME FindFails(s) PROVE Types'
  BY <1>0, <1>14 DEF FindFails, Fault, Types, admin
<1>15. ASSUME ListFails(s) PROVE Types'
  BY <1>0, <1>15 DEF ListFails, Fault, Types, admin
<1>16. ASSUME RetireFails(s) PROVE Types'
  <2>1. /\ disturbed' = [disturbed EXCEPT ![s] = TRUE] /\ tampered' = TRUE
        /\ status' = status /\ mid' = mid /\ ids' = ids /\ payload' = payload
        /\ apc' = apc /\ copy' = copy
    BY <1>16 DEF RetireFails, Fault, admin
  <2>2. CASE spc[s] = "put_old" /\ NextOld(s) /\ UNCHANGED todo
    BY <1>0, <1>9, <2>1, <2>2 DEF Types
  <2>3. ASSUME NEW x \in todo[s], todo' = [todo EXCEPT ![s] = @ \ {x}],
               cur' = [cur EXCEPT ![s] = [model |-> x.model, id |-> x.id, table |-> "route"]],
               spc' = [spc EXCEPT ![s] = "find_old"], UNCHANGED found
        PROVE  Types'
    <3>1. x \in Entries
      BY <1>0 DEF Types
    <3>2. [model |-> x.model, id |-> x.id, table |-> "route"] \in Places
      BY <3>1 DEF Places, Entries, Tables
    <3> QED
      BY <1>0, <2>1, <2>3, <3>2 DEF Types
  <2> QED
    BY <1>16, <2>2, <2>3 DEF RetireFails
<1> QED
  BY <1>1, <1>2, <1>3, <1>4, <1>5, <1>6, <1>7, <1>8, <1>10, <1>11, <1>12, <1>13, <1>14, <1>15, <1>16
  DEF SyncStep

\* So does every step of an administrator.
LEMMA TypesAdmin ==
  ASSUME IInv, AdminStep
  PROVE  Types'
<1>0. Types /\ Schema /\ Held
  BY DEF IInv
<1>1. ASSUME Edit
      PROVE  /\ disturbed' \in [Syncs -> BOOLEAN] /\ tampered' = TRUE
             /\ spc' = spc /\ payload' = payload /\ todo' = todo /\ cur' = cur /\ found' = found
  BY <1>1 DEF Edit, sync
<1>2. ASSUME NEW m \in Models, NEW st \in Statuses, CreateModel(m, st) PROVE Types'
  <2>1. status' \in [Models -> Statuses \cup {"none"}] /\ mid' \in [Models -> Nat]
    BY <1>0, <1>2 DEF CreateModel, Upserted, Types
  <2> QED
    BY <1>0, <1>1, <1>2, <2>1 DEF CreateModel, Types, admin
<1>3. ASSUME NEW m \in Models, DeleteModel(m) PROVE Types'
  BY <1>0, <1>1, <1>3 DEF DeleteModel, Types, admin
<1>4. ASSUME NEW t \in Tables, NEW m \in Models, NEW b \in BOOLEAN, NEW v \in Values(t),
             PostRow(t, m, v, b)
      PROVE  Types'
  <2>1. PICK r \in Of(t, m) \cup {[id |-> ids + 1, table |-> t, model |-> m]} :
          ids' = IF r.id > ids THEN r.id ELSE ids
    BY <1>4 DEF PostRow
  <2>2. r.id \in Nat
    BY <1>0 DEF Of, Schema, Rows, Types
  <2>3. ids' \in Nat
    BY <1>0, <2>1, <2>2 DEF Types
  <2>4. Edit /\ status' = status /\ mid' = mid /\ apc' = apc /\ copy' = copy
    BY <1>4 DEF PostRow, admin
  <2> QED
    BY <1>0, <1>1, <2>3, <2>4 DEF Types
<1>5. ASSUME NEW r \in rows, DeleteRow(r) PROVE Types'
  BY <1>0, <1>1, <1>5 DEF DeleteRow, Types, admin
<1>6. ASSUME NEW a \in Admins, ReadForPatch(a) PROVE Types'
  <2>1. /\ status' = status /\ mid' = mid /\ ids' = ids /\ disturbed' = disturbed
        /\ tampered' = tampered /\ spc' = spc /\ payload' = payload /\ todo' = todo
        /\ cur' = cur /\ found' = found
    BY <1>6 DEF ReadForPatch, sync
  <2>2. CASE \E r \in rows : copy' = [copy EXCEPT ![a] = r] /\ apc' = [apc EXCEPT ![a] = "row"]
    BY <1>0, <2>1, <2>2 DEF Types, Schema
  <2>3. ASSUME NEW m \in Models, status[m] # "none", apc' = [apc EXCEPT ![a] = "model"],
               copy' = [copy EXCEPT ![a] = [model |-> m, id |-> mid[m], status |-> status[m]]]
        PROVE  Types'
    <3>1. [model |-> m, id |-> mid[m], status |-> status[m]] \in Copies
      BY <1>0, <2>3 DEF Types, Copies
    <3> QED
      BY <1>0, <2>1, <2>3, <3>1 DEF Types
  <2> QED
    BY <1>6, <2>2, <2>3 DEF ReadForPatch
<1>7. ASSUME NEW a \in Admins, PatchRow(a) PROVE Types'
  BY <1>0, <1>1, <1>7 DEF PatchRow, Patched, Types
<1>8. ASSUME NEW a \in Admins, PatchModel(a) PROVE Types'
  <2>1. copy[a].model \in Models
    BY <1>0, <1>8 DEF PatchModel, Held, Copies
  <2>2. status' \in [Models -> Statuses \cup {"none"}]
    BY <1>0, <1>8, <2>1 DEF PatchModel, Types
  <2> QED
    BY <1>0, <1>1, <1>8, <2>2 DEF PatchModel, Patched, Types
<1> QED
  BY <1>2, <1>3, <1>4, <1>5, <1>6, <1>7, <1>8 DEF AdminStep

-----------------------------------------------------------------------------
(* The tables                                                              *)

\* A write of a row: n has the id, table and model of a row that is known, or a
\* fresh id.
Known(n) ==
  \/ n.id = ids + 1
  \/ \E q \in rows \cup Read : q.id = n.id /\ q.table = n.table /\ q.model = n.model

\* A row that is written back to where it came from belongs to a model that exists.
LEMMA KnownLives ==
  ASSUME Types, Schema, Held, NEW n, Known(n), IsRow(n.id)
  PROVE  status[n.model] # "none" /\ n.id \in 1..ids
<1>1. PICK q \in rows : q.id = n.id
  BY DEF IsRow
<1>2. q.id \in 1..ids /\ status[q.model] # "none"
  BY <1>1 DEF Schema
<1>3. n.id # ids + 1
  BY <1>1, <1>2 DEF Types
<1>4. PICK r \in rows \cup Read : r.id = n.id /\ r.table = n.table /\ r.model = n.model
  BY <1>3 DEF Known
<1>5. q.model = r.model
  BY <1>1, <1>4 DEF Held
<1> QED
  BY <1>1, <1>2, <1>4, <1>5

\* A write leaves the rows of other tables and models alone.
LEMMA WriteElsewhere ==
  ASSUME Types, Schema, Held, NEW n, Known(n), rows' = Written(n),
         NEW t, NEW m, t # n.table \/ m # n.model
  PROVE  Of(t, m)' = Of(t, m) /\ Active(t, m)' = Active(t, m)
<1>1. ASSUME NEW q \in rows, q.id = n.id PROVE q.table = n.table /\ q.model = n.model
  <2>1. q.id \in 1..ids
    BY DEF Schema
  <2>2. n.id # ids + 1
    BY <1>1, <2>1 DEF Types
  <2>3. PICK r \in rows \cup Read : r.id = n.id /\ r.table = n.table /\ r.model = n.model
    BY <2>2 DEF Known
  <2> QED
    BY <1>1, <2>3 DEF Held
<1>2. \A q : q.table = t /\ q.model = m => (q \in rows' <=> q \in rows)
  BY <1>1 DEF Written
<1>3. Of(t, m)' = Of(t, m)
  BY <1>2 DEF Of
<1> QED
  BY <1>3 DEF Active

\* The unique index and the foreign key hold on when a row is written.
LEMMA SchemaWrite ==
  ASSUME Types, Schema, NEW n \in Rows, Unique(n), n.value \in Values(n.table),
         ids' \in Nat, ids <= ids', n.id \in 1..ids', status' = status,
         status[n.model] # "none", rows' = Written(n)
  PROVE  Schema'
<1>1. rows' \subseteq Rows
  BY DEF Schema, Written
<1>2. ASSUME NEW r \in rows'
      PROVE  r.id \in 1..ids' /\ status'[r.model] # "none" /\ r.value \in Values(r.table)
  <2>1. CASE r = n
    BY <2>1
  <2>2. CASE r \in rows
    <3>1. r.id \in 1..ids /\ status[r.model] # "none" /\ r.value \in Values(r.table)
      BY <2>2 DEF Schema
    <3> QED
      BY <3>1 DEF Types
  <2> QED
    BY <2>1, <2>2 DEF Written
<1>3. ASSUME NEW q \in rows', NEW r \in rows', q.id = r.id PROVE q = r
  BY <1>3 DEF Written, Schema
<1>4. ASSUME NEW q \in rows', NEW r \in rows', q.active, r.active, q.table = r.table,
             q.model = r.model
      PROVE  q = r
  <2>1. CASE q = n /\ r # n
    <3>1. r \in rows /\ r.id # n.id
      BY <2>1 DEF Written
    <3>2. r \in Active(n.table, n.model)
      BY <1>4, <2>1, <3>1 DEF Active, Of
    <3> QED
      BY <1>4, <2>1, <3>1, <3>2 DEF Unique
  <2>2. CASE r = n /\ q # n
    <3>1. q \in rows /\ q.id # n.id
      BY <2>2 DEF Written
    <3>2. q \in Active(n.table, n.model)
      BY <1>4, <2>2, <3>1 DEF Active, Of
    <3> QED
      BY <1>4, <2>2, <3>1, <3>2 DEF Unique
  <2>3. CASE q # n /\ r # n
    BY <1>4, <2>3 DEF Written, Schema
  <2> QED
    BY <2>1, <2>2, <2>3
<1> QED
  BY <1>1, <1>2, <1>3, <1>4 DEF Schema, Values

\* Fewer rows, of models that still exist, keep to the schema too.
LEMMA SchemaFewer ==
  ASSUME Types, Schema, rows' \subseteq rows, ids' \in Nat, ids <= ids',
         \A r \in rows' : status'[r.model] # "none"
  PROVE  Schema'
<1>1. ASSUME NEW r \in rows'
      PROVE  r.id \in 1..ids' /\ status'[r.model] # "none" /\ r.value \in Values(r.table)
  <2>1. r.id \in 1..ids /\ r.value \in Values(r.table)
    BY DEF Schema
  <2> QED
    BY <2>1 DEF Types
<1> QED
  BY <1>1 DEF Schema, Values

\* The writes of a row, one lemma for each action that makes one.
LEMMA PutWrites ==
  ASSUME IInv, NEW s \in Syncs, PutRow(s)
  PROVE  /\ NewRow(s) \in Rows /\ Known(NewRow(s)) /\ Unique(NewRow(s))
         /\ NewRow(s).value \in Values(NewRow(s).table) /\ status[NewRow(s).model] # "none"
         /\ ids' \in Nat /\ ids <= ids' /\ NewRow(s).id \in 1..ids'
         /\ rows' = Written(NewRow(s)) /\ status' = status
<1>0. Types /\ Schema /\ Held /\ Place(s)
  BY DEF IInv
<1>1. spc[s] = "put" /\ Accepted(NewRow(s), cur[s].id) /\ rows' = Written(NewRow(s))
  BY DEF PutRow
<1>2. /\ NewRow(s) \in Rows /\ NewRow(s).table = cur[s].table /\ NewRow(s).model = cur[s].model
      /\ NewRow(s).value \in Values(cur[s].table)
      /\ NewRow(s).id = IF found[s] = None THEN ids + 1 ELSE found[s].id
  BY <1>0, <1>1, NewRowTyped
<1>3. ids \in Nat /\ ids' = ids + (IF found[s] = None THEN 1 ELSE 0) /\ status' = status
  BY <1>0 DEF PutRow, Types
<1>4. ASSUME found[s] # None
      PROVE  /\ found[s] \in Read /\ found[s].id \in 1..ids
             /\ found[s].table = cur[s].table /\ found[s].model = cur[s].model
  BY <1>0, <1>4 DEF Read, Held, Place
<1>5. Known(NewRow(s))
  BY <1>2, <1>4 DEF Known
<1>6. NewRow(s).id \in 1..ids'
  BY <1>2, <1>3, <1>4
<1>7. Unique(NewRow(s)) /\ (IsRow(NewRow(s).id) \/ status[NewRow(s).model] # "none")
  BY <1>1 DEF Accepted
<1>8. status[NewRow(s).model] # "none"
  BY <1>0, <1>5, <1>7, KnownLives
<1> QED
  BY <1>1, <1>2, <1>3, <1>5, <1>6, <1>7, <1>8

\* The row that the cleanup writes back.
Retired(s) == [found[s] EXCEPT !.active = FALSE]

LEMMA RetireWrites ==
  ASSUME IInv, NEW s \in Syncs, RetireRow(s)
  PROVE  /\ ids' = ids /\ status' = status /\ mid' = mid
         /\ rows' # rows => found[s] # None /\ IsRow(found[s].id) /\ rows' = Written(Retired(s))
         /\ found[s] # None =>
              /\ Retired(s) \in Rows /\ ~Retired(s).active /\ Known(Retired(s)) /\ Unique(Retired(s))
              /\ Retired(s).id = found[s].id
              /\ Retired(s).table = cur[s].table /\ Retired(s).model = cur[s].model
              /\ Retired(s).value \in Values(Retired(s).table)
              /\ IsRow(found[s].id) => status[Retired(s).model] # "none" /\ Retired(s).id \in 1..ids
<1>0. Types /\ Schema /\ Held /\ Place(s)
  BY DEF IInv
<1>1. /\ ids' = ids /\ status' = status /\ mid' = mid
      /\ rows' # rows => found[s] # None /\ IsRow(found[s].id) /\ rows' = Written(Retired(s))
  BY DEF RetireRow, Retired
<1>2. ASSUME found[s] # None
      PROVE  /\ Retired(s) \in Rows /\ ~Retired(s).active /\ Known(Retired(s)) /\ Unique(Retired(s))
             /\ Retired(s).id = found[s].id
             /\ Retired(s).table = cur[s].table /\ Retired(s).model = cur[s].model
             /\ Retired(s).value \in Values(Retired(s).table)
             /\ IsRow(found[s].id) => status[Retired(s).model] # "none" /\ Retired(s).id \in 1..ids
  <2>1. found[s] \in Rows /\ found[s] \in Read
    BY <1>0, <1>2 DEF Types, Read
  <2>2. /\ Retired(s) \in Rows /\ ~Retired(s).active /\ Retired(s).id = found[s].id
        /\ Retired(s).table = found[s].table /\ Retired(s).model = found[s].model
        /\ Retired(s).value = found[s].value
    BY <2>1 DEF Retired, Rows
  <2>3. Known(Retired(s)) /\ Unique(Retired(s))
    BY <2>1, <2>2 DEF Known, Unique
  <2>4. found[s].value \in Values(found[s].table)
    BY <1>0, <2>1 DEF Held
  <2>5. found[s].table = cur[s].table /\ found[s].model = cur[s].model
    BY <1>0, <1>2 DEF Place
  <2>6. IsRow(found[s].id) => status[Retired(s).model] # "none" /\ Retired(s).id \in 1..ids
    BY <1>0, <2>2, <2>3, KnownLives
  <2> QED
    BY <2>2, <2>3, <2>4, <2>5, <2>6
<1> QED
  BY <1>1, <1>2

LEMMA PostWrites ==
  ASSUME IInv, NEW t \in Tables, NEW m \in Models, NEW b \in BOOLEAN, NEW v \in Values(t),
         PostRow(t, m, v, b)
  PROVE  /\ ids' \in Nat /\ ids <= ids' /\ status' = status
         /\ \E n \in Rows : /\ Known(n) /\ Unique(n) /\ n.value \in Values(n.table)
                            /\ status[n.model] # "none" /\ n.id \in 1..ids' /\ rows' = Written(n)
<1>0. Types /\ Schema /\ Held
  BY DEF IInv
<1>1. PICK r \in Of(t, m) \cup {[id |-> ids + 1, table |-> t, model |-> m]} :
        LET n == [id |-> r.id, table |-> t, model |-> m, value |-> v, active |-> b]
        IN /\ Accepted(n, mid[m])
           /\ rows' = Written(n) /\ ids' = IF n.id > ids THEN n.id ELSE ids
  BY DEF PostRow
<1> DEFINE n == [id |-> r.id, table |-> t, model |-> m, value |-> v, active |-> b]
<1>2. /\ n.id = r.id /\ n.table = t /\ n.model = m /\ n.value = v /\ Accepted(n, mid[m])
      /\ rows' = Written(n) /\ ids' = IF r.id > ids THEN r.id ELSE ids
  BY <1>1
<1>3. r \in rows => r.id \in 1..ids
  BY <1>0 DEF Schema
<1>4. ids \in Nat /\ r.id \in Nat /\ (r.id = ids + 1 \/ r.id \in 1..ids)
  BY <1>0, <1>3 DEF Types, Of
<1>5. v \in Targets \cup Amounts
  BY DEF Values
<1>6. n \in Rows
  BY <1>4, <1>5 DEF Rows
<1>7. Known(n)
  BY <1>2 DEF Known, Of
<1> HIDE DEF n
<1>8. Unique(n) /\ (IsRow(n.id) \/ status[n.model] # "none")
  BY <1>2 DEF Accepted
<1>9. status[n.model] # "none"
  BY <1>0, <1>7, <1>8, KnownLives
<1>10. ids' \in Nat /\ ids <= ids' /\ n.id \in 1..ids'
  BY <1>2, <1>4
<1>11. status' = status
  BY DEF PostRow
<1> QED
  BY <1>2, <1>6, <1>7, <1>8, <1>9, <1>10, <1>11

LEMMA PatchWrites ==
  ASSUME IInv, NEW a \in Admins, PatchRow(a)
  PROVE  /\ ids' = ids /\ status' = status
         /\ \/ rows' = rows
            \/ \E n \in Rows : /\ Known(n) /\ Unique(n) /\ n.value \in Values(n.table)
                               /\ status[n.model] # "none" /\ n.id \in 1..ids /\ rows' = Written(n)
<1>0. Types /\ Schema /\ Held
  BY DEF IInv
<1>1. PICK v \in Values(copy[a].table) \cup {copy[a].value}, b \in BOOLEAN :
        LET n == [copy[a] EXCEPT !.value = v, !.active = b]
        IN rows' = IF IsRow(n.id) /\ Unique(n) THEN Written(n) ELSE rows
  BY DEF PatchRow
<1> DEFINE n == [copy[a] EXCEPT !.value = v, !.active = b]
<1>2. rows' = IF IsRow(n.id) /\ Unique(n) THEN Written(n) ELSE rows
  BY <1>1
<1>3. apc[a] = "row" /\ ids' = ids /\ status' = status
  BY DEF PatchRow
<1>4. /\ n \in Rows /\ n.id = copy[a].id /\ n.table = copy[a].table
      /\ n.model = copy[a].model /\ n.value \in Values(n.table)
  BY <1>0, <1>3, CopyTyped
<1> HIDE DEF n
<1>5. Known(n)
  BY <1>3, <1>4 DEF Known, Read
<1>6. IsRow(n.id) => status[n.model] # "none" /\ n.id \in 1..ids
  BY <1>0, <1>5, KnownLives
<1> QED
  BY <1>2, <1>3, <1>4, <1>5, <1>6

\* The steps that write no row of the tables.
Reading(s) ==
  \/ \E p \in Payloads : StartSync(s, p)
  \/ FindRow(s) \/ Conflict(s) \/ ListAllModels(s) \/ FindOld(s) \/ SyncDone(s) \/ Return(s)
  \/ SyncFails(s) \/ FindFails(s) \/ ListFails(s) \/ RetireFails(s)

LEMMA ReadingKeeps ==
  ASSUME NEW s \in Syncs, Reading(s)
  PROVE  status' = status /\ mid' = mid /\ rows' = rows /\ ids' = ids /\ apc' = apc /\ copy' = copy
<1>1. ASSUME NEW p \in Payloads, StartSync(s, p)
      PROVE  UNCHANGED <<status, mid, rows, ids, apc, copy>>
  BY <1>1 DEF StartSync, admin
<1>2. ASSUME FindRow(s) \/ Conflict(s) \/ ListAllModels(s) \/ FindOld(s) \/ SyncDone(s) \/ Return(s)
      PROVE  UNCHANGED <<status, mid, rows, ids, apc, copy>>
  BY <1>2 DEF FindRow, Conflict, ListAllModels, FindOld, SyncDone, Return, admin
<1>3. ASSUME SyncFails(s) \/ FindFails(s) \/ ListFails(s) \/ RetireFails(s)
      PROVE  UNCHANGED <<status, mid, rows, ids, apc, copy>>
  BY <1>3 DEF SyncFails, FindFails, ListFails, RetireFails, Fault, admin
<1> QED
  BY <1>1, <1>2, <1>3 DEF Reading

\* A sync reads, upserts or retires a model, or writes a row.
LEMMA SyncCases ==
  ASSUME NEW s \in Syncs, SyncStep(s)
  PROVE  \/ Reading(s) \/ PutRow(s) \/ RetireRow(s)
         \/ \E x \in todo[s] : UpsertModel(s, x) \/ RetireModel(s, x)
  BY DEF SyncStep, Reading

\* Every step keeps what the schema promises.
LEMMA SchemaStep ==
  ASSUME IInv, [Next]_vars
  PROVE  Schema'
<1>0. Types /\ Schema /\ Held /\ \A s \in Syncs : Place(s)
  BY DEF IInv
<1>1. ids \in Nat /\ \A r \in rows : status[r.model] # "none" /\ r.model \in Models
  BY <1>0 DEF Types, Schema, Rows
<1>2. ASSUME NEW s \in Syncs, Reading(s) PROVE Schema'
  BY <1>0, <1>1, <1>2, ReadingKeeps, SchemaFewer
<1>3. ASSUME NEW s \in Syncs, NEW x \in todo[s], UpsertModel(s, x) PROVE Schema'
  <2>1. payload[s][x.model].status \in Statuses
    BY <1>0, <1>3, PayloadItems DEF Place, UpsertModel
  <2>2. status' = [status EXCEPT ![x.model] = payload[s][x.model].status] /\ rows' = rows /\ ids' = ids
    BY <1>3 DEF UpsertModel, Upserted
  <2>3. \A r \in rows' : status'[r.model] # "none"
    BY <1>0, <1>1, <2>1, <2>2 DEF Types, Statuses
  <2> QED
    BY <1>0, <1>1, <2>2, <2>3, SchemaFewer
<1>4. ASSUME NEW s \in Syncs, NEW x \in todo[s], RetireModel(s, x) PROVE Schema'
  <2>1. rows' = rows /\ ids' = ids
    BY <1>4 DEF RetireModel
  <2>2. \A r \in rows' : status'[r.model] # "none"
    BY <1>0, <1>1, <1>4 DEF RetireModel, Types
  <2> QED
    BY <1>0, <1>1, <2>1, <2>2, SchemaFewer
<1>5. ASSUME NEW s \in Syncs, PutRow(s) PROVE Schema'
  BY <1>0, <1>5, PutWrites, SchemaWrite
<1>6. ASSUME NEW s \in Syncs, RetireRow(s) PROVE Schema'
  <2>1. CASE rows' = rows
    BY <1>0, <1>1, <1>6, <2>1, RetireWrites, SchemaFewer
  <2>2. CASE rows' # rows
    BY <1>0, <1>1, <1>6, <2>2, RetireWrites, SchemaWrite
  <2> QED
    BY <2>1, <2>2
<1>7. ASSUME NEW m \in Models, NEW st \in Statuses, CreateModel(m, st) PROVE Schema'
  <2>1. status' = [status EXCEPT ![m] = st] /\ rows' = rows /\ ids' = ids
    BY <1>7 DEF CreateModel, Upserted
  <2>2. \A r \in rows' : status'[r.model] # "none"
    BY <1>0, <1>1, <2>1 DEF Types, Statuses
  <2> QED
    BY <1>0, <1>1, <2>1, <2>2, SchemaFewer
<1>8. ASSUME NEW m \in Models, DeleteModel(m) PROVE Schema'
  <2>1. rows' = {r \in rows : r.model # m} /\ ids' = ids /\ status' = [status EXCEPT ![m] = "none"]
    BY <1>8 DEF DeleteModel
  <2>2. rows' \subseteq rows /\ \A r \in rows' : status'[r.model] # "none"
    BY <1>0, <1>1, <2>1 DEF Types
  <2> QED
    BY <1>0, <1>1, <2>1, <2>2, SchemaFewer
<1>9. ASSUME NEW t \in Tables, NEW m \in Models, NEW b \in BOOLEAN, NEW v \in Values(t),
             PostRow(t, m, v, b)
      PROVE  Schema'
  BY <1>0, <1>9, PostWrites, SchemaWrite
<1>10. ASSUME NEW r \in rows, DeleteRow(r) PROVE Schema'
  <2>1. rows' \subseteq rows /\ ids' = ids /\ status' = status
    BY <1>10 DEF DeleteRow
  <2> QED
    BY <1>0, <1>1, <2>1, SchemaFewer
<1>11. ASSUME NEW a \in Admins, ReadForPatch(a) PROVE Schema'
  <2>1. rows' = rows /\ ids' = ids /\ status' = status
    BY <1>11 DEF ReadForPatch
  <2> QED
    BY <1>0, <1>1, <2>1, SchemaFewer
<1>12. ASSUME NEW a \in Admins, PatchRow(a) PROVE Schema'
  <2>1. CASE rows' = rows
    BY <1>0, <1>1, <1>12, <2>1, PatchWrites, SchemaFewer
  <2>2. CASE rows' # rows
    BY <1>0, <1>1, <1>12, <2>2, PatchWrites, SchemaWrite
  <2> QED
    BY <2>1, <2>2
<1>13. ASSUME NEW a \in Admins, PatchModel(a) PROVE Schema'
  <2>1. rows' = rows /\ ids' = ids
    BY <1>13 DEF PatchModel
  <2>2. \A r \in rows' : status'[r.model] # "none"
    BY <1>0, <1>1, <1>13 DEF PatchModel, Types, Statuses
  <2> QED
    BY <1>0, <1>1, <2>1, <2>2, SchemaFewer
<1>14. CASE UNCHANGED vars
  <2>1. rows' = rows /\ ids' = ids /\ status' = status
    BY <1>14 DEF vars
  <2> QED
    BY <1>0, <1>1, <2>1, SchemaFewer
<1>15. ASSUME NEW s \in Syncs, SyncStep(s) PROVE Schema'
  BY <1>2, <1>3, <1>4, <1>5, <1>6, <1>15, SyncCases
<1>16. ASSUME AdminStep PROVE Schema'
  BY <1>7, <1>8, <1>9, <1>10, <1>11, <1>12, <1>13, <1>16 DEF AdminStep
<1> QED
  BY <1>14, <1>15, <1>16 DEF Next

-----------------------------------------------------------------------------
(* What was read                                                           *)

\* A sync that reads at most a row of the tables.
LEMMA ReadBySync ==
  ASSUME Types, NEW s \in Syncs, NEW f \in rows \cup {None}, apc' = apc, copy' = copy,
         found' = found \/ found' = [found EXCEPT ![s] = f]
  PROVE  Read' \subseteq rows \cup Read
<1>1. ASSUME NEW z \in Syncs PROVE found'[z] \in rows \cup {None, found[z]}
  BY DEF Types
<1>2. \A z \in Syncs : found'[z] # None => found'[z] \in rows \cup Read
  BY <1>1 DEF Read
<1> QED
  BY <1>2 DEF Read

\* An id keeps its table and model when a row is written and rows are read.
LEMMA HeldBy ==
  ASSUME Types, Schema, Held, Read' \subseteq rows \cup Read, ids' \in Nat, ids <= ids',
         \/ rows' \subseteq rows
         \/ \E n : Known(n) /\ rows' = Written(n),
         \A a \in Admins : /\ apc'[a] = "row" => copy'[a] \in Rows
                           /\ apc'[a] = "model" => copy'[a] \in Copies
  PROVE  Held'
<1>1. PICK n : rows' \subseteq rows \cup {n} /\ (n \in rows' => n \in rows \/ Known(n))
  <2>1. CASE rows' \subseteq rows
    BY <2>1
  <2>2. CASE \E n : Known(n) /\ rows' = Written(n)
    BY <2>2 DEF Written
  <2> QED
    BY <2>1, <2>2
<1>2. \A r \in rows \cup Read : r.id \in 1..ids /\ r.value \in Values(r.table)
  BY DEF Held, Schema
<1>3. \A r \in rows \cup Read : r.id # ids + 1
  BY <1>2 DEF Types
<1>4. ASSUME NEW q \in rows' \cup Read', NEW r \in rows' \cup Read', q.id = r.id
      PROVE  q.table = r.table /\ q.model = r.model
  <2>1. CASE q \in rows \cup Read /\ r \in rows \cup Read
    BY <1>4, <2>1 DEF Held
  <2>2. CASE q \in rows \cup Read /\ r \notin rows \cup Read
    <3>1. Known(r)
      BY <1>1, <2>2
    <3>2. PICK e \in rows \cup Read : e.id = r.id /\ e.table = r.table /\ e.model = r.model
      BY <1>3, <1>4, <2>2, <3>1 DEF Known
    <3> QED
      BY <1>4, <2>2, <3>2 DEF Held
  <2>3. CASE q \notin rows \cup Read /\ r \in rows \cup Read
    <3>1. Known(q)
      BY <1>1, <2>3
    <3>2. PICK e \in rows \cup Read : e.id = q.id /\ e.table = q.table /\ e.model = q.model
      BY <1>3, <1>4, <2>3, <3>1 DEF Known
    <3> QED
      BY <1>4, <2>3, <3>2 DEF Held
  <2>4. CASE q \notin rows \cup Read /\ r \notin rows \cup Read
    BY <1>1, <2>4
  <2> QED
    BY <2>1, <2>2, <2>3, <2>4
<1>5. ASSUME NEW r \in Read' PROVE r.id \in 1..ids' /\ r.value \in Values(r.table)
  BY <1>2 DEF Types
<1> QED
  BY <1>4, <1>5 DEF Held, Values

\* What a sync finds is a row of the tables.
LEMMA FoundRow ==
  ASSUME Types, Schema, NEW s \in Syncs, Place(s), SyncStep(s)
  PROVE  \E f \in rows \cup {None} : found' = found \/ found' = [found EXCEPT ![s] = f]
<1>1. ASSUME FindRow(s) PROVE \E f \in rows \cup {None} : found' = [found EXCEPT ![s] = f]
  <2>1. cur[s].table \in Tables /\ cur[s].model \in Models
    BY <1>1 DEF Place, FindRow, Places
  <2>2. Existing(cur[s].table, cur[s].model) \in rows \cup {None}
    BY <2>1, Finding DEF Of
  <2> QED
    BY <1>1, <2>2 DEF FindRow
<1>2. ASSUME FindOld(s) PROVE \E f \in rows \cup {None} : found' = [found EXCEPT ![s] = f]
  <2>1. cur[s].table \in Tables /\ cur[s].model \in Models
    BY <1>2 DEF Place, FindOld, Places
  <2>2. Newest(Active(cur[s].table, cur[s].model)) \in rows \cup {None}
    BY <2>1, Finding DEF Active, Of
  <2> QED
    BY <1>2, <2>2 DEF FindOld
<1>3. ASSUME PutRow(s) \/ RetireRow(s) \/ Return(s) \/ SyncFails(s) \/ FindFails(s)
      PROVE  found' = [found EXCEPT ![s] = None]
  BY <1>3 DEF PutRow, RetireRow, NextOld, Return, SyncFails, FindFails, Forget
<1>4. ASSUME \E p \in Payloads : StartSync(s, p) PROVE found' = found
  BY <1>4 DEF StartSync
<1>5. ASSUME \E x \in todo[s] : UpsertModel(s, x) \/ RetireModel(s, x) PROVE found' = found
  BY <1>5 DEF UpsertModel, RetireModel
<1>6. ASSUME Conflict(s) \/ ListAllModels(s) \/ SyncDone(s) \/ ListFails(s) PROVE found' = found
  BY <1>6 DEF Conflict, ListAllModels, SyncDone, ListFails
<1>7. ASSUME RetireFails(s) PROVE found' = found \/ found' = [found EXCEPT ![s] = None]
  BY <1>7 DEF RetireFails, NextOld
<1> QED
  BY <1>1, <1>2, <1>3, <1>4, <1>5, <1>6, <1>7 DEF SyncStep

\* Every step keeps the ids of the rows and of their copies.
LEMMA HeldStep ==
  ASSUME IInv, [Next]_vars
  PROVE  Held'
<1>0. Types /\ Schema /\ Held /\ \A s \in Syncs : Place(s)
  BY DEF IInv
<1>1. ids \in Nat /\ \A a \in Admins : /\ apc[a] = "row" => copy[a] \in Rows
                                       /\ apc[a] = "model" => copy[a] \in Copies
  BY <1>0 DEF Types, Held
<1>2. ASSUME NEW s \in Syncs, SyncStep(s) PROVE Held'
  <2>1. /\ apc' = apc /\ copy' = copy /\ ids' \in Nat /\ ids <= ids'
        /\ rows' \subseteq rows \/ \E n : Known(n) /\ rows' = Written(n)
    <3>1. CASE Reading(s)
      BY <1>1, <3>1, ReadingKeeps
    <3>2. CASE PutRow(s)
      <4>1. apc' = apc /\ copy' = copy
        BY <3>2 DEF PutRow, admin
      <4> QED
        BY <3>2, <4>1, PutWrites
    <3>3. CASE RetireRow(s)
      <4>1. apc' = apc /\ copy' = copy
        BY <3>3 DEF RetireRow, admin
      <4> QED
        BY <1>1, <3>3, <4>1, RetireWrites
    <3>4. ASSUME NEW x \in todo[s], UpsertModel(s, x) \/ RetireModel(s, x)
          PROVE  apc' = apc /\ copy' = copy /\ ids' = ids /\ rows' = rows
      BY <3>4 DEF UpsertModel, RetireModel, admin
    <3> QED
      BY <1>1, <1>2, <3>1, <3>2, <3>3, <3>4, SyncCases
  <2>2. PICK f \in rows \cup {None} : found' = found \/ found' = [found EXCEPT ![s] = f]
    BY <1>0, <1>2, FoundRow
  <2>3. Read' \subseteq rows \cup Read
    BY <1>0, <2>1, <2>2, ReadBySync
  <2> QED
    BY <1>0, <1>1, <2>1, <2>3, HeldBy
<1>3. ASSUME found' = found, ids' \in Nat, ids <= ids', apc' = apc, copy' = copy,
             rows' \subseteq rows \/ \E n : Known(n) /\ rows' = Written(n)
      PROVE  Held'
  <2>1. Read' = Read
    BY <1>3 DEF Read
  <2> QED
    BY <1>0, <1>1, <1>3, <2>1, HeldBy
<1>4. ASSUME NEW a \in Admins, Patched(a), found' = found, ids' = ids,
             rows' \subseteq rows \/ \E n : Known(n) /\ rows' = Written(n)
      PROVE  Held'
  <2>1. Read' \subseteq Read
    BY <1>0, <1>4 DEF Patched, Read, Types
  <2>2. \A e \in Admins : /\ apc'[e] = "row" => copy'[e] \in Rows
                          /\ apc'[e] = "model" => copy'[e] \in Copies
    BY <1>0, <1>1, <1>4 DEF Patched, Types
  <2> QED
    BY <1>0, <1>1, <1>4, <2>1, <2>2, HeldBy
<1>5. ASSUME Edit PROVE found' = found
  BY <1>5 DEF Edit, sync
<1>6. ASSUME NEW m \in Models, NEW st \in Statuses, CreateModel(m, st) PROVE Held'
  BY <1>1, <1>3, <1>5, <1>6 DEF CreateModel, admin
<1>7. ASSUME NEW m \in Models, DeleteModel(m) PROVE Held'
  BY <1>1, <1>3, <1>5, <1>7 DEF DeleteModel, admin
<1>8. ASSUME NEW t \in Tables, NEW m \in Models, NEW b \in BOOLEAN, NEW v \in Values(t),
             PostRow(t, m, v, b)
      PROVE  Held'
  <2>1. Edit /\ apc' = apc /\ copy' = copy
    BY <1>8 DEF PostRow, admin
  <2> QED
    BY <1>3, <1>5, <1>8, <2>1, PostWrites
<1>9. ASSUME NEW r \in rows, DeleteRow(r) PROVE Held'
  BY <1>1, <1>3, <1>5, <1>9 DEF DeleteRow, admin
<1>10. ASSUME NEW a \in Admins, ReadForPatch(a) PROVE Held'
  <2>1. rows' = rows /\ ids' = ids /\ found' = found
    BY <1>10 DEF ReadForPatch, sync
  <2>2. CASE \E r \in rows : copy' = [copy EXCEPT ![a] = r] /\ apc' = [apc EXCEPT ![a] = "row"]
    <3>1. PICK r \in rows : copy' = [copy EXCEPT ![a] = r] /\ apc' = [apc EXCEPT ![a] = "row"]
      BY <2>2
    <3>2. \A e \in Admins : apc'[e] = "row" => copy'[e] \in rows \/ (apc[e] = "row" /\ copy'[e] = copy[e])
      BY <1>0, <3>1 DEF Types
    <3>3. Read' \subseteq rows \cup Read
      BY <2>1, <3>2 DEF Read
    <3>4. \A e \in Admins : /\ apc'[e] = "row" => copy'[e] \in Rows
                            /\ apc'[e] = "model" => copy'[e] \in Copies
      BY <1>0, <1>1, <3>1 DEF Types, Schema
    <3> QED
      BY <1>0, <1>1, <2>1, <3>3, <3>4, HeldBy
  <2>3. ASSUME NEW m \in Models, status[m] # "none", apc' = [apc EXCEPT ![a] = "model"],
               copy' = [copy EXCEPT ![a] = [model |-> m, id |-> mid[m], status |-> status[m]]]
        PROVE  Held'
    <3>1. [model |-> m, id |-> mid[m], status |-> status[m]] \in Copies
      BY <1>0, <2>3 DEF Types, Copies
    <3>2. \A e \in Admins : apc'[e] = "row" => apc[e] = "row" /\ copy'[e] = copy[e]
      BY <1>0, <2>3 DEF Types
    <3>3. Read' \subseteq rows \cup Read
      BY <2>1, <3>2 DEF Read
    <3>4. \A e \in Admins : /\ apc'[e] = "row" => copy'[e] \in Rows
                            /\ apc'[e] = "model" => copy'[e] \in Copies
      BY <1>0, <1>1, <2>3, <3>1 DEF Types
    <3> QED
      BY <1>0, <1>1, <2>1, <3>3, <3>4, HeldBy
  <2> QED
    BY <1>10, <2>2, <2>3 DEF ReadForPatch
<1>11. ASSUME NEW a \in Admins, PatchRow(a) PROVE Held'
  <2>1. Edit /\ Patched(a)
    BY <1>11 DEF PatchRow
  <2> QED
    BY <1>4, <1>5, <1>11, <2>1, PatchWrites
<1>12. ASSUME NEW a \in Admins, PatchModel(a) PROVE Held'
  BY <1>4, <1>5, <1>12 DEF PatchModel
<1>13. CASE UNCHANGED vars
  <2>1. found' = found /\ ids' = ids /\ apc' = apc /\ copy' = copy /\ rows' = rows
    BY <1>13 DEF vars, sync, admin
  <2> QED
    BY <1>1, <1>3, <2>1
<1>14. ASSUME AdminStep PROVE Held'
  BY <1>6, <1>7, <1>8, <1>9, <1>10, <1>11, <1>12, <1>14 DEF AdminStep
<1> QED
  BY <1>2, <1>13, <1>14 DEF Next

-----------------------------------------------------------------------------
(* Where the syncs are                                                     *)

\* The state of the sync z is as it was.
Still(z) ==
  /\ spc'[z] = spc[z] /\ payload'[z] = payload[z] /\ todo'[z] = todo[z]
  /\ cur'[z] = cur[z] /\ found'[z] = found[z]

\* The tables are as they were.
Quiet == status' = status /\ mid' = mid /\ rows' = rows

\* A step of one sync leaves the others where they are, and tells those under way
\* if it writes.
LEMMA OtherSyncs ==
  ASSUME Types, NEW s \in Syncs, SyncStep(s), NEW z \in Syncs, z # s
  PROVE  /\ Still(z)
         /\ disturbed'[z] \/ spc[z] = "idle" \/ Quiet
         /\ disturbed[z] => disturbed'[z]
<1> USE DEF Still
<1>1. ASSUME Disturb(s)
      PROVE  (disturbed'[z] \/ spc[z] = "idle" \/ Quiet) /\ (disturbed[z] => disturbed'[z])
  BY <1>1 DEF Disturb
<1>2. ASSUME NEW p \in Payloads, StartSync(s, p)
      PROVE  Still(z) /\ Quiet /\ (disturbed[z] => disturbed'[z])
  <2>1. disturbed'[z] = disturbed[z]
    BY <1>2 DEF StartSync, Types
  <2> QED
    BY <1>2, <2>1 DEF StartSync, Types, Quiet
<1>3. ASSUME NEW x \in todo[s], UpsertModel(s, x) PROVE Still(z) /\ Disturb(s)
  BY <1>3 DEF UpsertModel, Types
<1>4. ASSUME FindRow(s) PROVE Still(z) /\ Quiet /\ disturbed' = disturbed
  BY <1>4 DEF FindRow, Types, Quiet
<1>5. ASSUME PutRow(s) PROVE Still(z) /\ Disturb(s)
  BY <1>5 DEF PutRow, Types
<1>6. ASSUME Conflict(s) \/ ListAllModels(s) \/ FindOld(s) \/ SyncDone(s)
      PROVE  Still(z) /\ Quiet /\ disturbed' = disturbed
  BY <1>6 DEF Conflict, ListAllModels, FindOld, SyncDone, Types, Quiet
<1>7. ASSUME NEW x \in todo[s], RetireModel(s, x) PROVE Still(z) /\ Disturb(s)
  BY <1>7 DEF RetireModel, Types
<1>8. ASSUME RetireRow(s) PROVE Still(z) /\ Disturb(s)
  BY <1>8 DEF RetireRow, NextOld, Types
<1>9. ASSUME Return(s) \/ SyncFails(s)
      PROVE  Still(z) /\ Quiet /\ (disturbed[z] => disturbed'[z])
  <2>1. disturbed'[z] = disturbed[z]
    BY <1>9 DEF Return, SyncFails, Forget, Types
  <2> QED
    BY <1>9, <2>1 DEF Return, SyncFails, Forget, Fault, Types, Quiet
<1>10. ASSUME FindFails(s) \/ ListFails(s) \/ RetireFails(s)
       PROVE  Still(z) /\ Quiet /\ (disturbed[z] => disturbed'[z])
  <2>1. disturbed'[z] = disturbed[z]
    BY <1>10 DEF FindFails, ListFails, RetireFails, Types
  <2>2. Still(z) /\ Quiet
    BY <1>10 DEF FindFails, ListFails, RetireFails, NextOld, Fault, Types, Quiet
  <2> QED
    BY <2>1, <2>2
<1> QED
  BY <1>1, <1>2, <1>3, <1>4, <1>5, <1>6, <1>7, <1>8, <1>9, <1>10 DEF SyncStep

\* So does a step of an administrator.
LEMMA AdminsBeside ==
  ASSUME Types, AdminStep, NEW z \in Syncs
  PROVE  /\ Still(z) /\ (tampered' \/ (Quiet /\ disturbed' = disturbed /\ tampered' = tampered))
         /\ spc' = spc /\ payload' = payload /\ cur' = cur
         /\ disturbed'[z] \/ spc[z] = "idle" \/ Quiet
         /\ disturbed[z] => disturbed'[z]
<1>1. ASSUME Edit
      PROVE  /\ Still(z) /\ tampered' /\ spc' = spc /\ payload' = payload /\ cur' = cur
             /\ disturbed'[z] = (disturbed[z] \/ spc[z] # "idle")
  BY <1>1 DEF Edit, sync, Still
<1>2. ASSUME NEW a \in Admins, ReadForPatch(a)
      PROVE  /\ Still(z) /\ Quiet /\ disturbed' = disturbed /\ tampered' = tampered
             /\ spc' = spc /\ payload' = payload /\ cur' = cur
  BY <1>2 DEF ReadForPatch, sync, Still, Quiet
<1>3. Edit \/ \E a \in Admins : ReadForPatch(a)
  BY DEF AdminStep, CreateModel, DeleteModel, PostRow, DeleteRow, PatchRow, PatchModel
<1> QED
  BY <1>1, <1>2, <1>3

\* Where a sync is does not change while it waits.
LEMMA PlaceKept ==
  ASSUME NEW z \in Syncs, Place(z), Still(z)
  PROVE  Place(z)'
BY DEF Place, Still, Wanted

\* What a sync has done stays done while it waits and nobody disturbs it.
LEMMA ProgressKept ==
  ASSUME NEW z \in Syncs, Progress(z), Still(z), disturbed'[z] \/ spc[z] = "idle" \/ Quiet,
         disturbed[z] => disturbed'[z]
  PROVE  Progress(z)'
<1>1. CASE disturbed'[z] \/ spc[z] = "idle"
  BY <1>1 DEF Progress, Still
<1>2. CASE ~disturbed'[z] /\ Quiet
  <2>1. ~disturbed[z]
    BY <1>2
  <2>2. Left(z)' = Left(z)
    BY DEF Left, Still
  <2>3. \A t, m : Of(t, m)' = Of(t, m) /\ Active(t, m)' = Active(t, m)
    BY <1>2 DEF Of, Active, Quiet
  <2>4. \A t, m : Existing(t, m)' = Existing(t, m) /\ Newest(Active(t, m))' = Newest(Active(t, m))
    <3> TAKE t, m
    <3>1. Of(t, m)' = Of(t, m) /\ Active(t, m)' = Active(t, m)
      BY <2>3
    <3>2. Newest(Of(t, m))' = Newest(Of(t, m)) /\ Newest(Active(t, m))' = Newest(Active(t, m))
      BY <3>1 DEF Newest
    <3> QED
      BY <3>2 DEF Existing
  <2>5. \A t, m : Has(z, t, m)' <=> Has(z, t, m)
    BY <2>3 DEF Has, Still
  <2>6. \A m : Wanted(z, m)' = Wanted(z, m)
    BY DEF Wanted, Still
  <2>7. \A x : IsCurrent(x)' <=> IsCurrent(x)
    BY <1>2 DEF IsCurrent, Quiet
  <2>8. \A m : Shadowed(m)' <=> Shadowed(m)
    BY <2>3 DEF Shadowed
  <2>9. Upserting(z) => Upserting(z)'
    BY <1>2, <2>2, <2>4, <2>5, <2>6 DEF Upserting, Still, Quiet
  <2>10. Cleaning(z) => Cleaning(z)'
    BY <1>2, <2>2, <2>4, <2>5, <2>6, <2>7 DEF Cleaning, Still, Quiet
  <2> QED
    BY <2>1, <2>8, <2>9, <2>10 DEF Progress, Still
<1> QED
  BY <1>1, <1>2

\* The next table of the model being done.
LEMMA PriceNext ==
  ASSUME NEW c \in Places
  PROVE  LET d == [c EXCEPT !.table = "price"]
         IN d \in Places /\ d.model = c.model /\ d.id = c.id /\ d.table = "price"
BY DEF Places, Tables

\* Where a sync goes next, one lemma for each write.
LEMMA AfterUpsert ==
  ASSUME Types, NEW s \in Syncs, Place(s), NEW x \in todo[s], UpsertModel(s, x)
  PROVE  /\ x \in Entries /\ x.model \in DOMAIN payload[s] /\ x.model \in Models /\ x.id = 0
         /\ payload[s] \in Payloads /\ payload' = payload /\ payload[s][x.model].status \in Statuses
         /\ status' = [status EXCEPT ![x.model] = payload[s][x.model].status]
         /\ mid' \in [Models -> Nat]
         /\ rows' = rows /\ found' = found /\ found[s] = None /\ todo'[s] = todo[s] \ {x}
         /\ \/ spc'[s] = "models" /\ Wanted(s, x.model) = {}
            \/ /\ spc'[s] = "find" /\ cur'[s] \in Places
               /\ cur'[s].model = x.model /\ cur'[s].id = mid'[x.model]
               /\ cur'[s].table \in Wanted(s, x.model)
               /\ cur'[s].table = "price" => "route" \notin Wanted(s, x.model)
<1>1. spc[s] = "models" /\ x \in Entries /\ x.model \in DOMAIN payload[s] /\ x.id = 0
  BY DEF UpsertModel, Place, Types
<1>2. /\ payload[s] \in Payloads /\ x.model \in Models /\ payload[s][x.model].status \in Statuses
      /\ found[s] = None
  BY <1>1, PayloadItems DEF Place
<1>3. /\ status' = [status EXCEPT ![x.model] = payload[s][x.model].status] /\ mid' \in [Models -> Nat]
      /\ rows' = rows /\ found' = found /\ payload' = payload /\ todo'[s] = todo[s] \ {x}
  BY <1>2 DEF UpsertModel, Upserted, Types
<1> DEFINE w == Wanted(s, x.model)
           t == IF "route" \in w THEN "route" ELSE "price"
<1>4. /\ spc'[s] = IF w = {} THEN "models" ELSE "find"
      /\ cur'[s] = IF w = {} THEN None ELSE [model |-> x.model, id |-> mid'[x.model], table |-> t]
  BY DEF UpsertModel, Types
<1>5. w \subseteq {"route", "price"}
  BY DEF Wanted, Tables
<1> HIDE DEF w
<1>6. CASE w = {}
  BY <1>1, <1>2, <1>3, <1>4, <1>6 DEF w
<1>7. CASE w # {}
  <2>1. t \in w /\ t \in Tables /\ (t = "price" => "route" \notin w)
    BY <1>5, <1>7 DEF Tables
  <2>2. spc'[s] = "find" /\ cur'[s] = [model |-> x.model, id |-> mid'[x.model], table |-> t]
    BY <1>4, <1>7
  <2> HIDE DEF t
  <2>3. /\ cur'[s] \in Places /\ cur'[s].model = x.model /\ cur'[s].id = mid'[x.model]
        /\ cur'[s].table = t
    BY <1>2, <1>3, <2>1, <2>2 DEF Places
  <2> QED
    BY <1>1, <1>2, <1>3, <2>1, <2>2, <2>3 DEF w
<1> QED
  BY <1>6, <1>7

LEMMA AfterPut ==
  ASSUME Types, NEW s \in Syncs, Place(s), PutRow(s)
  PROVE  /\ cur[s] \in Places /\ cur[s].model \in DOMAIN payload[s]
         /\ payload[s] \in Payloads /\ payload' = payload
         /\ status' = status /\ mid' = mid /\ todo' = todo /\ found'[s] = None
         /\ \/ /\ spc'[s] = "models"
               /\ cur[s].table = "route" => "price" \notin Wanted(s, cur[s].model)
            \/ /\ spc'[s] = "find" /\ cur'[s] \in Places
               /\ cur'[s].model = cur[s].model /\ cur'[s].id = cur[s].id
               /\ cur[s].table = "route" /\ cur'[s].table = "price"
               /\ "price" \in Wanted(s, cur[s].model)
<1>1. /\ spc[s] = "put" /\ cur[s] \in Places /\ cur[s].model \in DOMAIN payload[s]
      /\ payload[s] \in Payloads
  BY DEF PutRow, Place
<1>2. payload' = payload /\ status' = status /\ mid' = mid /\ todo' = todo /\ found'[s] = None
  BY DEF PutRow, Types
<1> DEFINE more == cur[s].table = "route" /\ "price" \in Wanted(s, cur[s].model)
<1>3. /\ spc'[s] = IF more THEN "find" ELSE "models"
      /\ cur'[s] = IF more THEN [cur[s] EXCEPT !.table = "price"] ELSE None
  BY DEF PutRow, Types
<1>4. CASE more
  BY <1>1, <1>2, <1>3, <1>4, PriceNext
<1>5. CASE ~more
  BY <1>1, <1>2, <1>3, <1>5
<1> QED
  BY <1>4, <1>5

LEMMA AfterRetire ==
  ASSUME Types, NEW s \in Syncs, Place(s), NextOld(s), spc[s] = "put_old"
  PROVE  /\ cur[s] \in Places /\ found'[s] = None
         /\ \/ spc'[s] = "retire" /\ cur[s].table = "price"
            \/ /\ spc'[s] = "find_old" /\ cur'[s] \in Places
               /\ cur'[s].model = cur[s].model /\ cur'[s].id = cur[s].id
               /\ cur[s].table = "route" /\ cur'[s].table = "price"
<1>1. cur[s] \in Places /\ cur[s].table \in {"route", "price"}
  BY DEF Place, Places, Tables
<1>2. /\ spc'[s] = IF cur[s].table = "route" THEN "find_old" ELSE "retire"
      /\ cur'[s] = IF cur[s].table = "route" THEN [cur[s] EXCEPT !.table = "price"] ELSE None
      /\ found'[s] = None
  BY DEF NextOld, Types
<1> QED
  BY <1>1, <1>2, PriceNext

\* A sync's own steps keep it on its way.
LEMMA PlaceOwn ==
  ASSUME IInv, NEW s \in Syncs, SyncStep(s)
  PROVE  Place(s)'
<1>0. Types /\ Schema /\ Place(s)
  BY DEF IInv
<1>1. ASSUME NEW p \in Payloads, StartSync(s, p) PROVE Place(s)'
  <2>1. /\ spc'[s] = "models" /\ payload'[s] = p /\ found'[s] = found[s] /\ cur'[s] = cur[s]
        /\ todo'[s] = {[model |-> m, id |-> 0] : m \in DOMAIN p} /\ spc[s] = "idle"
    BY <1>0, <1>1 DEF StartSync, Types
  <2>2. \A x \in todo'[s] : x.model \in DOMAIN p /\ x.id = 0
    BY <2>1
  <2> QED
    BY <1>0, <2>1, <2>2 DEF Place
<1>2. ASSUME NEW x \in todo[s], UpsertModel(s, x) PROVE Place(s)'
  <2>1. spc[s] = "models"
    BY <1>2 DEF UpsertModel
  <2>2. \A y \in todo'[s] : y.model \in DOMAIN payload[s] /\ y.id = 0
    BY <1>0, <1>2, <2>1, AfterUpsert DEF Place
  <2>3. \A m : Wanted(s, m)' = Wanted(s, m)
    BY <1>0, <1>2, AfterUpsert DEF Wanted
  <2> QED
    BY <1>0, <1>2, <2>2, <2>3, AfterUpsert DEF Place
<1>3. ASSUME FindRow(s) PROVE Place(s)'
  <2>1. /\ spc[s] = "find" /\ spc'[s] = "put" /\ payload' = payload /\ todo' = todo /\ cur' = cur
        /\ found'[s] = IF mid[cur[s].model] = cur[s].id
                       THEN Existing(cur[s].table, cur[s].model) ELSE None
    BY <1>0, <1>3 DEF FindRow, Types
  <2>2. cur[s].table \in Tables /\ cur[s].model \in Models
    BY <1>0, <2>1 DEF Place, Places
  <2>3. found'[s] # None => found'[s].table = cur[s].table /\ found'[s].model = cur[s].model
    BY <1>0, <2>1, <2>2, Finding DEF Of
  <2> QED
    BY <1>0, <2>1, <2>3 DEF Place, Wanted
<1>4. ASSUME PutRow(s) PROVE Place(s)'
  <2>1. spc[s] = "put"
    BY <1>4 DEF PutRow
  <2>2. \A m : Wanted(s, m)' = Wanted(s, m)
    BY <1>0, <1>4, AfterPut DEF Wanted
  <2> QED
    BY <1>0, <1>4, <2>1, <2>2, AfterPut DEF Place
<1>5. ASSUME Conflict(s) PROVE Place(s)'
  <2>1. /\ spc[s] = "put" /\ spc'[s] = "conflict" /\ payload' = payload /\ todo' = todo
        /\ cur' = cur /\ found' = found
    BY <1>0, <1>5 DEF Conflict, Types
  <2> QED
    BY <1>0, <2>1 DEF Place, Wanted
<1>6. ASSUME ListAllModels(s) PROVE Place(s)'
  <2>1. /\ spc[s] = "models" /\ spc'[s] = "retire" /\ payload' = payload /\ cur' = cur /\ found' = found
    BY <1>0, <1>6 DEF ListAllModels, Types
  <2> QED
    BY <1>0, <2>1 DEF Place
<1>7. ASSUME NEW x \in todo[s], cur' = [cur EXCEPT ![s] = [model |-> x.model, id |-> x.id, table |-> "route"]],
             spc' = [spc EXCEPT ![s] = "find_old"], payload' = payload, found' = found,
             spc[s] = "retire"
      PROVE  Place(s)'
  <2>1. x \in Entries
    BY <1>0 DEF Types
  <2>2. cur'[s] = [model |-> x.model, id |-> x.id, table |-> "route"] /\ spc'[s] = "find_old"
    BY <1>0, <1>7 DEF Types
  <2>3. cur'[s] \in Places
    BY <2>1, <2>2 DEF Entries, Places, Tables
  <2>4. found'[s] = None /\ payload'[s] \in Payloads
    BY <1>0, <1>7 DEF Place
  <2> QED
    BY <2>2, <2>3, <2>4 DEF Place
<1>8. ASSUME NEW x \in todo[s], RetireModel(s, x) PROVE Place(s)'
  BY <1>7, <1>8 DEF RetireModel
<1>9. ASSUME FindOld(s) PROVE Place(s)'
  <2>1. /\ spc[s] = "find_old" /\ spc'[s] = "put_old" /\ payload' = payload /\ cur' = cur
        /\ found'[s] = IF IsCurrent(cur[s])
                       THEN Newest(Active(cur[s].table, cur[s].model)) ELSE None
    BY <1>0, <1>9 DEF FindOld, Types
  <2>2. cur[s].table \in Tables /\ cur[s].model \in Models
    BY <1>0, <2>1 DEF Place, Places
  <2>3. found'[s] # None => found'[s].table = cur[s].table /\ found'[s].model = cur[s].model
    BY <1>0, <2>1, <2>2, Finding DEF Active, Of
  <2> QED
    BY <1>0, <2>1, <2>3 DEF Place
<1>10. ASSUME NextOld(s), spc[s] = "put_old", payload' = payload PROVE Place(s)'
  BY <1>0, <1>10, AfterRetire DEF Place
<1>11. ASSUME RetireRow(s) PROVE Place(s)'
  BY <1>10, <1>11 DEF RetireRow
<1>12. ASSUME SyncDone(s) PROVE Place(s)'
  <2>1. /\ spc[s] = "retire" /\ spc'[s] = "done" /\ payload' = payload /\ cur' = cur /\ found' = found
    BY <1>0, <1>12 DEF SyncDone, Types
  <2> QED
    BY <1>0, <2>1 DEF Place
<1>13. ASSUME Return(s) \/ SyncFails(s) PROVE Place(s)'
  <2>1. spc'[s] = "idle" /\ found'[s] = None
    BY <1>0, <1>13 DEF Return, SyncFails, Forget, Types
  <2> QED
    BY <2>1 DEF Place
<1>14. ASSUME FindFails(s) PROVE Place(s)'
  <2>1. /\ spc[s] \in {"find", "find_old"} /\ spc'[s] = IF spc[s] = "find" THEN "put" ELSE "put_old"
        /\ payload' = payload /\ todo' = todo /\ cur' = cur /\ found'[s] = None
    BY <1>0, <1>14 DEF FindFails, Types
  <2> QED
    BY <1>0, <2>1 DEF Place, Wanted
<1>15. ASSUME ListFails(s) PROVE Place(s)'
  <2>1. /\ spc[s] = "models" /\ spc'[s] = "retire" /\ payload' = payload /\ cur' = cur /\ found' = found
    BY <1>0, <1>15 DEF ListFails, Types
  <2> QED
    BY <1>0, <2>1 DEF Place
<1>16. ASSUME RetireFails(s) PROVE Place(s)'
  <2>1. payload' = payload
    BY <1>16 DEF RetireFails
  <2> QED
    BY <1>7, <1>10, <1>16, <2>1 DEF RetireFails
<1> QED
  BY <1>1, <1>2, <1>3, <1>4, <1>5, <1>6, <1>8, <1>9, <1>11, <1>12, <1>13, <1>14, <1>15, <1>16
  DEF SyncStep

-----------------------------------------------------------------------------
(* What an undisturbed sync has done                                       *)

\* A table has one active row for a model, if any.
LEMMA OneActive ==
  ASSUME Schema, NEW t, NEW m, NEW q \in Active(t, m), NEW r \in Active(t, m)
  PROVE  q = r
BY DEF Schema, Active, Of

\* A model upserted leaves the list, with its status, and its rows come next.
LEMMA UpsertProgress ==
  ASSUME Types, NEW s \in Syncs, Place(s), NEW x \in todo[s], UpsertModel(s, x), Upserting(s)
  PROVE  Upserting(s)'
<1>1. /\ spc[s] = "models" /\ status \in [Models -> Statuses \cup {"none"}]
      /\ \A y \in todo[s] : y \in Entries /\ y.id = 0 /\ y.model \in DOMAIN payload[s]
  BY DEF UpsertModel, Types, Place
<1>2. ASSUME NEW m \in DOMAIN payload[s], m \notin Left(s)' PROVE m = x.model \/ m \notin Left(s)
  BY <1>2, AfterUpsert DEF Left
<1>3. x.model \in Left(s)
  BY DEF Left
<1>4. x.model \notin Left(s)'
  <2> SUFFICES ASSUME NEW y \in todo'[s], y.model = x.model PROVE FALSE
    BY DEF Left
  <2>1. y \in todo[s] /\ y # x
    BY AfterUpsert
  <2>2. y = x
    BY <1>1, <2>1 DEF Entries
  <2> QED
    BY <2>1, <2>2
<1>5. /\ payload' = payload /\ x.model \in Models /\ x.model \in DOMAIN payload[s]
      /\ status' = [status EXCEPT ![x.model] = payload[s][x.model].status]
      /\ \A m \in DOMAIN payload[s] : m \in Models
  BY AfterUpsert, PayloadItems
<1>6. \A m : Wanted(s, m)' = Wanted(s, m)
  BY <1>5 DEF Wanted
<1>7. \A t, m : Has(s, t, m)' <=> Has(s, t, m)
  BY AfterUpsert DEF Has, Active, Of
<1>8. ASSUME NEW m \in DOMAIN payload[s], m \notin Left(s)'
      PROVE  status'[m] = payload[s][m].status
  <2>1. CASE m = x.model
    BY <1>1, <1>5, <2>1
  <2>2. CASE m # x.model
    BY <1>1, <1>2, <1>5, <1>8, <2>2 DEF Upserting
  <2> QED
    BY <2>1, <2>2
<1>9. ASSUME NEW m \in DOMAIN payload[s], m \notin Left(s)', NEW t \in Wanted(s, m)
      PROVE  \/ Has(s, t, m)'
             \/ spc'[s] # "models" /\ m = cur'[s].model /\ (t = "price" \/ cur'[s].table = "route")
  <2>1. CASE m = x.model
    <3>1. t \in {"route", "price"} /\ Wanted(s, x.model) \subseteq {"route", "price"}
      BY DEF Wanted, Tables
    <3> QED
      BY <1>9, <2>1, <3>1, AfterUpsert
  <2>2. CASE m # x.model
    BY <1>1, <1>2, <1>7, <1>9, <2>2 DEF Upserting
  <2> QED
    BY <2>1, <2>2
<1>10. spc'[s] \in {"find", "put"} => cur'[s].model \notin Left(s)' /\ mid'[cur'[s].model] = cur'[s].id
  BY <1>4, AfterUpsert
<1>11. spc'[s] # "put"
  BY AfterUpsert
<1> QED
  BY <1>5, <1>6, <1>8, <1>9, <1>10, <1>11 DEF Upserting

\* What is read of a table is what is there.
LEMMA FindProgress ==
  ASSUME Types, NEW s \in Syncs, FindRow(s), Upserting(s)
  PROVE  Upserting(s)'
<1>1. /\ spc[s] = "find" /\ spc'[s] = "put" /\ payload' = payload /\ todo' = todo /\ cur' = cur
      /\ status' = status /\ mid' = mid /\ rows' = rows
      /\ found'[s] = IF mid[cur[s].model] = cur[s].id
                     THEN Existing(cur[s].table, cur[s].model) ELSE None
  BY DEF FindRow, Types
<1>2. found'[s] = Existing(cur[s].table, cur[s].model)
  BY <1>1 DEF Upserting
<1>3. Left(s)' = Left(s) /\ (\A m : Wanted(s, m)' = Wanted(s, m)) /\ \A t, m : Has(s, t, m)' <=> Has(s, t, m)
  BY <1>1 DEF Left, Wanted, Has, Active, Of
<1>4. Existing(cur[s].table, cur[s].model)' = Existing(cur[s].table, cur[s].model)
  <2> DEFINE t == cur[s].table
             m == cur[s].model
  <2>1. Of(t, m)' = Of(t, m) /\ Active(t, m)' = Active(t, m)
    BY <1>1 DEF Of, Active
  <2>2. Newest(Of(t, m))' = Newest(Of(t, m)) /\ Newest(Active(t, m))' = Newest(Active(t, m))
    BY <2>1 DEF Newest
  <2> QED
    BY <1>1, <2>2 DEF Existing
<1> QED
  BY <1>1, <1>2, <1>3, <1>4 DEF Upserting

\* A row written is there, and the rows written before it are too.
LEMMA PutProgress ==
  ASSUME IInv, NEW s \in Syncs, PutRow(s), Upserting(s)
  PROVE  Upserting(s)'
<1>0. Types /\ Schema /\ Held /\ Place(s) /\ spc[s] = "put"
  BY DEF IInv, PutRow
<1>1. /\ NewRow(s).active /\ NewRow(s).table = cur[s].table /\ NewRow(s).model = cur[s].model
      /\ NewRow(s).value = payload[s][cur[s].model][cur[s].table]
  BY <1>0, NewRowTyped
<1>2. rows' = Written(NewRow(s)) /\ Known(NewRow(s))
  BY PutWrites
<1>3. payload' = payload /\ status' = status /\ mid' = mid /\ todo' = todo
  BY <1>0, AfterPut
<1>4. Left(s)' = Left(s) /\ \A m : Wanted(s, m)' = Wanted(s, m)
  BY <1>3 DEF Left, Wanted
<1>5. ASSUME NEW t, NEW m, t = cur[s].table, m = cur[s].model PROVE Has(s, t, m)'
  <2>1. NewRow(s) \in rows'
    BY <1>2 DEF Written
  <2>2. NewRow(s) \in Active(t, m)'
    BY <1>1, <1>5, <2>1 DEF Active, Of
  <2> QED
    BY <1>1, <1>3, <1>5, <2>2 DEF Has
<1>6. ASSUME NEW t, NEW m, t # cur[s].table \/ m # cur[s].model, Has(s, t, m) PROVE Has(s, t, m)'
  <2>1. Active(t, m)' = Active(t, m)
    BY <1>0, <1>1, <1>2, <1>6, WriteElsewhere
  <2> QED
    BY <1>3, <1>6, <2>1 DEF Has
<1>7. ASSUME NEW m \in DOMAIN payload[s], m \notin Left(s), NEW t \in Wanted(s, m)
      PROVE  \/ Has(s, t, m)'
             \/ spc'[s] # "models" /\ m = cur'[s].model /\ (t = "price" \/ cur'[s].table = "route")
  <2>1. t \in {"route", "price"} /\ cur[s].table \in {"route", "price"}
    BY <1>0 DEF Wanted, Tables, Place, Places
  <2>2. CASE m # cur[s].model
    BY <1>6, <1>7, <2>2 DEF Upserting
  <2>3. CASE m = cur[s].model /\ t = cur[s].table
    BY <1>5, <2>3
  <2>4. CASE m = cur[s].model /\ t = "price" /\ cur[s].table = "route"
    BY <1>0, <1>7, <2>4, AfterPut
  <2>5. CASE m = cur[s].model /\ t = "route" /\ cur[s].table = "price"
    BY <1>6, <1>7, <2>5 DEF Upserting
  <2> QED
    BY <2>1, <2>2, <2>3, <2>4, <2>5
<1>8. spc'[s] = "find" => cur'[s].model \notin Left(s) /\ mid[cur'[s].model] = cur'[s].id
  BY <1>0, AfterPut DEF Upserting
<1>9. spc'[s] # "put"
  BY <1>0, AfterPut
<1> QED
  BY <1>3, <1>4, <1>7, <1>8, <1>9 DEF Upserting

\* An undisturbed sync is refused a row only beside a newer inactive price.
LEMMA ConflictProgress ==
  ASSUME IInv, NEW s \in Syncs, Conflict(s), Upserting(s)
  PROVE  cur[s].table = "price" /\ Shadowed(cur[s].model)
<1>0. Types /\ Schema /\ Held /\ Place(s) /\ spc[s] = "put"
  BY DEF IInv, Conflict
<1> DEFINE t == cur[s].table
           m == cur[s].model
<1>1. /\ t \in {"route", "price"} /\ t \in Tables /\ m \in Models /\ m \in DOMAIN payload[s]
      /\ payload[s] \in Payloads
  BY <1>0 DEF Place, Places, Tables
<1>2. /\ m \notin Left(s) /\ mid[m] = cur[s].id /\ found[s] = Existing(t, m)
      /\ status[m] = payload[s][m].status
  BY <1>0, <1>1 DEF Upserting
<1>3. status[m] # "none"
  BY <1>1, <1>2, PayloadItems DEF Statuses
<1>4. /\ NewRow(s).table = t /\ NewRow(s).model = m
      /\ NewRow(s).id = IF found[s] = None THEN ids + 1 ELSE found[s].id
  BY <1>0, NewRowTyped
<1>5. ~Unique(NewRow(s))
  BY <1>2, <1>3, <1>4 DEF Conflict, Accepted
<1>6. PICK q \in Active(t, m) : q.id # NewRow(s).id
  BY <1>4, <1>5 DEF Unique
<1>7. Active(t, m) \in SUBSET rows /\ Of(t, m) \in SUBSET rows /\ q \in Of(t, m)
  BY <1>6 DEF Active, Of
<1>8. CASE t = "route"
  <2>1. found[s] \in Active(t, m) /\ found[s] # None
    BY <1>0, <1>2, <1>6, <1>7, <1>8, NewestRow DEF Existing
  <2>2. found[s] = q
    BY <1>0, <1>6, <2>1, OneActive
  <2> QED
    BY <1>4, <1>6, <2>1, <2>2
<1>9. CASE t = "price"
  <2>1. found[s] \in Of(t, m) /\ found[s] # None /\ q.id <= found[s].id
    BY <1>0, <1>2, <1>7, <1>9, NewestRow DEF Existing
  <2>2. q.id # found[s].id
    BY <1>4, <1>6, <2>1
  <2>3. q.id \in Nat /\ found[s].id \in Nat
    BY <1>0, <1>7, <2>1 DEF Schema, Rows
  <2>4. found[s].id > q.id
    BY <2>1, <2>2, <2>3
  <2>5. ~found[s].active
    <3>1. found[s].active => found[s] \in Active(t, m)
      BY <2>1 DEF Active
    <3> QED
      BY <1>0, <1>6, <2>2, <3>1, OneActive
  <2> QED
    BY <1>6, <1>9, <2>1, <2>4, <2>5 DEF Shadowed
<1> QED
  BY <1>1, <1>8, <1>9

\* The cleanup lists the live models outside the payload.
LEMMA ListProgress ==
  ASSUME Types, NEW s \in Syncs, ListAllModels(s), Upserting(s)
  PROVE  Cleaning(s)'
<1>1. /\ spc[s] = "models" /\ spc'[s] = "retire" /\ todo[s] = {} /\ payload' = payload
      /\ status' = status /\ mid' = mid /\ rows' = rows
      /\ todo'[s] = {[model |-> m, id |-> mid[m]] :
                     m \in {n \in Models \ DOMAIN payload[s] : status[n] = "active"}}
  BY DEF ListAllModels, Types
<1>2. Left(s) = {}
  BY <1>1 DEF Left
<1>3. (\A m : Wanted(s, m)' = Wanted(s, m)) /\ \A t, m : Has(s, t, m)' <=> Has(s, t, m)
  BY <1>1 DEF Wanted, Has, Active, Of
<1>4. \A m : m \in Left(s)' <=> m \in Models \ DOMAIN payload[s] /\ status[m] = "active"
  <2>1. ASSUME NEW m \in Models \ DOMAIN payload[s], status[m] = "active" PROVE m \in Left(s)'
    <3>1. [model |-> m, id |-> mid[m]] \in todo'[s]
      BY <1>1, <2>1
    <3> QED
      BY <3>1 DEF Left
  <2>2. ASSUME NEW x \in todo'[s]
        PROVE  x.model \in Models \ DOMAIN payload[s] /\ status[x.model] = "active"
    BY <1>1
  <2> QED
    BY <2>1, <2>2 DEF Left
<1>5. \A x \in todo'[s] : status[x.model] # "none" /\ mid[x.model] = x.id
  BY <1>1
<1>6. ASSUME NEW m \in DOMAIN payload[s]
      PROVE  /\ status[m] = payload[s][m].status
             /\ \A t \in Wanted(s, m) : Has(s, t, m)
             /\ m \notin Left(s)'
  BY <1>1, <1>2, <1>4 DEF Upserting
<1>7. \A m \in Models \ DOMAIN payload[s] : status[m] \in {"none", "retired"} \/ m \in Left(s)'
  BY <1>4 DEF Types, Statuses
<1> QED
  BY <1>1, <1>3, <1>5, <1>6, <1>7 DEF Cleaning, IsCurrent

\* A listed model is retired, and its rows come next.
LEMMA RetireProgress ==
  ASSUME Types, NEW s \in Syncs, NEW x \in todo[s], RetireModel(s, x), Cleaning(s)
  PROVE  Cleaning(s)'
<1>1. x \in Entries /\ x.model \in Models /\ IsCurrent(x) /\ x.model \in Left(s)
  BY DEF Types, Entries, Cleaning, Left
<1>2. /\ spc'[s] = "find_old" /\ todo'[s] = todo[s] \ {x} /\ payload' = payload /\ mid' = mid
      /\ rows' = rows /\ cur'[s] = [model |-> x.model, id |-> x.id, table |-> "route"]
      /\ status' = [status EXCEPT ![x.model] = "retired"]
  BY <1>1 DEF RetireModel, Types
<1>3. (\A m : Wanted(s, m)' = Wanted(s, m)) /\ \A t, m : Has(s, t, m)' <=> Has(s, t, m)
  BY <1>2 DEF Wanted, Has, Active, Of
<1>4. x.model \notin DOMAIN payload[s] /\ cur'[s].model = x.model /\ cur'[s].id = x.id
  BY <1>1, <1>2 DEF Cleaning
<1>5. status'[x.model] = "retired" /\ \A m \in Models \ {x.model} : status'[m] = status[m]
  BY <1>1, <1>2 DEF Types
<1>6. ASSUME NEW m \in Left(s)' PROVE m \in Left(s)
  BY <1>2 DEF Left
<1>7. ASSUME NEW m \in Left(s), m # x.model PROVE m \in Left(s)'
  BY <1>2, <1>7 DEF Left
<1>8. ASSUME NEW y, y.model \in Models, IsCurrent(y) PROVE IsCurrent(y)'
  BY <1>2, <1>5, <1>8 DEF IsCurrent
<1>9. ASSUME NEW m \in DOMAIN payload[s]
      PROVE  /\ status'[m] = payload[s][m].status
             /\ \A t \in Wanted(s, m) : Has(s, t, m)
             /\ m \notin Left(s)'
  <2>1. status[m] = payload[s][m].status /\ m # x.model
    BY <1>4 DEF Cleaning
  <2>2. status'[m] = status[m]
    BY <1>2, <2>1 DEF Types
  <2> QED
    BY <1>6, <2>1, <2>2 DEF Cleaning
<1>10. \A m \in Models \ DOMAIN payload[s] : status'[m] \in {"none", "retired"} \/ m \in Left(s)'
  BY <1>5, <1>7 DEF Cleaning
<1>11. \A y \in todo'[s] : IsCurrent(y)'
  BY <1>2, <1>8 DEF Cleaning, Types, Entries
<1>12. cur'[s].model \notin DOMAIN payload[s] /\ mid'[cur'[s].model] = cur'[s].id
       /\ status'[cur'[s].model] # "none"
  BY <1>1, <1>2, <1>4, <1>5 DEF IsCurrent
<1> QED
  BY <1>2, <1>3, <1>9, <1>10, <1>11, <1>12 DEF Cleaning, IsCurrent

\* The active row of the model being retired is read.
LEMMA FindOldProgress ==
  ASSUME Types, NEW s \in Syncs, FindOld(s), Cleaning(s)
  PROVE  Cleaning(s)'
<1>1. /\ spc[s] = "find_old" /\ spc'[s] = "put_old" /\ payload' = payload /\ todo' = todo /\ cur' = cur
      /\ status' = status /\ mid' = mid /\ rows' = rows
      /\ found'[s] = IF IsCurrent(cur[s]) THEN Newest(Active(cur[s].table, cur[s].model)) ELSE None
  BY DEF FindOld, Types
<1>2. IsCurrent(cur[s]) /\ found'[s] = Newest(Active(cur[s].table, cur[s].model))
  BY <1>1 DEF Cleaning
<1>3. /\ Left(s)' = Left(s) /\ (\A m : Wanted(s, m)' = Wanted(s, m))
      /\ \A t, m : Has(s, t, m)' <=> Has(s, t, m)
  BY <1>1 DEF Left, Wanted, Has, Active, Of
<1>4. \A x : IsCurrent(x)' <=> IsCurrent(x)
  BY <1>1 DEF IsCurrent
<1>5. Newest(Active(cur[s].table, cur[s].model))' = Newest(Active(cur[s].table, cur[s].model))
  <2>1. Active(cur[s].table, cur[s].model)' = Active(cur[s].table, cur[s].model)
    BY <1>1 DEF Active, Of
  <2> QED
    BY <2>1 DEF Newest
<1> QED
  BY <1>1, <1>2, <1>3, <1>4, <1>5 DEF Cleaning

\* Rows of a model that leaves the catalogue are nobody else's.
LEMMA RetireRowProgress ==
  ASSUME IInv, NEW s \in Syncs, RetireRow(s), Cleaning(s)
  PROVE  Cleaning(s)'
<1>0. Types /\ Schema /\ Held /\ Place(s) /\ spc[s] = "put_old" /\ NextOld(s)
  BY DEF IInv, RetireRow
<1>1. payload' = payload /\ todo' = todo /\ status' = status /\ mid' = mid
  BY DEF RetireRow
<1>2. cur[s].model \notin DOMAIN payload[s] /\ IsCurrent(cur[s])
  BY <1>0 DEF Cleaning
<1>3. ASSUME NEW t, NEW m, m # cur[s].model PROVE Active(t, m)' = Active(t, m)
  <2>1. CASE rows' = rows
    BY <2>1 DEF Active, Of
  <2>2. CASE rows' # rows
    <3>1. rows' = Written(Retired(s)) /\ Known(Retired(s)) /\ Retired(s).model = cur[s].model
      BY <2>2, RetireWrites
    <3> QED
      BY <1>0, <1>3, <3>1, WriteElsewhere
  <2> QED
    BY <2>1, <2>2
<1>4. ASSUME NEW m \in DOMAIN payload[s], NEW t \in Wanted(s, m) PROVE Has(s, t, m)'
  <2>1. Has(s, t, m) /\ Active(t, m)' = Active(t, m)
    BY <1>2, <1>3 DEF Cleaning
  <2> QED
    BY <1>1, <2>1 DEF Has
<1>5. Left(s)' = Left(s) /\ \A m : Wanted(s, m)' = Wanted(s, m)
  BY <1>1 DEF Left, Wanted
<1>6. \A x : IsCurrent(x)' <=> IsCurrent(x)
  BY <1>1 DEF IsCurrent
<1>7. spc'[s] = "find_old" => cur'[s].model = cur[s].model /\ cur'[s].id = cur[s].id
  BY <1>0, AfterRetire
<1>8. spc'[s] \in {"find_old", "retire"}
  BY <1>0, AfterRetire
<1>9. spc'[s] = "find_old" => cur'[s].model \notin DOMAIN payload[s]
                              /\ status[cur'[s].model] # "none" /\ mid[cur'[s].model] = cur'[s].id
  BY <1>2, <1>7 DEF IsCurrent
<1> QED
  BY <1>1, <1>4, <1>5, <1>6, <1>8, <1>9 DEF Cleaning, IsCurrent

\* A sync's own steps get on with it.
LEMMA ProgressOwn ==
  ASSUME IInv, NEW s \in Syncs, SyncStep(s)
  PROVE  Progress(s)'
<1>0. Types /\ Schema /\ Held /\ Place(s) /\ Progress(s)
  BY DEF IInv
<1>1. ASSUME Disturb(s), ~disturbed'[s] PROVE ~disturbed[s]
  BY <1>0, <1>1 DEF Disturb, Types
<1>2. ASSUME NEW p \in Payloads, StartSync(s, p) PROVE Progress(s)'
  <2>1. /\ spc'[s] = "models" /\ payload'[s] = p
        /\ todo'[s] = {[model |-> m, id |-> 0] : m \in DOMAIN p}
    BY <1>0, <1>2 DEF StartSync, Types
  <2>2. ASSUME NEW m \in DOMAIN p PROVE m \in Left(s)'
    <3>1. [model |-> m, id |-> 0] \in todo'[s]
      BY <2>1
    <3> QED
      BY <3>1 DEF Left
  <2> QED
    BY <2>1, <2>2 DEF Progress, Upserting
<1>3. ASSUME NEW x \in todo[s], UpsertModel(s, x) PROVE Progress(s)'
  <2>1. Disturb(s) /\ spc[s] = "models" /\ spc'[s] \in {"models", "find"}
    BY <1>0, <1>3, AfterUpsert DEF UpsertModel
  <2>2. ASSUME ~disturbed'[s] PROVE Upserting(s)'
    BY <1>0, <1>1, <1>3, <2>1, <2>2, UpsertProgress DEF Progress
  <2> QED
    BY <2>1, <2>2 DEF Progress
<1>4. ASSUME FindRow(s) PROVE Progress(s)'
  <2>1. disturbed' = disturbed /\ spc[s] = "find" /\ spc'[s] = "put"
    BY <1>0, <1>4 DEF FindRow, Types
  <2>2. ASSUME ~disturbed'[s] PROVE Upserting(s)'
    BY <1>0, <1>4, <2>1, <2>2, FindProgress DEF Progress
  <2> QED
    BY <2>1, <2>2 DEF Progress
<1>5. ASSUME PutRow(s) PROVE Progress(s)'
  <2>1. Disturb(s) /\ spc[s] = "put" /\ spc'[s] \in {"models", "find"}
    BY <1>0, <1>5, AfterPut DEF PutRow
  <2>2. ASSUME ~disturbed'[s] PROVE Upserting(s)'
    BY <1>0, <1>1, <1>5, <2>1, <2>2, PutProgress DEF Progress
  <2> QED
    BY <2>1, <2>2 DEF Progress
<1>6. ASSUME Conflict(s) PROVE Progress(s)'
  <2>1. /\ disturbed' = disturbed /\ spc[s] = "put" /\ spc'[s] = "conflict" /\ cur' = cur /\ rows' = rows
    BY <1>0, <1>6 DEF Conflict, Types
  <2>2. ASSUME ~disturbed'[s] PROVE cur[s].table = "price" /\ Shadowed(cur[s].model)
    BY <1>0, <1>6, <2>1, <2>2, ConflictProgress DEF Progress
  <2>3. \A m : Shadowed(m)' <=> Shadowed(m)
    BY <2>1 DEF Shadowed, Of, Active
  <2> QED
    BY <2>1, <2>2, <2>3 DEF Progress
<1>7. ASSUME ListAllModels(s) PROVE Progress(s)'
  <2>1. disturbed' = disturbed /\ spc[s] = "models" /\ spc'[s] = "retire"
    BY <1>0, <1>7 DEF ListAllModels, Types
  <2>2. ASSUME ~disturbed'[s] PROVE Cleaning(s)'
    BY <1>0, <1>7, <2>1, <2>2, ListProgress DEF Progress
  <2> QED
    BY <2>1, <2>2 DEF Progress
<1>8. ASSUME NEW x \in todo[s], RetireModel(s, x) PROVE Progress(s)'
  <2>1. Disturb(s) /\ spc[s] = "retire" /\ spc'[s] = "find_old"
    BY <1>0, <1>8 DEF RetireModel, Types
  <2>2. ASSUME ~disturbed'[s] PROVE Cleaning(s)'
    BY <1>0, <1>1, <1>8, <2>1, <2>2, RetireProgress DEF Progress
  <2> QED
    BY <2>1, <2>2 DEF Progress
<1>9. ASSUME FindOld(s) PROVE Progress(s)'
  <2>1. disturbed' = disturbed /\ spc[s] = "find_old" /\ spc'[s] = "put_old"
    BY <1>0, <1>9 DEF FindOld, Types
  <2>2. ASSUME ~disturbed'[s] PROVE Cleaning(s)'
    BY <1>0, <1>9, <2>1, <2>2, FindOldProgress DEF Progress
  <2> QED
    BY <2>1, <2>2 DEF Progress
<1>10. ASSUME RetireRow(s) PROVE Progress(s)'
  <2>1. Disturb(s) /\ spc[s] = "put_old" /\ spc'[s] \in {"find_old", "retire"}
    BY <1>0, <1>10, AfterRetire DEF RetireRow
  <2>2. ASSUME ~disturbed'[s] PROVE Cleaning(s)'
    BY <1>0, <1>1, <1>10, <2>1, <2>2, RetireRowProgress DEF Progress
  <2> QED
    BY <2>1, <2>2 DEF Progress
<1>11. ASSUME SyncDone(s) PROVE Progress(s)'
  <2>1. /\ disturbed' = disturbed /\ spc[s] = "retire" /\ spc'[s] = "done" /\ todo[s] = {} /\ todo' = todo
        /\ payload' = payload /\ cur' = cur /\ Quiet
    BY <1>0, <1>11 DEF SyncDone, Types, Quiet
  <2>2. /\ Left(s)' = Left(s) /\ (\A m : Wanted(s, m)' = Wanted(s, m))
        /\ \A t, m : Has(s, t, m)' <=> Has(s, t, m)
    BY <2>1 DEF Left, Wanted, Has, Active, Of, Quiet
  <2>3. \A x : IsCurrent(x)' <=> IsCurrent(x)
    BY <2>1 DEF IsCurrent, Quiet
  <2>4. Cleaning(s) => Cleaning(s)'
    BY <2>1, <2>2, <2>3 DEF Cleaning, Quiet
  <2> QED
    BY <1>0, <2>1, <2>4 DEF Progress
<1>12. ASSUME Return(s) \/ SyncFails(s) PROVE Progress(s)'
  <2>1. spc'[s] = "idle"
    BY <1>0, <1>12 DEF Return, SyncFails, Forget, Types
  <2> QED
    BY <2>1 DEF Progress
<1>13. ASSUME FindFails(s) \/ ListFails(s) \/ RetireFails(s) PROVE Progress(s)'
  <2>1. disturbed'[s]
    BY <1>0, <1>13 DEF FindFails, ListFails, RetireFails, Types
  <2> QED
    BY <2>1 DEF Progress
<1> QED
  BY <1>2, <1>3, <1>4, <1>5, <1>6, <1>7, <1>8, <1>9, <1>10, <1>11, <1>12, <1>13 DEF SyncStep

-----------------------------------------------------------------------------
(* Calls one after the other                                               *)

\* What tampers stays known.
LEMMA TamperedStays ==
  ASSUME NEW s \in Syncs, SyncStep(s), ~tampered'
  PROVE  /\ ~tampered /\ ~Conflict(s)
         /\ ~(SyncFails(s) \/ FindFails(s) \/ ListFails(s) \/ RetireFails(s))
<1>1. ~Conflict(s) /\ ~(SyncFails(s) \/ FindFails(s) \/ ListFails(s) \/ RetireFails(s))
  BY DEF Conflict, SyncFails, FindFails, ListFails, RetireFails, Fault
<1>2. \/ \E p \in Payloads : StartSync(s, p)
      \/ \E x \in todo[s] : UpsertModel(s, x) \/ RetireModel(s, x)
      \/ FindRow(s) \/ PutRow(s) \/ ListAllModels(s) \/ FindOld(s) \/ RetireRow(s)
      \/ SyncDone(s) \/ Return(s)
  BY <1>1 DEF SyncStep
<1>3. ~tampered
  BY <1>2 DEF StartSync, UpsertModel, RetireModel, FindRow, PutRow, ListAllModels, FindOld, RetireRow,
              SyncDone, Return
<1> QED
  BY <1>1, <1>3

\* A sync that is alone stays alone and undisturbed.
LEMMA Alone ==
  ASSUME IInv, NEW s \in Syncs, SyncStep(s), ~tampered', spc[s] # "idle"
  PROVE  /\ \A z \in Syncs : ~disturbed'[z] /\ spc'[z] # "conflict"
         /\ \A z \in Syncs \ {s} : spc[z] = "idle" /\ spc'[z] = "idle"
         /\ payload'[s] = payload[s] \/ spc'[s] = "idle"
<1>0. Types /\ Schema /\ Place(s) /\ Calm
  BY DEF IInv
<1>1. ~tampered /\ ~Conflict(s) /\ ~(SyncFails(s) \/ FindFails(s) \/ ListFails(s) \/ RetireFails(s))
  BY TamperedStays
<1>2. (\A z \in Syncs : ~disturbed[z] /\ spc[z] # "conflict") /\ \A z \in Syncs \ {s} : spc[z] = "idle"
  BY <1>0, <1>1 DEF Calm
<1>3. \A z \in Syncs \ {s} : spc'[z] = "idle"
  BY <1>0, <1>2, OtherSyncs DEF Still
<1>4. ASSUME Disturb(s) PROVE \A z \in Syncs : ~disturbed'[z]
  BY <1>2, <1>4 DEF Disturb
<1>5. ASSUME NEW x \in todo[s], UpsertModel(s, x)
      PROVE  Disturb(s) /\ spc'[s] # "conflict" /\ payload' = payload
  BY <1>0, <1>5, AfterUpsert DEF UpsertModel
<1>6. ASSUME PutRow(s) PROVE Disturb(s) /\ spc'[s] # "conflict" /\ payload' = payload
  BY <1>0, <1>6, AfterPut DEF PutRow
<1>7. ASSUME NEW x \in todo[s], RetireModel(s, x)
      PROVE  Disturb(s) /\ spc'[s] # "conflict" /\ payload' = payload
  BY <1>0, <1>7 DEF RetireModel, Types
<1>8. ASSUME RetireRow(s) PROVE Disturb(s) /\ spc'[s] # "conflict" /\ payload' = payload
  BY <1>0, <1>8, AfterRetire DEF RetireRow
<1>9. ASSUME FindRow(s) \/ ListAllModels(s) \/ FindOld(s) \/ SyncDone(s)
      PROVE  disturbed' = disturbed /\ spc'[s] # "conflict" /\ payload' = payload
  BY <1>0, <1>9 DEF FindRow, ListAllModels, FindOld, SyncDone, Types
<1>10. ASSUME Return(s) PROVE (\A z \in Syncs : ~disturbed'[z]) /\ spc'[s] = "idle"
  BY <1>0, <1>2, <1>10 DEF Return, Forget, Types
<1>11. ~\E p \in Payloads : StartSync(s, p)
  BY DEF StartSync
<1>12. /\ (\A z \in Syncs : ~disturbed'[z]) /\ spc'[s] # "conflict"
       /\ payload' = payload \/ spc'[s] = "idle"
  BY <1>1, <1>2, <1>4, <1>5, <1>6, <1>7, <1>8, <1>9, <1>10, <1>11 DEF SyncStep
<1> QED
  BY <1>2, <1>3, <1>12

\* The tables of retired models are empty, or about to be.
Inert ==
  \A m \in Models : status[m] = "retired" => \A t \in Tables : Active(t, m) = {} \/ Pending(t, m)

\* As long as the tables are left alone and nothing was or becomes pending.
LEMMA InertKept ==
  ASSUME Inert, status' = status, rows' = rows, \A t, m : Pending(t, m) => Pending(t, m)'
  PROVE  Inert'
<1>1. \A t, m : Active(t, m)' = Active(t, m)
  BY DEF Active, Of
<1> QED
  BY <1>1 DEF Inert

\* The row that the cleanup writes back was the only active one.
LEMMA RowGone ==
  ASSUME IInv, NEW s \in Syncs, RetireRow(s), Cleaning(s), NEW t, NEW m,
         t = cur[s].table, m = cur[s].model
  PROVE  Active(t, m)' = {}
<1>0. Types /\ Schema /\ Held /\ Place(s) /\ spc[s] = "put_old"
  BY DEF IInv, RetireRow
<1>1. found[s] = Newest(Active(t, m)) /\ Active(t, m) \in SUBSET rows
  BY <1>0 DEF Cleaning, Active, Of
<1>2. CASE found[s] = None
  <2>1. Active(t, m) = {}
    BY <1>0, <1>1, <1>2, NewestRow
  <2>2. rows' = rows
    BY <1>2, RetireWrites
  <2> QED
    BY <2>1, <2>2 DEF Active, Of
<1>3. CASE found[s] # None
  <2>1. found[s] \in Active(t, m) /\ found[s] \in rows
    BY <1>0, <1>1, <1>3, NewestRow
  <2>2. IsRow(found[s].id)
    BY <2>1 DEF IsRow
  <2>3. rows' = Written(Retired(s)) /\ ~Retired(s).active /\ Retired(s).id = found[s].id
    <3>1. rows' = Written(Retired(s))
      BY <1>3, <2>2 DEF RetireRow, Retired
    <3> QED
      BY <1>3, <3>1, RetireWrites
  <2>4. ASSUME NEW r \in Active(t, m)' PROVE FALSE
    <3>1. r \in rows' /\ r.active /\ r.table = t /\ r.model = m
      BY DEF Active, Of
    <3>2. r \in rows /\ r.id # found[s].id
      BY <2>3, <3>1 DEF Written
    <3>3. r \in Active(t, m)
      BY <3>1, <3>2 DEF Active, Of
    <3> QED
      BY <1>0, <2>1, <3>2, <3>3, OneActive
  <2> QED
    BY <2>4
<1> QED
  BY <1>2, <1>3

\* The steps of a sync that is alone keep the retired models inert.
LEMMA InertAlone ==
  ASSUME IInv, NEW s \in Syncs, SyncStep(s), ~tampered', spc[s] # "idle"
  PROVE  Inert'
<1>0. Types /\ Schema /\ Held /\ Place(s) /\ Calm /\ Progress(s)
  BY DEF IInv
<1>1. ~tampered /\ ~Conflict(s) /\ ~(SyncFails(s) \/ FindFails(s) \/ ListFails(s) \/ RetireFails(s))
  BY TamperedStays
<1>2. /\ Inert /\ ~disturbed[s] /\ \A z \in Syncs \ {s} : spc[z] = "idle"
      /\ \A m \in DOMAIN payload[s] : payload[s][m].status = "active"
  BY <1>0, <1>1 DEF Calm, Inert
<1>3. ASSUME spc[s] \notin {"find_old", "put_old"}, NEW t, NEW m PROVE ~Pending(t, m)
  BY <1>2, <1>3 DEF Pending
<1>4. ASSUME NEW x \in todo[s], UpsertModel(s, x) PROVE Inert'
  <2>1. spc[s] = "models"
    BY <1>4 DEF UpsertModel
  <2>2. \A m \in Models : status'[m] = "retired" => status[m] = "retired"
    BY <1>0, <1>2, <1>4, AfterUpsert DEF Types
  <2>3. \A t, m : Active(t, m)' = Active(t, m)
    BY <1>0, <1>4, AfterUpsert DEF Active, Of
  <2> QED
    BY <1>2, <1>3, <2>1, <2>2, <2>3 DEF Inert
<1>5. ASSUME PutRow(s) PROVE Inert'
  <2>1. spc[s] = "put" /\ status' = status /\ cur[s].model \in DOMAIN payload[s]
    BY <1>0, <1>5, AfterPut DEF PutRow
  <2>2. status[cur[s].model] = "active"
    BY <1>0, <1>2, <2>1 DEF Progress, Upserting
  <2>3. ASSUME NEW m \in Models, status'[m] = "retired", NEW t \in Tables PROVE Active(t, m)' = {}
    <3>1. m # cur[s].model /\ Active(t, m) = {}
      BY <1>2, <1>3, <2>1, <2>2, <2>3 DEF Inert
    <3>2. rows' = Written(NewRow(s)) /\ Known(NewRow(s)) /\ NewRow(s).model = cur[s].model
      BY <1>0, <1>5, <2>1, PutWrites, NewRowTyped
    <3> QED
      BY <1>0, <3>1, <3>2, WriteElsewhere
  <2> QED
    BY <2>3 DEF Inert
<1>6. ASSUME FindRow(s) \/ ListAllModels(s) \/ SyncDone(s) \/ Return(s) PROVE Inert'
  <2>1. spc[s] \notin {"find_old", "put_old"} /\ status' = status /\ rows' = rows
    BY <1>2, <1>6 DEF FindRow, ListAllModels, SyncDone, Return
  <2> QED
    BY <1>2, <1>3, <2>1, InertKept
<1>7. ASSUME FindOld(s) PROVE Inert'
  <2>1. /\ spc[s] = "find_old" /\ spc'[s] = "put_old" /\ cur' = cur /\ status' = status /\ rows' = rows
    BY <1>0, <1>7 DEF FindOld, Types
  <2>2. ASSUME NEW t, NEW m, Pending(t, m) PROVE Pending(t, m)'
    BY <1>2, <2>1, <2>2 DEF Pending
  <2> QED
    BY <1>2, <2>1, <2>2, InertKept
<1>8. ASSUME NEW x \in todo[s], RetireModel(s, x) PROVE Inert'
  <2>1. /\ spc[s] = "retire" /\ spc'[s] = "find_old" /\ rows' = rows
        /\ cur'[s] = [model |-> x.model, id |-> x.id, table |-> "route"]
        /\ \A m \in Models \ {x.model} : status'[m] = status[m]
    BY <1>0, <1>8 DEF RetireModel, Types
  <2>2. cur'[s].model = x.model /\ cur'[s].table = "route"
    BY <2>1
  <2>3. \A t : Pending(t, x.model)'
    BY <2>1, <2>2 DEF Pending
  <2>4. \A t, m : Active(t, m)' = Active(t, m)
    BY <2>1 DEF Active, Of
  <2> QED
    BY <1>2, <1>3, <2>1, <2>3, <2>4 DEF Inert
<1>9. ASSUME RetireRow(s) PROVE Inert'
  <2>1. spc[s] = "put_old" /\ status' = status /\ Cleaning(s) /\ NextOld(s)
    BY <1>0, <1>2, <1>9 DEF RetireRow, Progress
  <2>2. ASSUME NEW m \in Models, status[m] = "retired", NEW t \in Tables
        PROVE  Active(t, m)' = {} \/ Pending(t, m)'
    <3>1. Active(t, m) = {} \/ (cur[s].model = m /\ (t = "price" \/ cur[s].table = "route"))
      BY <1>2, <2>2 DEF Inert, Pending
    <3>2. CASE cur[s].model = m /\ t = cur[s].table
      BY <1>9, <2>1, <3>2, RowGone
    <3>3. CASE (cur[s].model # m \/ t # cur[s].table) /\ Active(t, m) = {}
      <4>1. CASE rows' = rows
        BY <3>3, <4>1 DEF Active, Of
      <4>2. CASE rows' # rows
        <5>1. /\ rows' = Written(Retired(s)) /\ Known(Retired(s))
              /\ Retired(s).model = cur[s].model /\ Retired(s).table = cur[s].table
          BY <1>9, <4>2, RetireWrites
        <5> QED
          BY <1>0, <3>3, <5>1, WriteElsewhere
      <4> QED
        BY <4>1, <4>2
    <3>4. CASE cur[s].model = m /\ t = "price" /\ cur[s].table = "route"
      <4>1. spc'[s] = "find_old" /\ cur'[s].model = m
        BY <1>0, <2>1, <3>4, AfterRetire
      <4> QED
        BY <3>4, <4>1 DEF Pending
    <3>5. t \in {"route", "price"} /\ cur[s].table \in {"route", "price"}
      BY <1>0, <2>1 DEF Tables, Place, Places
    <3> QED
      BY <3>1, <3>2, <3>3, <3>4, <3>5
  <2> QED
    BY <2>1, <2>2 DEF Inert
<1>10. ~\E p \in Payloads : StartSync(s, p)
  BY DEF StartSync
<1> QED
  BY <1>1, <1>4, <1>5, <1>6, <1>7, <1>8, <1>9, <1>10 DEF SyncStep

\* Every step keeps what holds while calls come one after the other.
LEMMA CalmStep ==
  ASSUME IInv, [Next]_vars
  PROVE  Calm'
<1>0. Types /\ Calm
  BY DEF IInv
<1>1. ASSUME NEW s \in Syncs, SyncStep(s), ~tampered', spc[s] # "idle" PROVE Calm'
  <2>1. /\ ~tampered /\ \A m \in DOMAIN payload[s] : payload[s][m].status = "active"
    BY <1>0, <1>1, TamperedStays DEF Calm
  <2>2. \A z \in Syncs : spc'[z] # "idle" => \A m \in DOMAIN payload'[z] : payload'[z][m].status = "active"
    BY <1>1, <2>1, Alone
  <2> QED
    BY <1>1, <2>2, Alone, InertAlone DEF Calm, Inert
<1>2. ASSUME NEW s \in Syncs, SyncStep(s), ~tampered', spc[s] = "idle" PROVE Calm'
  <2>1. PICK p \in Payloads : StartSync(s, p)
    BY <1>2 DEF SyncStep, UpsertModel, RetireModel, FindRow, PutRow, Conflict, ListAllModels, FindOld,
                RetireRow, SyncDone, Return, SyncFails, FindFails, ListFails, RetireFails
  <2>2. /\ ~tampered /\ (\A z \in Syncs : spc[z] = "idle")
        /\ \A m \in DOMAIN p : p[m].status # "retired"
    BY <1>2, <2>1 DEF StartSync
  <2>3. disturbed' = [disturbed EXCEPT ![s] = FALSE]
    BY <2>1, <2>2 DEF StartSync
  <2>4. /\ spc' = [spc EXCEPT ![s] = "models"] /\ payload' = [payload EXCEPT ![s] = p]
        /\ status' = status /\ rows' = rows
    BY <2>1 DEF StartSync
  <2>5. (\A z \in Syncs : ~disturbed[z]) /\ Inert
    BY <1>0, <2>2 DEF Calm, Inert
  <2>6. \A z \in Syncs : ~disturbed'[z]
    BY <1>0, <2>3, <2>5 DEF Types
  <2>7. \A z \in Syncs : spc'[z] = IF z = s THEN "models" ELSE "idle"
    BY <1>0, <2>2, <2>4 DEF Types
  <2>8. \A m \in DOMAIN p : p[m].status = "active"
    BY <2>2, PayloadItems DEF Statuses
  <2>9. Inert'
    BY <2>2, <2>4, <2>5, InertKept DEF Pending
  <2>10. payload'[s] = p
    BY <1>0, <2>4 DEF Types
  <2> QED
    BY <2>6, <2>7, <2>8, <2>9, <2>10 DEF Calm, Inert
<1>3. ASSUME status' = status, rows' = rows, disturbed' = disturbed, tampered' = tampered,
             spc' = spc, payload' = payload, cur' = cur
      PROVE  Calm'
  <2>1. \A t, m : (Active(t, m)' = Active(t, m)) /\ (Pending(t, m)' <=> Pending(t, m))
    BY <1>3 DEF Active, Of, Pending
  <2> QED
    BY <1>0, <1>3, <2>1 DEF Calm
<1>4. ASSUME AdminStep PROVE Calm'
  <2>1. CASE tampered'
    BY <2>1 DEF Calm
  <2>2. CASE ~tampered'
    <3>1. PICK a \in Admins : ReadForPatch(a)
      BY <1>4, <2>2 DEF AdminStep, CreateModel, DeleteModel, PostRow, DeleteRow, PatchRow, PatchModel, Edit
    <3> QED
      BY <1>3, <3>1 DEF ReadForPatch, sync
  <2> QED
    BY <2>1, <2>2
<1>5. CASE UNCHANGED vars
  BY <1>3, <1>5 DEF vars, sync
<1>6. ASSUME tampered' PROVE Calm'
  BY <1>6 DEF Calm
<1> QED
  BY <1>1, <1>2, <1>4, <1>5, <1>6 DEF Next

-----------------------------------------------------------------------------
(* The theorems                                                            *)

\* An empty catalogue, with no call under way, satisfies the invariant.
LEMMA IInvInit == Init => IInv
<1> SUFFICES ASSUME Init PROVE IInv
  OBVIOUS
<1>1. Types
  BY DEF Init, Types
<1>2. Schema
  BY DEF Init, Schema
<1>3. rows = {} /\ (\A s \in Syncs : spc[s] = "idle" /\ found[s] = None /\ ~disturbed[s])
      /\ (\A a \in Admins : apc[a] = "idle") /\ \A m \in Models : status[m] = "none"
  BY DEF Init
<1>4. Read = {}
  BY <1>3 DEF Read
<1>5. Held
  BY <1>3, <1>4 DEF Held
<1>6. Calm
  BY <1>3 DEF Calm
<1>7. \A s \in Syncs : Place(s) /\ Progress(s)
  BY <1>3 DEF Place, Progress
<1> QED
  BY <1>1, <1>2, <1>5, <1>6, <1>7 DEF IInv

\* Every step keeps it.
LEMMA IInvStep == IInv /\ [Next]_vars => IInv'
<1> SUFFICES ASSUME IInv, [Next]_vars PROVE IInv'
  OBVIOUS
<1>0. Types /\ \A s \in Syncs : Place(s) /\ Progress(s)
  BY DEF IInv
<1>1. Types'
  <2>1. CASE UNCHANGED vars
    BY <1>0, <2>1 DEF Types, vars, sync, admin
  <2> QED
    BY <2>1, TypesSync, TypesAdmin DEF Next
<1>2. ASSUME NEW z \in Syncs PROVE Place(z)' /\ Progress(z)'
  <2>1. ASSUME NEW s \in Syncs, SyncStep(s) PROVE Place(z)' /\ Progress(z)'
    <3>1. CASE z = s
      BY <2>1, <3>1, PlaceOwn, ProgressOwn
    <3>2. CASE z # s
      BY <1>0, <2>1, <3>2, OtherSyncs, PlaceKept, ProgressKept
    <3> QED
      BY <3>1, <3>2
  <2>2. CASE AdminStep
    BY <1>0, <2>2, AdminsBeside, PlaceKept, ProgressKept
  <2>3. CASE UNCHANGED vars
    <3>1. Still(z) /\ Quiet /\ disturbed'[z] = disturbed[z]
      BY <2>3 DEF vars, sync, Still, Quiet
    <3> QED
      BY <1>0, <3>1, PlaceKept, ProgressKept
  <2> QED
    BY <2>1, <2>2, <2>3 DEF Next
<1> QED
  BY <1>1, <1>2, SchemaStep, HeldStep, CalmStep DEF IInv

\* The catalogue's invariant holds whatever syncs, edits and failures do, in any
\* order: SyncModels works without a transaction, and this is what is left of it.
THEOREM CatalogueInvariant == Spec => []IInv
BY IInvInit, IInvStep, PTL DEF Spec

\* The schema's promises survive every interleaving: a route or price belongs to a
\* model that exists, and a model has at most one active row of each.
THEOREM TypeCorrect == Spec => []TypeOK
<1>1. IInv => TypeOK
  <2> SUFFICES ASSUME IInv PROVE TypeOK
    OBVIOUS
  <2>1. Types /\ Schema
    BY DEF IInv
  <2>2. ASSUME NEW t \in Tables, NEW m \in Models PROVE Cardinality(Active(t, m)) <= 1
    <3>1. CASE Active(t, m) = {}
      BY <3>1, FS_EmptySet
    <3>2. CASE Active(t, m) # {}
      <4>1. PICK r : r \in Active(t, m)
        BY <3>2
      <4>2. Active(t, m) = {r}
        BY <2>1, <4>1, OneActive
      <4>3. Cardinality({r}) = 1
        BY FS_Singleton
      <4> QED
        BY <4>2, <4>3
    <3> QED
      BY <3>1, <3>2
  <2> QED
    BY <2>1, <2>2 DEF TypeOK, Types, Schema
<1> QED
  BY <1>1, CatalogueInvariant, PTL

\* A live model with the payload's route is resolved to it.
LEMMA Resolved ==
  ASSUME Types, Schema, NEW s \in Syncs, NEW n \in Models, n \in DOMAIN payload[s],
         payload[s][n].route # None, \A t \in Wanted(s, n) : Has(s, t, n)
  PROVE  /\ Newest(Active("route", n)) # None
         /\ Newest(Active("route", n)).value = payload[s][n].route
<1>1. "route" \in Wanted(s, n)
  BY DEF Wanted, Tables
<1>2. PICK r \in Active("route", n) : r.value = payload[s][n]["route"]
  BY <1>1 DEF Has
<1>3. Active("route", n) \in SUBSET rows
  BY DEF Active, Of
<1>4. Newest(Active("route", n)) \in Active("route", n) /\ Newest(Active("route", n)) # None
  BY <1>2, <1>3, NewestRow
<1>5. Newest(Active("route", n)) = r
  BY <1>2, <1>4, OneActive
<1> QED
  BY <1>2, <1>4, <1>5

\* SyncModels leaves the catalogue as its payload says, for every payload and every
\* earlier history of the catalogue, when it returns without an error and nothing
\* else was written and no statement failed meanwhile.
THEOREM SyncsAreExact == Spec => []SyncedExact
<1>1. IInv => SyncedExact
  <2> SUFFICES ASSUME IInv, NEW s \in Syncs, spc[s] = "done", ~disturbed[s]
               PROVE  LET p == payload[s]
                          Live(m) == m \in DOMAIN p /\ p[m].status = "active" /\ p[m].route # None
                          Routed(m, n) == Live(n) => (Resolve(m) # None /\ Resolve(m).value = p[n].route)
                      IN /\ \A m \in DOMAIN p :
                              /\ status[m] = p[m].status
                              /\ \A t \in Wanted(s, m) : {r.value : r \in Active(t, m)} = {p[m][t]}
                              /\ Routed(m, m)
                         /\ \A m \in Models \ DOMAIN p :
                              /\ status[m] \in {"none", "retired"}
                              /\ m \in DOMAIN Prefixed => Routed(m, Prefixed[m])
    BY DEF SyncedExact
  <2> DEFINE p == payload[s]
             Live(m) == m \in DOMAIN p /\ p[m].status = "active" /\ p[m].route # None
             Routed(m, n) == Live(n) => (Resolve(m) # None /\ Resolve(m).value = p[n].route)
  <2>1. Types /\ Schema /\ p \in Payloads /\ Cleaning(s)
    BY DEF IInv, Place, Progress
  <2>2. todo[s] = {} /\ Left(s) = {}
    BY <2>1 DEF Cleaning, Left
  <2>3. \A m \in DOMAIN p : m \in Models /\ status[m] = p[m].status /\ \A t \in Wanted(s, m) : Has(s, t, m)
    BY <2>1, PayloadItems DEF Cleaning
  <2>4. \A m \in Models \ DOMAIN p : status[m] \in {"none", "retired"}
    BY <2>1, <2>2 DEF Cleaning
  <2>5. ASSUME NEW m \in DOMAIN p, NEW t \in Wanted(s, m)
        PROVE  {r.value : r \in Active(t, m)} = {p[m][t]}
    <3>1. PICK r \in Active(t, m) : r.value = p[m][t]
      BY <2>3 DEF Has
    <3>2. \A q \in Active(t, m) : q = r
      BY <2>1, <3>1, OneActive
    <3> QED
      BY <3>1, <3>2
  <2>6. ASSUME NEW m, NEW n \in Models, Live(n),
               Resolve(m) = IF status[n] \in {"none", "retired"} THEN None ELSE Newest(Active("route", n))
        PROVE  Resolve(m) # None /\ Resolve(m).value = p[n].route
    <3>1. status[n] = "active" /\ \A t \in Wanted(s, n) : Has(s, t, n)
      BY <2>3, <2>6
    <3>2. Resolve(m) = Newest(Active("route", n))
      BY <2>6, <3>1
    <3> QED
      BY <2>1, <2>6, <3>1, <3>2, Resolved
  <2>7. ASSUME NEW m \in DOMAIN p PROVE Routed(m, m)
    <3> SUFFICES ASSUME Live(m) PROVE Resolve(m) # None /\ Resolve(m).value = p[m].route
      OBVIOUS
    <3>1. status[m] = "active" /\ m \in Models
      BY <2>3
    <3>2. Resolve(m) = IF status[m] \in {"none", "retired"} THEN None ELSE Newest(Active("route", m))
      BY <3>1 DEF Resolve
    <3> QED
      BY <2>6, <3>1, <3>2
  <2>8. ASSUME NEW m \in Models \ DOMAIN p, m \in DOMAIN Prefixed PROVE Routed(m, Prefixed[m])
    <3> DEFINE n == Prefixed[m]
    <3>1. n \in Models /\ status[m] \in {"none", "retired"}
      BY <2>4, <2>8, CatalogueAssumption
    <3>2. Resolve(m) = IF status[n] \in {"none", "retired"} THEN None ELSE Newest(Active("route", n))
      BY <2>8, <3>1 DEF Resolve
    <3> HIDE DEF n
    <3>3. Routed(m, n)
      BY <2>6, <3>1, <3>2
    <3> QED
      BY <3>3 DEF n
  <2> QED
    BY <2>3, <2>4, <2>5, <2>7, <2>8
<1> QED
  BY <1>1, CatalogueInvariant, PTL

\* "deactivate their associated routes and prices so billing/routing cannot
\* reference a retired model": between calls that came one after the other, without
\* edits and failures, a retired model has no active row, for any sequence of
\* payloads.
THEOREM RetiredStayInert == Spec => []RetiredInert
<1>1. IInv => RetiredInert
  <2> SUFFICES ASSUME Calm, \A s \in Syncs : spc[s] = "idle", ~tampered,
                      NEW m \in Models, status[m] = "retired", NEW t \in Tables
               PROVE  Active(t, m) = {}
    BY DEF IInv, RetiredInert
  <2>1. ~Pending(t, m)
    BY DEF Pending
  <2> QED
    BY <2>1 DEF Calm
<1> QED
  BY <1>1, CatalogueInvariant, PTL

\* The only row an undisturbed sync is refused is a price beside a newer inactive
\* one that an administrator left.
THEOREM ConflictsExplained == Spec => []SyncSucceeds
<1>1. IInv => SyncSucceeds
  BY DEF IInv, Progress, SyncSucceeds
<1> QED
  BY <1>1, CatalogueInvariant, PTL
=============================================================================
