------------------------------ MODULE ApiKeys ------------------------------
(***************************************************************************)
(* One API key: its row in api_keys, the read-through cache in front of it *)
(* that every request consults, and the customer operations that change    *)
(* the row and then delete the cached entry, each its own command.  A raw  *)
(* key is a model value; its prefix, by which rows and cache entries are   *)
(* found, and its hash stand for it one to one.                            *)
(*                                                                         *)
(* Time passes in ticks.  Redis drops an entry TTL ticks after it was set, *)
(* and a request sets it at most MaxDelay ticks after it read the row.     *)
(***************************************************************************)
EXTENDS Integers, FiniteSets

CONSTANTS
  Secrets,     \* raw keys
  Sources,     \* billing sources
  Statuses,    \* of a key: "active", and "inactive" and "revoked", which no code tells apart
  NoRow,       \* the key was not created, and the record of nobody
  None,        \* an absent cache entry or prefix
  Validators,  \* requests that present a key
  Managers,    \* customer operations that may overlap
  TTL,         \* apiKeyCacheTTL
  MaxDelay,    \* longest time from reading the row to filling the cache
  MaxOps,      \* bound on the customer operations
  MaxFaults    \* bound on failing commands and crashes

ASSUME ApiKeysAssumption ==
  /\ TTL \in Nat \ {0} /\ MaxDelay \in Nat /\ MaxOps \in Nat /\ MaxFaults \in Nat
  /\ NoRow \notin [secret : Secrets, status : Statuses, source : Sources]
  /\ "active" \in Statuses
  /\ None \notin Secrets /\ "refuse" \notin Sources

VARIABLES
  row,        \* the key's row
  issued,     \* raw keys generated so far
  expired,    \* expires_at has passed
  cache,      \* of each prefix: None, or a record and the ticks it has left
  vpc, key, rec, wait,  \* of each request: where it is, the key it presents, the
                        \* row it read and for how long it has it
  mpc, op, snap,  \* of each operation: where it is, what it asks for, what it read
  ops, faults,
  ago,        \* ticks since the right answer for a raw key changed
  wanted,     \* status and source asked for last
  overtaken   \* what got in between: "fill" a row's change between a request's
              \* read and its fill, "write" another change between an operation's
              \* read and its write where one of them is a regenerate, "del" a delete that did not happen

request  == <<vpc, key, rec, wait>>
manager  == <<mpc, op, snap>>
history  == <<ago, wanted, overtaken>>
vars     == <<row, issued, expired, cache, request, manager, ops, faults, history>>

Records  == [secret : Secrets, status : Statuses, source : Sources]
Kinds    == [kind : {"status"}, to : Statuses] \cup [kind : {"source"}, to : Sources]
              \cup [kind : {"regenerate"}, to : Secrets]

\* The longest time for which a cached record may be used after it was read.
Window == TTL + MaxDelay

Init ==
  /\ row = NoRow /\ issued = {} /\ expired = FALSE
  /\ cache = [s \in Secrets |-> None]
  /\ vpc = [v \in Validators |-> "idle"] /\ key = [v \in Validators |-> None]
  /\ rec = [v \in Validators |-> NoRow] /\ wait = [v \in Validators |-> 0]
  /\ mpc = [m \in Managers |-> "idle"] /\ op = [m \in Managers |-> None]
  /\ snap = [m \in Managers |-> None]
  /\ ops = 0 /\ faults = 0
  /\ ago = [s \in Secrets |-> 0] /\ wanted = NoRow /\ overtaken = {}

-----------------------------------------------------------------------------
(* Validate                                                                *)

\* The billing source on which a request with the raw key s proceeds, given the
\* record r found under its prefix.
Answer(r, s) ==
  IF r # NoRow /\ r.secret = s /\ r.status = "active" /\ ~expired THEN r.source ELSE "refuse"

\* FindAPIKeyByPrefix
Find(s) == IF row # NoRow /\ row.secret = s THEN row ELSE NoRow

\* Mutant: a hit renews the entry.
CacheHitRenewing(v, s) ==
  /\ vpc[v] = "idle" /\ cache[s] # None
  /\ vpc' = [vpc EXCEPT ![v] = "answered"]
  /\ key' = [key EXCEPT ![v] = s] /\ rec' = [rec EXCEPT ![v] = cache[s].rec]
  /\ cache' = [cache EXCEPT ![s].left = TTL]
  /\ UNCHANGED <<row, issued, expired, wait, manager, ops, faults, history>>

\* A request arrives and finds its key in the cache.  The answer is what Validate
\* returns; the properties compare it with the row.
CacheHit(v, s) ==
  /\ vpc[v] = "idle" /\ cache[s] # None
  /\ vpc' = [vpc EXCEPT ![v] = "answered"]
  /\ key' = [key EXCEPT ![v] = s] /\ rec' = [rec EXCEPT ![v] = cache[s].rec]
  /\ UNCHANGED <<row, issued, expired, cache, wait, manager, ops, faults, history>>

\* Past the cache: the row is read.  No row is no answer to keep.
ReadRow(v, s) ==
  /\ key' = [key EXCEPT ![v] = s] /\ rec' = [rec EXCEPT ![v] = Find(s)]
  /\ vpc' = [vpc EXCEPT ![v] = IF Find(s) = NoRow THEN "answered" ELSE "fill"]
  /\ UNCHANGED <<row, issued, expired, cache, wait, manager, ops, history>>

CacheMiss(v, s) ==
  /\ vpc[v] = "idle" /\ cache[s] = None
  /\ ReadRow(v, s) /\ UNCHANGED faults

\* A GET that fails is a miss, whatever the cache has.
CacheGetFailed(v, s) ==
  /\ vpc[v] = "idle" /\ cache[s] # None /\ faults < MaxFaults
  /\ faults' = faults + 1
  /\ ReadRow(v, s)

\* The row cannot be read: the request is refused and nothing is cached.
FindFailed(v, s) ==
  /\ vpc[v] = "idle" /\ faults < MaxFaults
  /\ faults' = faults + 1
  /\ vpc' = [vpc EXCEPT ![v] = "failed"] /\ key' = [key EXCEPT ![v] = s]
  /\ UNCHANGED <<row, issued, expired, cache, rec, wait, manager, ops, history>>

CacheFill(v) ==
  /\ vpc[v] = "fill"
  /\ cache' = [cache EXCEPT ![key[v]] = [rec |-> rec[v], left |-> TTL]]
  /\ vpc' = [vpc EXCEPT ![v] = "answered"] /\ wait' = [wait EXCEPT ![v] = 0]
  /\ UNCHANGED <<row, issued, expired, key, rec, manager, ops, faults, history>>

\* The SET fails and is only logged.
CacheFillFailed(v) ==
  /\ vpc[v] = "fill" /\ faults < MaxFaults
  /\ faults' = faults + 1
  /\ vpc' = [vpc EXCEPT ![v] = "answered"] /\ wait' = [wait EXCEPT ![v] = 0]
  /\ UNCHANGED <<row, issued, expired, cache, key, rec, manager, ops, history>>

\* The key is good but last_used_at cannot be written: the request is refused.
LastUsedFailed(v) ==
  /\ vpc[v] = "answered" /\ Answer(rec[v], key[v]) # "refuse" /\ faults < MaxFaults
  /\ faults' = faults + 1
  /\ vpc' = [vpc EXCEPT ![v] = "failed"]
  /\ UNCHANGED <<row, issued, expired, cache, key, rec, wait, manager, ops, history>>

\* RequireAPIKey passes the request on or refuses it.
Respond(v) ==
  /\ vpc[v] \in {"answered", "failed"}
  /\ vpc' = [vpc EXCEPT ![v] = "idle"]
  /\ key' = [key EXCEPT ![v] = None] /\ rec' = [rec EXCEPT ![v] = NoRow]
  /\ UNCHANGED <<row, issued, expired, cache, wait, manager, ops, faults, history>>

-----------------------------------------------------------------------------
(* Operations of the customer                                              *)

\* Every change of the row: the answers it changes, the fills and operations it
\* overtakes, and what it asks for.
Write(new, ask, m) ==
  /\ row' = new
  /\ ago' = [s \in Secrets |-> IF Answer(row, s) = Answer(new, s) THEN ago[s] ELSE 0]
  /\ wanted' = ask
  /\ overtaken' = overtaken
       \cup {x \in {"fill"} : \E v \in Validators : vpc[v] = "fill"}
       \cup {x \in {"write"} : \E n \in Managers \ {m} :
              /\ mpc[n] = "write" /\ "regenerate" \in {op[m].kind, op[n].kind}}

\* Create stores the key as asked for.
Create(m, s, status, source) ==
  /\ row = NoRow /\ mpc[m] = "idle"
  /\ LET new == [secret |-> s, status |-> status, source |-> source]
     IN Write(new, [status |-> status, source |-> source], m)
  /\ issued' = issued \cup {s}
  /\ UNCHANGED <<expired, cache, request, manager, ops, faults>>

\* Revoke, UpdateStatus and UpdateBillingSource look the prefix up for the delete
\* that follows; Regenerate reads the whole row and generates a new raw key.
Begin(m, o) ==
  /\ mpc[m] = "idle" /\ row # NoRow /\ ops < MaxOps
  /\ o.kind = "regenerate" => o.to \notin issued
  /\ issued' = IF o.kind = "regenerate" THEN issued \cup {o.to} ELSE issued
  /\ ops' = ops + 1
  /\ op' = [op EXCEPT ![m] = o] /\ snap' = [snap EXCEPT ![m] = row]
  /\ mpc' = [mpc EXCEPT ![m] = "write"]
  /\ UNCHANGED <<row, expired, cache, request, faults, history>>

\* RevokeAPIKey, UpdateAPIKeyStatus, UpdateAPIKeyBillingSource: one column by id.
Update(m) ==
  /\ mpc[m] = "write" /\ op[m].kind # "regenerate"
  /\ LET new == IF op[m].kind = "status" THEN [row EXCEPT !.status = op[m].to]
                                         ELSE [row EXCEPT !.source = op[m].to]
         ask == IF op[m].kind = "status" THEN [wanted EXCEPT !.status = op[m].to]
                                         ELSE [wanted EXCEPT !.source = op[m].to]
     IN Write(new, ask, m)
  /\ mpc' = [mpc EXCEPT ![m] = "del"]
  /\ UNCHANGED <<issued, expired, cache, request, op, snap, ops, faults>>

\* Mutant: a regenerated key is active whatever it was.
RegenerateActive(m) ==
  /\ mpc[m] = "write" /\ op[m].kind = "regenerate"
  /\ Write([snap[m] EXCEPT !.secret = op[m].to, !.status = "active"], wanted, m)
  /\ mpc' = [mpc EXCEPT ![m] = "del"]
  /\ UNCHANGED <<issued, expired, cache, request, op, snap, ops, faults>>

\* Regenerate writes the row it read back with a new key.
Regenerate(m) ==
  /\ mpc[m] = "write" /\ op[m].kind = "regenerate"
  /\ Write([snap[m] EXCEPT !.secret = op[m].to], wanted, m)
  /\ mpc' = [mpc EXCEPT ![m] = "del"]
  /\ UNCHANGED <<issued, expired, cache, request, op, snap, ops, faults>>

Done(m) ==
  /\ mpc' = [mpc EXCEPT ![m] = "idle"]
  /\ op' = [op EXCEPT ![m] = None] /\ snap' = [snap EXCEPT ![m] = None]

\* Mutant: the entry of the present key is deleted, not that of the old one.
DelCurrent(m) ==
  /\ mpc[m] = "del"
  /\ cache' = [cache EXCEPT ![row.secret] = None]
  /\ IF op[m].kind = "regenerate"
     THEN mpc' = [mpc EXCEPT ![m] = "del_new"] /\ UNCHANGED <<op, snap>>
     ELSE Done(m)
  /\ UNCHANGED <<row, issued, expired, request, ops, faults, history>>

\* The entry of the prefix that was read goes; after a regenerate, that of the
\* new prefix as well.
Del(m) ==
  /\ mpc[m] = "del"
  /\ cache' = [cache EXCEPT ![snap[m].secret] = None]
  /\ IF op[m].kind = "regenerate"
     THEN mpc' = [mpc EXCEPT ![m] = "del_new"] /\ UNCHANGED <<op, snap>>
     ELSE Done(m)
  /\ UNCHANGED <<row, issued, expired, request, ops, faults, history>>

DelNew(m) ==
  /\ mpc[m] = "del_new"
  /\ cache' = [cache EXCEPT ![op[m].to] = None]
  /\ Done(m)
  /\ UNCHANGED <<row, issued, expired, request, ops, faults, history>>

\* A statement fails, or the process dies: nothing more of the operation happens.
Fail(m) ==
  /\ mpc[m] # "idle" /\ faults < MaxFaults
  /\ faults' = faults + 1
  /\ Done(m)
  /\ overtaken' = overtaken \cup {x \in {"del"} : mpc[m] # "write"}
  /\ UNCHANGED <<row, issued, expired, cache, request, ops, ago, wanted>>

-----------------------------------------------------------------------------
(* Time                                                                    *)

Cap(n) == IF n > Window THEN Window ELSE n

Tick ==
  /\ \A v \in Validators : vpc[v] = "fill" => wait[v] < MaxDelay
  /\ cache' = [s \in Secrets |->
                 IF cache[s] = None \/ cache[s].left = 1 THEN None
                 ELSE [cache[s] EXCEPT !.left = @ - 1]]
  /\ wait' = [v \in Validators |-> IF vpc[v] = "fill" THEN wait[v] + 1 ELSE 0]
  /\ ago' = [s \in Secrets |-> Cap(ago[s] + 1)]
  /\ UNCHANGED <<row, issued, expired, vpc, key, rec, manager, ops, faults, wanted, overtaken>>

\* expires_at passes; it is in every copy of the record.
Expire ==
  /\ ~expired /\ row # NoRow
  /\ expired' = TRUE
  /\ ago' = [s \in Secrets |-> IF Answer(row, s) = "refuse" THEN ago[s] ELSE 0]
  /\ UNCHANGED <<row, issued, cache, request, manager, ops, faults, wanted, overtaken>>

-----------------------------------------------------------------------------

Request(v) ==
  \/ \E s \in Secrets : CacheHit(v, s) \/ CacheMiss(v, s) \/ CacheGetFailed(v, s) \/ FindFailed(v, s)
  \/ CacheFill(v) \/ CacheFillFailed(v) \/ LastUsedFailed(v) \/ Respond(v)

Operation(m) ==
  \/ \E s \in Secrets, t \in Statuses, b \in Sources : Create(m, s, t, b)
  \/ \E o \in Kinds : Begin(m, o)
  \/ Update(m) \/ Regenerate(m) \/ Del(m) \/ DelNew(m) \/ Fail(m)

Next ==
  \/ \E v \in Validators : Request(v)
  \/ \E m \in Managers : Operation(m)
  \/ Tick \/ Expire

Spec == Init /\ [][Next]_vars

-----------------------------------------------------------------------------
(* Properties                                                              *)

\* The variables have the types the code gives them, and a cache entry is found
\* under the prefix of its own key.
TypeOK ==
  /\ row \in Records \cup {NoRow} /\ issued \subseteq Secrets /\ expired \in BOOLEAN
  /\ \A s \in Secrets : cache[s] = None \/ cache[s] \in [rec : {r \in Records : r.secret = s}, left : 1..TTL]
  /\ vpc \in [Validators -> {"idle", "fill", "answered", "failed"}]
  /\ key \in [Validators -> Secrets \cup {None}] /\ rec \in [Validators -> Records \cup {NoRow}]
  /\ wait \in [Validators -> 0..MaxDelay]
  /\ mpc \in [Managers -> {"idle", "write", "del", "del_new"}]
  /\ op \in [Managers -> Kinds \cup {None}] /\ snap \in [Managers -> Records \cup {None}]
  /\ ops \in 0..MaxOps /\ faults \in 0..MaxFaults
  /\ ago \in [Secrets -> 0..Window]
  /\ wanted \in [status : Statuses, source : Sources] \cup {NoRow}
  /\ overtaken \subseteq {"fill", "write", "del"}

\* Whatever overlaps or fails, a request is let through, refused and charged to a
\* billing source as the row says, or as it said less than the cache's lifetime
\* and one request's delay ago: "revoked/rotated keys can't linger long".  A request
\* whose row or last_used_at fails is refused and has no answer.
AnswersTimely ==
  [][\A v \in Validators :
       vpc[v] # "answered" /\ vpc'[v] = "answered" =>
         LET s == key'[v]
         IN Answer(rec'[v], s) = Answer(row, s) \/ ago[s] < Window]_vars

\* Without an overtaken fill or operation and without a lost delete, an entry that
\* differs from the row is about to be deleted: the old key of a regenerate and
\* the entry of a revoked one stop working at once.
CacheCoherent ==
  \A s \in Secrets :
    \/ cache[s] = None \/ cache[s].rec = Find(s)
    \/ overtaken # {}
    \/ \E m \in Managers : mpc[m] = "del" /\ snap[m].secret = s

\* The status and the billing source are those asked for last, also after a
\* regenerate, unless an operation overtook a regenerate.
SettingsKept ==
  row # NoRow /\ "write" \notin overtaken =>
    row.status = wanted.status /\ row.source = wanted.source
=============================================================================
