--------------------------- MODULE ApiKeys_proofs ---------------------------
(***************************************************************************)
(* Proofs about ApiKeys: its variables keep their types; a regenerate      *)
(* keeps the settings asked for; a cached entry that differs from the row  *)
(* is about to be deleted; and every answer is one the row gave less than  *)
(* Window ticks ago.                                                       *)
(***************************************************************************)
EXTENDS ApiKeys, TLAPS

\* An entry of the cache.
Entries == [rec : Records, left : 1..TTL]

\* What the types leave open and the proofs need: the cache has an entry or None
\* under every prefix, a request about to fill has a row of its own key, an
\* operation under way has its kind and the row it read, and before the key is
\* created nothing of it is anywhere.
Shape ==
  /\ cache \in [Secrets -> Entries \cup {None}]
  /\ \A v \in Validators :
       vpc[v] = "fill" => key[v] \in Secrets /\ rec[v] \in Records /\ rec[v].secret = key[v]
  /\ \A m \in Managers : mpc[m] # "idle" => op[m] \in Kinds /\ snap[m] \in Records
  /\ row # NoRow => wanted \in [status : Statuses, source : Sources]

\* Nothing of a key that is not created yet.
Uncreated ==
  row = NoRow => /\ \A s \in Secrets : cache[s] = None
                 /\ \A v \in Validators : vpc[v] # "fill"
                 /\ \A m \in Managers : mpc[m] = "idle"

\* A raw key is cached, read or in the row only once it was generated, and while
\* its regenerate has not written it, it is in none of these places and belongs
\* to no other operation.
Fresh ==
  /\ row # NoRow => row.secret \in issued
  /\ \A s \in Secrets : cache[s] # None => s \in issued
  /\ \A v \in Validators : vpc[v] = "fill" => key[v] \in issued
  /\ \A m \in Managers : mpc[m] # "idle" /\ op[m].kind = "regenerate" => op[m].to \in issued
  /\ \A m \in Managers : mpc[m] = "write" /\ op[m].kind = "regenerate" =>
       /\ cache[op[m].to] = None
       /\ row.secret # op[m].to
       /\ \A v \in Validators : vpc[v] = "fill" => key[v] # op[m].to
       /\ \A n \in Managers \ {m} :
            mpc[n] # "idle" /\ op[n].kind = "regenerate" => op[n].to # op[m].to

\* What an operation read is still so when it writes, unless it was overtaken: of
\* a regenerate the whole row, of the others the prefix.
SnapCurrent ==
  \A m \in Managers : mpc[m] = "write" /\ "write" \notin overtaken =>
    /\ snap[m].secret = row.secret
    /\ op[m].kind = "regenerate" => snap[m] = row

\* What a request read is still so when it fills the cache, unless it was overtaken.
FillCurrent ==
  \A v \in Validators : vpc[v] = "fill" /\ "fill" \notin overtaken => rec[v] = Find(key[v])

\* A cached entry and a row about to be cached give the row's answer, or the
\* answer changed since they were read.
FillTimely ==
  \A v \in Validators : vpc[v] = "fill" =>
    Answer(rec[v], key[v]) = Answer(row, key[v]) \/ ago[key[v]] <= wait[v]

EntryTimely ==
  \A s \in Secrets : cache[s] # None =>
    \/ Answer(cache[s].rec, s) = Answer(row, s)
    \/ ago[s] <= (TTL - cache[s].left) + MaxDelay

Typed == TypeOK /\ Shape /\ Uncreated

-----------------------------------------------------------------------------
(* Types                                                                   *)

\* What every change of the row does to the ghosts: the answers it changes are
\* new, and it overtakes the fills under way and, with a regenerate on either
\* side, the other operations about to write.
LEMMA WriteFacts ==
  ASSUME Typed, NEW new, NEW ask, NEW m \in Managers, Write(new, ask, m)
  PROVE  /\ row' = new /\ wanted' = ask
         /\ ago' \in [Secrets -> 0..Window]
         /\ \A s \in Secrets : ago'[s] = IF Answer(row, s) = Answer(new, s) THEN ago[s] ELSE 0
         /\ overtaken' \subseteq {"fill", "write", "del"} /\ overtaken \subseteq overtaken'
         /\ \A v \in Validators : vpc[v] = "fill" => "fill" \in overtaken'
         /\ \A n \in Managers \ {m} :
              mpc[n] = "write" /\ (op[m].kind = "regenerate" \/ op[n].kind = "regenerate")
                => "write" \in overtaken'
<1> USE DEF Write
<1>1. row' = new /\ wanted' = ask
  OBVIOUS
<1>2. \A s \in Secrets : ago[s] \in 0..Window /\ 0 \in 0..Window
  BY ApiKeysAssumption DEF Typed, TypeOK, Window
<1>3. /\ ago' \in [Secrets -> 0..Window]
      /\ \A s \in Secrets : ago'[s] = IF Answer(row, s) = Answer(new, s) THEN ago[s] ELSE 0
  BY <1>2
<1>4. overtaken \subseteq overtaken' /\ overtaken' \subseteq {"fill", "write", "del"}
  BY DEF Typed, TypeOK
<1>5. \A v \in Validators : vpc[v] = "fill" => "fill" \in overtaken'
  OBVIOUS
<1>6. \A n \in Managers \ {m} :
        mpc[n] = "write" /\ (op[m].kind = "regenerate" \/ op[n].kind = "regenerate")
          => "write" \in overtaken'
  OBVIOUS
<1> QED
  BY <1>1, <1>3, <1>4, <1>5, <1>6

\* An operation ends: the others stay where they are.
LEMMA DoneFacts ==
  ASSUME Typed, NEW m \in Managers, Done(m)
  PROVE  /\ mpc' \in [Managers -> {"idle", "write", "del", "del_new"}]
         /\ op' \in [Managers -> Kinds \cup {None}] /\ snap' \in [Managers -> Records \cup {None}]
         /\ mpc'[m] = "idle"
         /\ \A n \in Managers \ {m} : mpc'[n] = mpc[n] /\ op'[n] = op[n] /\ snap'[n] = snap[n]
BY DEF Done, Typed, TypeOK

\* A delete: the entry under one prefix goes, the operation goes on to the other
\* one or ends, and the others stay where they are.
LEMMA DelFacts ==
  ASSUME Typed, NEW m \in Managers, Del(m) \/ DelNew(m)
  PROVE  /\ cache' \in [Secrets -> Entries \cup {None}]
         /\ \A s \in Secrets : cache'[s] = None \/ cache'[s] = cache[s]
         /\ mpc' \in [Managers -> {"idle", "write", "del", "del_new"}]
         /\ op' \in [Managers -> Kinds \cup {None}] /\ snap' \in [Managers -> Records \cup {None}]
         /\ mpc[m] # "idle" /\ mpc'[m] \in {"idle", "del_new"}
         /\ mpc'[m] # "idle" => op' = op /\ snap' = snap
         /\ \A n \in Managers \ {m} : mpc'[n] = mpc[n] /\ op'[n] = op[n] /\ snap'[n] = snap[n]
         /\ UNCHANGED <<row, issued, expired, vpc, key, rec, wait, ops, faults, ago, wanted,
                        overtaken>>
<1>1. UNCHANGED <<row, issued, expired, vpc, key, rec, wait, ops, faults, ago, wanted, overtaken>>
  BY DEF Del, DelNew, request, history
<1>2. /\ cache' \in [Secrets -> Entries \cup {None}]
      /\ \A s \in Secrets : cache'[s] = None \/ cache'[s] = cache[s]
  <2>1. PICK x : cache' = [cache EXCEPT ![x] = None]
    BY DEF Del, DelNew
  <2> QED
    BY <2>1 DEF Typed, Shape
<1>3. CASE Done(m)
  BY <1>1, <1>2, <1>3, DoneFacts DEF Del, DelNew
<1>4. CASE mpc' = [mpc EXCEPT ![m] = "del_new"] /\ UNCHANGED <<op, snap>>
  BY <1>1, <1>2, <1>4 DEF Del, DelNew, Typed, TypeOK
<1> QED
  BY <1>3, <1>4 DEF Del, DelNew

\* The row an Update writes is the old one with one of its settings changed.
LEMMA UpdateFacts ==
  ASSUME Typed, NEW m \in Managers, Update(m)
  PROVE  /\ row \in Records /\ row' \in Records /\ row'.secret = row.secret
         /\ wanted' \in [status : Statuses, source : Sources]
         /\ \/ row'.status = op[m].to /\ wanted'.status = op[m].to
               /\ row'.source = row.source /\ wanted'.source = wanted.source
            \/ row'.source = op[m].to /\ wanted'.source = op[m].to
               /\ row'.status = row.status /\ wanted'.status = wanted.status
         /\ Write(row', wanted', m)
         /\ mpc[m] = "write" /\ op[m].kind # "regenerate" /\ mpc' = [mpc EXCEPT ![m] = "del"]
         /\ UNCHANGED <<issued, expired, cache, vpc, key, rec, wait, op, snap, ops, faults>>
<1> USE DEF Typed, TypeOK, Shape, Uncreated
<1>1. row \in Records /\ wanted \in [status : Statuses, source : Sources] /\ op[m] \in Kinds
  BY DEF Update
<1>2. Write(row', wanted', m)
  BY DEF Update, Write
<1>3. CASE op[m].kind = "status"
  <2>1. op[m].to \in Statuses
    BY <1>1, <1>3 DEF Kinds
  <2>2. row' = [row EXCEPT !.status = op[m].to] /\ wanted' = [wanted EXCEPT !.status = op[m].to]
    BY <1>3 DEF Update, Write
  <2> QED
    BY <1>1, <1>2, <2>1, <2>2 DEF Records, Update, request
<1>4. CASE op[m].kind # "status"
  <2>1. op[m].to \in Sources
    BY <1>1, <1>4 DEF Kinds, Update
  <2>2. row' = [row EXCEPT !.source = op[m].to] /\ wanted' = [wanted EXCEPT !.source = op[m].to]
    BY <1>4 DEF Update, Write
  <2> QED
    BY <1>1, <1>2, <2>1, <2>2 DEF Records, Update, request
<1> QED
  BY <1>3, <1>4

\* A Regenerate writes the row it read, with a new raw key.
LEMMA RegenerateFacts ==
  ASSUME Typed, NEW m \in Managers, Regenerate(m)
  PROVE  /\ row \in Records /\ snap[m] \in Records /\ row' \in Records
         /\ op[m].to \in Secrets /\ row'.secret = op[m].to
         /\ row'.status = snap[m].status /\ row'.source = snap[m].source
         /\ wanted' = wanted /\ Write(row', wanted', m)
         /\ mpc[m] = "write" /\ op[m].kind = "regenerate" /\ mpc' = [mpc EXCEPT ![m] = "del"]
         /\ UNCHANGED <<issued, expired, cache, vpc, key, rec, wait, op, snap, ops, faults>>
<1> USE DEF Typed, TypeOK, Shape, Uncreated
<1>1. row \in Records /\ snap[m] \in Records /\ op[m] \in Kinds
  BY DEF Regenerate
<1>2. op[m].to \in Secrets
  BY <1>1 DEF Kinds, Regenerate
<1>3. row' = [snap[m] EXCEPT !.secret = op[m].to] /\ wanted' = wanted /\ Write(row', wanted', m)
  BY DEF Regenerate, Write
<1> QED
  BY <1>1, <1>2, <1>3 DEF Records, Regenerate, request

\* Every step keeps the types, and an operation or a fill under way what it has.
LEMMA TypedStep == Typed /\ [Next]_vars => Typed'
<1> SUFFICES ASSUME Typed, [Next]_vars PROVE Typed'
  OBVIOUS
<1> USE ApiKeysAssumption DEF Typed, TypeOK, Shape, Uncreated, Entries, Window
<1>1. ASSUME NEW v \in Validators, NEW s \in Secrets, CacheHit(v, s) PROVE Typed'
  <2>1. cache[s] \in Entries
    BY <1>1 DEF CacheHit
  <2>2. cache[s].rec \in Records
    BY <2>1
  <2> QED
    BY <1>1, <2>2 DEF CacheHit, manager, history
<1>2. ASSUME NEW v \in Validators, NEW s \in Secrets, CacheMiss(v, s) \/ CacheGetFailed(v, s)
      PROVE  Typed'
  <2>1. ReadRow(v, s) /\ faults' \in 0..MaxFaults
    BY <1>2 DEF CacheMiss, CacheGetFailed
  <2> QED
    BY <2>1 DEF ReadRow, Find, manager, history
<1>3. ASSUME NEW v \in Validators, CacheFill(v) PROVE Typed'
  <2>1. [rec |-> rec[v], left |-> TTL] \in Entries /\ rec[v].secret = key[v] /\ row # NoRow
    BY <1>3 DEF CacheFill
  <2> QED
    BY <1>3, <2>1 DEF CacheFill, manager, history
<1>4. ASSUME NEW v \in Validators, CacheFillFailed(v) PROVE Typed'
  BY <1>4 DEF CacheFillFailed, manager, history
<1>5. ASSUME NEW v \in Validators,
             Respond(v) \/ LastUsedFailed(v) \/ (\E s \in Secrets : FindFailed(v, s))
      PROVE  Typed'
  <2>1. ASSUME Respond(v) PROVE Typed'
    BY <2>1 DEF Respond, manager, history
  <2>2. ASSUME LastUsedFailed(v) PROVE Typed'
    BY <2>2 DEF LastUsedFailed, manager, history
  <2>3. ASSUME NEW s \in Secrets, FindFailed(v, s) PROVE Typed'
    BY <2>3 DEF FindFailed, manager, history
  <2> QED
    BY <1>5, <2>1, <2>2, <2>3
<1>6. ASSUME NEW m \in Managers, NEW s \in Secrets, NEW t \in Statuses, NEW b \in Sources,
             Create(m, s, t, b) PROVE Typed'
  <2> DEFINE new == [secret |-> s, status |-> t, source |-> b]
             ask == [status |-> t, source |-> b]
  <2>1. Write(new, ask, m) /\ new \in Records /\ ask \in [status : Statuses, source : Sources]
    BY <1>6 DEF Create, Records
  <2>2. UNCHANGED <<expired, cache, vpc, key, rec, wait, mpc, op, snap, ops, faults>>
    BY <1>6 DEF Create, request, manager
  <2>3. row = NoRow /\ issued' \subseteq Secrets
    BY <1>6 DEF Create
  <2> HIDE DEF new, ask
  <2> QED
    BY <2>1, <2>2, <2>3, WriteFacts DEF Records
<1>7. ASSUME NEW m \in Managers, NEW o \in Kinds, Begin(m, o) PROVE Typed'
  BY <1>7 DEF Begin, Kinds, request, history
<1>8. ASSUME NEW m \in Managers, Update(m) PROVE Typed'
  <2>1. row # NoRow /\ mpc' \in [Managers -> {"idle", "write", "del", "del_new"}]
    BY <1>8, UpdateFacts
  <2>2. TypeOK'
    BY <1>8, <2>1, UpdateFacts, WriteFacts
  <2>3. Shape' /\ Uncreated'
    BY <1>8, <2>1, UpdateFacts, WriteFacts DEF Records
  <2> QED
    BY <2>2, <2>3
<1>9. ASSUME NEW m \in Managers, Regenerate(m) PROVE Typed'
  <2>1. row # NoRow /\ mpc' \in [Managers -> {"idle", "write", "del", "del_new"}]
    BY <1>9, RegenerateFacts
  <2>2. TypeOK'
    BY <1>9, <2>1, RegenerateFacts, WriteFacts
  <2>3. Shape' /\ Uncreated'
    BY <1>9, <2>1, RegenerateFacts, WriteFacts DEF Records
  <2> QED
    BY <2>2, <2>3
<1>10. ASSUME NEW m \in Managers, Del(m) PROVE Typed'
  <2>1. \A s \in Secrets :
          cache'[s] = None \/ cache'[s] \in [rec : {r \in Records : r.secret = s}, left : 1..TTL]
    BY <1>10, DelFacts
  <2>2. /\ mpc' \in [Managers -> {"idle", "write", "del", "del_new"}]
        /\ op' \in [Managers -> Kinds \cup {None}] /\ snap' \in [Managers -> Records \cup {None}]
        /\ UNCHANGED <<row, issued, expired, vpc, key, rec, wait, ops, faults, ago, wanted,
                       overtaken>>
    BY <1>10, DelFacts
  <2>3. TypeOK'
    BY <2>1, <2>2
  <2>4. Shape' /\ Uncreated'
    BY <1>10, DelFacts
  <2> QED
    BY <2>3, <2>4
<1>11. ASSUME NEW m \in Managers, DelNew(m) PROVE Typed'
  <2>1. \A s \in Secrets :
          cache'[s] = None \/ cache'[s] \in [rec : {r \in Records : r.secret = s}, left : 1..TTL]
    BY <1>11, DelFacts
  <2>2. /\ mpc' \in [Managers -> {"idle", "write", "del", "del_new"}]
        /\ op' \in [Managers -> Kinds \cup {None}] /\ snap' \in [Managers -> Records \cup {None}]
        /\ UNCHANGED <<row, issued, expired, vpc, key, rec, wait, ops, faults, ago, wanted,
                       overtaken>>
    BY <1>11, DelFacts
  <2>3. TypeOK'
    BY <2>1, <2>2
  <2>4. Shape' /\ Uncreated'
    BY <1>11, DelFacts
  <2> QED
    BY <2>3, <2>4
<1>12. ASSUME NEW m \in Managers, Fail(m) PROVE Typed'
  <2>1. UNCHANGED <<row, issued, expired, cache, vpc, key, rec, wait, ops, ago, wanted>>
    BY <1>12 DEF Fail, request
  <2>2. faults' \in 0..MaxFaults /\ mpc[m] # "idle"
    BY <1>12 DEF Fail
  <2>3. overtaken' \subseteq {"fill", "write", "del"}
    BY <1>12 DEF Fail
  <2>4. Done(m)
    BY <1>12 DEF Fail
  <2>5. TypeOK'
    BY <2>1, <2>2, <2>3, <2>4, DoneFacts
  <2>6. Shape' /\ Uncreated'
    BY <2>1, <2>2, <2>4, DoneFacts
  <2> QED
    BY <2>5, <2>6
<1>13. ASSUME Tick PROVE Typed'
  BY <1>13 DEF Tick, Cap, manager
<1>14. ASSUME Expire PROVE Typed'
  BY <1>14 DEF Expire, request, manager
<1>15. ASSUME UNCHANGED vars PROVE Typed'
  BY <1>15 DEF vars, request, manager, history
<1> QED
  BY <1>1, <1>2, <1>3, <1>4, <1>5, <1>6, <1>7, <1>8, <1>9, <1>10, <1>11, <1>12, <1>13,
     <1>14, <1>15 DEF Next, Request, Operation

\* The initial state.
LEMMA TypedInit == Init => Typed
<1> SUFFICES ASSUME Init PROVE Typed
  OBVIOUS
<1> USE ApiKeysAssumption DEF Init
<1>1. expired \in BOOLEAN
  OBVIOUS
<1>2. ago \in [Secrets -> 0..Window] /\ wait \in [Validators -> 0..MaxDelay]
  BY DEF Window
<1>3. ops \in 0..MaxOps /\ faults \in 0..MaxFaults
  OBVIOUS
<1>4. TypeOK
  BY <1>1, <1>2, <1>3 DEF TypeOK
<1>5. Shape /\ Uncreated
  BY DEF Shape, Uncreated
<1> QED
  BY <1>4, <1>5 DEF Typed

-----------------------------------------------------------------------------
(* A raw key is new                                                        *)

\* A raw key in use was generated once, for the row or for one regenerate, and
\* until that regenerate writes it nobody can have read or cached it.
LEMMA FreshStep ==
  ASSUME Typed, Fresh, [Next]_vars
  PROVE  Fresh'
<1> USE DEF Typed, TypeOK, Shape, Uncreated, Fresh
<1>1. ASSUME NEW v \in Validators, NEW s \in Secrets, CacheHit(v, s) PROVE Fresh'
  BY <1>1 DEF CacheHit, manager, history
<1>2. ASSUME NEW v \in Validators, NEW s \in Secrets, CacheMiss(v, s) \/ CacheGetFailed(v, s)
      PROVE  Fresh'
  BY <1>2 DEF CacheMiss, CacheGetFailed, ReadRow, Find, manager, history
<1>3. ASSUME NEW v \in Validators, CacheFill(v) PROVE Fresh'
  BY <1>3 DEF CacheFill, manager, history
<1>4. ASSUME NEW v \in Validators, CacheFillFailed(v) PROVE Fresh'
  BY <1>4 DEF CacheFillFailed, manager, history
<1>5. ASSUME NEW v \in Validators,
             Respond(v) \/ LastUsedFailed(v) \/ (\E s \in Secrets : FindFailed(v, s))
      PROVE  Fresh'
  BY <1>5 DEF Respond, LastUsedFailed, FindFailed, manager, history
<1>6. ASSUME NEW m \in Managers, NEW s \in Secrets, NEW t \in Statuses, NEW b \in Sources,
             Create(m, s, t, b) PROVE Fresh'
  BY <1>6 DEF Create, Write, request, manager
<1>7. ASSUME NEW m \in Managers, NEW o \in Kinds, Begin(m, o) PROVE Fresh'
  <2>1. /\ row # NoRow /\ mpc[m] = "idle" /\ mpc'[m] = "write" /\ op'[m] = o
        /\ o.kind = "regenerate" => o.to \notin issued /\ o.to \in Secrets
        /\ issued' = IF o.kind = "regenerate" THEN issued \cup {o.to} ELSE issued
        /\ \A n \in Managers \ {m} : mpc'[n] = mpc[n] /\ op'[n] = op[n]
        /\ UNCHANGED <<row, cache, vpc, key>>
    BY <1>7 DEF Begin, Kinds, request
  <2>2. \A n \in Managers : mpc'[n] # "idle" /\ op'[n].kind = "regenerate" => op'[n].to \in issued'
    BY <2>1
  <2>3. ASSUME NEW n \in Managers, mpc'[n] = "write", op'[n].kind = "regenerate"
        PROVE  /\ cache'[op'[n].to] = None
               /\ row'.secret # op'[n].to
               /\ \A v \in Validators : vpc'[v] = "fill" => key'[v] # op'[n].to
               /\ \A k \in Managers \ {n} :
                    mpc'[k] # "idle" /\ op'[k].kind = "regenerate" => op'[k].to # op'[n].to
    <3>1. CASE n = m
      BY <2>1, <2>3, <3>1
    <3>2. CASE n # m
      BY <2>1, <2>3, <3>2
    <3> QED
      BY <3>1, <3>2
  <2> QED
    BY <2>1, <2>2, <2>3
<1>8. ASSUME NEW m \in Managers, Update(m) PROVE Fresh'
  BY <1>8, UpdateFacts
<1>9. ASSUME NEW m \in Managers, Regenerate(m) PROVE Fresh'
  BY <1>9, RegenerateFacts
<1>10. ASSUME NEW m \in Managers, Del(m) \/ DelNew(m) PROVE Fresh'
  BY <1>10, DelFacts
<1>11. ASSUME NEW m \in Managers, Fail(m) PROVE Fresh'
  BY <1>11, DoneFacts DEF Fail, request
<1>12. ASSUME Tick PROVE Fresh'
  BY <1>12 DEF Tick, manager
<1>13. ASSUME Expire PROVE Fresh'
  BY <1>13 DEF Expire, request, manager
<1>14. ASSUME UNCHANGED vars PROVE Fresh'
  BY <1>14 DEF vars, request, manager, history
<1> QED
  BY <1>1, <1>2, <1>3, <1>4, <1>5, <1>6, <1>7, <1>8, <1>9, <1>10, <1>11, <1>12, <1>13,
     <1>14 DEF Next, Request, Operation

-----------------------------------------------------------------------------
(* What was read before a write or a fill                                  *)

\* A row's change reaches an operation or a fill that read the row before it only
\* as something that overtook it.
LEMMA CurrentStep ==
  ASSUME Typed, SnapCurrent, FillCurrent, [Next]_vars
  PROVE  SnapCurrent' /\ FillCurrent'
<1> DEFINE Goal == SnapCurrent' /\ FillCurrent'
<1> USE DEF Typed, TypeOK, Shape, Uncreated, SnapCurrent, FillCurrent
<1>1. ASSUME NEW v \in Validators, NEW s \in Secrets, CacheHit(v, s) PROVE Goal
  BY <1>1 DEF CacheHit, Find, manager, history
<1>2. ASSUME NEW v \in Validators, NEW s \in Secrets, CacheMiss(v, s) \/ CacheGetFailed(v, s)
      PROVE  Goal
  BY <1>2 DEF CacheMiss, CacheGetFailed, ReadRow, Find, manager, history
<1>3. ASSUME NEW v \in Validators, CacheFill(v) PROVE Goal
  BY <1>3 DEF CacheFill, Find, manager, history
<1>4. ASSUME NEW v \in Validators, CacheFillFailed(v) PROVE Goal
  BY <1>4 DEF CacheFillFailed, Find, manager, history
<1>5. ASSUME NEW v \in Validators,
             Respond(v) \/ LastUsedFailed(v) \/ (\E s \in Secrets : FindFailed(v, s))
      PROVE  Goal
  BY <1>5 DEF Respond, LastUsedFailed, FindFailed, Find, manager, history
<1>6. ASSUME NEW m \in Managers, NEW s \in Secrets, NEW t \in Statuses, NEW b \in Sources,
             Create(m, s, t, b) PROVE Goal
  BY <1>6 DEF Create, Write, Find, request, manager
<1>7. ASSUME NEW m \in Managers, NEW o \in Kinds, Begin(m, o) PROVE Goal
  BY <1>7 DEF Begin, Find, request, history
<1>8. ASSUME NEW m \in Managers, Update(m) PROVE Goal
  BY <1>8, UpdateFacts, WriteFacts
<1>9. ASSUME NEW m \in Managers, Regenerate(m) PROVE Goal
  BY <1>9, RegenerateFacts, WriteFacts
<1>10. ASSUME NEW m \in Managers, Del(m) \/ DelNew(m) PROVE Goal
  BY <1>10, DelFacts DEF Find
<1>11. ASSUME NEW m \in Managers, Fail(m) PROVE Goal
  BY <1>11, DoneFacts DEF Fail, Find, request
<1>12. ASSUME Tick PROVE Goal
  BY <1>12 DEF Tick, Find, manager
<1>13. ASSUME Expire PROVE Goal
  BY <1>13 DEF Expire, Find, request, manager
<1>14. ASSUME UNCHANGED vars PROVE Goal
  BY <1>14 DEF vars, Find, request, manager, history
<1> QED
  BY <1>1, <1>2, <1>3, <1>4, <1>5, <1>6, <1>7, <1>8, <1>9, <1>10, <1>11, <1>12, <1>13,
     <1>14 DEF Next, Request, Operation

-----------------------------------------------------------------------------
(* The invariants of the runs                                              *)

\* A change of the settings records what was asked for; a regenerate that was not
\* overtaken writes back the settings that the row has.
LEMMA SettingsStep ==
  ASSUME Typed, SnapCurrent, SettingsKept, [Next]_vars
  PROVE  SettingsKept'
<1> USE DEF SettingsKept
<1>1. ASSUME NEW m \in Managers, NEW s \in Secrets, NEW t \in Statuses, NEW b \in Sources,
             Create(m, s, t, b) PROVE SettingsKept'
  BY <1>1 DEF Create, Write
<1>2. ASSUME NEW m \in Managers, Update(m) PROVE SettingsKept'
  BY <1>2, UpdateFacts, WriteFacts, ApiKeysAssumption DEF Records
<1>3. ASSUME NEW m \in Managers, Regenerate(m) PROVE SettingsKept'
  <2>1. SUFFICES ASSUME "write" \notin overtaken'
                 PROVE  row'.status = wanted'.status /\ row'.source = wanted'.source
    OBVIOUS
  <2>2. "write" \notin overtaken
    BY <1>3, <2>1, RegenerateFacts, WriteFacts
  <2>3. row # NoRow /\ snap[m] = row
    BY <1>3, <2>2, RegenerateFacts, ApiKeysAssumption DEF SnapCurrent, Records
  <2> QED
    BY <1>3, <2>2, <2>3, RegenerateFacts
<1>4. ASSUME UNCHANGED <<row, wanted>>, overtaken \subseteq overtaken' PROVE SettingsKept'
  BY <1>4
<1>5. ASSUME NEW m \in Managers, Fail(m) PROVE SettingsKept'
  BY <1>4, <1>5 DEF Fail
<1>6. ASSUME NEW v \in Validators, Request(v) PROVE SettingsKept'
  BY <1>4, <1>6 DEF Request, CacheHit, CacheMiss, CacheGetFailed, ReadRow, FindFailed, CacheFill,
                     CacheFillFailed, LastUsedFailed, Respond, history
<1>7. ASSUME NEW m \in Managers, NEW o \in Kinds, Begin(m, o) PROVE SettingsKept'
  BY <1>4, <1>7 DEF Begin, history
<1>8. ASSUME NEW m \in Managers, Del(m) \/ DelNew(m) PROVE SettingsKept'
  BY <1>4, <1>8 DEF Del, DelNew, history
<1>9. ASSUME Tick \/ Expire \/ UNCHANGED vars PROVE SettingsKept'
  BY <1>4, <1>9 DEF Tick, Expire, vars, history
<1> QED
  BY <1>1, <1>2, <1>3, <1>5, <1>6, <1>7, <1>8, <1>9 DEF Next, Operation

\* An entry leaves the row behind only in a write, whose operation is then about
\* to delete it, and a fill puts a row back only if it is still the row.
LEMMA CoherentStep ==
  ASSUME Typed, Fresh, SnapCurrent, FillCurrent, CacheCoherent, [Next]_vars
  PROVE  CacheCoherent'
<1> USE DEF Typed, TypeOK, Shape, Uncreated, CacheCoherent
<1>1. ASSUME NEW v \in Validators, NEW s \in Secrets,
             CacheHit(v, s) \/ CacheMiss(v, s) \/ CacheGetFailed(v, s) \/ FindFailed(v, s)
      PROVE  CacheCoherent'
  BY <1>1 DEF CacheHit, CacheMiss, CacheGetFailed, ReadRow, FindFailed, Find, manager, history
<1>2. ASSUME NEW v \in Validators, CacheFill(v) PROVE CacheCoherent'
  BY <1>2 DEF CacheFill, Find, FillCurrent, manager, history
<1>3. ASSUME NEW v \in Validators, CacheFillFailed(v) \/ LastUsedFailed(v) \/ Respond(v)
      PROVE  CacheCoherent'
  BY <1>3 DEF CacheFillFailed, LastUsedFailed, Respond, Find, manager, history
<1>4. ASSUME NEW m \in Managers, NEW s \in Secrets, NEW t \in Statuses, NEW b \in Sources,
             Create(m, s, t, b) PROVE CacheCoherent'
  BY <1>4 DEF Create, request, manager
<1>5. ASSUME NEW m \in Managers, NEW o \in Kinds, Begin(m, o) PROVE CacheCoherent'
  BY <1>5 DEF Begin, Find, request, history
<1>6. ASSUME NEW m \in Managers, Update(m) PROVE CacheCoherent'
  <2> SUFFICES ASSUME NEW s \in Secrets, cache'[s] # None, overtaken' = {}
               PROVE  cache'[s].rec = Find(s)' \/ \E n \in Managers : mpc'[n] = "del" /\ snap'[n].secret = s
    OBVIOUS
  <2>1. \A n \in Managers : mpc[n] = "del" => mpc'[n] = "del" /\ snap'[n] = snap[n]
    BY <1>6, UpdateFacts
  <2>2. mpc'[m] = "del" /\ snap'[m].secret = row.secret
    BY <1>6, UpdateFacts, WriteFacts DEF SnapCurrent
  <2>3. s # row.secret => Find(s)' = Find(s)
    BY <1>6, UpdateFacts DEF Find
  <2>4. cache' = cache /\ overtaken = {}
    BY <1>6, UpdateFacts, WriteFacts
  <2> QED
    BY <2>1, <2>2, <2>3, <2>4
<1>7. ASSUME NEW m \in Managers, Regenerate(m) PROVE CacheCoherent'
  <2> SUFFICES ASSUME NEW s \in Secrets, cache'[s] # None, overtaken' = {}
               PROVE  cache'[s].rec = Find(s)' \/ \E n \in Managers : mpc'[n] = "del" /\ snap'[n].secret = s
    OBVIOUS
  <2>1. \A n \in Managers : mpc[n] = "del" => mpc'[n] = "del" /\ snap'[n] = snap[n]
    BY <1>7, RegenerateFacts
  <2>2. mpc'[m] = "del" /\ snap'[m].secret = row.secret
    BY <1>7, RegenerateFacts, WriteFacts DEF SnapCurrent
  <2>3. cache[op[m].to] = None
    BY <1>7, RegenerateFacts DEF Fresh
  <2>4. s # row.secret /\ s # op[m].to => Find(s)' = Find(s)
    BY <1>7, RegenerateFacts DEF Find
  <2>5. cache' = cache /\ overtaken = {}
    BY <1>7, RegenerateFacts, WriteFacts
  <2> QED
    BY <2>1, <2>2, <2>3, <2>4, <2>5
<1>8. ASSUME NEW m \in Managers, Del(m) PROVE CacheCoherent'
  <2>1. cache'[snap[m].secret] = None \/ snap[m].secret \notin Secrets
    BY <1>8 DEF Del
  <2>2. \A s \in Secrets : Find(s)' = Find(s)
    BY <1>8, DelFacts DEF Find
  <2>3. \A n \in Managers \ {m} : mpc'[n] = mpc[n] /\ snap'[n] = snap[n]
    BY <1>8, DelFacts
  <2> QED
    BY <1>8, <2>1, <2>2, <2>3, DelFacts
<1>9. ASSUME NEW m \in Managers, DelNew(m) PROVE CacheCoherent'
  <2>1. \A s \in Secrets : Find(s)' = Find(s)
    BY <1>9, DelFacts DEF Find
  <2>2. mpc[m] # "del"
    BY <1>9 DEF DelNew
  <2>3. \A n \in Managers \ {m} : mpc'[n] = mpc[n] /\ snap'[n] = snap[n]
    BY <1>9, DelFacts
  <2> QED
    BY <1>9, <2>1, <2>2, <2>3, DelFacts
<1>10. ASSUME NEW m \in Managers, Fail(m) PROVE CacheCoherent'
  <2> SUFFICES ASSUME NEW s \in Secrets, cache'[s] # None, overtaken' = {}
               PROVE  cache'[s].rec = Find(s)' \/ \E n \in Managers : mpc'[n] = "del" /\ snap'[n].secret = s
    OBVIOUS
  <2>1. UNCHANGED <<row, cache>> /\ Done(m)
    BY <1>10 DEF Fail
  <2>2. overtaken \subseteq overtaken' /\ (mpc[m] = "del" => overtaken' # {})
    BY <1>10 DEF Fail
  <2>3. Find(s)' = Find(s)
    BY <2>1 DEF Find
  <2>4. \A n \in Managers \ {m} : mpc'[n] = mpc[n] /\ snap'[n] = snap[n]
    BY <2>1, DoneFacts
  <2>5. mpc[m] # "del" /\ overtaken = {}
    BY <2>2
  <2> QED
    BY <2>1, <2>3, <2>4, <2>5
<1>11. ASSUME Tick PROVE CacheCoherent'
  <2>1. \A s \in Secrets : cache'[s] = None \/ cache'[s].rec = cache[s].rec
    BY <1>11 DEF Tick, Entries
  <2>2. \A s \in Secrets : cache[s] = None => cache'[s] = None
    BY <1>11 DEF Tick
  <2>3. UNCHANGED <<row, mpc, snap, overtaken>>
    BY <1>11 DEF Tick, manager
  <2> QED
    BY <2>1, <2>2, <2>3 DEF Find
<1>12. ASSUME Expire \/ UNCHANGED vars PROVE CacheCoherent'
  BY <1>12 DEF Expire, vars, Find, request, manager, history
<1> QED
  BY <1>1, <1>2, <1>3, <1>4, <1>5, <1>6, <1>7, <1>8, <1>9, <1>10, <1>11, <1>12
  DEF Next, Request, Operation

-----------------------------------------------------------------------------
(* How old an answer may be                                                *)

\* What a change of the row does to the age of the answers: it starts anew where
\* the answer changes, for a copy read before it too.
LEMMA WriteTimely ==
  ASSUME Typed, FillTimely, EntryTimely, NEW new, NEW ask, NEW m \in Managers,
         Write(new, ask, m), UNCHANGED <<expired, cache, vpc, key, rec, wait>>
  PROVE  FillTimely' /\ EntryTimely'
<1>1. \A s \in Secrets : ago'[s] = IF Answer(row, s) = Answer(new, s) THEN ago[s] ELSE 0
  BY WriteFacts
<1>2. row' = new
  BY WriteFacts
<1>3. FillTimely'
  <2> SUFFICES ASSUME NEW v \in Validators, vpc[v] = "fill"
               PROVE  (Answer(rec[v], key[v]) = Answer(row, key[v]) \/ ago[key[v]] <= wait[v])'
    BY DEF FillTimely
  <2>1. key[v] \in Secrets /\ wait[v] >= 0
    BY ApiKeysAssumption DEF Typed, TypeOK, Shape
  <2>2. /\ Answer(rec[v], key[v])' = Answer(rec[v], key[v])
        /\ Answer(row, key[v])' = Answer(new, key[v])
    BY <1>2 DEF Answer
  <2>3. Answer(rec[v], key[v]) = Answer(row, key[v]) \/ ago[key[v]] <= wait[v]
    BY DEF FillTimely
  <2> QED
    BY <1>1, <2>1, <2>2, <2>3
<1>4. EntryTimely'
  <2> SUFFICES ASSUME NEW s \in Secrets, cache[s] # None
               PROVE  (\/ Answer(cache[s].rec, s) = Answer(row, s)
                       \/ ago[s] <= (TTL - cache[s].left) + MaxDelay)'
    BY DEF EntryTimely
  <2>1. cache[s].left \in 1..TTL
    BY DEF Typed, Shape, Entries
  <2>2. /\ Answer(cache[s].rec, s)' = Answer(cache[s].rec, s)
        /\ Answer(row, s)' = Answer(new, s)
    BY <1>2 DEF Answer
  <2>3. \/ Answer(cache[s].rec, s) = Answer(row, s)
        \/ ago[s] <= (TTL - cache[s].left) + MaxDelay
    BY DEF EntryTimely
  <2>4. 0 <= (TTL - cache[s].left) + MaxDelay
    BY <2>1, ApiKeysAssumption
  <2> QED
    BY <1>1, <2>2, <2>3, <2>4
<1> QED
  BY <1>3, <1>4

\* A copy of the row answers as the row does or its answer is no older than the
\* copy: every step keeps this, a tick because it ages both.
LEMMA TimelyStep ==
  ASSUME Typed, FillTimely, EntryTimely, [Next]_vars
  PROVE  FillTimely' /\ EntryTimely'
<1> DEFINE Goal == FillTimely' /\ EntryTimely'
<1>1. ASSUME UNCHANGED <<row, expired, ago, key, rec, wait>>,
             \A v \in Validators : vpc'[v] = "fill" => vpc[v] = "fill",
             \A s \in Secrets : cache'[s] = None \/ cache'[s] = cache[s]
      PROVE  Goal
  BY <1>1 DEF FillTimely, EntryTimely, Answer
<1>2. ASSUME NEW v \in Validators, NEW s \in Secrets, CacheHit(v, s) PROVE Goal
  BY <1>2 DEF CacheHit, FillTimely, EntryTimely, Answer, Typed, TypeOK, history
<1>3. ASSUME NEW v \in Validators, NEW s \in Secrets, CacheMiss(v, s) \/ CacheGetFailed(v, s)
      PROVE  Goal
  <2>1. UNCHANGED <<row, expired, ago, cache, wait>>
    BY <1>3 DEF CacheMiss, CacheGetFailed, ReadRow, history
  <2>2. /\ key'[v] = s /\ rec'[v] = Find(s)
        /\ \A u \in Validators \ {v} : vpc'[u] = vpc[u] /\ key'[u] = key[u] /\ rec'[u] = rec[u]
    BY <1>3 DEF CacheMiss, CacheGetFailed, ReadRow, Typed, TypeOK
  <2>3. (Answer(rec[v], key[v]) = Answer(row, key[v]))'
    BY <2>1, <2>2 DEF Answer, Find
  <2>4. \A u \in Validators \ {v} : /\ Answer(rec[u], key[u])' = Answer(rec[u], key[u])
                                    /\ Answer(row, key[u])' = Answer(row, key[u])
    BY <2>1, <2>2 DEF Answer
  <2>5. FillTimely'
    BY <2>1, <2>2, <2>3, <2>4 DEF FillTimely
  <2>6. EntryTimely'
    BY <2>1 DEF EntryTimely, Answer
  <2> QED
    BY <2>5, <2>6
<1>4. ASSUME NEW v \in Validators, CacheFill(v) PROVE Goal
  <2>1. UNCHANGED <<row, expired, ago, key, rec>> /\ vpc[v] = "fill"
    BY <1>4 DEF CacheFill, history
  <2>2. /\ vpc'[v] = "answered"
        /\ \A u \in Validators \ {v} : vpc'[u] = vpc[u] /\ wait'[u] = wait[u]
    BY <1>4 DEF CacheFill, Typed, TypeOK
  <2>3. FillTimely'
    BY <2>1, <2>2 DEF FillTimely, Answer
  <2>4. ASSUME NEW s \in Secrets, cache'[s] # None
        PROVE  (\/ Answer(cache[s].rec, s) = Answer(row, s)
                \/ ago[s] <= (TTL - cache[s].left) + MaxDelay)'
    <3>1. CASE s = key[v]
      <4>1. cache'[s] = [rec |-> rec[v], left |-> TTL]
        BY <1>4, <3>1 DEF CacheFill, Typed, Shape
      <4>2. Answer(rec[v], s) = Answer(row, s) \/ ago[s] <= wait[v]
        BY <2>1, <3>1 DEF FillTimely
      <4>3. wait[v] <= MaxDelay /\ wait[v] \in Nat /\ ago[s] \in Nat
        BY ApiKeysAssumption DEF Typed, TypeOK, Window
      <4>4. ago[s] <= wait[v] => ago[s] <= (TTL - TTL) + MaxDelay
        BY <4>3, ApiKeysAssumption
      <4>5. Answer(cache[s].rec, s)' = Answer(rec[v], s) /\ Answer(row, s)' = Answer(row, s)
        BY <2>1, <4>1 DEF Answer
      <4> QED
        BY <2>1, <4>1, <4>2, <4>4, <4>5
    <3>2. CASE s # key[v]
      <4>1. cache'[s] = cache[s]
        BY <1>4, <3>2 DEF CacheFill, Typed, Shape
      <4> QED
        BY <2>1, <2>4, <4>1 DEF EntryTimely, Answer
    <3> QED
      BY <3>1, <3>2
  <2> QED
    BY <2>3, <2>4 DEF EntryTimely
<1>5. ASSUME NEW v \in Validators, CacheFillFailed(v) PROVE Goal
  BY <1>5 DEF CacheFillFailed, FillTimely, EntryTimely, Answer, Typed, TypeOK, history
<1>6. ASSUME NEW v \in Validators,
             Respond(v) \/ LastUsedFailed(v) \/ (\E s \in Secrets : FindFailed(v, s))
      PROVE  Goal
  BY <1>6 DEF Respond, LastUsedFailed, FindFailed, FillTimely, EntryTimely, Answer, Typed, TypeOK,
              history
<1>7. ASSUME NEW m \in Managers, NEW s \in Secrets, NEW t \in Statuses, NEW b \in Sources,
             Create(m, s, t, b) PROVE Goal
  BY <1>7, WriteTimely DEF Create, request
<1>8. ASSUME NEW m \in Managers, Update(m) PROVE Goal
  BY <1>8, UpdateFacts, WriteTimely
<1>9. ASSUME NEW m \in Managers, Regenerate(m) PROVE Goal
  BY <1>9, RegenerateFacts, WriteTimely
<1>10. ASSUME NEW m \in Managers, NEW o \in Kinds, Begin(m, o) PROVE Goal
  BY <1>1, <1>10 DEF Begin, request, history
<1>11. ASSUME NEW m \in Managers, Del(m) \/ DelNew(m) PROVE Goal
  BY <1>1, <1>11, DelFacts
<1>12. ASSUME NEW m \in Managers, Fail(m) PROVE Goal
  BY <1>1, <1>12 DEF Fail, request
<1>13. ASSUME Tick PROVE Goal
  <2>1. UNCHANGED <<row, expired, vpc, key, rec>>
    BY <1>13 DEF Tick
  <2>2. \A s \in Secrets : ago'[s] \in Nat /\ ago[s] \in Nat /\ ago'[s] <= ago[s] + 1
    BY <1>13, ApiKeysAssumption DEF Tick, Cap, Window, Typed, TypeOK
  <2>3. \A v \in Validators : vpc[v] = "fill" => /\ key[v] \in Secrets /\ wait[v] \in Nat
                                                 /\ wait'[v] = wait[v] + 1
    BY <1>13, ApiKeysAssumption DEF Tick, Typed, TypeOK, Shape
  <2>4. \A s \in Secrets : cache'[s] # None =>
          /\ cache[s] # None /\ cache'[s].rec = cache[s].rec
          /\ cache[s].left \in Nat /\ cache'[s].left = cache[s].left - 1
    BY <1>13, ApiKeysAssumption DEF Tick, Typed, Shape, Entries
  <2>5. FillTimely'
    <3> SUFFICES ASSUME NEW v \in Validators, vpc[v] = "fill"
                 PROVE  (Answer(rec[v], key[v]) = Answer(row, key[v]) \/ ago[key[v]] <= wait[v])'
      BY <2>1 DEF FillTimely
    <3>1. /\ Answer(rec[v], key[v])' = Answer(rec[v], key[v])
          /\ Answer(row, key[v])' = Answer(row, key[v])
      BY <2>1 DEF Answer
    <3>2. Answer(rec[v], key[v]) = Answer(row, key[v]) \/ ago[key[v]] <= wait[v]
      BY DEF FillTimely
    <3> QED
      BY <2>1, <2>2, <2>3, <3>1, <3>2
  <2>6. EntryTimely'
    <3> SUFFICES ASSUME NEW s \in Secrets, cache'[s] # None
                 PROVE  (\/ Answer(cache[s].rec, s) = Answer(row, s)
                         \/ ago[s] <= (TTL - cache[s].left) + MaxDelay)'
      BY DEF EntryTimely
    <3>1. /\ Answer(cache[s].rec, s)' = Answer(cache[s].rec, s)
          /\ Answer(row, s)' = Answer(row, s)
      BY <2>1, <2>4 DEF Answer
    <3>2. \/ Answer(cache[s].rec, s) = Answer(row, s)
          \/ ago[s] <= (TTL - cache[s].left) + MaxDelay
      BY <2>4 DEF EntryTimely
    <3>3. ago[s] <= (TTL - cache[s].left) + MaxDelay
            => ago'[s] <= (TTL - cache'[s].left) + MaxDelay
      BY <2>2, <2>4, ApiKeysAssumption
    <3> QED
      BY <3>1, <3>2, <3>3
  <2> QED
    BY <2>5, <2>6
<1>14. ASSUME Expire PROVE Goal
  BY <1>14 DEF Expire, FillTimely, EntryTimely, Answer
<1>15. ASSUME UNCHANGED vars PROVE Goal
  BY <1>1, <1>15 DEF vars, request, history
<1> QED
  BY <1>2, <1>3, <1>4, <1>5, <1>6, <1>7, <1>8, <1>9, <1>10, <1>11, <1>12, <1>13, <1>14, <1>15
  DEF Next, Request, Operation

-----------------------------------------------------------------------------
(* The theorems                                                            *)

\* The inductive invariant.
IInv ==
  /\ Typed /\ Fresh /\ SnapCurrent /\ FillCurrent
  /\ SettingsKept /\ CacheCoherent /\ FillTimely /\ EntryTimely

\* The inductive invariant holds in every reachable state, however requests,
\* customer operations, failures and the passing of time interleave.
THEOREM KeyInvariant == Spec => []IInv
<1>1. Init => IInv
  <2> SUFFICES ASSUME Init PROVE IInv
    OBVIOUS
  <2>1. Typed
    BY TypedInit
  <2>2. Fresh /\ SnapCurrent /\ FillCurrent /\ SettingsKept /\ CacheCoherent
    BY DEF Init, Fresh, SnapCurrent, FillCurrent, SettingsKept, CacheCoherent
  <2>3. FillTimely /\ EntryTimely
    BY DEF Init, FillTimely, EntryTimely
  <2> QED
    BY <2>1, <2>2, <2>3 DEF IInv
<1>2. IInv /\ [Next]_vars => IInv'
  BY TypedStep, FreshStep, CurrentStep, SettingsStep, CoherentStep, TimelyStep DEF IInv
<1> QED
  BY <1>1, <1>2, PTL DEF Spec

\* Every variable keeps its type: the row, the cache, the requests and the
\* operations of internal/service/postgres_store.go and api_key_service.go.
THEOREM TypeCorrect == Spec => []TypeOK
<1>1. IInv => TypeOK
  BY DEF IInv, Typed
<1> QED
  BY <1>1, KeyInvariant, PTL

\* The status and billing source in the row are the ones asked for last, also
\* after a regenerate, unless a change overtook one.
THEOREM SettingsAreKept == Spec => []SettingsKept
<1>1. IInv => SettingsKept
  BY DEF IInv
<1> QED
  BY <1>1, KeyInvariant, PTL

\* A cached record that differs from the row is about to be deleted, unless a fill
\* or an operation was overtaken or a delete was lost.
THEOREM CacheIsCoherent == Spec => []CacheCoherent
<1>1. IInv => CacheCoherent
  BY DEF IInv
<1> QED
  BY <1>1, KeyInvariant, PTL

\* Whatever overlaps, overtakes or fails, a request is answered as the row says or
\* as it said less than TTL + MaxDelay ticks ago.
THEOREM AnswersAreTimely == Spec => AnswersTimely
<1> DEFINE Timely ==
      \A v \in Validators :
        vpc[v] # "answered" /\ vpc'[v] = "answered" =>
          LET s == key'[v]
          IN Answer(rec'[v], s) = Answer(row, s) \/ ago[s] < Window
<1>1. IInv /\ [Next]_vars => [Timely]_vars
  <2> SUFFICES ASSUME IInv, Next, NEW v \in Validators, vpc[v] # "answered", vpc'[v] = "answered"
               PROVE  Answer(rec'[v], key'[v]) = Answer(row, key'[v]) \/ ago[key'[v]] < Window
    OBVIOUS
  <2> USE ApiKeysAssumption DEF IInv, Typed, TypeOK, Shape
  <2>1. ASSUME NEW s \in Secrets, CacheHit(v, s)
        PROVE  Answer(rec'[v], key'[v]) = Answer(row, key'[v]) \/ ago[key'[v]] < Window
    <3>1. key'[v] = s /\ rec'[v] = cache[s].rec /\ cache[s] # None
      BY <2>1 DEF CacheHit
    <3>2. cache[s].left \in 1..TTL /\ ago[s] \in Nat
      BY <3>1 DEF Entries, Window
    <3>3. Answer(cache[s].rec, s) = Answer(row, s) \/ ago[s] <= (TTL - cache[s].left) + MaxDelay
      BY <3>1 DEF EntryTimely
    <3> QED
      BY <3>1, <3>2, <3>3 DEF Window
  <2>2. ASSUME NEW s \in Secrets, CacheMiss(v, s) \/ CacheGetFailed(v, s)
        PROVE  Answer(rec'[v], key'[v]) = Answer(row, key'[v])
    BY <2>2 DEF CacheMiss, CacheGetFailed, ReadRow, Find, Answer
  <2>3. ASSUME CacheFill(v) \/ CacheFillFailed(v)
        PROVE  Answer(rec'[v], key'[v]) = Answer(row, key'[v]) \/ ago[key'[v]] < Window
    <3>1. vpc[v] = "fill" /\ key' = key /\ rec' = rec
      BY <2>3 DEF CacheFill, CacheFillFailed
    <3>2. key[v] \in Secrets /\ wait[v] \in 0..MaxDelay /\ ago[key[v]] \in Nat
      BY <3>1 DEF Window
    <3>3. Answer(rec[v], key[v]) = Answer(row, key[v]) \/ ago[key[v]] <= wait[v]
      BY <3>1 DEF FillTimely
    <3> QED
      BY <3>1, <3>2, <3>3 DEF Window
  <2>4. ASSUME NEW u \in Validators, Request(u), u # v PROVE vpc'[v] = vpc[v]
    BY <2>4 DEF Request, CacheHit, CacheMiss, CacheGetFailed, ReadRow, FindFailed, CacheFill,
                CacheFillFailed, LastUsedFailed, Respond
  <2>5. ASSUME Respond(v) \/ LastUsedFailed(v) \/ (\E s \in Secrets : FindFailed(v, s))
        PROVE  vpc'[v] # "answered"
    BY <2>5 DEF Respond, LastUsedFailed, FindFailed
  <2>6. ASSUME (\E m \in Managers : Operation(m)) \/ Tick \/ Expire PROVE vpc' = vpc
    BY <2>6 DEF Operation, Create, Begin, Update, Regenerate, Del, DelNew, Fail, Tick, Expire,
                request
  <2> QED
    BY <2>1, <2>2, <2>3, <2>4, <2>5, <2>6 DEF Next, Request
<1> QED
  BY <1>1, KeyInvariant, PTL DEF Spec, AnswersTimely
=============================================================================
