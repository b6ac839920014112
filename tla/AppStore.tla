------------------------------ MODULE AppStore ------------------------------
(***************************************************************************)
(* An app's key/value store and SQL database (AppData and AppSql, reached  *)
(* through ScopedStore and ScopedSql), and the caps AppHost pushes to them *)
(* (config/limits.ts, AppHost.setLimits).                                  *)
(*                                                                         *)
(* The three objects and the app's requests only exchange calls.  A push   *)
(* may fail or be overtaken, and each object may restart, which loses what *)
(* it has not stored.  Clients count, each in a request of its own, with   *)
(* incr or with a loop of get and cas; others keep texts in the store.     *)
(* Operators named X_Y are faulty variants of X that no action uses.       *)
(***************************************************************************)
EXTENDS Integers, FiniteSets, FiniteSetsExt, Functions

CONSTANTS
  Clients,    \* requests that add one to the counter
  Texts,      \* texts an app may store
  Chars, Units, Bytes, \* of each text: the characters that LENGTH of SQLite
                       \* counts, its length in JavaScript, and its size in UTF-8
  DEFAULT_LIMITS, BOUNDS,  \* by field; a bound has a min and a max
  Overrides,  \* what /api/limits may be sent: functions from some of the fields
  Infinite,   \* a number that is not finite
  Statements, \* SQL statements: their first word and what they add
  From,       \* what earlier requests have left in the counter
  MaxCalls,   \* bound: calls of setLimits
  MaxDb,      \* bound: no statement is run on a larger database
  Absent

Fields == {"value", "total", "rows", "db"}
Counter == "count"
Note == "note"
Keys == {Counter, Note}

VARIABLES
  limits,   \* AppHost: the resolved limits, stored
  pushes,   \* AppHost: calls of setLimits that have not answered
  called,   \* how many there have been
  store,    \* AppData: the value of each key, or Absent
  caps,     \* AppData: the caps in force; kept is the stored copy
  database, \* AppSql: its size, its caps and their stored copy
  client,   \* where each client is, and the value it has read
  overlap   \* the last push was not alone, failed or was cut off

hostVars == <<limits, pushes, called, overlap>>
vars == <<hostVars, store, caps, database, client>>

-----------------------------------------------------------------------------
(* Limits.                                                                 *)

Clamp(f, v) ==
  IF v = Infinite THEN DEFAULT_LIMITS[f] ELSE Min({Max({v, BOUNDS[f].min}), BOUNDS[f].max})

MergeLimits(partial, base) ==
  [f \in Fields |-> Clamp(f, IF f \in DOMAIN partial THEN partial[f] ELSE base[f])]

StoreCaps(l) == Restrict(l, {"value", "total"})
SqlCaps(l) == Restrict(l, {"rows", "db"})

\* What an object loads when it starts.
Loaded(kept, defaults) == IF kept = Absent THEN defaults ELSE kept

-----------------------------------------------------------------------------
(* AppHost.setLimits: the limits are stored, then pushed to AppData and to *)
(* AppSql; a push that fails is given up.                                  *)

SetLimits(partial) ==
  /\ called < MaxCalls
  /\ LET merged == MergeLimits(partial, limits) IN
     /\ limits' = merged
     /\ pushes' = pushes \cup {[id |-> called, limits |-> merged, to |-> "data"]}
     /\ overlap' = (pushes # {})
  /\ called' = called + 1
  /\ UNCHANGED <<store, caps, database, client>>

\* AppData and AppSql keep the caps they are sent.
SetStorageLimits(l) == [kept |-> l, now |-> l]
SetSqlLimits(l) == [database EXCEPT !.kept = l, !.now = l]

PushData(p) ==
  /\ p.to = "data"
  /\ caps' = SetStorageLimits(StoreCaps(p.limits))
  /\ pushes' = (pushes \ {p}) \cup {[p EXCEPT !.to = "sql"]}
  /\ UNCHANGED <<limits, called, overlap, store, database, client>>

PushSql(p) ==
  /\ p.to = "sql"
  /\ database' = SetSqlLimits(SqlCaps(p.limits))
  /\ pushes' = pushes \ {p}
  /\ UNCHANGED <<limits, called, overlap, store, caps, client>>

PushFails(p) ==
  /\ pushes' = (pushes \ {p}) \cup (IF p.to = "data" THEN {[p EXCEPT !.to = "sql"]} ELSE {})
  /\ overlap' = TRUE
  /\ UNCHANGED <<limits, called, store, caps, database, client>>

RestartHost ==
  /\ pushes # {}
  /\ pushes' = {}
  /\ overlap' = TRUE
  /\ UNCHANGED <<limits, called, store, caps, database, client>>

RestartData ==
  /\ caps' = [caps EXCEPT !.now = Loaded(caps.kept, StoreCaps(DEFAULT_LIMITS))]
  /\ UNCHANGED <<hostVars, store, database, client>>

RestartSql ==
  /\ database' = [database EXCEPT !.now = Loaded(database.kept, SqlCaps(DEFAULT_LIMITS))]
  /\ UNCHANGED <<hostVars, store, caps, client>>

-----------------------------------------------------------------------------
(* The key/value store.  A number is stored as its decimal digits.         *)

Digits(n) == IF n < 10 THEN 1 ELSE IF n < 100 THEN 2 ELSE 3
Measured(v, unit) == IF v = Absent THEN 0 ELSE IF v \in Texts THEN unit[v] ELSE Digits(v)
Length(v) == Measured(v, Chars)
Size(v) == Measured(v, Bytes)
Total(s) == Length(s[Counter]) + Length(s[Note])

Fits_ThisKeyOnly(key, v) ==
  Size(v) <= caps.now.value /\ Measured(v, Units) <= caps.now.total

\* enforceValueSize, in bytes, and enforceTotalSize: the characters SQLite counts
\* in the store, less those of the value that is replaced, with the length of the
\* new one in JavaScript.
Fits(key, v) ==
  /\ Size(v) <= caps.now.value
  /\ Total(store) - Length(store[key]) + Measured(v, Units) <= caps.now.total

StorePut(key, v) ==
  /\ Fits(key, v)
  /\ store' = [store EXCEPT ![key] = v]
  /\ UNCHANGED <<hostVars, caps, database, client>>

StoreDelete(key) ==
  /\ store' = [store EXCEPT ![key] = Absent]
  /\ UNCHANGED <<hostVars, caps, database, client>>

Number(v) == IF v = Absent THEN 0 ELSE v

\* Whatever the quota says.
StoreIncr(c) ==
  /\ client[c].at = "start"
  /\ store' = [store EXCEPT ![Counter] = Number(@) + 1]
  /\ client' = [client EXCEPT ![c].at = "added"]
  /\ UNCHANGED <<hostVars, caps, database>>

StoreGet(c) ==
  /\ client[c].at = "start"
  /\ client' = [client EXCEPT ![c] = [at |-> "read", seen |-> store[Counter]]]
  /\ UNCHANGED <<hostVars, store, caps, database>>

Same_Always(current, expected) == TRUE

\* null stands for a key that is not there.
Same(current, expected) == current = expected

StoreCas(c) ==
  LET next == Number(client[c].seen) + 1 IN
  /\ client[c].at = "read"
  /\ \/ /\ ~Same(store[Counter], client[c].seen)
        /\ client' = [client EXCEPT ![c].at = "start"]
        /\ UNCHANGED store
     \/ /\ Same(store[Counter], client[c].seen)
        /\ ~Fits(Counter, next)
        /\ client' = [client EXCEPT ![c].at = "refused"]
        /\ UNCHANGED store
     \/ /\ Same(store[Counter], client[c].seen)
        /\ Fits(Counter, next)
        /\ store' = [store EXCEPT ![Counter] = next]
        /\ client' = [client EXCEPT ![c].at = "added"]
  /\ UNCHANGED <<hostVars, caps, database>>

-----------------------------------------------------------------------------
(* The SQL database.  A statement adds to its size, or takes from it; only *)
(* the one whose first word is known to grow it is refused at the cap.     *)

IsGrowthWrite(head) == head \in {"INSERT", "UPDATE", "CREATE", "ALTER", "REPLACE"}

\* A statement that answers with too many rows throws, but it has been run.
SqlExec(s) ==
  /\ database.size <= MaxDb
  /\ IsGrowthWrite(s.head) => database.size < database.now.db
  /\ database' = [database EXCEPT !.size = Max({0, @ + s.adds}), !.ran = s.head]
  /\ UNCHANGED <<hostVars, store, caps, client>>

-----------------------------------------------------------------------------

Init ==
  /\ limits = DEFAULT_LIMITS
  /\ pushes = {} /\ called = 0 /\ overlap = FALSE
  /\ store = [k \in Keys |-> IF k = Counter THEN From ELSE Absent]
  /\ caps = [kept |-> Absent, now |-> StoreCaps(DEFAULT_LIMITS)]
  /\ database = [kept |-> Absent, now |-> SqlCaps(DEFAULT_LIMITS), size |-> 0, ran |-> Absent]
  /\ client = [c \in Clients |-> [at |-> "start", seen |-> Absent]]

Push == \E p \in pushes : PushData(p) \/ PushSql(p) \/ PushFails(p)
Limits == Push \/ RestartHost \/ \E partial \in Overrides : SetLimits(partial)
Add(c) == StoreIncr(c) \/ StoreGet(c) \/ StoreCas(c)

\* An app that uses its store, and one that uses its database.
NextStore ==
  \/ Limits \/ RestartData
  \/ \E t \in Texts : StorePut(Note, t)
  \/ StoreDelete(Note)
  \/ \E c \in Clients : Add(c)

NextSql == Limits \/ RestartSql \/ \E s \in Statements : SqlExec(s)

-----------------------------------------------------------------------------
(* Properties.                                                             *)

\* The counter has grown by one for each request that was told it has, however
\* incr, get and cas of several requests interleave, and by none that was told
\* it was refused (storeIncr, storeCas).
EveryIncrementCountsOnce ==
  Number(store[Counter]) = Number(From) + Cardinality({c \in Clients : client[c].at = "added"})

\* setLimits has answered, and neither failed nor raced another call.
Settled == pushes = {} /\ ~overlap

Grows(c) == client[c].at = "start" /\ client'[c].at = "added"

\* Once a setLimits that ran alone has answered, and whatever restarts, its caps
\* are those a write meets in the other object: no larger text is stored, in
\* bytes of UTF-8, the characters of the store outgrow storeMaxTotalBytes by
\* increments only (storeIncr checks no quota), and the database grows from
\* sqlMaxDbBytes on only by a statement that does not begin with a word it knows
\* (isGrowthWrite).  The bytes of the store may be more than storeMaxTotalBytes, up
\* to four for each character, though limits.ts calls it a limit of bytes.
CapsInForceAreTheHosts ==
  [][Settled =>
       /\ Total(store') > Total(store) =>
            Total(store') <= limits.total \/ \E c \in Clients : Grows(c)
       /\ store'[Note] \notin {store[Note], Absent} => Bytes[store'[Note]] <= limits.value
       /\ database'.size > database.size =>
            database.size < limits.db \/ ~IsGrowthWrite(database'.ran)]_vars

\* Every request that counts comes to an end: cas fails only when another
\* request has counted in between.
IncrementsEnd == \A c \in Clients : <>(client[c].at \in {"added", "refused"})
=============================================================================
