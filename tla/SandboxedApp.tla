---------------------------- MODULE SandboxedApp ----------------------------
(***************************************************************************)
(* What an app in the sandbox runs on and reaches: the worker it is loaded *)
(* into (Sandbox) and the capabilities of its broker that have a state,    *)
(* which are its store or its database with their caps (AppStore), its     *)
(* files or its blobs (AppFiles), mediated fetch with secrets (Egress) and *)
(* email (AppEmail).  They share nothing but the broker, which hands them  *)
(* the room they belong to; in a behaviour the app uses one of them, and   *)
(* the others stay as they began.                                          *)
(***************************************************************************)
EXTENDS Egress, FiniteSetsExt

CONSTANTS
  Clients, Texts, Chars, Units, Bytes, DEFAULT_LIMITS, BOUNDS, Overrides, Infinite,
  Statements, From, MaxCalls, MaxDb, Absent,             \* of AppStore
  Namespaces, Names, Up, Nothing, MaxSegments, MaxNodes, MaxBlobs, \* of AppFiles
  Mails, Senders, Recipients, Entries, Caps, Days,       \* of AppEmail
  Runs, Paths, Contents, Rooms                           \* of Sandbox

VARIABLES
  used,                                                                \* by the app
  limits, pushes, called, store, caps, database, client, overlap,      \* of AppStore
  nodes, blobs, caller,                                                \* of AppFiles
  policy, cap, day, sent, mail, highest,                               \* of AppEmail
  live, builds, worker, run                                            \* of Sandbox

S == INSTANCE AppStore
F == INSTANCE AppFiles
M == INSTANCE AppEmail
X == INSTANCE Sandbox WITH Texts <- Contents

ASSUME StoreAssumption ==
  /\ DEFAULT_LIMITS \in [S!Fields -> Int]
  /\ BOUNDS \in [S!Fields -> [min : Int, max : Int]]
  /\ \A f \in S!Fields : DEFAULT_LIMITS[f] \in BOUNDS[f].min .. BOUNDS[f].max
  /\ \A partial \in Overrides, f \in S!Fields :
       f \in DOMAIN partial => partial[f] \in Int \cup {Infinite}
  /\ Absent \notin Texts /\ \A fields \in SUBSET S!Fields : Absent \notin [fields -> Int]
  /\ \A s \in Statements : s.adds \in Int
  /\ \A t \in Texts : /\ Chars[t] \in Nat /\ Units[t] \in Nat /\ Bytes[t] \in Nat
                      /\ Chars[t] <= Units[t] /\ Units[t] <= Bytes[t]

ASSUME FilesAssumption ==
  Up \notin Names \cup Namespaces /\ Nothing \notin Names \cup Namespaces

netVars == vars
storeVars == <<limits, pushes, called, store, caps, database, client, overlap>>
fileVars == <<nodes, blobs, caller>>
mailVars == <<policy, cap, day, sent, mail, highest>>
runVars == <<live, builds, worker, run>>
appVars == <<used, netVars, storeVars, fileVars, mailVars, runVars>>

-----------------------------------------------------------------------------

\* What is not used begins in some state of its own.
InitApp ==
  /\ used \in {"worker", "store", "sql", "files", "blobs", "fetch", "email"}
  /\ Init /\ S!Init /\ F!Init /\ M!Init /\ X!Init
  /\ used # "fetch" => allow = CHOOSE list \in Lists : TRUE
  /\ used \notin {"files", "blobs"} => caller = CHOOSE ns \in Namespaces : TRUE
  /\ used # "email" => cap = Min(Caps)
  /\ used # "worker" => live = CHOOSE l \in [Rooms -> X!Code] : TRUE

Storing(A) == A /\ UNCHANGED <<used, netVars, fileVars, mailVars, runVars>>
Fetching(A) == used = "fetch" /\ A /\ UNCHANGED <<used, storeVars, fileVars, mailVars, runVars>>
Filing(A) == A /\ UNCHANGED <<used, netVars, storeVars, mailVars, runVars>>

NextApp ==
  \/ used = "store" /\ Storing(S!NextStore)
  \/ used = "sql" /\ Storing(S!NextSql)
  \/ used = "files" /\ Filing(F!NextFiles)
  \/ used = "blobs" /\ Filing(F!NextBlobs)
  \/ Fetching(Next)
  \/ used = "email" /\ M!Next /\ UNCHANGED <<used, netVars, storeVars, fileVars, runVars>>
  \/ used = "worker" /\ X!Next /\ UNCHANGED <<used, netVars, storeVars, fileVars, mailVars>>

\* The requests of an app that count in the store go on, and what the platform
\* owes a fetch happens.
Fairness ==
  /\ \A c \in Clients : WF_appVars(used = "store" /\ Storing(S!Add(c)))
  /\ \A c \in Fetches : WF_appVars(Fetching(Runtime(c)))

SpecApp == InitApp /\ [][NextApp]_appVars /\ Fairness

-----------------------------------------------------------------------------
(* The properties, stated in the modules of the parts; those of Egress     *)
(* that are invariants keep their names.                                   *)

\* The counter counts the requests that were told they counted (storeIncr, storeCas).
EveryIncrementCountsOnce == S!EveryIncrementCountsOnce

\* Caps that setLimits has answered for are those that writes meet (setLimits,
\* enforceValueSize, enforceTotalSize, sqlExec).
CapsInForceAreTheHosts == S!CapsInForceAreTheHosts

\* A call on one namespace leaves the files and blobs of the others alone (safePath).
NamespacesStayApart == F!NamespacesStayApart

\* The cap of a day is kept by the mails of that day (reserveEmail).
MailKeepsToTheCap == M!MailKeepsToTheCap

\* A run executes the files it was given, for its own room (getWorker).
RunsWhatItWasGiven == X!RunsWhatItWasGiven

\* Requests that count end, for cas fails only when another has counted, and
\* calls of send end, whatever the servers do (storeCas, send).
CallsEnd ==
  /\ used = "store" => S!IncrementsEnd
  /\ FetchesEnd
=============================================================================
