------------------------------ MODULE Sandbox -------------------------------
(***************************************************************************)
(* Running the app of a room (runner.ts): every caller hands over the      *)
(* files it has read, the Worker Loader keeps one worker for each content  *)
(* hash, and a worker that is cold is built from the build that AppHost    *)
(* has stored for the hash, or bundled anew.                               *)
(*                                                                         *)
(* Promotes, prunes of the stored builds and evictions of workers happen   *)
(* between any two steps of a run.  The Worker Loader is modelled as       *)
(* runner.ts uses it: get answers with the worker of that id if there is   *)
(* one, and else calls the factory it was given.  The limits of a worker   *)
(* are left out.                                                           *)
(* Operators named X_Y are faulty variants of X that no action uses.       *)
(***************************************************************************)
EXTENDS Functions

CONSTANTS
  Runs,         \* calls of runApp and of the Logic methods
  Paths, Texts, \* names and contents of files
  Rooms,        \* the rooms of the instance
  None

\* The versions of an app: files that exist, and what they hold.
Code == UNION {[ps -> Texts] : ps \in (SUBSET Paths) \ {{}}}

VARIABLES
  live,    \* AppHost of each room: the files of the live version
  builds,  \* AppHost of each room: what was built, by content hash
  worker,  \* the Worker Loader: the workers it keeps, by id
  run      \* the calls in flight

vars == <<live, builds, worker, run>>

\* SHA-256 of the files in the order of their paths, taken to be one to one.
Fingerprint(code) == {<<path, code[path]>> : path \in DOMAIN code}

\* app-<room>-<hash>.
WorkerId_ByHash(room, code) == <<Fingerprint(code)>>
WorkerId(room, code) == <<room, Fingerprint(code)>>

\* What is bundled besides the files is the entry to the app, whose path is that of
\* the room's template: it is the same in all of them, and no room changes its
\* template.  So a bundle is the files.
Bundle(code) == code

\* The broker of a worker is that of the room it was loaded for.
Worker(room, code) == [room |-> room, code |-> code]

\* A table with the entry of one key set.
WithEntry(table, hash, build) ==
  [h \in DOMAIN table \cup {hash} |-> IF h = hash THEN build ELSE table[h]]

-----------------------------------------------------------------------------
(* AppHost.                                                                *)

\* A save that builds: the build is stored and the version goes live.
Promote(room, code) ==
  /\ live' = [live EXCEPT ![room] = code]
  /\ builds' = [builds EXCEPT ![room] = WithEntry(@, Fingerprint(code), Bundle(code))]
  /\ UNCHANGED <<worker, run>>

\* A rollback: whatever was stored for the version may be gone.
Rollback(room, code) ==
  /\ live' = [live EXCEPT ![room] = code]
  /\ UNCHANGED <<builds, worker, run>>

PruneBuilds(room) ==
  /\ \E hash \in DOMAIN builds[room] : builds' = [builds EXCEPT ![room] = Restrict(@, DOMAIN @ \ {hash})]
  /\ UNCHANGED <<live, worker, run>>

-----------------------------------------------------------------------------
(* runner.ts.                                                              *)

Steps(r, record) ==
  /\ run' = [run EXCEPT ![r] = record]
  /\ UNCHANGED <<live, builds>>

\* The caller reads the live files, by getRunManifest if it is not in AppHost.
Request(r, room) ==
  /\ run[r].at = "idle"
  /\ Steps(r, [at |-> "get", room |-> room, code |-> live[room], worker |-> None])
  /\ UNCHANGED worker

\* A worker that is warm is used as it is.
GetWarm(r) ==
  LET id == WorkerId(run[r].room, run[r].code) IN
  /\ run[r].at = "get"
  /\ id \in DOMAIN worker
  /\ Steps(r, [run[r] EXCEPT !.at = "running", !.worker = worker[id]])
  /\ UNCHANGED worker

\* The factory of a cold one asks AppHost for the build, and bundles the files
\* when none is stored, any more or yet; that fails for code that does not build.
GetCold(r) ==
  /\ run[r].at = "get"
  /\ WorkerId(run[r].room, run[r].code) \notin DOMAIN worker
  /\ Steps(r, [run[r] EXCEPT !.at = "load"])
  /\ UNCHANGED worker

Load(r) ==
  LET room == run[r].room
      code == run[r].code
      hash == Fingerprint(code)
      built == IF hash \in DOMAIN builds[room] THEN builds[room][hash] ELSE Bundle(code)
      loaded == Worker(room, built)
  IN
  /\ run[r].at = "load"
  /\ worker' = WithEntry(worker, WorkerId(room, code), loaded)
  /\ Steps(r, [run[r] EXCEPT !.at = "running", !.worker = loaded])

\* The bundler or the call of AppHost throws, the app does, or it answers.
Ends(r) ==
  /\ run[r].at \in {"load", "running"}
  /\ Steps(r, [run[r] EXCEPT !.at = "ended"])
  /\ UNCHANGED worker

\* The Worker Loader may drop a worker at any time.
Evict(id) ==
  /\ worker' = Restrict(worker, DOMAIN worker \ {id})
  /\ UNCHANGED <<live, builds, run>>

-----------------------------------------------------------------------------

Init ==
  /\ live \in [Rooms -> Code]
  /\ builds = [room \in Rooms |-> << >>]
  /\ worker = << >>
  /\ run = [r \in Runs |-> [at |-> "idle"]]

Next ==
  \/ \E room \in Rooms :
       \/ \E code \in Code : Promote(room, code) \/ Rollback(room, code)
       \/ PruneBuilds(room)
  \/ \E r \in Runs :
       \/ \E room \in Rooms : Request(r, room)
       \/ GetWarm(r) \/ GetCold(r) \/ Load(r) \/ Ends(r)
  \/ \E id \in DOMAIN worker : Evict(id)

\* Runs alone; a run of TLC of them is part of SandboxedApp.
Spec == Init /\ [][Next]_vars

-----------------------------------------------------------------------------
(* Properties.                                                             *)

\* Whatever is promoted, rolled back, pruned, evicted or loaded by others between
\* its steps, a run executes the files it was given, with the broker of its own
\* room (getWorker, resolvePrebuilt).
RunsWhatItWasGiven ==
  \A r \in Runs : run[r].at = "running" =>
    run[r].worker.code = run[r].code /\ run[r].worker.room = run[r].room
=============================================================================
