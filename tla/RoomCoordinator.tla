-------------------------- MODULE RoomCoordinator --------------------------
(***************************************************************************)
(* The realtime engine of one room: RoomCoordinator of                     *)
(* src/src/realtime/coordinator.ts and the WebSocket handlers of AppHost   *)
(* that feed it.                                                           *)
(*                                                                         *)
(* #serialize chains the handlers of connections, messages and closes, so  *)
(* at most one of them runs; the others wait in queue, in order of arrival.*)
(* A running handler is suspended at the sandbox calls it awaits, during   *)
(* which connections come and go, frames arrive and other code promotes    *)
(* versions.  An action below is the code of a handler between two such    *)
(* awaits.  The queue and the sockets live in memory; room is the          *)
(* persistent __room__ scope.                                              *)
(*                                                                         *)
(* The app is sandboxed and arbitrary.  What the coordinator can tell of   *)
(* its state is its shape and which actions went into it, in what order.   *)
(* As elsewhere, X_Y is a faulty variant of X that no action uses.         *)
(***************************************************************************)
EXTENDS Integers, FiniteSets, Sequences, SequencesExt

CONSTANTS
  Conns,        \* connection slots; a slot is reused once a close is handled
  Token,        \* Token[c]: the player token in the URL of the connection
  Spectators,   \* the connections opened with ?spectate=1
  Moves,        \* the actions clients send, each sent once
  Versions,     \* the app versions that can be live
  Shape,        \* Shape[v]: the shape of state that v's code works on
  SeatNames,    \* SeatNames[v]: v's `seats` export
  HasView,      \* the versions that export `view`
  Migrates,     \* the versions whose `migrate` brings any state to their shape
  None,
  \* Bounds and assumptions on the environment:
  MaxQueue,     \* handlers in the chain
  PromoteAt,    \* the points of a handler during which a promote may happen
  FaultsAt,     \* the sandbox calls that may throw
  Rejects,      \* the reducer may fail, or be missing
  Crashes       \* the object may restart

Players == {Token[c] : c \in Conns}
Seats == UNION {ToSet(SeatNames[v]) : v \in Versions}
Shapes == {Shape[v] : v \in Versions}

ASSUME RoomAssumption ==
  /\ Versions \subseteq Nat \ {0}
  /\ Spectators \subseteq Conns
  /\ DOMAIN Token = Conns
  /\ DOMAIN Shape = Versions
  /\ SeatNames \in [Versions -> Seq(Seats)]
  /\ None \notin Players \cup Seats \cup Moves \cup Shapes
  /\ MaxQueue \in Nat
  /\ Rejects \in BOOLEAN
  /\ Crashes \in BOOLEAN

VARIABLES
  active,       \* state.activeVersion of the host
  room,         \* what is stored: state, stateVersion, seatNames, seats
  queue,        \* the handlers in #chain, the oldest first
  link,         \* of each slot: "closed", "open", or "joined" once setState ran
  seatOf,       \* connection.state.seat
  seen,         \* the last state frame the client got
  unsent        \* actions not sent yet

vars == <<active, room, queue, link, seatOf, seen, unsent>>
clients == <<link, seatOf, seen>>

-----------------------------------------------------------------------------
(* The stored room, the handlers and the frames.                           *)

AppState(shape, log) == [shape |-> shape, log |-> log]
NoState == AppState(None, << >>)

EmptyRoom == [state |-> NoState, stateVersion |-> 0, seatNames |-> None,
              seats |-> [s \in Seats |-> None]]

\* live: the version ensureFreshState read; code: the version of the sandbox
\* call awaited; state, players, to: what the handler goes on with after it.
Handler(kind, c, move, seat) ==
  [kind |-> kind, conn |-> c, move |-> move, seat |-> seat, pc |-> "queued",
   live |-> 0, code |-> 0, state |-> NoState, players |-> {}, to |-> {}]

Frame(s, players) == [state |-> s, players |-> players]
NoFrame == Frame(NoState, {})

\* roomConnections(): a connection is left out once it is tagged a spectator.
Connected == {c \in Conns \ Spectators : link[c] # "closed"}
Joined == {c \in Conns \ Spectators : link[c] = "joined"}

Pool(r) == IF r.seatNames = None THEN << >> ELSE r.seatNames

IsOnline(player, joined) == \E c \in joined : Token[c] = player

\* #players(): the seats of the pool whose holder is connected.
Presence(r, joined) ==
  {s \in ToSet(Pool(r)) : r.seats[s] # None /\ IsOnline(r.seats[s], joined)}

AssignSeat_TakesAny(r, player, joined) ==
  IF Pool(r) = << >> THEN None ELSE Pool(r)[1]

\* #assignSeat: the player's own seat, else the first free one, else the first
\* whose holder is gone, else none.
AssignSeat(r, player, joined) ==
  LET First(Test(_)) == SelectInSeq(Pool(r), Test)
      choices == <<First(LAMBDA s : r.seats[s] = player),
                   First(LAMBDA s : r.seats[s] = None),
                   First(LAMBDA s : ~IsOnline(r.seats[s], joined))>>
      first == SelectInSeq(choices, LAMBDA i : i # 0)
  IN IF first = 0 THEN None ELSE Pool(r)[choices[first]]

-----------------------------------------------------------------------------
(* The chain.                                                              *)

Turn_Unchained(i) == i \in DOMAIN queue

\* Only the oldest handler runs.
Turn(i) == i \in DOMAIN queue /\ i = 1

At(i, pc) == Turn(i) /\ queue[i].pc = pc

Enqueue(handler) == queue' = Append(queue, handler)
Done(i) == queue' = RemoveAt(queue, i)

\* Handler h goes on at i with a sandbox call of the live code on state s.
Call(i, h, pc, s) ==
  queue' = ReplaceAt(queue, i, [h EXCEPT !.pc = pc, !.code = active, !.state = s])

\* Send a frame to the connections of `to` that are still open.
Deliver(to, frame) ==
  seen' = [c \in Conns |-> IF c \in to /\ link[c] # "closed" THEN frame ELSE seen[c]]

\* #broadcastState up to the await of project; with no player connected the
\* frame goes to every connection at once.
BroadcastState(i, h, r, s, joined) ==
  IF Connected # {}
  THEN /\ queue' = ReplaceAt(queue, i,
             [h EXCEPT !.pc = "project", !.code = active, !.state = s,
                       !.players = Presence(r, joined), !.to = Connected])
       /\ UNCHANGED seen
  ELSE /\ Done(i)
       /\ Deliver(Conns, Frame(s, Presence(r, joined)))

\* onConnect once the state is fresh: seat the player, welcome, broadcast.
Join(i, h, r) ==
  \E seat \in Seats \cup {None} :
    LET seated == IF seat = None THEN r ELSE [r EXCEPT !.seats[seat] = Token[h.conn]]
        here == {h.conn} \cap Connected
    IN /\ seat = AssignSeat(r, Token[h.conn], Joined)
       /\ room' = seated
       /\ link' = [c \in Conns |-> IF c \in here THEN "joined" ELSE link[c]]
       /\ seatOf' = [c \in Conns |-> IF c \in here THEN seat ELSE seatOf[c]]
       /\ BroadcastState(i, h, seated, r.state, Joined \cup here)

\* What follows ensureFreshState, with r stored: the body of the handler.
Proceed(i, h, r) ==
  \/ /\ h.kind = "connect"
     /\ Join(i, h, r)
  \/ /\ h.kind = "message"
     /\ room' = r
     /\ Call(i, h, "reduce", r.state)
     /\ UNCHANGED clients

\* ensureFreshState once the seat pool is loaded, with r stored.
CheckState(i, h, r) ==
  \/ /\ r.state # NoState
     /\ r.stateVersion = h.live
     /\ Proceed(i, h, r)
  \/ /\ \/ r.state = NoState
        \/ r.stateVersion # h.live
     /\ Call(i, h, IF r.state = NoState THEN "seed" ELSE "probe", r.state)
     /\ room' = r
     /\ UNCHANGED clients

Stamped(s, version) == [room EXCEPT !.state = s, !.stateVersion = version]

-----------------------------------------------------------------------------
(* ensureFreshState, awaited by onConnect and onMessage.                   *)

EnsureFreshState(i) ==
  LET h == [queue[i] EXCEPT !.live = active] IN
  /\ At(i, "queued")
  /\ h.kind # "close"
  /\ IF room.stateVersion # active \/ room.seatNames = None
     THEN /\ Call(i, h, "seats", NoState)
          /\ UNCHANGED <<room, clients>>
     ELSE CheckState(i, h, room)
  /\ UNCHANGED <<active, unsent>>

SeatsLoaded(i) ==
  /\ At(i, "seats")
  /\ CheckState(i, queue[i], [room EXCEPT !.seatNames = SeatNames[queue[i].code]])
  /\ UNCHANGED <<active, unsent>>

Seeded_EndsHandler(i, pc, seats) ==
  /\ At(i, pc)
  /\ room' = [Stamped(AppState(Shape[queue[i].code], << >>), queue[i].live)
                EXCEPT !.seats = seats]
  /\ Done(i)
  /\ UNCHANGED <<active, clients, unsent>>

\* First-ever init; a reset also releases every seat.
Seeded(i, pc, seats) ==
  /\ At(i, pc)
  /\ Proceed(i, queue[i],
             [Stamped(AppState(Shape[queue[i].code], << >>), queue[i].live)
                EXCEPT !.seats = seats])
  /\ UNCHANGED <<active, unsent>>

SeedInitialState(i) == Seeded(i, "seed", room.seats)
ResetState(i) == Seeded(i, "reset", EmptyRoom.seats)

Compatible_Always(h) == TRUE

Compatible(h) == h.state.shape = Shape[h.code]

\* KEEP, from the first probe or from that of the migrated state.
KeepState(i) ==
  LET h == queue[i] IN
  /\ At(i, "probe") \/ At(i, "reprobe")
  /\ Compatible(h)
  /\ Proceed(i, h, Stamped(h.state, h.live))
  /\ UNCHANGED <<active, unsent>>

\* The old state does not fit: try migrate.
TryMigrate(i) ==
  /\ At(i, "probe")
  /\ ~Compatible(queue[i])
  /\ Call(i, queue[i], "migrate", queue[i].state)
  /\ UNCHANGED <<active, room, clients, unsent>>

Migrated(i) ==
  LET h == queue[i] IN
  /\ At(i, "migrate")
  /\ h.code \in Migrates
  /\ Call(i, h, "reprobe", AppState(Shape[h.code], h.state.log))
  /\ UNCHANGED <<active, room, clients, unsent>>

\* No migrate export, or its result does not fit the code now live.
GiveUp(i) ==
  LET h == queue[i] IN
  /\ \/ At(i, "migrate") /\ h.code \notin Migrates
     \/ At(i, "reprobe") /\ ~Compatible(h)
  /\ Call(i, h, "reset", NoState)
  /\ UNCHANGED <<active, room, clients, unsent>>

-----------------------------------------------------------------------------
(* onMessage after ensureFreshState, onClose, the end of broadcastState.   *)

\* The reducer accepted the action, or returned the state as it was; whether it
\* takes actions of a sender without a seat is up to the app.  The version
\* stamped is the one live now.
Reduced(i) ==
  LET h == queue[i]
      next == [h.state EXCEPT !.log = Append(@, h.move)]
  IN
  /\ At(i, "reduce")
  /\ \E s \in {h.state, next} :
       /\ room' = Stamped(s, active)
       /\ BroadcastState(i, h, room, s, Joined)
  /\ UNCHANGED <<active, link, seatOf, unsent>>

\* No reducer, or it reported a failure: nothing is written or sent.
Rejected(i) ==
  /\ Rejects
  /\ At(i, "reduce")
  /\ Done(i)
  /\ UNCHANGED <<active, room, clients, unsent>>

OnClose_SkipsRefresh(i) ==
  /\ At(i, "queued")
  /\ queue[i].kind = "close"
  /\ Done(i)
  /\ UNCHANGED <<active, room, clients, unsent>>

\* A close leaves the seat bound to its token and refreshes presence.
OnClose(i) ==
  /\ At(i, "queued")
  /\ queue[i].kind = "close"
  /\ BroadcastState(i, queue[i], room, room.state, Joined)
  /\ UNCHANGED <<active, room, link, seatOf, unsent>>

\* With a view each captured connection gets its own frame; without one the
\* frame is broadcast to every connection of the object.
Projected(i) ==
  LET h == queue[i] IN
  /\ At(i, "project")
  /\ Deliver(IF h.code \in HasView THEN h.to ELSE Conns, Frame(h.state, h.players))
  /\ Done(i)
  /\ UNCHANGED <<active, room, link, seatOf, unsent>>

SandboxThrows_BreaksChain(i) ==
  /\ Turn(i)
  /\ queue[i].pc \in FaultsAt
  /\ queue' = [queue EXCEPT ![i].pc = "thrown"]
  /\ UNCHANGED <<active, room, clients, unsent>>

\* A sandbox call fails: the handler ends there and the chain goes on.
SandboxThrows(i) ==
  /\ Turn(i)
  /\ queue[i].pc \in FaultsAt
  /\ Done(i)
  /\ UNCHANGED <<active, room, clients, unsent>>

-----------------------------------------------------------------------------
(* Clients, the version store, restarts.                                   *)

Forgotten(c) == \A i \in DOMAIN queue : queue[i].conn # c /\ c \notin queue[i].to

\* A spectator is tagged at once and never reaches the coordinator.
Connect(c) ==
  /\ link[c] = "closed"
  /\ Forgotten(c)
  /\ \/ /\ c \in Spectators
        /\ link' = [link EXCEPT ![c] = "joined"]
        /\ UNCHANGED queue
     \/ /\ c \notin Spectators
        /\ Len(queue) < MaxQueue
        /\ link' = [link EXCEPT ![c] = "open"]
        /\ Enqueue(Handler("connect", c, None, None))
  /\ UNCHANGED <<active, room, seatOf, seen, unsent>>

\* The seat the action is for is read when the frame arrives.
Send(c, move) ==
  /\ c \in Connected
  /\ move \in unsent
  /\ Len(queue) < MaxQueue
  /\ unsent' = unsent \ {move}
  /\ Enqueue(Handler("message", c, move, seatOf[c]))
  /\ UNCHANGED <<active, room, clients>>

Close(c) ==
  /\ link[c] # "closed"
  /\ link' = [link EXCEPT ![c] = "closed"]
  /\ seatOf' = [seatOf EXCEPT ![c] = None]
  /\ seen' = [seen EXCEPT ![c] = NoFrame]
  /\ \/ /\ c \in Spectators
        /\ UNCHANGED queue
     \/ /\ c \notin Spectators
        /\ Len(queue) < MaxQueue
        /\ Enqueue(Handler("close", c, None, None))
  /\ UNCHANGED <<active, room, unsent>>

\* setFiles or rollback moves the live pointer.
Promote(v) ==
  /\ v # active
  /\ \A i \in DOMAIN queue : queue[i].pc \in PromoteAt
  /\ active' = v
  /\ UNCHANGED <<room, queue, clients, unsent>>

Restart ==
  /\ Crashes
  /\ queue' = << >>
  /\ link' = [c \in Conns |-> "closed"]
  /\ seatOf' = [c \in Conns |-> None]
  /\ seen' = [c \in Conns |-> NoFrame]
  /\ UNCHANGED <<active, room, unsent>>

-----------------------------------------------------------------------------

Init ==
  /\ active \in Versions
  /\ room = EmptyRoom
  /\ queue = << >>
  /\ link = [c \in Conns |-> "closed"]
  /\ seatOf = [c \in Conns |-> None]
  /\ seen = [c \in Conns |-> NoFrame]
  /\ unsent = Moves

\* The handler at i runs up to its next await.
Run(i) ==
  \/ EnsureFreshState(i)
  \/ SeatsLoaded(i)
  \/ SeedInitialState(i)
  \/ ResetState(i)
  \/ KeepState(i)
  \/ TryMigrate(i)
  \/ Migrated(i)
  \/ GiveUp(i)
  \/ Reduced(i)
  \/ Rejected(i)
  \/ OnClose(i)
  \/ Projected(i)
  \/ SandboxThrows(i)

Next ==
  \/ \E i \in 1 .. MaxQueue : Run(i)
  \/ \E c \in Conns :
       \/ Connect(c)
       \/ \E move \in Moves : Send(c, move)
       \/ Close(c)
  \/ \E v \in Versions : Promote(v)
  \/ Restart

\* Sandbox calls return or throw (they have a CPU limit) and the chain is run;
\* no client is obliged to do anything.
Fairness == WF_vars(Run(1))

Spec == Init /\ [][Next]_vars

FairSpec == Spec /\ Fairness

-----------------------------------------------------------------------------
(* Properties.                                                             *)

HandlerRecord ==
  [kind : {"connect", "message", "close"}, conn : Conns,
   move : Moves \cup {None}, seat : Seats \cup {None},
   pc : {"queued", "seats", "seed", "probe", "migrate", "reprobe", "reset",
         "reduce", "project"},
   live : Nat, code : Nat, state : [shape : Shapes \cup {None}, log : Seq(Moves)],
   players : SUBSET Seats, to : SUBSET Conns]

\* Types of all variables (the __room__ scope, the chain, the sockets).
TypeOK ==
  /\ active \in Versions
  /\ room.state \in [shape : Shapes \cup {None}, log : Seq(Moves)]
  /\ room.stateVersion \in Versions \cup {0}
  /\ room.seatNames \in Seq(Seats) \cup {None}
  /\ room.seats \in [Seats -> Players \cup {None}]
  /\ DOMAIN room = {"state", "stateVersion", "seatNames", "seats"}
  /\ queue \in Seq(HandlerRecord)
  /\ link \in [Conns -> {"closed", "open", "joined"}]
  /\ seatOf \in [Conns -> Seats \cup {None}]
  /\ seen \in [Conns -> [state : [shape : Shapes \cup {None}, log : Seq(Moves)],
                         players : SUBSET Seats]]
  /\ unsent \subseteq Moves

\* No seat is played from the connections of two different players, whatever
\* the order of reconnects, closes and reclaims (#assignSeat).
OnePlayerPerSeat ==
  \A c, d \in Conns :
    seatOf[c] # None /\ seatOf[c] = seatOf[d] => Token[c] = Token[d]

\* A connected player holds the seat it was told: a live connection's seat is
\* bound to its own token, so presence and appSendToSeat agree.
SeatsAreBound ==
  \A c \in Conns : seatOf[c] # None => room.seats[seatOf[c]] = Token[c]

\* Promoted past: the code that handler h awaited is not that of the version it
\* read, or not that of the version its reducer's result is stamped with.
Overtaken(h) ==
  \/ h.code # h.live
  \/ h.pc = "reduce" /\ h.live # active

ShapeFits(r) == r.stateVersion # 0 => r.state.shape = Shape[r.stateVersion]

\* Stamps are put on what they say: a handler that was not itself promoted past
\* leaves a state of the stamped version's shape, and a new stamp comes with that
\* version's seat pool, whatever faults, restarts and overtaken handlers came
\* before it (KEEP / MIGRATE / RESET of ensureFreshState, onMessage).
StampsFit ==
  [][room' # room =>
       \/ Overtaken(queue[1])
       \/ /\ ShapeFits(room) => ShapeFits(room')
          /\ room'.stateVersion # room.stateVersion =>
               room'.seatNames = SeatNames[room'.stateVersion]]_vars

\* State stored as the live version's fits the live code, seat pool included:
\* no state skips the KEEP / MIGRATE / RESET decision of ensureFreshState.
RoomMatchesLiveCode ==
  room.stateVersion = active =>
    /\ room.state.shape = Shape[active]
    /\ room.seatNames = SeatNames[active]

\* When the chain is idle every player has been sent the current state and
\* presence: no broadcast was skipped, overtaken or sent before the write.
QuietClientsSeeState ==
  queue = << >> =>
    \A c \in Joined : seen[c] = Frame(room.state, Presence(room, Joined))

\* Every handler that joins the chain has its turn and ends, even if sandbox
\* calls throw in the handlers before it (#serialize).
EveryHandlerEnds ==
  \A c \in Conns :
    (\E i \in DOMAIN queue : queue[i].conn = c)
      ~> (\A i \in DOMAIN queue : queue[i].conn # c)

\* Every player that connects is seated and welcomed, or leaves, unless the
\* sandbox fails in the handler of its own connect (onConnect).
EveryJoinIsWelcomed == \A c \in Conns : link[c] = "open" ~> link[c] # "open"

\* The coordinator implements the atomic room: actions in the chain that are
\* not yet reduced are pending, the game is the stored state.
Undecided ==
  {queue[i].move : i \in {j \in DOMAIN queue : queue[j].kind = "message"
                                             /\ queue[j].pc # "project"}}

Atomic == INSTANCE AtomicRoom WITH
  game <- room.state.log,
  version <- room.stateVersion,
  pending <- Undecided,
  submitted <- Moves \ unsent

\* Handlers that await sandbox calls lose no update, apply nothing twice and
\* reset nothing on their own: the engine refines the atomic room.
ImplementsAtomicRoom == Atomic!Spec

=============================================================================
