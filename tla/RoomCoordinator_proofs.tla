----------------------- MODULE RoomCoordinator_proofs -----------------------
(***************************************************************************)
(* Safety of the realtime engine of one room for any number of             *)
(* connections, players, seats, actions and code versions, any queue       *)
(* length, and any interleaving of handlers, promotes and restarts.        *)
(***************************************************************************)
EXTENDS RoomCoordinator, SequenceTheorems, FiniteSetTheorems, WellFoundedInduction, TLAPS

State == [shape : Shapes \cup {None}, log : Seq(Moves)]

Room == [state : State, stateVersion : Versions \cup {0},
         seatNames : Seq(Seats) \cup {None}, seats : [Seats -> Players \cup {None}]]

ClientTypes ==
  /\ link \in [Conns -> {"closed", "open", "joined"}]
  /\ seatOf \in [Conns -> Seats \cup {None}]
  /\ seen \in [Conns -> [state : State, players : SUBSET Seats]]

\* A room has no state exactly until its first seed, which stamps a version.
Fresh(r) ==
  /\ r.stateVersion = 0 <=> r.state = NoState
  /\ r.state = NoState \/ r.state.shape \in Shapes

\* Where a handler is in ensureFreshState or past it, and what it has read so
\* far, agree with the stored room r: nobody else writes the room meanwhile.
Agrees(h, r) ==
  /\ h.pc \notin {"queued", "project"} => h.live \in Versions
  /\ h.pc # "queued" => h.code \in Versions
  /\ h.pc = "seed" => r.state = NoState
  /\ h.pc \in {"probe", "migrate"} => h.state = r.state
  /\ h.pc = "reprobe" => h.state.log = r.state.log
  /\ h.pc \in {"probe", "migrate", "reprobe"} => h.state.shape \in Shapes
  /\ h.pc \in {"probe", "migrate", "reprobe", "reset"} => r.stateVersion # h.live
  /\ h.pc = "reduce" => h.kind = "message" /\ h.state = r.state /\ r.state # NoState

\* Only the head of the chain runs.
OneRuns == \A i \in DOMAIN queue : i # 1 => queue[i].pc = "queued"

\* Each action was sent once and is in the chain at most once.
IsMessage(i) == i \in DOMAIN queue /\ queue[i].kind = "message"

SentOnce ==
  /\ \A i \in DOMAIN queue : IsMessage(i) => queue[i].move \in Moves \ unsent
  /\ \A i, j \in DOMAIN queue :
       IsMessage(i) /\ IsMessage(j) /\ queue[i].move = queue[j].move => i = j

\* The inductive invariant.
IInv ==
  /\ active \in Versions
  /\ room \in Room
  /\ queue \in Seq(HandlerRecord)
  /\ ClientTypes
  /\ unsent \subseteq Moves
  /\ Fresh(room)
  /\ OneRuns
  /\ SentOnce
  /\ queue # << >> => Agrees(queue[1], room)

-----------------------------------------------------------------------------
(* Lemmas about the chain.                                                 *)

\* What the end of the handler at the head leaves of the chain.
LEMMA RemoveHead ==
  ASSUME NEW S, NEW q \in Seq(S), q # << >>
  PROVE  /\ RemoveAt(q, 1) \in Seq(S)
         /\ DOMAIN RemoveAt(q, 1) = 1 .. Len(q) - 1
         /\ \A i \in DOMAIN RemoveAt(q, 1) : RemoveAt(q, 1)[i] = q[i + 1]
<1>1. Len(q) \in Nat /\ Len(q) >= 1
  BY EmptySeq, LenProperties
<1>2. SubSeq(q, 1, 0) = << >>
  BY SubSeqEmpty
<1>3. \A n \in 2 .. Len(q) : q[n] \in S
  BY <1>1, ElementOfSeq
<1>4. /\ SubSeq(q, 2, Len(q)) \in Seq(S)
      /\ Len(SubSeq(q, 2, Len(q))) = Len(q) - 1
      /\ \A i \in 1 .. Len(q) - 1 : SubSeq(q, 2, Len(q))[i] = q[i + 1]
  <2>1. /\ SubSeq(q, 2, Len(q)) \in Seq(S)
        /\ Len(SubSeq(q, 2, Len(q))) = IF 2 <= Len(q) THEN Len(q) - 2 + 1 ELSE 0
        /\ \A i \in 1 .. Len(q) - 2 + 1 : SubSeq(q, 2, Len(q))[i] = q[2 + i - 1]
    BY <1>1, <1>3, SubSeqProperties
  <2>2. \A i \in 1 .. Len(q) - 1 : 2 + i - 1 = i + 1
    OBVIOUS
  <2>3. Len(q) - 2 + 1 = Len(q) - 1
    BY <1>1
  <2> QED BY <1>1, <2>1, <2>2, <2>3
<1>5. RemoveAt(q, 1) = SubSeq(q, 2, Len(q))
  BY <1>2, <1>4, ConcatEmptySeq DEF RemoveAt
<1> QED BY <1>4, <1>5, LenProperties

\* What a new stage of the handler at the head leaves of the chain.
LEMMA ReplaceHead ==
  ASSUME NEW S, NEW q \in Seq(S), q # << >>, NEW h \in S
  PROVE  /\ ReplaceAt(q, 1, h) \in Seq(S)
         /\ DOMAIN ReplaceAt(q, 1, h) = DOMAIN q
         /\ ReplaceAt(q, 1, h)[1] = h
         /\ \A i \in DOMAIN q : i # 1 => ReplaceAt(q, 1, h)[i] = q[i]
         /\ 1 \in DOMAIN q
<1>1. Len(q) \in Nat /\ Len(q) >= 1 /\ DOMAIN q = 1 .. Len(q)
  BY EmptySeq, LenProperties
<1>2. 1 \in 1 .. Len(q)
  BY <1>1
<1> QED BY <1>1, <1>2, ExceptSeq, LenProperties DEF ReplaceAt

\* What a new handler leaves of the chain.
LEMMA AddLast ==
  ASSUME NEW S, NEW q \in Seq(S), NEW h \in S
  PROVE  /\ Append(q, h) \in Seq(S)
         /\ DOMAIN Append(q, h) = DOMAIN q \cup {Len(q) + 1}
         /\ Append(q, h)[Len(q) + 1] = h
         /\ \A i \in DOMAIN q : Append(q, h)[i] = q[i]
         /\ Len(q) + 1 \notin DOMAIN q
         /\ Append(q, h) # << >>
         /\ q = << >> => Append(q, h)[1] = h
         /\ q # << >> => 1 \in DOMAIN q
<1>1. Len(q) \in Nat /\ DOMAIN q = 1 .. Len(q)
  BY LenProperties
<1>2. /\ Append(q, h) \in Seq(S) /\ Len(Append(q, h)) = Len(q) + 1
      /\ \A i \in 1 .. Len(q) : Append(q, h)[i] = q[i]
      /\ Append(q, h)[Len(q) + 1] = h
  BY AppendProperties
<1>3. DOMAIN Append(q, h) = 1 .. Len(q) + 1
  BY <1>2, LenProperties
<1>4. q = << >> => Len(q) = 0
  BY EmptySeq
<1>5. q # << >> => 1 \in DOMAIN q
  BY <1>1, EmptySeq
<1>6. Append(q, h) # << >> /\ (q = << >> => Append(q, h)[1] = h)
  BY <1>1, <1>2, <1>4, EmptySeq
<1>7. DOMAIN Append(q, h) = DOMAIN q \cup {Len(q) + 1} /\ Len(q) + 1 \notin DOMAIN q
  BY <1>1, <1>3
<1>8. \A i \in DOMAIN q : Append(q, h)[i] = q[i]
  BY <1>1, <1>2
<1> QED BY <1>2, <1>5, <1>6, <1>7, <1>8

\* The head of a chain that is not empty.
LEMMA HeadOfChain ==
  ASSUME IInv, 1 \in DOMAIN queue \/ queue # << >>
  PROVE  /\ queue # << >> /\ 1 \in DOMAIN queue
         /\ queue[1] \in HandlerRecord
         /\ Agrees(queue[1], room)
<1>1. queue \in Seq(HandlerRecord)
  BY DEF IInv
<1>2. Len(queue) \in Nat /\ DOMAIN queue = 1 .. Len(queue)
  BY <1>1, LenProperties
<1>3. queue # << >> /\ 1 \in DOMAIN queue
  BY <1>1, <1>2, EmptySeq
<1>4. queue[1] \in HandlerRecord
  BY <1>1, <1>2, <1>3, ElementOfSeq
<1> QED BY <1>3, <1>4 DEF IInv

-----------------------------------------------------------------------------
(* The steps of a handler, as the chain and the atomic room see them.      *)

\* The handler at the head goes on as h.
GoesOnAs(h) ==
  /\ h \in HandlerRecord
  /\ h.kind = queue[1].kind /\ h.move = queue[1].move
  /\ Agrees(h, room')
  /\ queue' = ReplaceAt(queue, 1, h)

\* It awaits another sandbox call and is not done with its action.
GoesOn ==
  /\ queue[1].pc # "project"
  /\ \E h : GoesOnAs(h) /\ h.pc \notin {"queued", "project"}

\* It ends, or has only its broadcast left.
Finishes ==
  \/ queue' = RemoveAt(queue, 1)
  \/ \E h : GoesOnAs(h) /\ h.pc = "project"

ChainOK ==
  /\ queue \in Seq(HandlerRecord)
  /\ OneRuns
  /\ SentOnce
  /\ queue # << >> => Agrees(queue[1], room)

LEMMA QueuedAgrees ==
  ASSUME NEW h, NEW r, h.pc = "queued"
  PROVE  Agrees(h, r)
BY DEF Agrees

LEMMA ChainShrinks ==
  ASSUME IInv, queue # << >>, unsent' = unsent, queue' = RemoveAt(queue, 1)
  PROVE  ChainOK'
<1>1. queue \in Seq(HandlerRecord) /\ OneRuns /\ SentOnce
  BY DEF IInv
<1>2. /\ queue' \in Seq(HandlerRecord)
      /\ DOMAIN queue' = 1 .. Len(queue) - 1
      /\ \A i \in DOMAIN queue' : queue'[i] = queue[i + 1]
  BY <1>1, RemoveHead
<1>3. Len(queue) \in Nat /\ DOMAIN queue = 1 .. Len(queue)
  BY <1>1, LenProperties
<1>4. \A i \in DOMAIN queue' : /\ i \in Nat /\ i + 1 \in DOMAIN queue /\ i + 1 # 1
                               /\ queue'[i] = queue[i + 1]
  BY <1>2, <1>3
<1>5. \A i \in DOMAIN queue' : queue'[i].pc = "queued"
  BY <1>1, <1>4 DEF OneRuns
<1>6. OneRuns'
  BY <1>5 DEF OneRuns
<1>7. SentOnce'
  <2>1. \A i \in DOMAIN queue' : IsMessage(i)' => queue'[i].move \in Moves \ unsent
    BY <1>1, <1>4 DEF SentOnce, IsMessage
  <2>2. ASSUME NEW i \in DOMAIN queue', NEW j \in DOMAIN queue',
               IsMessage(i)', IsMessage(j)', queue'[i].move = queue'[j].move
        PROVE  i = j
    <3>1. i + 1 = j + 1
      BY <1>1, <1>4, <2>2 DEF SentOnce, IsMessage
    <3> QED BY <1>4, <3>1
  <2> QED BY <2>1, <2>2 DEF SentOnce
<1>8. queue' # << >> => Agrees(queue'[1], room')
  <2>1. queue' # << >> => 1 \in DOMAIN queue'
    BY <1>2, EmptySeq, LenProperties
  <2> QED BY <1>5, <2>1, QueuedAgrees
<1> QED BY <1>2, <1>6, <1>7, <1>8 DEF ChainOK

LEMMA ChainGoesOn ==
  ASSUME IInv, queue # << >>, unsent' = unsent, NEW h, GoesOnAs(h)
  PROVE  ChainOK'
<1>1. queue \in Seq(HandlerRecord) /\ OneRuns /\ SentOnce
  BY DEF IInv
<1>2. /\ queue' \in Seq(HandlerRecord) /\ DOMAIN queue' = DOMAIN queue
      /\ queue'[1] = h /\ 1 \in DOMAIN queue
      /\ \A i \in DOMAIN queue : i # 1 => queue'[i] = queue[i]
  BY <1>1, ReplaceHead DEF GoesOnAs
<1>3. OneRuns'
  BY <1>1, <1>2 DEF OneRuns
<1>4. \A i \in DOMAIN queue : /\ IsMessage(i)' <=> IsMessage(i)
                              /\ queue'[i].move = queue[i].move
  BY <1>2 DEF IsMessage, GoesOnAs
<1>5. SentOnce'
  BY <1>1, <1>2, <1>4 DEF SentOnce
<1>6. Agrees(queue'[1], room')
  BY <1>2 DEF GoesOnAs
<1> QED BY <1>2, <1>3, <1>5, <1>6 DEF ChainOK

LEMMA ChainGrows ==
  ASSUME IInv, NEW h \in HandlerRecord, h.pc = "queued",
         queue' = Append(queue, h), room' = room,
         IF h.kind = "message" THEN h.move \in unsent /\ unsent' = unsent \ {h.move}
         ELSE unsent' = unsent
  PROVE  ChainOK'
<1>1. queue \in Seq(HandlerRecord) /\ OneRuns /\ SentOnce /\ unsent \subseteq Moves
  BY DEF IInv
<1>2. PICK n \in {Len(queue) + 1} :
      /\ queue' \in Seq(HandlerRecord) /\ DOMAIN queue' = DOMAIN queue \cup {n}
      /\ queue'[n] = h /\ n \notin DOMAIN queue
      /\ \A i \in DOMAIN queue : queue'[i] = queue[i]
      /\ queue = << >> => queue'[1] = h
      /\ queue # << >> => 1 \in DOMAIN queue
  BY <1>1, AddLast
<1>3. OneRuns'
  BY <1>1, <1>2 DEF OneRuns
<1>4. \A i \in DOMAIN queue : (IsMessage(i)' <=> IsMessage(i)) /\ queue'[i] = queue[i]
  BY <1>2 DEF IsMessage
<1>5. \A i \in DOMAIN queue' : IsMessage(i)' => queue'[i].move \in Moves \ unsent'
  BY <1>1, <1>2, <1>4 DEF SentOnce, IsMessage
<1>6. ASSUME NEW i \in DOMAIN queue, IsMessage(i)', IsMessage(n)'
      PROVE  queue'[i].move # queue'[n].move
  BY <1>1, <1>2, <1>4, <1>6 DEF SentOnce, IsMessage
<1>7. SentOnce'
  BY <1>1, <1>2, <1>4, <1>5, <1>6 DEF SentOnce
<1>8. Agrees(queue'[1], room')
  BY <1>2, QueuedAgrees DEF IInv
<1> QED BY <1>2, <1>3, <1>7, <1>8 DEF ChainOK

-----------------------------------------------------------------------------
(* The handlers' steps.                                                    *)

\* The handler that read the live version.
LEMMA LiveRead ==
  ASSUME NEW h \in HandlerRecord, NEW v \in Nat, NEW g, g = [h EXCEPT !.live = v]
  PROVE  /\ g \in HandlerRecord
         /\ g.kind = h.kind /\ g.move = h.move /\ g.conn = h.conn /\ g.seat = h.seat
         /\ g.pc = h.pc /\ g.code = h.code /\ g.state = h.state
         /\ g.players = h.players /\ g.to = h.to /\ g.live = v
BY DEF HandlerRecord

LEMMA CallGoesOn ==
  ASSUME IInv, queue # << >>, queue[1].pc # "project",
         NEW h \in HandlerRecord, h.kind = queue[1].kind, h.move = queue[1].move,
         h.live \in Versions,
         NEW pc \in {"seats", "seed", "probe", "migrate", "reprobe", "reset", "reduce"},
         NEW s \in State,
         Call(1, h, pc, s),
         pc = "seed" => room'.state = NoState,
         pc \in {"probe", "migrate"} => s = room'.state,
         pc = "reprobe" => s.log = room'.state.log,
         pc \in {"probe", "migrate", "reprobe"} => s.shape \in Shapes,
         pc \in {"probe", "migrate", "reprobe", "reset"} => room'.stateVersion # h.live,
         pc = "reduce" => /\ h.kind = "message"
                          /\ s = room'.state /\ room'.state # NoState
  PROVE  GoesOn
<1>1. PICK g : /\ g = [h EXCEPT !.pc = pc, !.code = active, !.state = s]
               /\ queue' = ReplaceAt(queue, 1, g)
  BY DEF Call
<1>2. g = [kind |-> h.kind, conn |-> h.conn, move |-> h.move, seat |-> h.seat,
           pc |-> pc, live |-> h.live, code |-> active, state |-> s,
           players |-> h.players, to |-> h.to]
  BY <1>1 DEF HandlerRecord
<1>3. active \in Versions /\ active \in Nat
  BY RoomAssumption DEF IInv
<1>4. g \in HandlerRecord
  BY <1>2, <1>3 DEF HandlerRecord, State
<1>5. Agrees(g, room')
  BY <1>2, <1>3 DEF Agrees
<1>6. GoesOnAs(g) /\ g.pc \notin {"queued", "project"}
  BY <1>1, <1>2, <1>4, <1>5 DEF GoesOnAs
<1> QED BY <1>6 DEF GoesOn

LEMMA PoolType ==
  ASSUME NEW r \in Room
  PROVE  Pool(r) \in Seq(Seats)
<1>1. r.seatNames \in Seq(Seats) \cup {None}
  BY DEF Room
<1>2. << >> \in Seq(Seats)
  BY EmptySeq
<1> QED BY <1>1, <1>2 DEF Pool

LEMMA PresenceType ==
  ASSUME NEW r \in Room, NEW joined
  PROVE  Presence(r, joined) \subseteq Seats
<1>1. \A n \in DOMAIN Pool(r) : Pool(r)[n] \in Seats
  BY PoolType, LenProperties, ElementOfSeq
<1> QED BY <1>1 DEF Presence, ToSet

\* The end of a handler's work is a broadcast: the chain is left or the last
\* await, of project, is reached.
LEMMA BroadcastFinishes ==
  ASSUME IInv, queue # << >>,
         NEW h \in HandlerRecord, h.kind = queue[1].kind, h.move = queue[1].move,
         NEW r \in Room, NEW s \in State, NEW joined,
         BroadcastState(1, h, r, s, joined)
  PROVE  /\ Finishes
         /\ seen' \in [Conns -> [state : State, players : SUBSET Seats]]
<1>1. Presence(r, joined) \subseteq Seats
  BY PresenceType
<1>2. seen \in [Conns -> [state : State, players : SUBSET Seats]]
  BY DEF IInv, ClientTypes
<1>3. CASE Connected # {}
  <2>1. PICK g : /\ g = [h EXCEPT !.pc = "project", !.code = active, !.state = s,
                              !.players = Presence(r, joined), !.to = Connected]
                 /\ queue' = ReplaceAt(queue, 1, g) /\ seen' = seen
    BY <1>3 DEF BroadcastState
  <2>2. g = [kind |-> h.kind, conn |-> h.conn, move |-> h.move, seat |-> h.seat,
             pc |-> "project", live |-> h.live, code |-> active, state |-> s,
             players |-> Presence(r, joined), to |-> Connected]
    BY <2>1 DEF HandlerRecord
  <2>3. active \in Versions /\ active \in Nat
    BY RoomAssumption DEF IInv
  <2>4. Connected \subseteq Conns
    BY DEF Connected
  <2>5. g \in HandlerRecord
    BY <1>1, <2>2, <2>3, <2>4 DEF HandlerRecord, State
  <2>6. GoesOnAs(g) /\ g.pc = "project"
    BY <2>1, <2>2, <2>3, <2>5 DEF GoesOnAs, Agrees
  <2> QED BY <1>2, <2>1, <2>6 DEF Finishes
<1>4. CASE Connected = {}
  <2>1. /\ queue' = RemoveAt(queue, 1)
        /\ Deliver(Conns, Frame(s, Presence(r, joined)))
    BY <1>4 DEF BroadcastState, Done
  <2>2. Frame(s, Presence(r, joined)) \in [state : State, players : SUBSET Seats]
    BY <1>1 DEF Frame
  <2> QED BY <1>2, <2>1, <2>2 DEF Deliver, Finishes
<1> QED BY <1>3, <1>4

\* Stamping changes the state and its version only.
LEMMA StampIsTyped ==
  ASSUME room \in Room, NEW s \in State, NEW v \in Versions \cup {0},
         NEW t, t = Stamped(s, v)
  PROVE  /\ t \in Room
         /\ t.state = s /\ t.stateVersion = v
         /\ t.seatNames = room.seatNames /\ t.seats = room.seats
BY DEF Room, Stamped

\* onConnect: seated, welcomed, and the broadcast is under way.
LEMMA JoinFinishes ==
  ASSUME IInv, queue # << >>,
         NEW h \in HandlerRecord, h.kind = queue[1].kind, h.move = queue[1].move,
         NEW r \in Room, Join(1, h, r)
  PROVE  /\ room' \in Room
         /\ room'.state = r.state /\ room'.stateVersion = r.stateVersion
         /\ room'.seatNames = r.seatNames
         /\ ClientTypes'
         /\ Finishes
<1> DEFINE seated(seat) ==
             IF seat = None THEN r ELSE [r EXCEPT !.seats[seat] = Token[h.conn]]
           here == {h.conn} \cap Connected
<1>1. PICK seat \in Seats \cup {None} :
        /\ room' = seated(seat)
        /\ link' = [c \in Conns |-> IF c \in here THEN "joined" ELSE link[c]]
        /\ seatOf' = [c \in Conns |-> IF c \in here THEN seat ELSE seatOf[c]]
        /\ BroadcastState(1, h, seated(seat), r.state, Joined \cup here)
  BY DEF Join
<1>2. h.conn \in Conns /\ Token[h.conn] \in Players
  BY DEF HandlerRecord, Players
<1>3. /\ room' \in Room
      /\ room'.state = r.state /\ room'.stateVersion = r.stateVersion
      /\ room'.seatNames = r.seatNames
  <2>1. CASE seat = None
    BY <1>1, <2>1
  <2>2. CASE seat # None
    <3>1. seat \in Seats /\ room' = [r EXCEPT !.seats[seat] = Token[h.conn]]
      BY <1>1, <2>2
    <3>2. PICK t : t = [r EXCEPT !.seats[seat] = Token[h.conn]]
      OBVIOUS
    <3>3. t \in Room /\ t.state = r.state /\ t.stateVersion = r.stateVersion
          /\ t.seatNames = r.seatNames
      BY <1>2, <3>1, <3>2 DEF Room
    <3> QED BY <3>1, <3>2, <3>3
  <2> QED BY <2>1, <2>2
<1>4. r.state \in State
  BY DEF Room
<1>5. BroadcastState(1, h, room', r.state, Joined \cup here)
  BY <1>1
<1> HIDE DEF here
<1>6. Finishes /\ seen' \in [Conns -> [state : State, players : SUBSET Seats]]
  BY <1>3, <1>4, <1>5, BroadcastFinishes
<1>7. ClientTypes'
  BY <1>1, <1>6 DEF ClientTypes, IInv
<1> QED BY <1>3, <1>6, <1>7

\* The body of the handler, once the state is fresh.
LEMMA ProceedStep ==
  ASSUME IInv, queue # << >>, queue[1].pc # "project",
         NEW h \in HandlerRecord, h.kind = queue[1].kind, h.move = queue[1].move,
         h.live \in Versions,
         NEW r \in Room, r.state # NoState, Proceed(1, h, r)
  PROVE  /\ room' \in Room
         /\ room'.state = r.state /\ room'.stateVersion = r.stateVersion
         /\ room'.seatNames = r.seatNames
         /\ ClientTypes'
         /\ \/ queue[1].kind = "message" /\ GoesOn
            \/ queue[1].kind = "connect" /\ Finishes
<1>1. CASE h.kind = "connect"
  <2>1. Join(1, h, r)
    BY <1>1 DEF Proceed
  <2> QED BY <1>1, <2>1, JoinFinishes
<1>2. CASE h.kind = "message"
  <2>1. room' = r /\ Call(1, h, "reduce", r.state) /\ UNCHANGED clients
    BY <1>2 DEF Proceed
  <2>2. r.state \in State
    BY DEF Room
  <2>3. GoesOn
    BY <1>2, <2>1, <2>2, CallGoesOn
  <2>4. ClientTypes'
    BY <2>1 DEF ClientTypes, IInv, clients
  <2> QED BY <1>2, <2>1, <2>3, <2>4
<1>3. h.kind = "connect" \/ h.kind = "message"
  BY DEF Proceed
<1> QED BY <1>1, <1>2, <1>3

-----------------------------------------------------------------------------
(* What a step of the handler at the head does.                            *)

\* As the atomic room sees it: nothing, a change of code or a decision.
GameKept ==
  /\ room'.state.log = room.state.log
  /\ room'.stateVersion = room.stateVersion

CodeChanged ==
  /\ room'.stateVersion \in Versions \ {room.stateVersion}
  /\ room'.state.log \in {room.state.log, << >>}

HeadUndecided == queue[1].kind = "message" /\ queue[1].pc # "project"

Decided ==
  /\ room'.state.log \in {room.state.log, Append(room.state.log, queue[1].move)}
  /\ room'.stateVersion \in Versions \cup {room.stateVersion}

RunStep ==
  /\ queue # << >>
  /\ UNCHANGED <<active, unsent>>
  /\ room' \in Room
  /\ Fresh(room')
  /\ ClientTypes'
  /\ \/ GoesOn /\ (GameKept \/ CodeChanged)
     \/ Finishes /\ ~HeadUndecided /\ (GameKept \/ CodeChanged)
     \/ Finishes /\ HeadUndecided /\ Decided

\* ensureFreshState from the room's state on: r is the room as it was read, or
\* with the seat pool loaded.
LEMMA CheckStateStep ==
  ASSUME IInv, queue # << >>, queue[1].pc # "project",
         NEW h \in HandlerRecord, h.kind = queue[1].kind, h.move = queue[1].move,
         h.live \in Versions,
         NEW r \in Room, r.state = room.state, r.stateVersion = room.stateVersion,
         CheckState(1, h, r), UNCHANGED <<active, unsent>>
  PROVE  RunStep
<1>1. Fresh(room)
  BY DEF IInv
<1>2. CASE Proceed(1, h, r) /\ r.state # NoState
  <2>1. /\ room' \in Room
        /\ room'.state = r.state /\ room'.stateVersion = r.stateVersion
        /\ ClientTypes'
        /\ \/ queue[1].kind = "message" /\ GoesOn
           \/ queue[1].kind = "connect" /\ Finishes
    BY <1>2, ProceedStep
  <2>2. GameKept /\ Fresh(room')
    BY <1>1, <2>1 DEF GameKept, Fresh
  <2> QED BY <2>1, <2>2 DEF RunStep, HeadUndecided
<1>3. CASE /\ r.state = NoState \/ r.stateVersion # h.live
           /\ Call(1, h, IF r.state = NoState THEN "seed" ELSE "probe", r.state)
           /\ room' = r
           /\ UNCHANGED clients
  <2> DEFINE pc == IF r.state = NoState THEN "seed" ELSE "probe"
  <2>1. r.state \in State /\ room' = r
    BY <1>3 DEF Room
  <2>2. GoesOn
    <3>1. pc \in {"seats", "seed", "probe", "migrate", "reprobe", "reset", "reduce"}
      OBVIOUS
    <3>2. /\ pc = "seed" => room'.state = NoState
          /\ pc # "seed" => /\ pc = "probe"
                            /\ room'.stateVersion # h.live
                            /\ r.state.shape \in Shapes
      BY <1>1, <1>3 DEF Fresh
    <3>3. Call(1, h, pc, r.state)
      BY <1>3
    <3> HIDE DEF pc
    <3> QED BY <2>1, <3>1, <3>2, <3>3, CallGoesOn
  <2>3. ClientTypes'
    BY <1>3 DEF ClientTypes, IInv, clients
  <2>4. GameKept /\ Fresh(room')
    BY <1>1, <2>1 DEF GameKept, Fresh
  <2> QED BY <2>1, <2>2, <2>3, <2>4 DEF RunStep
<1> QED BY <1>2, <1>3 DEF CheckState

LEMMA EnsureFreshStateStep ==
  ASSUME IInv, EnsureFreshState(1)
  PROVE  RunStep
<1>1. /\ queue # << >> /\ queue[1] \in HandlerRecord /\ queue[1].pc = "queued"
      /\ UNCHANGED <<active, unsent>>
  BY HeadOfChain DEF EnsureFreshState, At, Turn
<1>2. active \in Versions /\ active \in Nat /\ room \in Room /\ Fresh(room)
  BY RoomAssumption DEF IInv
<1>3. PICK h : h = [queue[1] EXCEPT !.live = active]
  OBVIOUS
<1>4. /\ h \in HandlerRecord /\ h.kind = queue[1].kind /\ h.move = queue[1].move
      /\ h.live \in Versions
  BY <1>1, <1>2, <1>3 DEF HandlerRecord
<1>5. \/ Call(1, h, "seats", NoState) /\ UNCHANGED <<room, clients>>
      \/ CheckState(1, h, room)
  BY <1>3 DEF EnsureFreshState
<1>6. CASE Call(1, h, "seats", NoState) /\ UNCHANGED <<room, clients>>
  <2>1. NoState \in State
    BY EmptySeq DEF NoState, AppState, State
  <2>2. GoesOn
    BY <1>1, <1>4, <1>6, <2>1, CallGoesOn
  <2>3. ClientTypes' /\ GameKept
    BY <1>6 DEF ClientTypes, IInv, clients, GameKept
  <2> QED BY <1>1, <1>2, <1>6, <2>2, <2>3 DEF RunStep
<1>7. CASE CheckState(1, h, room)
  BY <1>1, <1>2, <1>4, <1>7, CheckStateStep
<1> QED BY <1>5, <1>6, <1>7

LEMMA SeatsLoadedStep ==
  ASSUME IInv, SeatsLoaded(1)
  PROVE  RunStep
<1>1. /\ queue # << >> /\ queue[1] \in HandlerRecord /\ queue[1].pc = "seats"
      /\ Agrees(queue[1], room) /\ UNCHANGED <<active, unsent>>
  BY HeadOfChain DEF SeatsLoaded, At, Turn
<1>2. queue[1].live \in Versions /\ queue[1].code \in Versions
  BY <1>1 DEF Agrees
<1>3. SeatNames[queue[1].code] \in Seq(Seats)
  BY <1>2, RoomAssumption
<1>4. PICK r : r = [room EXCEPT !.seatNames = SeatNames[queue[1].code]]
  OBVIOUS
<1>5. r \in Room /\ r.state = room.state /\ r.stateVersion = room.stateVersion
  BY <1>3, <1>4 DEF Room, IInv
<1>6. CheckState(1, queue[1], r)
  BY <1>4 DEF SeatsLoaded
<1> QED BY <1>1, <1>2, <1>5, <1>6, CheckStateStep

\* A code version's shape is a real one, so a state of it is not NoState.
LEMMA ShapeOfCode ==
  ASSUME NEW v \in Versions, NEW log \in Seq(Moves)
  PROVE  /\ Shape[v] \in Shapes
         /\ AppState(Shape[v], log) \in State
         /\ AppState(Shape[v], log) # NoState
         /\ AppState(Shape[v], log).shape = Shape[v]
         /\ AppState(Shape[v], log).log = log
<1>1. Shape[v] \in Shapes
  BY DEF Shapes
<1>2. Shape[v] # None
  BY <1>1, RoomAssumption
<1> QED BY <1>1, <1>2 DEF AppState, NoState, State

\* What follows a change of the stored state by ensureFreshState.
LEMMA FreshenedStep ==
  ASSUME IInv, queue # << >>, queue[1] \in HandlerRecord,
         queue[1].pc \in {"seed", "probe", "reprobe", "reset"},
         Agrees(queue[1], room),
         NEW r \in Room, r.stateVersion = queue[1].live,
         r.stateVersion # room.stateVersion,
         r.state.shape \in Shapes, r.state # NoState,
         r.state.log \in {room.state.log, << >>},
         Proceed(1, queue[1], r), UNCHANGED <<active, unsent>>
  PROVE  RunStep
<1>1. queue[1].live \in Versions
  BY DEF Agrees
<1>2. /\ room' \in Room
      /\ room'.state = r.state /\ room'.stateVersion = r.stateVersion
      /\ ClientTypes'
      /\ \/ queue[1].kind = "message" /\ GoesOn
         \/ queue[1].kind = "connect" /\ Finishes
  BY <1>1, ProceedStep
<1>3. CodeChanged
  BY <1>1, <1>2 DEF CodeChanged
<1>4. Fresh(room')
  BY <1>1, <1>2, RoomAssumption DEF Fresh
<1> QED BY <1>2, <1>3, <1>4 DEF RunStep, HeadUndecided

LEMMA SeededStep ==
  ASSUME IInv, NEW pc \in {"seed", "reset"}, NEW seats \in [Seats -> Players \cup {None}],
         Seeded(1, pc, seats)
  PROVE  RunStep
<1>1. /\ queue # << >> /\ queue[1] \in HandlerRecord /\ queue[1].pc = pc
      /\ Agrees(queue[1], room) /\ UNCHANGED <<active, unsent>>
  BY HeadOfChain DEF Seeded, At, Turn
<1>2. /\ queue[1].live \in Versions /\ queue[1].code \in Versions
      /\ pc = "seed" => room.state = NoState
      /\ pc = "reset" => room.stateVersion # queue[1].live
  BY <1>1 DEF Agrees
<1>3. << >> \in Seq(Moves)
  BY EmptySeq
<1>4. PICK s \in State : /\ s = AppState(Shape[queue[1].code], << >>)
                         /\ s.shape \in Shapes /\ s # NoState /\ s.log = << >>
  BY <1>2, <1>3, ShapeOfCode
<1>5. PICK t : t = Stamped(s, queue[1].live)
  OBVIOUS
<1>6. t \in Room /\ t.state = s /\ t.stateVersion = queue[1].live
  BY <1>2, <1>5, StampIsTyped DEF IInv
<1>7. PICK r : r = [t EXCEPT !.seats = seats]
  OBVIOUS
<1>8. r \in Room /\ r.state = s /\ r.stateVersion = queue[1].live
  BY <1>6, <1>7 DEF Room
<1>9. Proceed(1, queue[1], r)
  BY <1>4, <1>5, <1>7 DEF Seeded
<1>10. queue[1].live # room.stateVersion
  BY <1>1, <1>2, RoomAssumption DEF IInv, Fresh
<1> QED BY <1>1, <1>4, <1>8, <1>9, <1>10, FreshenedStep

LEMMA KeepStateStep ==
  ASSUME IInv, KeepState(1)
  PROVE  RunStep
<1>1. /\ queue # << >> /\ queue[1] \in HandlerRecord
      /\ queue[1].pc \in {"probe", "reprobe"}
      /\ Agrees(queue[1], room) /\ UNCHANGED <<active, unsent>>
      /\ Proceed(1, queue[1], Stamped(queue[1].state, queue[1].live))
  BY HeadOfChain DEF KeepState, At, Turn
<1>2. PICK s \in State : s = queue[1].state
  BY <1>1 DEF HandlerRecord, State
<1>3. /\ queue[1].live \in Versions /\ room.stateVersion # queue[1].live
      /\ s.shape \in Shapes /\ s.log = room.state.log
  BY <1>1, <1>2 DEF Agrees
<1>4. s # NoState
  BY <1>3, RoomAssumption DEF NoState, AppState
<1>5. PICK t : t = Stamped(s, queue[1].live)
  OBVIOUS
<1>6. t \in Room /\ t.state = s /\ t.stateVersion = queue[1].live
  BY <1>3, <1>5, StampIsTyped DEF IInv
<1>7. Proceed(1, queue[1], t)
  BY <1>1, <1>2, <1>5
<1> QED BY <1>1, <1>3, <1>4, <1>6, <1>7, FreshenedStep

\* The sandbox calls of ensureFreshState that store nothing.
LEMMA TryMigrateStep ==
  ASSUME IInv, TryMigrate(1)
  PROVE  RunStep
<1>1. /\ queue # << >> /\ queue[1] \in HandlerRecord /\ queue[1].pc = "probe"
      /\ Agrees(queue[1], room)
      /\ Call(1, queue[1], "migrate", queue[1].state)
      /\ UNCHANGED <<active, room, clients, unsent>>
  BY HeadOfChain DEF TryMigrate, At, Turn
<1>2. /\ queue[1].live \in Versions /\ queue[1].state = room'.state
      /\ room'.stateVersion # queue[1].live /\ queue[1].state.shape \in Shapes
  BY <1>1 DEF Agrees
<1>3. queue[1].state \in State
  BY <1>1 DEF HandlerRecord, State
<1>4. GoesOn
  BY <1>1, <1>2, <1>3, CallGoesOn
<1>5. room' \in Room /\ Fresh(room') /\ ClientTypes' /\ GameKept
  BY <1>1 DEF ClientTypes, IInv, clients, GameKept
<1> QED BY <1>1, <1>4, <1>5 DEF RunStep

LEMMA MigratedStep ==
  ASSUME IInv, Migrated(1)
  PROVE  RunStep
<1> DEFINE s == AppState(Shape[queue[1].code], queue[1].state.log)
<1>1. /\ queue # << >> /\ queue[1] \in HandlerRecord /\ queue[1].pc = "migrate"
      /\ Agrees(queue[1], room)
      /\ Call(1, queue[1], "reprobe", s)
      /\ UNCHANGED <<active, room, clients, unsent>>
  BY HeadOfChain DEF Migrated, At, Turn
<1>2. /\ queue[1].live \in Versions /\ queue[1].code \in Versions
      /\ queue[1].state.log = room'.state.log
      /\ room'.stateVersion # queue[1].live
  BY <1>1 DEF Agrees
<1>3. queue[1].state.log \in Seq(Moves)
  BY <1>1 DEF HandlerRecord
<1>4. s \in State /\ s.shape \in Shapes /\ s.log = queue[1].state.log
  BY <1>2, <1>3, ShapeOfCode
<1> HIDE DEF s
<1>5. GoesOn
  BY <1>1, <1>2, <1>4, CallGoesOn
<1>6. room' \in Room /\ Fresh(room') /\ ClientTypes' /\ GameKept
  BY <1>1 DEF ClientTypes, IInv, clients, GameKept
<1> QED BY <1>1, <1>5, <1>6 DEF RunStep

LEMMA GiveUpStep ==
  ASSUME IInv, GiveUp(1)
  PROVE  RunStep
<1>1. /\ queue # << >> /\ queue[1] \in HandlerRecord
      /\ queue[1].pc \in {"migrate", "reprobe"}
      /\ Agrees(queue[1], room)
      /\ Call(1, queue[1], "reset", NoState)
      /\ UNCHANGED <<active, room, clients, unsent>>
  BY HeadOfChain DEF GiveUp, At, Turn
<1>2. queue[1].live \in Versions /\ room'.stateVersion # queue[1].live
  BY <1>1 DEF Agrees
<1>3. NoState \in State
  BY EmptySeq DEF NoState, AppState, State
<1>4. GoesOn
  BY <1>1, <1>2, <1>3, CallGoesOn
<1>5. room' \in Room /\ Fresh(room') /\ ClientTypes' /\ GameKept
  BY <1>1 DEF ClientTypes, IInv, clients, GameKept
<1> QED BY <1>1, <1>4, <1>5 DEF RunStep

LEMMA ReducedStep ==
  ASSUME IInv, Reduced(1)
  PROVE  RunStep
<1> DEFINE next == [queue[1].state EXCEPT !.log = Append(@, queue[1].move)]
<1>1. PICK s \in {queue[1].state, next} :
        /\ room' = Stamped(s, active)
        /\ BroadcastState(1, queue[1], room, s, Joined)
  BY DEF Reduced
<1>2. /\ queue # << >> /\ queue[1] \in HandlerRecord /\ queue[1].pc = "reduce"
      /\ 1 \in DOMAIN queue /\ Agrees(queue[1], room)
      /\ UNCHANGED <<active, link, seatOf, unsent>>
  BY HeadOfChain DEF Reduced, At, Turn
<1>3. /\ queue[1].kind = "message"
      /\ queue[1].state = room.state /\ room.state # NoState
  BY <1>2 DEF Agrees
<1>4. queue[1].move \in Moves
  BY <1>2, <1>3 DEF IInv, SentOnce, IsMessage
<1>5. /\ room \in Room /\ room.state \in State /\ room.state.shape \in Shapes
      /\ active \in Versions
  BY <1>3 DEF IInv, Fresh, Room
<1>6. Append(room.state.log, queue[1].move) \in Seq(Moves)
  BY <1>4, <1>5, AppendProperties DEF State
<1>7. /\ next \in State /\ next.shape = room.state.shape
      /\ next.log = Append(room.state.log, queue[1].move)
  BY <1>3, <1>5, <1>6 DEF State
<1> HIDE DEF next
<1>8. /\ s \in State /\ s.shape \in Shapes
      /\ s.log \in {room.state.log, Append(room.state.log, queue[1].move)}
  BY <1>1, <1>3, <1>5, <1>7
<1>9. room' \in Room /\ room'.state = s /\ room'.stateVersion = active
  BY <1>1, <1>5, <1>8, StampIsTyped
<1>10. Fresh(room')
  BY <1>5, <1>8, <1>9, RoomAssumption DEF Fresh, NoState, AppState
<1>11. Finishes /\ seen' \in [Conns -> [state : State, players : SUBSET Seats]]
  BY <1>1, <1>2, <1>5, <1>8, BroadcastFinishes
<1>12. ClientTypes'
  BY <1>2, <1>11 DEF ClientTypes, IInv
<1>13. HeadUndecided /\ Decided
  BY <1>2, <1>3, <1>5, <1>8, <1>9 DEF HeadUndecided, Decided
<1> QED BY <1>2, <1>9, <1>10, <1>11, <1>12, <1>13 DEF RunStep

\* A handler that leaves the chain and writes nothing.
LEMMA EndStep ==
  ASSUME IInv, queue # << >>, Done(1), UNCHANGED <<active, room, unsent>>, ClientTypes'
  PROVE  RunStep
<1>1. Finishes
  BY DEF Done, Finishes
<1>2. room' \in Room /\ Fresh(room') /\ GameKept /\ Decided
  BY DEF IInv, GameKept, Decided
<1> QED BY <1>1, <1>2 DEF RunStep

LEMMA RejectedStep ==
  ASSUME IInv, Rejected(1) \/ SandboxThrows(1)
  PROVE  RunStep
<1>1. queue # << >> /\ Done(1) /\ UNCHANGED <<active, room, clients, unsent>>
  BY HeadOfChain DEF Rejected, SandboxThrows, At, Turn
<1>2. ClientTypes'
  BY <1>1 DEF ClientTypes, IInv, clients
<1> QED BY <1>1, <1>2, EndStep

LEMMA OnCloseStep ==
  ASSUME IInv, OnClose(1)
  PROVE  RunStep
<1>1. /\ queue # << >> /\ queue[1] \in HandlerRecord /\ queue[1].kind = "close"
      /\ BroadcastState(1, queue[1], room, room.state, Joined)
      /\ UNCHANGED <<active, room, link, seatOf, unsent>>
  BY HeadOfChain DEF OnClose, At, Turn
<1>2. room \in Room /\ room.state \in State /\ Fresh(room)
  BY DEF IInv, Room
<1>3. Finishes /\ seen' \in [Conns -> [state : State, players : SUBSET Seats]]
  BY <1>1, <1>2, BroadcastFinishes
<1>4. ClientTypes'
  BY <1>1, <1>3 DEF ClientTypes, IInv
<1>5. ~HeadUndecided /\ GameKept
  BY <1>1 DEF HeadUndecided, GameKept
<1> QED BY <1>1, <1>2, <1>3, <1>4, <1>5 DEF RunStep

LEMMA ProjectedStep ==
  ASSUME IInv, Projected(1)
  PROVE  RunStep
<1>1. /\ queue # << >> /\ queue[1] \in HandlerRecord /\ Done(1)
      /\ UNCHANGED <<active, room, link, seatOf, unsent>>
  BY HeadOfChain DEF Projected, At, Turn
<1>2. PICK to : Deliver(to, Frame(queue[1].state, queue[1].players))
  BY DEF Projected
<1>3. Frame(queue[1].state, queue[1].players) \in [state : State, players : SUBSET Seats]
  BY <1>1 DEF Frame, HandlerRecord, State
<1>4. ClientTypes'
  BY <1>1, <1>2, <1>3 DEF Deliver, ClientTypes, IInv
<1> QED BY <1>1, <1>4, EndStep

LEMMA EveryRunStep ==
  ASSUME IInv, NEW i \in 1 .. MaxQueue, Run(i)
  PROVE  RunStep
<1>1. i = 1
  BY DEF Run, EnsureFreshState, SeatsLoaded, SeedInitialState, ResetState, Seeded,
         KeepState, TryMigrate, Migrated, GiveUp, Reduced, Rejected, OnClose, Projected,
         SandboxThrows, At, Turn
<1>2. CASE EnsureFreshState(1)
  BY <1>2, EnsureFreshStateStep
<1>3. CASE SeatsLoaded(1)
  BY <1>3, SeatsLoadedStep
<1>4. CASE SeedInitialState(1)
  <2>1. room.seats \in [Seats -> Players \cup {None}]
    BY DEF IInv, Room
  <2> QED BY <1>4, <2>1, SeededStep DEF SeedInitialState
<1>5. CASE ResetState(1)
  <2>1. EmptyRoom.seats \in [Seats -> Players \cup {None}]
    BY DEF EmptyRoom
  <2> QED BY <1>5, <2>1, SeededStep DEF ResetState
<1>6. CASE KeepState(1)
  BY <1>6, KeepStateStep
<1>7. CASE TryMigrate(1)
  BY <1>7, TryMigrateStep
<1>8. CASE Migrated(1)
  BY <1>8, MigratedStep
<1>9. CASE GiveUp(1)
  BY <1>9, GiveUpStep
<1>10. CASE Reduced(1)
  BY <1>10, ReducedStep
<1>11. CASE Rejected(1) \/ SandboxThrows(1)
  BY <1>11, RejectedStep
<1>12. CASE OnClose(1)
  BY <1>12, OnCloseStep
<1>13. CASE Projected(1)
  BY <1>13, ProjectedStep
<1> QED BY <1>1, <1>2, <1>3, <1>4, <1>5, <1>6, <1>7, <1>8, <1>9, <1>10, <1>11, <1>12,
           <1>13 DEF Run

-----------------------------------------------------------------------------
(* The invariant is inductive.                                             *)

LEMMA InitIInv == Init => IInv
<1> SUFFICES ASSUME Init PROVE IInv
  OBVIOUS
<1>1. NoState \in State /\ queue \in Seq(HandlerRecord) /\ DOMAIN queue = {}
  <2>1. << >> \in Seq(Moves) /\ << >> \in Seq(HandlerRecord) /\ Len(<< >>) = 0
    BY EmptySeq
  <2> QED BY <2>1, LenProperties DEF Init, NoState, AppState, State
<1>2. room \in Room /\ room.state = NoState /\ room.stateVersion = 0
  BY <1>1 DEF Init, EmptyRoom, Room
<1>3. ClientTypes
  BY <1>1 DEF Init, ClientTypes, NoFrame, Frame
<1>4. OneRuns /\ SentOnce
  BY <1>1 DEF OneRuns, SentOnce, IsMessage
<1> QED BY <1>1, <1>2, <1>3, <1>4 DEF Init, IInv, Fresh

LEMMA RunInv ==
  ASSUME IInv, RunStep
  PROVE  IInv'
<1>1. ChainOK'
  BY ChainShrinks, ChainGoesOn DEF RunStep, GoesOn, Finishes
<1> QED BY <1>1 DEF RunStep, IInv, ChainOK

\* A queued handler as a connection enters it.
LEMMA NewHandler ==
  ASSUME NEW kind \in {"connect", "message", "close"}, NEW c \in Conns,
         NEW move \in Moves \cup {None}, NEW seat \in Seats \cup {None}
  PROVE  /\ Handler(kind, c, move, seat) \in HandlerRecord
         /\ Handler(kind, c, move, seat).pc = "queued"
         /\ Handler(kind, c, move, seat).kind = kind
         /\ Handler(kind, c, move, seat).move = move
         /\ Handler(kind, c, move, seat).conn = c
BY EmptySeq DEF Handler, HandlerRecord, NoState, AppState

LEMMA ConnectInv ==
  ASSUME IInv, NEW c \in Conns, Connect(c)
  PROVE  IInv'
<1>1. ClientTypes' /\ UNCHANGED <<active, room, unsent>>
  BY DEF Connect, ClientTypes, IInv
<1>2. CASE UNCHANGED queue
  BY <1>1, <1>2 DEF IInv, OneRuns, SentOnce, IsMessage
<1>3. CASE queue' = Append(queue, Handler("connect", c, None, None))
  <2>1. PICK h \in HandlerRecord : /\ h.pc = "queued" /\ h.kind = "connect"
                                  /\ queue' = Append(queue, h)
    BY <1>3, NewHandler
  <2> QED BY <1>1, <2>1, ChainGrows DEF IInv, ChainOK
<1> QED BY <1>2, <1>3 DEF Connect, Enqueue

LEMMA SendInv ==
  ASSUME IInv, NEW c \in Conns, NEW move \in Moves, Send(c, move)
  PROVE  IInv'
<1>1. /\ ClientTypes' /\ UNCHANGED <<active, room>>
      /\ move \in unsent /\ unsent' = unsent \ {move}
  BY DEF Send, ClientTypes, clients, IInv
<1>2. seatOf[c] \in Seats \cup {None}
  BY DEF IInv, ClientTypes
<1>3. queue' = Append(queue, Handler("message", c, move, seatOf[c]))
  BY DEF Send, Enqueue
<1>4. ChainOK'
  BY <1>1, <1>2, <1>3, NewHandler, ChainGrows
<1> QED BY <1>1, <1>4 DEF IInv, ChainOK

LEMMA CloseInv ==
  ASSUME IInv, NEW c \in Conns, Close(c)
  PROVE  IInv'
<1>1. NoFrame \in [state : State, players : SUBSET Seats]
  BY EmptySeq DEF NoFrame, Frame, NoState, AppState, State
<1>2. ClientTypes' /\ UNCHANGED <<active, room, unsent>>
  BY <1>1 DEF Close, ClientTypes, IInv
<1>3. CASE UNCHANGED queue
  BY <1>2, <1>3 DEF IInv, OneRuns, SentOnce, IsMessage
<1>4. CASE queue' = Append(queue, Handler("close", c, None, None))
  <2>1. PICK h \in HandlerRecord : /\ h.pc = "queued" /\ h.kind = "close"
                                  /\ queue' = Append(queue, h)
    BY <1>4, NewHandler
  <2> QED BY <1>2, <2>1, ChainGrows DEF IInv, ChainOK
<1> QED BY <1>3, <1>4 DEF Close, Enqueue

LEMMA PromoteInv ==
  ASSUME IInv, NEW v \in Versions, Promote(v)
  PROVE  IInv'
BY DEF Promote, clients, IInv, ClientTypes, OneRuns, SentOnce, IsMessage

LEMMA RestartInv ==
  ASSUME IInv, Restart
  PROVE  IInv'
<1>1. NoFrame \in [state : State, players : SUBSET Seats]
  BY EmptySeq DEF NoFrame, Frame, NoState, AppState, State
<1>2. ClientTypes' /\ UNCHANGED <<active, room, unsent>> /\ queue' = << >>
  BY <1>1 DEF Restart, ClientTypes
<1>3. queue' \in Seq(HandlerRecord) /\ DOMAIN queue' = {}
  <2>1. << >> \in Seq(HandlerRecord) /\ Len(<< >>) = 0
    BY EmptySeq
  <2> QED BY <1>2, <2>1, LenProperties
<1>4. OneRuns' /\ SentOnce'
  BY <1>3 DEF OneRuns, SentOnce, IsMessage
<1> QED BY <1>2, <1>3, <1>4 DEF IInv

LEMMA NextIInv == IInv /\ [Next]_vars => IInv'
<1> SUFFICES ASSUME IInv, [Next]_vars PROVE IInv'
  OBVIOUS
<1>1. ASSUME NEW i \in 1 .. MaxQueue, Run(i) PROVE IInv'
  BY <1>1, EveryRunStep, RunInv
<1>2. ASSUME NEW c \in Conns, Connect(c) PROVE IInv'
  BY <1>2, ConnectInv
<1>3. ASSUME NEW c \in Conns, NEW move \in Moves, Send(c, move) PROVE IInv'
  BY <1>3, SendInv
<1>4. ASSUME NEW c \in Conns, Close(c) PROVE IInv'
  BY <1>4, CloseInv
<1>5. ASSUME NEW v \in Versions, Promote(v) PROVE IInv'
  BY <1>5, PromoteInv
<1>6. CASE Restart
  BY <1>6, RestartInv
<1>7. CASE UNCHANGED vars
  BY <1>7 DEF vars, IInv, ClientTypes, OneRuns, SentOnce, IsMessage
<1> QED BY <1>1, <1>2, <1>3, <1>4, <1>5, <1>6, <1>7 DEF Next

LEMMA IInvHolds == Spec => []IInv
BY InitIInv, NextIInv, PTL DEF Spec

\* Type correctness of the room, its chain and its sockets, whatever the app's
\* versions do, at every length of the chain.
THEOREM TypeCorrect == Spec => []TypeOK
<1>1. IInv => TypeOK
  BY DEF IInv, TypeOK, ClientTypes, Room, State
<1> QED BY <1>1, IInvHolds, PTL

-----------------------------------------------------------------------------
(* The engine implements the atomic room.                                  *)

PendingIn(q, i) == i \in DOMAIN q /\ q[i].kind = "message" /\ q[i].pc # "project"

LEMMA PendingMoves ==
  /\ \A m : m \in Undecided <=> \E i : PendingIn(queue, i) /\ queue[i].move = m
  /\ \A m : m \in Undecided' <=> \E i : PendingIn(queue', i) /\ queue'[i].move = m
BY DEF Undecided, PendingIn

LEMMA UndecidedGoesOn ==
  ASSUME IInv, queue # << >>, GoesOn
  PROVE  Undecided' = Undecided
<1>1. PICK h : GoesOnAs(h) /\ h.pc \notin {"queued", "project"}
  BY DEF GoesOn
<1>2. /\ DOMAIN queue' = DOMAIN queue /\ queue'[1] = h /\ 1 \in DOMAIN queue
      /\ \A i \in DOMAIN queue : i # 1 => queue'[i] = queue[i]
  BY <1>1, ReplaceHead DEF GoesOnAs, IInv
<1>3. ASSUME NEW i \in DOMAIN queue
      PROVE  /\ queue'[i].kind = queue[i].kind /\ queue'[i].move = queue[i].move
             /\ queue'[i].pc = "project" => queue[i].pc = "project"
             /\ queue[i].pc = "project" => queue'[i].pc = "project"
  <2>1. CASE i = 1
    BY <1>1, <1>2, <2>1 DEF PendingIn, GoesOn, GoesOnAs
  <2>2. CASE i # 1
    BY <1>2, <2>2 DEF PendingIn
  <2> QED BY <2>1, <2>2
<1>4. DOMAIN queue' = DOMAIN queue
  BY <1>2
<1>5. ASSUME NEW m \in Undecided'
      PROVE  m \in Undecided
  <2>1. PICK i : PendingIn(queue', i) /\ queue'[i].move = m
    BY PendingMoves
  <2>2. PendingIn(queue, i) /\ queue[i].move = m
    BY <1>3, <1>4, <2>1 DEF PendingIn
  <2> QED BY <2>2, PendingMoves
<1>6. ASSUME NEW m \in Undecided
      PROVE  m \in Undecided'
  <2>1. PICK i : PendingIn(queue, i) /\ queue[i].move = m
    BY PendingMoves
  <2>2. PendingIn(queue', i) /\ queue'[i].move = m
    BY <1>3, <1>4, <2>1 DEF PendingIn
  <2> QED BY <2>2, PendingMoves
<1> QED BY <1>5, <1>6

LEMMA UndecidedFinishes ==
  ASSUME IInv, queue # << >>, Finishes
  PROVE  Undecided' = Undecided \ (IF HeadUndecided THEN {queue[1].move} ELSE {})
<1>1. /\ queue \in Seq(HandlerRecord) /\ 1 \in DOMAIN queue
      /\ DOMAIN queue = 1 .. Len(queue) /\ Len(queue) \in Nat
  BY HeadOfChain, LenProperties DEF IInv
<1>2. ASSUME NEW i, PendingIn(queue, i), i # 1
      PROVE  ~(HeadUndecided /\ queue[i].move = queue[1].move)
  BY <1>1, <1>2 DEF IInv, SentOnce, IsMessage, PendingIn, HeadUndecided
<1>3. PendingIn(queue, 1) <=> HeadUndecided
  BY <1>1 DEF PendingIn, HeadUndecided
<1>4. CASE queue' = RemoveAt(queue, 1)
  <2>1. /\ DOMAIN queue' = 1 .. Len(queue) - 1
        /\ \A i \in DOMAIN queue' : queue'[i] = queue[i + 1]
    BY <1>1, <1>4, RemoveHead
  <2>2. ASSUME NEW m \in Undecided'
        PROVE  \E i : PendingIn(queue, i) /\ i # 1 /\ queue[i].move = m
    <3>1. PICK j : PendingIn(queue', j) /\ queue'[j].move = m
      BY PendingMoves
    <3>2. j \in Nat /\ j + 1 \in DOMAIN queue /\ j + 1 # 1 /\ queue[j + 1] = queue'[j]
      BY <1>1, <2>1, <3>1 DEF PendingIn
    <3> QED BY <3>1, <3>2 DEF PendingIn
  <2>3. ASSUME NEW i, PendingIn(queue, i), i # 1
        PROVE  queue[i].move \in Undecided'
    <3>1. i - 1 \in DOMAIN queue' /\ queue'[i - 1] = queue[i]
      BY <1>1, <2>1, <2>3 DEF PendingIn
    <3>2. PendingIn(queue', i - 1)
      BY <2>3, <3>1 DEF PendingIn
    <3> QED BY <3>1, <3>2, PendingMoves
  <2> QED BY <1>2, <1>3, <2>2, <2>3, PendingMoves DEF HeadUndecided
<1>5. CASE \E h : GoesOnAs(h) /\ h.pc = "project"
  <2>1. PICK h : GoesOnAs(h) /\ h.pc = "project"
    BY <1>5
  <2>2. /\ DOMAIN queue' = DOMAIN queue /\ queue'[1] = h
        /\ \A i \in DOMAIN queue : i # 1 => queue'[i] = queue[i]
    <3>1. h \in HandlerRecord /\ queue' = ReplaceAt(queue, 1, h)
      BY <2>1 DEF GoesOnAs
    <3>2. queue \in Seq(HandlerRecord)
      BY <1>1
    <3> QED BY <3>1, <3>2, ReplaceHead
  <2>3. ~PendingIn(queue', 1)
    BY <2>1, <2>2 DEF PendingIn
  <2>4. ASSUME NEW m \in Undecided'
        PROVE  \E i : PendingIn(queue, i) /\ i # 1 /\ queue[i].move = m
    <3>1. PICK i : PendingIn(queue', i) /\ queue'[i].move = m
      BY PendingMoves
    <3>2. i # 1
      BY <2>3, <3>1
    <3> QED BY <2>2, <3>1, <3>2 DEF PendingIn
  <2>5. ASSUME NEW i, PendingIn(queue, i), i # 1
        PROVE  queue[i].move \in Undecided'
    <3>1. PendingIn(queue', i) /\ queue'[i].move = queue[i].move
      BY <2>2, <2>5 DEF PendingIn
    <3> QED BY <3>1, PendingMoves
  <2> QED BY <1>2, <1>3, <2>4, <2>5, PendingMoves DEF HeadUndecided
<1> QED BY <1>4, <1>5 DEF Finishes

LEMMA UndecidedGrows ==
  ASSUME IInv, NEW h \in HandlerRecord, h.pc = "queued", queue' = Append(queue, h)
  PROVE  Undecided' = Undecided \cup (IF h.kind = "message" THEN {h.move} ELSE {})
<1>1. PICK n \in {Len(queue) + 1} :
        /\ DOMAIN queue' = DOMAIN queue \cup {n} /\ n \notin DOMAIN queue
        /\ queue'[n] = h
        /\ \A i \in DOMAIN queue : queue'[i] = queue[i]
  BY AddLast DEF IInv
<1>2. \A i : i # n => /\ PendingIn(queue', i) <=> PendingIn(queue, i)
                      /\ PendingIn(queue, i) => queue'[i].move = queue[i].move
  BY <1>1 DEF PendingIn
<1>3. ~PendingIn(queue, n) /\ (PendingIn(queue', n) <=> h.kind = "message")
  BY <1>1 DEF PendingIn
<1>4. ASSUME NEW m \in Undecided'
      PROVE  m \in Undecided \/ (h.kind = "message" /\ m = h.move)
  <2>1. PICK i : PendingIn(queue', i) /\ queue'[i].move = m
    BY PendingMoves
  <2>2. CASE i = n
    BY <1>1, <1>3, <2>1, <2>2
  <2>3. CASE i # n
    <3>1. PendingIn(queue, i) /\ queue[i].move = m
      BY <1>2, <2>1, <2>3 DEF PendingIn
    <3> QED BY <3>1, PendingMoves
  <2> QED BY <2>2, <2>3
<1>5. ASSUME NEW m \in Undecided
      PROVE  m \in Undecided'
  <2>1. PICK i : PendingIn(queue, i) /\ queue[i].move = m
    BY PendingMoves
  <2>2. PendingIn(queue', i) /\ queue'[i].move = m
    BY <1>2, <1>3, <2>1 DEF PendingIn
  <2> QED BY <2>2, PendingMoves
<1>6. h.kind = "message" => h.move \in Undecided'
  BY <1>1, <1>3, PendingMoves
<1> QED BY <1>4, <1>5, <1>6

LEMMA RunRefines ==
  ASSUME IInv, RunStep
  PROVE  [Atomic!Next]_(Atomic!vars)
<1>1. UNCHANGED (Moves \ unsent)
  BY DEF RunStep
<1>2. CASE GoesOn /\ (GameKept \/ CodeChanged)
  <2>1. Undecided' = Undecided
    BY <1>2, UndecidedGoesOn DEF RunStep
  <2> QED BY <1>1, <1>2, <2>1
          DEF GameKept, CodeChanged, Atomic!Next, Atomic!ChangeCode, Atomic!vars
<1>3. CASE Finishes /\ ~HeadUndecided /\ (GameKept \/ CodeChanged)
  <2>1. Undecided' = Undecided
    BY <1>3, UndecidedFinishes DEF RunStep
  <2> QED BY <1>1, <1>3, <2>1
          DEF GameKept, CodeChanged, Atomic!Next, Atomic!ChangeCode, Atomic!vars
<1>4. CASE Finishes /\ HeadUndecided /\ Decided
  <2>1. Undecided' = Undecided \ {queue[1].move}
    BY <1>4, UndecidedFinishes DEF RunStep
  <2>2. 1 \in DOMAIN queue
    BY HeadOfChain DEF RunStep
  <2>3. queue[1].move \in Undecided /\ queue[1].move \in Moves
    BY <1>4, <2>2, PendingMoves DEF PendingIn, HeadUndecided, IInv, SentOnce, IsMessage
  <2>4. Atomic!Decide(queue[1].move)
    BY <1>1, <1>4, <2>1, <2>3 DEF Decided, Atomic!Decide
  <2> QED BY <2>3, <2>4 DEF Atomic!Next
<1> QED BY <1>2, <1>3, <1>4 DEF RunStep

LEMMA NextRefines ==
  ASSUME IInv, [Next]_vars
  PROVE  [Atomic!Next]_(Atomic!vars)
<1>1. ASSUME NEW i \in 1 .. MaxQueue, Run(i)
      PROVE  [Atomic!Next]_(Atomic!vars)
  BY <1>1, EveryRunStep, RunRefines
<1>2. ASSUME NEW c \in Conns, Connect(c) \/ Close(c)
      PROVE  UNCHANGED Atomic!vars
  <2>1. UNCHANGED <<room, unsent>>
    BY <1>2 DEF Connect, Close
  <2>2. CASE UNCHANGED queue
    BY <2>1, <2>2 DEF Undecided, Atomic!vars
  <2>3. ASSUME NEW kind \in {"connect", "close"},
               queue' = Append(queue, Handler(kind, c, None, None))
        PROVE  UNCHANGED Atomic!vars
    <3>1. PICK h \in HandlerRecord : /\ h.pc = "queued" /\ h.kind = kind
                                    /\ queue' = Append(queue, h)
      BY <2>3, NewHandler
    <3>2. Undecided' = Undecided
      BY <2>3, <3>1, UndecidedGrows
    <3> QED BY <2>1, <3>2 DEF Atomic!vars
  <2> QED BY <1>2, <2>2, <2>3 DEF Connect, Close, Enqueue
<1>3. ASSUME NEW c \in Conns, NEW move \in Moves, Send(c, move)
      PROVE  Atomic!Submit(move)
  <2>1. seatOf[c] \in Seats \cup {None}
    BY DEF IInv, ClientTypes
  <2>2. /\ queue' = Append(queue, Handler("message", c, move, seatOf[c]))
        /\ move \in unsent /\ unsent' = unsent \ {move} /\ room' = room
    BY <1>3 DEF Send, Enqueue
  <2>3. Undecided' = Undecided \cup {move}
    BY <2>1, <2>2, NewHandler, UndecidedGrows
  <2> QED BY <2>2, <2>3 DEF Atomic!Submit
<1>4. ASSUME NEW v \in Versions, Promote(v)
      PROVE  UNCHANGED Atomic!vars
  BY <1>4 DEF Promote, clients, Undecided, Atomic!vars
<1>5. ASSUME Restart
      PROVE  [Atomic!Next]_(Atomic!vars)
  <2>1. UNCHANGED <<room, unsent>> /\ Undecided' = {}
    <3>1. DOMAIN queue' = {}
      BY <1>5, EmptySeq, LenProperties DEF Restart
    <3> QED BY <1>5, <3>1 DEF Restart, Undecided
  <2>2. CASE Undecided = {}
    BY <2>1, <2>2 DEF Atomic!vars
  <2>3. CASE Undecided # {}
    BY <2>1, <2>3 DEF Atomic!Next, Atomic!Lose
  <2> QED BY <2>2, <2>3
<1>6. ASSUME UNCHANGED vars
      PROVE  UNCHANGED Atomic!vars
  BY <1>6 DEF vars, Undecided, Atomic!vars
<1> QED BY <1>1, <1>2, <1>3, <1>4, <1>5, <1>6 DEF Next, Atomic!Next

\* The engine's handlers, cut up at their awaits, implement the atomic room for
\* any chain and any interleaving with promotes, faults and restarts: no update
\* is lost, nothing is applied twice, and only a change of code starts over.
THEOREM RefinesAtomicRoom == Spec => ImplementsAtomicRoom
<1>1. Init => Atomic!Init
  <2>1. << >> \in Seq(HandlerRecord) /\ Len(<< >>) = 0
    BY EmptySeq
  <2> QED BY <2>1, LenProperties
          DEF Init, Atomic!Init, EmptyRoom, NoState, AppState, Undecided
<1>2. IInv /\ [Next]_vars => [Atomic!Next]_(Atomic!vars)
  BY NextRefines
<1> QED BY <1>1, <1>2, IInvHolds, PTL DEF Spec, ImplementsAtomicRoom, Atomic!Spec

-----------------------------------------------------------------------------
(* Seats.                                                                  *)

\* The first position of a nonempty set of them: the initial segments up to its
\* elements are well-founded by inclusion.
LEMMA LeastIndex ==
  ASSUME NEW S \in SUBSET Nat, S # {}
  PROVE  Min(S) \in S
<1> DEFINE Below == {0 .. n : n \in S}
<1>1. \A n \in S : IsFiniteSet(0 .. n) /\ 0 .. n \subseteq Int
  BY FS_Interval
<1>2. Below \subseteq FiniteSubsetsOf(Int) /\ Below # {}
  BY <1>1 DEF FiniteSubsetsOf
<1>3. IsWellFoundedOn(StrictSubsetOrdering(Int), FiniteSubsetsOf(Int))
  BY FS_StrictSubsetOrderingWellFounded
<1> HIDE DEF Below
<1>4. PICK b \in Below : \A c \in Below : <<c, b>> \notin StrictSubsetOrdering(Int)
  BY <1>2, <1>3, WFMin
<1>5. PICK n \in S : b = 0 .. n
  BY DEF Below
<1>6. ASSUME NEW m \in S, m < n
      PROVE  FALSE
  <2>1. 0 .. m \in Below
    BY DEF Below
  <2>2. n \in 0 .. n /\ n \notin 0 .. m
    BY <1>6
  <2>3. /\ 0 .. m \subseteq 0 .. n /\ 0 .. m # 0 .. n
        /\ 0 .. m \subseteq Int /\ 0 .. n \subseteq Int
    BY <1>6, <2>2
  <2> QED BY <1>4, <1>5, <2>1, <2>3 DEF StrictSubsetOrdering
<1>7. \A m \in S : n =< m
  BY <1>6
<1> QED BY <1>7 DEF Min

\* #assignSeat gives the player its own seat, a free one or one whose holder is
\* gone.
LEMMA AssignSeatIsFair ==
  ASSUME NEW r \in Room, NEW player, NEW joined,
         NEW seat, seat = AssignSeat(r, player, joined)
  PROVE  \/ seat = None
         \/ /\ seat \in Seats
            /\ \/ r.seats[seat] \in {player, None}
               \/ ~IsOnline(r.seats[seat], joined)
<1> DEFINE I1 == {i \in 1..Len(Pool(r)) : r.seats[Pool(r)[i]] = player}
           I2 == {i \in 1..Len(Pool(r)) : r.seats[Pool(r)[i]] = None}
           I3 == {i \in 1..Len(Pool(r)) : ~IsOnline(r.seats[Pool(r)[i]], joined)}
           choices == <<IF I1 # {} THEN Min(I1) ELSE 0,
                        IF I2 # {} THEN Min(I2) ELSE 0,
                        IF I3 # {} THEN Min(I3) ELSE 0>>
           I4 == {i \in 1 .. Len(choices) : choices[i] # 0}
           first == IF I4 # {} THEN Min(I4) ELSE 0
<1>0. Pool(r) \in Seq(Seats) /\ DOMAIN Pool(r) = 1 .. Len(Pool(r)) /\ Len(Pool(r)) \in Nat
  BY PoolType, LenProperties
<1>1. seat = IF first = 0 THEN None ELSE Pool(r)[choices[first]]
  BY DEF AssignSeat, SelectInSeq
<1>2. /\ I1 \in SUBSET Nat /\ I2 \in SUBSET Nat /\ I3 \in SUBSET Nat
      /\ I1 \cup I2 \cup I3 \subseteq 1 .. Len(Pool(r))
  BY <1>0
<1>3. choices[1] # 0 => choices[1] \in I1
  BY <1>2, LeastIndex
<1>4. choices[2] # 0 => choices[2] \in I2
  BY <1>2, LeastIndex
<1>5. choices[3] # 0 => choices[3] \in I3
  BY <1>2, LeastIndex
<1>6. I4 \in SUBSET Nat /\ I4 \subseteq 1 .. 3
  OBVIOUS
<1>7. first # 0 => first \in I4
  BY <1>6, LeastIndex
<1>8. first # 0 => first \in 1 .. 3 /\ choices[first] # 0
  BY <1>6, <1>7
<1>9. first # 0 => choices[first] \in I1 \cup I2 \cup I3
  <2> HIDE DEF choices, first, I1, I2, I3
  <2> QED BY <1>3, <1>4, <1>5, <1>8
<1> HIDE DEF choices, first
<1> QED BY <1>0, <1>1, <1>2, <1>9, ElementOfSeq

\* The invariant for seats: who was told a seat is joined and holds it.
SeatInv ==
  /\ SeatsAreBound
  /\ \A c \in Conns : seatOf[c] # None => c \in Joined

\* A step of the handler at the head leaves the seats alone or seats a player.
SeatsKept == room'.seats = room.seats /\ UNCHANGED <<link, seatOf>>

Seating == \E h \in HandlerRecord, r \in Room : r.seats = room.seats /\ Join(1, h, r)

LEMMA ProceedSeats ==
  ASSUME NEW h \in HandlerRecord, NEW r \in Room, r.seats = room.seats, Proceed(1, h, r)
  PROVE  SeatsKept \/ Seating
BY DEF Proceed, SeatsKept, Seating, clients

LEMMA CheckStateSeats ==
  ASSUME NEW h \in HandlerRecord, NEW r \in Room, r.seats = room.seats,
         CheckState(1, h, r)
  PROVE  SeatsKept \/ Seating
<1>1. CASE Proceed(1, h, r)
  BY <1>1, ProceedSeats
<1>2. CASE room' = r /\ UNCHANGED clients
  BY <1>2 DEF SeatsKept, clients
<1> QED BY <1>1, <1>2 DEF CheckState

LEMMA RunSeats ==
  ASSUME IInv, Run(1), ~ResetState(1)
  PROVE  SeatsKept \/ Seating
<1>1. queue[1] \in HandlerRecord /\ Agrees(queue[1], room)
  BY HeadOfChain DEF Run, EnsureFreshState, SeatsLoaded, SeedInitialState, ResetState,
     Seeded, KeepState, TryMigrate, Migrated, GiveUp, Reduced, Rejected, OnClose,
     Projected, SandboxThrows, At, Turn
<1>2. room \in Room /\ active \in Versions /\ active \in Nat
  BY RoomAssumption DEF IInv
<1>3. CASE EnsureFreshState(1)
  <2>1. PICK h : h = [queue[1] EXCEPT !.live = active]
    OBVIOUS
  <2>2. h \in HandlerRecord
    BY <1>1, <1>2, <2>1 DEF HandlerRecord
  <2>3. CASE UNCHANGED <<room, clients>>
    BY <2>3 DEF SeatsKept, clients
  <2>4. CASE CheckState(1, h, room)
    BY <1>2, <2>2, <2>4, CheckStateSeats
  <2> QED BY <1>3, <2>1, <2>3, <2>4 DEF EnsureFreshState
<1>4. CASE SeatsLoaded(1)
  <2>1. SeatNames[queue[1].code] \in Seq(Seats)
    BY <1>1, <1>4, RoomAssumption DEF SeatsLoaded, At, Agrees
  <2>2. PICK r : r = [room EXCEPT !.seatNames = SeatNames[queue[1].code]]
    OBVIOUS
  <2>3. r \in Room /\ r.seats = room.seats
    BY <1>2, <2>1, <2>2 DEF Room
  <2>4. CheckState(1, queue[1], r)
    BY <1>4, <2>2 DEF SeatsLoaded
  <2> QED BY <1>1, <2>3, <2>4, CheckStateSeats
<1>5. CASE SeedInitialState(1)
  <2>1. queue[1].live \in Versions /\ queue[1].code \in Versions
    BY <1>1, <1>5 DEF SeedInitialState, Seeded, At, Agrees
  <2>2. PICK s : s = AppState(Shape[queue[1].code], << >>)
    OBVIOUS
  <2>3. s \in State
    BY <2>1, <2>2, EmptySeq, ShapeOfCode
  <2>4. PICK t : t = Stamped(s, queue[1].live)
    OBVIOUS
  <2>5. t \in Room /\ t.seats = room.seats
    BY <1>2, <2>1, <2>3, <2>4 DEF Stamped, Room
  <2>6. PICK r : r = [t EXCEPT !.seats = room.seats]
    OBVIOUS
  <2>7. r \in Room /\ r.seats = room.seats
    BY <2>5, <2>6 DEF Room
  <2>8. Proceed(1, queue[1], r)
    BY <1>5, <2>2, <2>4, <2>6 DEF SeedInitialState, Seeded
  <2> QED BY <1>1, <2>7, <2>8, ProceedSeats
<1>6. CASE KeepState(1)
  <2>1. queue[1].live \in Versions /\ queue[1].state \in State
    BY <1>1, <1>6 DEF KeepState, At, Agrees, HandlerRecord, State
  <2>2. PICK t : t = Stamped(queue[1].state, queue[1].live)
    OBVIOUS
  <2>3. t \in Room /\ t.seats = room.seats
    BY <1>2, <2>1, <2>2 DEF Stamped, Room
  <2>4. Proceed(1, queue[1], t)
    BY <1>6, <2>2 DEF KeepState
  <2> QED BY <1>1, <2>3, <2>4, ProceedSeats
<1>7. CASE Reduced(1)
  <2>1. PICK s : room' = Stamped(s, active)
    BY <1>7 DEF Reduced
  <2>2. room'.seats = room.seats
    BY <1>2, <2>1 DEF Stamped, Room
  <2> QED BY <1>7, <2>2 DEF Reduced, SeatsKept
<1>8. CASE TryMigrate(1) \/ Migrated(1) \/ GiveUp(1) \/ Rejected(1) \/ OnClose(1)
            \/ Projected(1) \/ SandboxThrows(1)
  BY <1>8 DEF TryMigrate, Migrated, GiveUp, Rejected, OnClose, Projected, SandboxThrows,
              clients, SeatsKept
<1> QED BY <1>3, <1>4, <1>5, <1>6, <1>7, <1>8 DEF Run

LEMMA SeatingInv ==
  ASSUME IInv, SeatInv, Seating
  PROVE  SeatInv'
<1>1. PICK h \in HandlerRecord, r \in Room : r.seats = room.seats /\ Join(1, h, r)
  BY DEF Seating
<1> DEFINE player == Token[h.conn]
           here == {h.conn} \cap Connected
<1>2. PICK seat \in Seats \cup {None} :
        /\ seat = AssignSeat(r, player, Joined)
        /\ room' = IF seat = None THEN r ELSE [r EXCEPT !.seats[seat] = player]
        /\ link' = [c \in Conns |-> IF c \in here THEN "joined" ELSE link[c]]
        /\ seatOf' = [c \in Conns |-> IF c \in here THEN seat ELSE seatOf[c]]
  BY <1>1 DEF Join
<1>3. h.conn \in Conns /\ \A c \in Conns : Token[c] # None
  BY RoomAssumption DEF HandlerRecord, Players
<1>4. /\ r.seats \in [Seats -> Players \cup {None}]
      /\ seatOf \in [Conns -> Seats \cup {None}]
      /\ link \in [Conns -> {"closed", "open", "joined"}]
  BY DEF Room, IInv, ClientTypes
<1>5. seat # None => \/ r.seats[seat] \in {player, None}
                     \/ ~IsOnline(r.seats[seat], Joined)
  BY <1>2, AssignSeatIsFair
<1>6. ASSUME NEW c \in Conns, seatOf[c] = seat, seat # None
      PROVE  Token[c] = player
  <2>1. r.seats[seat] = Token[c] /\ c \in Joined
    BY <1>1, <1>6 DEF SeatInv, SeatsAreBound
  <2>2. IsOnline(r.seats[seat], Joined)
    BY <2>1 DEF IsOnline
  <2> QED BY <1>3, <1>5, <1>6, <2>1, <2>2
<1>7. room'.seats = IF seat = None THEN r.seats ELSE [r.seats EXCEPT ![seat] = player]
  BY <1>2 DEF Room
<1>8. ASSUME NEW c \in Conns, seatOf'[c] # None
      PROVE  room'.seats[seatOf'[c]] = Token[c] /\ c \in Joined'
  <2>1. CASE c \in here
    <3>1. c = h.conn /\ seatOf'[c] = seat /\ seat \in Seats /\ link'[c] = "joined"
      BY <1>2, <1>8, <2>1
    <3>2. c \notin Spectators
      BY <2>1 DEF Connected
    <3> QED BY <1>4, <1>7, <1>8, <3>1, <3>2 DEF Joined
  <2>2. CASE c \notin here
    <3>1. seatOf'[c] = seatOf[c] /\ link'[c] = link[c]
      BY <1>2, <2>2
    <3>2. c \in Joined /\ r.seats[seatOf[c]] = Token[c] /\ seatOf[c] \in Seats
      BY <1>1, <1>4, <1>8, <3>1 DEF SeatInv, SeatsAreBound
    <3>3. CASE seatOf[c] = seat
      BY <1>4, <1>6, <1>7, <1>8, <3>1, <3>2, <3>3 DEF Joined
    <3>4. CASE seatOf[c] # seat
      BY <1>4, <1>7, <1>8, <3>1, <3>2, <3>4 DEF Joined
    <3> QED BY <3>3, <3>4
  <2> QED BY <2>1, <2>2
<1> QED BY <1>8 DEF SeatInv, SeatsAreBound

NoReset == \A i \in 1 .. MaxQueue : ~ResetState(i)

LEMMA NextSeatInv ==
  ASSUME IInv, SeatInv, [Next]_vars, [NoReset]_vars
  PROVE  SeatInv'
<1>1. CASE UNCHANGED vars
  BY <1>1 DEF vars, SeatInv, SeatsAreBound, Joined
<1>2. ASSUME NEW i \in 1 .. MaxQueue, Run(i), NoReset
      PROVE  SeatInv'
  <2>1. i = 1
    BY <1>2 DEF Run, EnsureFreshState, SeatsLoaded, SeedInitialState, ResetState, Seeded,
       KeepState, TryMigrate, Migrated, GiveUp, Reduced, Rejected, OnClose, Projected,
       SandboxThrows, At, Turn
  <2>2. SeatsKept \/ Seating
    BY <1>2, <2>1, RunSeats DEF NoReset
  <2>3. CASE SeatsKept
    BY <2>3 DEF SeatsKept, SeatInv, SeatsAreBound, Joined
  <2> QED BY <2>2, <2>3, SeatingInv
<1>3. seatOf \in [Conns -> Seats \cup {None}] /\ link \in [Conns -> {"closed", "open", "joined"}]
  BY DEF IInv, ClientTypes
<1>4. ASSUME NEW c \in Conns, Connect(c) PROVE SeatInv'
  BY <1>3, <1>4 DEF Connect, SeatInv, SeatsAreBound, Joined
<1>5. ASSUME NEW c \in Conns, NEW move \in Moves, Send(c, move) PROVE SeatInv'
  BY <1>5 DEF Send, clients, SeatInv, SeatsAreBound, Joined
<1>6. ASSUME NEW c \in Conns, Close(c) PROVE SeatInv'
  BY <1>3, <1>6 DEF Close, SeatInv, SeatsAreBound, Joined
<1>7. ASSUME NEW v \in Versions, Promote(v) PROVE SeatInv'
  BY <1>7 DEF Promote, clients, SeatInv, SeatsAreBound, Joined
<1>8. CASE Restart
  BY <1>8 DEF Restart, SeatInv, SeatsAreBound
<1> QED BY <1>1, <1>2, <1>4, <1>5, <1>6, <1>7, <1>8 DEF Next, vars

\* As long as no state is reset, the seat each live connection was told is
\* bound to its own token, whatever reconnects, closes and reclaims come
\* (#assignSeat).  A reset frees the seats of connected players: OnePlayerPerSeat
\* fails then.
THEOREM SeatsStayBound == Spec /\ [][NoReset]_vars => []SeatsAreBound
<1>1. Init => SeatInv
  BY DEF Init, SeatInv, SeatsAreBound
<1>2. IInv /\ SeatInv /\ [Next]_vars /\ [NoReset]_vars => SeatInv'
  BY NextSeatInv
<1>3. SeatInv => SeatsAreBound
  BY DEF SeatInv
<1> QED BY <1>1, <1>2, <1>3, IInvHolds, PTL DEF Spec

-----------------------------------------------------------------------------
(* The head of the chain.                                                  *)

Quiet == {"queued", "project"}

\* The head of the chain after a step of the handler there.
LEMMA HeadAfter ==
  ASSUME IInv, queue # << >>
  PROVE  /\ Finishes => queue' = << >> \/ queue'[1].pc \in Quiet
         /\ \A g \in HandlerRecord :
              queue' = ReplaceAt(queue, 1, g) => queue' # << >> /\ queue'[1] = g
<1>1. queue \in Seq(HandlerRecord) /\ OneRuns
  BY DEF IInv
<1>2. ASSUME NEW g \in HandlerRecord, queue' = ReplaceAt(queue, 1, g)
      PROVE  queue' # << >> /\ queue'[1] = g
  <2>1. queue' \in Seq(HandlerRecord) /\ 1 \in DOMAIN queue' /\ queue'[1] = g
    BY <1>1, <1>2, ReplaceHead
  <2> QED BY <2>1, EmptySeq, LenProperties
<1>3. CASE queue' = RemoveAt(queue, 1)
  <2>1. /\ queue' \in Seq(HandlerRecord) /\ DOMAIN queue' = 1 .. Len(queue) - 1
        /\ \A i \in DOMAIN queue' : queue'[i] = queue[i + 1]
    BY <1>1, <1>3, RemoveHead
  <2>2. queue' # << >> => 1 \in DOMAIN queue'
    BY <2>1, EmptySeq, LenProperties
  <2>3. Len(queue) \in Nat /\ DOMAIN queue = 1 .. Len(queue)
    BY <1>1, LenProperties
  <2>4. queue' # << >> => queue'[1] = queue[2] /\ 2 \in DOMAIN queue
    BY <2>1, <2>2, <2>3
  <2>5. queue' # << >> => queue'[1].pc = "queued"
    BY <1>1, <2>4 DEF OneRuns
  <2> QED BY <1>2, <2>5 DEF Quiet
<1>4. CASE \E h : GoesOnAs(h) /\ h.pc = "project"
  BY <1>2, <1>4 DEF GoesOnAs, Quiet
<1> QED BY <1>2, <1>3, <1>4 DEF Finishes

\* And after another sandbox call by it.
LEMMA HeadCalls ==
  ASSUME IInv, queue # << >>, NEW h \in HandlerRecord,
         NEW pc \in {"seats", "seed", "probe", "migrate", "reprobe", "reset", "reduce"},
         NEW s \in State, Call(1, h, pc, s)
  PROVE  /\ queue' # << >>
         /\ queue'[1].pc = pc /\ queue'[1].state = s
         /\ queue'[1].live = h.live /\ queue'[1].code = active
<1>1. PICK g : /\ g = [h EXCEPT !.pc = pc, !.code = active, !.state = s]
               /\ queue' = ReplaceAt(queue, 1, g)
  BY DEF Call
<1>2. g = [kind |-> h.kind, conn |-> h.conn, move |-> h.move, seat |-> h.seat,
           pc |-> pc, live |-> h.live, code |-> active, state |-> s,
           players |-> h.players, to |-> h.to]
  BY <1>1 DEF HandlerRecord
<1>3. active \in Nat
  BY RoomAssumption DEF IInv
<1>4. g \in HandlerRecord
  BY <1>2, <1>3 DEF HandlerRecord, State
<1>5. queue' # << >> /\ queue'[1] = g
  BY <1>1, <1>4, HeadAfter
<1> QED BY <1>2, <1>5

\* What clients do to the chain leaves its head as it is.
LEMMA HeadStays ==
  ASSUME IInv, NEW c \in Conns,
         Connect(c) \/ (\E move \in Moves : Send(c, move)) \/ Close(c)
  PROVE  /\ UNCHANGED <<active, room>>
         /\ queue # << >> => queue' # << >> /\ queue'[1] = queue[1]
         /\ queue = << >> => queue' = << >> \/ queue'[1].pc = "queued"
<1>1. UNCHANGED <<active, room>>
  BY DEF Connect, Send, Close, clients
<1>2. (UNCHANGED queue) \/ \E h \in HandlerRecord : h.pc = "queued" /\ queue' = Append(queue, h)
  <2>1. seatOf[c] \in Seats \cup {None}
    BY DEF IInv, ClientTypes
  <2>2. ASSUME NEW kind \in {"connect", "message", "close"},
               NEW move \in Moves \cup {None}, NEW seat \in Seats \cup {None},
               queue' = Append(queue, Handler(kind, c, move, seat))
        PROVE  \E h \in HandlerRecord : h.pc = "queued" /\ queue' = Append(queue, h)
    <3>1. /\ Handler(kind, c, move, seat) \in HandlerRecord
          /\ Handler(kind, c, move, seat).pc = "queued"
      BY EmptySeq DEF Handler, HandlerRecord, NoState, AppState
    <3> HIDE DEF HandlerRecord
    <3> QED BY <2>2, <3>1
  <2>3. CASE Connect(c)
    BY <2>2, <2>3 DEF Connect, Enqueue
  <2>4. CASE \E move \in Moves : Send(c, move)
    BY <2>1, <2>2, <2>4 DEF Send, Enqueue
  <2>5. CASE Close(c)
    BY <2>2, <2>5 DEF Close, Enqueue
  <2> QED BY <2>3, <2>4, <2>5
<1>3. ASSUME NEW h \in HandlerRecord, h.pc = "queued", queue' = Append(queue, h)
      PROVE  /\ queue' # << >>
             /\ queue # << >> => queue'[1] = queue[1]
             /\ queue = << >> => queue'[1].pc = "queued"
  BY <1>3, AddLast DEF IInv
<1> QED BY <1>1, <1>2, <1>3

-----------------------------------------------------------------------------
(* Stamps say what they are put on.                                        *)

Refreshing == {"seed", "probe", "migrate", "reprobe", "reset"}

\* While a handler is in ensureFreshState, the seat pool is that of the version
\* it read; when it awaits its reducer, the stamp is that version.
ReadInv ==
  queue # << >> =>
    /\ queue[1].pc = "seats" => queue[1].code = queue[1].live
    /\ queue[1].pc \in Refreshing => room.seatNames = SeatNames[queue[1].live]
    /\ queue[1].pc = "reduce" => room.stateVersion = queue[1].live

\* What ReadInv and StampsFit ask of a step by a handler.
StampStep ==
  room' # room =>
    \/ Overtaken(queue[1])
    \/ /\ ShapeFits(room) => ShapeFits(room')
       /\ room'.stateVersion # room.stateVersion =>
            room'.seatNames = SeatNames[room'.stateVersion]

LEMMA FinishRead ==
  ASSUME IInv, queue # << >>, Finishes
  PROVE  ReadInv'
BY HeadAfter DEF ReadInv, Quiet, Refreshing

LEMMA ProceedRead ==
  ASSUME IInv, queue # << >>,
         NEW h \in HandlerRecord, h.kind = queue[1].kind, h.move = queue[1].move,
         NEW r \in Room, r.stateVersion = h.live, Proceed(1, h, r)
  PROVE  /\ ReadInv'
         /\ room'.state = r.state /\ room'.stateVersion = r.stateVersion
         /\ room'.seatNames = r.seatNames
<1>1. CASE Join(1, h, r)
  BY <1>1, JoinFinishes, FinishRead
<1>2. CASE room' = r /\ Call(1, h, "reduce", r.state)
  <2>1. r.state \in State
    BY DEF Room
  <2>2. queue' # << >> /\ queue'[1].pc = "reduce" /\ queue'[1].live = h.live
    BY <1>2, <2>1, HeadCalls
  <2> QED BY <1>2, <2>2 DEF ReadInv, Refreshing
<1> QED BY <1>1, <1>2 DEF Proceed

LEMMA CheckStateRead ==
  ASSUME IInv, queue # << >>,
         NEW h \in HandlerRecord, h.kind = queue[1].kind, h.move = queue[1].move,
         h.live \in Versions,
         NEW r \in Room, r.state = room.state, r.stateVersion = room.stateVersion,
         r.stateVersion # h.live => r.seatNames = SeatNames[h.live],
         CheckState(1, h, r)
  PROVE  ReadInv' /\ StampStep
<1>1. CASE r.stateVersion = h.live /\ Proceed(1, h, r)
  BY <1>1, ProceedRead DEF StampStep, ShapeFits
<1>2. CASE /\ r.state = NoState \/ r.stateVersion # h.live
           /\ Call(1, h, IF r.state = NoState THEN "seed" ELSE "probe", r.state)
           /\ room' = r
  <2>1. PICK pc \in {"seed", "probe"} : Call(1, h, pc, r.state)
    BY <1>2
  <2>2. r.state \in State
    BY DEF Room
  <2>3. queue' # << >> /\ queue'[1].pc = pc /\ queue'[1].live = h.live
    BY <2>1, <2>2, HeadCalls
  <2>4. r.stateVersion # h.live
    BY <1>2, RoomAssumption DEF IInv, Fresh
  <2>5. ReadInv'
    BY <1>2, <2>3, <2>4 DEF ReadInv
  <2>6. StampStep
    BY <1>2 DEF StampStep, ShapeFits
  <2> QED BY <2>5, <2>6
<1> QED BY <1>1, <1>2 DEF CheckState

LEMMA RunRead ==
  ASSUME IInv, ReadInv, Run(1)
  PROVE  ReadInv' /\ StampStep
<1>1. /\ queue # << >> /\ queue[1] \in HandlerRecord /\ Agrees(queue[1], room)
      /\ active' = active
  BY HeadOfChain DEF Run, EnsureFreshState, SeatsLoaded, SeedInitialState, ResetState,
     Seeded, KeepState, TryMigrate, Migrated, GiveUp, Reduced, Rejected, OnClose,
     Projected, SandboxThrows, At, Turn
<1>2. /\ room \in Room /\ room.state \in State /\ queue[1].state \in State
      /\ active \in Versions /\ active \in Nat
  BY <1>1, RoomAssumption DEF IInv, Room, HandlerRecord, State
<1>3. queue[1].pc \notin Quiet => queue[1].live \in Versions /\ queue[1].code \in Versions
  BY <1>1 DEF Agrees, Quiet
<1>4. /\ queue[1].pc = "seats" => queue[1].code = queue[1].live
      /\ queue[1].pc \in Refreshing => room.seatNames = SeatNames[queue[1].live]
      /\ queue[1].pc = "reduce" => room.stateVersion = queue[1].live
  BY <1>1 DEF ReadInv
<1>5. NoState \in State
  BY EmptySeq DEF NoState, AppState, State
<1>6. CASE EnsureFreshState(1)
  <2>1. PICK h : h = [queue[1] EXCEPT !.live = active]
    OBVIOUS
  <2>2. h \in HandlerRecord /\ h.kind = queue[1].kind /\ h.move = queue[1].move
        /\ h.live = active
    BY <1>1, <1>2, <2>1 DEF HandlerRecord
  <2>3. CASE Call(1, h, "seats", NoState) /\ room' = room
    <3>1. queue' # << >> /\ queue'[1].pc = "seats" /\ queue'[1].live = active
          /\ queue'[1].code = active
      BY <1>1, <1>5, <2>2, <2>3, HeadCalls
    <3> QED BY <2>3, <3>1 DEF ReadInv, Refreshing, StampStep
  <2>4. CASE room.stateVersion = active /\ CheckState(1, h, room)
    BY <1>1, <1>2, <2>2, <2>4, CheckStateRead
  <2> QED BY <1>6, <2>1, <2>3, <2>4 DEF EnsureFreshState
<1>7. CASE SeatsLoaded(1)
  <2>1. queue[1].live \in Versions /\ queue[1].code = queue[1].live
    BY <1>3, <1>4, <1>7 DEF SeatsLoaded, At, Quiet
  <2>2. PICK r : r = [room EXCEPT !.seatNames = SeatNames[queue[1].code]]
    OBVIOUS
  <2>3. /\ r \in Room /\ r.state = room.state /\ r.stateVersion = room.stateVersion
        /\ r.seatNames = SeatNames[queue[1].live]
    BY <1>2, <2>1, <2>2, RoomAssumption DEF Room
  <2>4. CheckState(1, queue[1], r)
    BY <1>7, <2>2 DEF SeatsLoaded
  <2> QED BY <1>1, <2>1, <2>3, <2>4, CheckStateRead
<1>8. ASSUME NEW r \in Room, r.stateVersion = queue[1].live, queue[1].pc \in Refreshing,
             r.seatNames = room.seatNames, Proceed(1, queue[1], r),
             queue[1].code = queue[1].live => r.state.shape = Shape[queue[1].live]
      PROVE  ReadInv' /\ StampStep
  <2>1. /\ ReadInv'
        /\ room'.state = r.state /\ room'.stateVersion = r.stateVersion
        /\ room'.seatNames = r.seatNames
    BY <1>1, <1>8, ProceedRead
  <2>2. room'.seatNames = SeatNames[room'.stateVersion]
    BY <1>4, <1>8, <2>1
  <2>3. ~Overtaken(queue[1]) => ShapeFits(room')
    BY <1>8, <2>1 DEF Overtaken, ShapeFits
  <2> QED BY <2>1, <2>2, <2>3 DEF StampStep
<1>9. ASSUME NEW pc \in {"seed", "reset"}, NEW seats \in [Seats -> Players \cup {None}],
             Seeded(1, pc, seats)
      PROVE  ReadInv' /\ StampStep
  <2>1. /\ queue[1].live \in Versions /\ queue[1].code \in Versions
        /\ queue[1].pc \in Refreshing
    BY <1>3, <1>9 DEF Seeded, At, Quiet, Refreshing
  <2>2. PICK s : s = AppState(Shape[queue[1].code], << >>)
    OBVIOUS
  <2>3. s \in State /\ s.shape = Shape[queue[1].code]
    BY <2>1, <2>2, EmptySeq, ShapeOfCode
  <2>4. PICK r : r = [Stamped(s, queue[1].live) EXCEPT !.seats = seats]
    OBVIOUS
  <2>5. /\ r \in Room /\ r.state = s /\ r.stateVersion = queue[1].live
        /\ r.seatNames = room.seatNames
    BY <1>2, <1>9, <2>1, <2>3, <2>4 DEF Stamped, Room
  <2>6. Proceed(1, queue[1], r)
    BY <1>9, <2>2, <2>4 DEF Seeded
  <2> QED BY <1>8, <2>1, <2>3, <2>5, <2>6
<1>10. CASE SeedInitialState(1) \/ ResetState(1)
  <2>1. room.seats \in [Seats -> Players \cup {None}]
    BY <1>2 DEF Room
  <2>2. EmptyRoom.seats \in [Seats -> Players \cup {None}]
    BY DEF EmptyRoom
  <2> QED BY <1>9, <1>10, <2>1, <2>2 DEF SeedInitialState, ResetState
<1>11. CASE KeepState(1)
  <2>1. queue[1].live \in Versions /\ queue[1].pc \in Refreshing
    BY <1>3, <1>11 DEF KeepState, At, Quiet, Refreshing
  <2>2. PICK r : r = Stamped(queue[1].state, queue[1].live)
    OBVIOUS
  <2>3. /\ r \in Room /\ r.stateVersion = queue[1].live /\ r.state = queue[1].state
        /\ r.seatNames = room.seatNames
    BY <1>2, <2>1, <2>2 DEF Stamped, Room
  <2>4. Proceed(1, queue[1], r) /\ r.state.shape = Shape[queue[1].code]
    BY <1>11, <2>2, <2>3 DEF KeepState, Compatible
  <2> QED BY <1>8, <2>1, <2>3, <2>4
<1>12. ASSUME NEW pc \in {"migrate", "reprobe", "reset"}, NEW s \in State,
              queue[1].pc \in Refreshing, Call(1, queue[1], pc, s), room' = room
       PROVE  ReadInv' /\ StampStep
  <2>1. queue' # << >> /\ queue'[1].pc = pc /\ queue'[1].live = queue[1].live
    BY <1>1, <1>12, HeadCalls
  <2> QED BY <1>4, <1>12, <2>1 DEF ReadInv, StampStep
<1>13. CASE TryMigrate(1)
  BY <1>2, <1>12, <1>13 DEF TryMigrate, At, Refreshing
<1>14. CASE Migrated(1)
  <2>1. queue[1].code \in Versions
    BY <1>3, <1>14 DEF Migrated, At, Quiet
  <2>2. PICK s : s = AppState(Shape[queue[1].code], queue[1].state.log)
    OBVIOUS
  <2>3. s \in State
    BY <1>2, <2>1, <2>2, ShapeOfCode DEF State
  <2>4. Call(1, queue[1], "reprobe", s) /\ queue[1].pc \in Refreshing /\ room' = room
    BY <1>14, <2>2 DEF Migrated, At, Refreshing
  <2> QED BY <1>12, <2>3, <2>4
<1>15. CASE GiveUp(1)
  BY <1>5, <1>12, <1>15 DEF GiveUp, At, Refreshing
<1>16. CASE Reduced(1)
  <2>1. PICK s \in {queue[1].state, [queue[1].state EXCEPT !.log = Append(@, queue[1].move)]} :
           /\ room' = Stamped(s, active)
           /\ BroadcastState(1, queue[1], room, s, Joined)
    BY <1>16 DEF Reduced
  <2>2. queue[1].pc = "reduce" /\ queue[1].kind = "message" /\ queue[1].state = room.state
    BY <1>1, <1>16 DEF Reduced, At, Agrees
  <2>3. s.shape = room.state.shape
    BY <1>2, <2>1, <2>2 DEF State
  <2>4. /\ room'.state = s /\ room'.stateVersion = active
        /\ room'.seatNames = room.seatNames
    BY <1>2, <2>1 DEF Stamped, Room
  <2>5. Finishes
    <3>1. queue[1].move \in Moves
      BY <1>1, <2>2, HeadOfChain DEF IInv, SentOnce, IsMessage
    <3>2. Append(queue[1].state.log, queue[1].move) \in Seq(Moves)
      BY <1>2, <3>1, AppendProperties DEF State
    <3>3. s \in State
      BY <1>2, <2>1, <3>2 DEF State
    <3> QED BY <1>1, <1>2, <2>1, <3>3, BroadcastFinishes
  <2>6. StampStep
    BY <1>4, <2>2, <2>3, <2>4 DEF StampStep, ShapeFits, Overtaken
  <2> QED BY <1>1, <2>5, <2>6, FinishRead
<1>17. CASE Rejected(1) \/ SandboxThrows(1) \/ Projected(1)
  BY <1>1, <1>17, FinishRead
     DEF Rejected, SandboxThrows, Projected, Done, Finishes, StampStep
<1>18. CASE OnClose(1)
  <2>1. BroadcastState(1, queue[1], room, room.state, Joined) /\ room' = room
    BY <1>18 DEF OnClose
  <2>2. Finishes
    BY <1>1, <1>2, <2>1, BroadcastFinishes
  <2> QED BY <1>1, <2>1, <2>2, FinishRead DEF StampStep
<1> QED BY <1>6, <1>7, <1>10, <1>11, <1>13, <1>14, <1>15, <1>16, <1>17, <1>18 DEF Run

\* Every step of the system keeps ReadInv, and only handlers write the room.
LEMMA NextRead ==
  ASSUME IInv, ReadInv, [Next]_vars
  PROVE  ReadInv' /\ StampStep
<1>1. ASSUME NEW i \in 1 .. MaxQueue, Run(i) PROVE ReadInv' /\ StampStep
  <2>1. i = 1
    BY <1>1 DEF Run, EnsureFreshState, SeatsLoaded, SeedInitialState, ResetState, Seeded,
       KeepState, TryMigrate, Migrated, GiveUp, Reduced, Rejected, OnClose, Projected,
       SandboxThrows, At, Turn
  <2> QED BY <1>1, <2>1, RunRead
<1>2. ASSUME NEW c \in Conns,
             Connect(c) \/ (\E move \in Moves : Send(c, move)) \/ Close(c)
      PROVE  ReadInv' /\ StampStep
  BY <1>2, HeadStays DEF ReadInv, StampStep, Refreshing
<1>3. ASSUME NEW v \in Versions, Promote(v) PROVE ReadInv' /\ StampStep
  BY <1>3 DEF Promote, ReadInv, StampStep
<1>4. CASE Restart
  BY <1>4 DEF Restart, ReadInv, StampStep
<1>5. CASE UNCHANGED vars
  BY <1>5 DEF vars, ReadInv, StampStep
<1> QED BY <1>1, <1>2, <1>3, <1>4, <1>5 DEF Next

\* A handler that was not promoted past leaves the stored state in the shape of
\* the version it is stamped with, and new stamps with their seat pool, wherever
\* promotes, faults, failing reducers and restarts fall (ensureFreshState,
\* onMessage).
THEOREM StampsAreRight == Spec => StampsFit
<1>1. Init => ReadInv
  BY DEF Init, ReadInv
<1>2. IInv /\ ReadInv /\ [Next]_vars => ReadInv'
  BY NextRead
<1>3. IInv /\ ReadInv /\ [Next]_vars =>
        [room' # room =>
           \/ Overtaken(queue[1])
           \/ /\ ShapeFits(room) => ShapeFits(room')
              /\ room'.stateVersion # room.stateVersion =>
                   room'.seatNames = SeatNames[room'.stateVersion]]_vars
  BY NextRead DEF StampStep
<1> QED BY <1>1, <1>2, <1>3, IInvHolds, PTL DEF Spec, StampsFit

-----------------------------------------------------------------------------
(* When the chain is idle, every client has the current frame.             *)

\* If only a broadcast is left in the chain, it is of the current state, to all.
SeenInv ==
  /\ QuietClientsSeeState
  /\ queue # << >> /\ queue[1].pc = "project" /\ 2 \notin DOMAIN queue
       => /\ Joined \subseteq queue[1].to
          /\ queue[1].state = room.state
          /\ queue[1].players = Presence(room, Joined)

LEMMA BroadcastSeen ==
  ASSUME IInv, queue # << >>, NEW h \in HandlerRecord,
         NEW r \in Room, NEW s \in State, NEW joined, BroadcastState(1, h, r, s, joined),
         room'.state = s, Presence(room', Joined') = Presence(r, joined),
         Joined' \subseteq Connected
  PROVE  SeenInv'
<1>1. CASE Connected = {}
  <2>1. Finishes
    BY <1>1 DEF BroadcastState, Done, Finishes
  <2>2. queue' = << >> \/ queue'[1].pc = "queued"
    <3>1. queue \in Seq(HandlerRecord) /\ OneRuns
      BY DEF IInv
    <3>2. /\ queue' \in Seq(HandlerRecord) /\ DOMAIN queue' = 1 .. Len(queue) - 1
          /\ \A i \in DOMAIN queue' : queue'[i] = queue[i + 1]
      BY <1>1, <3>1, RemoveHead DEF BroadcastState, Done
    <3>3. queue' # << >> => 1 \in DOMAIN queue'
      BY <3>2, EmptySeq, LenProperties
    <3>4. Len(queue) \in Nat /\ DOMAIN queue = 1 .. Len(queue)
      BY <3>1, LenProperties
    <3>5. queue' # << >> => queue'[1] = queue[2] /\ 2 \in DOMAIN queue
      BY <3>2, <3>3, <3>4
    <3> QED BY <3>1, <3>5 DEF OneRuns
  <2> QED BY <1>1, <2>2 DEF SeenInv, QuietClientsSeeState
<1>2. CASE Connected # {}
  <2>1. PICK g : /\ g = [h EXCEPT !.pc = "project", !.code = active, !.state = s,
                              !.players = Presence(r, joined), !.to = Connected]
                 /\ queue' = ReplaceAt(queue, 1, g)
    BY <1>2 DEF BroadcastState
  <2>2. g = [kind |-> h.kind, conn |-> h.conn, move |-> h.move, seat |-> h.seat,
             pc |-> "project", live |-> h.live, code |-> active, state |-> s,
             players |-> Presence(r, joined), to |-> Connected]
    BY <2>1 DEF HandlerRecord
  <2>3. active \in Nat /\ Connected \subseteq Conns /\ Presence(r, joined) \subseteq Seats
    BY RoomAssumption, PresenceType DEF IInv, Connected
  <2>4. g \in HandlerRecord
    BY <2>2, <2>3 DEF HandlerRecord, State
  <2>5. queue' # << >> /\ queue'[1] = g
    BY <2>1, <2>4, HeadAfter
  <2> QED BY <2>2, <2>5 DEF SeenInv, QuietClientsSeeState
<1> QED BY <1>1, <1>2

LEMMA CallSeen ==
  ASSUME IInv, queue # << >>, NEW h \in HandlerRecord,
         NEW pc \in {"seats", "seed", "probe", "migrate", "reprobe", "reset", "reduce"},
         NEW s \in State, Call(1, h, pc, s)
  PROVE  SeenInv'
BY HeadCalls DEF SeenInv, QuietClientsSeeState

LEMMA ProceedSeen ==
  ASSUME IInv, queue # << >>, NEW h \in HandlerRecord, h.kind = queue[1].kind,
         h.move = queue[1].move, NEW r \in Room, Proceed(1, h, r)
  PROVE  SeenInv'
<1>1. r.state \in State
  BY DEF Room
<1>2. CASE Join(1, h, r)
  <2> DEFINE here == {h.conn} \cap Connected
  <2>1. PICK seated : /\ room' = seated
                      /\ link' = [c \in Conns |-> IF c \in here THEN "joined" ELSE link[c]]
                      /\ BroadcastState(1, h, seated, r.state, Joined \cup here)
    BY <1>2 DEF Join
  <2>2. room' \in Room /\ room'.state = r.state
    BY <1>2, JoinFinishes
  <2>3. Joined' = Joined \cup here /\ Joined' \subseteq Connected
    BY <2>1 DEF Joined, Connected
  <2> HIDE DEF here
  <2> QED BY <1>1, <2>1, <2>2, <2>3, BroadcastSeen
<1>3. CASE Call(1, h, "reduce", r.state)
  BY <1>1, <1>3, CallSeen
<1> QED BY <1>2, <1>3 DEF Proceed

LEMMA CheckStateSeen ==
  ASSUME IInv, queue # << >>, NEW h \in HandlerRecord, h.kind = queue[1].kind,
         h.move = queue[1].move, NEW r \in Room, CheckState(1, h, r)
  PROVE  SeenInv'
<1>1. CASE Proceed(1, h, r)
  BY <1>1, ProceedSeen
<1>2. CASE Call(1, h, IF r.state = NoState THEN "seed" ELSE "probe", r.state)
  <2>1. PICK pc \in {"seed", "probe"} : Call(1, h, pc, r.state)
    BY <1>2
  <2>2. r.state \in State
    BY DEF Room
  <2> QED BY <2>1, <2>2, CallSeen
<1> QED BY <1>1, <1>2 DEF CheckState

LEMMA ProjectedSeen ==
  ASSUME IInv, SeenInv, Projected(1)
  PROVE  SeenInv'
<1>1. /\ queue # << >> /\ queue[1] \in HandlerRecord /\ queue[1].pc = "project"
      /\ UNCHANGED <<room, link>>
      /\ queue' = RemoveAt(queue, 1)
  BY HeadOfChain DEF Projected, At, Turn, Done
<1>2. PICK to \in {queue[1].to, Conns} : Deliver(to, Frame(queue[1].state, queue[1].players))
  BY DEF Projected
<1>3. queue \in Seq(HandlerRecord) /\ OneRuns
  BY DEF IInv
<1>4. /\ queue' \in Seq(HandlerRecord) /\ DOMAIN queue' = 1 .. Len(queue) - 1
      /\ \A i \in DOMAIN queue' : queue'[i] = queue[i + 1]
  BY <1>1, <1>3, RemoveHead
<1>5. Len(queue) \in Nat /\ DOMAIN queue = 1 .. Len(queue)
  BY <1>3, LenProperties
<1>6. CASE 2 \in DOMAIN queue
  <2>1. 1 \in DOMAIN queue' /\ queue'[1] = queue[2]
    BY <1>4, <1>5, <1>6
  <2>2. queue' # << >> /\ queue'[1].pc = "queued"
    BY <1>3, <1>4, <1>6, <2>1, EmptySeq, LenProperties DEF OneRuns
  <2> QED BY <2>2 DEF SeenInv, QuietClientsSeeState
<1>7. CASE 2 \notin DOMAIN queue
  <2>1. /\ Joined \subseteq queue[1].to
        /\ queue[1].state = room.state
        /\ queue[1].players = Presence(room, Joined)
    BY <1>1, <1>7 DEF SeenInv
  <2>2. 1 \notin DOMAIN queue'
    BY <1>4, <1>5, <1>7
  <2>3. queue' = << >>
    BY <1>4, <2>2, EmptySeq, LenProperties
  <2>4. Joined' = Joined /\ Presence(room', Joined') = Presence(room, Joined)
    BY <1>1 DEF Joined
  <2>5. \A c \in Joined : seen'[c] = Frame(room.state, Presence(room, Joined))
    BY <1>2, <2>1 DEF Deliver, Joined
  <2> QED BY <1>1, <2>3, <2>4, <2>5 DEF SeenInv, QuietClientsSeeState
<1> QED BY <1>6, <1>7

LEMMA RunSeen ==
  ASSUME FaultsAt = {}, ~Rejects, IInv, SeenInv, Run(1)
  PROVE  SeenInv'
<1>1. /\ queue # << >> /\ queue[1] \in HandlerRecord /\ Agrees(queue[1], room)
      /\ active' = active
  BY HeadOfChain DEF Run, EnsureFreshState, SeatsLoaded, SeedInitialState, ResetState,
     Seeded, KeepState, TryMigrate, Migrated, GiveUp, Reduced, Rejected, OnClose,
     Projected, SandboxThrows, At, Turn
<1>2. /\ room \in Room /\ room.state \in State /\ queue[1].state \in State
      /\ active \in Versions /\ active \in Nat
  BY <1>1, RoomAssumption DEF IInv, Room, HandlerRecord, State
<1>3. queue[1].pc \notin Quiet => queue[1].live \in Versions /\ queue[1].code \in Versions
  BY <1>1 DEF Agrees, Quiet
<1>4. NoState \in State
  BY EmptySeq DEF NoState, AppState, State
<1>5. CASE EnsureFreshState(1)
  <2>1. PICK h : h = [queue[1] EXCEPT !.live = active]
    OBVIOUS
  <2>2. h \in HandlerRecord /\ h.kind = queue[1].kind /\ h.move = queue[1].move
    BY <1>1, <1>2, <2>1 DEF HandlerRecord
  <2>3. CASE Call(1, h, "seats", NoState)
    BY <1>1, <1>4, <2>2, <2>3, CallSeen
  <2>4. CASE CheckState(1, h, room)
    BY <1>1, <1>2, <2>2, <2>4, CheckStateSeen
  <2> QED BY <1>5, <2>1, <2>3, <2>4 DEF EnsureFreshState
<1>6. CASE SeatsLoaded(1)
  <2>1. queue[1].code \in Versions
    BY <1>3, <1>6 DEF SeatsLoaded, At, Quiet
  <2>2. PICK r : r = [room EXCEPT !.seatNames = SeatNames[queue[1].code]]
    OBVIOUS
  <2>3. r \in Room
    BY <1>2, <2>1, <2>2, RoomAssumption DEF Room
  <2>4. CheckState(1, queue[1], r)
    BY <1>6, <2>2 DEF SeatsLoaded
  <2> QED BY <1>1, <2>3, <2>4, CheckStateSeen
<1>7. ASSUME NEW pc \in {"seed", "reset"}, NEW seats \in [Seats -> Players \cup {None}],
             Seeded(1, pc, seats)
      PROVE  SeenInv'
  <2>1. queue[1].live \in Versions /\ queue[1].code \in Versions
    BY <1>3, <1>7 DEF Seeded, At, Quiet
  <2>2. PICK s : s = AppState(Shape[queue[1].code], << >>)
    OBVIOUS
  <2>3. s \in State
    BY <2>1, <2>2, EmptySeq, ShapeOfCode
  <2>4. PICK r : r = [Stamped(s, queue[1].live) EXCEPT !.seats = seats]
    OBVIOUS
  <2>5. r \in Room
    BY <1>2, <1>7, <2>1, <2>3, <2>4 DEF Stamped, Room
  <2>6. Proceed(1, queue[1], r)
    BY <1>7, <2>2, <2>4 DEF Seeded
  <2> QED BY <1>1, <2>5, <2>6, ProceedSeen
<1>8. CASE SeedInitialState(1) \/ ResetState(1)
  <2>1. room.seats \in [Seats -> Players \cup {None}]
    BY <1>2 DEF Room
  <2>2. EmptyRoom.seats \in [Seats -> Players \cup {None}]
    BY DEF EmptyRoom
  <2> QED BY <1>7, <1>8, <2>1, <2>2 DEF SeedInitialState, ResetState
<1>9. CASE KeepState(1)
  <2>1. queue[1].live \in Versions
    BY <1>3, <1>9 DEF KeepState, At, Quiet
  <2>2. PICK r : r = Stamped(queue[1].state, queue[1].live)
    OBVIOUS
  <2>3. r \in Room
    BY <1>2, <2>1, <2>2 DEF Stamped, Room
  <2>4. Proceed(1, queue[1], r)
    BY <1>9, <2>2 DEF KeepState
  <2> QED BY <1>1, <2>3, <2>4, ProceedSeen
<1>10. CASE TryMigrate(1)
  BY <1>1, <1>2, <1>10, CallSeen DEF TryMigrate
<1>11. CASE Migrated(1)
  <2>1. queue[1].code \in Versions
    BY <1>3, <1>11 DEF Migrated, At, Quiet
  <2>2. PICK s : s = AppState(Shape[queue[1].code], queue[1].state.log)
    OBVIOUS
  <2>3. s \in State
    BY <1>2, <2>1, <2>2, ShapeOfCode DEF State
  <2>4. Call(1, queue[1], "reprobe", s)
    BY <1>11, <2>2 DEF Migrated
  <2> QED BY <1>1, <2>3, <2>4, CallSeen
<1>12. CASE GiveUp(1)
  BY <1>1, <1>4, <1>12, CallSeen DEF GiveUp
<1>13. CASE Reduced(1)
  <2>1. PICK s : /\ s \in {queue[1].state} \cup
                        {[queue[1].state EXCEPT !.log = Append(@, queue[1].move)]}
                 /\ room' = Stamped(s, active) /\ link' = link
                 /\ BroadcastState(1, queue[1], room, s, Joined)
    BY <1>13 DEF Reduced
  <2>2. queue[1].move \in Moves
    BY <1>1, <1>13, HeadOfChain DEF Reduced, At, Agrees, IInv, SentOnce, IsMessage
  <2>3. Append(queue[1].state.log, queue[1].move) \in Seq(Moves)
    BY <1>2, <2>2, AppendProperties DEF State
  <2>4. s \in State
    BY <1>2, <2>1, <2>3 DEF State
  <2>5. /\ room'.state = s /\ room'.seats = room.seats
        /\ room'.seatNames = room.seatNames
    BY <1>2, <2>1, <2>4 DEF Stamped, Room
  <2>6. Joined' = Joined /\ Joined' \subseteq Connected
    BY <2>1 DEF Joined, Connected
  <2>7. Presence(room', Joined') = Presence(room, Joined)
    BY <2>5, <2>6 DEF Presence, Pool
  <2> QED BY <1>1, <1>2, <2>1, <2>4, <2>5, <2>6, <2>7, BroadcastSeen
<1>14. CASE OnClose(1)
  <2>1. BroadcastState(1, queue[1], room, room.state, Joined) /\ UNCHANGED <<room, link>>
    BY <1>14 DEF OnClose
  <2>2. Joined' = Joined /\ Joined' \subseteq Connected
    BY <2>1 DEF Joined, Connected
  <2>3. Presence(room', Joined') = Presence(room, Joined)
    BY <2>1, <2>2
  <2> QED BY <1>1, <1>2, <2>1, <2>2, <2>3, BroadcastSeen
<1>15. CASE Projected(1)
  BY <1>15, ProjectedSeen
<1>16. ~Rejected(1) /\ ~SandboxThrows(1)
  BY DEF Rejected, SandboxThrows
<1> QED BY <1>5, <1>6, <1>8, <1>9, <1>10, <1>11, <1>12, <1>13, <1>14, <1>15, <1>16 DEF Run

\* A client's step that adds a handler makes room for another broadcast; one
\* that does not is a spectator's and no player's.
LEMMA ClientSeen ==
  ASSUME IInv, SeenInv, NEW c \in Conns,
         Connect(c) \/ (\E move \in Moves : Send(c, move)) \/ Close(c)
  PROVE  SeenInv'
<1>1. CASE UNCHANGED queue /\ c \in Spectators
  <2>1. Joined' = Joined /\ room' = room
    BY <1>1 DEF Connect, Send, Close, Joined, IInv, ClientTypes, clients
  <2>2. \A d \in Joined : seen'[d] = seen[d]
    BY <1>1 DEF Connect, Send, Close, Joined, IInv, ClientTypes, clients
  <2> QED BY <1>1, <2>1, <2>2 DEF SeenInv, QuietClientsSeeState
<1>2. ASSUME NEW kind \in {"connect", "message", "close"},
             NEW move \in Moves \cup {None}, NEW seat \in Seats \cup {None},
             queue' = Append(queue, Handler(kind, c, move, seat))
      PROVE  SeenInv'
  <2>1. PICK h \in HandlerRecord : h.pc = "queued" /\ queue' = Append(queue, h)
    <3>1. /\ Handler(kind, c, move, seat) \in HandlerRecord
          /\ Handler(kind, c, move, seat).pc = "queued"
      BY EmptySeq DEF Handler, HandlerRecord, NoState, AppState
    <3> HIDE DEF HandlerRecord
    <3> QED BY <1>2, <3>1
  <2>2. queue \in Seq(HandlerRecord)
    BY DEF IInv
  <2>3. /\ DOMAIN queue' = DOMAIN queue \cup {Len(queue) + 1} /\ queue' # << >>
        /\ queue = << >> => queue'[1].pc = "queued"
        /\ queue # << >> => 1 \in DOMAIN queue
    BY <2>1, <2>2, AddLast
  <2>4. queue # << >> => 2 \in DOMAIN queue'
    <3>1. Len(queue) \in Nat /\ DOMAIN queue = 1 .. Len(queue)
      BY <2>2, LenProperties
    <3> QED BY <2>3, <3>1
  <2> QED BY <2>3, <2>4 DEF SeenInv, QuietClientsSeeState
<1>3. seatOf[c] \in Seats \cup {None}
  BY DEF IInv, ClientTypes
<1>4. CASE Connect(c)
  BY <1>1, <1>2, <1>4 DEF Connect, Enqueue
<1>5. CASE \E move \in Moves : Send(c, move)
  BY <1>2, <1>3, <1>5 DEF Send, Enqueue
<1>6. CASE Close(c)
  BY <1>1, <1>2, <1>6 DEF Close, Enqueue
<1> QED BY <1>4, <1>5, <1>6

LEMMA NextSeen ==
  ASSUME FaultsAt = {}, ~Rejects, IInv, SeenInv, [Next]_vars
  PROVE  SeenInv'
<1>1. ASSUME NEW i \in 1 .. MaxQueue, Run(i) PROVE SeenInv'
  <2>1. i = 1
    BY <1>1 DEF Run, EnsureFreshState, SeatsLoaded, SeedInitialState, ResetState, Seeded,
       KeepState, TryMigrate, Migrated, GiveUp, Reduced, Rejected, OnClose, Projected,
       SandboxThrows, At, Turn
  <2> QED BY <1>1, <2>1, RunSeen
<1>2. ASSUME NEW v \in Versions, Promote(v) PROVE SeenInv'
  BY <1>2 DEF Promote, clients, SeenInv, QuietClientsSeeState, Joined
<1>3. CASE Restart
  BY <1>3 DEF Restart, SeenInv, QuietClientsSeeState, Joined
<1>4. CASE UNCHANGED vars
  BY <1>4 DEF vars, SeenInv, QuietClientsSeeState, Joined
<1> QED BY <1>1, <1>2, <1>3, <1>4, ClientSeen DEF Next

\* As long as no sandbox call fails, every player has the current state and
\* presence whenever the chain is idle, whatever joins, leaves, promotes, resets
\* and restarts came: no broadcast is skipped, overtaken or sent too early.
THEOREM ClientsCatchUp ==
  ASSUME FaultsAt = {}, ~Rejects
  PROVE  Spec => []QuietClientsSeeState
<1>1. Init => SeenInv
  BY DEF Init, SeenInv, QuietClientsSeeState, Joined
<1>2. IInv /\ SeenInv /\ [Next]_vars => SeenInv'
  BY NextSeen
<1>3. SeenInv => QuietClientsSeeState
  BY DEF SeenInv
<1> QED BY <1>1, <1>2, <1>3, IInvHolds, PTL DEF Spec
=============================================================================
