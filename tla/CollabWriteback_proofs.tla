---------------------- MODULE CollabWriteback_proofs ----------------------
(***************************************************************************)
(* Proofs about CollabWriteback, for any rooms and bounds: while no update *)
(* was lost on its way to the database, the last edit is stored or about   *)
(* to be; and a row that nothing is on its way to shows the last run and   *)
(* the last edit, unless an accident happened.                             *)
(***************************************************************************)
EXTENDS CollabWriteback, TLAPS

FlightType ==
    [pc : {"none", "snapped", "loaded", "written", "failed"},
     snap : Content, base : Content, epoch : 0 .. MaxVerdicts]

RoomType ==
    [state : {"unused", "creating", "live", "evicting", "gone"},
     clients : 0 .. MaxSessions, doc : Content, saving : SUBSET Fields, timer : BOOLEAN,
     flushing : BOOLEAN, dirty : BOOLEAN, epoch : 0 .. MaxVerdicts]

Typed ==
    /\ row \in Content /\ store \in Content \cup {None} /\ writer \in Content \cup {None}
    /\ queue \subseteq 1 .. MaxVerdicts /\ aged \subseteq queue /\ drain \subseteq 1 .. MaxVerdicts
    /\ current \in Rooms \cup {None}
    /\ room \in [Rooms -> RoomType] /\ flight \in [Rooms -> [Slots -> FlightType]]
    /\ last \in 0 .. MaxVerdicts /\ edits \in 0 .. MaxEdits /\ accidents \subseteq Accidents

\* Runs are numbered in the order they finish: what is queued, held by the
\* drain or in a document is never newer than the last, and the newest item of
\* the queue goes last, so that no drain takes a document back.
Counted ==
    /\ \A v \in queue : v <= last
    /\ queue # {} => last \in queue
    /\ aged # queue => last \notin aged
    /\ \A v \in drain : v <= last
    /\ drain # {} => store # None /\ \E m \in drain :
           /\ store.ev <= m /\ \A v \in drain : v <= m
           /\ \A r \in Rooms : room[r].doc.ev <= m
    /\ \A r \in Rooms : room[r].epoch <= room[r].doc.ev /\ room[r].doc.ev <= last
    /\ store # None => store.ev <= last
    /\ writer # None => last < MaxVerdicts

\* No update was lost on its way to the database.
Saved == "unsaved" \notin accidents

\* The life of a room, and how its materializer's flags stand to the
\* reconciles in flight.
RoomInv(r) ==
    /\ current = r <=> room[r].state = "live"
    /\ room[r].dirty => room[r].flushing
    /\ room[r].state # "evicting" => flight[r]["final"].pc = "none"
    /\ room[r].state \in {"unused", "creating"} => ~room[r].timer /\ ~room[r].flushing
    /\ room[r].state \notin {"live", "evicting"} => room[r].saving = {}
    /\ room[r].state \in {"unused", "creating", "live"} =>
           (room[r].flushing <=> flight[r]["timer"].pc # "none")
    /\ room[r].state = "creating" =>
           /\ current = None
           /\ store # None /\ Saved => room[r].doc = store
           /\ store = None => room[r].doc.note = 0
           /\ \A q \in Rooms : room[q].state = "creating" => q = r

\* What a replay gives when the rooms rm have stored what they have left in
\* addition to the updates st.
Replay(m, st) == [ev |-> IF "ev" \in m.saving THEN m.doc.ev ELSE st.ev,
                  note |-> IF "note" \in m.saving THEN m.doc.note ELSE st.note]
Holds(m) == m.saving # {}
DocOf(rm, st) ==
    IF \E r \in Rooms : Holds(rm[r]) THEN Replay(rm[CHOOSE r \in Rooms : Holds(rm[r])], st)
                                   ELSE st
Doc == DocOf(room, store)

\* A room that has updates to store is the only one, and no other is live or
\* being created.
Sole(rm) ==
    \A p, q \in Rooms : Holds(rm[p]) /\ (Holds(rm[q]) \/ rm[q].state \in {"live", "creating"})
                          => p = q

\* While nothing was lost, the document of a live room is what its updates add
\* up to, with the last edit.
Text ==
    /\ Sole(room)
    /\ \A r \in Rooms : current = r \/ Holds(room[r]) => Replay(room[r], store) = room[r].doc
    /\ current # None => Doc = room[current].doc
    /\ store # None => Doc.note = edits

\* Before there are any updates, no room was ever live and the row is the only
\* copy.
Seeds ==
    /\ current # None => store # None
    /\ store = None =>
          /\ edits = 0 /\ row.note = 0 /\ row.ev = last
          /\ writer # None => writer.note = 0
          /\ \A r \in Rooms : room[r].state \in {"unused", "creating"}

DocInv == Seeds /\ (Saved => Text)

IndInv == Typed /\ Counted /\ (\A r \in Rooms : RoomInv(r)) /\ DocInv

-----------------------------------------------------------------------------
LEMMA MaxIs ==
    ASSUME NEW S \in SUBSET Nat, NEW m \in S, \A v \in S : v <= m
    PROVE  Max(S) = m
  <1>1. \E x \in S : \A y \in S : x >= y
    OBVIOUS
  <1>2. Max(S) \in S /\ \A y \in S : Max(S) >= y
    BY <1>1 DEF Max
  <1>3. Max(S) \in Nat /\ m \in Nat /\ Max(S) >= m /\ Max(S) <= m
    BY <1>2
  <1>. QED
    BY <1>3

LEMMA ReplayIs ==
    ASSUME NEW m, NEW st \in Content
    PROVE  /\ Replay(m, st).ev = IF "ev" \in m.saving THEN m.doc.ev ELSE st.ev
           /\ Replay(m, st).note = IF "note" \in m.saving THEN m.doc.note ELSE st.note
           /\ m.saving = {} => Replay(m, st) = st
  <1>1. st = [ev |-> st.ev, note |-> st.note]
    BY DEF Content
  <1>2. m.saving = {} => Replay(m, st) = st
    BY <1>1 DEF Replay
  <1>. QED
    BY <1>2 DEF Replay

LEMMA DocNone ==
    ASSUME NEW rm, NEW st, \A r \in Rooms : ~Holds(rm[r])
    PROVE  DocOf(rm, st) = st
  BY DEF DocOf

LEMMA DocIs ==
    ASSUME NEW rm, NEW st \in Content, NEW r \in Rooms, \A q \in Rooms \ {r} : ~Holds(rm[q])
    PROVE  DocOf(rm, st) = Replay(rm[r], st)
  <1>1. CASE Holds(rm[r])
    <2>1. (CHOOSE q \in Rooms : Holds(rm[q])) = r
      BY <1>1
    <2>. QED
      BY <1>1, <2>1 DEF DocOf
  <1>2. CASE ~Holds(rm[r])
    <2>1. Replay(rm[r], st) = st
      BY <1>2, ReplayIs DEF Holds
    <2>. QED
      BY <1>2, <2>1, DocNone
  <1>. QED
    BY <1>1, <1>2

LEMMA DocSame ==
    ASSUME NEW rm, NEW rn, NEW st, Sole(rm),
           \A r \in Rooms : rn[r].saving = rm[r].saving /\ (Holds(rm[r]) => rn[r].doc = rm[r].doc)
    PROVE  DocOf(rn, st) = DocOf(rm, st)
  <1>1. CASE \E r \in Rooms : Holds(rm[r])
    <2>1. PICK r \in Rooms : Holds(rm[r])
      BY <1>1
    <2>2. (CHOOSE q \in Rooms : Holds(rm[q])) = r
      BY <2>1 DEF Sole
    <2>3. (CHOOSE q \in Rooms : Holds(rn[q])) = r
      BY <2>1 DEF Sole, Holds
    <2>4. Replay(rn[r], st) = Replay(rm[r], st)
      <3>1. rn[r].saving = rm[r].saving /\ rn[r].doc = rm[r].doc
        BY <2>1
      <3>. QED
        BY <3>1 DEF Replay
    <2>5. DocOf(rm, st) = Replay(rm[r], st)
      BY <2>1, <2>2 DEF DocOf
    <2>6. DocOf(rn, st) = Replay(rn[r], st)
      BY <2>1, <2>3 DEF DocOf, Holds
    <2>. QED
      BY <2>4, <2>5, <2>6
  <1>2. CASE \A r \in Rooms : ~Holds(rm[r])
    <2>1. \A r \in Rooms : ~Holds(rn[r])
      BY <1>2 DEF Holds
    <2>. QED
      BY <1>2, <2>1, DocNone
  <1>. QED
    BY <1>1, <1>2

LEMMA InitIndInv == Init => IndInv
  <1>. SUFFICES ASSUME Init PROVE IndInv
    OBVIOUS
  <1>. USE RoomsAssumption, NoneAssumption, BoundsAssumption DEF Init
  <1>1. Typed
    BY DEF Typed, RoomType, FlightType, Content, Blank, NewRoom, Landed, Slots, Fields
  <1>2. Counted
    BY DEF Counted, NewRoom, Blank
  <1>3. \A r \in Rooms : RoomInv(r)
    BY DEF RoomInv, NewRoom, Landed, Slots
  <1>4. DocInv
    <2>1. \A r \in Rooms : ~Holds(room[r])
      BY DEF Holds, NewRoom
    <2>2. Doc = store
      BY <2>1, DocNone DEF Doc
    <2>3. Text
      BY <2>1, <2>2 DEF Text, Sole, Blank
    <2>. QED
      BY <2>3 DEF DocInv, Seeds, NewRoom, Blank, Content
  <1>. QED
    BY <1>1, <1>2, <1>3, <1>4 DEF IndInv

\* What a step takes from the accidents.
LEMMA AccidentType ==
    ASSUME NEW e \in Accidents, NEW P \in BOOLEAN, accidents \subseteq Accidents, Accident(e, P)
    PROVE  accidents' \subseteq Accidents
  BY DEF Accident, Noted

\* What was lost stays lost.
LEMMA SavedBefore == ASSUME [Next]_vars, Saved' PROVE Saved
  <1>. USE DEF Saved, Accident, Noted
  <1>1. CASE RecordRead \/ RecordCommit \/ Age \/ Purge \/ Join \/ Leave \/ Edit
    BY <1>1 DEF RecordRead, RecordCommit, Age, Purge, Join, Leave, Edit, Dropped
  <1>2. CASE Claim \/ Apply \/ ApplyRoomless \/ Stop \/ UNCHANGED vars
    BY <1>2 DEF Claim, Apply, ApplyRoomless, Stop, Dropped, vars
  <1>3. ASSUME NEW r \in Rooms, CreateRoom(r) \/ RoomReady(r) \/ CreationFails(r) \/ Evict(r) \/ Fire(r)
        PROVE  Saved
    BY <1>3 DEF CreateRoom, RoomReady, CreationFails, Evict, Fire
  <1>4. ASSUME NEW r \in Rooms, NEW s \in Slots,
               Load(r, s) \/ Write(r, s) \/ WriteRefused(r, s) \/ WriteFails(r, s) \/ Land(r, s)
        PROVE  Saved
    BY <1>4 DEF Load, Write, WriteRefused, WriteFails, Land
  <1>5. ASSUME NEW r \in Rooms, NEW f \in Fields, Persist(r, f) \/ PersistFails(r, f) PROVE Saved
    BY <1>5 DEF Persist, PersistFails
  <1>. QED
    BY <1>1, <1>2, <1>3, <1>4, <1>5 DEF Next, Reconcile

-----------------------------------------------------------------------------
(* What the actions that touch rooms and reconciles do, field by field.    *)

Elsewhere(r) ==
    room' \in [Rooms -> RoomType] /\ \A q \in Rooms \ {r} : room'[q] = room[q]

Others(r, s) ==
    /\ flight' \in [Rooms -> [Slots -> FlightType]]
    /\ \A q \in Rooms, t \in Slots : q # r \/ t # s => flight'[q][t] = flight[q][t]

LEMMA Puts ==
    ASSUME Typed, NEW r \in Rooms, NEW m \in RoomType, room' = [room EXCEPT ![r] = m]
    PROVE  Elsewhere(r) /\ room'[r] = m
  BY DEF Typed, Elsewhere

LEMMA Flies ==
    ASSUME Typed, NEW r \in Rooms, NEW s \in Slots, NEW f \in FlightType,
           flight' = [flight EXCEPT ![r][s] = f]
    PROVE  Others(r, s) /\ flight'[r][s] = f
  BY DEF Typed, Others

LEMMA Fresh ==
    /\ NewRoom \in RoomType /\ Landed \in FlightType /\ Blank \in Content
    /\ \A m \in RoomType : Snapped(m) \in FlightType
  <1>. USE BoundsAssumption
  <1>1. Blank \in Content
    BY DEF Blank, Content
  <1>2. NewRoom \in RoomType
    BY <1>1 DEF NewRoom, RoomType
  <1>3. Landed \in FlightType
    BY <1>1 DEF Landed, FlightType
  <1>4. \A m \in RoomType : Snapped(m) \in FlightType
    BY <1>1 DEF Snapped, FlightType, RoomType
  <1>. QED
    BY <1>1, <1>2, <1>3, <1>4

\* Nothing that matters for the document or its reconciles.
SameRoom(m, n) ==
    /\ n.state = m.state /\ n.doc = m.doc /\ n.saving = m.saving /\ n.epoch = m.epoch
    /\ n.timer = m.timer /\ n.flushing = m.flushing /\ n.dirty = m.dirty

LEMMA ClientsMove ==
    ASSUME Typed, Join \/ Leave
    PROVE  current \in Rooms /\ Elsewhere(current) /\ SameRoom(room[current], room'[current])
  <1>1. current \in Rooms
    BY DEF Typed, Join, Leave
  <1>2. PICK n \in 0 .. MaxSessions : room' = [room EXCEPT ![current].clients = n]
    <2>1. room[current].clients \in 0 .. MaxSessions
      BY <1>1 DEF Typed, RoomType
    <2>. QED
      BY <2>1, BoundsAssumption DEF Join, Leave
  <1>. DEFINE m == [room[current] EXCEPT !.clients = n]
  <1>3. m \in RoomType /\ SameRoom(room[current], m)
    BY <1>1 DEF Typed, RoomType, SameRoom
  <1>4. room' = [room EXCEPT ![current] = m]
    BY <1>2
  <1>. HIDE DEF m
  <1>. QED
    BY <1>1, <1>3, <1>4, Puts

LEMMA EditMoves ==
    ASSUME Typed, Edit
    PROVE  /\ current \in Rooms /\ Elsewhere(current)
           /\ LET m == room[current] n == room'[current]
              IN  /\ n.doc = [ev |-> m.doc.ev, note |-> edits + 1] /\ n.timer
                  /\ n.state = m.state /\ n.epoch = m.epoch
                  /\ n.flushing = m.flushing /\ n.dirty = m.dirty
                  /\ n.saving = m.saving \cup {"note"}
           /\ edits' = edits + 1 /\ edits' \in 0 .. MaxEdits
  <1>1. current \in Rooms /\ room[current] \in RoomType
    BY DEF Typed, Edit
  <1>2. edits' = edits + 1 /\ edits' \in 0 .. MaxEdits
    BY BoundsAssumption DEF Typed, Edit
  <1>. DEFINE d == [room[current].doc EXCEPT !.note = edits']
              g == room[current].saving \cup {"note"}
              m == Observed([room[current] EXCEPT !.doc = d, !.saving = g])
  <1>3. d \in Content /\ d = [ev |-> room[current].doc.ev, note |-> edits + 1]
    BY <1>1, <1>2 DEF RoomType, Content
  <1>4. room' = [room EXCEPT ![current] = m]
    <2>. DEFINE e == [room[current] EXCEPT !.doc.note = edits', !.saving = @ \cup {"note"}]
    <2>1. room' = [room EXCEPT ![current] = Observed(e)]
      BY <1>1 DEF Edit, Edited
    <2>2. e = [room[current] EXCEPT !.doc = d, !.saving = g]
      OBVIOUS
    <2>. QED
      BY <2>1, <2>2
  <1>8. g \in SUBSET Fields
    BY <1>1 DEF RoomType, Fields
  <1>. HIDE DEF d, g
  <1>5. m \in RoomType /\ m.doc = d /\ m.saving = g /\ m.timer
    BY <1>1, <1>3, <1>8 DEF Observed, RoomType
  <1>6. m.state = room[current].state /\ m.epoch = room[current].epoch
        /\ m.flushing = room[current].flushing /\ m.dirty = room[current].dirty
    BY <1>1, <1>3, <1>8 DEF Observed, RoomType
  <1>. HIDE DEF m
  <1>7. Elsewhere(current) /\ room'[current] = m
    BY <1>1, <1>4, <1>5, Puts
  <1>. QED
    BY <1>1, <1>2, <1>3, <1>4, <1>5, <1>6, <1>7 DEF g

\* A room whose document shows the run v from now on.
Shows(m, n, v) ==
    /\ n.doc = [ev |-> v, note |-> m.doc.note] /\ n.doc.ev = v /\ n.doc.note = m.doc.note
    /\ n.saving = m.saving \cup {"ev"}
    /\ n.epoch = m.epoch + 1 /\ n.state = m.state /\ n.flushing = m.flushing
    /\ IF m.flushing THEN n.dirty /\ n.timer = m.timer
                     ELSE n.timer /\ n.dirty = m.dirty

\* The drain writes its newest item, unless the document shows it already.
LEMMA ApplyMoves ==
    ASSUME Typed, Counted, Apply
    PROVE  /\ current \in Rooms
           /\ \E v \in drain :
                 /\ room[current].doc.ev <= v /\ \A w \in drain : w <= v
                 /\ \A q \in Rooms : room[q].doc.ev <= v
                 /\ room[current].doc.ev = v => UNCHANGED room
                 /\ room[current].doc.ev # v =>
                       Elsewhere(current) /\ Shows(room[current], room'[current], v)
  <1>. DEFINE c == room[current]
  <1>1. current \in Rooms /\ c \in RoomType
    BY DEF Typed, Apply
  <1>2. PICK v \in drain : (\A q \in Rooms : room[q].doc.ev <= v) /\ \A w \in drain : w <= v
    BY DEF Apply, Counted
  <1>3. Max(drain) = v
    BY <1>2, MaxIs DEF Typed
  <1>4. room' = [room EXCEPT ![current] = Mirrored(c, v)]
    BY <1>3 DEF Apply
  <1>5. CASE c.doc.ev = v
    <2>1. Mirrored(c, v) = c
      BY <1>5 DEF Mirrored
    <2>2. UNCHANGED room
      BY <1>1, <1>4, <2>1 DEF Typed
    <2>. QED
      BY <1>1, <1>2, <1>5, <2>2
  <1>6. CASE c.doc.ev # v
    <2>. DEFINE d == [c.doc EXCEPT !.ev = v]
                g == c.saving \cup {"ev"}
                b == [c EXCEPT !.doc = d, !.saving = g, !.epoch = c.epoch + 1]
    <2>1. v \in 0 .. MaxVerdicts /\ c.epoch + 1 \in 0 .. MaxVerdicts
      <3>1. v \in 1 .. MaxVerdicts /\ MaxVerdicts \in Nat
        BY <1>2, BoundsAssumption DEF Typed
      <3>2. c.epoch \in Nat /\ c.epoch <= c.doc.ev
        BY <1>1 DEF Counted, RoomType
      <3>3. c.doc.ev \in Nat /\ c.doc.ev <= v /\ c.doc.ev # v
        BY <1>1, <1>2, <1>6 DEF RoomType, Content
      <3>. QED
        BY <3>1, <3>2, <3>3
    <2>2. d \in Content /\ d = [ev |-> v, note |-> c.doc.note]
      BY <1>1, <2>1 DEF RoomType, Content
    <2>3. g \in SUBSET Fields
      BY <1>1 DEF RoomType, Fields
    <2>4. Mirrored(c, v) = Armed(b)
      BY <1>6 DEF Mirrored
    <2>. HIDE DEF d, g
    <2>5. b \in RoomType /\ b.doc = d /\ b.saving = g /\ b.epoch = c.epoch + 1 /\ b.state = c.state
      BY <1>1, <2>1, <2>2, <2>3 DEF RoomType
    <2>6. b.flushing = c.flushing /\ b.timer = c.timer /\ b.dirty = c.dirty
      BY <1>1, <2>1, <2>2, <2>3 DEF RoomType
    <2>. HIDE DEF b
    <2>7. /\ Armed(b) \in RoomType /\ Armed(b).doc = b.doc /\ Armed(b).epoch = b.epoch
          /\ Armed(b).saving = b.saving
          /\ Armed(b).state = b.state /\ Armed(b).flushing = b.flushing
          /\ IF b.flushing THEN Armed(b).dirty /\ Armed(b).timer = b.timer
                           ELSE Armed(b).timer /\ Armed(b).dirty = b.dirty
      BY <2>5 DEF Armed, RoomType
    <2>8. Elsewhere(current) /\ room'[current] = Armed(b)
      BY <1>1, <1>4, <2>4, <2>7, Puts
    <2>9. Shows(c, room'[current], v)
      BY <2>2, <2>5, <2>6, <2>7, <2>8 DEF Shows, g
    <2>. QED
      BY <1>1, <1>2, <1>6, <2>8, <2>9
  <1>. QED
    BY <1>5, <1>6

LEMMA CreateMoves ==
    ASSUME Typed, NEW r \in Rooms, CreateRoom(r)
    PROVE  /\ Elsewhere(r)
           /\ LET n == room'[r]
              IN  /\ n.state = "creating" /\ n.doc = (IF store = None THEN row ELSE store)
                  /\ ~n.timer /\ ~n.flushing /\ ~n.dirty /\ n.epoch = 0 /\ n.saving = {}
  <1>. DEFINE d == IF store # None THEN store ELSE row
              m == [[NewRoom EXCEPT !.state = "creating"] EXCEPT !.doc = d]
  <1>1. d \in Content
    BY DEF Typed
  <1>. HIDE DEF d
  <1>2. /\ m \in RoomType /\ m.state = "creating" /\ m.doc = d
        /\ m.timer = NewRoom.timer /\ m.flushing = NewRoom.flushing
        /\ m.dirty = NewRoom.dirty /\ m.epoch = NewRoom.epoch /\ m.saving = NewRoom.saving
    BY <1>1, Fresh DEF RoomType
  <1>3. room' = [room EXCEPT ![r] = m]
    BY DEF CreateRoom, Hydrated, d
  <1>. HIDE DEF m
  <1>4. Elsewhere(r) /\ room'[r] = m
    BY <1>2, <1>3, Puts
  <1>5. ~NewRoom.timer /\ ~NewRoom.flushing /\ ~NewRoom.dirty /\ NewRoom.epoch = 0
        /\ NewRoom.saving = {}
    BY DEF NewRoom
  <1>. QED
    BY <1>2, <1>4, <1>5 DEF d

LEMMA ReadyMoves ==
    ASSUME Typed, NEW r \in Rooms, RoomReady(r)
    PROVE  /\ Elsewhere(r)
           /\ LET m == room[r] n == room'[r]
              IN  /\ m.state = "creating" /\ n.state = "live"
                  /\ n.doc = m.doc /\ n.timer = m.timer /\ n.flushing = m.flushing
                  /\ n.dirty = m.dirty /\ n.epoch = m.epoch /\ n.saving = m.saving
                  /\ current' = r /\ store' = Seeded(r)
  <1>. DEFINE m == [[room[r] EXCEPT !.state = "live"] EXCEPT !.clients = 1]
  <1>1. room[r] \in RoomType /\ 1 \in 0 .. MaxSessions
    BY BoundsAssumption DEF Typed
  <1>2. /\ m \in RoomType /\ m.state = "live" /\ m.doc = room[r].doc
        /\ m.timer = room[r].timer /\ m.flushing = room[r].flushing
        /\ m.dirty = room[r].dirty /\ m.epoch = room[r].epoch /\ m.saving = room[r].saving
    BY <1>1 DEF RoomType
  <1>3. room' = [room EXCEPT ![r] = m]
    BY DEF RoomReady
  <1>. HIDE DEF m
  <1>4. Elsewhere(r) /\ room'[r] = m
    BY <1>2, <1>3, Puts
  <1>. QED
    BY <1>2, <1>4 DEF RoomReady

LEMMA FailureMoves ==
    ASSUME Typed, NEW r \in Rooms, CreationFails(r)
    PROVE  Elsewhere(r) /\ room'[r] = NewRoom
  BY Fresh, Puts DEF CreationFails

\* An update is stored, or lost.
LEMMA PersistMoves ==
    ASSUME Typed, NEW r \in Rooms, NEW f \in Fields, Persist(r, f) \/ PersistFails(r, f)
    PROVE  /\ Elsewhere(r) /\ f \in room[r].saving
           /\ LET m == room[r] n == room'[r]
              IN  /\ n.saving = m.saving \ {f}
                  /\ n.state = m.state /\ n.doc = m.doc /\ n.epoch = m.epoch
                  /\ n.timer = m.timer /\ n.flushing = m.flushing /\ n.dirty = m.dirty
  <1>. DEFINE g == room[r].saving \ {f} m == [room[r] EXCEPT !.saving = g]
  <1>1. room[r] \in RoomType /\ g \in SUBSET Fields
    BY DEF Typed, RoomType
  <1>2. room' = [room EXCEPT ![r] = m] /\ f \in room[r].saving
    BY DEF Persist, PersistFails
  <1>. HIDE DEF g
  <1>3. m \in RoomType /\ m.saving = g /\ m.state = room[r].state /\ m.doc = room[r].doc
        /\ m.epoch = room[r].epoch /\ m.timer = room[r].timer
        /\ m.flushing = room[r].flushing /\ m.dirty = room[r].dirty
    BY <1>1 DEF RoomType
  <1>. HIDE DEF m
  <1>4. Elsewhere(r) /\ room'[r] = m
    BY <1>2, <1>3, Puts
  <1>. QED
    BY <1>2, <1>3, <1>4 DEF g

LEMMA StoredIs ==
    ASSUME Typed, store # None, NEW r \in Rooms, NEW f \in Fields
    PROVE  /\ Stored(f, room[r].doc) \in Content
           /\ Stored(f, room[r].doc).ev = IF f = "ev" THEN room[r].doc.ev ELSE store.ev
           /\ Stored(f, room[r].doc).note = IF f = "note" THEN room[r].doc.note ELSE store.note
  BY DEF Typed, RoomType, Content, Stored

LEMMA SeededIs ==
    ASSUME Typed, NEW r \in Rooms
    PROVE  Seeded(r) \in Content /\ Seeded(r) # None
  BY NoneAssumption DEF Typed, RoomType, Seeded

\* What a reconcile takes to the worker thread.
Snaps(f, m) == f.pc = "snapped" /\ f.snap = m.doc

LEMMA FireMoves ==
    ASSUME Typed, NEW r \in Rooms, Fire(r)
    PROVE  /\ Elsewhere(r) /\ room[r].timer
           /\ LET m == room[r] n == room'[r]
              IN  /\ n.state = m.state /\ n.doc = m.doc /\ n.epoch = m.epoch
                  /\ n.saving = m.saving
                  /\ ~n.timer /\ n.flushing
                  /\ IF m.flushing
                     THEN n.dirty /\ UNCHANGED flight
                     ELSE /\ n.dirty = m.dirty /\ flight[r]["timer"].pc = "none"
                          /\ Others(r, "timer") /\ Snaps(flight'[r]["timer"], m)
  <1>1. room[r] \in RoomType /\ "timer" \in Slots
    BY DEF Typed, Slots
  <1>2. CASE room[r].flushing
    <2>. DEFINE m == [[room[r] EXCEPT !.timer = FALSE] EXCEPT !.dirty = TRUE]
    <2>1. /\ m \in RoomType /\ m.state = room[r].state /\ m.doc = room[r].doc
          /\ m.saving = room[r].saving /\ m.epoch = room[r].epoch /\ ~m.timer /\ m.flushing /\ m.dirty
      BY <1>1, <1>2 DEF RoomType
    <2>2. room' = [room EXCEPT ![r] = m] /\ UNCHANGED flight /\ room[r].timer
      BY <1>2 DEF Fire
    <2>. HIDE DEF m
    <2>3. Elsewhere(r) /\ room'[r] = m
      BY <2>1, <2>2, Puts
    <2>. QED
      BY <1>2, <2>1, <2>2, <2>3
  <1>3. CASE ~room[r].flushing
    <2>. DEFINE m == [[room[r] EXCEPT !.timer = FALSE] EXCEPT !.flushing = TRUE]
    <2>1. /\ m \in RoomType /\ m.state = room[r].state /\ m.doc = room[r].doc
          /\ m.saving = room[r].saving /\ m.epoch = room[r].epoch /\ ~m.timer /\ m.flushing /\ m.dirty = room[r].dirty
      BY <1>1 DEF RoomType
    <2>2. /\ room' = [room EXCEPT ![r] = m] /\ room[r].timer /\ flight[r]["timer"].pc = "none"
          /\ flight' = [flight EXCEPT ![r]["timer"] = Snapped(room[r])]
      BY <1>3 DEF Fire
    <2>. HIDE DEF m
    <2>3. Elsewhere(r) /\ room'[r] = m
      BY <2>1, <2>2, Puts
    <2>4. Others(r, "timer") /\ flight'[r]["timer"] = Snapped(room[r])
      BY <1>1, <2>2, Fresh, Flies
    <2>. QED
      BY <1>3, <2>1, <2>2, <2>3, <2>4 DEF Snaps, Snapped
  <1>. QED
    BY <1>2, <1>3

\* The reconcile's own steps leave the rooms alone.
LEMMA WorkerMoves ==
    ASSUME Typed, NEW r \in Rooms, NEW s \in Slots,
           Load(r, s) \/ Write(r, s) \/ WriteRefused(r, s) \/ WriteFails(r, s)
    PROVE  /\ Others(r, s)
           /\ LET f == flight[r][s] g == flight'[r][s]
              IN  /\ f.pc \in {"snapped", "loaded"} /\ g.pc # "none"
                  /\ Load(r, s) => f.pc = "snapped" /\ g.pc = "loaded" /\ g.base = row /\ g.snap = f.snap
                  /\ ~Load(r, s) => f.pc = "loaded" /\ g.pc \in {"written", "failed"}
                  /\ Write(r, s) => g.pc = "written"
  <1>1. flight[r][s] \in FlightType
    BY DEF Typed
  <1>2. ASSUME Load(r, s)
        PROVE  /\ flight[r][s].pc = "snapped" /\ Others(r, s)
               /\ flight'[r][s].pc = "loaded" /\ flight'[r][s].base = row
               /\ flight'[r][s].snap = flight[r][s].snap
    <2>. DEFINE f == [[flight[r][s] EXCEPT !.pc = "loaded"] EXCEPT !.base = row]
    <2>1. f \in FlightType /\ f.pc = "loaded" /\ f.base = row /\ f.snap = flight[r][s].snap
      BY <1>1 DEF FlightType, Typed
    <2>2. flight' = [flight EXCEPT ![r][s] = f]
      BY <1>2 DEF Load, Typed
    <2>. HIDE DEF f
    <2>3. Others(r, s) /\ flight'[r][s] = f
      BY <2>1, <2>2, Flies
    <2>4. flight[r][s].pc = "snapped"
      BY <1>2 DEF Load
    <2>. QED
      BY <2>1, <2>3, <2>4
  <1>3. ASSUME NEW pc \in {"written", "failed"},
               flight' = [flight EXCEPT ![r][s] = Returned(flight[r][s], pc)]
        PROVE  Others(r, s) /\ flight'[r][s].pc = pc
    <2>. DEFINE f == Returned(flight[r][s], pc)
    <2>1. f \in FlightType /\ f.pc = pc
      BY <1>1, Fresh DEF FlightType, Returned
    <2>. HIDE DEF f
    <2>2. flight' = [flight EXCEPT ![r][s] = f]
      BY <1>3 DEF f
    <2>. QED
      BY <2>1, <2>2, Flies
  <1>4. CASE Load(r, s)
    BY <1>2, <1>4 DEF Write
  <1>5. CASE Write(r, s)
    <2>1. flight' = [flight EXCEPT ![r][s] = Returned(flight[r][s], "written")]
      BY <1>5 DEF Write, Typed
    <2>. QED
      BY <1>3, <1>5, <2>1 DEF Write, Load
  <1>6. CASE WriteRefused(r, s)
    <2>1. flight' = [flight EXCEPT ![r][s] = Returned(flight[r][s], "written")]
      BY <1>6 DEF WriteRefused, Typed
    <2>. QED
      BY <1>3, <1>6, <2>1 DEF WriteRefused, Load
  <1>7. CASE WriteFails(r, s)
    <2>1. flight' = [flight EXCEPT ![r][s] = Returned(flight[r][s], "failed")]
      BY <1>7 DEF WriteFails, Typed
    <2>2. ~Write(r, s)
      BY <1>1, <1>3, <2>1 DEF Write, Returned, Landed
    <2>. QED
      BY <1>3, <1>7, <2>1, <2>2 DEF WriteFails, Load
  <1>. QED
    BY <1>4, <1>5, <1>6, <1>7

\* A reconcile ends: what came up meanwhile arms the timer, but the evictor's
\* leaves no timer behind; a room with nothing left to do is a new one.
Ends(m, n, s, others) ==
    \/ n = NewRoom /\ (s = "final" \/ m.state = "gone") /\ ~others
    \/ /\ n.doc = m.doc /\ n.epoch = m.epoch /\ ~n.flushing /\ ~n.dirty
       /\ IF s = "final"
          THEN n.state = "gone" /\ ~n.timer /\ others /\ n.saving = {}
          ELSE n.state = m.state /\ n.saving = m.saving /\ (m.timer \/ m.dirty => n.timer)

LEMMA LandMoves ==
    ASSUME Typed, NEW r \in Rooms, NEW s \in Slots, Land(r, s)
    PROVE  /\ Elsewhere(r) /\ Others(r, s)
           /\ flight[r][s].pc \in {"written", "failed"} /\ flight'[r][s].pc = "none"
           /\ Ends(room[r], room'[r], s, \E t \in Slots \ {s} : flight[r][t].pc # "none")
  <1>. DEFINE m == room[r]
              again == m.dirty \/ (flight[r][s].pc = "written" /\ Outdated(m, flight[r][s]))
              others == \E t \in Slots \ {s} : flight[r][t].pc # "none"
              e == Flushed(m, again)
              p == Over(e, s)
              n == Reaped(p, others)
  <1>1. m \in RoomType /\ again \in BOOLEAN /\ (m.dirty => again)
    BY DEF Typed, RoomType
  <1>2. /\ room' = [room EXCEPT ![r] = n] /\ flight[r][s].pc \in {"written", "failed"}
        /\ flight' = [flight EXCEPT ![r][s] = Landed]
    BY DEF Land
  <1>. HIDE DEF m, again, others
  <1>3. /\ e \in RoomType /\ e.state = m.state /\ e.doc = m.doc /\ e.epoch = m.epoch
        /\ ~e.flushing /\ ~e.dirty /\ e.saving = m.saving /\ (e.timer <=> m.timer \/ again)
    BY <1>1 DEF Flushed, RoomType
  <1>. HIDE DEF e
  <1>4. /\ p \in RoomType /\ p.doc = e.doc /\ p.epoch = e.epoch /\ ~p.flushing /\ ~p.dirty
        /\ IF s = "final" THEN p.state = "gone" /\ ~p.timer /\ p.saving = {}
                          ELSE p.state = e.state /\ p.timer = e.timer /\ p.saving = e.saving
    BY <1>3 DEF Over, RoomType
  <1>. HIDE DEF p
  <1>5. n \in RoomType /\ (n = p \/ (n = NewRoom /\ p.state = "gone" /\ ~p.timer /\ ~others))
        /\ (p.state = "gone" /\ ~p.timer /\ ~others => n = NewRoom)
    BY <1>4, Fresh DEF Reaped
  <1>. HIDE DEF n
  <1>6. Elsewhere(r) /\ room'[r] = n
    BY <1>2, <1>5, Puts
  <1>7. Others(r, s) /\ flight'[r][s] = Landed
    BY <1>2, Fresh, Flies
  <1>8. Ends(m, n, s, others)
    BY <1>1, <1>3, <1>4, <1>5 DEF Ends
  <1>9. Ends(room[r], room'[r], s, \E t \in Slots \ {s} : flight[r][t].pc # "none")
    BY <1>6, <1>8 DEF m, others
  <1>10. flight'[r][s].pc = "none"
    BY <1>7 DEF Landed
  <1>. QED
    BY <1>2, <1>6, <1>7, <1>9, <1>10

LEMMA EvictMoves ==
    ASSUME Typed, NEW r \in Rooms, Evict(r)
    PROVE  /\ current = r /\ current' = None /\ Elsewhere(r)
           /\ LET m == room[r] n == room'[r]
              IN  IF m.timer \/ m.dirty \/ m.flushing
                  THEN /\ n.state = "evicting" /\ n.doc = m.doc /\ n.epoch = m.epoch /\ n.saving = m.saving
                       /\ ~n.timer /\ n.flushing /\ n.dirty = m.dirty
                       /\ Others(r, "final") /\ Snaps(flight'[r]["final"], m)
                       /\ Accident("beside", InFlight(r))
                  ELSE /\ n = NewRoom /\ UNCHANGED flight
                       /\ Accident("unsaved", Holds(m))
  <1>1. room[r] \in RoomType /\ "final" \in Slots
    BY DEF Typed, Slots
  <1>2. current = r /\ current' = None
    BY DEF Evict
  <1>3. CASE Pending(room[r])
    <2>. DEFINE m == [[[room[r] EXCEPT !.state = "evicting"] EXCEPT !.timer = FALSE]
                         EXCEPT !.flushing = TRUE]
    <2>1. /\ m \in RoomType /\ m.state = "evicting" /\ m.doc = room[r].doc
          /\ m.saving = room[r].saving /\ m.epoch = room[r].epoch /\ ~m.timer /\ m.flushing /\ m.dirty = room[r].dirty
      BY <1>1 DEF RoomType
    <2>2. /\ room' = [room EXCEPT ![r] = m]
          /\ flight' = [flight EXCEPT ![r]["final"] = Snapped(room[r])]
          /\ Accident("beside", InFlight(r))
      BY <1>3 DEF Evict
    <2>. HIDE DEF m
    <2>3. Elsewhere(r) /\ room'[r] = m
      BY <2>1, <2>2, Puts
    <2>4. Others(r, "final") /\ flight'[r]["final"] = Snapped(room[r])
      BY <1>1, <2>2, Fresh, Flies
    <2>. QED
      BY <1>2, <1>3, <2>1, <2>2, <2>3, <2>4 DEF Snaps, Snapped, Pending
  <1>4. CASE ~Pending(room[r])
    <2>1. room' = [room EXCEPT ![r] = NewRoom] /\ UNCHANGED flight
          /\ Accident("unsaved", Holds(room[r]))
      BY <1>4 DEF Evict, Holds
    <2>2. Elsewhere(r) /\ room'[r] = NewRoom
      BY <2>1, Fresh, Puts
    <2>. QED
      BY <1>2, <1>4, <2>1, <2>2 DEF Pending
  <1>. QED
    BY <1>3, <1>4

LEMMA StopMoves ==
    ASSUME Stop
    PROVE  /\ room' \in [Rooms -> RoomType] /\ flight' \in [Rooms -> [Slots -> FlightType]]
           /\ \A r \in Rooms : room'[r] = NewRoom /\ \A s \in Slots : flight'[r][s].pc = "none"
           /\ accidents' = accidents \cup {IF Unsaved THEN "unsaved" ELSE "stopped"}
  BY Fresh DEF Stop, Accident, Noted, Landed

-----------------------------------------------------------------------------
(* The inductive invariant.                                                *)

LEMMA NextTyped == ASSUME IndInv, [Next]_vars PROVE Typed'
  <1>. USE RoomsAssumption, NoneAssumption, BoundsAssumption DEF IndInv
  <1>1. CASE RecordRead
    BY <1>1 DEF RecordRead, Typed
  <1>2. CASE RecordCommit
    BY <1>2 DEF RecordCommit, Mirror, Counted, Content, Typed
  <1>3. CASE Age
    BY <1>3 DEF Age, Typed
  <1>4. CASE Purge
    BY <1>4 DEF Purge, Dropped, Accident, Noted, Accidents, Typed
  <1>5. CASE Join \/ Leave
    BY <1>5, ClientsMove DEF Join, Leave, Typed, Elsewhere
  <1>6. CASE Edit
    BY <1>6, EditMoves DEF Edit, Typed, Elsewhere
  <1>7. CASE Claim
    BY <1>7 DEF Claim, Dropped, Accident, Noted, Accidents, Typed
  <1>8. CASE Apply
    <2>1. room' \in [Rooms -> RoomType]
      BY <1>8, ApplyMoves DEF Typed, Elsewhere
    <2>. QED
      BY <1>8, <2>1 DEF Apply, Typed
  <1>9. CASE ApplyRoomless
    BY <1>9 DEF ApplyRoomless, Accident, Noted, Accidents, Typed
  <1>10. CASE Stop
    BY <1>10, StopMoves DEF Stop, Accidents, Typed
  <1>11. ASSUME NEW r \in Rooms, CreateRoom(r) PROVE Typed'
    BY <1>11, CreateMoves DEF CreateRoom, Typed, Elsewhere, Accident, Noted, Accidents
  <1>12. ASSUME NEW r \in Rooms, RoomReady(r) PROVE Typed'
    <2>1. store' \in Content
      BY <1>12, ReadyMoves, SeededIs
    <2>. QED
      BY <1>12, <2>1, ReadyMoves DEF RoomReady, Typed, Elsewhere, Accident, Noted, Accidents
  <1>13. ASSUME NEW r \in Rooms, Evict(r) PROVE Typed'
    <2>1. flight' \in [Rooms -> [Slots -> FlightType]] /\ accidents' \subseteq Accidents
      BY <1>13, EvictMoves DEF Typed, Others, Accident, Noted, Accidents
    <2>. QED
      BY <1>13, <2>1, EvictMoves DEF Evict, Typed, Elsewhere
  <1>14. ASSUME NEW r \in Rooms, Fire(r) PROVE Typed'
    BY <1>14, FireMoves DEF Fire, Typed, Elsewhere, Others
  <1>15. ASSUME NEW r \in Rooms, NEW s \in Slots, Load(r, s) \/ Write(r, s) \/ WriteRefused(r, s) \/ WriteFails(r, s)
         PROVE  Typed'
    <2>1. row' \in Content
      <3>1. flight[r][s] \in FlightType /\ row \in Content
        BY DEF Typed
      <3>2. row' \in {row, flight[r][s].snap}
        BY <1>15 DEF Load, Write, WriteRefused, WriteFails
      <3>. QED
        BY <3>1, <3>2 DEF FlightType
    <2>2. flight' \in [Rooms -> [Slots -> FlightType]]
      BY <1>15, WorkerMoves DEF Others
    <2>3. accidents' \subseteq Accidents
      BY <1>15 DEF Load, Write, WriteRefused, WriteFails, Typed, Accident, Noted, Accidents
    <2>4. UNCHANGED <<store, queue, aged, drain, writer, current, room, last, edits>>
      BY <1>15 DEF Load, Write, WriteRefused, WriteFails
    <2>. QED
      BY <2>1, <2>2, <2>3, <2>4 DEF Typed
  <1>16. ASSUME NEW r \in Rooms, NEW s \in Slots, Land(r, s) PROVE Typed'
    BY <1>16, LandMoves DEF Land, Typed, Elsewhere, Others, Noted, Accidents
  <1>17. CASE UNCHANGED vars
    BY <1>17 DEF vars, Typed
  <1>18. ASSUME NEW r \in Rooms, CreationFails(r) PROVE Typed'
    <2>1. store' \in Content \cup {None}
      BY <1>18, SeededIs DEF CreationFails, Typed
    <2>. QED
      BY <1>18, <2>1, FailureMoves DEF CreationFails, Typed, Elsewhere
  <1>19. ASSUME NEW r \in Rooms, NEW f \in Fields, Persist(r, f) \/ PersistFails(r, f) PROVE Typed'
    <2>1. store' \in Content \cup {None}
      <3>1. store # None
        BY <1>19, PersistMoves DEF DocInv, Seeds, RoomInv
      <3>2. store' \in {store, Stored(f, room[r].doc)}
        BY <1>19 DEF Persist, PersistFails
      <3>. QED
        BY <3>1, <3>2, StoredIs DEF Typed
    <2>2. accidents' \subseteq Accidents
      BY <1>19 DEF Persist, PersistFails, Typed, Accident, Noted, Accidents
    <2>. QED
      BY <1>19, <2>1, <2>2, PersistMoves DEF Persist, PersistFails, Typed, Elsewhere
  <1>. QED
    BY <1>18, <1>19, <1>1, <1>2, <1>3, <1>4, <1>5, <1>6, <1>7, <1>8, <1>9, <1>10, <1>11, <1>12, <1>13,
       <1>14, <1>15, <1>16, <1>17 DEF Next, Reconcile

LEMMA NextCounted == ASSUME IndInv, Typed', [Next]_vars PROVE Counted'
  <1>. USE RoomsAssumption, NoneAssumption, BoundsAssumption DEF IndInv
  <1>0. last \in Nat /\ queue \subseteq Nat /\ drain \subseteq Nat /\ aged \subseteq queue
    BY DEF Typed
  <1>1. CASE RecordRead
    BY <1>1, <1>0 DEF RecordRead, Counted, Typed
  <1>2. CASE RecordCommit
    <2>1. queue' = queue \cup {last'} /\ last' = last + 1 /\ writer' = None
          /\ UNCHANGED <<store, aged, drain, room>>
      BY <1>2 DEF RecordCommit, Mirror
    <2>2. store # None => store.ev \in Nat
      BY DEF Typed, Content
    <2>3. \A r \in Rooms : room[r].doc.ev \in Nat
      BY DEF Typed, RoomType, Content
    <2>. QED
      BY <2>1, <2>2, <2>3, <1>0 DEF Counted
  <1>3. CASE Age
    BY <1>3, <1>0 DEF Age, Counted
  <1>4. CASE Purge
    BY <1>4, <1>0 DEF Purge, Counted
  <1>5. CASE Join \/ Leave
    BY <1>5, ClientsMove DEF Join, Leave, Counted, Elsewhere, SameRoom
  <1>6. CASE Edit
    <2>1. current # None
      BY <1>6 DEF Edit
    <2>2. \A r \in Rooms : room'[r].epoch = room[r].epoch /\ room'[r].doc.ev = room[r].doc.ev
      BY <1>6, EditMoves DEF Elsewhere
    <2>. QED
      BY <1>6, <2>2 DEF Edit, Counted
  <1>7. CASE Claim
    <2>1. drain' # {} => last \in drain'
      BY <1>7, <1>0 DEF Claim, Counted
    <2>2. store # None
      BY <1>7 DEF Claim, DocInv, Seeds
    <2>. QED
      BY <1>7, <2>1, <2>2, <1>0 DEF Claim, Counted
  <1>8. CASE Apply
    <2>. PICK v \in drain :
            /\ room[current].doc.ev <= v
            /\ room[current].doc.ev = v => UNCHANGED room
            /\ room[current].doc.ev # v =>
                  Elsewhere(current) /\ Shows(room[current], room'[current], v)
      BY <1>8, ApplyMoves
    <2>1. current \in Rooms
      BY <1>8, ApplyMoves
    <2>2. room[current].epoch \in Nat /\ room[current].doc.ev \in Nat /\ v \in Nat
      BY <2>1, <1>0 DEF Typed, RoomType, Content
    <2>4. \A r \in Rooms : room'[r].epoch <= room'[r].doc.ev /\ room'[r].doc.ev <= last
      BY <2>1, <2>2 DEF Counted, Elsewhere, Shows
    <2>. QED
      BY <1>8, <2>4 DEF Apply, Counted
  <1>9. CASE ApplyRoomless
    BY <1>9 DEF ApplyRoomless, Counted
  <1>10. CASE Stop
    <2>1. NewRoom.epoch <= NewRoom.doc.ev /\ NewRoom.doc.ev <= last
      BY <1>0 DEF NewRoom, Blank
    <2>. QED
      BY <1>10, <2>1, StopMoves DEF Stop, Counted
  <1>11. ASSUME NEW r \in Rooms, CreateRoom(r) PROVE Counted'
    <2>1. room'[r].epoch = 0 /\ room'[r].doc.ev \in Nat /\ room'[r].doc.ev <= last
      BY <1>11, <1>0, CreateMoves DEF Typed, Content, Counted, DocInv, Seeds
    <2>2. \A q \in Rooms : room'[q].epoch <= room'[q].doc.ev /\ room'[q].doc.ev <= last
      BY <1>11, <2>1, CreateMoves DEF Counted, Elsewhere
    <2>3. store # None => \A q \in Rooms : room'[q].doc = room[q].doc \/ room'[q].doc = store
      BY <1>11, CreateMoves DEF Elsewhere
    <2>. QED
      BY <1>11, <2>2, <2>3 DEF CreateRoom, Counted
  <1>12. ASSUME NEW r \in Rooms, RoomReady(r) PROVE Counted'
    <2>1. \A q \in Rooms : room'[q].epoch <= room'[q].doc.ev /\ room'[q].doc.ev <= last
      BY <1>12, ReadyMoves DEF Counted, Elsewhere
    <2>2. (store # None => store' = store) /\ (store = None => store' = room[r].doc)
      BY <1>12, ReadyMoves DEF Seeded
    <2>3. \A q \in Rooms : room'[q].doc = room[q].doc
      BY <1>12, ReadyMoves DEF Elsewhere
    <2>. QED
      BY <1>12, <2>1, <2>2, <2>3 DEF RoomReady, Counted
  <1>13. ASSUME NEW r \in Rooms, Evict(r) PROVE Counted'
    <2>1. NewRoom.epoch <= NewRoom.doc.ev /\ NewRoom.doc.ev <= last /\ NewRoom.doc.ev = 0
      BY <1>0 DEF NewRoom, Blank
    <2>2. \A q \in Rooms : room'[q].epoch <= room'[q].doc.ev /\ room'[q].doc.ev <= last
      BY <1>13, <2>1, EvictMoves DEF Counted, Elsewhere
    <2>3. \A q \in Rooms : room'[q].doc = room[q].doc \/ room'[q].doc = NewRoom.doc
      BY <1>13, EvictMoves DEF Elsewhere
    <2>. QED
      BY <1>0, <1>13, <2>1, <2>2, <2>3 DEF Evict, Counted
  <1>14. ASSUME NEW r \in Rooms, Fire(r) PROVE Counted'
    <2>1. \A q \in Rooms : room'[q].epoch = room[q].epoch /\ room'[q].doc = room[q].doc
      BY <1>14, FireMoves DEF Elsewhere
    <2>. QED
      BY <1>14, <2>1 DEF Fire, Counted
  <1>15. ASSUME NEW r \in Rooms, NEW s \in Slots, Load(r, s) \/ Write(r, s) \/ WriteRefused(r, s) \/ WriteFails(r, s)
         PROVE  Counted'
    BY <1>15 DEF Load, Write, WriteRefused, WriteFails, Counted
  <1>16. ASSUME NEW r \in Rooms, NEW s \in Slots, Land(r, s) PROVE Counted'
    <2>1. NewRoom.epoch <= NewRoom.doc.ev /\ NewRoom.doc.ev <= last /\ NewRoom.doc.ev = 0
      BY <1>0 DEF NewRoom, Blank
    <2>2. \A q \in Rooms : room'[q].epoch <= room'[q].doc.ev /\ room'[q].doc.ev <= last
      BY <1>16, <2>1, LandMoves DEF Counted, Elsewhere, Ends
    <2>3. \A q \in Rooms : room'[q].doc = room[q].doc \/ room'[q].doc = NewRoom.doc
      BY <1>16, LandMoves DEF Elsewhere, Ends
    <2>4. UNCHANGED <<store, queue, aged, drain, writer, last>>
      BY <1>16 DEF Land
    <2>5. \A m \in drain, q \in Rooms : room[q].doc.ev <= m => room'[q].doc.ev <= m
      <3>. SUFFICES ASSUME NEW m \in drain, NEW q \in Rooms, room[q].doc.ev <= m
                    PROVE  room'[q].doc.ev <= m
        OBVIOUS
      <3>1. m \in Nat
        BY <1>0
      <3>. QED
        BY <2>1, <2>3, <3>1
    <2>. QED
      BY <1>0, <2>2, <2>4, <2>5 DEF Counted
  <1>17. CASE UNCHANGED vars
    BY <1>17 DEF vars, Counted
  <1>18. ASSUME NEW r \in Rooms, CreationFails(r) PROVE Counted'
    <2>1. NewRoom.epoch <= NewRoom.doc.ev /\ NewRoom.doc.ev <= last /\ NewRoom.doc.ev = 0
      BY <1>0 DEF NewRoom, Blank
    <2>2. \A q \in Rooms : room'[q] = room[q] \/ room'[q] = NewRoom
      BY <1>18, FailureMoves DEF Elsewhere
    <2>3. (store # None => store' = store) /\ (store = None => store' = None \/ store' = room[r].doc)
      BY <1>18 DEF CreationFails, Seeded
    <2>. QED
      BY <1>0, <1>18, <2>1, <2>2, <2>3 DEF CreationFails, Counted
  <1>19. ASSUME NEW r \in Rooms, NEW f \in Fields, Persist(r, f) \/ PersistFails(r, f) PROVE Counted'
    <2>1. store # None
      BY <1>19, PersistMoves DEF DocInv, Seeds, RoomInv
    <2>2. store' # None /\ store'.ev \in {store.ev, room[r].doc.ev}
      <3>1. Stored(f, room[r].doc) # None /\ Stored(f, room[r].doc).ev \in {store.ev, room[r].doc.ev}
        BY <2>1, StoredIs
      <3>. QED
        BY <1>19, <2>1, <3>1 DEF Persist, PersistFails
    <2>3. \A q \in Rooms : room'[q].epoch = room[q].epoch /\ room'[q].doc = room[q].doc
      BY <1>19, PersistMoves DEF Elsewhere
    <2>4. UNCHANGED <<queue, aged, drain, writer, last>>
      BY <1>19 DEF Persist, PersistFails
    <2>. QED
      BY <2>1, <2>2, <2>3, <2>4 DEF Counted
  <1>. QED
    BY <1>18, <1>19, <1>1, <1>2, <1>3, <1>4, <1>5, <1>6, <1>7, <1>8, <1>9, <1>10, <1>11, <1>12, <1>13,
       <1>14, <1>15, <1>16, <1>17 DEF Next, Reconcile

LEMMA NewRoomIs ==
    /\ NewRoom.state = "unused" /\ ~NewRoom.timer /\ ~NewRoom.flushing /\ ~NewRoom.dirty
    /\ NewRoom.epoch = 0 /\ NewRoom.doc = Blank /\ NewRoom.saving = {}
  BY DEF NewRoom

\* A step that stores nothing and leaves the rooms that hold updates, and the
\* live one, with the document and the updates they have.
LEMMA TextKept ==
    ASSUME Text, UNCHANGED <<store, edits>>, current' \in {current, None},
           \A r \in Rooms :
              /\ room'[r].saving = room[r].saving
              /\ Holds(room[r]) \/ current' = r => room'[r].doc = room[r].doc
              /\ room'[r].state \in {"live", "creating"} => room[r].state \in {"live", "creating"},
           current' \in Rooms \cup {None}, None \notin Rooms
    PROVE  Text' /\ Doc' = Doc
  <1>1. Doc' = Doc
    BY DocSame DEF Text, Doc
  <1>2. Sole(room)'
    BY DEF Text, Sole, Holds
  <1>3. ASSUME NEW r \in Rooms, current' = r \/ Holds(room'[r])
        PROVE  Replay(room'[r], store') = room'[r].doc
    <2>1. current = r \/ Holds(room[r])
      BY <1>3 DEF Holds
    <2>2. room'[r].saving = room[r].saving /\ room'[r].doc = room[r].doc
      BY <1>3 DEF Holds
    <2>3. Replay(room'[r], store') = Replay(room[r], store)
      BY <2>2 DEF Replay
    <2>. QED
      BY <2>1, <2>2, <2>3 DEF Text
  <1>4. current' # None => Doc' = room'[current'].doc
    BY <1>1 DEF Text
  <1>. QED
    BY <1>1, <1>2, <1>3, <1>4 DEF Text

\* A step after which the room r shows d, which is what its updates and the
\* stored ones add up to, and no other room holds any.
LEMMA TextMoves ==
    ASSUME NEW r \in Rooms, NEW d, store' \in Content,
           \A q \in Rooms \ {r} :
              ~Holds(room'[q]) /\ (Holds(room'[r]) => room'[q].state \notin {"live", "creating"}),
           Replay(room'[r], store') = d, d.note = edits',
           room'[r].doc = d, current' \in {r, None}, None \notin Rooms
    PROVE  Text' /\ Doc' = d
  <1>1. Doc' = d
    BY DocIs DEF Doc
  <1>2. Sole(room)'
    BY DEF Sole
  <1>. QED
    BY <1>1, <1>2 DEF Text

\* A step after which no room holds updates and none is live.
LEMMA TextAlone ==
    ASSUME \A r \in Rooms : ~Holds(room'[r]), current' = None, None \notin Rooms,
           store' # None => store'.note = edits'
    PROVE  Text' /\ Doc' = store'
  <1>1. Doc' = store'
    BY DocNone DEF Doc
  <1>. QED
    BY <1>1 DEF Text, Sole

\* Only an edit and the drain change the document.
NewText == Text' /\ (store # None /\ ~Edit /\ ~Apply => Doc' = Doc)

LEMMA NextText == ASSUME IndInv, Typed', [Next]_vars, Saved' PROVE NewText
  <1>. USE RoomsAssumption, NoneAssumption, BoundsAssumption DEF IndInv
  <1>0. Text /\ Saved
    BY SavedBefore DEF DocInv, Seeds
  <1>c. current \in Rooms \cup {None} /\ current' \in Rooms \cup {None}
    BY DEF Typed
  <1>n. store # None => store \in Content
    BY DEF Typed
  <1>e. current = None /\ (\A r \in Rooms : ~Holds(room[r])) /\ store # None => store.note = edits
    BY <1>0, DocNone DEF Text, Doc
  <1>1. CASE RecordRead \/ RecordCommit \/ Age \/ Purge \/ Claim \/ ApplyRoomless \/ UNCHANGED vars
    <2>1. UNCHANGED <<store, edits, current, room>>
      BY <1>1 DEF RecordRead, RecordCommit, Age, Purge, Claim, ApplyRoomless, vars
    <2>. QED
      BY <1>0, <1>c, <2>1, TextKept DEF NewText
  <1>5. CASE Join \/ Leave
    <2>1. UNCHANGED <<store, edits, current>>
      BY <1>5 DEF Join, Leave
    <2>. QED
      BY <1>0, <1>c, <1>5, <2>1, ClientsMove, TextKept DEF Elsewhere, SameRoom, NewText
  <1>6. CASE Edit
    <2>. DEFINE m == room[current] n == room'[current]
    <2>1. /\ current \in Rooms /\ UNCHANGED <<store, current>> /\ Elsewhere(current)
          /\ n.doc = [ev |-> m.doc.ev, note |-> edits'] /\ n.saving = m.saving \cup {"note"}
      BY <1>6, EditMoves DEF Edit
    <2>2. m.state = "live" /\ store \in Content /\ Replay(m, store) = m.doc
      BY <1>0, <1>n, <2>1 DEF RoomInv, DocInv, Seeds, Text
    <2>3. \A q \in Rooms \ {current} :
             ~Holds(room'[q]) /\ room'[q].state \notin {"live", "creating"}
      <3>1. \A q \in Rooms \ {current} : ~Holds(room[q]) /\ room[q].state \notin {"live", "creating"}
        BY <1>0, <2>1, <2>2 DEF Text, Sole, RoomInv
      <3>. QED
        BY <2>1, <3>1 DEF Elsewhere
    <2>4. Replay(n, store) = n.doc
      <3>1. (IF "ev" \in m.saving THEN m.doc.ev ELSE store.ev) = m.doc.ev
        BY <2>2 DEF Replay
      <3>. QED
        BY <2>1, <3>1 DEF Replay
    <2>5. n.doc.note = edits'
      BY <2>1
    <2>6. store' \in Content /\ current' \in {current, None} /\ Replay(n, store') = n.doc
      BY <2>1, <2>2, <2>4
    <2>. HIDE DEF n
    <2>. QED
      BY <1>6, <2>1, <2>3, <2>5, <2>6, TextMoves DEF n, NewText
  <1>8. CASE Apply
    <2>1. current \in Rooms /\ UNCHANGED <<store, current, edits>>
      BY <1>8, ApplyMoves DEF Apply
    <2>2. PICK v \in drain :
            UNCHANGED room \/ (Elsewhere(current) /\ Shows(room[current], room'[current], v))
      BY <1>8, ApplyMoves
    <2>3. CASE UNCHANGED room
      BY <1>0, <1>c, <2>1, <2>3, TextKept DEF NewText
    <2>4. CASE Elsewhere(current) /\ Shows(room[current], room'[current], v)
      <3>. DEFINE m == room[current] n == room'[current]
      <3>1. m.state = "live" /\ store \in Content /\ Replay(m, store) = m.doc /\ m.doc.note = edits
        BY <1>0, <1>n, <2>1 DEF RoomInv, DocInv, Seeds, Text
      <3>2. \A q \in Rooms \ {current} :
               ~Holds(room'[q]) /\ room'[q].state \notin {"live", "creating"}
        <4>1. \A q \in Rooms \ {current} : ~Holds(room[q]) /\ room[q].state \notin {"live", "creating"}
          BY <1>0, <2>1, <3>1 DEF Text, Sole, RoomInv
        <4>. QED
          BY <2>4, <4>1 DEF Elsewhere
      <3>3. n.saving = m.saving \cup {"ev"} /\ n.doc = [ev |-> v, note |-> m.doc.note]
        BY <2>4 DEF Shows
      <3>4. Replay(n, store) = n.doc
        <4>1. (IF "note" \in m.saving THEN m.doc.note ELSE store.note) = m.doc.note
          BY <3>1 DEF Replay
        <4>. QED
          BY <3>3, <4>1 DEF Replay
      <3>5. n.doc.note = edits'
        BY <2>1, <3>1, <3>3
      <3>6. store' \in Content /\ current' \in {current, None} /\ Replay(n, store') = n.doc
        BY <2>1, <3>1, <3>4
      <3>. HIDE DEF n
      <3>. QED
        BY <1>8, <2>1, <3>2, <3>5, <3>6, TextMoves DEF n, NewText
    <2>. QED
      BY <2>2, <2>3, <2>4
  <1>10. CASE Stop
    <2>1. ~Unsaved /\ current' = None /\ UNCHANGED <<store, edits>>
      BY <1>10, StopMoves DEF Stop, Saved
    <2>2. Doc = store
      BY <2>1, DocNone DEF Unsaved, Holds, Doc
    <2>3. \A r \in Rooms : ~Holds(room'[r])
      BY <1>10, StopMoves, NewRoomIs DEF Holds
    <2>. QED
      BY <1>0, <2>1, <2>2, <2>3, TextAlone DEF Text, NewText
  <1>11. ASSUME NEW r \in Rooms, CreateRoom(r) PROVE NewText
    <2>1. ~Unsaved /\ current = None /\ UNCHANGED <<store, edits, current>>
      BY <1>11 DEF CreateRoom, Accident, Noted, Saved
    <2>2. \A q \in Rooms : ~Holds(room[q])
      BY <2>1 DEF Unsaved, Holds
    <2>3. \A q \in Rooms : ~Holds(room'[q])
      BY <1>11, <2>2, CreateMoves DEF Elsewhere, Holds
    <2>4. Doc = store
      BY <2>2, DocNone DEF Doc
    <2>. QED
      BY <1>e, <2>1, <2>2, <2>3, <2>4, TextAlone DEF NewText
  <1>12. ASSUME NEW r \in Rooms, RoomReady(r) PROVE NewText
    <2>1. room[r].state = "creating" /\ current = None /\ ~Holds(room[r])
      BY <1>12, ReadyMoves DEF RoomInv, Holds
    <2>2. \A q \in Rooms : ~Holds(room[q])
      BY <1>0, <2>1 DEF Text, Sole
    <2>3. \A q \in Rooms : ~Holds(room'[q])
      BY <1>12, <2>2, ReadyMoves DEF Elsewhere, Holds
    <2>4. store' = room[r].doc /\ store' \in Content /\ room'[r].doc = room[r].doc
      BY <1>0, <1>12, <2>1, ReadyMoves, SeededIs DEF RoomInv, Seeded
    <2>5. store'.note = edits'
      <3>1. edits' = edits
        BY <1>12 DEF RoomReady
      <3>2. CASE store = None
        BY <2>1, <2>4, <3>1, <3>2 DEF RoomInv, DocInv, Seeds
      <3>3. CASE store # None
        BY <1>0, <1>e, <2>1, <2>2, <2>4, <3>1, <3>3 DEF RoomInv
      <3>. QED
        BY <3>2, <3>3
    <2>6. Replay(room'[r], store') = store'
      BY <2>3, <2>4, ReplayIs DEF Holds
    <2>7. current' \in {r, None}
      BY <1>12, ReadyMoves
    <2>8. store # None => store' = Doc
      BY <1>12, <2>2, ReadyMoves, DocNone DEF Doc, Seeded
    <2>. QED
      BY <2>3, <2>4, <2>5, <2>6, <2>7, <2>8, TextMoves DEF NewText
  <1>13. ASSUME NEW r \in Rooms, Evict(r) PROVE NewText
    <2>1. current = r /\ current' = None /\ UNCHANGED <<store, edits>>
          /\ room[r].state = "live"
      BY <1>13, EvictMoves DEF Evict, RoomInv
    <2>2. /\ room'[r].saving = room[r].saving
          /\ Holds(room[r]) => room'[r].doc = room[r].doc
          /\ room'[r].state \notin {"live", "creating"}
      <3>1. CASE room[r].timer \/ room[r].dirty \/ room[r].flushing
        BY <1>13, <3>1, EvictMoves
      <3>2. CASE ~(room[r].timer \/ room[r].dirty \/ room[r].flushing)
        <4>1. room'[r] = NewRoom /\ Accident("unsaved", Holds(room[r]))
          BY <1>13, <3>2, EvictMoves
        <4>2. ~Holds(room[r])
          BY <4>1 DEF Accident, Noted, Saved
        <4>. QED
          BY <4>1, <4>2, NewRoomIs DEF Holds
      <3>. QED
        BY <3>1, <3>2
    <2>3. \A q \in Rooms \ {r} : room'[q] = room[q]
      BY <1>13, EvictMoves DEF Elsewhere
    <2>4. \A q \in Rooms :
              /\ room'[q].saving = room[q].saving
              /\ Holds(room[q]) \/ current' = q => room'[q].doc = room[q].doc
              /\ room'[q].state \in {"live", "creating"} => room[q].state \in {"live", "creating"}
      BY <2>1, <2>2, <2>3
    <2>. QED
      BY <1>0, <1>c, <2>1, <2>4, TextKept DEF NewText
  <1>14. ASSUME NEW r \in Rooms, Fire(r) PROVE NewText
    <2>1. \A q \in Rooms : /\ room'[q].state = room[q].state /\ room'[q].doc = room[q].doc
                          /\ room'[q].saving = room[q].saving
      BY <1>14, FireMoves DEF Elsewhere
    <2>2. UNCHANGED <<store, edits, current>>
      BY <1>14 DEF Fire
    <2>. QED
      BY <1>0, <1>c, <2>1, <2>2, TextKept DEF NewText
  <1>15. ASSUME NEW r \in Rooms, NEW s \in Slots, Load(r, s) \/ Write(r, s) \/ WriteRefused(r, s) \/ WriteFails(r, s)
         PROVE  NewText
    <2>1. UNCHANGED <<store, edits, current, room>>
      BY <1>15 DEF Load, Write, WriteRefused, WriteFails
    <2>. QED
      BY <1>0, <1>c, <2>1, TextKept DEF NewText
  <1>16. ASSUME NEW r \in Rooms, NEW s \in Slots, Land(r, s) PROVE NewText
    <2>1. UNCHANGED <<store, edits, current>> /\ Elsewhere(r) /\ flight[r][s].pc # "none"
          /\ (s = "final" => ~Holds(room[r]))
      BY <1>16, LandMoves DEF Land, Noted, Saved, Holds
    <2>2. s = "final" => room[r].state = "evicting"
      BY <2>1 DEF RoomInv
    <2>3. /\ room'[r].saving = room[r].saving
          /\ Holds(room[r]) \/ current = r => room'[r].doc = room[r].doc
          /\ room'[r].state \in {"live", "creating"} => room[r].state \in {"live", "creating"}
      <3>1. CASE room'[r] = NewRoom
        <4>1. s = "final" \/ room[r].state = "gone"
          BY <1>16, <2>1, <3>1, LandMoves, NewRoomIs DEF Ends, RoomInv, Slots
        <4>2. ~Holds(room[r]) /\ current # r
          BY <2>1, <2>2, <4>1 DEF RoomInv, Holds
        <4>. QED
          BY <3>1, <4>2, NewRoomIs DEF Holds
      <3>2. CASE room'[r] # NewRoom
        BY <1>16, <2>1, <3>2, LandMoves DEF Ends, Holds
      <3>. QED
        BY <3>1, <3>2
    <2>4. \A q \in Rooms :
              /\ room'[q].saving = room[q].saving
              /\ Holds(room[q]) \/ current' = q => room'[q].doc = room[q].doc
              /\ room'[q].state \in {"live", "creating"} => room[q].state \in {"live", "creating"}
      BY <2>1, <2>3 DEF Elsewhere
    <2>. QED
      BY <1>0, <1>c, <2>1, <2>4, TextKept DEF NewText
  <1>18. ASSUME NEW r \in Rooms, CreationFails(r) PROVE NewText
    <2>1. room[r].state = "creating" /\ current = None /\ current' = None /\ ~Holds(room[r])
      BY <1>18 DEF CreationFails, RoomInv, Holds
    <2>2. \A q \in Rooms : ~Holds(room[q])
      BY <1>0, <2>1 DEF Text, Sole
    <2>3. \A q \in Rooms : ~Holds(room'[q])
      BY <1>18, <2>2, FailureMoves, NewRoomIs DEF Elsewhere, Holds
    <2>4. store' # None => store'.note = edits'
      <3>1. edits' = edits /\ store' \in {store, Seeded(r)}
        BY <1>18 DEF CreationFails
      <3>2. CASE store = None
        BY <2>1, <3>1, <3>2 DEF RoomInv, DocInv, Seeds, Seeded
      <3>3. CASE store # None
        BY <1>e, <2>1, <2>2, <3>1, <3>3 DEF Seeded
      <3>. QED
        BY <3>2, <3>3
    <2>5. store # None => store' = Doc
      BY <1>18, <2>2, DocNone DEF Doc, CreationFails, Seeded
    <2>. QED
      BY <2>1, <2>3, <2>4, <2>5, TextAlone DEF NewText
  <1>19. ASSUME NEW r \in Rooms, NEW f \in Fields, Persist(r, f) PROVE NewText
    <2>. DEFINE m == room[r] n == room'[r]
    <2>1. /\ Elsewhere(r) /\ f \in m.saving /\ n.saving = m.saving \ {f}
          /\ n.state = m.state /\ n.doc = m.doc /\ UNCHANGED <<edits, current>>
      BY <1>19, PersistMoves DEF Persist
    <2>2. store # None /\ Holds(m)
      BY <2>1 DEF DocInv, Seeds, RoomInv, Holds
    <2>3. store' = Stored(f, m.doc)
      BY <1>0, <1>19 DEF Persist, Saved
    <2>4. \A q \in Rooms \ {r} : ~Holds(room'[q]) /\ room'[q].state \notin {"live", "creating"}
      BY <1>0, <2>1, <2>2 DEF Text, Sole, Elsewhere
    <2>5. m.doc = Replay(m, store) /\ m.doc = Doc /\ m.doc.note = edits
      <3>1. \A q \in Rooms \ {r} : ~Holds(room[q])
        BY <1>0, <2>2 DEF Text, Sole
      <3>2. Doc = Replay(m, store)
        BY <1>n, <2>2, <3>1, DocIs DEF Doc
      <3>. QED
        BY <1>0, <2>2, <3>2 DEF Text
    <2>6. Replay(n, store') = n.doc
      <3>1. /\ store'.ev = (IF f = "ev" THEN m.doc.ev ELSE store.ev)
            /\ store'.note = (IF f = "note" THEN m.doc.note ELSE store.note)
        BY <2>2, <2>3, StoredIs
      <3>2. /\ m.doc.ev = (IF "ev" \in m.saving THEN m.doc.ev ELSE store.ev)
            /\ m.doc.note = (IF "note" \in m.saving THEN m.doc.note ELSE store.note)
        <4>1. /\ Replay(m, store).ev = (IF "ev" \in m.saving THEN m.doc.ev ELSE store.ev)
              /\ Replay(m, store).note = (IF "note" \in m.saving THEN m.doc.note ELSE store.note)
          BY <1>n, <2>2, ReplayIs
        <4>2. Replay(m, store).ev = m.doc.ev /\ Replay(m, store).note = m.doc.note
          BY <2>5
        <4>. QED
          BY <4>1, <4>2
      <3>3. (IF "ev" \in n.saving THEN n.doc.ev ELSE store'.ev) = m.doc.ev
        BY <2>1, <3>1, <3>2
      <3>4. (IF "note" \in n.saving THEN n.doc.note ELSE store'.note) = m.doc.note
        BY <2>1, <3>1, <3>2
      <3>5. Replay(n, store') = [ev |-> m.doc.ev, note |-> m.doc.note]
        BY <3>3, <3>4 DEF Replay
      <3>6. m.doc = [ev |-> m.doc.ev, note |-> m.doc.note]
        BY <2>5 DEF Replay
      <3>. QED
        BY <2>1, <3>5, <3>6
    <2>7. current' \in {r, None}
      BY <1>0, <1>c, <2>1, <2>2 DEF Text, Sole, RoomInv
    <2>8. store' \in Content /\ n.doc.note = edits'
      BY <2>1, <2>2, <2>3, <2>5, StoredIs
    <2>. HIDE DEF n
    <2>. QED
      BY <2>1, <2>4, <2>5, <2>6, <2>7, <2>8, TextMoves DEF n, NewText
  <1>20. ASSUME NEW r \in Rooms, NEW f \in Fields, PersistFails(r, f) PROVE NewText
    BY <1>20 DEF PersistFails, Accident, Noted, Saved
  <1>. QED
    BY <1>1, <1>5, <1>6, <1>8, <1>10, <1>11, <1>12, <1>13,
       <1>14, <1>15, <1>16, <1>18, <1>19, <1>20 DEF Next, Reconcile

LEMMA NextDoc == ASSUME IndInv, Typed', [Next]_vars PROVE DocInv'
  <1>. USE RoomsAssumption, NoneAssumption, BoundsAssumption DEF IndInv
  <1>. SUFFICES Seeds'
    BY NextText DEF DocInv, NewText
  <1>0. Seeds
    BY DEF DocInv
  <1>1. CASE RecordRead
    BY <1>0, <1>1 DEF Seeds, RecordRead, Typed
  <1>2. CASE RecordCommit
    <2>1. row'.ev = last' /\ row'.note = writer.note /\ writer # None /\ writer' = None
      BY <1>2 DEF RecordCommit, Typed, Content
    <2>. QED
      BY <1>0, <1>2, <2>1 DEF Seeds, RecordCommit
  <1>3. CASE Age \/ Purge \/ Claim \/ ApplyRoomless
    BY <1>0, <1>3 DEF Seeds, Age, Purge, Claim, ApplyRoomless
  <1>5. CASE Join \/ Leave \/ Edit \/ Apply
    BY <1>0, <1>5 DEF Seeds, Join, Leave, Edit, Apply
  <1>10. CASE Stop
    <2>1. UNCHANGED <<row, store, writer, last, edits>> /\ current' = None
      BY <1>10 DEF Stop
    <2>. QED
      BY <1>0, <1>10, <2>1, StopMoves, NewRoomIs DEF Seeds
  <1>11. ASSUME NEW r \in Rooms, CreateRoom(r) PROVE Seeds'
    BY <1>0, <1>11, CreateMoves DEF CreateRoom, Elsewhere, Seeds
  <1>12. ASSUME NEW r \in Rooms, RoomReady(r) PROVE Seeds'
    BY <1>12, ReadyMoves, SeededIs DEF Seeds
  <1>13. ASSUME NEW r \in Rooms, Evict(r) \/ Fire(r) PROVE Seeds'
    <2>1. room[r].state \notin {"unused", "creating"}
      BY <1>13, EvictMoves, FireMoves DEF RoomInv
    <2>2. store # None
      BY <1>0, <2>1 DEF Seeds
    <2>. QED
      BY <1>13, <2>2 DEF Evict, Fire, Seeds
  <1>15. ASSUME NEW r \in Rooms, NEW s \in Slots,
                Load(r, s) \/ Write(r, s) \/ WriteRefused(r, s) \/ WriteFails(r, s) \/ Land(r, s)
         PROVE  Seeds'
    <2>1. UNCHANGED store
      BY <1>15 DEF Load, Write, WriteRefused, WriteFails, Land
    <2>2. flight[r][s].pc # "none"
      BY <1>15 DEF Load, Write, WriteRefused, WriteFails, Land
    <2>3. store # None
      BY <1>0, <2>2 DEF RoomInv, Slots, Seeds
    <2>. QED
      BY <2>1, <2>3 DEF Seeds
  <1>17. CASE UNCHANGED vars
    BY <1>0, <1>17 DEF vars, Seeds
  <1>18. ASSUME NEW r \in Rooms, CreationFails(r) PROVE Seeds'
    <2>1. current' = None /\ UNCHANGED <<row, writer, last, edits>> /\ store' \in {store, Seeded(r)}
      BY <1>18 DEF CreationFails, RoomInv
    <2>2. store' = None => store = None
      BY <2>1, SeededIs
    <2>3. \A q \in Rooms : room'[q] = room[q] \/ room'[q] = NewRoom
      BY <1>18, FailureMoves DEF Elsewhere
    <2>. QED
      BY <1>0, <2>1, <2>2, <2>3, NewRoomIs DEF Seeds
  <1>19. ASSUME NEW r \in Rooms, NEW f \in Fields, Persist(r, f) \/ PersistFails(r, f)
         PROVE  Seeds'
    <2>1. store # None
      BY <1>0, <1>19, PersistMoves DEF RoomInv, Seeds
    <2>2. store' \in {store, Stored(f, room[r].doc)}
      BY <1>19 DEF Persist, PersistFails
    <2>. QED
      BY <2>1, <2>2, StoredIs, NoneAssumption DEF Seeds
  <1>. QED
    BY <1>1, <1>2, <1>3, <1>5, <1>10, <1>11, <1>12, <1>13,
       <1>15, <1>17, <1>18, <1>19 DEF Next, Reconcile

\* A step that leaves the state and the flags of every room alone, and what a
\* room that is being created was given.
LEMMA RoomsKept ==
    ASSUME \A r \in Rooms : RoomInv(r), UNCHANGED <<current, flight>>,
           Saved' => Saved, store' = None => store = None,
           Saved' => UNCHANGED store \/ \A r \in Rooms : room[r].state # "creating",
           \A r \in Rooms :
              /\ room'[r].state = room[r].state /\ room'[r].timer = room[r].timer
              /\ room'[r].flushing = room[r].flushing /\ room'[r].dirty = room[r].dirty
              /\ room[r].saving = {} => room'[r].saving = {}
              /\ current = None => room'[r].doc = room[r].doc
    PROVE  \A r \in Rooms : RoomInv(r)'
  BY DEF RoomInv

LEMMA NextRooms == ASSUME IndInv, [Next]_vars PROVE \A r \in Rooms : RoomInv(r)'
  <1>. USE RoomsAssumption, NoneAssumption, BoundsAssumption DEF IndInv
  <1>0. Saved' => Saved
    BY SavedBefore
  <1>1. CASE RecordRead \/ RecordCommit \/ Age \/ Purge \/ Claim \/ ApplyRoomless \/ UNCHANGED vars
    BY <1>0, <1>1, RoomsKept DEF RecordRead, RecordCommit, Age, Purge, Claim, ApplyRoomless, vars
  <1>2. CASE Join \/ Leave
    <2>1. UNCHANGED <<current, flight, store>>
      BY <1>2 DEF Join, Leave
    <2>. QED
      BY <1>0, <1>2, <2>1, ClientsMove, RoomsKept DEF Elsewhere, SameRoom
  <1>3. CASE Edit
    <2>1. /\ current \in Rooms /\ current # None /\ UNCHANGED <<current, flight, store>>
          /\ room[current].state = "live"
      BY <1>3, EditMoves DEF Edit, RoomInv
    <2>. QED
      BY <1>3, <2>1, EditMoves DEF Elsewhere, RoomInv
  <1>4. CASE Apply
    <2>1. /\ current \in Rooms /\ current # None /\ UNCHANGED <<current, flight, store>>
          /\ room[current].state = "live"
      BY <1>4, ApplyMoves DEF Apply, RoomInv
    <2>2. PICK v \in drain :
            \/ UNCHANGED room
            \/ Elsewhere(current) /\ Shows(room[current], room'[current], v)
      BY <1>4, ApplyMoves
    <2>3. CASE UNCHANGED room
      BY <1>0, <2>1, <2>3, RoomsKept
    <2>4. CASE Elsewhere(current) /\ Shows(room[current], room'[current], v)
      BY <2>1, <2>4 DEF Elsewhere, RoomInv, Shows
    <2>. QED
      BY <2>2, <2>3, <2>4
  <1>5. CASE Stop
    <2>1. current' = None
      BY <1>5 DEF Stop
    <2>. QED
      BY <1>5, <2>1, StopMoves, NewRoomIs DEF RoomInv, Slots
  <1>6. ASSUME NEW r \in Rooms, CreateRoom(r) PROVE \A q \in Rooms : RoomInv(q)'
    <2>1. /\ current = None /\ room[r].state = "unused" /\ UNCHANGED <<current, flight, store>>
          /\ \A q \in Rooms : room[q].state # "creating"
      BY <1>6 DEF CreateRoom, Creating
    <2>2. store = None => room'[r].doc.note = 0
      BY <1>6, CreateMoves DEF DocInv, Seeds
    <2>3. \A q \in Rooms \ {r} : room'[q] = room[q]
      BY <1>6, CreateMoves DEF Elsewhere
    <2>4. RoomInv(r)'
      BY <1>0, <1>6, <2>1, <2>2, <2>3, CreateMoves DEF RoomInv
    <2>. QED
      BY <1>0, <2>1, <2>3, <2>4 DEF RoomInv
  <1>7. ASSUME NEW r \in Rooms, RoomReady(r) PROVE \A q \in Rooms : RoomInv(q)'
    <2>1. current = None /\ UNCHANGED flight
      BY <1>7, ReadyMoves DEF RoomReady, RoomInv
    <2>2. \A q \in Rooms \ {r} : room'[q] = room[q] /\ room[q].state # "creating" /\ room[q].state # "live"
      BY <1>7, <2>1, ReadyMoves DEF RoomInv, Elsewhere
    <2>. QED
      BY <1>0, <1>7, <2>1, <2>2, ReadyMoves DEF RoomInv
  <1>8. ASSUME NEW r \in Rooms, Evict(r) PROVE \A q \in Rooms : RoomInv(q)'
    <2>1. current = r /\ current' = None /\ UNCHANGED store /\ room[r].state = "live"
      BY <1>8, EvictMoves DEF Evict, RoomInv
    <2>2. \A q \in Rooms \ {r} :
             /\ room'[q] = room[q] /\ room[q].state # "creating" /\ room[q].state # "live"
             /\ \A s \in Slots : flight'[q][s] = flight[q][s]
      BY <1>8, <2>1, EvictMoves DEF RoomInv, Elsewhere, Others
    <2>3. CASE room[r].timer \/ room[r].dirty \/ room[r].flushing
      BY <1>8, <2>1, <2>2, <2>3, EvictMoves DEF RoomInv, Slots
    <2>4. CASE ~(room[r].timer \/ room[r].dirty \/ room[r].flushing)
      BY <1>8, <2>1, <2>2, <2>4, EvictMoves, NewRoomIs DEF RoomInv, Slots
    <2>. QED
      BY <2>3, <2>4
  <1>9. ASSUME NEW r \in Rooms, Fire(r) PROVE \A q \in Rooms : RoomInv(q)'
    <2>1. UNCHANGED <<current, store>>
      BY <1>9 DEF Fire
    <2>2. \A q \in Rooms, s \in Slots :
             flight'[q][s].pc = flight[q][s].pc \/ (q = r /\ s = "timer" /\ flight'[q][s].pc = "snapped")
      BY <1>9, FireMoves DEF Others, Snaps
    <2>3. room[r].state \notin {"unused", "creating"}
      BY <1>9, FireMoves DEF RoomInv
    <2>. QED
      BY <1>0, <1>9, <2>1, <2>2, <2>3, FireMoves DEF Elsewhere, RoomInv, Slots, Snaps
  <1>10. ASSUME NEW r \in Rooms, NEW s \in Slots, Load(r, s) \/ Write(r, s) \/ WriteRefused(r, s) \/ WriteFails(r, s)
         PROVE  \A q \in Rooms : RoomInv(q)'
    <2>1. UNCHANGED <<current, store, room>>
      BY <1>10 DEF Load, Write, WriteRefused, WriteFails
    <2>2. \A q \in Rooms, t \in Slots : flight'[q][t].pc = "none" <=> flight[q][t].pc = "none"
      BY <1>10, WorkerMoves DEF Others
    <2>. QED
      BY <1>0, <2>1, <2>2 DEF RoomInv, Slots
  <1>11. ASSUME NEW r \in Rooms, NEW s \in Slots, Land(r, s) PROVE \A q \in Rooms : RoomInv(q)'
    <2>1. UNCHANGED <<current, store>>
      BY <1>11 DEF Land
    <2>2. Elsewhere(r) /\ Others(r, s) /\ flight[r][s].pc # "none" /\ flight'[r][s].pc = "none"
      BY <1>11, LandMoves
    <2>3. room[r].state \notin {"unused", "creating"} /\ (s = "final" => room[r].state = "evicting")
      BY <2>2 DEF RoomInv, Slots
    <2>4. RoomInv(r)'
      <3>1. CASE room'[r] = NewRoom
        <4>1. \A t \in Slots : flight'[r][t].pc = "none"
          BY <1>11, <2>2, <2>3, <3>1, LandMoves, NewRoomIs DEF Ends, Others
        <4>2. room[r].state # "live"
          BY <1>11, <2>3, <3>1, LandMoves, NewRoomIs DEF Ends
        <4>. QED
          BY <2>1, <3>1, <4>1, <4>2, NewRoomIs DEF RoomInv, Slots
      <3>2. CASE room'[r] # NewRoom
        <4>1. ~room'[r].flushing /\ ~room'[r].dirty
              /\ (room[r].saving = {} \/ s = "final" => room'[r].saving = {})
              /\ room'[r].state = (IF s = "final" THEN "gone" ELSE room[r].state)
          BY <1>11, <3>2, LandMoves DEF Ends
        <4>2. \A t \in Slots : flight'[r][t].pc = IF t = s THEN "none" ELSE flight[r][t].pc
          BY <2>2 DEF Others
        <4>. QED
          BY <2>1, <2>3, <4>1, <4>2 DEF RoomInv, Slots
      <3>. QED
        BY <3>1, <3>2
    <2>5. room'[r].state # "creating"
      BY <1>11, <2>3, LandMoves, NewRoomIs DEF Ends
    <2>6. ASSUME NEW q \in Rooms, q # r PROVE RoomInv(q)'
      <3>1. room'[q] = room[q] /\ \A t \in Slots : flight'[q][t] = flight[q][t]
        BY <2>2, <2>6 DEF Elsewhere, Others
      <3>2. \A p \in Rooms : room'[p].state = "creating" => room[p].state = "creating"
        BY <2>2, <2>5 DEF Elsewhere
      <3>. QED
        BY <1>0, <2>1, <3>1, <3>2 DEF RoomInv, Slots
    <2>. QED
      BY <2>4, <2>6
  <1>12. ASSUME NEW r \in Rooms, CreationFails(r) PROVE \A q \in Rooms : RoomInv(q)'
    <2>1. /\ current = None /\ UNCHANGED <<current, flight>> /\ room[r].state = "creating"
          /\ room'[r] = NewRoom /\ \A q \in Rooms \ {r} : room'[q] = room[q]
      BY <1>12, FailureMoves DEF CreationFails, RoomInv, Elsewhere
    <2>2. \A q \in Rooms \ {r} : room[q].state # "creating"
      BY <2>1 DEF RoomInv
    <2>. QED
      BY <2>1, <2>2, NewRoomIs DEF RoomInv, Slots
  <1>13. ASSUME NEW r \in Rooms, NEW f \in Fields, Persist(r, f) \/ PersistFails(r, f)
         PROVE  \A q \in Rooms : RoomInv(q)'
    <2>1. Elsewhere(r) /\ Holds(room[r])
      BY <1>13, PersistMoves DEF Holds
    <2>2. \A q \in Rooms :
             /\ room'[q].state = room[q].state /\ room'[q].timer = room[q].timer
             /\ room'[q].flushing = room[q].flushing /\ room'[q].dirty = room[q].dirty
             /\ room[q].saving = {} => room'[q].saving = {}
             /\ room'[q].doc = room[q].doc
      BY <1>13, <2>1, PersistMoves DEF Elsewhere
    <2>3. Saved' => \A q \in Rooms : room[q].state # "creating"
      <3>1. room[r].state # "creating"
        BY <2>1 DEF RoomInv, Holds
      <3>. QED
        BY <1>0, <2>1, <3>1 DEF DocInv, Text, Sole
    <2>4. store' = None => store = None
      <3>1. store # None /\ store' \in {store, Stored(f, room[r].doc)}
        BY <1>13, <2>1 DEF Persist, PersistFails, DocInv, Seeds, RoomInv, Holds
      <3>. QED
        BY <3>1, StoredIs
    <2>5. UNCHANGED <<current, flight>>
      BY <1>13 DEF Persist, PersistFails
    <2>. QED
      BY <1>0, <2>2, <2>3, <2>4, <2>5, RoomsKept
  <1>. QED
    BY <1>12, <1>13, <1>1, <1>2, <1>3, <1>4, <1>5, <1>6, <1>7, <1>8, <1>9, <1>10, <1>11 DEF Next, Reconcile

LEMMA IndInvHolds == Spec => []IndInv
  <1>1. ASSUME IndInv, [Next]_vars PROVE IndInv'
    BY <1>1, NextTyped, NextCounted, NextDoc, NextRooms DEF IndInv
  <1>. QED
    BY <1>1, InitIndInv, PTL DEF Spec

\* Every variable keeps its type; a reconcile that is asked for while one is in
\* flight is remembered only until that one ends, and the last reconcile of a
\* room belongs to an eviction (materializer.py, _flush; server.py, _evict_room).
THEOREM TypesHold == Spec => []TypeOK
  <1>1. IndInv => TypeOK
    BY DEF IndInv, Typed, TypeOK, RoomInv, RoomType, FlightType
  <1>. QED
    BY <1>1, IndInvHolds, PTL

\* While no update was lost on its way to the database, the last edit is stored
\* or about to be, and the live document is what a replay will give, whatever
\* else happens (pg_ystore.py, write; server.py, _create_room, _evict_room).
THEOREM EditsAreKept == Spec => []EditsKept
  <1>1. IndInv => EditsKept
    <2>. SUFFICES ASSUME IndInv, Saved PROVE EditsKept
      BY DEF EditsKept, Saved
    <2>1. Text /\ Seeds /\ current \in Rooms \cup {None} /\ (store # None => store \in Content)
      BY DEF IndInv, DocInv, Typed
    <2>2. current # None => Replayed(room[current]) = room[current].doc
      BY <2>1 DEF Text, Replay, Replayed
    <2>3. ASSUME edits > 0
          PROVE  /\ store # None
                 /\ \/ store.note = edits
                    \/ \E r \in Rooms : "note" \in room[r].saving /\ room[r].doc.note = edits
      <3>1. store # None /\ Doc.note = edits
        BY <2>1, <2>3 DEF Seeds, Text
      <3>2. CASE \E r \in Rooms : Holds(room[r])
        <4>1. PICK r \in Rooms : Holds(room[r])
          BY <3>2
        <4>2. Doc = Replay(room[r], store)
          BY <2>1, <3>1, <4>1, DocIs DEF Doc, Text, Sole
        <4>. QED
          BY <3>1, <4>2 DEF Replay
      <3>3. CASE \A r \in Rooms : ~Holds(room[r])
        BY <3>1, <3>3, DocNone DEF Doc
      <3>. QED
        BY <3>2, <3>3
    <2>. QED
      BY <2>2, <2>3 DEF EditsKept
  <1>. QED
    BY <1>1, IndInvHolds, PTL

-----------------------------------------------------------------------------
(* Agreement: while no accident happened.                                  *)

Again == current # None /\ (room[current].timer \/ room[current].dirty)

Carries(f) == f.pc \in {"snapped", "loaded"}

\* One room at most has work to do, and one reconcile of it is in flight.
Alone ==
    /\ \A p, q \in Rooms : Working(p) /\ Working(q) => p = q
    /\ current # None => \A q \in Rooms \ {current} : ~Working(q)
    /\ \A r \in Rooms :
          /\ room[r].state # "gone"
          /\ room[r].state = "evicting" =>
                ~room[r].timer /\ ~room[r].dirty /\ flight[r]["timer"].pc = "none"
          /\ \A s \in Slots : flight[r][s].pc # "failed"

\* The last run is in the document, or on its way to it.
Mirrors ==
    /\ store # None => Doc.ev = last \/ last \in queue \cup drain
    /\ store = None => \A r \in Rooms : room[r].state = "creating" =>
           room[r].doc = row \/ (room[r].doc.ev # last /\ last \in queue)

\* A document that shows the last run is in the row, or a reconcile carries it
\* there, or is due: whoever writes the row in between makes another one due.
Writes ==
    store # None /\ Doc.ev = last /\ ~Again =>
       /\ \A r \in Rooms, s \in Slots : Carries(flight[r][s]) =>
             flight[r][s].snap = Doc /\ (flight[r][s].pc = "loaded" => flight[r][s].base = row)
       /\ row = Doc \/ \E r \in Rooms, s \in Slots : Carries(flight[r][s])

Agreement == accidents = {} => Alone /\ Mirrors /\ Writes

LEMMA InitAgreement == Init => Agreement
  <1>. SUFFICES ASSUME Init PROVE Agreement
    OBVIOUS
  <1>1. Doc = store
    BY DocNone DEF Init, NewRoom, Holds, Doc
  <1>. QED
    BY <1>1 DEF Init, Agreement, Alone, Mirrors, Writes, Working, InFlight, NewRoom, Landed, Slots, Carries, Blank

LEMMA NoAccident ==
    ASSUME IndInv, [Next]_vars, accidents' = {}
    PROVE  /\ accidents = {} /\ ~Stop /\ ~ApplyRoomless
           /\ \A r \in Rooms, s \in Slots : ~WriteFails(r, s) /\ ~WriteRefused(r, s)
           /\ \A r \in Rooms, f \in Fields : ~PersistFails(r, f)
           /\ Purge \/ Claim => ~(aged # {} /\ Max(queue) \in aged)
           /\ \A r \in Rooms :
                 /\ RoomReady(r) => \A q \in Rooms : ~Working(q)
                 /\ Evict(r) => ~InFlight(r)
  <1>1. ASSUME NEW e, NEW P, Accident(e, P) PROVE accidents = {} /\ ~P
    BY <1>1 DEF Accident, Noted
  <1>2. ~Stop /\ ~ApplyRoomless /\ \A r \in Rooms, s \in Slots : ~WriteFails(r, s) /\ ~WriteRefused(r, s)
    BY <1>1 DEF Stop, ApplyRoomless, WriteFails, WriteRefused
  <1>3. Purge \/ Claim => accidents = {} /\ ~(aged # {} /\ Max(queue) \in aged)
    BY <1>1 DEF Purge, Claim, Dropped
  <1>4. \A r \in Rooms : RoomReady(r) => accidents = {} /\ \A q \in Rooms : ~Working(q)
    BY <1>1 DEF RoomReady
  <1>5. ASSUME NEW r \in Rooms, Evict(r) PROVE accidents = {} /\ ~InFlight(r)
    <2>1. CASE Pending(room[r])
      BY <1>1, <1>5, <2>1 DEF Evict
    <2>2. CASE ~Pending(room[r])
      <3>1. accidents = {}
        BY <1>1, <1>5, <2>2 DEF Evict
      <3>2. room[r].state = "live" /\ ~room[r].flushing
        BY <1>5, <2>2 DEF IndInv, RoomInv, Evict, Pending
      <3>3. ~InFlight(r)
        BY <3>2 DEF IndInv, RoomInv, InFlight, Slots
      <3>. QED
        BY <3>1, <3>3
    <2>. QED
      BY <2>1, <2>2
  <1>6. RecordRead \/ RecordCommit \/ Age \/ Join \/ Leave \/ Edit \/ Apply \/ UNCHANGED vars
          => accidents = {}
    BY DEF RecordRead, RecordCommit, Age, Join, Leave, Edit, Apply, vars
  <1>7. \A r \in Rooms : CreateRoom(r) \/ CreationFails(r) \/ Fire(r) => accidents = {}
    BY <1>1 DEF CreateRoom, CreationFails, Fire
  <1>8. \A r \in Rooms, s \in Slots : Load(r, s) \/ Write(r, s) \/ Land(r, s) => accidents = {}
    BY DEF Load, Write, Land, Noted
  <1>9. \A r \in Rooms, f \in Fields : ~PersistFails(r, f) /\ (Persist(r, f) => accidents = {})
    BY <1>1 DEF Persist, PersistFails
  <1>. QED
    BY <1>2, <1>3, <1>4, <1>5, <1>6, <1>7, <1>8, <1>9 DEF Next, Reconcile

\* While no accident happened, the document is what is stored and about to be.
LEMMA DocMoves ==
    ASSUME IndInv, [Next]_vars, accidents' = {}
    PROVE  /\ Text /\ NewText /\ Text'
           /\ store # None => store \in Content /\ store' # None
  <1>1. accidents = {} /\ Saved /\ Saved'
    BY NoAccident DEF Saved
  <1>2. Typed' /\ DocInv'
    BY NextTyped, NextDoc
  <1>3. store # None => store' # None
    <2>1. CASE RecordRead \/ RecordCommit \/ Age \/ Purge \/ Join \/ Leave \/ Edit \/ Claim
               \/ Apply \/ ApplyRoomless \/ Stop \/ UNCHANGED vars
      BY <2>1 DEF RecordRead, RecordCommit, Age, Purge, Join, Leave, Edit, Claim,
                  Apply, ApplyRoomless, Stop, vars
    <2>2. ASSUME NEW r \in Rooms,
                 CreateRoom(r) \/ RoomReady(r) \/ CreationFails(r) \/ Evict(r) \/ Fire(r)
          PROVE  store # None => store' # None
      BY <2>2 DEF CreateRoom, RoomReady, CreationFails, Evict, Fire, Seeded
    <2>3. ASSUME NEW r \in Rooms, NEW s \in Slots,
                 Load(r, s) \/ Write(r, s) \/ WriteRefused(r, s) \/ WriteFails(r, s) \/ Land(r, s)
          PROVE  UNCHANGED store
      BY <2>3 DEF Load, Write, WriteRefused, WriteFails, Land
    <2>4. ASSUME NEW r \in Rooms, NEW f \in Fields, Persist(r, f) \/ PersistFails(r, f)
          PROVE  store # None => store' # None
      BY <2>4, StoredIs, NoneAssumption DEF Persist, PersistFails, IndInv
    <2>. QED
      BY <2>1, <2>2, <2>3, <2>4 DEF Next, Reconcile
  <1>. QED
    BY <1>1, <1>2, <1>3, NextText DEF IndInv, DocInv, Typed, NewText

\* A step that leaves the edits and the drain alone is none of theirs.
LEMMA Quiet == ASSUME Typed PROVE (UNCHANGED edits => ~Edit) /\ (UNCHANGED drain => ~Apply)
  <1>1. ASSUME UNCHANGED edits, Edit PROVE FALSE
    <2>1. edits \in Nat /\ edits' = edits + 1
      BY <1>1, BoundsAssumption DEF Typed, Edit
    <2>. QED
      BY <1>1, <2>1
  <1>2. UNCHANGED drain => ~Apply
    BY DEF Apply
  <1>. QED
    BY <1>1, <1>2

\* While nothing was lost, the document shows no run that has not finished.
LEMMA DocBound ==
    ASSUME Typed, Counted, Text, store # None
    PROVE  Doc \in Content /\ Doc.ev \in Nat /\ last \in Nat /\ Doc.ev <= last
  <1>1. CASE \E r \in Rooms : Holds(room[r])
    <2>1. PICK r \in Rooms : Holds(room[r])
      BY <1>1
    <2>2. store \in Content /\ \A q \in Rooms \ {r} : ~Holds(room[q])
      BY <2>1 DEF Typed, Text, Sole
    <2>3. Doc = Replay(room[r], store)
      BY <2>2, DocIs DEF Doc
    <2>4. Doc = room[r].doc
      BY <2>1, <2>3 DEF Text
    <2>. QED
      BY <2>4, BoundsAssumption DEF Typed, RoomType, Content, Counted
  <1>2. CASE \A r \in Rooms : ~Holds(room[r])
    <2>1. Doc = store
      BY <1>2, DocNone DEF Doc
    <2>. QED
      BY <2>1, BoundsAssumption DEF Typed, Content, Counted
  <1>. QED
    BY <1>1, <1>2

LEMMA NextAlone == ASSUME IndInv, Alone, [Next]_vars, accidents' = {} PROVE Alone'
  <1>. USE RoomsAssumption DEF IndInv
  <1>1. CASE RecordRead \/ RecordCommit \/ Age \/ Purge \/ Claim \/ UNCHANGED vars
    BY <1>1 DEF RecordRead, RecordCommit, Age, Purge, Claim, vars, Alone, Working, InFlight
  <1>2. CASE Join \/ Leave
    <2>1. UNCHANGED <<current, flight>>
      BY <1>2 DEF Join, Leave
    <2>. QED
      BY <1>2, <2>1, ClientsMove DEF Elsewhere, SameRoom, Alone, Working, InFlight
  <1>3. CASE Edit \/ Apply
    <2>1. UNCHANGED <<current, flight>> /\ current \in Rooms /\ current # None
      BY <1>3, EditMoves, ApplyMoves DEF Edit, Apply
    <2>2. \A q \in Rooms \ {current} : room'[q] = room[q]
      BY <1>3, EditMoves, ApplyMoves DEF Elsewhere
    <2>3. room[current].state = "live" /\ room'[current].state = "live"
      BY <1>3, <2>1, EditMoves, ApplyMoves DEF RoomInv, Shows
    <2>. QED
      BY <2>1, <2>2, <2>3 DEF Alone, Working, InFlight
  <1>4. ASSUME NEW r \in Rooms, CreateRoom(r) PROVE Alone'
    <2>1. UNCHANGED <<current, flight>> /\ current = None
      BY <1>4 DEF CreateRoom
    <2>. QED
      BY <1>4, <2>1, CreateMoves DEF Elsewhere, Alone, Working, InFlight
  <1>5. ASSUME NEW r \in Rooms, RoomReady(r) PROVE Alone'
    <2>1. (\A q \in Rooms : ~Working(q)) /\ UNCHANGED flight
      BY <1>5, NoAccident DEF RoomReady
    <2>2. \A q \in Rooms : ~Working(q)'
      BY <1>5, <2>1, ReadyMoves DEF Elsewhere, Working, InFlight
    <2>. QED
      BY <1>5, <2>1, <2>2, ReadyMoves DEF Elsewhere, Alone
  <1>6. ASSUME NEW r \in Rooms, Evict(r) PROVE Alone'
    <2>1. ~InFlight(r) /\ current = r /\ current' = None /\ room[r].state = "live"
      BY <1>6, NoAccident, EvictMoves DEF RoomInv
    <2>2. \A s \in Slots : flight[r][s].pc = "none"
      BY <2>1 DEF InFlight
    <2>3. ~room[r].flushing /\ ~room[r].dirty
      BY <2>1, <2>2 DEF RoomInv, Slots
    <2>4. \A q \in Rooms \ {r} : ~Working(q)'
      <3>1. \A q \in Rooms \ {r} :
               room'[q] = room[q] /\ \A s \in Slots : flight'[q][s] = flight[q][s]
        BY <1>6, EvictMoves DEF Elsewhere, Others
      <3>. QED
        BY <2>1, <3>1 DEF Alone, Working, InFlight
    <2>5. \A q \in Rooms, s \in Slots :
             flight'[q][s].pc = flight[q][s].pc \/ (q = r /\ s = "final" /\ flight'[q][s].pc = "snapped")
      BY <1>6, EvictMoves DEF Others, Snaps
    <2>6. room'[r].state # "gone" /\ ~room'[r].timer /\ ~room'[r].dirty
      BY <1>6, <2>3, EvictMoves, NewRoomIs
    <2>. QED
      BY <1>6, <2>1, <2>2, <2>4, <2>5, <2>6, EvictMoves DEF Alone, Elsewhere, Slots
  <1>7. ASSUME NEW r \in Rooms, Fire(r) PROVE Alone'
    <2>1. UNCHANGED current /\ Working(r)
      BY <1>7, FireMoves DEF Fire, Working
    <2>2. \A q \in Rooms, s \in Slots :
             flight'[q][s].pc = flight[q][s].pc \/ (q = r /\ s = "timer" /\ flight'[q][s].pc = "snapped")
      BY <1>7, FireMoves DEF Others, Snaps
    <2>3. \A q \in Rooms : Working(q)' => Working(q)
      BY <1>7, <2>1, <2>2, FireMoves DEF Elsewhere, Working, InFlight
    <2>4. room[r].state # "evicting"
      BY <1>7, FireMoves DEF Alone
    <2>5. \A q \in Rooms : room'[q].state = room[q].state /\ (q # r => room'[q] = room[q])
      BY <1>7, FireMoves DEF Elsewhere
    <2>6. \A q \in Rooms : q # r => flight'[q]["timer"].pc = flight[q]["timer"].pc
      BY <2>2 DEF Slots
    <2>. QED
      BY <2>1, <2>2, <2>3, <2>4, <2>5, <2>6 DEF Alone
  <1>8. ASSUME NEW r \in Rooms, NEW s \in Slots, Load(r, s) \/ Write(r, s) PROVE Alone'
    <2>1. UNCHANGED <<current, room>>
      BY <1>8 DEF Load, Write
    <2>2. \A q \in Rooms, t \in Slots :
             /\ flight'[q][t].pc = "none" <=> flight[q][t].pc = "none"
             /\ flight'[q][t].pc # "failed"
      <3>1. Others(r, s) /\ flight[r][s].pc # "none" /\ flight'[r][s].pc \in {"loaded", "written"}
        BY <1>8, WorkerMoves
      <3>. QED
        BY <3>1 DEF Others, Alone
    <2>. QED
      BY <2>1, <2>2 DEF Alone, Working, InFlight, Slots
  <1>9. ASSUME NEW r \in Rooms, NEW s \in Slots, Land(r, s) PROVE Alone'
    <2>1. UNCHANGED current /\ Elsewhere(r) /\ Others(r, s)
          /\ flight[r][s].pc # "none" /\ flight'[r][s].pc = "none"
      BY <1>9, LandMoves DEF Land
    <2>2. \A q \in Rooms : Working(q)' => Working(q)
      BY <2>1 DEF Elsewhere, Others, Working, InFlight
    <2>3. ~(\E t \in Slots \ {s} : flight[r][t].pc # "none")
      BY <2>1 DEF Alone, RoomInv, Slots
    <2>4. room'[r] = NewRoom \/ (s = "timer" /\ room'[r].state = room[r].state /\ room[r].state # "evicting")
      BY <1>9, <2>1, <2>3, LandMoves DEF Ends, Alone, Slots
    <2>5. room'[r].state \notin {"gone", "evicting"}
      BY <2>4, NewRoomIs DEF Alone
    <2>6. \A q \in Rooms \ {r} :
             room'[q] = room[q] /\ \A t \in Slots : flight'[q][t] = flight[q][t]
      BY <2>1 DEF Elsewhere, Others
    <2>7. \A q \in Rooms, t \in Slots : flight'[q][t].pc # "failed"
      BY <2>1 DEF Others, Alone
    <2>. QED
      BY <2>1, <2>2, <2>5, <2>6, <2>7 DEF Alone, Slots
  <1>10. ASSUME NEW r \in Rooms, CreationFails(r) PROVE Alone'
    <2>1. UNCHANGED <<current, flight>>
      BY <1>10 DEF CreationFails
    <2>. QED
      BY <1>10, <2>1, FailureMoves, NewRoomIs DEF Elsewhere, Alone, Working, InFlight
  <1>11. ASSUME NEW r \in Rooms, NEW f \in Fields, Persist(r, f) PROVE Alone'
    <2>1. UNCHANGED <<current, flight>>
      BY <1>11 DEF Persist
    <2>. QED
      BY <1>11, <2>1, PersistMoves DEF Elsewhere, Alone, Working, InFlight
  <1>. QED
    BY NoAccident, <1>10, <1>11, <1>1, <1>2, <1>3, <1>4, <1>5, <1>6, <1>7, <1>8, <1>9 DEF Next, Reconcile

LEMMA NextMirrors == ASSUME IndInv, Mirrors, [Next]_vars, accidents' = {} PROVE Mirrors'
  <1>. USE RoomsAssumption DEF IndInv
  <1>0. last \in Nat /\ queue \subseteq Nat /\ drain \subseteq Nat
    BY BoundsAssumption DEF Typed
  <1>a. store # None => store' # None
    BY DocMoves
  <1>b. store # None /\ ~Edit /\ ~Apply => Doc' = Doc
    BY DocMoves DEF NewText
  <1>1. CASE RecordRead \/ Age \/ UNCHANGED vars
    <2>1. UNCHANGED <<store, room, row, queue, drain, last>>
      BY <1>1 DEF RecordRead, Age, vars
    <2>. QED
      BY <2>1 DEF Mirrors, Doc
  <1>2. CASE RecordCommit
    <2>1. last' = last + 1 /\ last' \in queue' /\ UNCHANGED <<store, room>>
      BY <1>2 DEF RecordCommit, Mirror
    <2>2. \A r \in Rooms : room[r].doc.ev <= last /\ room[r].doc.ev \in Nat
      BY DEF Counted, Typed, RoomType, Content
    <2>. QED
      BY <1>0, <2>1, <2>2 DEF Mirrors
  <1>3. CASE Purge \/ Claim
    <2>1. last \in queue => last \in queue' \cup drain'
      <3>1. ASSUME last \in queue PROVE last \notin aged
        <4>1. Max(queue) = last
          BY <3>1, <1>0, MaxIs DEF Counted
        <4>. QED
          BY <1>3, <4>1, NoAccident
      <3>. QED
        BY <1>3, <3>1 DEF Purge, Claim
    <2>2. last \in queue => last \in queue' \/ store # None
      BY <1>3, <2>1 DEF Purge, Claim, DocInv, Seeds, Counted
    <2>3. last \in drain => last \in drain'
      BY <1>3 DEF Purge, Claim
    <2>4. UNCHANGED <<store, last, row, room>>
      BY <1>3 DEF Purge, Claim
    <2>. QED
      BY <2>1, <2>2, <2>3, <2>4 DEF Mirrors, Doc
  <1>4. CASE Join \/ Leave
    <2>1. UNCHANGED <<store, last, queue, drain>> /\ store # None /\ ~Edit /\ ~Apply
      BY <1>4, Quiet DEF Join, Leave, DocInv, Seeds
    <2>. QED
      BY <1>b, <2>1 DEF Mirrors
  <1>5. CASE Edit
    <2>1. UNCHANGED <<last, queue, drain, current>> /\ store # None
      BY <1>5 DEF Edit, DocInv, Seeds
    <2>2. Doc' = room'[current].doc /\ Doc = room[current].doc
      BY <1>5, <2>1, DocMoves DEF Text, Edit
    <2>3. Doc'.ev = Doc.ev
      BY <1>5, <2>2, EditMoves
    <2>. QED
      BY <1>a, <2>1, <2>3 DEF Mirrors
  <1>6. CASE Apply
    <2>1. PICK v \in drain :
            /\ room[current].doc.ev <= v /\ \A w \in drain : w <= v
            /\ room[current].doc.ev = v => UNCHANGED room
            /\ room[current].doc.ev # v => Shows(room[current], room'[current], v)
      BY <1>6, ApplyMoves
    <2>2. UNCHANGED <<last, queue, current>> /\ store # None /\ current # None
      BY <1>6 DEF Apply, DocInv, Seeds
    <2>3. Doc' = room'[current].doc /\ Doc = room[current].doc
      BY <2>2, DocMoves DEF Text
    <2>4. Doc'.ev = v
      BY <2>1, <2>3 DEF Shows
    <2>5. current \in Rooms /\ Doc.ev \in Nat /\ v \in Nat /\ v <= last /\ Doc.ev <= v
      BY <1>0, <1>6, <2>1, <2>3, ApplyMoves DEF Typed, RoomType, Content, Counted
    <2>. QED
      BY <1>0, <1>a, <2>1, <2>2, <2>4, <2>5 DEF Mirrors
  <1>7. ASSUME NEW r \in Rooms, CreateRoom(r) PROVE Mirrors'
    <2>1. UNCHANGED <<store, last, queue, drain, row>> /\ ~Edit /\ ~Apply
      BY <1>7 DEF CreateRoom, Edit, Apply
    <2>. QED
      BY <1>7, <1>b, <2>1, CreateMoves DEF Mirrors, Elsewhere
  <1>8. ASSUME NEW r \in Rooms, RoomReady(r) \/ CreationFails(r) PROVE Mirrors'
    <2>1. /\ UNCHANGED <<last, queue, drain, row>> /\ room[r].state = "creating"
          /\ store' \in {store, Seeded(r)} /\ current = None /\ Elsewhere(r)
          /\ room'[r].state # "creating"
      BY <1>8, ReadyMoves, FailureMoves, NewRoomIs DEF RoomReady, CreationFails, RoomInv
    <2>2. ~Edit /\ ~Apply
      BY <2>1 DEF Edit, Apply
    <2>3. CASE store # None
      BY <1>a, <1>b, <2>1, <2>2, <2>3 DEF Mirrors
    <2>4. CASE store = None
      <3>1. CASE store' = None
        BY <2>1, <2>4, <3>1 DEF Mirrors, Elsewhere
      <3>2. CASE store' # None
        <4>1. store' = room[r].doc
          BY <2>1, <2>4, <3>2 DEF Seeded
        <4>2. \A q \in Rooms : ~Holds(room'[q])
          <5>1. \A q \in Rooms : ~Holds(room[q])
            BY <2>4 DEF DocInv, Seeds, RoomInv, Holds
          <5>2. \A q \in Rooms : room'[q].saving \in {{}, room[q].saving}
            BY <1>8, ReadyMoves, FailureMoves, NewRoomIs DEF Elsewhere
          <5>. QED
            BY <5>1, <5>2 DEF Holds
        <4>3. Doc' = store'
          BY <4>2, DocNone DEF Doc
        <4>4. room[r].doc.ev = last \/ last \in queue
          BY <2>1, <2>4 DEF Mirrors, DocInv, Seeds
        <4>. QED
          BY <2>1, <3>2, <4>1, <4>3, <4>4 DEF Mirrors
      <3>. QED
        BY <3>1, <3>2
    <2>. QED
      BY <2>3, <2>4
  <1>9. ASSUME NEW r \in Rooms, Evict(r) \/ Fire(r) PROVE Mirrors'
    <2>1. room[r].state \notin {"unused", "creating"}
      BY <1>9, EvictMoves, FireMoves DEF RoomInv
    <2>2. store # None
      BY <2>1 DEF DocInv, Seeds
    <2>3. UNCHANGED <<last, queue, drain>> /\ ~Edit /\ ~Apply
      BY <1>9, Quiet DEF Evict, Fire
    <2>. QED
      BY <1>a, <1>b, <2>2, <2>3 DEF Mirrors
  <1>10. ASSUME NEW r \in Rooms, NEW s \in Slots, Load(r, s) \/ Write(r, s) \/ Land(r, s)
         PROVE  Mirrors'
    <2>1. flight[r][s].pc # "none"
      BY <1>10 DEF Load, Write, Land
    <2>2. store # None
      BY <2>1 DEF DocInv, Seeds, RoomInv, Slots
    <2>3. UNCHANGED <<last, queue, drain, edits>>
      BY <1>10 DEF Load, Write, Land
    <2>4. UNCHANGED drain /\ ~Edit /\ ~Apply
      BY <2>3, Quiet
    <2>. QED
      BY <1>a, <1>b, <2>2, <2>3, <2>4 DEF Mirrors
  <1>11. ASSUME NEW r \in Rooms, NEW f \in Fields, Persist(r, f) PROVE Mirrors'
    <2>1. store # None
      BY <1>11, PersistMoves DEF DocInv, Seeds, RoomInv
    <2>2. UNCHANGED <<last, queue, drain, edits>>
      BY <1>11 DEF Persist
    <2>3. ~Edit /\ ~Apply
      BY <2>2, Quiet
    <2>. QED
      BY <1>a, <1>b, <2>1, <2>2, <2>3 DEF Mirrors
  <1>. QED
    BY NoAccident, <1>1, <1>2, <1>3, <1>4, <1>5, <1>6, <1>7, <1>8, <1>9, <1>10, <1>11 DEF Next, Reconcile

\* While no accident happened, a reconcile that is in flight is the only one.
LEMMA OnlyFlight ==
    ASSUME \A r \in Rooms : RoomInv(r), Alone,
           NEW r \in Rooms, NEW s \in Slots, flight[r][s].pc # "none",
           NEW q \in Rooms, NEW t \in Slots, flight[q][t].pc # "none"
    PROVE  q = r /\ t = s
  <1>1. Working(r) /\ Working(q)
    BY DEF Working, InFlight
  <1>2. q = r
    BY <1>1 DEF Alone
  <1>3. ~(flight[r]["timer"].pc # "none" /\ flight[r]["final"].pc # "none")
    BY DEF RoomInv, Alone
  <1>. QED
    BY <1>2, <1>3 DEF Slots

LEMMA NextWrites ==
    ASSUME IndInv, Alone, Mirrors, Writes, [Next]_vars, accidents' = {} PROVE Writes'
  <1>. USE RoomsAssumption DEF IndInv
  <1>a. store # None => store \in Content /\ store' # None
    BY DocMoves
  <1>b. store # None /\ UNCHANGED <<edits, drain>> => Doc' = Doc
    BY DocMoves, Quiet DEF NewText
  <1>c. Text
    BY DocMoves
  <1>1. CASE RecordRead \/ Age \/ Purge \/ Claim \/ UNCHANGED vars
    BY <1>1 DEF RecordRead, Age, Purge, Claim, vars, Writes, Again, Doc
  <1>2. CASE RecordCommit
    <2>1. last' = last + 1 /\ UNCHANGED <<store, room>>
      BY <1>2 DEF RecordCommit
    <2>2. Doc' = Doc
      BY <2>1 DEF Doc
    <2>3. store # None => Doc.ev # last'
      BY <1>c, <2>1, DocBound
    <2>. QED
      BY <2>1, <2>2, <2>3 DEF Writes
  <1>3. CASE Join \/ Leave
    <2>1. UNCHANGED <<row, store, current, flight, last, edits, drain>> /\ current # None
      BY <1>3 DEF Join, Leave
    <2>2. Again' <=> Again
      BY <1>3, <2>1, ClientsMove DEF Again, SameRoom
    <2>3. store # None
      BY <2>1 DEF DocInv, Seeds
    <2>. QED
      BY <1>b, <2>1, <2>2, <2>3 DEF Writes
  <1>4. CASE Edit
    <2>1. Again'
      BY <1>4, EditMoves DEF Edit, Again
    <2>. QED
      BY <2>1 DEF Writes
  <1>5. CASE Apply
    <2>1. PICK v \in drain :
            /\ room[current].doc.ev = v => UNCHANGED room
            /\ room[current].doc.ev # v => Shows(room[current], room'[current], v)
      BY <1>5, ApplyMoves
    <2>2. UNCHANGED <<row, store, current, flight, last>> /\ current # None
      BY <1>5 DEF Apply
    <2>3. CASE room[current].doc.ev = v
      <3>1. UNCHANGED room
        BY <2>1, <2>3
      <3>. QED
        BY <2>2, <3>1 DEF Writes, Again, Doc
    <2>4. CASE room[current].doc.ev # v
      <3>1. Again'
        BY <2>1, <2>2, <2>4 DEF Again, Shows
      <3>. QED
        BY <3>1 DEF Writes
    <2>. QED
      BY <2>3, <2>4
  <1>6. ASSUME NEW r \in Rooms, CreateRoom(r) PROVE Writes'
    <2>1. UNCHANGED <<row, store, current, flight, last, edits, drain>> /\ current = None
      BY <1>6 DEF CreateRoom
    <2>. QED
      BY <1>b, <2>1 DEF Writes, Again
  <1>7. ASSUME NEW r \in Rooms, RoomReady(r) \/ CreationFails(r) PROVE Writes'
    <2>1. /\ UNCHANGED <<row, flight, last, edits, drain>> /\ room[r].state = "creating"
          /\ store' \in {store, Seeded(r)} /\ current = None /\ Elsewhere(r)
      BY <1>7, ReadyMoves, FailureMoves DEF RoomReady, CreationFails, RoomInv
    <2>2. ~Again
      BY <2>1 DEF Again
    <2>3. CASE store # None
      BY <1>b, <2>1, <2>2, <2>3 DEF Writes
    <2>4. CASE store = None /\ store' # None
      <3>1. store' = room[r].doc
        BY <2>1, <2>4 DEF Seeded
      <3>2. \A q \in Rooms, s \in Slots : flight[q][s].pc = "none"
        BY <2>4 DEF DocInv, Seeds, RoomInv, Slots
      <3>3. \A q \in Rooms : ~Holds(room'[q])
        <4>1. \A q \in Rooms : ~Holds(room[q])
          BY <2>4 DEF DocInv, Seeds, RoomInv, Holds
        <4>2. \A q \in Rooms : room'[q].saving \in {{}, room[q].saving}
          BY <1>7, ReadyMoves, FailureMoves, NewRoomIs DEF Elsewhere
        <4>. QED
          BY <4>1, <4>2 DEF Holds
      <3>4. Doc' = store'
        BY <3>3, DocNone DEF Doc
      <3>5. store'.ev = last => row = store'
        BY <2>1, <2>4, <3>1 DEF Mirrors
      <3>. QED
        BY <2>1, <3>2, <3>4, <3>5 DEF Writes, Carries
    <2>5. CASE store' = None
      BY <2>5 DEF Writes
    <2>. QED
      BY <2>3, <2>4, <2>5
  <1>8. ASSUME NEW r \in Rooms, Evict(r) PROVE Writes'
    <2>1. /\ current = r /\ current' = None /\ UNCHANGED <<row, store, last, edits, drain>>
          /\ ~InFlight(r) /\ store # None
      BY <1>8, NoAccident DEF Evict, DocInv, Seeds
    <2>2. Doc' = Doc /\ Doc = room[r].doc
      BY <1>b, <1>c, <2>1 DEF Text
    <2>3. \A q \in Rooms, s \in Slots : flight[q][s].pc = "none"
      BY <2>1 DEF Alone, Working, InFlight
    <2>4. CASE room[r].timer \/ room[r].dirty \/ room[r].flushing
      <3>1. Others(r, "final") /\ Snaps(flight'[r]["final"], room[r])
        BY <1>8, <2>4, EvictMoves
      <3>2. \A q \in Rooms, s \in Slots :
               Carries(flight'[q][s]) => flight'[q][s].snap = Doc /\ flight'[q][s].pc = "snapped"
        BY <2>2, <2>3, <3>1 DEF Others, Snaps, Carries
      <3>3. Carries(flight'[r]["final"]) /\ "final" \in Slots
        BY <3>1 DEF Snaps, Carries, Slots
      <3>. QED
        BY <2>1, <2>2, <3>2, <3>3 DEF Writes
    <2>5. CASE ~(room[r].timer \/ room[r].dirty \/ room[r].flushing)
      <3>1. UNCHANGED flight /\ ~Again
        BY <1>8, <2>1, <2>5, EvictMoves DEF Again
      <3>. QED
        BY <2>1, <2>2, <3>1 DEF Writes
    <2>. QED
      BY <2>4, <2>5
  <1>9. ASSUME NEW r \in Rooms, Fire(r) PROVE Writes'
    <2>1. UNCHANGED <<row, store, last, current, edits, drain>> /\ room[r].timer
      BY <1>9, FireMoves DEF Fire
    <2>2. room[r].state = "live" /\ current = r /\ current # None
      BY <2>1 DEF Alone, RoomInv, Typed, RoomType
    <2>3. Doc' = Doc /\ Doc = room[r].doc
      BY <1>b, <1>c, <2>1, <2>2 DEF Text, DocInv, Seeds
    <2>4. CASE room[r].flushing
      <3>1. Again'
        BY <1>9, <2>1, <2>2, <2>4, FireMoves DEF Again
      <3>. QED
        BY <3>1 DEF Writes
    <2>5. CASE ~room[r].flushing
      <3>1. \A q \in Rooms, s \in Slots : flight[q][s].pc = "none"
        <4>1. \A s \in Slots : flight[r][s].pc = "none"
          BY <2>2, <2>5 DEF RoomInv, Slots
        <4>2. \A q \in Rooms \ {r} : ~Working(q)
          BY <2>2 DEF Alone
        <4>. QED
          BY <4>1, <4>2 DEF Working, InFlight
      <3>2. Others(r, "timer") /\ Snaps(flight'[r]["timer"], room[r])
        BY <1>9, <2>5, FireMoves
      <3>3. \A q \in Rooms, s \in Slots :
               Carries(flight'[q][s]) => flight'[q][s].snap = Doc /\ flight'[q][s].pc = "snapped"
        BY <2>3, <3>1, <3>2 DEF Others, Snaps, Carries
      <3>4. Carries(flight'[r]["timer"]) /\ "timer" \in Slots
        BY <3>2 DEF Snaps, Carries, Slots
      <3>. QED
        BY <2>1, <2>3, <3>3, <3>4 DEF Writes
    <2>. QED
      BY <2>4, <2>5
  <1>10. ASSUME NEW r \in Rooms, NEW s \in Slots, Load(r, s) PROVE Writes'
    <2>1. UNCHANGED <<row, store, current, room, last>>
      BY <1>10 DEF Load
    <2>2. /\ Others(r, s) /\ Carries(flight[r][s]) /\ Carries(flight'[r][s])
          /\ flight'[r][s].base = row /\ flight'[r][s].snap = flight[r][s].snap
      BY <1>10, WorkerMoves DEF Carries
    <2>. QED
      BY <2>1, <2>2 DEF Writes, Again, Others, Doc
  <1>11. ASSUME NEW r \in Rooms, NEW s \in Slots, Write(r, s) PROVE Writes'
    <2>1. UNCHANGED <<store, current, room, last>> /\ flight[r][s].pc = "loaded"
      BY <1>11 DEF Write
    <2>2. Others(r, s) /\ flight'[r][s].pc = "written"
      BY <1>11, WorkerMoves
    <2>3. \A q \in Rooms, t \in Slots : ~Carries(flight'[q][t])
      BY <2>1, <2>2, OnlyFlight DEF Others, Carries
    <2>4. Doc' = Doc
      BY <2>1 DEF Doc
    <2>5. SUFFICES ASSUME store # None, Doc.ev = last, ~Again PROVE row' = Doc
      BY <2>1, <2>3, <2>4 DEF Writes, Again
    <2>6. flight[r][s].snap = Doc /\ flight[r][s].base = row
      BY <2>1, <2>5 DEF Writes, Carries
    <2>. QED
      BY <1>11, <2>6 DEF Write
  <1>12. ASSUME NEW r \in Rooms, NEW s \in Slots, Land(r, s) PROVE Writes'
    <2>1. UNCHANGED <<row, store, current, last, edits, drain>>
      BY <1>12 DEF Land
    <2>2. /\ Others(r, s) /\ Elsewhere(r) /\ ~Carries(flight[r][s]) /\ ~Carries(flight'[r][s])
          /\ flight[r][s].pc # "none"
      BY <1>12, LandMoves DEF Carries
    <2>3. Again => Again'
      <3>1. SUFFICES ASSUME Again PROVE Again'
        OBVIOUS
      <3>2. current \in Rooms /\ current # None /\ room[current].state = "live"
        BY <3>1 DEF Again, Typed, RoomInv
      <3>3. CASE current = r
        <4>1. s = "timer"
          BY <2>2, <3>2, <3>3 DEF RoomInv, Slots
        <4>2. room'[r].timer
          BY <1>12, <3>1, <3>2, <3>3, <4>1, LandMoves DEF Ends, Again
        <4>. QED
          BY <2>1, <3>2, <3>3, <4>2 DEF Again
      <3>4. CASE current # r
        BY <2>1, <2>2, <3>1, <3>2, <3>4 DEF Again, Elsewhere
      <3>. QED
        BY <3>3, <3>4
    <2>4. \A q \in Rooms, t \in Slots : Carries(flight[q][t]) \/ Carries(flight'[q][t]) => flight'[q][t] = flight[q][t]
      BY <2>2 DEF Others
    <2>5. store # None
      BY <2>2 DEF DocInv, Seeds, RoomInv, Slots
    <2>. QED
      BY <1>b, <2>1, <2>3, <2>4, <2>5 DEF Writes
  <1>13. ASSUME NEW r \in Rooms, NEW f \in Fields, Persist(r, f) PROVE Writes'
    <2>1. UNCHANGED <<row, current, flight, last, edits, drain>>
      BY <1>13 DEF Persist
    <2>2. store # None
      BY <1>13, PersistMoves DEF DocInv, Seeds, RoomInv
    <2>3. Again' <=> Again
      <3>1. \A q \in Rooms : room'[q].timer = room[q].timer /\ room'[q].dirty = room[q].dirty
        BY <1>13, PersistMoves DEF Elsewhere
      <3>2. current # None => current \in Rooms
        BY DEF Typed
      <3>. QED
        BY <2>1, <3>1, <3>2 DEF Again
    <2>. QED
      BY <1>b, <2>1, <2>2, <2>3 DEF Writes
  <1>. QED
    BY NoAccident, <1>1, <1>2, <1>3, <1>4, <1>5, <1>6, <1>7, <1>8, <1>9, <1>10, <1>11, <1>12, <1>13
       DEF Next, Reconcile

LEMMA AgreementHolds == Spec => []Agreement
  <1>1. ASSUME IndInv, Agreement, [Next]_vars PROVE Agreement'
    BY <1>1, NoAccident, NextAlone, NextMirrors, NextWrites DEF Agreement
  <1>. QED
    BY <1>1, InitAgreement, IndInvHolds, PTL DEF Spec

\* Once nothing is on its way, and unless one of the named accidents happened,
\* the row shows the last run and the last edit, and the next session will be
\* shown what the database holds (materializer.py, _flush; server.py,
\* _drain_writebacks, _create_room).
THEOREM RowsAgree == Spec => []SettlesInAgreement
  <1>1. ASSUME IndInv, Agreement PROVE SettlesInAgreement
    <2>1. SUFFICES ASSUME Settled, accidents = {}
                   PROVE  row.ev = last /\ row.note = edits /\ (store # None => store = row)
      BY DEF SettlesInAgreement
    <2>2. /\ queue = {} /\ drain = {} /\ \A r \in Rooms : ~room[r].timer /\ ~InFlight(r)
          /\ \A r \in Rooms : ~Holds(room[r])
      BY <2>1 DEF Settled, Working, Unsaved, Holds
    <2>5. Doc = store
      BY <2>2, DocNone DEF Doc
    <2>6. Text
      BY <1>1, <2>1 DEF IndInv, DocInv, Saved
    <2>3. CASE store = None
      BY <1>1, <2>3 DEF IndInv, DocInv, Seeds
    <2>4. CASE store # None
      <3>1. store.ev = last /\ store.note = edits
        BY <1>1, <2>1, <2>2, <2>4, <2>5, <2>6 DEF Agreement, Mirrors, Text
      <3>2. \A r \in Rooms, s \in Slots : flight[r][s].pc = "none"
        BY <2>2 DEF InFlight
      <3>3. ~Again
        BY <1>1, <2>2, <3>2 DEF Again, IndInv, Typed, RoomInv, Slots
      <3>4. row = store
        BY <1>1, <2>1, <2>4, <2>5, <3>1, <3>2, <3>3 DEF Agreement, Writes, Carries
      <3>. QED
        BY <3>1, <3>4
    <2>. QED
      BY <2>3, <2>4
  <1>. QED
    BY <1>1, IndInvHolds, AgreementHolds, PTL
=============================================================================
