-------------------------- MODULE CollabWriteback --------------------------
(***************************************************************************)
(* One row of a test matrix that is edited in the collaborative editor     *)
(* while test runs write their evidence onto it.                           *)
(*                                                                         *)
(* The row has three copies: the database row (TestItemRow), the document  *)
(* of the project's live room (app/collab/server.py) and the document's    *)
(* persisted updates (app/collab/pg_ystore.py), which the room stores in   *)
(* the background, one after the other.  A room's Materializer             *)
(* writes the document over the row, debounced, in a worker thread; a      *)
(* finished run writes its evidence to the row and leaves the same values  *)
(* in a queue (app/collab/writeback.py) that the collab server drains into *)
(* the document.                                                           *)
(*                                                                         *)
(* A row's content is its evidence (the number of the run that wrote it)   *)
(* and a cell people edit (the number of the edit).  custom_values, which  *)
(* holds the edited cell and most of the evidence, is one JSON column, so  *)
(* whoever writes the row writes both.                                     *)
(***************************************************************************)
EXTENDS Integers, FiniteSets, FiniteSetsExt

CONSTANTS
    Rooms,        \* room objects; one that is gone may be taken again
    None,
    MaxSessions,  \* bound: editor sessions open at a time
    MaxVerdicts,  \* bound: runs that finish
    MaxEdits,     \* bound: edits people make
    MaxAccidents  \* bound: different accidents that may cost an update

ASSUME RoomsAssumption == IsFiniteSet(Rooms) /\ None \notin Rooms
ASSUME BoundsAssumption ==
    /\ MaxSessions \in Nat \ {0}
    /\ MaxVerdicts \in Nat /\ MaxEdits \in Nat /\ MaxAccidents \in Nat

VARIABLES
    row,      \* the TestItemRow
    store,    \* what the persisted updates of the document add up to, or None
    queue,    \* RowWriteback items that nobody claimed
    aged,     \* those of them that are older than COLLAB_WRITEBACK_TTL_SECONDS
    drain,    \* the write-backs _drain_writebacks holds between claim and Doc
    writer,   \* the row record_run read before it commits, or None
    current,  \* the room in _rooms (and its materializer in _materializers)
    room,     \* the room objects with their materializers
    flight,   \* their reconciles in flight: the timer's and the evictor's
    last,     \* runs that have written their evidence
    edits,    \* edits made
    accidents \* what happened that may cost an update, as a set of names

vars == <<row, store, queue, aged, drain, writer, current, room, flight,
          last, edits, accidents>>

Content == [ev: 0..MaxVerdicts, note: 0..MaxEdits]
Blank == [ev |-> 0, note |-> 0]

ASSUME NoneAssumption == None \notin Content

Slots == {"timer", "final"}
Fields == {"ev", "note"}
Accidents == {"stale", "roomless", "stopped", "failed", "refused", "overlap",
              "beside", "unsaved"}

Landed == [pc |-> "none", snap |-> Blank, base |-> Blank, epoch |-> 0]
NewRoom == [state |-> "unused", clients |-> 0, doc |-> Blank, saving |-> {},
            timer |-> FALSE, flushing |-> FALSE, dirty |-> FALSE, epoch |-> 0]

\* The project was edited collaboratively before, or never.
Init ==
    /\ row = Blank /\ store \in {None, Blank}
    /\ queue = {} /\ aged = {} /\ drain = {} /\ writer = None
    /\ current = None /\ room = [r \in Rooms |-> NewRoom]
    /\ flight = [r \in Rooms |-> [s \in Slots |-> Landed]]
    /\ last = 0 /\ edits = 0 /\ accidents = {}

\* Step that is an accident of kind e if P holds.  The bound stops no step
\* that fairness asks for.
Noted(e, P) == accidents' = accidents \union (IF P THEN {e} ELSE {})
Accident(e, P) ==
    /\ P => Cardinality(accidents \union {e}) <= MaxAccidents
    /\ Noted(e, P)
InFlight(r) == \E s \in Slots: flight[r][s].pc # "none"
Working(r) == room[r].timer \/ InFlight(r)
Unsaved == \E r \in Rooms: room[r].saving # {}
----------------------------------------------------------------------------
(* The materializer of a room, as functions of its record.                 *)

\* schedule_flush: called from outside the observer
Armed(m) == IF m.flushing THEN [m EXCEPT !.dirty = TRUE]
                          ELSE [m EXCEPT !.timer = TRUE]

\* _on_txn, _schedule: any transaction of the document that is not suppressed
Observed(m) == [m EXCEPT !.timer = TRUE]

\* _flush, up to the snapshot it hands to the worker thread
Snapped(m) == [pc |-> "snapped", snap |-> m.doc, base |-> Blank,
               epoch |-> m.epoch]

\* _flush: did the document get server values that the snapshot lacks?
OutdatedAlways(m, f) == TRUE
Outdated(m, f) == m.epoch # f.epoch

\* _flush, its finally clause
FlushedStaysDirty(m, again) ==
    [m EXCEPT !.flushing = FALSE, !.timer = @ \/ again]
Flushed(m, again) ==
    [m EXCEPT !.flushing = FALSE, !.dirty = FALSE, !.timer = @ \/ again]

----------------------------------------------------------------------------
(* A run finishes: record_run reads the row, sets the evidence and commits *)
(* it together with the queue item.                                        *)

RecordRead ==
    /\ writer = None /\ last < MaxVerdicts
    /\ writer' = row
    /\ UNCHANGED <<row, store, queue, aged, drain, current, room, flight,
                   last, edits, accidents>>

\* apply_server_fields: the mirror is queued whatever the presence row says
MirrorIfLive(v) == IF current = None THEN queue ELSE queue \union {v}
Mirror(v) == queue \union {v}

RecordCommit ==
    /\ writer # None
    /\ last' = last + 1
    /\ row' = [writer EXCEPT !.ev = last']
    /\ queue' = Mirror(last')
    /\ writer' = None
    /\ UNCHANGED <<store, aged, drain, current, room, flight, edits,
                   accidents>>

\* The TTL passes.  A live room's drain comes every two seconds, so an item
\* only grows old while there is none.
Age ==
    /\ aged # queue /\ writer = None
    /\ \A r \in Rooms: room[r].state = "unused" /\ ~Working(r)
    /\ aged' = queue
    /\ UNCHANGED <<row, store, queue, drain, writer, current, room, flight,
                   last, edits, accidents>>

\* Unapplied items are dropped, by purge_applied or by claim_pending.
Dropped == Accident("stale", aged # {} /\ Max(queue) \in aged)

Purge ==
    /\ aged # {}
    /\ queue' = queue \ aged /\ aged' = {}
    /\ Dropped
    /\ UNCHANGED <<row, store, drain, writer, current, room, flight, last,
                   edits>>
----------------------------------------------------------------------------
(* An editor session opens and closes; rooms come and go.                  *)

Creating == \E r \in Rooms: room[r].state = "creating"

\* get_room of a room that exists.  A session that comes while a room is being
\* created is left out: get_room has no lock and would create a twin.
Join ==
    /\ current # None /\ room[current].clients < MaxSessions
    /\ room' = [room EXCEPT ![current].clients = @ + 1]
    /\ UNCHANGED <<row, store, queue, aged, drain, writer, current, flight,
                   last, edits, accidents>>

Leave ==
    /\ current # None /\ room[current].clients > 0
    /\ room' = [room EXCEPT ![current].clients = @ - 1]
    /\ UNCHANGED <<row, store, queue, aged, drain, writer, current, flight,
                   last, edits, accidents>>

\* _create_room: replay the persisted updates or, if there are none, take the
\* rows of the database.  What the room before has not stored yet is missing.
\* Mutant: the rows of the database come first.
HydratedFromRow == row
Hydrated == IF store # None THEN store ELSE row

CreateRoom(r) ==
    /\ current = None /\ ~Creating
    /\ room[r].state = "unused"
    /\ room' = [room EXCEPT ![r] = [NewRoom EXCEPT !.state = "creating",
                                                   !.doc = Hydrated]]
    /\ Accident("unsaved", Unsaved)
    /\ UNCHANGED <<row, store, queue, aged, drain, writer, current, flight,
                   last, edits>>

\* A document without updates is stored as a whole.
Seeded(r) == IF store = None THEN room[r].doc ELSE store

\* The field f of the document d is stored.
Stored(f, d) == [ev |-> IF f = "ev" THEN d.ev ELSE store.ev,
                 note |-> IF f = "note" THEN d.note ELSE store.note]

\* The seed is persisted, the materializer attached, the session served.  The
\* materializer of the room before may still be at work.
RoomReady(r) ==
    /\ room[r].state = "creating"
    /\ room' = [room EXCEPT ![r].state = "live", ![r].clients = 1]
    /\ current' = r
    /\ store' = Seeded(r)
    /\ Accident("overlap", \E q \in Rooms: Working(q))
    /\ UNCHANGED <<row, queue, aged, drain, writer, flight, last, edits>>

\* The room cannot be created, before its seed is stored or after.
CreationFails(r) ==
    /\ room[r].state = "creating"
    /\ room' = [room EXCEPT ![r] = NewRoom]
    /\ store' \in {store, Seeded(r)}
    /\ UNCHANGED <<row, queue, aged, drain, writer, current, flight, last,
                   edits, accidents>>

\* A person edits the cell.  The room is left with an update to store.
Edited(m, n) ==
    Observed([m EXCEPT !.doc.note = n, !.saving = @ \union {"note"}])

Edit ==
    /\ current # None /\ room[current].clients > 0 /\ edits < MaxEdits
    /\ edits' = edits + 1
    /\ room' = [room EXCEPT ![current] = Edited(@, edits')]
    /\ UNCHANGED <<row, store, queue, aged, drain, writer, current, flight,
                   last, accidents>>

\* PgYStore.write: the update is committed; those of one field that wait in a
\* row are taken as one.  Once an update was lost, one that comes after it may
\* not be replayed, or be overruled by another room's.
Persist(r, f) ==
    /\ f \in room[r].saving
    /\ \/ store' = Stored(f, room[r].doc)
       \/ "unsaved" \in accidents /\ UNCHANGED store
    /\ room' = [room EXCEPT ![r].saving = @ \ {f}]
    /\ UNCHANGED <<row, queue, aged, drain, writer, current, flight, last,
                   edits, accidents>>

\* Its commit fails (an outage, or a number the cached sequence gave that is
\* taken): the update is not tried again.
PersistFails(r, f) ==
    /\ f \in room[r].saving
    /\ room' = [room EXCEPT ![r].saving = @ \ {f}]
    /\ Accident("unsaved", TRUE)
    /\ UNCHANGED <<row, store, queue, aged, drain, writer, current, flight,
                   last, edits>>
----------------------------------------------------------------------------
(* The drain: claimed in a worker thread, applied on the loop.             *)

\* claim_pending: everything is marked applied, what is old is not returned
Claim ==
    /\ current # None /\ drain = {} /\ queue # {}
    /\ drain' = queue \ aged
    /\ queue' = {} /\ aged' = {}
    /\ Dropped
    /\ UNCHANGED <<row, store, writer, current, room, flight, last, edits>>

\* The newest value wins.  The write is suppressed, so a reconcile is armed
\* by hand and a snapshot that is on its way is outdated by the epoch.
MirroredUnmarked(m, v) ==
    LET n == [m EXCEPT !.doc.ev = v, !.saving = @ \union {"ev"}]
    IN  IF m.doc.ev = v THEN m ELSE IF m.flushing THEN n ELSE Armed(n)
Mirrored(m, v) ==
    IF m.doc.ev = v THEN m
    ELSE Armed([m EXCEPT !.doc.ev = v, !.saving = @ \union {"ev"},
                         !.epoch = @ + 1])

Apply ==
    /\ drain # {} /\ current # None
    /\ room' = [room EXCEPT ![current] = Mirrored(@, Max(drain))]
    /\ drain' = {}
    /\ UNCHANGED <<row, store, queue, aged, writer, current, flight, last,
                   edits, accidents>>

\* The room was evicted between the claim and the write.
ApplyRoomless ==
    /\ drain # {} /\ current = None
    /\ drain' = {}
    /\ Accident("roomless", TRUE)
    /\ UNCHANGED <<row, store, queue, aged, writer, current, room, flight,
                   last, edits>>
----------------------------------------------------------------------------
(* A reconcile: snapshot on the loop; read, write and commit in a worker   *)
(* thread; the rest on the loop.                                           *)

\* _fire
Fire(r) ==
    /\ room[r].timer
    /\ IF room[r].flushing
       THEN /\ room' = [room EXCEPT ![r].timer = FALSE, ![r].dirty = TRUE]
            /\ UNCHANGED flight
       ELSE /\ flight[r]["timer"].pc = "none"
            /\ room' = [room EXCEPT ![r].timer = FALSE, ![r].flushing = TRUE]
            /\ flight' = [flight EXCEPT ![r]["timer"] = Snapped(room[r])]
    /\ UNCHANGED <<row, store, queue, aged, drain, writer, current, last,
                   edits, accidents>>

\* materialize_sheet: the existing rows are read
Load(r, s) ==
    /\ flight[r][s].pc = "snapped"
    /\ flight' = [flight EXCEPT ![r][s].pc = "loaded", ![r][s].base = row]
    /\ UNCHANGED <<row, store, queue, aged, drain, writer, current, room,
                   last, edits, accidents>>

\* The worker thread returns: what it read and wrote is of no more use.
Returned(f, pc) == [Landed EXCEPT !.pc = pc, !.epoch = f.epoch]

\* _materialize_apply: a row that equals its snapshot is left alone
Write(r, s) ==
    /\ flight[r][s].pc = "loaded"
    /\ row' = IF flight[r][s].snap = flight[r][s].base THEN row
              ELSE flight[r][s].snap
    /\ flight' = [flight EXCEPT ![r][s] = Returned(@, "written")]
    /\ UNCHANGED <<store, queue, aged, drain, writer, current, room, last,
                   edits, accidents>>

\* materialize_sheet: a row with a blocking validation error keeps the last good
\* value, and a row whose savepoint fails is rolled back.  Either is reported
\* on the row, and the reconcile counts as done.
WriteRefused(r, s) ==
    /\ flight[r][s].pc = "loaded"
    /\ flight' = [flight EXCEPT ![r][s] = Returned(@, "written")]
    /\ Accident("refused", TRUE)
    /\ UNCHANGED <<row, store, queue, aged, drain, writer, current, room, last,
                   edits>>

\* The reconcile raises: it is logged, and repeated only if one is due anyway.
WriteFails(r, s) ==
    /\ flight[r][s].pc = "loaded"
    /\ flight' = [flight EXCEPT ![r][s] = Returned(@, "failed")]
    /\ Accident("failed", TRUE)
    /\ UNCHANGED <<row, store, queue, aged, drain, writer, current, room,
                   last, edits>>

\* The evictor goes on to detach its materializer (no timer, no observer) and
\* to stop the room, which stores nothing more; a reconcile of the timer that
\* is in flight only ends.  A room with nothing left to do is forgotten.
Over(m, s) == IF s = "final"
              THEN [m EXCEPT !.timer = FALSE, !.state = "gone", !.saving = {}]
              ELSE m
Reaped(m, others) ==
    IF m.state = "gone" /\ ~m.timer /\ ~others THEN NewRoom ELSE m

Land(r, s) ==
    LET f == flight[r][s]
        again == room[r].dirty \/ (f.pc = "written" /\ Outdated(room[r], f))
        others == \E t \in Slots \ {s}: flight[r][t].pc # "none"
    IN  /\ f.pc \in {"written", "failed"}
        /\ room' = [room EXCEPT ![r] = Reaped(Over(Flushed(@, again), s),
                                              others)]
        /\ flight' = [flight EXCEPT ![r][s] = Landed]
        /\ Noted("unsaved", s = "final" /\ room[r].saving # {})
        /\ UNCHANGED <<row, store, queue, aged, drain, writer, current, last,
                       edits>>
----------------------------------------------------------------------------
(* The end of a room.                                                      *)

\* flush_and_detach: is anything not written yet?
PendingInFlight(m) == m.dirty \/ m.flushing
Pending(m) == m.timer \/ m.dirty \/ m.flushing

\* _evict_room, of a room that has had no client for a while.  The final
\* reconcile starts beside one that is in flight.
Evict(r) ==
    /\ current = r /\ room[r].clients = 0
    /\ current' = None
    /\ IF Pending(room[r])
       THEN /\ room' = [room EXCEPT ![r].state = "evicting",
                            ![r].timer = FALSE, ![r].flushing = TRUE]
            /\ flight' = [flight EXCEPT ![r]["final"] = Snapped(room[r])]
            /\ Accident("beside", InFlight(r))
       ELSE /\ room' = [room EXCEPT ![r] = NewRoom]
            /\ UNCHANGED flight
            /\ Accident("unsaved", room[r].saving # {})
    /\ UNCHANGED <<row, store, queue, aged, drain, writer, last, edits>>

\* __aexit__, or the process dies, and the server is started again.  The
\* materializers are detached without a last reconcile.
Stop ==
    /\ current' = None /\ drain' = {}
    /\ room' = [r \in Rooms |-> NewRoom]
    /\ flight' = [r \in Rooms |-> [s \in Slots |-> Landed]]
    /\ Accident(IF Unsaved THEN "unsaved" ELSE "stopped", TRUE)
    /\ UNCHANGED <<row, store, queue, aged, writer, last, edits>>
----------------------------------------------------------------------------
Reconcile(r) ==
    \/ Fire(r)
    \/ \E s \in Slots: Load(r, s) \/ Write(r, s) \/ WriteRefused(r, s)
                       \/ WriteFails(r, s) \/ Land(r, s)

Next ==
    \/ RecordRead \/ RecordCommit \/ Age \/ Purge
    \/ Join \/ Leave \/ Edit
    \/ Claim \/ Apply \/ ApplyRoomless \/ Stop
    \/ \E r \in Rooms: CreateRoom(r) \/ RoomReady(r) \/ CreationFails(r)
                       \/ Evict(r) \/ Reconcile(r)
    \/ \E r \in Rooms, f \in Fields: Persist(r, f) \/ PersistFails(r, f)

Spec == Init /\ [][Next]_vars

\* Timers fire, worker threads end and the loop takes up what they return.
\* Nothing is assumed of people, runs, the drain, the sweeper, the storing of
\* updates or accidents.
Fairness == \A r \in Rooms: WF_vars(Reconcile(r))

FairSpec == Spec /\ Fairness
----------------------------------------------------------------------------
(* Properties.                                                             *)

\* Every variable has its type; a reconcile that is asked for while one is in
\* flight is remembered only until that one ends, the last reconcile of a room
\* belongs to an eviction, and only a room that was not stopped stores updates.
TypeOK ==
    /\ row \in Content /\ store \in Content \union {None}
    /\ writer \in Content \union {None}
    /\ queue \subseteq 1..MaxVerdicts /\ aged \subseteq queue
    /\ drain \subseteq 1..MaxVerdicts
    /\ current \in Rooms \union {None}
    /\ \A r \in Rooms:
         /\ room[r] \in [state: {"unused", "creating", "live", "evicting",
                                 "gone"},
                         clients: 0..MaxSessions, doc: Content,
                         saving: SUBSET Fields, timer: BOOLEAN,
                         flushing: BOOLEAN, dirty: BOOLEAN,
                         epoch: 0..MaxVerdicts]
         /\ \A s \in Slots: flight[r][s].pc \in
              {"none", "snapped", "loaded", "written", "failed"}
         /\ (current = r) <=> (room[r].state = "live")
         /\ room[r].dirty => room[r].flushing
         /\ room[r].state # "evicting" => flight[r]["final"].pc = "none"
         /\ room[r].state \notin {"live", "evicting"} => room[r].saving = {}
    /\ last \in 0..MaxVerdicts /\ edits \in 0..MaxEdits
    /\ accidents \subseteq Accidents

\* Nothing is on its way any more.
Settled ==
    /\ writer = None /\ queue = {} /\ drain = {} /\ ~Unsaved
    /\ \A r \in Rooms: ~Working(r)

\* Once nothing is on its way, and unless one of the named accidents happened,
\* the row shows the last run and the last edit, whatever snapshots of the
\* document were written over it in between (the comparison of epochs in
\* _flush, materializer.py:189-195, and the order of the writes in
\* server.py:236-251); and what the next session will be shown is what the
\* database holds, although the document is replayed from its own updates and
\* never compared with the rows (_create_room, server.py:98-112).  The
\* accidents are those of this model: a row that materialize_sheet refuses
\* (items_service.py:688-699, 713-720) and an update that is not stored
\* (pg_ystore.py:92-113) are among them.
SettlesInAgreement ==
    Settled /\ accidents = {} =>
        /\ row.ev = last /\ row.note = edits
        /\ store # None => store = row

\* What a replay of the stored updates will give once the room m has stored
\* what it has left
Replayed(m) == [ev |-> IF "ev" \in m.saving THEN m.doc.ev ELSE store.ev,
                note |-> IF "note" \in m.saving THEN m.doc.note ELSE store.note]

\* While no update was lost on its way to the database, a person's last edit is
\* in the stored updates, or in a room that is about to store it, and the live
\* document is what a replay will give: through evictions, rooms that are not
\* created, reconciles that fail or are refused, and runs that write the same
\* row, none of which may take it back.  Updates are stored in the background
\* (pg_ystore.py:71-77); one is lost when its commit fails (92-113), when the
\* room or the server is stopped before, or when the next room is created
\* before (server.py:98-106, 319-331).
EditsKept ==
    "unsaved" \notin accidents =>
        /\ edits > 0 =>
              /\ store # None
              /\ \/ store.note = edits
                 \/ \E r \in Rooms: /\ "note" \in room[r].saving
                                    /\ room[r].doc.note = edits
        /\ current # None => Replayed(room[current]) = room[current].doc

\* The reconciles come to an end: nothing that the materializer itself does
\* makes it dirty again.
Calms == <>[](\A r \in Rooms: ~Working(r))
============================================================================
