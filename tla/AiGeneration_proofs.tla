------------------------ MODULE AiGeneration_proofs ------------------------
(***************************************************************************)
(* Proofs about AiGeneration, for any number of drafts, consumer threads,  *)
(* slots, requests, faults and retries.                                    *)
(***************************************************************************)
EXTENDS AiGeneration, FiniteSetTheorems, WellFoundedInduction, TLAPS

Jobs == {None, "queued", "running", "complete", "failed", "cancelled"}
Leases == {None, "recovery"} \cup Web
DraftRow == [status : Statuses, attempt : Nat, job : Jobs, fresh : BOOLEAN,
             lease : Leases, output : Nat]
NoteType == [attempt : Nat, job : Jobs, fresh : BOOLEAN, lease : Leases]
RequestType == [pc : {"idle", "create", "retry", "send", "resend", "failed", "note"},
                d : Drafts \cup {0}, a : Nat, seen : {None} \cup NoteType]
ThreadType == [pc : {"idle", "claim", "run", "release"}, d : Drafts \cup {0},
               a : Attempts \cup {0}]

RowsTyped ==
    /\ draft \in [Drafts -> DraftRow]
    /\ issued \in [Drafts -> Nat]
    /\ claims \in [Drafts -> Nat]
    /\ \A d \in Drafts : draft[d].status = "absent" => issued[d] = 0 /\ claims[d] = 0

RequestsTyped ==
    /\ web \in [Web -> RequestType]
    /\ \A w \in Web : /\ web[w].pc # "idle" => web[w].d \in Drafts
                      /\ web[w].pc = "note" => web[w].seen \in NoteType

RecoveryTyped ==
    /\ recovery \in [mode : {"up", "down", "starting"}, owed : SUBSET Drafts,
                     pick : RequestType]
    /\ recovery.pick.pc # "idle" => recovery.pick.d \in Drafts

(* A thread that holds a slot is registered, and one that runs is          *)
(* registered for the attempt it runs; none does while the process is down. *)
Registered ==
    /\ thread \in [Threads -> ThreadType]
    /\ owners \in [Threads -> {None, Unclaimed} \cup (Drafts \X Attempts)]
    /\ \A t \in Threads :
          /\ thread[t].pc = "idle" <=> owners[t] = None
          /\ thread[t].pc # "idle" => thread[t].d \in Drafts /\ thread[t].a \in Attempts
          /\ thread[t].pc = "run" => owners[t] = <<thread[t].d, thread[t].a>>
    /\ recovery.mode # "up" => \A t \in Threads : thread[t].pc = "idle"

TypeInv == RowsTyped /\ RequestsTyped /\ RecoveryTyped /\ Registered

-----------------------------------------------------------------------------
(* What one step does to one draft.                                        *)

Keeps(d) ==
    /\ draft'[d].status = draft[d].status /\ draft'[d].attempt = draft[d].attempt
    /\ draft'[d].job = draft[d].job /\ issued'[d] = issued[d] /\ claims'[d] = claims[d]
    /\ draft'[d].output \in {draft[d].output, draft[d].attempt}

Restarts(d) ==
    /\ draft[d].status \in {"absent", "error", "cancelled", "running"}
    /\ draft[d].status = "running" => \A t \in Threads : ~Executing(t, d)
    /\ draft'[d].status = "running" /\ draft'[d].job = "queued"
    /\ draft'[d].attempt = issued[d] + 1 /\ issued'[d] = issued[d] + 1
    /\ claims'[d] = 0 /\ draft'[d].output = 0

IsClaimed(d) ==
    /\ draft[d].status = "running" /\ draft[d].job = "queued"
    /\ draft'[d].status = "running" /\ draft'[d].job = "running"
    /\ draft'[d].attempt = draft[d].attempt /\ issued'[d] = issued[d]
    /\ claims'[d] = claims[d] + 1 /\ draft'[d].output = draft[d].output

Finishes(d) ==
    /\ draft[d].status = "running" /\ draft[d].job = "running"
    /\ draft'[d].status \in {"error", "pending"} /\ draft'[d].job \in {"failed", "complete"}
    /\ draft'[d].attempt = draft[d].attempt /\ issued'[d] = issued[d]
    /\ draft'[d].output \in {draft[d].output, draft[d].attempt}
    /\ draft'[d].status = "pending" => draft'[d].output = draft[d].attempt
    /\ claims'[d] = claims[d]

IsCancelled(d) ==
    /\ draft[d].status = "running"
    /\ draft'[d].status = "cancelled" /\ draft'[d].job = "cancelled"
    /\ draft'[d].attempt = draft[d].attempt /\ issued'[d] = issued[d]
    /\ claims'[d] = claims[d] /\ draft'[d].output = draft[d].output

IsDecided(d) ==
    /\ Reviewable(d)
    /\ draft'[d].status \in {"approved", "rejected"}
    /\ draft'[d].attempt = draft[d].attempt /\ draft'[d].job = draft[d].job
    /\ issued'[d] = issued[d] /\ claims'[d] = claims[d]
    /\ draft'[d].output = draft[d].output

IsRewound(d) ==
    /\ d \in rewound'
    /\ draft'[d].status = draft[d].status /\ draft'[d].output = draft[d].output
    /\ issued'[d] = issued[d]
    /\ \E w \in Web : web[w].pc = "note" /\ web[w].d = d
                       /\ draft'[d].attempt = web[w].seen.attempt

Moves(d) ==
    /\ rewound \subseteq rewound'
    /\ \/ Keeps(d) \/ Restarts(d) \/ IsClaimed(d) \/ Finishes(d)
       \/ IsCancelled(d) \/ IsDecided(d) \/ IsRewound(d)

-----------------------------------------------------------------------------
(* Types.                                                                  *)

LEMMA PreparedType ==
    ASSUME RowsTyped, NEW d \in Drafts
    PROVE  /\ Prepared(d) \in DraftRow
           /\ Prepared(d).status = "running" /\ Prepared(d).job = "queued"
           /\ Prepared(d).attempt = issued[d] + 1 /\ Prepared(d).output = 0
<1>1. issued[d] + 1 \in Nat BY DEF RowsTyped
<1>2. "running" \in Statuses BY DEF Statuses
<1>3. "queued" \in Jobs /\ None \in Leases BY DEF Jobs, Leases
<1>4. draft[d] \in DraftRow BY DEF RowsTyped
<1> QED BY <1>1, <1>2, <1>3, <1>4 DEF Prepared, DraftRow

LEMMA InitTypeInv == Init => TypeInv
<1> SUFFICES ASSUME Init PROVE TypeInv OBVIOUS
<1>1. Absent \in DraftRow
  BY DEF Absent, DraftRow, Statuses, Jobs, Leases
<1>2. RowsTyped BY <1>1 DEF Init, RowsTyped
<1>3. NoRequest \in RequestType /\ NoRequest.pc = "idle" BY DEF NoRequest, RequestType
<1>4. RequestsTyped BY <1>3 DEF Init, RequestsTyped
<1>5. RecoveryTyped BY <1>3 DEF Init, RecoveryTyped
<1>6. NoThread \in ThreadType /\ NoThread.pc = "idle" BY DEF NoThread, ThreadType
<1>7. Registered BY <1>6 DEF Init, Registered
<1> QED BY <1>2, <1>4, <1>5, <1>7 DEF TypeInv

\* What a step leaves alone keeps its type.
LEMMA Frames ==
    ASSUME TypeInv
    PROVE  /\ UNCHANGED <<draft, issued, claims>> => RowsTyped'
           /\ UNCHANGED web => RequestsTyped'
           /\ UNCHANGED recovery => RecoveryTyped'
           /\ UNCHANGED <<thread, owners, recovery>> => Registered'
<1>1. UNCHANGED <<draft, issued, claims>> => RowsTyped' BY DEF TypeInv, RowsTyped
<1>2. UNCHANGED web => RequestsTyped' BY DEF TypeInv, RequestsTyped
<1>3. UNCHANGED recovery => RecoveryTyped' BY DEF TypeInv, RecoveryTyped
<1>4. UNCHANGED <<thread, owners, recovery>> => Registered' BY DEF TypeInv, Registered
<1> QED BY <1>1, <1>2, <1>3, <1>4

LEMMA RowWritten ==
    ASSUME RowsTyped, NEW d \in Drafts, NEW r \in DraftRow, r.status # "absent" \/ r.status = draft[d].status,
           draft' = [draft EXCEPT ![d] = r], UNCHANGED <<issued, claims>>
    PROVE  RowsTyped'
  BY DEF RowsTyped

LEMMA RequestMoved ==
    ASSUME RequestsTyped, NEW w \in Web, NEW q \in RequestType,
           web' = [web EXCEPT ![w] = q],
           q.pc # "idle" => q.d \in Drafts, q.pc = "note" => q.seen \in NoteType
    PROVE  RequestsTyped'
  BY DEF RequestsTyped

LEMMA RequestEnds ==
    ASSUME RequestsTyped, NEW w \in Web, web' = [web EXCEPT ![w] = NoRequest]
    PROVE  RequestsTyped'
<1>1. NoRequest \in RequestType /\ NoRequest.pc = "idle" BY DEF NoRequest, RequestType
<1> QED BY <1>1, RequestMoved

LEMMA RequestStarts ==
    ASSUME RequestsTyped, NEW w \in Web, NEW d \in Drafts, NEW pc \in {"create", "retry"},
           web' = [web EXCEPT ![w] = [NoRequest EXCEPT !.pc = pc, !.d = d]]
    PROVE  RequestsTyped'
<1> DEFINE q == [NoRequest EXCEPT !.pc = pc, !.d = d]
<1>1. q \in RequestType /\ q.d = d /\ q.pc # "note" BY DEF NoRequest, RequestType
<1> QED BY <1>1, RequestMoved

\* A thread moves between the states in which it holds a slot.
LEMMA ThreadMoved ==
    ASSUME Registered, NEW t \in Threads, NEW pc \in {"claim", "release"},
           thread[t].pc # "idle", Goto(t, pc), UNCHANGED <<owners, recovery>>
    PROVE  Registered'
<1> DEFINE x == [thread[t] EXCEPT !.pc = pc]
<1>1. x \in ThreadType /\ x.pc = pc /\ x.d = thread[t].d /\ x.a = thread[t].a
  BY DEF Registered, ThreadType
<1>2. thread' = [thread EXCEPT ![t] = x] BY DEF Goto
<1>3. recovery.mode = "up" BY DEF Registered
<1> QED BY <1>1, <1>2, <1>3 DEF Registered

LEMMA ThreadFreed ==
    ASSUME Registered, NEW t \in Threads, thread' = [thread EXCEPT ![t] = NoThread],
           owners' = [owners EXCEPT ![t] = None], UNCHANGED recovery
    PROVE  Registered'
<1>1. NoThread \in ThreadType /\ NoThread.pc = "idle" BY DEF NoThread, ThreadType
<1> QED BY <1>1 DEF Registered
-----------------------------------------------------------------------------
(* Types are kept: the requests.                                           *)

LEMMA CreateType == TypeInv /\ (\E w \in Web, d \in Drafts : CreateDraft(w, d)) => TypeInv'
<1> SUFFICES ASSUME TypeInv, NEW w \in Web, NEW d \in Drafts, CreateDraft(w, d)
             PROVE  TypeInv'
  OBVIOUS
<1>1. RowsTyped /\ RequestsTyped BY DEF TypeInv
<1>2. RowsTyped' BY <1>1, PreparedType DEF CreateDraft, RowsTyped, history
<1>3. RequestsTyped' BY <1>1, RequestStarts DEF CreateDraft
<1>4. RecoveryTyped' /\ Registered' BY Frames DEF CreateDraft, consumers
<1> QED BY <1>2, <1>3, <1>4 DEF TypeInv

LEMMA RetryType == TypeInv /\ (\E w \in Web, d \in Handled : RetryDraft(w, d)) => TypeInv'
<1> SUFFICES ASSUME TypeInv, NEW w \in Web, NEW d \in Drafts, RetryDraft(w, d)
             PROVE  TypeInv'
  BY DEF Handled
<1>1. RowsTyped /\ RequestsTyped BY DEF TypeInv
<1>2. RowsTyped' BY <1>1, PreparedType DEF RetryDraft, RowsTyped
<1>3. RequestsTyped' BY <1>1, RequestStarts DEF RetryDraft
<1>4. RecoveryTyped' /\ Registered' BY Frames DEF RetryDraft, consumers
<1> QED BY <1>2, <1>3, <1>4 DEF TypeInv

LEMMA ReviewType ==
    TypeInv /\ (\E d \in Handled : CancelDraft(d) \/ UpdateDraft(d) \/ RejectDraft(d)
                                   \/ ApplyDraft(d)) => TypeInv'
<1> SUFFICES ASSUME TypeInv, NEW d \in Drafts,
                    CancelDraft(d) \/ UpdateDraft(d) \/ RejectDraft(d) \/ ApplyDraft(d)
             PROVE  TypeInv'
  BY DEF Handled
<1>1. RowsTyped /\ draft[d] \in DraftRow BY DEF TypeInv, RowsTyped
<1>2. RowsTyped'
  <2>1. CASE CancelDraft(d)
    <3> DEFINE r == [draft[d] EXCEPT !.status = "cancelled", !.job = "cancelled",
                                     !.fresh = TRUE, !.lease = None]
    <3>1. r \in DraftRow /\ r.status = "cancelled"
      BY <1>1 DEF DraftRow, Statuses, Jobs, Leases
    <3>2. draft' = [draft EXCEPT ![d] = r] BY <2>1, <1>1 DEF CancelDraft, RowsTyped
    <3> QED BY <1>1, <2>1, <3>1, <3>2, RowWritten DEF CancelDraft, history
  <2>2. CASE UpdateDraft(d)
    <3> DEFINE r == [draft[d] EXCEPT !.output = draft[d].attempt]
    <3>1. r \in DraftRow /\ r.status = draft[d].status BY <1>1 DEF DraftRow
    <3>2. draft' = [draft EXCEPT ![d] = r] BY <2>2 DEF UpdateDraft
    <3> QED BY <1>1, <2>2, <3>1, <3>2, RowWritten DEF UpdateDraft, history
  <2>3. ASSUME NEW st \in {"rejected", "approved"}, draft' = [draft EXCEPT ![d].status = st],
               UNCHANGED <<issued, claims>>
        PROVE  RowsTyped'
    <3> DEFINE r == [draft[d] EXCEPT !.status = st]
    <3>1. r \in DraftRow /\ r.status = st BY <1>1 DEF DraftRow, Statuses
    <3>2. draft' = [draft EXCEPT ![d] = r] BY <2>3
    <3> QED BY <1>1, <2>3, <3>1, <3>2, RowWritten
  <2> QED BY <2>1, <2>2, <2>3 DEF RejectDraft, ApplyDraft, history
<1>3. RequestsTyped' /\ RecoveryTyped' /\ Registered'
  BY Frames DEF CancelDraft, UpdateDraft, RejectDraft, ApplyDraft, consumers
<1> QED BY <1>2, <1>3 DEF TypeInv

LEMMA ReleaseLeaseType ==
    ASSUME RowsTyped, NEW d \in Drafts, NEW a, NEW holder, ReleaseLease(d, a, holder),
           UNCHANGED <<issued, claims>>
    PROVE  RowsTyped'
<1> DEFINE r == [draft[d] EXCEPT !.lease = None]
<1>1. draft[d] \in DraftRow BY DEF RowsTyped
<1>2. r \in DraftRow /\ r.status = draft[d].status BY <1>1 DEF DraftRow, Leases
<1>3. draft' = [draft EXCEPT ![d] = r] \/ draft' = draft BY DEF ReleaseLease
<1>4. CASE draft' = [draft EXCEPT ![d] = r] BY <1>2, <1>4, RowWritten
<1>5. CASE draft' = draft BY <1>5 DEF RowsTyped
<1> QED BY <1>3, <1>4, <1>5

LEMMA LeasedType ==
    ASSUME RowsTyped, NEW d \in Drafts, NEW holder \in Leases, Leased(d, holder),
           UNCHANGED <<issued, claims>>
    PROVE  RowsTyped'
<1> DEFINE r == [draft[d] EXCEPT !.lease = holder]
<1>1. draft[d] \in DraftRow BY DEF RowsTyped
<1>2. r \in DraftRow /\ r.status = draft[d].status BY <1>1 DEF DraftRow
<1>3. draft' = [draft EXCEPT ![d] = r] BY DEF Leased
<1> QED BY <1>2, <1>3, RowWritten

LEMMA PublishType ==
    TypeInv /\ (\E w \in Web : WebLease(w) \/ WebSend(w) \/ WebSendFails(w) \/ WebDies(w))
        => TypeInv'
<1> SUFFICES ASSUME TypeInv, NEW w \in Web,
                    WebLease(w) \/ WebSend(w) \/ WebSendFails(w) \/ WebDies(w)
             PROVE  TypeInv'
  OBVIOUS
<1>1. RowsTyped /\ RequestsTyped BY DEF TypeInv
<1>2. RecoveryTyped' /\ Registered'
  BY Frames DEF WebLease, WebSend, WebSendFails, WebDies, consumers
<1>3. web[w] \in RequestType /\ w \in Leases BY <1>1 DEF RequestsTyped, Leases
<1>4. CASE WebLease(w)
  <2> DEFINE d == web[w].d
             pc == IF web[w].pc = "create" THEN "send" ELSE "resend"
             q == [web[w] EXCEPT !.pc = pc, !.a = draft[d].attempt]
  <2>1. d \in Drafts BY <1>1, <1>4 DEF WebLease, RequestsTyped
  <2>2. draft[d].attempt \in Nat BY <1>1, <2>1 DEF RowsTyped, DraftRow
  <2>3. q \in RequestType /\ q.d = d /\ q.pc # "note" BY <1>3, <2>2 DEF RequestType
  <2>4. UNCHANGED <<issued, claims>> BY <1>4 DEF WebLease, history
  <2>5. CASE MayLease(d)
    <3>1. Leased(d, w) /\ web' = [web EXCEPT ![w] = q] BY <1>4, <2>5 DEF WebLease
    <3>2. RowsTyped' BY <1>1, <1>3, <2>1, <2>4, <3>1, LeasedType
    <3>3. RequestsTyped' BY <1>1, <2>1, <2>3, <3>1, RequestMoved
    <3> QED BY <1>2, <3>2, <3>3 DEF TypeInv
  <2>6. CASE ~MayLease(d)
    <3>1. UNCHANGED draft /\ web' = [web EXCEPT ![w] = NoRequest] BY <1>4, <2>6 DEF WebLease
    <3>2. RowsTyped' BY <2>4, <3>1, Frames
    <3>3. RequestsTyped' BY <1>1, <3>1, RequestEnds
    <3> QED BY <1>2, <3>2, <3>3 DEF TypeInv
  <2> QED BY <2>5, <2>6
<1>5. CASE WebSend(w)
  <2>1. RowsTyped' BY <1>5, Frames DEF WebSend, history
  <2>2. RequestsTyped' BY <1>1, <1>5, RequestEnds DEF WebSend
  <2> QED BY <1>2, <2>1, <2>2 DEF TypeInv
<1>6. CASE WebSendFails(w)
  <2> DEFINE q == [web[w] EXCEPT !.pc = "failed"]
  <2>1. web[w].d \in Drafts BY <1>1, <1>6 DEF WebSendFails, RequestsTyped
  <2>2. RowsTyped' BY <1>1, <1>6, <2>1, ReleaseLeaseType DEF WebSendFails, history
  <2>3. q \in RequestType /\ q.d = web[w].d /\ q.pc = "failed" BY <1>3 DEF RequestType
  <2>4. web' = [web EXCEPT ![w] = q] \/ web' = [web EXCEPT ![w] = NoRequest]
    BY <1>6 DEF WebSendFails
  <2>5. RequestsTyped' BY <1>1, <2>1, <2>3, <2>4, RequestMoved, RequestEnds
  <2> QED BY <1>2, <2>2, <2>5 DEF TypeInv
<1>7. CASE WebDies(w)
  <2>1. RowsTyped' BY <1>7, Frames DEF WebDies, history
  <2>2. RequestsTyped' BY <1>1, <1>7, RequestEnds DEF WebDies
  <2> QED BY <1>2, <2>1, <2>2 DEF TypeInv
<1> QED BY <1>4, <1>5, <1>6, <1>7

LEMMA NotedType == TypeInv /\ (\E w \in Web : WebNoteRead(w) \/ WebNoteWrite(w)) => TypeInv'
<1> SUFFICES ASSUME TypeInv, NEW w \in Web, WebNoteRead(w) \/ WebNoteWrite(w)
             PROVE  TypeInv'
  OBVIOUS
<1>1. RowsTyped /\ RequestsTyped BY DEF TypeInv
<1>2. RecoveryTyped' /\ Registered' BY Frames DEF WebNoteRead, WebNoteWrite, consumers
<1> DEFINE d == web[w].d
<1>3. d \in Drafts /\ web[w] \in RequestType
  BY <1>1 DEF RequestsTyped, WebNoteRead, WebNoteWrite
<1>4. draft[d] \in DraftRow BY <1>1, <1>3 DEF RowsTyped
<1>5. CASE WebNoteRead(w)
  <2> DEFINE q == [web[w] EXCEPT !.pc = "note", !.seen = Meta(d)]
  <2>1. Meta(d) \in NoteType BY <1>4 DEF Meta, NoteType, DraftRow
  <2>2. q \in RequestType /\ q.d = d /\ q.seen = Meta(d) BY <1>3, <2>1 DEF RequestType
  <2>3. web' = [web EXCEPT ![w] = q] BY <1>5 DEF WebNoteRead
  <2>4. RequestsTyped' BY <1>1, <1>3, <2>1, <2>2, <2>3, RequestMoved
  <2>5. RowsTyped' BY <1>5, Frames DEF WebNoteRead, history
  <2> QED BY <1>2, <2>4, <2>5 DEF TypeInv
<1>6. CASE WebNoteWrite(w)
  <2> DEFINE seen == web[w].seen
             r == [draft[d] EXCEPT !.attempt = seen.attempt, !.job = seen.job,
                                   !.fresh = seen.fresh, !.lease = seen.lease]
  <2>1. seen \in NoteType BY <1>1, <1>6 DEF WebNoteWrite, RequestsTyped
  <2>2. r \in DraftRow /\ r.status = draft[d].status BY <1>4, <2>1 DEF DraftRow, NoteType
  <2>3. draft' = [draft EXCEPT ![d] = r] BY <1>6 DEF WebNoteWrite
  <2>4. RowsTyped' BY <1>1, <1>3, <1>6, <2>2, <2>3, RowWritten DEF WebNoteWrite
  <2>5. RequestsTyped' BY <1>1, <1>6, RequestEnds DEF WebNoteWrite
  <2> QED BY <1>2, <2>4, <2>5 DEF TypeInv
<1> QED BY <1>5, <1>6
-----------------------------------------------------------------------------
(* Types are kept: the consumers, the clock and recovery.                  *)

LEMMA TakeType ==
    TypeInv /\ (\E t \in Threads, d \in Drafts, a \in Attempts : Take(t, d, a)) => TypeInv'
<1> SUFFICES ASSUME TypeInv, NEW t \in Threads, NEW d \in Drafts, NEW a \in Attempts,
                    Take(t, d, a)
             PROVE  TypeInv'
  OBVIOUS
<1>1. RowsTyped' /\ RequestsTyped' /\ RecoveryTyped' BY Frames DEF Take, history
<1> DEFINE x == [pc |-> "claim", d |-> d, a |-> a]
<1>2. x \in ThreadType BY DEF ThreadType
<1>3. None # Unclaimed BY IdentityAssumption
<1>4. Registered' BY <1>2, <1>3 DEF TypeInv, Registered, Take
<1> QED BY <1>1, <1>4 DEF TypeInv

LEMMA ClaimType == TypeInv /\ (\E t \in Threads : Claim(t)) => TypeInv'
<1> SUFFICES ASSUME TypeInv, NEW t \in Threads, Claim(t) PROVE TypeInv'
  OBVIOUS
<1>1. RequestsTyped' /\ RecoveryTyped' BY Frames DEF Claim
<1>2. RowsTyped /\ Registered BY DEF TypeInv
<1> DEFINE d == thread[t].d
           a == thread[t].a
<1>3. d \in Drafts /\ a \in Attempts /\ thread[t] \in ThreadType BY <1>2 DEF Registered, Claim
<1>4. CASE Current(d, a, "queued")
  <2> DEFINE r == [draft[d] EXCEPT !.job = "running", !.fresh = TRUE, !.lease = None]
             x == [thread[t] EXCEPT !.pc = "run"]
  <2>1. draft[d] \in DraftRow /\ claims[d] \in Nat BY <1>2, <1>3 DEF RowsTyped
  <2>2. r \in DraftRow /\ r.status = "running"
    BY <1>4, <2>1 DEF DraftRow, Jobs, Leases, Current
  <2>3. draft' = [draft EXCEPT ![d] = r] /\ claims' = [claims EXCEPT ![d] = @ + 1]
        /\ UNCHANGED issued
    BY <1>2, <1>3, <1>4 DEF Claim, RowsTyped
  <2>4. RowsTyped' BY <1>2, <1>3, <2>1, <2>2, <2>3 DEF RowsTyped
  <2>5. x \in ThreadType /\ x.d = d /\ x.a = a /\ x.pc = "run" BY <1>3 DEF ThreadType
  <2>6. thread' = [thread EXCEPT ![t] = x] /\ owners' = [owners EXCEPT ![t] = <<d, a>>]
        /\ UNCHANGED recovery
    BY <1>4 DEF Claim, Goto
  <2>7. <<d, a>> # None /\ <<d, a>> \in Drafts \X Attempts BY <1>3, IdentityAssumption
  <2>8. recovery.mode = "up" BY <1>2 DEF Registered, Claim
  <2>9. Registered' BY <1>2, <1>3, <2>5, <2>6, <2>7, <2>8 DEF Registered
  <2> QED BY <1>1, <2>4, <2>9 DEF TypeInv
<1>5. CASE ~Current(d, a, "queued")
  <2>1. RowsTyped' BY <1>5, Frames DEF Claim
  <2>2. Registered' BY <1>2, <1>5, ThreadMoved DEF Claim
  <2> QED BY <1>1, <2>1, <2>2 DEF TypeInv
<1> QED BY <1>4, <1>5

LEMMA RunType ==
    TypeInv /\ (\E t \in Threads : \/ Touch(t) \/ FinishFails(t)
                                   \/ \E failed \in BOOLEAN : Finish(t, failed)) => TypeInv'
<1> SUFFICES ASSUME TypeInv, NEW t \in Threads, NEW failed \in BOOLEAN,
                    Touch(t) \/ FinishFails(t) \/ Finish(t, failed)
             PROVE  TypeInv'
  OBVIOUS
<1>1. RequestsTyped' /\ RecoveryTyped' BY Frames DEF Touch, FinishFails, Finish
<1>2. RowsTyped /\ Registered BY DEF TypeInv
<1> DEFINE d == thread[t].d
           a == thread[t].a
<1>3. d \in Drafts /\ a \in Attempts
  BY <1>2 DEF Registered, Touch, FinishFails, Finish
<1>4. draft[d] \in DraftRow /\ a \in Nat BY <1>2, <1>3 DEF RowsTyped, Attempts
<1>5. CASE Touch(t)
  <2> DEFINE r == [draft[d] EXCEPT !.fresh = TRUE]
  <2>1. r \in DraftRow /\ r.status = draft[d].status BY <1>4 DEF DraftRow
  <2>2. draft' = [draft EXCEPT ![d] = r] \/ draft' = draft BY <1>5 DEF Touch
  <2>3. UNCHANGED <<issued, claims>> BY <1>5 DEF Touch, history
  <2>4. RowsTyped' BY <1>2, <1>3, <2>1, <2>2, <2>3, RowWritten, Frames
  <2>5. Registered' BY <1>2, <1>5, ThreadMoved, Frames DEF Touch
  <2> QED BY <1>1, <2>4, <2>5 DEF TypeInv
<1>6. CASE FinishFails(t)
  <2>1. RowsTyped' BY <1>6, Frames DEF FinishFails, history
  <2>2. Registered' BY <1>2, <1>6, ThreadMoved DEF FinishFails
  <2> QED BY <1>1, <2>1, <2>2 DEF TypeInv
<1>7. CASE Finish(t, failed)
  <2> DEFINE e == [draft[d] EXCEPT !.status = "error", !.job = "failed", !.fresh = TRUE]
             p == [draft[d] EXCEPT !.status = "pending", !.job = "complete", !.fresh = TRUE,
                                   !.output = a]
  <2>1. e \in DraftRow /\ e.status = "error" BY <1>4 DEF DraftRow, Statuses, Jobs
  <2>2. p \in DraftRow /\ p.status = "pending" BY <1>4 DEF DraftRow, Statuses, Jobs
  <2>3. \/ draft' = [draft EXCEPT ![d] = e] \/ draft' = [draft EXCEPT ![d] = p]
        \/ draft' = draft
    BY <1>7 DEF Finish
  <2>4. UNCHANGED <<issued, claims>> BY <1>7 DEF Finish, history
  <2>5. RowsTyped' BY <1>2, <1>3, <2>1, <2>2, <2>3, <2>4, RowWritten, Frames
  <2>6. Registered' BY <1>2, <1>7, ThreadMoved DEF Finish
  <2> QED BY <1>1, <2>5, <2>6 DEF TypeInv
<1> QED BY <1>5, <1>6, <1>7

LEMMA SlotType == TypeInv /\ (\E t \in Threads : ReleaseSlot(t) \/ ThreadDies(t)) => TypeInv'
<1> SUFFICES ASSUME TypeInv, NEW t \in Threads, ReleaseSlot(t) \/ ThreadDies(t)
             PROVE  TypeInv'
  OBVIOUS
<1>1. RowsTyped' /\ RequestsTyped' /\ RecoveryTyped'
  BY Frames DEF ReleaseSlot, ThreadDies, history
<1>2. Registered' BY ThreadFreed DEF TypeInv, ReleaseSlot, ThreadDies
<1> QED BY <1>1, <1>2 DEF TypeInv

LEMMA ClockType ==
    TypeInv /\ (\E d \in Drafts : HeartbeatExpires(d) \/ LeaseExpires(d)) => TypeInv'
<1> SUFFICES ASSUME TypeInv, NEW d \in Drafts, HeartbeatExpires(d) \/ LeaseExpires(d)
             PROVE  TypeInv'
  OBVIOUS
<1>1. RequestsTyped' /\ RecoveryTyped' /\ Registered'
  BY Frames DEF HeartbeatExpires, LeaseExpires, consumers
<1>2. RowsTyped /\ draft[d] \in DraftRow BY DEF TypeInv, RowsTyped
<1> DEFINE h == [draft[d] EXCEPT !.fresh = FALSE]
           l == [draft[d] EXCEPT !.lease = None]
<1>3. h \in DraftRow /\ h.status = draft[d].status BY <1>2 DEF DraftRow
<1>4. l \in DraftRow /\ l.status = draft[d].status BY <1>2 DEF DraftRow, Leases
<1>5. draft' = [draft EXCEPT ![d] = h] \/ draft' = [draft EXCEPT ![d] = l]
  BY DEF HeartbeatExpires, LeaseExpires
<1>6. UNCHANGED <<issued, claims>> BY DEF HeartbeatExpires, LeaseExpires, history
<1>7. RowsTyped' BY <1>2, <1>3, <1>4, <1>5, <1>6, RowWritten
<1> QED BY <1>1, <1>7 DEF TypeInv

LEMMA ScanType ==
    ASSUME TypeInv, NEW locked, NEW stale, Scan(locked, stale),
           UNCHANGED <<web, thread, owners>>, recovery.mode \in {"up", "down"}
    PROVE  TypeInv'
<1> DEFINE rows == PageOf(Running \ locked, cursor, Page)
           again == rows \cap stale
           due == {d \in rows \ stale : draft[d].job = "queued" /\ LeaseDue(d)}
<1>1. rows \subseteq Running BY DEF PageOf, Above, Wrapped, First
<1>2. Running \subseteq Drafts BY DEF Running
<1>3. RowsTyped'
  <2>1. RowsTyped BY DEF TypeInv
  <2>2. /\ draft' = [d \in Drafts |-> IF d \in again THEN Prepared(d) ELSE draft[d]]
        /\ issued' = [d \in Drafts |-> IF d \in again THEN issued[d] + 1 ELSE issued[d]]
        /\ claims' = [d \in Drafts |-> IF d \in again THEN 0 ELSE claims[d]]
    BY DEF Scan
  <2> HIDE DEF again
  <2> QED BY <2>1, <2>2, PreparedType DEF RowsTyped
<1>4. RequestsTyped' BY Frames
<1>5. recovery' = [mode |-> IF recovery.mode = "up" THEN "up" ELSE "starting",
                   owed |-> again \cup due, pick |-> NoRequest]
  BY DEF Scan
<1>6. again \cup due \subseteq Drafts BY <1>1, <1>2
<1>7. NoRequest \in RequestType /\ NoRequest.pc = "idle" BY DEF NoRequest, RequestType
<1> HIDE DEF again, due
<1>8. RecoveryTyped' BY <1>5, <1>6, <1>7 DEF RecoveryTyped
<1>9. Registered' BY <1>5 DEF TypeInv, Registered
<1> QED BY <1>3, <1>4, <1>8, <1>9 DEF TypeInv

LEMMA RecoverType ==
    TypeInv /\ (\/ RecoverSend \/ RecoverSendFails \/ Started
                \/ \E d \in Drafts : RecoverLease(d)) => TypeInv'
<1> SUFFICES ASSUME TypeInv,
                    \/ RecoverSend \/ RecoverSendFails \/ Started
                    \/ \E d \in Drafts : RecoverLease(d)
             PROVE  TypeInv'
  OBVIOUS
<1>1. RequestsTyped' BY Frames DEF RecoverSend, RecoverSendFails, Started, RecoverLease
<1>2. RowsTyped /\ RecoveryTyped /\ Registered BY DEF TypeInv
<1>3. NoRequest \in RequestType /\ NoRequest.pc = "idle" BY DEF NoRequest, RequestType
<1>4. ASSUME RecoverSend \/ RecoverSendFails PROVE RecoveryTyped' /\ Registered'
  BY <1>2, <1>3, <1>4 DEF RecoverSend, RecoverSendFails, RecoveryTyped, Registered, consumers
<1>5. CASE RecoverSend
  <2>1. RowsTyped' BY <1>5, Frames DEF RecoverSend, history
  <2> QED BY <1>1, <1>4, <1>5, <2>1 DEF TypeInv
<1>6. CASE RecoverSendFails
  <2>1. recovery.pick.d \in Drafts BY <1>2, <1>6 DEF RecoverSendFails, RecoveryTyped
  <2>2. RowsTyped' BY <1>2, <1>6, <2>1, ReleaseLeaseType DEF RecoverSendFails, history
  <2> QED BY <1>1, <1>4, <1>6, <2>2 DEF TypeInv
<1>7. CASE Started
  <2>1. RowsTyped' BY <1>7, Frames DEF Started, history
  <2>2. RecoveryTyped' BY <1>2, <1>7 DEF Started, RecoveryTyped
  <2>3. Registered' BY <1>2, <1>7, <2>2 DEF Started, Registered, RecoveryTyped, consumers
  <2> QED BY <1>1, <2>1, <2>2, <2>3 DEF TypeInv
<1>8. ASSUME NEW d \in Drafts, RecoverLease(d) PROVE TypeInv'
  <2>1. UNCHANGED <<issued, claims, thread, owners>>
    BY <1>8 DEF RecoverLease, history, consumers
  <2>2. CASE MayLease(d)
    <3> DEFINE q == [NoRequest EXCEPT !.pc = "send", !.d = d, !.a = draft[d].attempt]
    <3>1. draft[d].attempt \in Nat BY <1>2 DEF RowsTyped, DraftRow
    <3>2. q \in RequestType /\ q.d = d BY <3>1 DEF NoRequest, RequestType
    <3>3. Leased(d, "recovery")
          /\ recovery' = [recovery EXCEPT !.owed = @ \ {d}, !.pick = q]
      BY <1>8, <2>2 DEF RecoverLease
    <3>4. RowsTyped' BY <1>2, <2>1, <3>3, LeasedType DEF Leases
    <3>5. RecoveryTyped' BY <1>2, <3>2, <3>3 DEF RecoveryTyped
    <3>6. Registered' BY <1>2, <2>1, <3>3 DEF Registered, RecoveryTyped
    <3> QED BY <1>1, <3>4, <3>5, <3>6 DEF TypeInv
  <2>3. CASE ~MayLease(d)
    <3>1. UNCHANGED draft /\ recovery' = [recovery EXCEPT !.owed = @ \ {d}]
      BY <1>8, <2>3 DEF RecoverLease
    <3>2. RowsTyped' BY <2>1, <3>1, Frames
    <3>3. RecoveryTyped' /\ Registered'
      BY <1>2, <2>1, <3>1 DEF RecoveryTyped, Registered
    <3> QED BY <1>1, <3>2, <3>3 DEF TypeInv
  <2> QED BY <2>2, <2>3
<1> QED BY <1>5, <1>6, <1>7, <1>8

LEMMA CrashType == TypeInv /\ Crash => TypeInv'
<1> SUFFICES ASSUME TypeInv, Crash PROVE TypeInv' OBVIOUS
<1>1. RowsTyped' /\ RequestsTyped' BY Frames DEF Crash, history
<1>2. NoRequest \in RequestType /\ NoRequest.pc = "idle" BY DEF NoRequest, RequestType
<1>3. NoThread \in ThreadType /\ NoThread.pc = "idle" BY DEF NoThread, ThreadType
<1>4. RecoveryTyped' BY <1>2 DEF Crash, RecoveryTyped
<1>5. Registered' BY <1>3 DEF Crash, Registered
<1> QED BY <1>1, <1>4, <1>5 DEF TypeInv

LEMMA NextTypeInv == TypeInv /\ [Next]_vars => TypeInv'
<1> SUFFICES ASSUME TypeInv, [Next]_vars PROVE TypeInv' OBVIOUS
<1>1. CASE Requests
  BY <1>1, CreateType, RetryType, ReviewType, PublishType, NotedType DEF Requests
<1>2. CASE \E t \in Threads : Consumer(t)
  BY <1>2, TakeType, ClaimType, RunType, SlotType DEF Consumer
<1>3. CASE Recover
  <2>1. CASE RecoverPeriodic BY <2>1, ScanType DEF RecoverPeriodic
  <2>2. CASE RecoverStartup BY <2>2, ScanType DEF RecoverStartup, consumers
  <2> QED BY <1>3, <2>1, <2>2, RecoverType, CrashType DEF Recover
<1>4. CASE \E d \in Drafts, a \in Attempts : Drop(d, a)
  BY <1>4, Frames DEF Drop, TypeInv, consumers, history
<1>5. CASE \E d \in Drafts : HeartbeatExpires(d) \/ LeaseExpires(d)
  BY <1>5, ClockType
<1>6. CASE UNCHANGED vars
  BY <1>6, Frames DEF vars, TypeInv
<1> QED BY <1>1, <1>2, <1>3, <1>4, <1>5, <1>6 DEF Next
-----------------------------------------------------------------------------
(* Every step makes one of the moves of each draft.                        *)

LEMMA KeepsAll ==
    ASSUME UNCHANGED <<draft, issued, claims, rewound>>
    PROVE  \A d \in Drafts : Moves(d)
  BY DEF Moves, Keeps

\* A step that writes one row moves that draft and keeps the others.
LEMMA OneMoves ==
    ASSUME RowsTyped, NEW e \in Drafts, NEW r, draft' = [draft EXCEPT ![e] = r],
           \A d \in Drafts \ {e} : issued'[d] = issued[d] /\ claims'[d] = claims[d],
           UNCHANGED rewound, Moves(e)
    PROVE  \A d \in Drafts : Moves(d)
<1> SUFFICES ASSUME NEW d \in Drafts \ {e} PROVE Moves(d) OBVIOUS
<1>1. draft'[d] = draft[d] BY DEF RowsTyped
<1> QED BY <1>1 DEF Moves, Keeps

\* A row that is written with its status, attempt, job and output is kept.
LEMMA NotedKeeps ==
    ASSUME RowsTyped, NEW e \in Drafts, NEW r, draft' = [draft EXCEPT ![e] = r],
           r.status = draft[e].status, r.attempt = draft[e].attempt, r.job = draft[e].job,
           r.output \in {draft[e].output, draft[e].attempt},
           UNCHANGED <<issued, claims, rewound>>
    PROVE  \A d \in Drafts : Moves(d)
<1>1. draft'[e] = r BY DEF RowsTyped
<1>2. Moves(e) BY <1>1 DEF Moves, Keeps
<1> QED BY <1>2, OneMoves

LEMMA RequestMoves ==
    TypeInv /\ (\/ \E w \in Web, d \in Drafts : CreateDraft(w, d)
                \/ \E w \in Web, d \in Handled : RetryDraft(w, d)
                \/ \E d \in Handled : CancelDraft(d) \/ UpdateDraft(d) \/ RejectDraft(d)
                                      \/ ApplyDraft(d))
        => \A d \in Drafts : Moves(d)
<1> SUFFICES ASSUME TypeInv, NEW w, NEW e \in Drafts,
                    \/ CreateDraft(w, e) \/ RetryDraft(w, e)
                    \/ CancelDraft(e) \/ UpdateDraft(e) \/ RejectDraft(e) \/ ApplyDraft(e)
             PROVE  \A d \in Drafts : Moves(d)
  BY DEF Handled
<1>1. RowsTyped /\ draft[e] \in DraftRow BY DEF TypeInv, RowsTyped
<1>2. CASE CreateDraft(w, e)
  <2>1. issued[e] = 0 /\ claims[e] = 0 BY <1>1, <1>2 DEF CreateDraft, RowsTyped
  <2>2. draft'[e] = Prepared(e) /\ issued'[e] = 1 /\ claims' = claims /\ rewound' = rewound
    BY <1>1, <1>2 DEF CreateDraft, RowsTyped, history
  <2>3. Moves(e) BY <1>1, <1>2, <2>1, <2>2, PreparedType DEF Moves, Restarts, CreateDraft
  <2>4. \A d \in Drafts \ {e} : issued'[d] = issued[d] BY <1>1, <1>2 DEF CreateDraft, RowsTyped
  <2> QED BY <1>1, <1>2, <2>2, <2>3, <2>4, OneMoves DEF CreateDraft
<1>3. CASE RetryDraft(w, e)
  <2>1. draft'[e] = Prepared(e) /\ issued'[e] = issued[e] + 1 /\ claims'[e] = 0
        /\ rewound' = rewound
    BY <1>1, <1>3 DEF RetryDraft, RowsTyped
  <2>2. Moves(e) BY <1>1, <1>3, <2>1, PreparedType DEF Moves, Restarts, RetryDraft
  <2>3. \A d \in Drafts \ {e} : issued'[d] = issued[d] /\ claims'[d] = claims[d]
    BY <1>1, <1>3 DEF RetryDraft, RowsTyped
  <2> QED BY <1>1, <1>3, <2>1, <2>2, <2>3, OneMoves DEF RetryDraft
<1>4. CASE CancelDraft(e)
  <2> DEFINE r == [draft[e] EXCEPT !.status = "cancelled", !.job = "cancelled",
                                   !.fresh = TRUE, !.lease = None]
  <2>1. /\ r.status = "cancelled" /\ r.job = "cancelled"
        /\ r.attempt = draft[e].attempt /\ r.output = draft[e].output
    BY <1>1 DEF DraftRow
  <2>2. draft' = [draft EXCEPT ![e] = r] /\ UNCHANGED <<issued, claims, rewound>>
    BY <1>1, <1>4 DEF CancelDraft, RowsTyped, history
  <2>3. draft'[e] = r BY <1>1, <2>2 DEF RowsTyped
  <2>4. Moves(e) BY <1>4, <2>1, <2>2, <2>3 DEF Moves, IsCancelled, CancelDraft
  <2> QED BY <1>1, <2>2, <2>4, OneMoves
<1>5. CASE UpdateDraft(e)
  <2> DEFINE r == [draft[e] EXCEPT !.output = draft[e].attempt]
  <2>1. /\ r.status = draft[e].status /\ r.attempt = draft[e].attempt
        /\ r.job = draft[e].job /\ r.output = draft[e].attempt
    BY <1>1 DEF DraftRow
  <2>2. draft' = [draft EXCEPT ![e] = r] /\ UNCHANGED <<issued, claims, rewound>>
    BY <1>5 DEF UpdateDraft, history
  <2> QED BY <1>1, <2>1, <2>2, NotedKeeps
<1>6. ASSUME NEW st \in {"rejected", "approved"}, draft' = [draft EXCEPT ![e].status = st],
             Reviewable(e), UNCHANGED <<issued, claims, rewound>>
      PROVE  \A d \in Drafts : Moves(d)
  <2> DEFINE r == [draft[e] EXCEPT !.status = st]
  <2>1. /\ r.status = st /\ r.attempt = draft[e].attempt
        /\ r.job = draft[e].job /\ r.output = draft[e].output
    BY <1>1 DEF DraftRow
  <2>2. draft' = [draft EXCEPT ![e] = r] BY <1>6
  <2>3. draft'[e] = r BY <1>1, <2>2 DEF RowsTyped
  <2>4. Moves(e) BY <1>6, <2>1, <2>3 DEF Moves, IsDecided
  <2> QED BY <1>1, <1>6, <2>2, <2>4, OneMoves
<1> QED BY <1>2, <1>3, <1>4, <1>5, <1>6 DEF RejectDraft, ApplyDraft, history

LEMMA LeaseMoves ==
    ASSUME RowsTyped, NEW e \in Drafts, NEW l, UNCHANGED <<issued, claims, rewound>>,
           draft' = [draft EXCEPT ![e].lease = l] \/ draft' = draft
    PROVE  \A d \in Drafts : Moves(d)
<1> DEFINE r == [draft[e] EXCEPT !.lease = l]
<1>1. draft[e] \in DraftRow BY DEF RowsTyped
<1>2. /\ r.status = draft[e].status /\ r.attempt = draft[e].attempt
      /\ r.job = draft[e].job /\ r.output = draft[e].output
  BY <1>1 DEF DraftRow
<1>3. CASE draft' = [draft EXCEPT ![e] = r] BY <1>2, <1>3, NotedKeeps
<1>4. CASE draft' = draft BY <1>4, KeepsAll
<1> QED BY <1>3, <1>4

LEMMA PublishMoves ==
    TypeInv /\ (\/ \E w \in Web : \/ WebLease(w) \/ WebSend(w) \/ WebSendFails(w)
                                  \/ WebNoteRead(w) \/ WebNoteWrite(w) \/ WebDies(w)
                \/ RecoverSend \/ RecoverSendFails
                \/ \E d \in Drafts : RecoverLease(d))
        => \A d \in Drafts : Moves(d)
<1> SUFFICES ASSUME TypeInv,
                    \/ \E w \in Web : \/ WebLease(w) \/ WebSend(w) \/ WebSendFails(w)
                                      \/ WebNoteRead(w) \/ WebNoteWrite(w) \/ WebDies(w)
                    \/ RecoverSend \/ RecoverSendFails
                    \/ \E d \in Drafts : RecoverLease(d)
             PROVE  \A d \in Drafts : Moves(d)
  OBVIOUS
<1>1. RowsTyped /\ RequestsTyped /\ RecoveryTyped BY DEF TypeInv
<1>2. ASSUME NEW w \in Web, WebLease(w) PROVE \A d \in Drafts : Moves(d)
  <2>1. web[w].d \in Drafts BY <1>1, <1>2 DEF WebLease, RequestsTyped
  <2> QED BY <1>1, <1>2, <2>1, LeaseMoves DEF WebLease, Leased, history
<1>3. ASSUME NEW w \in Web, WebSendFails(w) PROVE \A d \in Drafts : Moves(d)
  <2>1. web[w].d \in Drafts BY <1>1, <1>3 DEF WebSendFails, RequestsTyped
  <2> QED BY <1>1, <1>3, <2>1, LeaseMoves DEF WebSendFails, ReleaseLease, history
<1>4. ASSUME NEW w \in Web, WebSend(w) \/ WebNoteRead(w) \/ WebDies(w)
      PROVE  \A d \in Drafts : Moves(d)
  BY <1>4, KeepsAll DEF WebSend, WebNoteRead, WebDies, history
<1>5. ASSUME NEW w \in Web, WebNoteWrite(w) PROVE \A d \in Drafts : Moves(d)
  <2> DEFINE e == web[w].d
             seen == web[w].seen
             r == [draft[e] EXCEPT !.attempt = seen.attempt, !.job = seen.job,
                                   !.fresh = seen.fresh, !.lease = seen.lease]
  <2>1. e \in Drafts BY <1>1, <1>5 DEF WebNoteWrite, RequestsTyped
  <2>2. draft[e] \in DraftRow BY <1>1, <2>1 DEF RowsTyped
  <2>3. draft' = [draft EXCEPT ![e] = r] /\ UNCHANGED <<issued, claims>>
    BY <1>5 DEF WebNoteWrite
  <2>4. draft'[e] = r BY <1>1, <2>1, <2>3 DEF RowsTyped
  <2>5. r.status = draft[e].status /\ r.output = draft[e].output BY <2>2 DEF DraftRow
  <2>6. rewound' = IF r.attempt # draft[e].attempt \/ r.job # draft[e].job
                   THEN rewound \cup {e} ELSE rewound
    BY <1>5 DEF WebNoteWrite
  <2>7. rewound \subseteq rewound' BY <2>6
  <2>8. Moves(e)
    <3>1. CASE r.attempt # draft[e].attempt \/ r.job # draft[e].job
      <4>1. r.attempt = seen.attempt /\ web[w].pc = "note" /\ web[w].d = e
        BY <1>5, <2>2 DEF WebNoteWrite, DraftRow
      <4>2. IsRewound(e) BY <2>3, <2>4, <2>5, <2>6, <3>1, <4>1 DEF IsRewound
      <4> QED BY <2>7, <4>2 DEF Moves
    <3>2. CASE ~(r.attempt # draft[e].attempt \/ r.job # draft[e].job)
      <4>1. Keeps(e) BY <2>3, <2>4, <2>5, <3>2 DEF Keeps
      <4> QED BY <2>7, <4>1 DEF Moves
    <3> QED BY <3>1, <3>2
  <2>9. ASSUME NEW d \in Drafts \ {e} PROVE Moves(d)
    <3>1. draft'[d] = draft[d] BY <1>1, <2>3 DEF RowsTyped
    <3> QED BY <2>3, <2>7, <3>1 DEF Moves, Keeps
  <2> QED BY <2>8, <2>9
<1>6. CASE RecoverSend BY <1>6, KeepsAll DEF RecoverSend, history
<1>7. CASE RecoverSendFails
  <2>1. recovery.pick.d \in Drafts BY <1>1, <1>7 DEF RecoverSendFails, RecoveryTyped
  <2> QED BY <1>1, <1>7, <2>1, LeaseMoves DEF RecoverSendFails, ReleaseLease, history
<1>8. ASSUME NEW e \in Drafts, RecoverLease(e) PROVE \A d \in Drafts : Moves(d)
  BY <1>1, <1>8, LeaseMoves DEF RecoverLease, Leased, history
<1> QED BY <1>2, <1>3, <1>4, <1>5, <1>6, <1>7, <1>8

LEMMA ConsumerMoves ==
    TypeInv /\ (\E t \in Threads : Consumer(t)) => \A d \in Drafts : Moves(d)
<1> SUFFICES ASSUME TypeInv, NEW t \in Threads, Consumer(t)
             PROVE  \A d \in Drafts : Moves(d)
  OBVIOUS
<1>1. RowsTyped /\ Registered BY DEF TypeInv
<1> DEFINE e == thread[t].d
           a == thread[t].a
<1>2. ASSUME thread[t].pc # "idle" PROVE e \in Drafts /\ draft[e] \in DraftRow
  BY <1>1, <1>2 DEF Registered, RowsTyped
<1>3. CASE Claim(t)
  <2>1. e \in Drafts /\ draft[e] \in DraftRow BY <1>2, <1>3 DEF Claim
  <2>2. CASE Current(e, a, "queued")
    <3> DEFINE r == [draft[e] EXCEPT !.job = "running", !.fresh = TRUE, !.lease = None]
    <3>1. draft' = [draft EXCEPT ![e] = r] /\ claims' = [claims EXCEPT ![e] = @ + 1]
          /\ UNCHANGED <<issued, rewound>>
      BY <1>1, <1>3, <2>1, <2>2 DEF Claim, RowsTyped
    <3>2. /\ r.status = draft[e].status /\ r.attempt = draft[e].attempt
          /\ r.job = "running" /\ r.output = draft[e].output
      BY <2>1 DEF DraftRow
    <3>3. draft'[e] = r /\ claims'[e] = claims[e] + 1 BY <1>1, <2>1, <3>1 DEF RowsTyped
    <3>4. Moves(e) BY <2>2, <3>1, <3>2, <3>3 DEF Moves, IsClaimed, Current
    <3>5. \A d \in Drafts \ {e} : claims'[d] = claims[d] BY <1>1, <3>1 DEF RowsTyped
    <3> QED BY <1>1, <2>1, <3>1, <3>4, <3>5, OneMoves
  <2>3. CASE ~Current(e, a, "queued") BY <1>3, <2>3, KeepsAll DEF Claim
  <2> QED BY <2>2, <2>3
<1>4. CASE Touch(t)
  <2> DEFINE r == [draft[e] EXCEPT !.fresh = TRUE]
  <2>1. e \in Drafts /\ draft[e] \in DraftRow BY <1>2, <1>4 DEF Touch
  <2>2. /\ r.status = draft[e].status /\ r.attempt = draft[e].attempt
        /\ r.job = draft[e].job /\ r.output = draft[e].output
    BY <2>1 DEF DraftRow
  <2>3. draft' = [draft EXCEPT ![e] = r] \/ draft' = draft BY <1>4 DEF Touch
  <2>4. UNCHANGED <<issued, claims, rewound>> BY <1>4 DEF Touch, history
  <2> QED BY <1>1, <2>1, <2>2, <2>3, <2>4, NotedKeeps, KeepsAll
<1>5. ASSUME NEW failed \in BOOLEAN, Finish(t, failed) PROVE \A d \in Drafts : Moves(d)
  <2> DEFINE f == [draft[e] EXCEPT !.status = "error", !.job = "failed", !.fresh = TRUE]
             p == [draft[e] EXCEPT !.status = "pending", !.job = "complete", !.fresh = TRUE,
                                   !.output = a]
             r == IF failed THEN f ELSE p
  <2>1. e \in Drafts /\ draft[e] \in DraftRow BY <1>2, <1>5 DEF Finish
  <2>2. UNCHANGED <<issued, claims, rewound>> BY <1>5 DEF Finish, history
  <2>3. CASE MayFinish(e, a)
    <3>1. draft' = [draft EXCEPT ![e] = r] BY <1>5, <2>3 DEF Finish
    <3>2. draft'[e] = r BY <1>1, <2>1, <3>1 DEF RowsTyped
    <3>3. /\ f.status = "error" /\ f.job = "failed" /\ f.attempt = draft[e].attempt
          /\ f.output = draft[e].output
      BY <2>1 DEF DraftRow
    <3>4. p.status = "pending" /\ p.job = "complete" /\ p.attempt = draft[e].attempt
          /\ p.output = a
      BY <2>1 DEF DraftRow
    <3>5. Finishes(e)
      BY <2>2, <2>3, <3>2, <3>3, <3>4 DEF Finishes, MayFinish, Current
    <3>6. Moves(e) BY <2>2, <3>5 DEF Moves
    <3> QED BY <1>1, <2>1, <2>2, <3>1, <3>6, OneMoves
  <2>4. CASE ~MayFinish(e, a) BY <1>5, <2>2, <2>4, KeepsAll DEF Finish
  <2> QED BY <2>3, <2>4
<1>6. CASE \/ \E d \in Drafts, b \in Attempts : Take(t, d, b)
           \/ FinishFails(t) \/ ReleaseSlot(t) \/ ThreadDies(t)
  BY <1>6, KeepsAll DEF Take, FinishFails, ReleaseSlot, ThreadDies, history
<1> QED BY <1>3, <1>4, <1>5, <1>6 DEF Consumer

\* A scan prepares again running drafts only, and none that a thread executes.
LEMMA ScanMoves ==
    ASSUME TypeInv, NEW locked, NEW stale, Scan(locked, stale), UNCHANGED rewound,
           \A d \in stale, t \in Threads : ~Executing(t, d)
    PROVE  \A d \in Drafts : Moves(d)
<1> SUFFICES ASSUME NEW d \in Drafts PROVE Moves(d) OBVIOUS
<1> DEFINE again == PageOf(Running \ locked, cursor, Page) \cap stale
<1>1. again \subseteq Running BY DEF PageOf, Above, Wrapped, First
<1>2. RowsTyped BY DEF TypeInv
<1>3. CASE d \in again
  <2>1. draft[d].status = "running" BY <1>1, <1>3 DEF Running
  <2>2. draft'[d] = Prepared(d) /\ issued'[d] = issued[d] + 1 /\ claims'[d] = 0
    BY <1>3 DEF Scan
  <2>3. \A t \in Threads : ~Executing(t, d) BY <1>3
  <2>4. Restarts(d) BY <1>2, <2>1, <2>2, <2>3, PreparedType DEF Restarts
  <2> QED BY <2>4 DEF Moves
<1>4. CASE d \notin again
  <2>1. draft'[d] = draft[d] /\ issued'[d] = issued[d] /\ claims'[d] = claims[d]
    BY <1>4 DEF Scan
  <2> QED BY <2>1 DEF Moves, Keeps
<1> QED BY <1>3, <1>4

LEMMA NextMoves == TypeInv /\ [Next]_vars => \A d \in Drafts : Moves(d)
<1> SUFFICES ASSUME TypeInv, [Next]_vars PROVE \A d \in Drafts : Moves(d) OBVIOUS
<1>1. CASE Requests BY <1>1, RequestMoves, PublishMoves DEF Requests
<1>2. CASE \E t \in Threads : Consumer(t) BY <1>2, ConsumerMoves
<1>3. CASE Recover
  <2>1. CASE RecoverPeriodic
    <3>1. ASSUME NEW d \in Drafts, Stale(d), NEW t \in Threads PROVE ~Executing(t, d)
      BY <3>1 DEF TypeInv, Registered, Stale, IsActive, Executing
    <3> QED BY <2>1, <3>1, ScanMoves DEF RecoverPeriodic
  <2>2. CASE RecoverStartup
    <3>1. \A d \in Drafts, t \in Threads : ~Executing(t, d)
      BY <2>2 DEF TypeInv, Registered, RecoverStartup, Executing
    <3> QED BY <2>2, <3>1, ScanMoves DEF RecoverStartup
  <2>3. CASE Started \/ Crash BY <2>3, KeepsAll DEF Started, Crash, history
  <2> QED BY <1>3, <2>1, <2>2, <2>3, PublishMoves DEF Recover
<1>4. CASE \E d \in Drafts, a \in Attempts : Drop(d, a)
  BY <1>4, KeepsAll DEF Drop, history
<1>5. ASSUME NEW e \in Drafts, HeartbeatExpires(e) \/ LeaseExpires(e)
      PROVE  \A d \in Drafts : Moves(d)
  <2>1. RowsTyped /\ draft[e] \in DraftRow BY DEF TypeInv, RowsTyped
  <2> DEFINE r == [draft[e] EXCEPT !.fresh = FALSE]
  <2>2. /\ r.status = draft[e].status /\ r.attempt = draft[e].attempt
        /\ r.job = draft[e].job /\ r.output = draft[e].output
    BY <2>1 DEF DraftRow
  <2>3. CASE HeartbeatExpires(e)
    <3>1. draft' = [draft EXCEPT ![e] = r] BY <2>3 DEF HeartbeatExpires
    <3> QED BY <2>1, <2>2, <2>3, <3>1, NotedKeeps DEF HeartbeatExpires, history
  <2>4. CASE LeaseExpires(e)
    BY <2>1, <2>4, LeaseMoves DEF LeaseExpires, history
  <2> QED BY <1>5, <2>3, <2>4
<1>6. CASE UNCHANGED vars BY <1>6, KeepsAll DEF vars
<1> QED BY <1>1, <1>2, <1>3, <1>4, <1>5, <1>6 DEF Next
-----------------------------------------------------------------------------
(* Theorems about attempts.                                                *)

LEMMA TypeInvHolds == Spec => []TypeInv
<1> QED BY InitTypeInv, NextTypeInv, PTL DEF Spec

(* A draft no stale note rewound has the attempt issued last.  While that   *)
(* waits nobody has claimed it; while it runs, one has.                     *)
Fenced(d) ==
    /\ draft[d].attempt = issued[d]
    /\ claims[d] \in {0, 1}
    /\ draft[d].status = "running" /\ draft[d].job = "queued" => claims[d] = 0
    /\ draft[d].status = "running" /\ draft[d].job = "running" => claims[d] = 1
    /\ draft[d].status = "pending" => draft[d].output = issued[d] /\ claims[d] = 1

Fences == \A d \in Drafts \ rewound : Fenced(d)

LEMMA InitFences == Init => Fences
  BY DEF Init, Fences, Fenced, Absent

LEMMA MoveFences ==
    ASSUME NEW d \in Drafts \ rewound', Moves(d), Fenced(d)
    PROVE  Fenced(d)'
<1>1. CASE Keeps(d) BY <1>1 DEF Keeps, Fenced
<1>2. CASE Restarts(d) BY <1>2 DEF Restarts, Fenced
<1>3. CASE IsClaimed(d) BY <1>3 DEF IsClaimed, Fenced
<1>4. CASE Finishes(d) BY <1>4 DEF Finishes, Fenced
<1>5. CASE IsCancelled(d) BY <1>5 DEF IsCancelled, Fenced
<1>6. CASE IsDecided(d) BY <1>6 DEF IsDecided, Fenced
<1> QED BY <1>1, <1>2, <1>3, <1>4, <1>5, <1>6 DEF Moves, IsRewound

LEMMA NextFences == TypeInv /\ Fences /\ [Next]_vars => Fences'
<1> SUFFICES ASSUME TypeInv, Fences, [Next]_vars, NEW d \in Drafts \ rewound'
             PROVE  Fenced(d)'
  BY DEF Fences
<1>1. Moves(d) BY NextMoves
<1>2. d \notin rewound BY <1>1 DEF Moves
<1> QED BY <1>1, <1>2, MoveFences DEF Fences

LEMMA FencesHold == Spec => []Fences
<1> QED BY InitFences, NextFences, TypeInvHolds, PTL DEF Spec

\* However often an attempt is published and consumed, claim lets one
\* consumer run it (publish_once and claim of app/services/ai/jobs.py).
THEOREM ClaimFencesHolds == Spec => []ClaimFences
<1>1. Fences => ClaimFences BY DEF Fences, Fenced, ClaimFences
<1> QED BY <1>1, FencesHold, PTL

\* A generated draft shows the output of the attempt issued last, which one
\* consumer ran (finish of app/services/ai/jobs.py).
THEOREM ResultIsCurrentHolds == Spec => []ResultIsCurrent
<1>1. Fences => ResultIsCurrent BY DEF Fences, Fenced, ResultIsCurrent
<1> QED BY <1>1, FencesHold, PTL

\* No consumer, note or scan undoes a cancellation, an approval or a
\* rejection; only retry_draft replaces a cancelled attempt, by a new one.
THEOREM DecisionStandsHolds == Spec => DecisionStands
<1> DEFINE A(d) ==
      /\ draft[d].status \in {"approved", "rejected"} => draft'[d].status = draft[d].status
      /\ draft[d].status = "cancelled" /\ draft'[d].status # "cancelled" =>
            draft'[d].status = "running" /\ issued'[d] > issued[d]
<1>1. ASSUME TypeInv, [Next]_vars, NEW d \in Drafts PROVE A(d)
  <2>1. Moves(d) BY <1>1, NextMoves
  <2>2. issued[d] \in Nat BY <1>1 DEF TypeInv, RowsTyped
  <2>3. CASE Keeps(d) \/ IsRewound(d) BY <2>3 DEF Keeps, IsRewound
  <2>4. CASE Restarts(d) BY <2>2, <2>4 DEF Restarts
  <2>5. CASE IsClaimed(d) \/ Finishes(d) \/ IsCancelled(d)
    BY <2>5 DEF IsClaimed, Finishes, IsCancelled
  <2>6. CASE IsDecided(d) BY <2>6 DEF IsDecided, Reviewable
  <2> QED BY <2>1, <2>3, <2>4, <2>5, <2>6 DEF Moves
<1>2. TypeInv /\ [Next]_vars => [\A d \in Drafts : A(d)]_vars BY <1>1
<1> QED BY <1>2, TypeInvHolds, PTL DEF Spec, DecisionStands

\* A scan of recover never replaces the attempt that a live thread executes,
\* however old its heartbeat (_owners, _owner_alive).
THEOREM LiveAttemptKeptHolds == Spec => LiveAttemptKept
<1> DEFINE A(d, t) == Executing(t, d) /\ draft[d].status = "running" =>
                          draft'[d].attempt = draft[d].attempt
<1>1. ASSUME TypeInv, [Next]_vars, NEW d \in Drafts \ rewound', NEW t \in Threads
      PROVE  A(d, t)
  <2>1. Moves(d) BY <1>1, NextMoves
  <2>2. ~IsRewound(d) BY DEF IsRewound
  <2> QED
    BY <2>1, <2>2 DEF Moves, Keeps, Restarts, IsClaimed, Finishes, IsCancelled, IsDecided
<1>2. TypeInv /\ [Next]_vars => [\A d \in Drafts \ rewound', t \in Threads : A(d, t)]_vars
  BY <1>1
<1> QED BY <1>2, TypeInvHolds, PTL DEF Spec, LiveAttemptKept

-----------------------------------------------------------------------------
(* The permits.                                                            *)

Busy == {t \in Threads : thread[t].pc # "idle"}

Counted == free \in Nat /\ ghosts \in Nat /\ free + ghosts + Cardinality(Busy) = Slots

LEMMA BusyFinite == IsFiniteSet(Busy) /\ Cardinality(Busy) \in Nat
<1>1. Busy \subseteq Threads BY DEF Busy
<1> QED BY <1>1, BoundsAssumption, FS_Subset, FS_CardinalityType

LEMMA InitCounted == Init => Counted
<1> SUFFICES ASSUME Init PROVE Counted OBVIOUS
<1>1. Busy = {} BY DEF Init, Busy, NoThread
<1> QED BY <1>1, FS_EmptySet, BoundsAssumption DEF Counted, Init

\* A thread takes a permit, or gives it back to the pool or to the dead.
LEMMA BusyGrows ==
    ASSUME NEW t \in Threads, t \notin Busy, Busy' = Busy \cup {t}
    PROVE  Cardinality(Busy') = Cardinality(Busy) + 1
  BY BusyFinite, FS_AddElement

LEMMA BusyShrinks ==
    ASSUME NEW t \in Busy, Busy' = Busy \ {t}
    PROVE  Cardinality(Busy') = Cardinality(Busy) - 1
  BY BusyFinite, FS_RemoveElement

LEMMA CountKept ==
    ASSUME Counted, Busy' = Busy,
           UNCHANGED <<free, ghosts>> \/ (free' = Permits /\ ghosts' = 0)
    PROVE  Counted'
  BY BusyFinite DEF Counted, Permits

LEMMA ThreadKept ==
    ASSUME Counted, UNCHANGED thread,
           UNCHANGED <<free, ghosts>> \/ (free' = Permits /\ ghosts' = 0)
    PROVE  Counted'
<1>1. Busy' = Busy BY DEF Busy
<1> QED BY <1>1, CountKept

LEMMA ConsumerCounted == TypeInv /\ Counted /\ (\E t \in Threads : Consumer(t)) => Counted'
<1> SUFFICES ASSUME TypeInv, Counted, NEW t \in Threads, Consumer(t) PROVE Counted'
  OBVIOUS
<1>1. thread \in [Threads -> ThreadType] BY DEF TypeInv, Registered
<1>2. ASSUME NEW d \in Drafts, NEW a \in Attempts, Take(t, d, a) PROVE Counted'
  <2>1. Busy' = Busy \cup {t} /\ t \notin Busy BY <1>1, <1>2 DEF Take, Busy
  <2>2. Cardinality(Busy') = Cardinality(Busy) + 1 BY <2>1, BusyGrows
  <2>3. free' = free + ghosts - 1 /\ ghosts' = 0 /\ free + ghosts > 0
    <3>1. free' = Permits - 1 /\ ghosts' = 0 /\ Permits > 0 BY <1>2, Zenon DEF Take
    <3>2. Permits = free + ghosts BY DEF Permits
    <3>3. free \in Nat /\ ghosts \in Nat BY DEF Counted
    <3> QED BY <3>1, <3>2, <3>3
  <2>4. Slots \in Nat /\ Cardinality(Busy) \in Nat BY BusyFinite, BoundsAssumption
  <2>5. free \in Nat /\ ghosts \in Nat /\ free + ghosts + Cardinality(Busy) = Slots
    BY DEF Counted
  <2>6. free' \in Nat /\ ghosts' \in Nat BY <2>3, <2>5
  <2>7. free' + ghosts' + Cardinality(Busy') = Slots BY <2>2, <2>3, <2>4, <2>5
  <2> QED BY <2>6, <2>7, BoundsAssumption DEF Counted
<1>3. ASSUME NEW pc \in {"run", "release"}, Goto(t, pc) \/ UNCHANGED thread,
             thread[t].pc # "idle", UNCHANGED <<free, ghosts>>
      PROVE  Counted'
  <2>1. Busy' = Busy BY <1>1, <1>3 DEF Goto, Busy, ThreadType
  <2> QED BY <1>3, <2>1, CountKept
<1>4. CASE Claim(t) BY <1>3, <1>4 DEF Claim
<1>5. CASE Touch(t) BY <1>3, <1>5 DEF Touch
<1>6. CASE FinishFails(t) \/ \E failed \in BOOLEAN : Finish(t, failed)
  BY <1>3, <1>6 DEF FinishFails, Finish
<1>7. ASSUME ReleaseSlot(t) \/ ThreadDies(t) PROVE Busy' = Busy \ {t} /\ t \in Busy
  BY <1>1, <1>7 DEF ReleaseSlot, ThreadDies, Busy, NoThread
<1>8. CASE ReleaseSlot(t)
  BY <1>7, <1>8, BusyFinite, BusyShrinks DEF Counted, ReleaseSlot, Released
<1>9. CASE ThreadDies(t)
  <2>1. ghosts' = ghosts + 1 BY <1>9 DEF ThreadDies, TypeInv, Registered
  <2> QED BY <1>7, <1>9, <2>1, BusyFinite, BusyShrinks DEF Counted, ThreadDies
<1> QED BY <1>2, <1>4, <1>5, <1>6, <1>8, <1>9 DEF Consumer

LEMMA NextCounted == TypeInv /\ Counted /\ [Next]_vars => Counted'
<1> SUFFICES ASSUME TypeInv, Counted, [Next]_vars PROVE Counted' OBVIOUS
<1>1. CASE Requests
  BY <1>1, ThreadKept DEF Requests, CreateDraft, RetryDraft, CancelDraft, UpdateDraft,
     RejectDraft, ApplyDraft, WebLease, WebSend, WebSendFails, WebNoteRead, WebNoteWrite,
     WebDies, consumers
<1>2. CASE \E t \in Threads : Consumer(t) BY <1>2, ConsumerCounted
<1>3. CASE Recover
  <2>1. CASE Crash
    <3>1. Busy' = {} BY <2>1 DEF Crash, Busy, NoThread
    <3> QED BY <2>1, <3>1, FS_EmptySet, BoundsAssumption DEF Crash, Counted
  <2>2. CASE RecoverPeriodic BY <2>2, ThreadKept DEF RecoverPeriodic
  <2> QED
    BY <1>3, <2>1, <2>2, ThreadKept DEF Recover, RecoverStartup, RecoverSend,
       RecoverSendFails, RecoverLease, Started, consumers
<1>4. CASE \/ \E d \in Drafts, a \in Attempts : Drop(d, a)
           \/ \E d \in Drafts : HeartbeatExpires(d) \/ LeaseExpires(d)
           \/ UNCHANGED vars
  BY <1>4, ThreadKept DEF Drop, HeartbeatExpires, LeaseExpires, vars, consumers
<1> QED BY <1>1, <1>2, <1>3, <1>4 DEF Next

\* Permits of _slots are neither lost nor multiplied: not by threads that die
\* with one, not by reaping them twice, not by a restart.
THEOREM SlotsAccountedHolds == Spec => []SlotsAccounted
<1>1. TypeInv /\ Counted => SlotsAccounted
  <2> SUFFICES ASSUME TypeInv, Counted PROVE SlotsAccounted OBVIOUS
  <2>1. Busy = {t \in Threads : thread[t].pc \in {"claim", "run", "release"}}
    BY DEF Busy, TypeInv, Registered, ThreadType
  <2> QED BY <2>1 DEF Counted, SlotsAccounted
<1> QED BY <1>1, InitCounted, NextCounted, TypeInvHolds, PTL DEF Spec

-----------------------------------------------------------------------------
(* The attempts.  Every one after the first is paid for: by a retry, or by  *)
(* the fault that left a running draft without a consumer.                  *)

BudgetTyped ==
    budget \in [faults : 0 .. MaxFaults, retries : 0 .. MaxRetries,
               drafts : SUBSET Drafts, handled : SUBSET Drafts, threads : SUBSET Threads]

Used == 1 + budget.retries + budget.faults

(* A running draft that recovery may prepare again: its attempt is claimed, *)
(* or a stale note says so, and nobody executes it.                         *)
Orphan(d) ==
    \/ recovery.mode = "down"
    \/ /\ draft[d].status = "running" /\ draft[d].job # "queued"
       /\ ~(draft[d].job = "running" /\ \E t \in Threads : Executing(t, d))

\* A failed publication has still to be noted, and may make d an orphan.
Noting(d) == \E w \in Web : web[w].pc \in {"failed", "note"} /\ web[w].d = d

Owes(b) == IF b THEN 1 ELSE 0

\* The attempts of d, at least one, and those it may still get unasked.
Due(d) == issued[d] + Owes(issued[d] = 0) + Owes(Orphan(d)) + Owes(Noting(d))

Paid == \A d \in Drafts : Due(d) <= Used

(* A draft exists while a request handles it, and is created once.          *)
Publishing(w) == web[w].pc \in {"create", "send", "failed", "note"}
Sole ==
    /\ \A w \in Web : web[w].pc # "idle" => draft[web[w].d].status # "absent"
    /\ \A v, w \in Web : v # w /\ Publishing(v) /\ Publishing(w) => web[v].d # web[w].d

(* Whatever names an attempt names one that was issued.                     *)
Issued(d, a) == a \in Nat /\ 1 <= a /\ a <= issued[d]
RowNumbered(d) ==
    /\ draft[d].attempt <= issued[d] /\ draft[d].output <= issued[d]
    /\ draft[d].status # "absent" => Issued(d, draft[d].attempt)
Numbered ==
    /\ \A d \in Drafts : RowNumbered(d)
    /\ \A m \in queue : m \in Drafts \X Nat /\ Issued(m[1], m[2])
    /\ \A w \in Web :
          /\ web[w].pc \in {"send", "resend"} => Issued(web[w].d, web[w].a)
          /\ web[w].pc = "note" => Issued(web[w].d, web[w].seen.attempt)
    /\ recovery.pick.pc = "send" => Issued(recovery.pick.d, recovery.pick.a)

AttemptInv == BudgetTyped /\ Paid /\ Sole /\ Numbered /\ cursor \in 0 .. NDrafts

LEMMA BudgetBounds ==
    ASSUME BudgetTyped
    PROVE  /\ Used \in Nat /\ Used <= 1 + MaxRetries + MaxFaults
           /\ Fails => BudgetTyped' /\ Used' = Used + 1
           /\ UNCHANGED budget => BudgetTyped' /\ Used' = Used
<1>1. MaxRetries \in Nat /\ MaxFaults \in Nat BY BoundsAssumption
<1>2. budget.faults \in 0 .. MaxFaults /\ budget.retries \in 0 .. MaxRetries
  BY DEF BudgetTyped
<1>3. Used \in Nat /\ Used <= 1 + MaxRetries + MaxFaults BY <1>1, <1>2 DEF Used
<1>4. ASSUME Fails PROVE BudgetTyped' /\ Used' = Used + 1
  <2>1. budget.faults < MaxFaults /\ budget' = [budget EXCEPT !.faults = @ + 1]
    BY <1>4 DEF Fails
  <2>2. budget'.faults = budget.faults + 1 /\ budget'.retries = budget.retries
        /\ BudgetTyped'
    BY <1>1, <1>2, <2>1 DEF BudgetTyped
  <2> QED BY <1>2, <2>2 DEF Used
<1>5. UNCHANGED budget => BudgetTyped' /\ Used' = Used BY DEF BudgetTyped, Used
<1> QED BY <1>3, <1>4, <1>5

LEMMA BudgetStays ==
    BudgetTyped /\ [Next]_vars => BudgetTyped' /\ Used' \in Nat /\ Used' >= Used
<1> SUFFICES ASSUME BudgetTyped, [Next]_vars
             PROVE  BudgetTyped' /\ Used' \in Nat /\ Used' >= Used
  OBVIOUS
<1>1. CASE UNCHANGED budget \/ Fails BY <1>1, BudgetBounds
<1>2. CASE \E w \in Web, d \in Handled : RetryDraft(w, d)
  <2>1. /\ budget.faults \in 0 .. MaxFaults /\ budget.retries \in 0 .. MaxRetries
        /\ MaxRetries \in Nat /\ MaxFaults \in Nat
    BY BoundsAssumption DEF BudgetTyped
  <2>2. budget.retries < MaxRetries /\ budget' = [budget EXCEPT !.retries = @ + 1]
    BY <1>2 DEF RetryDraft
  <2>3. budget'.retries = budget.retries + 1 /\ budget'.faults = budget.faults /\ BudgetTyped'
    BY <2>1, <2>2 DEF BudgetTyped
  <2> QED BY <2>1, <2>3 DEF Used
<1>3. CASE Requests
  BY <1>1, <1>2, <1>3 DEF Requests, CreateDraft, CancelDraft, UpdateDraft, RejectDraft,
     ApplyDraft, WebLease, WebSend, WebSendFails, WebNoteRead, WebNoteWrite, WebDies
<1>4. CASE \E t \in Threads : Consumer(t)
  BY <1>1, <1>4 DEF Consumer, Take, Claim, Touch, FinishFails, Finish, ReleaseSlot, ThreadDies
<1>5. CASE Recover
  BY <1>1, <1>5 DEF Recover, RecoverPeriodic, RecoverStartup, RecoverSend,
     RecoverSendFails, RecoverLease, Started, Crash, Scan, PassesOver
<1>6. CASE \/ \E d \in Drafts, a \in Attempts : Drop(d, a)
           \/ \E d \in Drafts : HeartbeatExpires(d) \/ LeaseExpires(d)
           \/ UNCHANGED vars
  BY <1>1, <1>6 DEF Drop, HeartbeatExpires, LeaseExpires, vars
<1> QED BY <1>3, <1>4, <1>5, <1>6 DEF Next

-----------------------------------------------------------------------------
(* The cursor: the last row of a page, which is a draft.                    *)

\* A nonempty set of drafts has a greatest one: the least distance to NDrafts.
LEMMA LatestDraft ==
    ASSUME NEW S \in SUBSET Drafts, S # {}
    PROVE  Latest(S) \in S
<1> DEFINE T == {NDrafts - d : d \in S}
           R == {ss \in Nat \X Nat : ss[1] < ss[2]}
<1>1. T \subseteq Nat /\ T # {}
  <2>1. \A d \in S : NDrafts - d \in Nat BY BoundsAssumption DEF Drafts
  <2>2. PICK d \in S : TRUE OBVIOUS
  <2>3. NDrafts - d \in T BY <2>2
  <2> QED BY <2>1, <2>3
<1>2. IsWellFoundedOn(R, Nat) BY NatLessThanWellFounded, Zenon DEF OpToRel
<1>3. PICK x \in T : \A y \in T : ~(<<y, x>> \in R)
  <2> HIDE DEF R, T
  <2> QED BY <1>1, <1>2, WFMin, Zenon
<1>4. \A y \in T : x <= y
  <2> SUFFICES ASSUME NEW y \in T PROVE x <= y OBVIOUS
  <2>1. x \in Nat /\ y \in Nat /\ <<y, x>> \notin R BY <1>1, <1>3
  <2> QED BY <2>1
<1>5. PICK d \in S : x = NDrafts - d OBVIOUS
<1>6. \A e \in S : e <= d
  <2> SUFFICES ASSUME NEW e \in S PROVE e <= d OBVIOUS
  <2>1. NDrafts - d <= NDrafts - e BY <1>4, <1>5
  <2> QED BY <2>1, BoundsAssumption DEF Drafts
<1>7. \E m \in S : \A e \in S : e <= m BY <1>6
<1> QED BY <1>7 DEF Latest

LEMMA CursorStays ==
    cursor \in 0 .. NDrafts /\ [Next]_vars => cursor' \in 0 .. NDrafts
<1> SUFFICES ASSUME cursor \in 0 .. NDrafts, [Next]_vars PROVE cursor' \in 0 .. NDrafts
  OBVIOUS
<1>1. ASSUME NEW locked, cursor' = NextCursor(Running \ locked, cursor, Page)
      PROVE  cursor' \in 0 .. NDrafts
  <2> DEFINE above == Above(Running \ locked, cursor, Page)
             wrapped == Wrapped(Running \ locked, cursor, Page)
  <2>1. above \in SUBSET Drafts /\ wrapped \in SUBSET Drafts
    BY DEF Above, Wrapped, First, Running
  <2>2. cursor' = IF wrapped # {} THEN Latest(wrapped)
                  ELSE IF above # {} THEN Latest(above) ELSE 0
    BY <1>1 DEF NextCursor
  <2> HIDE DEF above, wrapped
  <2>3. cursor' \in Drafts \cup {0} BY <2>1, <2>2, LatestDraft
  <2> QED BY <2>3, BoundsAssumption DEF Drafts
<1>2. CASE UNCHANGED cursor BY <1>2
<1>3. CASE Recover
  BY <1>1, <1>2, <1>3 DEF Recover, RecoverPeriodic, RecoverStartup, Scan, RecoverSend,
     RecoverSendFails, RecoverLease, Started, Crash
<1>4. CASE Requests
  BY <1>2, <1>4 DEF Requests, CreateDraft, RetryDraft, CancelDraft, UpdateDraft, RejectDraft,
     ApplyDraft, WebLease, WebSend, WebSendFails, WebNoteRead, WebNoteWrite, WebDies
<1>5. CASE \E t \in Threads : Consumer(t)
  BY <1>2, <1>5 DEF Consumer, Take, Claim, Touch, FinishFails, Finish, ReleaseSlot, ThreadDies
<1>6. CASE \/ \E d \in Drafts, a \in Attempts : Drop(d, a)
           \/ \E d \in Drafts : HeartbeatExpires(d) \/ LeaseExpires(d)
           \/ UNCHANGED vars
  BY <1>2, <1>6 DEF Drop, HeartbeatExpires, LeaseExpires, vars
<1> QED BY <1>3, <1>4, <1>5, <1>6 DEF Next

-----------------------------------------------------------------------------
(* Numbers: what one step does to a request, to recovery and to the queue.  *)

WebMove(w) ==
    /\ \A v \in Web : v # w => web'[v] = web[v]
    /\ \/ web'[w].pc = "idle"
       \/ /\ web'[w].pc = "create" /\ web'[w].d \in Drafts
          /\ draft[web'[w].d].status = "absent" /\ draft'[web'[w].d].status = "running"
       \/ /\ web'[w].pc = "retry" /\ web'[w].d \in Drafts
          /\ draft'[web'[w].d].status = "running"
       \/ /\ web'[w].d = web[w].d
          /\ \/ /\ web[w].pc = "create" /\ web'[w].pc = "send"
                /\ web'[w].a = draft[web[w].d].attempt
             \/ /\ web[w].pc = "retry" /\ web'[w].pc = "resend"
                /\ web'[w].a = draft[web[w].d].attempt
             \/ web[w].pc = "send" /\ web'[w].pc = "failed"
             \/ /\ web[w].pc = "failed" /\ web'[w].pc = "note"
                /\ web'[w].seen.attempt = draft[web[w].d].attempt

WebStep == UNCHANGED web \/ \E w \in Web : WebMove(w)

LEMMA RequestWebStep == TypeInv /\ Requests => WebStep
<1> SUFFICES ASSUME TypeInv, Requests PROVE WebStep OBVIOUS
<1>1. RowsTyped /\ RequestsTyped BY DEF TypeInv
<1>2. NoRequest.pc = "idle" /\ NoRequest \in RequestType BY DEF NoRequest, RequestType
<1>3. ASSUME NEW w \in Web, NEW q, web' = [web EXCEPT ![w] = q]
      PROVE  web'[w] = q /\ \A v \in Web : v # w => web'[v] = web[v]
  BY <1>1, <1>3 DEF RequestsTyped
<1>4. ASSUME NEW w \in Web, NEW d \in Drafts, CreateDraft(w, d) \/ RetryDraft(w, d)
      PROVE  WebMove(w)
  <2> DEFINE c == [NoRequest EXCEPT !.pc = "create", !.d = d]
             r == [NoRequest EXCEPT !.pc = "retry", !.d = d]
  <2>1. c.pc = "create" /\ c.d = d /\ r.pc = "retry" /\ r.d = d
    BY <1>2 DEF RequestType
  <2>2. draft'[d].status = "running"
    BY <1>1, <1>4, PreparedType DEF CreateDraft, RetryDraft, RowsTyped
  <2>3. CASE CreateDraft(w, d)
    <3>1. web' = [web EXCEPT ![w] = c] /\ draft[d].status = "absent"
      BY <2>3 DEF CreateDraft
    <3>2. web'[w] = c /\ \A v \in Web : v # w => web'[v] = web[v] BY <1>3, <3>1
    <3> QED BY <2>1, <2>2, <3>1, <3>2 DEF WebMove
  <2>4. CASE RetryDraft(w, d)
    <3>1. web' = [web EXCEPT ![w] = r] BY <2>4 DEF RetryDraft
    <3>2. web'[w] = r /\ \A v \in Web : v # w => web'[v] = web[v] BY <1>3, <3>1
    <3> QED BY <2>1, <2>2, <3>2 DEF WebMove
  <2> QED BY <1>4, <2>3, <2>4
<1>5. ASSUME NEW w \in Web, web' = [web EXCEPT ![w] = NoRequest] PROVE WebMove(w)
  BY <1>2, <1>3, <1>5 DEF WebMove
<1>6. ASSUME NEW w \in Web, WebLease(w) PROVE WebMove(w)
  <2> DEFINE pc == IF web[w].pc = "create" THEN "send" ELSE "resend"
             q == [web[w] EXCEPT !.pc = pc, !.a = draft[web[w].d].attempt]
  <2>1. web[w] \in RequestType BY <1>1 DEF RequestsTyped
  <2>2. q.pc = pc /\ q.d = web[w].d /\ q.a = draft[web[w].d].attempt BY <2>1 DEF RequestType
  <2>3. web[w].pc \in {"create", "retry"} BY <1>6 DEF WebLease
  <2>4. CASE web' = [web EXCEPT ![w] = q]
    <3>1. web'[w] = q /\ \A v \in Web : v # w => web'[v] = web[v] BY <1>3, <2>4
    <3> QED BY <2>2, <2>3, <3>1 DEF WebMove
  <2>5. CASE web' = [web EXCEPT ![w] = NoRequest] BY <1>5, <2>5
  <2> QED BY <1>6, <2>4, <2>5 DEF WebLease
<1>7. ASSUME NEW w \in Web, WebSendFails(w) PROVE WebMove(w)
  <2> DEFINE q == [web[w] EXCEPT !.pc = "failed"]
  <2>1. web[w] \in RequestType BY <1>1 DEF RequestsTyped
  <2>2. q.pc = "failed" /\ q.d = web[w].d BY <2>1 DEF RequestType
  <2>3. CASE web[w].pc = "send"
    <3>1. web' = [web EXCEPT ![w] = q] BY <1>7, <2>3 DEF WebSendFails
    <3>2. web'[w] = q /\ \A v \in Web : v # w => web'[v] = web[v] BY <1>3, <3>1
    <3> QED BY <2>2, <2>3, <3>2 DEF WebMove
  <2>4. CASE web[w].pc # "send" BY <1>5, <1>7, <2>4 DEF WebSendFails
  <2> QED BY <2>3, <2>4
<1>8. ASSUME NEW w \in Web, WebNoteRead(w) PROVE WebMove(w)
  <2> DEFINE q == [web[w] EXCEPT !.pc = "note", !.seen = Meta(web[w].d)]
  <2>1. web[w] \in RequestType BY <1>1 DEF RequestsTyped
  <2>2. q.pc = "note" /\ q.d = web[w].d /\ q.seen.attempt = draft[web[w].d].attempt
    BY <2>1 DEF RequestType, Meta
  <2>3. web' = [web EXCEPT ![w] = q] /\ web[w].pc = "failed" BY <1>8 DEF WebNoteRead
  <2>4. web'[w] = q /\ \A v \in Web : v # w => web'[v] = web[v] BY <1>3, <2>3
  <2> QED BY <2>2, <2>3, <2>4 DEF WebMove
<1>9. ASSUME NEW w \in Web, WebSend(w) \/ WebNoteWrite(w) \/ WebDies(w) PROVE WebMove(w)
  BY <1>5, <1>9 DEF WebSend, WebNoteWrite, WebDies
<1>10. CASE \E d \in Handled : \/ CancelDraft(d) \/ UpdateDraft(d) \/ RejectDraft(d)
                               \/ ApplyDraft(d)
  BY <1>10 DEF WebStep, CancelDraft, UpdateDraft, RejectDraft, ApplyDraft
<1> QED
  BY <1>4, <1>6, <1>7, <1>8, <1>9, <1>10 DEF Requests, WebStep, Handled

LEMMA NextWebStep == TypeInv /\ [Next]_vars => WebStep
<1> SUFFICES ASSUME TypeInv, [Next]_vars PROVE WebStep OBVIOUS
<1>1. CASE Requests BY <1>1, RequestWebStep
<1>2. CASE \E t \in Threads : Consumer(t)
  BY <1>2 DEF Consumer, Take, Claim, Touch, FinishFails, Finish, ReleaseSlot, ThreadDies,
     WebStep
<1>3. CASE Recover
  BY <1>3 DEF Recover, RecoverPeriodic, RecoverStartup, RecoverSend, RecoverSendFails,
     RecoverLease, Started, Crash, WebStep
<1>4. CASE \/ \E d \in Drafts, a \in Attempts : Drop(d, a)
           \/ \E d \in Drafts : HeartbeatExpires(d) \/ LeaseExpires(d)
           \/ UNCHANGED vars
  BY <1>4 DEF Drop, HeartbeatExpires, LeaseExpires, vars, WebStep
<1> QED BY <1>1, <1>2, <1>3, <1>4 DEF Next

\* Recovery leases the attempt the row names, and the queue only grows by a
\* publication in hand.
PickStep ==
    \/ recovery'.pick = recovery.pick
    \/ recovery'.pick.pc = "idle"
    \/ /\ recovery'.pick.d \in Drafts /\ draft[recovery'.pick.d].status = "running"
       /\ recovery'.pick.a = draft[recovery'.pick.d].attempt

QueueStep ==
    \/ queue' \subseteq queue
    \/ \E w \in Web : web[w].pc \in {"send", "resend"}
                      /\ queue' = queue \cup {<<web[w].d, web[w].a>>}
    \/ recovery.pick.pc = "send"
       /\ queue' = queue \cup {<<recovery.pick.d, recovery.pick.a>>}

LEMMA NextPickStep == TypeInv /\ [Next]_vars => PickStep
<1> SUFFICES ASSUME TypeInv, [Next]_vars PROVE PickStep OBVIOUS
<1>1. recovery \in [mode : {"up", "down", "starting"}, owed : SUBSET Drafts,
                    pick : RequestType]
  BY DEF TypeInv, RecoveryTyped
<1>2. NoRequest.pc = "idle" BY DEF NoRequest
<1>3. CASE Recover
  <2>1. ASSUME NEW d \in Drafts, RecoverLease(d) PROVE PickStep
    <3> DEFINE q == [NoRequest EXCEPT !.pc = "send", !.d = d, !.a = draft[d].attempt]
    <3>1. q.d = d /\ q.a = draft[d].attempt BY DEF NoRequest
    <3>2. CASE MayLease(d)
      <4>1. recovery'.pick = q BY <1>1, <2>1, <3>2 DEF RecoverLease
      <4> QED BY <3>1, <3>2, <4>1 DEF PickStep, MayLease
    <3>3. CASE ~MayLease(d)
      <4>1. recovery'.pick = recovery.pick BY <1>1, <2>1, <3>3 DEF RecoverLease
      <4> QED BY <4>1 DEF PickStep
    <3> QED BY <3>2, <3>3
  <2>2. CASE RecoverPeriodic \/ RecoverStartup \/ Crash
    <3>1. ASSUME NEW locked, NEW stale, Scan(locked, stale) PROVE PickStep
      BY <1>2, <3>1 DEF Scan, PickStep
    <3>2. CASE Crash BY <1>2, <3>2 DEF Crash, PickStep
    <3> QED BY <2>2, <3>1, <3>2 DEF RecoverPeriodic, RecoverStartup
  <2>3. CASE RecoverSend \/ RecoverSendFails
    BY <1>1, <1>2, <2>3 DEF RecoverSend, RecoverSendFails, PickStep
  <2>4. CASE Started BY <1>1, <2>4 DEF Started, PickStep
  <2> QED BY <1>3, <2>1, <2>2, <2>3, <2>4 DEF Recover
<1>4. CASE UNCHANGED recovery BY <1>4 DEF PickStep
<1>5. CASE Requests
  BY <1>4, <1>5 DEF Requests, CreateDraft, RetryDraft, CancelDraft, UpdateDraft, RejectDraft,
     ApplyDraft, WebLease, WebSend, WebSendFails, WebNoteRead, WebNoteWrite, WebDies
<1>6. CASE \E t \in Threads : Consumer(t)
  BY <1>4, <1>6 DEF Consumer, Take, Claim, Touch, FinishFails, Finish, ReleaseSlot, ThreadDies
<1>7. CASE \/ \E d \in Drafts, a \in Attempts : Drop(d, a)
           \/ \E d \in Drafts : HeartbeatExpires(d) \/ LeaseExpires(d)
           \/ UNCHANGED vars
  BY <1>4, <1>7 DEF Drop, HeartbeatExpires, LeaseExpires, vars
<1> QED BY <1>3, <1>5, <1>6, <1>7 DEF Next

LEMMA NextQueueStep == [Next]_vars => QueueStep
<1> SUFFICES ASSUME [Next]_vars PROVE QueueStep OBVIOUS
<1>1. CASE queue' \subseteq queue BY <1>1 DEF QueueStep
<1>2. CASE Requests
  <2>1. ASSUME NEW w \in Web, WebSend(w) PROVE QueueStep
    BY <2>1 DEF WebSend, Sent, QueueStep
  <2> QED
    BY <1>1, <1>2, <2>1 DEF Requests, CreateDraft, RetryDraft, CancelDraft, UpdateDraft,
       RejectDraft, ApplyDraft, WebLease, WebSendFails, WebNoteRead, WebNoteWrite, WebDies
<1>3. CASE Recover
  <2>1. CASE RecoverSend BY <2>1 DEF RecoverSend, Sent, QueueStep
  <2> QED
    BY <1>1, <1>3, <2>1 DEF Recover, RecoverPeriodic, RecoverStartup, RecoverSendFails,
       RecoverLease, Started, Crash
<1>4. CASE \E t \in Threads : Consumer(t)
  BY <1>1, <1>4 DEF Consumer, Take, Claim, Touch, FinishFails, Finish, ReleaseSlot, ThreadDies
<1>5. CASE \/ \E d \in Drafts, a \in Attempts : Drop(d, a)
           \/ \E d \in Drafts : HeartbeatExpires(d) \/ LeaseExpires(d)
           \/ UNCHANGED vars
  BY <1>1, <1>5 DEF Drop, HeartbeatExpires, LeaseExpires, vars
<1> QED BY <1>2, <1>3, <1>4, <1>5 DEF Next

\* A draft never disappears, and its attempts only grow in number.
LEMMA MoveGrows ==
    ASSUME TypeInv, NEW d \in Drafts, Moves(d)
    PROVE  /\ draft[d].status # "absent" => draft'[d].status # "absent"
           /\ issued[d] \in Nat /\ issued'[d] \in {issued[d], issued[d] + 1}
<1>1. issued[d] \in Nat BY DEF TypeInv, RowsTyped
<1> QED
  BY <1>1 DEF Moves, Keeps, Restarts, IsClaimed, Finishes, IsCancelled, IsDecided,
     IsRewound, Reviewable

IssuedNext(d, a) == a \in Nat /\ 1 <= a /\ a <= issued'[d]

LEMMA IssuedStays ==
    ASSUME TypeInv, NEW d \in Drafts, Moves(d), NEW a, Issued(d, a)
    PROVE  IssuedNext(d, a)
  BY MoveGrows DEF Issued, IssuedNext

LEMMA NextSole == TypeInv /\ Sole /\ [Next]_vars => Sole'
<1> SUFFICES ASSUME TypeInv, Sole, [Next]_vars PROVE Sole' OBVIOUS
<1>1. \A d \in Drafts : draft[d].status # "absent" => draft'[d].status # "absent"
  BY NextMoves, MoveGrows
<1>2. \A w \in Web : web[w].pc # "idle" => web[w].d \in Drafts
  BY DEF TypeInv, RequestsTyped
<1>3. CASE UNCHANGED web BY <1>1, <1>2, <1>3 DEF Sole, Publishing
<1>4. ASSUME NEW w \in Web, WebMove(w) PROVE Sole'
  <2>1. \A v \in Web : v # w => web'[v] = web[v] BY <1>4 DEF WebMove
  <2>2. ASSUME NEW v \in Web, web'[v].pc # "idle" PROVE draft'[web'[v].d].status # "absent"
    BY <1>1, <1>2, <1>4, <2>1, <2>2 DEF Sole, WebMove
  <2>3. ASSUME NEW v \in Web, v # w, Publishing(v)', Publishing(w)'
        PROVE  web'[v].d # web'[w].d
    <3>1. web'[v] = web[v] /\ Publishing(v) BY <2>1, <2>3 DEF Publishing
    <3>2. draft[web[v].d].status # "absent" BY <3>1 DEF Sole, Publishing
    <3>3. CASE web'[w].pc = "create" BY <1>4, <3>1, <3>2, <3>3 DEF WebMove, Publishing
    <3>4. CASE web'[w].pc # "create"
      <4>1. Publishing(w) /\ web'[w].d = web[w].d
        BY <1>4, <2>3, <3>4 DEF WebMove, Publishing
      <4> QED BY <2>3, <3>1, <4>1 DEF Sole
    <3> QED BY <3>3, <3>4
  <2>4. ASSUME NEW u \in Web, NEW v \in Web, u # v, u # w, v # w, Publishing(u)', Publishing(v)'
        PROVE  web'[u].d # web'[v].d
    BY <2>1, <2>4 DEF Sole, Publishing
  <2> QED BY <2>2, <2>3, <2>4 DEF Sole
<1> QED BY <1>3, <1>4, NextWebStep DEF WebStep

LEMMA RowsNumbered ==
    ASSUME TypeInv, Numbered, NEW d \in Drafts, Moves(d)
    PROVE  RowNumbered(d)'
<1>1. issued[d] \in Nat /\ draft[d] \in DraftRow BY DEF TypeInv, RowsTyped
<1>2. draft[d].attempt \in Nat /\ draft[d].output \in Nat BY <1>1 DEF DraftRow
<1>3. RowNumbered(d) BY DEF Numbered
<1>4. CASE Keeps(d) BY <1>1, <1>2, <1>3, <1>4 DEF Keeps, RowNumbered, Issued
<1>5. CASE Restarts(d) BY <1>1, <1>5 DEF Restarts, RowNumbered, Issued
<1>6. CASE IsClaimed(d) BY <1>1, <1>2, <1>3, <1>6 DEF IsClaimed, RowNumbered, Issued
<1>7. CASE Finishes(d) BY <1>1, <1>2, <1>3, <1>7 DEF Finishes, RowNumbered, Issued
<1>8. CASE IsCancelled(d) BY <1>1, <1>2, <1>3, <1>8 DEF IsCancelled, RowNumbered, Issued
<1>9. CASE IsDecided(d)
  BY <1>1, <1>2, <1>3, <1>9 DEF IsDecided, RowNumbered, Issued, Reviewable
<1>10. CASE IsRewound(d)
  <2>1. Issued(d, draft'[d].attempt) BY <1>10 DEF IsRewound, Numbered
  <2> QED BY <1>1, <1>2, <1>3, <1>10, <2>1 DEF IsRewound, RowNumbered, Issued
<1> QED BY <1>4, <1>5, <1>6, <1>7, <1>8, <1>9, <1>10 DEF Moves

LEMMA NextNumbered == TypeInv /\ Sole /\ Numbered /\ [Next]_vars => Numbered'
<1> SUFFICES ASSUME TypeInv, Sole, Numbered, [Next]_vars PROVE Numbered' OBVIOUS
<1>1. \A d \in Drafts : Moves(d) BY NextMoves
<1>2. \A d \in Drafts : RowNumbered(d)' BY <1>1, RowsNumbered
<1>3. \A d \in Drafts : \A a : Issued(d, a) => IssuedNext(d, a)
  BY <1>1, IssuedStays
<1>4. ASSUME NEW d \in Drafts, draft[d].status # "absent"
      PROVE  IssuedNext(d, draft[d].attempt)
  BY <1>3, <1>4 DEF Numbered, RowNumbered
<1>5. \A m \in queue' : m \in Drafts \X Nat /\ IssuedNext(m[1], m[2])
  <2>1. \A m \in queue : m \in Drafts \X Nat /\ IssuedNext(m[1], m[2])
    BY <1>3 DEF Numbered
  <2>2. ASSUME NEW d \in Drafts, NEW a, Issued(d, a), queue' = queue \cup {<<d, a>>}
        PROVE  \A m \in queue' : m \in Drafts \X Nat /\ IssuedNext(m[1], m[2])
    <3>1. <<d, a>> \in Drafts \X Nat /\ IssuedNext(d, a) BY <1>3, <2>2 DEF Issued
    <3> QED BY <2>1, <2>2, <3>1
  <2>3. CASE queue' \subseteq queue BY <2>1, <2>3
  <2>4. ASSUME NEW w \in Web, web[w].pc \in {"send", "resend"},
               queue' = queue \cup {<<web[w].d, web[w].a>>}
        PROVE  \A m \in queue' : m \in Drafts \X Nat /\ IssuedNext(m[1], m[2])
    <3>1. web[w].d \in Drafts BY <2>4 DEF TypeInv, RequestsTyped
    <3>2. Issued(web[w].d, web[w].a) BY <2>4 DEF Numbered
    <3> QED BY <2>2, <2>4, <3>1, <3>2
  <2>5. CASE /\ recovery.pick.pc = "send"
             /\ queue' = queue \cup {<<recovery.pick.d, recovery.pick.a>>}
    <3>1. recovery.pick.d \in Drafts BY <2>5 DEF TypeInv, RecoveryTyped
    <3>2. Issued(recovery.pick.d, recovery.pick.a) BY <2>5 DEF Numbered
    <3> QED BY <2>2, <2>5, <3>1, <3>2
  <2> QED BY <2>3, <2>4, <2>5, NextQueueStep DEF QueueStep
<1>6. ASSUME NEW v \in Web
      PROVE  /\ web'[v].pc \in {"send", "resend"} => IssuedNext(web'[v].d, web'[v].a)
             /\ web'[v].pc = "note" => IssuedNext(web'[v].d, web'[v].seen.attempt)
  <2>1. web[v].pc # "idle" => web[v].d \in Drafts /\ draft[web[v].d].status # "absent"
    BY DEF TypeInv, RequestsTyped, Sole
  <2>2. CASE web'[v] = web[v] BY <1>3, <2>1, <2>2 DEF Numbered
  <2>3. CASE WebMove(v) BY <1>4, <2>1, <2>3 DEF WebMove
  <2> QED BY <2>2, <2>3, NextWebStep DEF WebStep, WebMove
<1>7. recovery'.pick.pc = "send" => IssuedNext(recovery'.pick.d, recovery'.pick.a)
  <2>1. recovery.pick.pc # "idle" => recovery.pick.d \in Drafts BY DEF TypeInv, RecoveryTyped
  <2>2. CASE recovery'.pick = recovery.pick BY <1>3, <2>1, <2>2 DEF Numbered
  <2>3. CASE recovery'.pick # recovery.pick BY <1>4, <2>3, NextPickStep DEF PickStep
  <2> QED BY <2>2, <2>3
<1> QED BY <1>2, <1>5, <1>6, <1>7 DEF Numbered, Issued, IssuedNext

-----------------------------------------------------------------------------
(* The account: how a step changes what one draft has had and is due.       *)

OrphanKept(d) == Orphan(d)' => Orphan(d)
NotingKept(d) == Noting(d)' => Noting(d)

PayStep(d) ==
    \/ /\ issued'[d] = issued[d] /\ Used' = Used
       /\ OrphanKept(d) /\ NotingKept(d)
    \/ /\ issued'[d] = issued[d] /\ Used' = Used + 1
       /\ OrphanKept(d) \/ NotingKept(d)
    \/ /\ issued'[d] = issued[d] /\ Used' = Used /\ Noting(d) /\ ~Noting(d)'
    \/ /\ issued[d] = 0 /\ issued'[d] = 1 /\ Used' = Used
       /\ OrphanKept(d) /\ NotingKept(d)
    \/ /\ issued'[d] = issued[d] + 1 /\ Used' = Used + 1
       /\ OrphanKept(d) /\ NotingKept(d)
    \/ /\ issued'[d] = issued[d] + 1 /\ Used' = Used
       /\ Orphan(d) /\ ~Orphan(d)' /\ NotingKept(d)

LEMMA PayStepPays ==
    ASSUME TypeInv, BudgetTyped, Paid, NEW d \in Drafts, PayStep(d)
    PROVE  Due(d)' <= Used'
<1>1. issued[d] \in Nat BY DEF TypeInv, RowsTyped
<1>2. Used \in Nat /\ Due(d) <= Used BY BudgetBounds DEF Paid
<1>3. issued'[d] \in Nat BY <1>1 DEF PayStep
<1>4. Due(d) = issued[d] + Owes(issued[d] = 0) + Owes(Orphan(d)) + Owes(Noting(d))
  BY DEF Due
<1>5. Due(d)' = issued'[d] + Owes(issued'[d] = 0) + Owes(Orphan(d)') + Owes(Noting(d)')
  BY DEF Due, Owes
<1> DEFINE o == Orphan(d)
           o1 == Orphan(d)'
           n == Noting(d)
           n1 == Noting(d)'
<1>6. \/ issued'[d] = issued[d] /\ Used' = Used /\ (o1 => o) /\ (n1 => n)
      \/ issued'[d] = issued[d] /\ Used' = Used + 1 /\ ((o1 => o) \/ (n1 => n))
      \/ issued'[d] = issued[d] /\ Used' = Used /\ n /\ ~n1
      \/ issued[d] = 0 /\ issued'[d] = 1 /\ Used' = Used /\ (o1 => o) /\ (n1 => n)
      \/ issued'[d] = issued[d] + 1 /\ Used' = Used + 1 /\ (o1 => o) /\ (n1 => n)
      \/ issued'[d] = issued[d] + 1 /\ Used' = Used /\ o /\ ~o1 /\ (n1 => n)
  BY DEF PayStep, OrphanKept, NotingKept
<1> HIDE DEF o, o1, n, n1
<1>7. Due(d) = issued[d] + Owes(issued[d] = 0) + Owes(o) + Owes(n) BY <1>4 DEF o, n
<1>8. Due(d)' = issued'[d] + Owes(issued'[d] = 0) + Owes(o1) + Owes(n1)
  BY <1>5 DEF o1, n1
<1> QED BY <1>1, <1>2, <1>3, <1>6, <1>7, <1>8 DEF Owes

\* A draft whose row says the same is no new orphan, unless its consumer ends.
LEMMA SameRow ==
    ASSUME NEW d \in Drafts, recovery'.mode = recovery.mode \/ recovery'.mode # "down",
           draft'[d].status = draft[d].status, draft'[d].attempt = draft[d].attempt,
           draft'[d].job = draft[d].job,
           \A t \in Threads : Executing(t, d) => Executing(t, d)'
    PROVE  OrphanKept(d)
  BY DEF OrphanKept, Orphan

LEMMA NotOrphan ==
    ASSUME NEW d \in Drafts, recovery'.mode # "down",
           draft'[d].status # "running" \/ draft'[d].job = "queued"
    PROVE  ~Orphan(d)'
  BY DEF Orphan

LEMMA QueuedRow ==
    ASSUME NEW d \in Drafts, recovery'.mode = recovery.mode,
           draft'[d].status # "running" \/ draft'[d].job = "queued"
    PROVE  OrphanKept(d)
  BY DEF OrphanKept, Orphan

LEMMA SameExecutions ==
    ASSUME NEW d \in Drafts, UNCHANGED thread, draft'[d].attempt = draft[d].attempt
    PROVE  \A t \in Threads : Executing(t, d) => Executing(t, d)'
  BY DEF Executing

LEMMA SameWeb == ASSUME UNCHANGED web, NEW d \in Drafts PROVE NotingKept(d)
  BY DEF NotingKept, Noting

\* Only a dispatch that fails makes a note due.
LEMMA WebKeepsNotes ==
    ASSUME NEW w \in Web, WebMove(w), web'[w].pc # "failed", NEW d \in Drafts
    PROVE  NotingKept(d)
  BY DEF WebMove, NotingKept, Noting

-----------------------------------------------------------------------------
(* Every step is paid for: requests.                                        *)

LEMMA ReviewPays ==
    TypeInv /\ BudgetTyped
    /\ (\/ \E w \in Web, d \in Drafts : CreateDraft(w, d)
        \/ \E w \in Web, d \in Handled : RetryDraft(w, d)
        \/ \E d \in Handled : CancelDraft(d) \/ UpdateDraft(d) \/ RejectDraft(d)
                              \/ ApplyDraft(d))
    => \A d \in Drafts : PayStep(d)
<1> SUFFICES ASSUME TypeInv, BudgetTyped, NEW e \in Drafts,
                    \/ \E w \in Web : CreateDraft(w, e) \/ RetryDraft(w, e)
                    \/ CancelDraft(e) \/ UpdateDraft(e) \/ RejectDraft(e) \/ ApplyDraft(e),
                    NEW d \in Drafts
             PROVE  PayStep(d)
  BY DEF Handled
<1>1. RowsTyped /\ draft[d] \in DraftRow BY DEF TypeInv, RowsTyped
<1>2. UNCHANGED thread /\ recovery'.mode = recovery.mode
  BY DEF CreateDraft, RetryDraft, CancelDraft, UpdateDraft, RejectDraft, ApplyDraft, consumers
<1>3. ASSUME NEW w \in Web, CreateDraft(w, e) \/ RetryDraft(w, e) PROVE NotingKept(d)
  <2> DEFINE c == [NoRequest EXCEPT !.pc = "create", !.d = e]
             r == [NoRequest EXCEPT !.pc = "retry", !.d = e]
  <2>1. web \in [Web -> RequestType] BY DEF TypeInv, RequestsTyped
  <2>2. c.pc = "create" /\ r.pc = "retry" BY DEF NoRequest
  <2>3. web' = [web EXCEPT ![w] = c] \/ web' = [web EXCEPT ![w] = r]
    BY <1>3 DEF CreateDraft, RetryDraft
  <2> HIDE DEF c, r
  <2>4. /\ \A v \in Web : v # w => web'[v] = web[v]
        /\ web'[w].pc \in {"create", "retry"}
    BY <2>1, <2>2, <2>3
  <2> QED BY <2>4 DEF NotingKept, Noting
<1>4. ASSUME d # e PROVE draft'[d] = draft[d] /\ issued'[d] = issued[d]
  BY <1>1, <1>4 DEF CreateDraft, RetryDraft, CancelDraft, UpdateDraft, RejectDraft,
     ApplyDraft, RowsTyped
<1>5. ASSUME NEW w \in Web, CreateDraft(w, e) PROVE PayStep(d)
  <2>1. Used' = Used BY <1>5, BudgetBounds DEF CreateDraft
  <2>2. CASE d = e
    <3>1. draft'[d].job = "queued" /\ issued[d] = 0 /\ issued'[d] = 1
      BY <1>1, <1>5, <2>2, PreparedType DEF CreateDraft, RowsTyped
    <3>2. OrphanKept(d) BY <1>2, <3>1, QueuedRow
    <3> QED BY <1>3, <1>5, <2>1, <3>1, <3>2 DEF PayStep
  <2>3. CASE d # e
    <3>1. OrphanKept(d) BY <1>2, <1>4, <2>3, SameRow, SameExecutions
    <3> QED BY <1>3, <1>4, <1>5, <2>1, <2>3, <3>1 DEF PayStep
  <2> QED BY <2>2, <2>3
<1>6. ASSUME NEW w \in Web, RetryDraft(w, e) PROVE PayStep(d)
  <2>1. Used' = Used + 1
    <3>1. /\ budget.faults \in 0 .. MaxFaults /\ budget.retries \in 0 .. MaxRetries
          /\ MaxRetries \in Nat /\ MaxFaults \in Nat
      BY BoundsAssumption DEF BudgetTyped
    <3>2. budget' = [budget EXCEPT !.retries = @ + 1] BY <1>6 DEF RetryDraft
    <3>3. budget'.retries = budget.retries + 1 /\ budget'.faults = budget.faults
      BY <3>2 DEF BudgetTyped
    <3> QED BY <3>1, <3>3 DEF Used
  <2>2. CASE d = e
    <3>1. draft'[d].job = "queued" /\ issued'[d] = issued[d] + 1
      BY <1>1, <1>6, <2>2, PreparedType DEF RetryDraft, RowsTyped
    <3>2. OrphanKept(d) BY <1>2, <3>1, QueuedRow
    <3> QED BY <1>3, <1>6, <2>1, <3>1, <3>2 DEF PayStep
  <2>3. CASE d # e BY <1>3, <1>4, <1>6, <2>1, <2>3 DEF PayStep
  <2> QED BY <2>2, <2>3
<1>7. CASE CancelDraft(e) \/ UpdateDraft(e) \/ RejectDraft(e) \/ ApplyDraft(e)
  <2>1. Used' = Used /\ UNCHANGED <<issued, web>>
    BY <1>7, BudgetBounds DEF CancelDraft, UpdateDraft, RejectDraft, ApplyDraft
  <2>2. OrphanKept(d)
    <3>1. CASE d # e BY <1>2, <1>4, <3>1, SameRow, SameExecutions
    <3>2. CASE d = e /\ UpdateDraft(e)
      <4>1. /\ draft'[d].status = draft[d].status /\ draft'[d].job = draft[d].job
            /\ draft'[d].attempt = draft[d].attempt
        BY <1>1, <3>2 DEF UpdateDraft, RowsTyped, DraftRow
      <4> QED BY <1>2, <4>1, SameRow, SameExecutions
    <3>3. CASE d = e /\ ~UpdateDraft(e)
      <4>1. draft'[d].status # "running"
        BY <1>1, <1>7, <3>3 DEF CancelDraft, RejectDraft, ApplyDraft, RowsTyped, DraftRow
      <4> QED BY <1>2, <4>1, QueuedRow
    <3> QED BY <3>1, <3>2, <3>3
  <2> QED BY <2>1, <2>2, SameWeb DEF PayStep
<1> QED BY <1>5, <1>6, <1>7

\* Writing a lease, or nothing, leaves the draft's row as it was to recovery.
LEMMA LeaseRows ==
    ASSUME RowsTyped, NEW e \in Drafts, NEW l,
           draft' = [draft EXCEPT ![e].lease = l] \/ draft' = draft, NEW d \in Drafts
    PROVE  /\ draft'[d].status = draft[d].status /\ draft'[d].job = draft[d].job
           /\ draft'[d].attempt = draft[d].attempt
  BY DEF RowsTyped, DraftRow

LEMMA LeasePays ==
    ASSUME TypeInv, NEW e \in Drafts, NEW l,
           draft' = [draft EXCEPT ![e].lease = l] \/ draft' = draft,
           UNCHANGED thread, recovery'.mode = recovery.mode, NEW d \in Drafts
    PROVE  OrphanKept(d)
<1>1. RowsTyped BY DEF TypeInv
<1>2. /\ draft'[d].status = draft[d].status /\ draft'[d].job = draft[d].job
      /\ draft'[d].attempt = draft[d].attempt
  BY <1>1, LeaseRows
<1> QED BY <1>2, SameRow, SameExecutions

LEMMA PublishPays ==
    TypeInv /\ BudgetTyped
    /\ (\E w \in Web : WebLease(w) \/ WebSend(w) \/ WebSendFails(w) \/ WebNoteRead(w)
                       \/ WebDies(w))
    => \A d \in Drafts : PayStep(d)
<1> SUFFICES ASSUME TypeInv, BudgetTyped, NEW w \in Web,
                    WebLease(w) \/ WebSend(w) \/ WebSendFails(w) \/ WebNoteRead(w)
                    \/ WebDies(w),
                    NEW d \in Drafts
             PROVE  PayStep(d)
  OBVIOUS
<1>1. web[w].d \in Drafts
  BY DEF TypeInv, RequestsTyped, WebLease, WebSend, WebSendFails, WebNoteRead, WebDies
<1>2. UNCHANGED <<issued, thread, recovery>>
  BY DEF WebLease, WebSend, WebSendFails, WebNoteRead, WebDies, consumers
<1>3. \/ draft' = [draft EXCEPT ![web[w].d].lease = w]
      \/ draft' = [draft EXCEPT ![web[w].d].lease = None]
      \/ draft' = draft
  BY DEF WebLease, Leased, WebSend, WebSendFails, ReleaseLease, WebNoteRead, WebDies
<1>4. OrphanKept(d) BY <1>1, <1>2, <1>3, LeasePays
<1>5. CASE WebSendFails(w) \/ WebDies(w)
  <2>1. Used' = Used + 1 BY <1>5, BudgetBounds DEF WebSendFails, WebDies
  <2> QED BY <1>2, <1>4, <2>1 DEF PayStep
<1>6. ASSUME NEW q, web' = [web EXCEPT ![w] = q],
             q.pc \notin {"failed", "note"}
                 \/ (web[w].pc \in {"failed", "note"} /\ q.d = web[w].d)
      PROVE  NotingKept(d)
  <2>1. web'[w] = q /\ \A v \in Web : v # w => web'[v] = web[v]
    BY <1>6 DEF TypeInv, RequestsTyped
  <2> QED BY <1>6, <2>1 DEF NotingKept, Noting
<1>7. CASE WebLease(w) \/ WebSend(w) \/ WebNoteRead(w)
  <2>1. Used' = Used BY <1>7, BudgetBounds DEF WebLease, WebSend, WebNoteRead
  <2>2. web[w] \in RequestType BY DEF TypeInv, RequestsTyped
  <2> DEFINE pc == IF web[w].pc = "create" THEN "send" ELSE "resend"
             leased == [web[w] EXCEPT !.pc = pc, !.a = draft[web[w].d].attempt]
             noted == [web[w] EXCEPT !.pc = "note", !.seen = Meta(web[w].d)]
  <2>3. leased.pc \in {"send", "resend"} BY <2>2 DEF RequestType
  <2>4. noted.d = web[w].d BY <2>2 DEF RequestType
  <2>5. NoRequest.pc = "idle" BY DEF NoRequest
  <2>6. NotingKept(d)
    <3>1. CASE web' = [web EXCEPT ![w] = NoRequest] BY <1>6, <2>5, <3>1
    <3>2. CASE web' = [web EXCEPT ![w] = leased]
      <4> HIDE DEF leased
      <4> QED BY <1>6, <2>3, <3>2
    <3>3. CASE web' = [web EXCEPT ![w] = noted] /\ web[w].pc = "failed"
      BY <1>6, <2>4, <3>3
    <3> QED BY <1>7, <3>1, <3>2, <3>3 DEF WebLease, WebSend, WebNoteRead
  <2> QED BY <1>2, <1>4, <2>1, <2>6 DEF PayStep
<1> QED BY <1>5, <1>7

\* The note that may make an orphan is the one that was due.
LEMMA NotePays ==
    TypeInv /\ BudgetTyped /\ Sole /\ (\E w \in Web : WebNoteWrite(w))
    => \A d \in Drafts : PayStep(d)
<1> SUFFICES ASSUME TypeInv, BudgetTyped, Sole, NEW w \in Web, WebNoteWrite(w),
                    NEW d \in Drafts
             PROVE  PayStep(d)
  OBVIOUS
<1> DEFINE e == web[w].d
<1>1. RowsTyped /\ e \in Drafts /\ web[w].pc = "note"
  BY DEF TypeInv, RequestsTyped, WebNoteWrite
<1>2. UNCHANGED <<issued, thread, recovery>> /\ Used' = Used
  BY BudgetBounds DEF WebNoteWrite, consumers
<1>3. web' = [web EXCEPT ![w] = NoRequest] /\ NoRequest.pc = "idle"
  BY DEF WebNoteWrite, NoRequest
<1>4. web'[w].pc = "idle" /\ \A v \in Web : v # w => web'[v] = web[v]
  BY <1>3 DEF TypeInv, RequestsTyped
<1>5. CASE d = e
  <2>1. Noting(d) BY <1>1, <1>5 DEF Noting
  <2>2. \A v \in Web : v # w /\ web[v].pc \in {"failed", "note"} => web[v].d # e
    BY <1>1 DEF Sole, Publishing
  <2>3. ~Noting(d)' BY <1>4, <1>5, <2>2 DEF Noting
  <2> QED BY <1>2, <2>1, <2>3 DEF PayStep
<1>6. CASE d # e
  <2>1. draft'[d] = draft[d] BY <1>1, <1>6 DEF WebNoteWrite, RowsTyped
  <2>2. OrphanKept(d) BY <1>2, <2>1, SameRow, SameExecutions
  <2>3. NotingKept(d) BY <1>4 DEF NotingKept, Noting
  <2> QED BY <1>2, <2>2, <2>3 DEF PayStep
<1> QED BY <1>5, <1>6

-----------------------------------------------------------------------------
(* Every step is paid for: consumers, the clock and recovery.               *)

\* A thread that does not run executes nothing; moving it changes no execution.
LEMMA OtherExecutions ==
    ASSUME Registered, NEW t \in Threads, thread[t].pc # "run", NEW x,
           thread' = [thread EXCEPT ![t] = x] \/ Goto(t, x),
           NEW d \in Drafts, draft'[d].attempt = draft[d].attempt
    PROVE  \A s \in Threads : Executing(s, d) => Executing(s, d)'
<1> SUFFICES ASSUME NEW s \in Threads, Executing(s, d) PROVE Executing(s, d)'
  OBVIOUS
<1>1. s # t BY DEF Executing
<1>2. thread'[s] = thread[s] BY <1>1 DEF Registered, Goto
<1> QED BY <1>2 DEF Executing

LEMMA ClaimPays ==
    ASSUME TypeInv, NEW t \in Threads, Claim(t), NEW d \in Drafts
    PROVE  OrphanKept(d)
<1> DEFINE e == thread[t].d
           a == thread[t].a
<1>1. RowsTyped /\ Registered BY DEF TypeInv
<1>2. e \in Drafts /\ thread[t] \in ThreadType BY <1>1 DEF Registered, Claim
<1>3. recovery' = recovery BY DEF Claim
<1>4. CASE Current(e, a, "queued") /\ d = e
  <2>1. /\ draft'[d].job = "running" /\ draft'[d].attempt = a
    BY <1>1, <1>2, <1>4 DEF Claim, RowsTyped, DraftRow, Current
  <2>2. thread'[t].pc = "run" /\ thread'[t].d = e /\ thread'[t].a = a
    BY <1>1, <1>2, <1>4 DEF Claim, Goto, Registered, ThreadType
  <2>3. Executing(t, d)' BY <1>4, <2>1, <2>2 DEF Executing
  <2> QED BY <1>3, <2>1, <2>3 DEF OrphanKept, Orphan
<1>5. CASE ~(Current(e, a, "queued") /\ d = e)
  <2>1. draft'[d] = draft[d] BY <1>1, <1>2, <1>5 DEF Claim, RowsTyped
  <2>2. thread[t].pc # "run" /\ (Goto(t, "run") \/ Goto(t, "release")) BY DEF Claim
  <2>3. \A s \in Threads : Executing(s, d) => Executing(s, d)'
    BY <1>1, <2>1, <2>2, OtherExecutions
  <2> QED BY <1>3, <2>1, <2>3, SameRow
<1> QED BY <1>4, <1>5

\* A run that ends leaves an orphan only if its attempt was not the running
\* one any more: then the draft was an orphan already.
LEMMA EndPays ==
    ASSUME TypeInv, NEW t \in Threads, thread[t].pc = "run", Goto(t, "release"),
           UNCHANGED recovery, NEW d \in Drafts,
           \/ /\ draft'[d] = draft[d]
              /\ thread[t].d # d \/ ~Current(d, thread[t].a, "running")
           \/ draft'[d].status # "running"
    PROVE  OrphanKept(d)
<1>1. Registered BY DEF TypeInv
<1>2. CASE draft'[d].status # "running" BY <1>2, QueuedRow
<1>3. CASE draft'[d] = draft[d] /\ (thread[t].d # d \/ ~Current(d, thread[t].a, "running"))
  <2>1. \A s \in Threads : s # t => thread'[s] = thread[s] BY <1>1 DEF Registered, Goto
  <2>2. \A s \in Threads : s # t /\ Executing(s, d) => Executing(s, d)'
    BY <1>3, <2>1 DEF Executing
  <2>3. Executing(t, d) /\ draft[d].status = "running" => draft[d].job # "running"
    BY <1>3 DEF Executing, Current
  <2> QED BY <1>3, <2>2, <2>3 DEF OrphanKept, Orphan
<1> QED BY <1>2, <1>3

LEMMA ConsumerPays ==
    TypeInv /\ BudgetTyped /\ (\E t \in Threads : Consumer(t)) => \A d \in Drafts : PayStep(d)
<1> SUFFICES ASSUME TypeInv, BudgetTyped, NEW t \in Threads, Consumer(t), NEW d \in Drafts
             PROVE  PayStep(d)
  OBVIOUS
<1>1. RowsTyped /\ Registered BY DEF TypeInv
<1> DEFINE e == thread[t].d
           a == thread[t].a
<1>2. UNCHANGED <<issued, web>> /\ UNCHANGED recovery
  BY DEF Consumer, Take, Claim, Touch, FinishFails, Finish, ReleaseSlot, ThreadDies
<1>3. NotingKept(d) BY <1>2, SameWeb
<1>4. CASE FinishFails(t) \/ ThreadDies(t)
  <2>1. Used' = Used + 1 BY <1>4, BudgetBounds DEF FinishFails, ThreadDies
  <2> QED BY <1>2, <1>3, <2>1 DEF PayStep
<1>5. ASSUME UNCHANGED budget, OrphanKept(d) PROVE PayStep(d)
  <2>1. Used' = Used BY <1>5, BudgetBounds
  <2> QED BY <1>2, <1>3, <1>5, <2>1 DEF PayStep
<1>6. CASE Claim(t) BY <1>5, <1>6, ClaimPays DEF Claim
<1>7. ASSUME NEW x, thread' = [thread EXCEPT ![t] = x], UNCHANGED <<draft, budget>>,
             thread[t].pc # "run"
      PROVE  PayStep(d)
  <2>1. \A s \in Threads : Executing(s, d) => Executing(s, d)'
    BY <1>1, <1>7, OtherExecutions
  <2> QED BY <1>2, <1>5, <1>7, <2>1, SameRow
<1>8. CASE ReleaseSlot(t) \/ \E b \in Drafts, c \in Attempts : Take(t, b, c)
  BY <1>7, <1>8 DEF ReleaseSlot, Take
<1>9. CASE Touch(t)
  <2>1. e \in Drafts /\ thread[t].pc = "run" /\ UNCHANGED budget
    BY <1>1, <1>9 DEF Registered, Touch
  <2>2. CASE Current(e, a, "running")
    <3>1. draft' = [draft EXCEPT ![e].fresh = TRUE] /\ UNCHANGED thread
      BY <1>9, <2>2 DEF Touch
    <3>2. /\ draft'[d].status = draft[d].status /\ draft'[d].job = draft[d].job
          /\ draft'[d].attempt = draft[d].attempt
      BY <1>1, <2>1, <3>1 DEF RowsTyped, DraftRow
    <3> QED BY <1>2, <1>5, <2>1, <3>1, <3>2, SameRow, SameExecutions
  <2>3. CASE ~Current(e, a, "running")
    <3>1. Goto(t, "release") /\ UNCHANGED draft BY <1>9, <2>3 DEF Touch
    <3>2. OrphanKept(d) BY <1>2, <2>1, <2>3, <3>1, EndPays
    <3> QED BY <1>5, <2>1, <3>2
  <2> QED BY <2>2, <2>3
<1>10. ASSUME NEW failed \in BOOLEAN, Finish(t, failed) PROVE PayStep(d)
  <2>1. e \in Drafts /\ thread[t].pc = "run" /\ UNCHANGED budget /\ Goto(t, "release")
    BY <1>1, <1>10 DEF Registered, Finish
  <2>2. \/ /\ draft'[d] = draft[d] /\ (e # d \/ ~Current(d, a, "running"))
        \/ draft'[d].status # "running"
    BY <1>1, <1>10, <2>1 DEF Finish, MayFinish, RowsTyped, DraftRow
  <2>3. OrphanKept(d) BY <1>2, <2>1, <2>2, EndPays
  <2> QED BY <1>5, <2>1, <2>3
<1> QED BY <1>4, <1>6, <1>8, <1>9, <1>10 DEF Consumer

\* recover prepares a running draft again only if nobody executes it.
LEMMA ScanPays ==
    ASSUME TypeInv, NEW locked, NEW stale, Scan(locked, stale), UNCHANGED <<web, thread>>,
           \A e \in stale \cap Running : Orphan(e), BudgetTyped, NEW d \in Drafts
    PROVE  PayStep(d)
<1> DEFINE again == PageOf(Running \ locked, cursor, Page) \cap stale
<1>1. again \subseteq Running BY DEF PageOf, Above, Wrapped, First
<1>2. recovery'.mode \in {"up", "starting"} BY DEF Scan
<1>3. (Used' = Used \/ Used' = Used + 1) /\ NotingKept(d)
  BY BudgetBounds, SameWeb DEF Scan, PassesOver
<1>4. CASE d \in again
  <2>1. draft'[d] = Prepared(d) /\ issued'[d] = issued[d] + 1 BY <1>4 DEF Scan
  <2>2. draft'[d].job = "queued" BY <2>1, PreparedType DEF TypeInv
  <2>3. ~Orphan(d)' BY <1>2, <2>2, NotOrphan
  <2>4. Orphan(d) BY <1>1, <1>4
  <2> QED BY <1>3, <2>1, <2>3, <2>4 DEF PayStep, OrphanKept
<1>5. CASE d \notin again
  <2>1. draft'[d] = draft[d] /\ issued'[d] = issued[d] BY <1>5 DEF Scan
  <2>2. OrphanKept(d) BY <1>2, <2>1, SameRow, SameExecutions
  <2> QED BY <1>3, <2>1, <2>2 DEF PayStep
<1> QED BY <1>4, <1>5

LEMMA RecoverPays ==
    TypeInv /\ BudgetTyped /\ Recover => \A d \in Drafts : PayStep(d)
<1> SUFFICES ASSUME TypeInv, BudgetTyped, Recover, NEW d \in Drafts PROVE PayStep(d)
  OBVIOUS
<1>1. CASE RecoverPeriodic
  <2>1. ASSUME NEW e \in Drafts, Stale(e), e \in Running PROVE Orphan(e)
    <3>1. draft[e].status = "running" /\ draft[e].job # "queued" /\ ~IsActive(e)
      BY <2>1 DEF Stale, Running
    <3>2. ASSUME NEW t \in Threads PROVE ~Executing(t, e)
      BY <3>1 DEF TypeInv, Registered, IsActive, Executing
    <3> QED BY <3>1, <3>2 DEF Orphan
  <2> QED BY <1>1, <2>1, ScanPays DEF RecoverPeriodic
<1>2. CASE RecoverStartup
  <2>1. \A e \in Drafts : Orphan(e) BY <1>2 DEF RecoverStartup, Orphan
  <2> QED BY <1>2, <2>1, ScanPays DEF RecoverStartup, consumers
<1>3. CASE Crash
  <2>1. Used' = Used + 1 /\ UNCHANGED <<issued, web>> BY <1>3, BudgetBounds DEF Crash
  <2> QED BY <2>1, SameWeb DEF PayStep
<1>4. recovery \in [mode : {"up", "down", "starting"}, owed : SUBSET Drafts,
                    pick : RequestType]
  BY DEF TypeInv, RecoveryTyped
<1>5. CASE RecoverSend \/ RecoverSendFails \/ \E e \in Drafts : RecoverLease(e)
  <2>1. recovery'.mode = recovery.mode
    BY <1>4, <1>5 DEF RecoverSend, RecoverSendFails, RecoverLease
  <2>2. UNCHANGED <<issued, thread, web>>
    BY <1>5 DEF RecoverSend, RecoverSendFails, RecoverLease, consumers
  <2>3. CASE RecoverSend
    <3>1. draft' = draft /\ Used' = Used BY <2>3, BudgetBounds DEF RecoverSend
    <3>2. OrphanKept(d) BY <2>1, <2>2, <3>1, SameRow, SameExecutions
    <3> QED BY <2>2, <3>1, <3>2, SameWeb DEF PayStep
  <2>4. CASE RecoverSendFails
    <3>1. Used' = Used + 1 BY <2>4, BudgetBounds DEF RecoverSendFails
    <3> QED BY <2>2, <3>1, SameWeb DEF PayStep
  <2>5. ASSUME NEW e \in Drafts, RecoverLease(e) PROVE PayStep(d)
    <3>1. draft' = [draft EXCEPT ![e].lease = "recovery"] \/ draft' = draft
      BY <2>5 DEF RecoverLease, Leased
    <3>2. Used' = Used BY <2>5, BudgetBounds DEF RecoverLease
    <3>3. OrphanKept(d) BY <2>1, <2>2, <3>1, LeasePays
    <3> QED BY <2>2, <3>2, <3>3, SameWeb DEF PayStep
  <2> QED BY <1>5, <2>3, <2>4, <2>5
<1>6. CASE Started
  <2>1. UNCHANGED <<draft, issued, thread, web>> /\ Used' = Used
    BY <1>6, BudgetBounds DEF Started, consumers
  <2>2. recovery'.mode = "up" BY <1>4, <1>6 DEF Started
  <2>3. OrphanKept(d) BY <2>1, <2>2, SameRow, SameExecutions
  <2> QED BY <2>1, <2>3, SameWeb DEF PayStep
<1> QED BY <1>1, <1>2, <1>3, <1>5, <1>6 DEF Recover

LEMMA NextPays ==
    TypeInv /\ BudgetTyped /\ Sole /\ [Next]_vars => \A d \in Drafts : PayStep(d)
<1> SUFFICES ASSUME TypeInv, BudgetTyped, Sole, [Next]_vars
             PROVE  \A d \in Drafts : PayStep(d)
  OBVIOUS
<1>1. CASE Requests BY <1>1, ReviewPays, PublishPays, NotePays DEF Requests
<1>2. CASE \E t \in Threads : Consumer(t) BY <1>2, ConsumerPays
<1>3. CASE Recover BY <1>3, RecoverPays
<1>4. ASSUME UNCHANGED <<issued, thread, web, recovery, budget>>, NEW d \in Drafts,
             draft'[d].status = draft[d].status, draft'[d].job = draft[d].job,
             draft'[d].attempt = draft[d].attempt
      PROVE  PayStep(d)
  <2>1. Used' = Used BY <1>4, BudgetBounds
  <2>2. OrphanKept(d) BY <1>4, SameRow, SameExecutions
  <2> QED BY <1>4, <2>1, <2>2, SameWeb DEF PayStep
<1>5. CASE (\E d \in Drafts, a \in Attempts : Drop(d, a)) \/ UNCHANGED vars
  BY <1>4, <1>5 DEF Drop, consumers, vars
<1>6. ASSUME NEW e \in Drafts, HeartbeatExpires(e) \/ LeaseExpires(e), NEW d \in Drafts
      PROVE  PayStep(d)
  <2>1. /\ draft'[d].status = draft[d].status /\ draft'[d].job = draft[d].job
        /\ draft'[d].attempt = draft[d].attempt
    BY <1>6 DEF TypeInv, RowsTyped, DraftRow, HeartbeatExpires, LeaseExpires
  <2> QED BY <1>4, <1>6, <2>1 DEF HeartbeatExpires, LeaseExpires, consumers
<1> QED BY <1>1, <1>2, <1>3, <1>5, <1>6 DEF Next

LEMMA InitAttemptInv == Init => AttemptInv
<1> SUFFICES ASSUME Init PROVE AttemptInv OBVIOUS
<1>1. MaxFaults \in Nat /\ MaxRetries \in Nat /\ NDrafts \in Nat BY BoundsAssumption
<1>2. BudgetTyped /\ Used \in Nat /\ Used >= 1
  BY <1>1, BoundsAssumption DEF Init, BudgetTyped, Used
<1>3. \A w \in Web : web[w].pc = "idle" BY DEF Init, NoRequest
<1>4. \A d \in Drafts : ~Orphan(d) /\ ~Noting(d)
  BY <1>3 DEF Init, Orphan, Noting, Absent
<1>5. Paid BY <1>2, <1>4 DEF Init, Paid, Due, Owes
<1>6. Sole BY <1>3 DEF Sole, Publishing
<1>7. Numbered BY <1>3 DEF Init, Numbered, RowNumbered, Absent, Issued, NoRequest
<1> QED BY <1>1, <1>2, <1>5, <1>6, <1>7 DEF AttemptInv, Init

LEMMA NextAttemptInv == TypeInv /\ AttemptInv /\ [Next]_vars => AttemptInv'
<1> SUFFICES ASSUME TypeInv, AttemptInv, [Next]_vars PROVE AttemptInv' OBVIOUS
<1>1. BudgetTyped /\ Paid /\ Sole /\ Numbered BY DEF AttemptInv
<1>2. \A d \in Drafts : Due(d)' <= Used' BY <1>1, NextPays, PayStepPays
<1>3. Paid' BY <1>2 DEF Paid
<1> QED BY <1>1, <1>3, BudgetStays, CursorStays, NextSole, NextNumbered DEF AttemptInv

\* Every variable keeps its type.  That says more of the attempts than of the
\* rest: publish_once, recover and retry_draft prepare a new attempt only for
\* a retry or for a fault, so their number is bounded.
THEOREM TypesHold == Spec => []TypeOK
<1>1. TypeInv /\ AttemptInv /\ Counted => TypeOK
  <2> SUFFICES ASSUME TypeInv, AttemptInv, Counted PROVE TypeOK OBVIOUS
  <2> DEFINE Bound == 1 + MaxRetries + MaxFaults
  <2>1. Bound \in Nat BY BoundsAssumption
  <2>2. ASSUME NEW d \in Drafts PROVE issued[d] \in 0 .. Bound
    <3>1. Due(d) <= Used /\ Used <= Bound /\ Used \in Nat
      BY BudgetBounds DEF AttemptInv, Paid
    <3>2. issued[d] \in Nat BY DEF TypeInv, RowsTyped
    <3>3. issued[d] <= Due(d) /\ Due(d) \in Nat BY <3>2 DEF Due, Owes
    <3> QED BY <2>1, <3>1, <3>2, <3>3
  <2>3. ASSUME NEW d \in Drafts, NEW a, Issued(d, a) PROVE a \in Attempts
    BY <2>1, <2>2, <2>3 DEF Issued, Attempts
  <2>4. draft \in [Drafts -> Row]
    <3> SUFFICES ASSUME NEW d \in Drafts PROVE draft[d] \in Row
      BY DEF TypeInv, RowsTyped
    <3>1. draft[d] \in DraftRow BY DEF TypeInv, RowsTyped
    <3>2. RowNumbered(d) BY DEF AttemptInv, Numbered
    <3>3. draft[d].attempt \in 0 .. Bound /\ draft[d].output \in 0 .. Bound
      BY <2>1, <2>2, <3>1, <3>2 DEF RowNumbered, DraftRow
    <3> QED BY <3>1, <3>3 DEF DraftRow, Row, Jobs, Leases
  <2>5. issued \in [Drafts -> 0 .. Bound] BY <2>2 DEF TypeInv, RowsTyped
  <2>6. queue \subseteq Drafts \X Attempts
    <3> SUFFICES ASSUME NEW m \in queue PROVE m \in Drafts \X Attempts OBVIOUS
    <3>1. m \in Drafts \X Nat /\ Issued(m[1], m[2]) BY DEF AttemptInv, Numbered
    <3> QED BY <2>3, <3>1
  <2>7. \A t \in Threads :
            /\ thread[t].pc \in {"idle", "claim", "run", "release"}
            /\ thread[t].pc # "idle" => thread[t].d \in Drafts /\ thread[t].a \in Attempts
            /\ owners[t] \in {None, Unclaimed} \cup (Drafts \X Attempts)
    BY DEF TypeInv, Registered, ThreadType
  <2>8. free \in 0 .. Slots /\ ghosts \in 0 .. Slots
    BY BusyFinite, BoundsAssumption DEF Counted
  <2>9. \A w \in Web :
            /\ web[w].pc \in {"idle", "create", "retry", "send", "resend", "failed", "note"}
            /\ web[w].pc = "note" => web[w].seen.attempt \in Attempts
    <3> SUFFICES ASSUME NEW w \in Web
                 PROVE  /\ web[w].pc \in {"idle", "create", "retry", "send", "resend",
                                          "failed", "note"}
                        /\ web[w].pc = "note" => web[w].seen.attempt \in Attempts
      OBVIOUS
    <3>1. web[w] \in RequestType /\ (web[w].pc # "idle" => web[w].d \in Drafts)
      BY DEF TypeInv, RequestsTyped
    <3>2. web[w].pc = "note" => Issued(web[w].d, web[w].seen.attempt)
      BY DEF AttemptInv, Numbered
    <3> QED BY <2>3, <3>1, <3>2 DEF RequestType
  <2>10. recovery.mode \in {"up", "down", "starting"} /\ recovery.owed \subseteq Drafts
    BY DEF TypeInv, RecoveryTyped
  <2>11. cursor \in 0 .. NDrafts BY DEF AttemptInv
  <2> HIDE DEF Bound
  <2> QED
    BY <2>4, <2>5, <2>6, <2>7, <2>8, <2>9, <2>10, <2>11 DEF TypeOK, Bound
<1> QED
  BY <1>1, InitAttemptInv, NextAttemptInv, InitCounted, NextCounted, TypeInvHolds, PTL
     DEF Spec
=============================================================================
