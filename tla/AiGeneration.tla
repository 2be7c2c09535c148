---------------------------- MODULE AiGeneration ----------------------------
(***************************************************************************)
(* AI generation drafts: one row per draft, generated by a Huey task,      *)
(* reviewed by a human, applied to the matrix.                             *)
(*                                                                         *)
(* app/services/ai/jobs.py fences attempts with the row lock: an attempt   *)
(* is published at least once (publish_once), claimed by one consumer,     *)
(* touched while it runs, finished if it is still current, and replaced by *)
(* recovery when its heartbeat is stale and no live thread owns it.        *)
(* app/routes/lanmatrix/ai.py creates, cancels, retries, edits, rejects    *)
(* and approves; app/services/ai/apply.py applies.                         *)
(*                                                                         *)
(* A transaction that holds the row lock is one action.  Clock readings    *)
(* are two flags per draft: the heartbeat is younger than LEASE_SECONDS    *)
(* (fresh), and a publication lease is running (lease names its holder).   *)
(***************************************************************************)
EXTENDS Integers, FiniteSets

CONSTANTS
    NDrafts,    \* bound on the drafts
    Threads,    \* Huey worker threads
    Slots,      \* AI_CONCURRENCY
    Page,       \* drafts per recovery scan, 200 in the code
    Web,        \* web requests that publish, each reusable
    MaxFaults,  \* bound on crashes, deaths, lost and failed publications
    MaxRetries, \* bound on retries
    Scopes,     \* bounds: what is used up of the two at the start, the drafts
                \* there may be, those of them people handle, and the threads
    None

Drafts == 1 .. NDrafts

ASSUME BoundsAssumption ==
    /\ NDrafts \in Nat \ {0} /\ Slots \in Nat \ {0} /\ Page \in Nat \ {0}
    /\ MaxFaults \in Nat /\ MaxRetries \in Nat
    /\ Scopes \subseteq [faults : 0 .. MaxFaults, retries : 0 .. MaxRetries,
                         drafts : SUBSET Drafts, handled : SUBSET Drafts,
                         threads : SUBSET Threads]
    /\ IsFiniteSet(Threads) /\ None \notin Web \cup Threads
    /\ "recovery" \notin Web /\ None # "recovery"

Attempts == 1 .. (1 + MaxRetries + MaxFaults)

VARIABLES
    draft,     \* the rows of lm_ai_drafts
    issued,    \* attempts prepared so far, per draft: a new uuid each time
    queue,     \* messages <draft, attempt> in Huey's queue; copies are one
    thread,    \* the consumer threads
    free,      \* permits of _slots
    owners,    \* _owners: what each thread's slot is registered for
    ghosts,    \* permits still registered for threads that are dead
    web,       \* requests between their commit and their answer
    recovery,  \* the worker process and the publications recovery still owes
    cursor,    \* ai_recovery_cursor
    claims,    \* history: claims of each draft's latest attempt
    rewound,   \* history: drafts whose job a stale note overwrote
    budget     \* one of Scopes, with the faults and retries used since

vars == <<draft, issued, queue, thread, free, owners, ghosts, web, recovery, cursor,
          claims, rewound, budget>>

\* job: the state of meta.job; output: the attempt that produced output_json, 0 when empty.
Absent == [status |-> "absent", attempt |-> 0, job |-> None, fresh |-> FALSE,
           lease |-> None, output |-> 0]

Unclaimed == <<0, 0>>    \* a slot taken, no identity yet

ASSUME IdentityAssumption == None \notin {Unclaimed} \cup (Drafts \X Attempts)

NoThread == [pc |-> "idle", d |-> 0, a |-> 0]
NoRequest == [pc |-> "idle", d |-> 0, a |-> 0, seen |-> None]

Init ==
    /\ draft = [d \in Drafts |-> Absent]
    /\ issued = [d \in Drafts |-> 0]
    /\ queue = {}
    /\ thread = [t \in Threads |-> NoThread]
    /\ free = Slots
    /\ owners = [t \in Threads |-> None]
    /\ ghosts = 0
    /\ web = [w \in Web |-> NoRequest]
    /\ recovery = [mode |-> "up", owed |-> {}, pick |-> NoRequest]
    /\ cursor = 0
    /\ claims = [d \in Drafts |-> 0]
    /\ rewound = {}
    /\ budget \in Scopes

Fails == budget.faults < MaxFaults /\ budget' = [budget EXCEPT !.faults = @ + 1]

\* People cancel, retry and review these drafts.
Handled == Drafts \cap budget.handled

consumers == <<thread, free, owners, ghosts>>
history == <<claims, rewound>>

Goto(t, pc) == thread' = [thread EXCEPT ![t].pc = pc]

-----------------------------------------------------------------------------
(* Attempts.                                                               *)

Prepared(d) ==
    [draft[d] EXCEPT !.status = "running", !.attempt = issued[d] + 1,
                     !.job = "queued", !.fresh = TRUE, !.lease = None,
                     !.output = 0]

\* Mutant: claim trusts the check made before the slot was taken.
CurrentLoose(d, a, state) ==
    /\ draft[d].status = "running" /\ draft[d].attempt = a
    /\ state = "running" => draft[d].job = state

\* Mutant: the attempt is not compared.
CurrentAny(d, a, state) == draft[d].status = "running" /\ draft[d].job = state

\* The draft still runs this attempt, in this state.
Current(d, a, state) ==
    draft[d].status = "running" /\ draft[d].attempt = a /\ draft[d].job = state

LeaseDue(d) == draft[d].lease = None

\* A heartbeat, or a publication lease, is LEASE_SECONDS old.  A heartbeat
\* is only read of a running draft whose attempt is not queued (a stale note
\* may leave any other state there), a lease only while it is queued:
\* elsewhere the model keeps one value of each.
HeartbeatExpires(d) ==
    /\ draft[d].status = "running" /\ draft[d].job # "queued" /\ draft[d].fresh
    /\ draft' = [draft EXCEPT ![d].fresh = FALSE]
    /\ UNCHANGED <<issued, queue, consumers, web, recovery, cursor,
                   history, budget>>

LeaseExpires(d) ==
    /\ draft[d].lease # None
    /\ draft' = [draft EXCEPT ![d].lease = None]
    /\ UNCHANGED <<issued, queue, consumers, web, recovery, cursor,
                   history, budget>>

-----------------------------------------------------------------------------
(* The requests of the web process.                                        *)

\* The draft is committed; publish_ai_generation(draft.id) is next.
CreateDraft(w, d) ==
    /\ web[w].pc = "idle" /\ draft[d].status = "absent" /\ d \in budget.drafts
    /\ draft' = [draft EXCEPT ![d] = Prepared(d)]
    /\ issued' = [issued EXCEPT ![d] = 1]
    /\ web' = [web EXCEPT ![w] = [NoRequest EXCEPT !.pc = "create", !.d = d]]
    /\ UNCHANGED <<queue, consumers, recovery, cursor, history, budget>>

RetryDraft(w, d) ==
    /\ web[w].pc = "idle"
    /\ draft[d].status \in {"error", "cancelled"}
    /\ budget.retries < MaxRetries
    /\ budget' = [budget EXCEPT !.retries = @ + 1]
    /\ draft' = [draft EXCEPT ![d] = Prepared(d)]
    /\ issued' = [issued EXCEPT ![d] = @ + 1]
    /\ claims' = [claims EXCEPT ![d] = 0]
    /\ web' = [web EXCEPT ![w] = [NoRequest EXCEPT !.pc = "retry", !.d = d]]
    /\ UNCHANGED <<queue, consumers, recovery, cursor, rewound>>

CancelDraft(d) ==
    /\ draft[d].status = "running"
    /\ draft' = [draft EXCEPT ![d].status = "cancelled", ![d].job = "cancelled",
                              ![d].fresh = TRUE, ![d].lease = None]
    /\ UNCHANGED <<issued, queue, consumers, web, recovery, cursor,
                   history, budget>>

Reviewable(d) == draft[d].status \in {"pending", "error"}

\* A human replaces the output; it then belongs to the attempt shown.
UpdateDraft(d) ==
    /\ Reviewable(d)
    /\ draft' = [draft EXCEPT ![d].output = draft[d].attempt]
    /\ UNCHANGED <<issued, queue, consumers, web, recovery, cursor,
                   history, budget>>

RejectDraft(d) ==
    /\ Reviewable(d)
    /\ draft' = [draft EXCEPT ![d].status = "rejected"]
    /\ UNCHANGED <<issued, queue, consumers, web, recovery, cursor,
                   history, budget>>

\* apply_draft validates the output first: an empty one is refused.  What it
\* writes to the matrix, in the same transaction, is left out.
ApplyDraft(d) ==
    /\ Reviewable(d)
    /\ draft[d].output # 0
    /\ draft' = [draft EXCEPT ![d].status = "approved"]
    /\ UNCHANGED <<issued, queue, consumers, web, recovery, cursor, history,
                   budget>>

-----------------------------------------------------------------------------
(* publish_once: a lease is committed, then the message is dispatched.     *)

MayLease(d) ==
    draft[d].status = "running" /\ draft[d].job = "queued" /\ LeaseDue(d)

Leased(d, holder) == draft' = [draft EXCEPT ![d].lease = holder]

Sent(d, a) == queue' = queue \cup {<<d, a>>}

\* A failed dispatch gives back its own lease, unless another one or another
\* attempt replaced it.
ReleaseLease(d, a, holder) ==
    draft' = IF draft[d].attempt = a /\ draft[d].lease = holder
             THEN [draft EXCEPT ![d].lease = None]
             ELSE draft

WebLease(w) ==
    /\ web[w].pc \in {"create", "retry"}
    /\ LET d == web[w].d IN
       IF MayLease(d)
       THEN /\ Leased(d, w)
            /\ web' = [web EXCEPT ![w].pc = IF @ = "create" THEN "send" ELSE "resend",
                                  ![w].a = draft[d].attempt]
       ELSE /\ web' = [web EXCEPT ![w] = NoRequest]
            /\ UNCHANGED draft
    /\ UNCHANGED <<issued, queue, consumers, recovery, cursor, history, budget>>

WebSend(w) ==
    /\ web[w].pc \in {"send", "resend"}
    /\ Sent(web[w].d, web[w].a)
    /\ web' = [web EXCEPT ![w] = NoRequest]
    /\ UNCHANGED <<draft, issued, consumers, recovery, cursor, history, budget>>

\* The dispatch raises.  A retry swallows it; a creation goes on to note it.
WebSendFails(w) ==
    /\ web[w].pc \in {"send", "resend"}
    /\ Fails
    /\ ReleaseLease(web[w].d, web[w].a, w)
    /\ web' = IF web[w].pc = "send" THEN [web EXCEPT ![w].pc = "failed"]
              ELSE [web EXCEPT ![w] = NoRequest]
    /\ UNCHANGED <<issued, queue, consumers, recovery, cursor, history>>

Meta(d) == [attempt |-> draft[d].attempt, job |-> draft[d].job,
            fresh |-> draft[d].fresh, lease |-> draft[d].lease]

\* create_draft then reads the row again, without its lock ...
WebNoteRead(w) ==
    /\ web[w].pc = "failed"
    /\ web' = [web EXCEPT ![w].pc = "note", ![w].seen = Meta(web[w].d)]
    /\ UNCHANGED <<draft, issued, queue, consumers, recovery, cursor,
                   history, budget>>

\* ... and writes meta_json back as it was read, with publication_error.
WebNoteWrite(w) ==
    /\ web[w].pc = "note"
    /\ LET d == web[w].d
           seen == web[w].seen
           noted == [draft[d] EXCEPT !.attempt = seen.attempt, !.job = seen.job,
                                     !.fresh = seen.fresh, !.lease = seen.lease]
       IN /\ draft' = [draft EXCEPT ![d] = noted]
          /\ rewound' = IF noted.attempt # draft[d].attempt \/ noted.job # draft[d].job
                        THEN rewound \cup {d} ELSE rewound
    /\ web' = [web EXCEPT ![w] = NoRequest]
    /\ UNCHANGED <<issued, queue, consumers, recovery, cursor, claims, budget>>

\* The web process dies in the middle of a request.
WebDies(w) ==
    /\ web[w].pc # "idle"
    /\ Fails
    /\ web' = [web EXCEPT ![w] = NoRequest]
    /\ UNCHANGED <<draft, issued, queue, consumers, recovery, cursor,
                   history>>

-----------------------------------------------------------------------------
(* run_ai_generation, on a consumer thread.                                *)

\* Mutant: reaping forgets the owners without releasing their permits.
PermitsLost == free

\* acquire_slot gives back the permits of dead threads, then takes one.
Permits == free + ghosts

\* A message is taken, the row read without its lock and a permit acquired.
\* Without a permit the message is scheduled again: nothing changes.
Take(t, d, a) ==
    /\ recovery.mode = "up" /\ thread[t].pc = "idle" /\ t \in budget.threads
    /\ <<d, a>> \in queue
    /\ Current(d, a, "queued") /\ Permits > 0
    /\ queue' = queue \ {<<d, a>>}
    /\ free' = Permits - 1 /\ ghosts' = 0
    /\ owners' = [owners EXCEPT ![t] = Unclaimed]
    /\ thread' = [thread EXCEPT ![t] = [pc |-> "claim", d |-> d, a |-> a]]
    /\ UNCHANGED <<draft, issued, web, recovery, cursor, history, budget>>

\* The message of an attempt that is over, or claimed already, is dropped.
Drop(d, a) ==
    /\ recovery.mode = "up"
    /\ <<d, a>> \in queue /\ ~Current(d, a, "queued")
    /\ queue' = queue \ {<<d, a>>}
    /\ UNCHANGED <<draft, issued, consumers, web, recovery, cursor, history, budget>>

\* The claim commits, and registers the identity, under _ownership_lock.
Claim(t) ==
    /\ thread[t].pc = "claim"
    /\ LET d == thread[t].d
           a == thread[t].a
       IN IF Current(d, a, "queued")
          THEN /\ draft' = [draft EXCEPT ![d].job = "running", ![d].fresh = TRUE,
                                         ![d].lease = None]
               /\ owners' = [owners EXCEPT ![t] = <<d, a>>]
               /\ claims' = [claims EXCEPT ![d] = @ + 1]
               /\ Goto(t, "run")
          ELSE /\ Goto(t, "release")
               /\ UNCHANGED <<draft, owners, claims>>
    /\ UNCHANGED <<issued, queue, free, ghosts, web, recovery, cursor, rewound, budget>>

\* touch: progress, or the checkpoint of a provider call; AttemptStopped when
\* the attempt was cancelled or superseded.
Touch(t) ==
    /\ thread[t].pc = "run"
    /\ LET d == thread[t].d IN
       IF Current(d, thread[t].a, "running")
       THEN /\ draft' = [draft EXCEPT ![d].fresh = TRUE]
            /\ UNCHANGED thread
       ELSE /\ Goto(t, "release")
            /\ UNCHANGED draft
    /\ UNCHANGED <<issued, queue, free, owners, ghosts, web, recovery, cursor,
                   history, budget>>

\* Mutant: only the attempt is compared.
MayFinishAttempt(d, a) == draft[d].attempt = a

MayFinish(d, a) == Current(d, a, "running")

\* finish: the result, or the error the scenario raised, of an attempt that
\* is still current; otherwise nothing.
Finish(t, failed) ==
    /\ thread[t].pc = "run"
    /\ Goto(t, "release")
    /\ LET d == thread[t].d
           a == thread[t].a
           done == IF failed
                   THEN [draft[d] EXCEPT !.status = "error", !.job = "failed",
                                         !.fresh = TRUE]
                   ELSE [draft[d] EXCEPT !.status = "pending", !.job = "complete",
                                         !.fresh = TRUE, !.output = a]
       IN draft' = IF MayFinish(d, a) THEN [draft EXCEPT ![d] = done]
                   ELSE draft
    /\ UNCHANGED <<issued, queue, free, owners, ghosts, web, recovery, cursor,
                   history, budget>>

\* finish itself raises: the row stays as it is.
FinishFails(t) ==
    /\ thread[t].pc = "run"
    /\ Fails
    /\ Goto(t, "release")
    /\ UNCHANGED <<draft, issued, queue, free, owners, ghosts, web, recovery,
                   cursor, history>>

\* Mutant: both the task and its finally release.
ReleasedTwice == free + 2

Released == free + 1

ReleaseSlot(t) ==
    /\ thread[t].pc = "release"
    /\ thread' = [thread EXCEPT ![t] = NoThread]
    /\ owners' = [owners EXCEPT ![t] = None]
    /\ free' = Released
    /\ UNCHANGED <<draft, issued, queue, ghosts, web, recovery, cursor, history, budget>>

\* The thread dies without running its finally; Huey starts another.
ThreadDies(t) ==
    /\ thread[t].pc # "idle"
    /\ Fails
    /\ ghosts' = IF owners[t] = None THEN ghosts ELSE ghosts + 1
    /\ thread' = [thread EXCEPT ![t] = NoThread]
    /\ owners' = [owners EXCEPT ![t] = None]
    /\ UNCHANGED <<draft, issued, queue, free, web, recovery, cursor, history>>

-----------------------------------------------------------------------------
(* recover: a circular scan of the running drafts, Page at a time.         *)

Running == {d \in Drafts : draft[d].status = "running"}

First(S, n) == {d \in S : Cardinality({e \in S : e < d}) < n}

\* The rows after the cursor, then those up to it while the page has room.
Above(S, c, n) == First({d \in S : d > c}, n)
Wrapped(S, c, n) ==
    IF c = 0 THEN {} ELSE First({d \in S : d <= c}, n - Cardinality(Above(S, c, n)))
PageOf(S, c, n) == Above(S, c, n) \cup Wrapped(S, c, n)

Latest(S) == CHOOSE d \in S : \A e \in S : e <= d

\* rows[-1].id: the last row of the page, wrapped or not.
NextCursor(S, c, n) ==
    IF Wrapped(S, c, n) # {} THEN Latest(Wrapped(S, c, n))
    ELSE IF Above(S, c, n) # {} THEN Latest(Above(S, c, n)) ELSE 0

\* A live thread of this process is registered for the attempt.
IsActive(d) == \E t \in Threads : owners[t] = <<d, draft[d].attempt>>

\* Mutant: a stale heartbeat alone makes an attempt stale.
StaleByHeartbeat(d) == draft[d].job # "queued" /\ ~draft[d].fresh

\* Mutant: the periodic scan only publishes.
StaleNever(d) == FALSE

Stale(d) == draft[d].job # "queued" /\ ~draft[d].fresh /\ ~IsActive(d)

\* The rows another transaction holds for a moment are passed over (SKIP
\* LOCKED), and the cursor with them.  Bound: how often counts as a fault.
PassesOver(locked) == IF locked = {} THEN UNCHANGED budget ELSE Fails

\* The transaction of recover: drafts to prepare again, and to publish.
Scan(locked, stale) ==
    LET rows == PageOf(Running \ locked, cursor, Page)
        due == {d \in rows \ stale : draft[d].job = "queued" /\ LeaseDue(d)}
    IN /\ draft' = [d \in Drafts |-> IF d \in rows \cap stale THEN Prepared(d)
                                     ELSE draft[d]]
       /\ issued' = [d \in Drafts |-> IF d \in rows \cap stale THEN issued[d] + 1
                                      ELSE issued[d]]
       /\ claims' = [d \in Drafts |-> IF d \in rows \cap stale THEN 0 ELSE claims[d]]
       /\ recovery' = [mode |-> IF recovery.mode = "up" THEN "up" ELSE "starting",
                       owed |-> (rows \cap stale) \cup due, pick |-> NoRequest]
       /\ cursor' = NextCursor(Running \ locked, cursor, Page)
       /\ PassesOver(locked)

Idle == recovery.owed = {} /\ recovery.pick.pc = "idle"

\* Every minute, on the worker.  _reap_owners first.
RecoverPeriodic ==
    /\ recovery.mode = "up" /\ Idle
    /\ free' = Permits
    /\ ghosts' = 0
    /\ \E locked \in SUBSET Running : Scan(locked, {d \in Drafts : Stale(d)})
    /\ UNCHANGED <<queue, thread, owners, web, rewound>>

\* Before the consumers start: nothing can be active.
RecoverStartup ==
    /\ recovery.mode = "down"
    /\ \E locked \in SUBSET Running : Scan(locked, Drafts)
    /\ UNCHANGED <<queue, consumers, web, rewound>>

\* publish_once, for each draft owed.
RecoverLease(d) ==
    /\ d \in recovery.owed /\ recovery.pick.pc = "idle"
    /\ IF MayLease(d)
       THEN /\ Leased(d, "recovery")
            /\ recovery' = [recovery EXCEPT !.owed = @ \ {d},
                    !.pick = [NoRequest EXCEPT !.pc = "send", !.d = d,
                                               !.a = draft[d].attempt]]
       ELSE /\ recovery' = [recovery EXCEPT !.owed = @ \ {d}]
            /\ UNCHANGED draft
    /\ UNCHANGED <<issued, queue, consumers, web, cursor, history, budget>>

RecoverSend ==
    /\ recovery.pick.pc = "send"
    /\ Sent(recovery.pick.d, recovery.pick.a)
    /\ recovery' = [recovery EXCEPT !.pick = NoRequest]
    /\ UNCHANGED <<draft, issued, consumers, web, cursor, history, budget>>

RecoverSendFails ==
    /\ recovery.pick.pc = "send"
    /\ Fails
    /\ ReleaseLease(recovery.pick.d, recovery.pick.a, "recovery")
    /\ recovery' = [recovery EXCEPT !.pick = NoRequest]
    /\ UNCHANGED <<issued, queue, consumers, web, cursor, history>>

\* main goes on to start the consumers.
Started ==
    /\ recovery.mode = "starting" /\ Idle
    /\ recovery' = [recovery EXCEPT !.mode = "up"]
    /\ UNCHANGED <<draft, issued, queue, consumers, web, cursor, history,
                   budget>>

\* The worker process dies, with the messages its threads had taken.
Crash ==
    /\ recovery.mode # "down"
    /\ Fails
    /\ recovery' = [mode |-> "down", owed |-> {}, pick |-> NoRequest]
    /\ thread' = [t \in Threads |-> NoThread]
    /\ owners' = [t \in Threads |-> None]
    /\ free' = Slots /\ ghosts' = 0
    /\ UNCHANGED <<draft, issued, queue, web, cursor, history>>

-----------------------------------------------------------------------------
Requests ==
    \/ \E w \in Web, d \in Drafts : CreateDraft(w, d)
    \/ \E w \in Web, d \in Handled : RetryDraft(w, d)
    \/ \E d \in Handled : \/ CancelDraft(d) \/ UpdateDraft(d) \/ RejectDraft(d)
                          \/ ApplyDraft(d)
    \/ \E w \in Web : \/ WebLease(w) \/ WebSend(w) \/ WebSendFails(w)
                      \/ WebNoteRead(w) \/ WebNoteWrite(w) \/ WebDies(w)

Consumer(t) ==
    \/ \E d \in Drafts, a \in Attempts : Take(t, d, a)
    \/ Claim(t) \/ Touch(t) \/ FinishFails(t)
    \/ \E failed \in BOOLEAN : Finish(t, failed)
    \/ ReleaseSlot(t) \/ ThreadDies(t)

Recover ==
    \/ RecoverPeriodic \/ RecoverStartup \/ RecoverSend \/ RecoverSendFails
    \/ \E d \in Drafts : RecoverLease(d)
    \/ Started \/ Crash

Next ==
    \/ Requests
    \/ \E t \in Threads : Consumer(t)
    \/ Recover
    \/ \E d \in Drafts, a \in Attempts : Drop(d, a)
    \/ \E d \in Drafts : HeartbeatExpires(d) \/ LeaseExpires(d)

Spec == Init /\ [][Next]_vars

\* The consumers, the minute job, the requests that have begun and the clock
\* go on; a provider call ends (it has a timeout).  Nobody has to review.
Fairness ==
    /\ \A t \in Threads :
          /\ WF_vars(Claim(t))
          /\ WF_vars(\E failed \in BOOLEAN : Finish(t, failed))
          /\ WF_vars(ReleaseSlot(t))
    /\ \A d \in Drafts :
          /\ SF_vars(\E t \in Threads, a \in Attempts : Take(t, d, a))
          /\ WF_vars(HeartbeatExpires(d)) /\ WF_vars(LeaseExpires(d))
          /\ WF_vars(RecoverLease(d))
    /\ WF_vars(RecoverPeriodic) /\ WF_vars(RecoverStartup)
    /\ WF_vars(RecoverSend) /\ WF_vars(Started)

FairSpec == Spec /\ Fairness

-----------------------------------------------------------------------------
(* Properties.                                                             *)

Statuses == {"absent", "running", "pending", "approved", "rejected", "error",
             "cancelled"}

Row == [status : Statuses, attempt : 0 .. 1 + MaxRetries + MaxFaults,
        job : {None, "queued", "running", "complete", "failed", "cancelled"},
        fresh : BOOLEAN, lease : {None, "recovery"} \cup Web,
        output : 0 .. 1 + MaxRetries + MaxFaults]

\* Every variable has its type.
TypeOK ==
    /\ draft \in [Drafts -> Row]
    /\ issued \in [Drafts -> 0 .. 1 + MaxRetries + MaxFaults]
    /\ queue \subseteq Drafts \X Attempts
    /\ \A t \in Threads :
          /\ thread[t].pc \in {"idle", "claim", "run", "release"}
          /\ thread[t].pc # "idle" => thread[t].d \in Drafts /\ thread[t].a \in Attempts
          /\ owners[t] \in {None, Unclaimed} \cup (Drafts \X Attempts)
    /\ free \in 0 .. Slots /\ ghosts \in 0 .. Slots
    /\ \A w \in Web :
          /\ web[w].pc \in {"idle", "create", "retry", "send", "resend", "failed", "note"}
          /\ web[w].pc = "note" => web[w].seen.attempt \in Attempts
    /\ recovery.mode \in {"up", "down", "starting"}
    /\ recovery.owed \subseteq Drafts
    /\ cursor \in 0 .. NDrafts

\* The permits are never lost and never multiplied, though threads may die
\* with one and the process may restart: those free, those of threads between
\* acquire_slot and release_slot, and those awaiting _reap_owners make Slots.
SlotsAccounted ==
    free + ghosts + Cardinality({t \in Threads :
                        thread[t].pc \in {"claim", "run", "release"}}) = Slots

\* Claim fences execution: however often an attempt is published, by the
\* request, by its retry and by recovery, and however often its message is
\* consumed, one consumer claims it.  A stale note of a failed publication is
\* the exception (see ClaimedOnce).
ClaimFences ==
    \A d \in Drafts \ rewound : claims[d] <= 1

\* The same, as publish_once says it, for every draft.
ClaimedOnce == \A d \in Drafts : claims[d] <= 1

\* A finished draft shows the result of its last attempt: a consumer that was
\* cancelled, retried or superseded while the provider answered leaves no
\* output behind.
ResultIsCurrent ==
    \A d \in Drafts \ rewound :
        draft[d].status = "pending" =>
            draft[d].output = issued[d] /\ claims[d] = 1

\* A decision is never undone by generation: a cancelled draft changes only
\* into a retried one with a new attempt, and an approved or rejected draft
\* not at all, whatever late consumers, notes and scans do.
DecisionStands ==
    [][\A d \in Drafts :
          /\ draft[d].status \in {"approved", "rejected"} =>
                draft'[d].status = draft[d].status
          /\ draft[d].status = "cancelled" /\ draft'[d].status # "cancelled" =>
                draft'[d].status = "running" /\ issued'[d] > issued[d]]_vars

\* The periodic scan preserves an attempt a live thread executes, however old
\* its heartbeat has grown during a slow provider call.
Executing(t, d) == thread[t].pc = "run" /\ thread[t].d = d /\ thread[t].a = draft[d].attempt
LiveAttemptKept ==
    [][\A d \in Drafts \ rewound', t \in Threads :
          Executing(t, d) /\ draft[d].status = "running" =>
              draft'[d].attempt = draft[d].attempt]_vars

\* A generation ends: lost messages, dead threads, restarts of the worker and
\* requests that never published do not leave a draft running for ever, even
\* when a scan covers fewer drafts than are running.
GenerationEnds ==
    \A d \in Drafts : draft[d].status = "running" ~> draft[d].status # "running"
=============================================================================
