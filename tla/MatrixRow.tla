------------------------------ MODULE MatrixRow ------------------------------
(***************************************************************************)
(* The rows of a project's test matrix while no room is open: edits with   *)
(* an optimistic version, batch operations, imports, the evidence of runs, *)
(* the sign-off of verdicts (review_service.py) and of scope exemptions    *)
(* (exemption_service.py).                                                 *)
(*                                                                         *)
(* Every request loads the rows it works on and commits later; the commit  *)
(* writes the columns it changed, as computed from the loaded copy.  Only  *)
(* an edit claims the row's version, and only an import compares all of    *)
(* them; runs, reviews, exemptions and batches write version + 1 blindly.  *)
(***************************************************************************)
EXTENDS Integers, FiniteSets

CONSTANTS
    Rows,       \* row ids, numbers
    Cases,      \* case ids
    Sessions,   \* requests of browsers, and runs that are finalised
    Reviewed,   \* the verdicts the project's policy puts under review
    MaxSync,    \* MAX_SYNC
    Stamps,     \* what runs leave in the evidence columns: a day, a version, a log
    MaxRequests,    \* bound: how many requests there are
    None

ASSUME RowsAssumption == Rows \subseteq Nat

VARIABLES
    rows,       \* lm_test_items; None: no such row yet
    session,    \* what each request is doing, with its copies of rows
    preview,    \* the previewed import job, mode "none" when there is none
    batch,      \* the audit entries of the last batch: the old values
    synthetic,  \* for each row, the run records an exemption wrote
    requests,   \* how many requests were made
    accidents   \* what happened to each row (history)

vars == <<rows, session, preview, batch, synthetic, requests, accidents>>

RunVerdicts == {"Pass", "Fail"}
Results == RunVerdicts \cup {"Untestable", "none"}   \* "none": Not Tested
HandResults == {"Untestable", "none"}                \* of those a person may type
WorkbookResults == {"Pass", "none"}                  \* normalize_result knows no Untestable

-----------------------------------------------------------------------------
(* A row: its columns.  json is custom_values, which is written as a whole. *)

RowType ==
    [live : BOOLEAN, case : Cases, version : Nat,
     json : [edit : Nat, claim : BOOLEAN, stamp : Stamps \cup {"none", "exemption"}],
     result : Results, review : {"none", "pending", "approved", "rejected"},
     verdict : Reviewed \cup {"none"}, exempt : {"none", "approved", "rejected"},
     asked : BOOLEAN]

ASSUME NoneAssumption == None \notin RowType

Live(r) == rows[r] # None /\ rows[r].live
LiveRows == {r \in Rows : Live(r)}

NewRow(c, edit, claim, result) ==
    [live |-> TRUE, case |-> c, version |-> 1,
     json |-> [edit |-> edit, claim |-> claim, stamp |-> "none"],
     result |-> result, review |-> "none", verdict |-> "none",
     exempt |-> "none", asked |-> FALSE]

\* What the screens and the workbooks show of a row.
Content(row) == <<row.json, row.result>>

Bumped(row) == [row EXCEPT !.version = @ + 1]

(* The columns a session writes: those that differ from its copy. *)
Flush(current, old, new) ==
    [c \in DOMAIN new |-> IF new[c] = old[c] THEN current[c] ELSE new[c]]

-----------------------------------------------------------------------------
(* What the services make of a loaded row.                                 *)

\* Mutant: the server's fields are written without a new version.
FieldsUnversioned(row, result, stamp) ==
    [row EXCEPT !.result = result, !.json.stamp = stamp]

(* apply_server_fields *)
ServerFields(row, result, stamp) ==
    IF row.result = result /\ row.json.stamp = stamp THEN row
    ELSE Bumped([row EXCEPT !.result = result, !.json.stamp = stamp])

\* Mutant: every verdict goes into review.
RequestedAlways(row, verdict) ==
    IF row.review = "pending" /\ row.verdict = verdict THEN row
    ELSE [row EXCEPT !.review = "pending", !.verdict = verdict]

(* request_review *)
Requested(row, verdict) ==
    IF verdict \notin Reviewed \/ (row.review = "pending" /\ row.verdict = verdict) THEN row
    ELSE [row EXCEPT !.review = "pending", !.verdict = verdict]

(* record_run, for one row *)
Recorded(row, verdict, stamp) == Requested(ServerFields(row, verdict, stamp), verdict)

(* review_service.decide *)
Signed(row, approve) ==
    [Bumped(row) EXCEPT !.review = IF approve THEN "approved" ELSE "rejected"]

(* effective_status: a decision only counts while the claim is on the row. *)
Exemption(row) ==
    IF ~row.json.claim THEN "none"
    ELSE IF row.exempt # "none" THEN row.exempt ELSE "pending"

LandsUntestable(row, approve) == approve /\ row.result = "none"

\* Mutant: the approval leaves the verdict to somebody else.
ExemptedOnly(row, approve) ==
    [Bumped(row) EXCEPT !.exempt = IF approve THEN "approved" ELSE "rejected"]

(* exemption_service.decide, with write_untestable: real evidence wins. *)
Exempted(row, approve) ==
    LET decided == [Bumped(row) EXCEPT !.exempt = IF approve THEN "approved" ELSE "rejected"]
    IN  IF LandsUntestable(row, approve)
        THEN ServerFields(decided, "Untestable", "exemption") ELSE decided

(* update_item, batch_update, batch_undo: a cell; the claim; the result. *)
Edited(row, edit) == Bumped([row EXCEPT !.json.edit = edit])
Claimed(row) == Bumped([row EXCEPT !.json.claim = ~@])
Resulted(row, result) == Bumped([row EXCEPT !.result = result])

-----------------------------------------------------------------------------
(* Sessions.                                                               *)

Idle == [op |-> "idle", held |-> <<>>, arg |-> None, number |-> 0]

Held(s) == session[s].held
In(s, op) == session[s].op = op

Request ==
    /\ requests < MaxRequests
    /\ requests' = requests + 1

Open(s, op, R, arg) ==
    session' = [session EXCEPT ![s] = [op |-> op, held |-> [r \in R |-> rows[r]],
                                       arg |-> arg, number |-> requests]]

Close(s) == session' = [session EXCEPT ![s] = Idle]

(* The flush of new versions of the held rows. *)
Store(s, new) ==
    rows' = [r \in Rows |-> IF r \in DOMAIN Held(s) THEN Flush(rows[r], Held(s)[r], new[r])
                            ELSE rows[r]]

(* Somebody wrote a row since the session loaded it. *)
Overtaken(s) == {r \in DOMAIN Held(s) : rows[r].version # Held(s)[r].version}

Happens(kind, R) == [r \in Rows |-> IF r \in R THEN accidents[r] \cup {kind} ELSE accidents[r]]

-----------------------------------------------------------------------------
(* Edits.  A person looks at the row, and the browser sends the version it  *)
(* showed with the change.                                                  *)
Look(s, r) ==
    /\ In(s, "idle") /\ Live(r)
    /\ Request
    /\ Open(s, "looking", {r}, None)
    /\ UNCHANGED <<rows, preview, batch, synthetic, accidents>>

(* get_item and the pre-check of update_item. *)
PatchLoad(s, r) ==
    /\ In(s, "looking") /\ r \in DOMAIN Held(s)
    /\ IF Live(r) /\ rows[r].version = Held(s)[r].version
       THEN session' = [session EXCEPT ![s] = [op |-> "patch", held |-> [q \in {r} |-> rows[r]],
                                               arg |-> Held(s)[r], number |-> @.number]]
       ELSE Close(s)
    /\ UNCHANGED <<rows, preview, batch, synthetic, requests, accidents>>

Claims(s, r) == rows[r].version = Held(s)[r].version

(* The guarded UPDATE and what update_item writes after it. *)
Patch(s, r) ==
    /\ In(s, "patch") /\ r \in DOMAIN Held(s)
    /\ IF ~Claims(s, r) THEN UNCHANGED <<rows, accidents>>
       ELSE \/ Store(s, [q \in {r} |-> Edited(Held(s)[r], session[s].number)])
               /\ UNCHANGED accidents
            \/ Store(s, [q \in {r} |-> Claimed(Held(s)[r])]) /\ UNCHANGED accidents
            \/ \E x \in HandResults :
                 /\ Store(s, [q \in {r} |-> Resulted(Held(s)[r], x)])
                 /\ accidents' = Happens("edited", {r})
    /\ Close(s)
    /\ UNCHANGED <<preview, batch, synthetic, requests>>

(* create_item, soft_delete_item, restore_item. *)
CreateRow(r, c) ==
    /\ rows[r] = None
    /\ Request
    /\ rows' = [rows EXCEPT ![r] = NewRow(c, 0, FALSE, "none")]
    /\ UNCHANGED <<session, preview, batch, synthetic, accidents>>

DeleteRow(r) ==
    /\ Live(r)
    /\ Request
    /\ rows' = [rows EXCEPT ![r].live = FALSE]
    /\ UNCHANGED <<session, preview, batch, synthetic, accidents>>

RestoreRow(r) ==
    /\ rows[r] # None /\ ~Live(r)
    /\ Request
    /\ rows' = [rows EXCEPT ![r].live = TRUE]
    /\ UNCHANGED <<session, preview, batch, synthetic, accidents>>

-----------------------------------------------------------------------------
(* Batches.                                                                *)
BatchLoad(s, R) ==
    /\ In(s, "idle") /\ R # {}
    /\ Request
    /\ Open(s, "batch", R, None)
    /\ UNCHANGED <<rows, preview, batch, synthetic, accidents>>

Batch(s) ==
    /\ In(s, "batch")
    /\ Store(s, [r \in DOMAIN Held(s) |-> Edited(Held(s)[r], session[s].number)])
    /\ batch' = [r \in DOMAIN Held(s) |-> Held(s)[r].json.edit]
    /\ accidents' = Happens("raced", Overtaken(s))
    /\ Close(s)
    /\ UNCHANGED <<preview, synthetic, requests>>

(* batch_undo puts the old values back, whatever was edited since. *)
UndoLoad(s) ==
    /\ In(s, "idle") /\ DOMAIN batch # {}
    /\ Request
    /\ Open(s, "undo", {r \in DOMAIN batch : Live(r)}, batch)
    /\ UNCHANGED <<rows, preview, batch, synthetic, accidents>>

Undo(s) ==
    /\ In(s, "undo")
    /\ Store(s, [r \in DOMAIN Held(s) |-> Edited(Held(s)[r], session[s].arg[r])])
    /\ accidents' = Happens("raced", Overtaken(s))
    /\ Close(s)
    /\ UNCHANGED <<preview, batch, synthetic, requests>>

-----------------------------------------------------------------------------
(* Imports.  The preview keeps a snapshot; the commit locks the table,      *)
(* compares, and applies the plan.                                          *)

NoPreview == [mode |-> "none", seen |-> <<>>, updates |-> {}, inserts |-> {}]
Previewed == preview.mode # "none"

Snapshot == [r \in LiveRows |-> rows[r]]
OfCase(c) == {r \in LiveRows : rows[r].case = c}

PreviewImport(mode, workbook) ==
    /\ mode = "insert_only" => \A c \in workbook : OfCase(c) = {}
    /\ Request
    /\ preview' = [mode |-> mode, seen |-> Snapshot,
                   updates |-> {c \in workbook : mode = "upsert" /\ OfCase(c) # {}},
                   inserts |-> {c \in workbook : mode # "upsert" \/ OfCase(c) = {}}]
    /\ UNCHANGED <<rows, session, batch, synthetic, accidents>>

Fresh ==
    /\ LiveRows = DOMAIN preview.seen
    /\ \A r \in LiveRows : /\ rows[r].version = preview.seen[r].version
                           /\ rows[r].case = preview.seen[r].case

(* target chooses the row of each case that is updated (by_case keeps one)  *)
(* and place the new row of each case that is inserted.                     *)
CommitImport(target, place, claim, result) ==
    LET updated == {target[c] : c \in preview.updates}
        inserted == {place[c] : c \in preview.inserts}
        edit == requests
    IN
    /\ Previewed /\ Fresh
    /\ \A c \in preview.updates : target[c] \in OfCase(c)
    /\ \A c \in preview.inserts : rows[place[c]] = None
    /\ \A c, d \in preview.inserts : c # d => place[c] # place[d]
    /\ rows' = [r \in Rows |->
            IF r \in inserted
            THEN NewRow(CHOOSE c \in preview.inserts : place[c] = r, edit, claim, result)
            ELSE IF r \in updated
            THEN [Bumped(rows[r]) EXCEPT !.json.edit = edit, !.json.claim = claim,
                                         !.result = result]
            ELSE IF preview.mode = "replace_all" /\ Live(r) THEN [rows[r] EXCEPT !.live = FALSE]
            ELSE rows[r]]
    /\ accidents' = Happens("edited", updated \cup inserted)
    /\ preview' = NoPreview
    /\ UNCHANGED <<session, batch, synthetic, requests>>

-----------------------------------------------------------------------------
(* The evidence of a run goes onto every live row of its case.              *)
RecordLoad(s, c, verdict, stamp) ==
    /\ In(s, "idle") /\ OfCase(c) # {}
    /\ Request
    /\ Open(s, "run", OfCase(c), [verdict |-> verdict, stamp |-> stamp])
    /\ UNCHANGED <<rows, preview, batch, synthetic, accidents>>

Record(s) ==
    LET verdict == session[s].arg.verdict
        new == [r \in DOMAIN Held(s) |-> Recorded(Held(s)[r], verdict, session[s].arg.stamp)]
        outrun == {r \in DOMAIN Held(s) : verdict \notin Reviewed /\ rows[r].review = "pending"}
        crossed == {r \in DOMAIN Held(s) : rows[r].verdict # Held(s)[r].verdict}
    IN
    /\ In(s, "run")
    /\ Store(s, new)
    /\ accidents' = [r \in Rows |->
            IF r \notin DOMAIN Held(s) THEN accidents[r]
            ELSE (accidents[r] \ {"edited", "outrun", "crossed"})
                 \cup (IF r \in outrun THEN {"outrun"} ELSE {})
                 \cup (IF r \in crossed THEN {"crossed"} ELSE {})
                 \cup (IF r \in Overtaken(s) THEN {"raced"} ELSE {})]
    /\ Close(s)
    /\ UNCHANGED <<preview, batch, synthetic, requests>>

-----------------------------------------------------------------------------
(* Sign-offs.                                                              *)
ReviewLoad(s, R, approve) ==
    /\ In(s, "idle") /\ R # {}
    /\ \A r \in R : rows[r].review = "pending"
    /\ Cardinality(R) > 1 => \A r \in R : rows[r].verdict # "Untestable"
    /\ Request
    /\ Open(s, "review", R, approve)
    /\ UNCHANGED <<rows, preview, batch, synthetic, accidents>>

Review(s) ==
    /\ In(s, "review")
    /\ Store(s, [r \in DOMAIN Held(s) |-> Signed(Held(s)[r], session[s].arg)])
    /\ accidents' = Happens("raced", Overtaken(s))
    /\ Close(s)
    /\ UNCHANGED <<preview, batch, synthetic, requests>>

ExemptLoad(s, R, approve) ==
    /\ In(s, "idle") /\ R # {}
    /\ \A r \in R : Exemption(rows[r]) = "pending"
    /\ Request
    /\ Open(s, "exempt", R, [approve |-> approve, has |-> {r \in R : synthetic[r] > 0}])
    /\ UNCHANGED <<rows, preview, batch, synthetic, accidents>>

Exempt(s) ==
    LET approve == session[s].arg.approve
        recorded == {r \in DOMAIN Held(s) \ session[s].arg.has :
                        LandsUntestable(Held(s)[r], approve)}
    IN
    /\ In(s, "exempt")
    /\ Store(s, [r \in DOMAIN Held(s) |-> Exempted(Held(s)[r], approve)])
    /\ synthetic' = [r \in Rows |-> synthetic[r] + (IF r \in recorded THEN 1 ELSE 0)]
    /\ accidents' = Happens("raced", Overtaken(s))
    /\ Close(s)
    /\ UNCHANGED <<preview, batch, requests>>

(* sync_pending looks at the first rows nobody was asked about, claims or   *)
(* not, and announces the claims among them.                                *)
FirstOf(R) == {r \in R : Cardinality({q \in R : q < r}) < MaxSync}

SyncLoad(s) ==
    LET unasked == FirstOf({r \in LiveRows : ~rows[r].asked})
        claims == {r \in unasked : Exemption(rows[r]) = "pending"}
    IN
    /\ In(s, "idle") /\ claims # {}
    /\ Open(s, "sync", claims, None)
    /\ UNCHANGED <<rows, preview, batch, synthetic, requests, accidents>>

Sync(s) ==
    /\ In(s, "sync")
    /\ Store(s, [r \in DOMAIN Held(s) |-> [Held(s)[r] EXCEPT !.asked = TRUE]])
    /\ Close(s)
    /\ UNCHANGED <<preview, batch, synthetic, requests, accidents>>

-----------------------------------------------------------------------------
Init ==
    /\ \E c \in Cases, r \in Rows :
          rows = [q \in Rows |-> IF q = r THEN NewRow(c, 0, FALSE, "none") ELSE None]
    /\ session = [s \in Sessions |-> Idle]
    /\ preview = NoPreview
    /\ batch = <<>>
    /\ synthetic = [r \in Rows |-> 0]
    /\ requests = 0
    /\ accidents = [r \in Rows |-> {}]

Edits == \E s \in Sessions, r \in Rows : Look(s, r) \/ PatchLoad(s, r) \/ Patch(s, r)

Churn == \E r \in Rows : (\E c \in Cases : CreateRow(r, c)) \/ DeleteRow(r) \/ RestoreRow(r)

Batches == \E s \in Sessions :
    (\E R \in SUBSET LiveRows : BatchLoad(s, R)) \/ Batch(s) \/ UndoLoad(s) \/ Undo(s)

Imports ==
    \/ \E mode \in {"upsert", "insert_only", "replace_all"}, W \in SUBSET Cases \ {{}} :
          PreviewImport(mode, W)
    \/ \E target, place \in [Cases -> Rows], claim \in BOOLEAN, x \in WorkbookResults :
          Previewed /\ CommitImport(target, place, claim, x)

Evidence == \E s \in Sessions :
    \/ \E c \in Cases, v \in RunVerdicts, stamp \in Stamps : RecordLoad(s, c, v, stamp)
    \/ Record(s)

SignOffs == \E s \in Sessions :
    \/ \E R \in SUBSET LiveRows, approve \in BOOLEAN :
          ReviewLoad(s, R, approve) \/ ExemptLoad(s, R, approve)
    \/ Review(s) \/ Exempt(s) \/ SyncLoad(s) \/ Sync(s)

Next == Edits \/ Churn \/ Batches \/ Imports \/ Evidence \/ SignOffs

Spec == Init /\ [][Next]_vars

-----------------------------------------------------------------------------
(* Properties.                                                             *)

\* The matrix, and every copy of its rows a request or a preview holds, has its
\* type; a review is only ever about a verdict the project reviews.
TypeOK ==
    /\ rows \in [Rows -> RowType \cup {None}]
    /\ \A s \in Sessions : \A r \in DOMAIN Held(s) : r \in Rows /\ Held(s)[r] \in RowType
    /\ \A r \in DOMAIN preview.seen : r \in Rows /\ preview.seen[r] \in RowType
    /\ synthetic \in [Rows -> Nat]
    /\ accidents \in [Rows -> SUBSET {"raced", "edited", "outrun", "crossed"}]

Raced(r) == "raced" \in accidents[r]

\* A version number stands for one content of the row, wherever a copy of it
\* still is: on a screen, in a request, in the snapshot of an import.  A write
\* from an overtaken copy, which no service but the edit looks for, is the only
\* way to break this.
VersionNamesContent ==
    \A r \in Rows : rows[r] # None /\ ~Raced(r) =>
        /\ \A s \in Sessions : r \in DOMAIN Held(s) /\ Held(s)[r].version = rows[r].version =>
               Content(Held(s)[r]) = Content(rows[r])
        /\ r \in DOMAIN preview.seen /\ preview.seen[r].version = rows[r].version =>
               Content(preview.seen[r]) = Content(rows[r])

\* An edit that is accepted changes the row the person was looking at, and an
\* import that is accepted changes the rows its preview was computed from:
\* nothing anybody else wrote is lost (update_item, commit_special_import).
SeenBeforeWritten ==
    [][/\ \A s \in Sessions, r \in Rows :
             session[s].op = "patch" /\ session'[s] # session[s] /\ rows'[r] # rows[r] /\ ~Raced(r) =>
                 Content(rows[r]) = Content(session[s].arg)
       /\ Previewed /\ ~Previewed' =>
             /\ LiveRows = DOMAIN preview.seen
             /\ \A r \in LiveRows : ~Raced(r) => Content(rows[r]) = Content(preview.seen[r])]_vars

\* What is signed off is what the row shows.  A pending review is about the
\* row's verdict, unless a person or an import typed another one, a run that
\* needs no review came after it, or two runs asked for their reviews at the same
\* time (request_review); an exemption that counts has left a verdict on its row
\* and one record for the charts (write_untestable).
SignOffsStand ==
    \A r \in LiveRows : ~Raced(r) =>
        /\ rows[r].review = "pending" /\ accidents[r] \cap {"edited", "outrun", "crossed"} = {} =>
               rows[r].verdict = rows[r].result
        /\ Exemption(rows[r]) = "approved" /\ "edited" \notin accidents[r] =>
               rows[r].result # "none"
        /\ synthetic[r] <= 1
=============================================================================
