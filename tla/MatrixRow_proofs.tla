-------------------------- MODULE MatrixRow_proofs --------------------------
(***************************************************************************)
(* Proofs about MatrixRow, for any rows, requests and policy: nobody's     *)
(* edit or import overwrites what it did not see, unless a write from an   *)
(* overtaken copy came before it.                                          *)
(***************************************************************************)
EXTENDS MatrixRow, TLAPS

(* What every commit makes of the copy it loaded: either a new version, or  *)
(* the same content.                                                        *)
Advances(old, new) ==
    /\ new \in RowType
    /\ \/ new.version = old.version /\ Content(new) = Content(old)
       \/ new.version > old.version

(* A copy of a row is an earlier state of it.                               *)
Faithful(copy, row) ==
    /\ copy.version <= row.version
    /\ copy.version = row.version => Content(copy) = Content(row)

CopyOf(copy, r) ==
    /\ r \in Rows /\ copy \in RowType /\ rows[r] \in RowType
    /\ ~Raced(r) => Faithful(copy, rows[r])

(* What a request has in its hands.                                         *)
SessionInv(s) ==
    /\ DOMAIN session[s] = {"op", "held", "arg", "number"}
    /\ session[s].number \in Nat
    /\ \A r \in DOMAIN Held(s) : CopyOf(Held(s)[r], r)
    /\ In(s, "patch") =>
           \A r \in DOMAIN Held(s) :
               /\ \A q \in DOMAIN Held(s) : q = r
               /\ CopyOf(session[s].arg, r)
               /\ session[s].arg.version = Held(s)[r].version
    /\ In(s, "undo") => \A r \in DOMAIN Held(s) : session[s].arg[r] \in Nat
    /\ In(s, "run") => session[s].arg.verdict \in RunVerdicts /\ session[s].arg.stamp \in Stamps

PreviewInv ==
    /\ preview.mode \in {"none", "upsert", "insert_only", "replace_all"}
    /\ preview.updates \subseteq Cases /\ preview.inserts \subseteq Cases
    /\ \A r \in DOMAIN preview.seen : CopyOf(preview.seen[r], r)

IndInv ==
    /\ rows \in [Rows -> RowType \cup {None}]
    /\ accidents \in [Rows -> SUBSET {"raced", "edited", "outrun", "crossed"}]
    /\ synthetic \in [Rows -> Nat]
    /\ requests \in Nat
    /\ \A r \in DOMAIN batch : r \in Rows /\ batch[r] \in Nat
    /\ DOMAIN session = Sessions
    /\ \A s \in Sessions : SessionInv(s)
    /\ PreviewInv

-----------------------------------------------------------------------------
(* What the services make of a loaded row.                                 *)

LEMMA FlushType ==
    ASSUME NEW k \in RowType, NEW old \in RowType, NEW new \in RowType
    PROVE  /\ Flush(k, old, new) \in RowType
           /\ Flush(k, old, new).version = IF new.version = old.version THEN k.version ELSE new.version
           /\ Flush(k, old, new).json = IF new.json = old.json THEN k.json ELSE new.json
           /\ Flush(k, old, new).result = IF new.result = old.result THEN k.result ELSE new.result
  BY DEF Flush, RowType

\* The commit of a request advances the row, unless somebody wrote the row
\* after the request loaded it and the request writes a version.
LEMMA FlushAdvances ==
    ASSUME NEW k \in RowType, NEW old \in RowType, NEW new,
           Faithful(old, k), Advances(old, new),
           old.version = k.version \/ (new.version = old.version /\ Content(new) = Content(old))
    PROVE  Advances(k, Flush(k, old, new))
<1>1. new \in RowType BY DEF Advances
<1>2. old.version \in Nat /\ k.version \in Nat /\ new.version \in Nat BY <1>1 DEF RowType
<1> QED BY <1>1, <1>2, FlushType DEF Advances, Faithful, Content

LEMMA BumpedAdvances ==
    ASSUME NEW old \in RowType, NEW new \in RowType, new.version = old.version
    PROVE  Advances(old, Bumped(new)) /\ Bumped(new).version = old.version + 1
<1>1. new.version \in Nat /\ old.version \in Nat BY DEF RowType
<1>2. Bumped(new) \in RowType /\ Bumped(new).version = new.version + 1 BY <1>1 DEF Bumped, RowType
<1> QED BY <1>1, <1>2 DEF Advances

LEMMA EditedAdvances ==
    ASSUME NEW old \in RowType, NEW e \in Nat
    PROVE  Advances(old, Edited(old, e))
<1> DEFINE new == [old EXCEPT !.json.edit = e]
<1>1. new \in RowType /\ new.version = old.version BY DEF RowType
<1> QED BY <1>1, BumpedAdvances DEF Edited

LEMMA ClaimedAdvances ==
    ASSUME NEW old \in RowType
    PROVE  Advances(old, Claimed(old))
<1> DEFINE new == [old EXCEPT !.json.claim = ~@]
<1>1. new \in RowType /\ new.version = old.version BY DEF RowType
<1> QED BY <1>1, BumpedAdvances DEF Claimed

LEMMA ResultedAdvances ==
    ASSUME NEW old \in RowType, NEW x \in Results
    PROVE  Advances(old, Resulted(old, x))
<1> DEFINE new == [old EXCEPT !.result = x]
<1>1. new \in RowType /\ new.version = old.version BY DEF RowType
<1> QED BY <1>1, BumpedAdvances DEF Resulted

LEMMA ServerFieldsAdvance ==
    ASSUME NEW old \in RowType, NEW x \in Results, NEW st \in Stamps \cup {"none", "exemption"}
    PROVE  Advances(old, ServerFields(old, x, st))
<1>1. CASE old.result = x /\ old.json.stamp = st
  BY <1>1 DEF ServerFields, Advances
<1>2. CASE ~(old.result = x /\ old.json.stamp = st)
  <2> DEFINE new == [old EXCEPT !.result = x, !.json.stamp = st]
  <2>1. new \in RowType /\ new.version = old.version BY DEF RowType
  <2>2. ServerFields(old, x, st) = Bumped(new) BY <1>2 DEF ServerFields
  <2> QED BY <2>1, <2>2, BumpedAdvances
<1> QED BY <1>1, <1>2

LEMMA RecordedAdvances ==
    ASSUME NEW old \in RowType, NEW v \in RunVerdicts, NEW st \in Stamps
    PROVE  Advances(old, Recorded(old, v, st))
<1> DEFINE mid == ServerFields(old, v, st)
<1>1. v \in Results BY DEF Results
<1>2. Advances(old, mid) BY <1>1, ServerFieldsAdvance
<1>3. mid \in RowType BY <1>2 DEF Advances
<1>4. CASE v \notin Reviewed \/ (mid.review = "pending" /\ mid.verdict = v)
  BY <1>2, <1>4 DEF Recorded, Requested
<1>5. CASE ~(v \notin Reviewed \/ (mid.review = "pending" /\ mid.verdict = v))
  <2> DEFINE new == [mid EXCEPT !.review = "pending", !.verdict = v]
  <2>1. new \in RowType /\ new.version = mid.version /\ Content(new) = Content(mid)
    BY <1>3, <1>5 DEF RowType, Content
  <2>2. Recorded(old, v, st) = new BY <1>5 DEF Recorded, Requested
  <2> QED BY <1>2, <2>1, <2>2 DEF Advances
<1> QED BY <1>4, <1>5

LEMMA SignedAdvances ==
    ASSUME NEW old \in RowType, NEW approve
    PROVE  Advances(old, Signed(old, approve))
<1>1. Bumped(old) \in RowType /\ Bumped(old).version = old.version + 1
  BY BumpedAdvances DEF Advances
<1>2. Signed(old, approve) \in RowType /\ Signed(old, approve).version = old.version + 1
  BY <1>1 DEF Signed, RowType
<1>3. old.version \in Nat BY DEF RowType
<1> QED BY <1>2, <1>3 DEF Advances

LEMMA ExemptedAdvances ==
    ASSUME NEW old \in RowType, NEW approve
    PROVE  Advances(old, Exempted(old, approve))
<1> DEFINE mid == [Bumped(old) EXCEPT !.exempt = IF approve THEN "approved" ELSE "rejected"]
<1>1. Bumped(old) \in RowType /\ Bumped(old).version = old.version + 1
  BY BumpedAdvances DEF Advances
<1>2. mid \in RowType /\ mid.version = old.version + 1
  BY <1>1 DEF RowType
<1>3. old.version \in Nat BY DEF RowType
<1>4. CASE LandsUntestable(old, approve)
  <2> DEFINE new == ServerFields(mid, "Untestable", "exemption")
  <2> HIDE DEF mid
  <2>1. Advances(mid, new) BY <1>2, ServerFieldsAdvance DEF Results
  <2>2. new \in RowType /\ new.version \in Nat /\ new.version >= old.version + 1
    BY <1>2, <1>3, <2>1 DEF Advances, RowType
  <2>3. Exempted(old, approve) = new BY <1>4 DEF Exempted, mid
  <2> QED BY <1>3, <2>2, <2>3 DEF Advances
<1>5. CASE ~LandsUntestable(old, approve)
  <2>1. Exempted(old, approve) = mid BY <1>5 DEF Exempted
  <2> QED BY <1>2, <1>3, <2>1 DEF Advances
<1> QED BY <1>4, <1>5

-----------------------------------------------------------------------------
(* What a step does to the rows, and what is left of the copies after it.   *)

RowsAdvance ==
    /\ rows' \in [Rows -> RowType \cup {None}]
    /\ accidents' \in [Rows -> SUBSET {"raced", "edited", "outrun", "crossed"}]
    /\ \A r \in Rows : Raced(r) => Raced(r)'
    /\ \A r \in Rows : rows[r] \in RowType =>
           rows'[r] \in RowType /\ (~Raced(r)' => Advances(rows[r], rows'[r]))

(* CopyOf in the next state, of a copy taken in this one.                   *)
StillCopyOf(copy, r) ==
    /\ r \in Rows /\ copy \in RowType /\ rows'[r] \in RowType
    /\ ~Raced(r)' => Faithful(copy, rows'[r])

LEMMA CopySurvives ==
    ASSUME NEW copy, NEW r, CopyOf(copy, r), RowsAdvance
    PROVE  StillCopyOf(copy, r)
<1>1. r \in Rows /\ copy \in RowType /\ rows[r] \in RowType /\ rows'[r] \in RowType
  BY DEF CopyOf, RowsAdvance
<1>2. copy.version \in Nat /\ rows[r].version \in Nat /\ rows'[r].version \in Nat
  BY <1>1 DEF RowType
<1>3. SUFFICES ASSUME ~Raced(r)' PROVE Faithful(copy, rows'[r])
  BY <1>1 DEF StillCopyOf
<1>4. Faithful(copy, rows[r]) /\ Advances(rows[r], rows'[r])
  BY <1>1, <1>3 DEF CopyOf, RowsAdvance
<1> QED BY <1>2, <1>4 DEF Faithful, Advances

\* A row that did not change is still the copy it was loaded as.
LEMMA RowsUnchanged ==
    ASSUME IndInv, UNCHANGED <<rows, accidents>>
    PROVE  RowsAdvance
  BY DEF IndInv, RowsAdvance, Raced, Advances

LEMMA LiveRowsTyped ==
    ASSUME IndInv
    PROVE  /\ LiveRows \subseteq Rows
           /\ \A r \in LiveRows : CopyOf(rows[r], r)
           /\ \A r \in Rows : Live(r) => CopyOf(rows[r], r)
<1>1. \A r \in Rows : Live(r) => rows[r] \in RowType
  BY DEF IndInv, Live
<1>2. \A r \in Rows : rows[r] \in RowType => rows[r].version <= rows[r].version
  BY DEF RowType
<1> QED BY <1>1, <1>2 DEF LiveRows, CopyOf, Faithful

LEMMA KeptSession ==
    ASSUME NEW t \in Sessions, SessionInv(t), RowsAdvance, session'[t] = session[t]
    PROVE  SessionInv(t)'
<1>1. \A r \in DOMAIN Held(t) : StillCopyOf(Held(t)[r], r)
  BY CopySurvives DEF SessionInv
<1>2. In(t, "patch") => \A r \in DOMAIN Held(t) : StillCopyOf(session[t].arg, r)
  BY CopySurvives DEF SessionInv
<1> QED BY <1>1, <1>2 DEF SessionInv, CopyOf, StillCopyOf, Held, In

LEMMA ClosedSession ==
    ASSUME NEW s \in Sessions, session'[s] = Idle
    PROVE  SessionInv(s)'
  BY DEF SessionInv, Idle, Held, In

LEMMA KeptPreview ==
    ASSUME PreviewInv, RowsAdvance, preview' = preview
    PROVE  PreviewInv'
<1>1. \A r \in DOMAIN preview.seen : StillCopyOf(preview.seen[r], r)
  BY CopySurvives DEF PreviewInv
<1> QED BY <1>1 DEF PreviewInv, CopyOf, StillCopyOf

\* A request that loads rows leaves everything else alone.
LEMMA OpenKeeps ==
    ASSUME IndInv, NEW s \in Sessions, NEW R \in SUBSET Rows, NEW op, NEW arg,
           \A r \in R : CopyOf(rows[r], r),
           Open(s, op, R, arg),
           op \in {"looking", "batch", "undo", "run", "review", "exempt", "sync"},
           op = "undo" => \A r \in R : arg[r] \in Nat,
           op = "run" => arg.verdict \in RunVerdicts /\ arg.stamp \in Stamps,
           requests' \in Nat,
           UNCHANGED <<rows, preview, batch, synthetic, accidents>>
    PROVE  IndInv' /\ RowsAdvance
<1>1. RowsAdvance BY RowsUnchanged
<1>2. DOMAIN session' = Sessions BY DEF Open, IndInv
<1>3. \A t \in Sessions \ {s} : session'[t] = session[t] BY DEF Open, IndInv
<1>4. session'[s] = [op |-> op, held |-> [r \in R |-> rows[r]], arg |-> arg, number |-> requests]
  BY DEF Open, IndInv
<1>5. SessionInv(s)'
  <2>1. \A r \in R : CopyOf(rows[r], r)' BY DEF CopyOf, Raced
  <2>2. requests \in Nat BY DEF IndInv
  <2>3. DOMAIN session'[s].held = R /\ \A r \in R : session'[s].held[r] = rows'[r] BY <1>4
  <2>4. session'[s].op = op /\ session'[s].arg = arg /\ session'[s].number = requests
    BY <1>4
  <2>5. DOMAIN session'[s] = {"op", "held", "arg", "number"} BY <1>4
  <2> QED BY <2>1, <2>2, <2>3, <2>4, <2>5 DEF SessionInv, Held, In, CopyOf
<1>6. \A t \in Sessions : SessionInv(t)'
  BY <1>1, <1>3, <1>5, KeptSession DEF IndInv
<1>7. PreviewInv' BY <1>1, KeptPreview DEF IndInv
<1> QED BY <1>1, <1>2, <1>6, <1>7 DEF IndInv, RowsAdvance

\* A request that commits.
LEMMA CloseKeeps ==
    ASSUME IndInv, NEW s \in Sessions, RowsAdvance, Close(s),
           synthetic' \in [Rows -> Nat],
           \A r \in DOMAIN batch' : r \in Rows /\ batch'[r] \in Nat,
           UNCHANGED <<preview, requests>>
    PROVE  IndInv' /\ RowsAdvance
<1>1. DOMAIN session' = Sessions /\ session'[s] = Idle
  BY DEF Close, IndInv
<1>2. \A t \in Sessions \ {s} : session'[t] = session[t] BY DEF Close, IndInv
<1>3. \A t \in Sessions : SessionInv(t)'
  BY <1>1, <1>2, KeptSession, ClosedSession DEF IndInv
<1>4. PreviewInv' BY KeptPreview DEF IndInv
<1> QED BY <1>1, <1>3, <1>4 DEF IndInv, RowsAdvance

\* The commit itself: every row that was overtaken is marked, unless the
\* request wrote no version.
LEMMA StoreAdvances ==
    ASSUME IndInv, NEW s \in Sessions, NEW new, Store(s, new),
           \A r \in DOMAIN Held(s) : Advances(Held(s)[r], new[r]),
           accidents' \in [Rows -> SUBSET {"raced", "edited", "outrun", "crossed"}],
           \A r \in Rows : Raced(r) => Raced(r)',
           \A r \in Overtaken(s) :
               Raced(r)' \/ (/\ new[r].version = Held(s)[r].version
                             /\ Content(new[r]) = Content(Held(s)[r]))
    PROVE  RowsAdvance
<1>1. \A r \in Rows : rows'[r] = IF r \in DOMAIN Held(s)
                                 THEN Flush(rows[r], Held(s)[r], new[r]) ELSE rows[r]
  BY DEF Store
<1>2. ASSUME NEW r \in DOMAIN Held(s)
      PROVE  /\ rows'[r] \in RowType
             /\ ~Raced(r)' => Advances(rows[r], rows'[r])
  <2>1. r \in Rows /\ Held(s)[r] \in RowType /\ rows[r] \in RowType
        /\ (~Raced(r) => Faithful(Held(s)[r], rows[r]))
    BY <1>2 DEF IndInv, SessionInv, CopyOf
  <2>2. Advances(Held(s)[r], new[r]) /\ new[r] \in RowType BY <1>2 DEF Advances
  <2>3. rows'[r] = Flush(rows[r], Held(s)[r], new[r]) BY <1>1, <1>2, <2>1
  <2>4. rows'[r] \in RowType BY <2>1, <2>2, <2>3, FlushType
  <2>5. ASSUME ~Raced(r)' PROVE Advances(rows[r], rows'[r])
    <3>1. Faithful(Held(s)[r], rows[r]) BY <2>1, <2>5
    <3>2. Held(s)[r].version = rows[r].version
          \/ (new[r].version = Held(s)[r].version /\ Content(new[r]) = Content(Held(s)[r]))
      BY <1>2, <2>5 DEF Overtaken
    <3> QED BY <2>1, <2>2, <2>3, <3>1, <3>2, FlushAdvances
  <2> QED BY <2>4, <2>5
<1>3. ASSUME NEW r \in Rows, r \notin DOMAIN Held(s), rows[r] \in RowType
      PROVE  rows'[r] \in RowType /\ Advances(rows[r], rows'[r])
  BY <1>1, <1>3 DEF Advances
<1>4. rows' \in [Rows -> RowType \cup {None}]
  <2>1. rows' = [r \in Rows |-> IF r \in DOMAIN Held(s)
                                THEN Flush(rows[r], Held(s)[r], new[r]) ELSE rows[r]]
    BY DEF Store
  <2>2. \A r \in Rows : rows'[r] \in RowType \cup {None}
    BY <1>1, <1>2 DEF IndInv
  <2> QED BY <2>1, <2>2
<1> QED BY <1>2, <1>3, <1>4 DEF RowsAdvance

-----------------------------------------------------------------------------
(* The actions.                                                            *)

LEMMA HappensType ==
    ASSUME IndInv, NEW kind \in {"raced", "edited", "outrun", "crossed"}, NEW R \in SUBSET Rows
    PROVE  /\ Happens(kind, R) \in [Rows -> SUBSET {"raced", "edited", "outrun", "crossed"}]
           /\ \A r \in Rows : Raced(r) => "raced" \in Happens(kind, R)[r]
           /\ \A r \in R : kind \in Happens(kind, R)[r]
  BY DEF IndInv, Happens, Raced

LEMMA OvertakenRows ==
    ASSUME IndInv, NEW s \in Sessions
    PROVE  Overtaken(s) \subseteq Rows /\ Overtaken(s) \subseteq DOMAIN Held(s)
  BY DEF IndInv, SessionInv, CopyOf, Overtaken

LEMMA LookKeeps ==
    ASSUME IndInv, NEW s \in Sessions, NEW r \in Rows, Look(s, r)
    PROVE  IndInv' /\ RowsAdvance
<1>1. \A q \in {r} : CopyOf(rows[q], q) BY LiveRowsTyped DEF Look
<1>2. requests' \in Nat BY DEF Look, Request, IndInv
<1> QED BY <1>1, <1>2, OpenKeeps DEF Look

LEMMA PatchLoadKeeps ==
    ASSUME IndInv, NEW s \in Sessions, NEW r \in Rows, PatchLoad(s, r)
    PROVE  IndInv' /\ RowsAdvance
<1>1. RowsAdvance BY RowsUnchanged DEF PatchLoad
<1>2. CASE Live(r) /\ rows[r].version = Held(s)[r].version
  <2>1. session' = [session EXCEPT ![s] = [op |-> "patch", held |-> [q \in {r} |-> rows[q]],
                                           arg |-> Held(s)[r], number |-> @.number]]
    BY <1>2 DEF PatchLoad
  <2>2. DOMAIN session' = Sessions /\ \A t \in Sessions \ {s} : session'[t] = session[t]
    BY <2>1 DEF IndInv
  <2>3. session'[s] = [op |-> "patch", held |-> [q \in {r} |-> rows[q]],
                       arg |-> Held(s)[r], number |-> session[s].number]
    BY <2>1 DEF IndInv
  <2>4. CopyOf(rows[r], r) /\ CopyOf(Held(s)[r], r)
    BY <1>2, LiveRowsTyped DEF IndInv, SessionInv, PatchLoad
  <2>5. StillCopyOf(rows[r], r) /\ StillCopyOf(Held(s)[r], r)
    BY <1>1, <2>4, CopySurvives
  <2>6. session[s].number \in Nat BY DEF IndInv, SessionInv
  <2>7. DOMAIN session'[s].held = {r} /\ session'[s].held[r] = rows[r] BY <2>3
  <2>8. session'[s].op = "patch" /\ session'[s].arg = Held(s)[r]
        /\ session'[s].number = session[s].number
        /\ DOMAIN session'[s] = {"op", "held", "arg", "number"}
    BY <2>3
  <2>9. SessionInv(s)'
    BY <1>2, <2>5, <2>6, <2>7, <2>8 DEF SessionInv, Held, In, CopyOf, StillCopyOf
  <2>10. \A t \in Sessions : SessionInv(t)'
    BY <1>1, <2>2, <2>9, KeptSession DEF IndInv
  <2>11. PreviewInv' BY <1>1, KeptPreview DEF IndInv, PatchLoad
  <2> QED BY <1>1, <2>2, <2>10, <2>11 DEF IndInv, RowsAdvance, PatchLoad
<1>3. CASE ~(Live(r) /\ rows[r].version = Held(s)[r].version)
  BY <1>1, <1>3, CloseKeeps DEF PatchLoad, IndInv
<1> QED BY <1>2, <1>3

LEMMA PatchKeeps ==
    ASSUME IndInv, NEW s \in Sessions, NEW r \in Rows, Patch(s, r)
    PROVE  IndInv' /\ RowsAdvance
<1>1. r \in DOMAIN Held(s) /\ \A q \in DOMAIN Held(s) : q = r
  BY DEF Patch, IndInv, SessionInv
<1>2. Held(s)[r] \in RowType /\ session[s].number \in Nat
  BY <1>1 DEF IndInv, SessionInv, CopyOf
<1>3. RowsAdvance
  <2>1. CASE ~Claims(s, r) BY <2>1, RowsUnchanged DEF Patch
  <2>2. ASSUME Claims(s, r), NEW new, Advances(Held(s)[r], new[r]), Store(s, new),
               accidents' \in [Rows -> SUBSET {"raced", "edited", "outrun", "crossed"}],
               \A q \in Rows : Raced(q) => Raced(q)'
        PROVE  RowsAdvance
    <3>1. Overtaken(s) = {} BY <1>1, <2>2 DEF Overtaken, Claims
    <3>2. \A q \in DOMAIN Held(s) : Advances(Held(s)[q], new[q]) BY <1>1, <2>2
    <3> QED BY <2>2, <3>1, <3>2, StoreAdvances
  <2>3. ASSUME Claims(s, r), Store(s, [q \in {r} |-> Edited(Held(s)[r], session[s].number)]),
               UNCHANGED accidents
        PROVE  RowsAdvance
    <3> DEFINE new == [q \in {r} |-> Edited(Held(s)[r], session[s].number)]
    <3>1. Advances(Held(s)[r], new[r]) BY <1>2, EditedAdvances
    <3> QED BY <2>2, <2>3, <3>1 DEF IndInv, Raced
  <2>4. ASSUME Claims(s, r), Store(s, [q \in {r} |-> Claimed(Held(s)[r])]), UNCHANGED accidents
        PROVE  RowsAdvance
    <3> DEFINE new == [q \in {r} |-> Claimed(Held(s)[r])]
    <3>1. Advances(Held(s)[r], new[r]) BY <1>2, ClaimedAdvances
    <3> QED BY <2>2, <2>4, <3>1 DEF IndInv, Raced
  <2>5. ASSUME Claims(s, r), NEW x \in HandResults,
               Store(s, [q \in {r} |-> Resulted(Held(s)[r], x)]),
               accidents' = Happens("edited", {r})
        PROVE  RowsAdvance
    <3> DEFINE new == [q \in {r} |-> Resulted(Held(s)[r], x)]
    <3>1. Advances(Held(s)[r], new[r])
      BY <1>2, ResultedAdvances DEF HandResults, Results
    <3>2. accidents' \in [Rows -> SUBSET {"raced", "edited", "outrun", "crossed"}]
          /\ \A q \in Rows : Raced(q) => Raced(q)'
      BY <2>5, HappensType DEF Raced
    <3> QED BY <2>2, <2>5, <3>1, <3>2
  <2> QED BY <2>1, <2>3, <2>4, <2>5 DEF Patch
<1> QED BY <1>3, CloseKeeps DEF Patch, IndInv

LEMMA CreateRowKeeps ==
    ASSUME IndInv, NEW r \in Rows, NEW c \in Cases, CreateRow(r, c)
    PROVE  IndInv' /\ RowsAdvance
<1>1. NewRow(c, 0, FALSE, "none") \in RowType BY DEF NewRow, RowType, Results
<1>2. rows[r] \notin RowType BY NoneAssumption DEF CreateRow
<1>3. \A q \in Rows \ {r} : rows'[q] = rows[q] BY DEF CreateRow, IndInv
<1>4. rows' \in [Rows -> RowType \cup {None}] BY <1>1 DEF CreateRow, IndInv
<1>5. RowsAdvance BY <1>2, <1>3, <1>4 DEF RowsAdvance, CreateRow, IndInv, Raced, Advances
<1>6. \A t \in Sessions : SessionInv(t)' BY <1>5, KeptSession DEF CreateRow, IndInv
<1>7. PreviewInv' BY <1>5, KeptPreview DEF CreateRow, IndInv
<1>8. requests' \in Nat /\ UNCHANGED <<session, synthetic, batch>>
  BY DEF IndInv, CreateRow, Request
<1> QED BY <1>4, <1>5, <1>6, <1>7, <1>8 DEF IndInv, RowsAdvance

LEMMA DeleteRestoreKeeps ==
    ASSUME IndInv, NEW r \in Rows, DeleteRow(r) \/ RestoreRow(r)
    PROVE  IndInv' /\ RowsAdvance
<1>1. PICK b \in BOOLEAN : rows' = [rows EXCEPT ![r].live = b]
  BY DEF DeleteRow, RestoreRow
<1>2. rows[r] \in RowType BY DEF DeleteRow, RestoreRow, Live, IndInv
<1>3. rows'[r] = [rows[r] EXCEPT !.live = b] /\ \A q \in Rows \ {r} : rows'[q] = rows[q]
  BY <1>1 DEF IndInv
<1>4. rows'[r] \in RowType /\ Advances(rows[r], rows'[r])
  BY <1>2, <1>3 DEF RowType, Advances, Content
<1>5. rows' \in [Rows -> RowType \cup {None}] BY <1>1, <1>3, <1>4 DEF IndInv
<1>6. accidents' = accidents /\ session' = session /\ preview' = preview
      /\ batch' = batch /\ synthetic' = synthetic /\ requests' \in Nat
  BY DEF DeleteRow, RestoreRow, IndInv, Request
<1>7. RowsAdvance BY <1>3, <1>4, <1>5, <1>6 DEF RowsAdvance, IndInv, Raced, Advances
<1>8. \A t \in Sessions : SessionInv(t)' BY <1>6, <1>7, KeptSession DEF IndInv
<1>9. PreviewInv' BY <1>6, <1>7, KeptPreview DEF IndInv
<1> QED BY <1>5, <1>6, <1>7, <1>8, <1>9 DEF IndInv

LEMMA BatchLoadKeeps ==
    ASSUME IndInv, NEW s \in Sessions, NEW R \in SUBSET LiveRows, BatchLoad(s, R)
    PROVE  IndInv' /\ RowsAdvance
<1>1. R \in SUBSET Rows /\ \A q \in R : CopyOf(rows[q], q) BY LiveRowsTyped
<1>2. requests' \in Nat BY DEF BatchLoad, Request, IndInv
<1> QED BY <1>1, <1>2, OpenKeeps DEF BatchLoad

LEMMA BatchKeeps ==
    ASSUME IndInv, NEW s \in Sessions, Batch(s)
    PROVE  IndInv' /\ RowsAdvance
<1> DEFINE new == [r \in DOMAIN Held(s) |-> Edited(Held(s)[r], session[s].number)]
<1>1. session[s].number \in Nat
      /\ \A r \in DOMAIN Held(s) : r \in Rows /\ Held(s)[r] \in RowType
  BY DEF IndInv, SessionInv, CopyOf
<1>2. \A r \in DOMAIN Held(s) : Advances(Held(s)[r], new[r]) BY <1>1, EditedAdvances
<1>3. /\ accidents' \in [Rows -> SUBSET {"raced", "edited", "outrun", "crossed"}]
      /\ \A r \in Rows : Raced(r) => Raced(r)'
      /\ \A r \in Overtaken(s) : Raced(r)'
  BY HappensType, OvertakenRows DEF Batch, Raced
<1>4. RowsAdvance BY <1>2, <1>3, StoreAdvances DEF Batch
<1>5. \A r \in DOMAIN batch' : r \in Rows /\ batch'[r] \in Nat BY <1>1 DEF Batch, RowType
<1> QED BY <1>4, <1>5, CloseKeeps DEF Batch, IndInv

LEMMA UndoLoadKeeps ==
    ASSUME IndInv, NEW s \in Sessions, UndoLoad(s)
    PROVE  IndInv' /\ RowsAdvance
<1> DEFINE R == {r \in DOMAIN batch : Live(r)}
<1>1. R \in SUBSET Rows /\ \A q \in R : CopyOf(rows[q], q)
  BY LiveRowsTyped DEF LiveRows, IndInv, Live
<1>2. \A r \in R : batch[r] \in Nat BY DEF IndInv
<1>3. requests' \in Nat BY DEF UndoLoad, Request, IndInv
<1> QED BY <1>1, <1>2, <1>3, OpenKeeps DEF UndoLoad

LEMMA UndoKeeps ==
    ASSUME IndInv, NEW s \in Sessions, Undo(s)
    PROVE  IndInv' /\ RowsAdvance
<1> DEFINE new == [r \in DOMAIN Held(s) |-> Edited(Held(s)[r], session[s].arg[r])]
<1>1. \A r \in DOMAIN Held(s) : session[s].arg[r] \in Nat /\ Held(s)[r] \in RowType
  BY DEF IndInv, SessionInv, CopyOf, Undo
<1>2. \A r \in DOMAIN Held(s) : Advances(Held(s)[r], new[r]) BY <1>1, EditedAdvances
<1>3. /\ accidents' \in [Rows -> SUBSET {"raced", "edited", "outrun", "crossed"}]
      /\ \A r \in Rows : Raced(r) => Raced(r)'
      /\ \A r \in Overtaken(s) : Raced(r)'
  BY HappensType, OvertakenRows DEF Undo, Raced
<1>4. RowsAdvance BY <1>2, <1>3, StoreAdvances DEF Undo
<1> QED BY <1>4, CloseKeeps DEF Undo, IndInv

LEMMA PreviewImportKeeps ==
    ASSUME IndInv, NEW mode \in {"upsert", "insert_only", "replace_all"},
           NEW W \in SUBSET Cases, PreviewImport(mode, W)
    PROVE  IndInv' /\ RowsAdvance
<1>1. RowsAdvance BY RowsUnchanged DEF PreviewImport
<1>2. \A t \in Sessions : SessionInv(t)' BY <1>1, KeptSession DEF PreviewImport, IndInv
<1>3. PreviewInv'
  <2>1. /\ preview'.mode = mode
        /\ preview'.seen = [r \in LiveRows |-> rows[r]]
        /\ preview'.updates \subseteq Cases /\ preview'.inserts \subseteq Cases
    BY DEF PreviewImport, Snapshot
  <2>2. \A r \in LiveRows : StillCopyOf(rows[r], r) BY <1>1, LiveRowsTyped, CopySurvives
  <2> QED BY <2>1, <2>2 DEF PreviewInv, CopyOf, StillCopyOf
<1>4. requests' \in Nat BY DEF PreviewImport, Request, IndInv
<1> QED BY <1>1, <1>2, <1>3, <1>4 DEF IndInv, PreviewImport, RowsAdvance

LEMMA CommitImportKeeps ==
    ASSUME IndInv, NEW target \in [Cases -> Rows], NEW place \in [Cases -> Rows],
           NEW claim \in BOOLEAN, NEW x \in WorkbookResults,
           CommitImport(target, place, claim, x)
    PROVE  IndInv' /\ RowsAdvance
<1> DEFINE updated == {target[c] : c \in preview.updates}
           inserted == {place[c] : c \in preview.inserts}
           put(r) == NewRow(CHOOSE c \in preview.inserts : place[c] = r, requests, claim, x)
           over(r) == [Bumped(rows[r]) EXCEPT !.json.edit = requests, !.json.claim = claim,
                                              !.result = x]
<1>1. rows' = [r \in Rows |->
          IF r \in inserted THEN put(r)
          ELSE IF r \in updated THEN over(r)
          ELSE IF preview.mode = "replace_all" /\ Live(r) THEN [rows[r] EXCEPT !.live = FALSE]
          ELSE rows[r]]
  BY DEF CommitImport
<1>2. x \in Results /\ requests \in Nat /\ preview.updates \subseteq Cases
      /\ preview.inserts \subseteq Cases
  BY DEF WorkbookResults, Results, RunVerdicts, IndInv, PreviewInv
<1>3. ASSUME NEW r \in inserted
      PROVE  rows'[r] \in RowType /\ rows[r] \notin RowType
  <2>1. PICK c \in preview.inserts : place[c] = r BY <1>3
  <2>2. (CHOOSE d \in preview.inserts : place[d] = r) \in Cases BY <1>2, <2>1
  <2>3. put(r) \in RowType BY <1>2, <2>2 DEF NewRow, RowType
  <2>4. rows[r] = None BY <2>1 DEF CommitImport
  <2> QED BY <1>1, <1>2, <2>1, <2>3, <2>4, NoneAssumption
<1>4. ASSUME NEW r \in updated, r \notin inserted
      PROVE  rows'[r] \in RowType /\ Advances(rows[r], rows'[r])
  <2>1. Live(r) /\ r \in Rows BY <1>2, <1>4 DEF CommitImport, OfCase, LiveRows
  <2>2. rows[r] \in RowType BY <2>1, LiveRowsTyped DEF CopyOf
  <2>3. Bumped(rows[r]) \in RowType /\ Bumped(rows[r]).version = rows[r].version + 1
    BY <2>2, BumpedAdvances DEF Advances
  <2>4. over(r) \in RowType /\ over(r).version = rows[r].version + 1
    BY <1>2, <2>3 DEF RowType
  <2>5. rows[r].version \in Nat BY <2>2 DEF RowType
  <2>6. rows'[r] = over(r)
    <3> HIDE DEF inserted, updated, put, over
    <3> QED BY <1>1, <1>4, <2>1
  <2> QED BY <2>4, <2>5, <2>6 DEF Advances
<1>5. ASSUME NEW r \in Rows, r \notin inserted, r \notin updated, rows[r] \in RowType
      PROVE  rows'[r] \in RowType /\ Advances(rows[r], rows'[r])
  <2>1. CASE preview.mode = "replace_all" /\ Live(r)
    <3>1. rows'[r] = [rows[r] EXCEPT !.live = FALSE] BY <1>1, <1>5, <2>1
    <3> QED BY <1>5, <3>1 DEF RowType, Advances, Content
  <2>2. CASE ~(preview.mode = "replace_all" /\ Live(r))
    <3>1. rows'[r] = rows[r] BY <1>1, <1>5, <2>2
    <3> QED BY <1>5, <3>1 DEF Advances
  <2> QED BY <2>1, <2>2
<1>6. \A r \in Rows : rows'[r] \in RowType \cup {None}
  <2>1. ASSUME NEW r \in Rows, r \notin inserted, r \notin updated, rows[r] \notin RowType
        PROVE  rows'[r] \in RowType \cup {None}
    <3>1. rows[r] = None BY <2>1 DEF IndInv
    <3>2. ~Live(r) BY <3>1 DEF Live
    <3> QED BY <1>1, <2>1, <3>1, <3>2
  <2> QED BY <1>3, <1>4, <1>5, <2>1
<1>7. rows' \in [Rows -> RowType \cup {None}]
  <2> HIDE DEF inserted, updated, put, over
  <2> QED BY <1>1, <1>6
<1>8. accidents' = Happens("edited", updated \cup inserted) /\ updated \cup inserted \subseteq Rows
  BY <1>2 DEF CommitImport
<1>9. RowsAdvance
  <2> HIDE DEF inserted, updated, put, over
  <2>1. accidents' \in [Rows -> SUBSET {"raced", "edited", "outrun", "crossed"}]
        /\ \A r \in Rows : Raced(r) => Raced(r)'
    BY <1>8, HappensType DEF Raced
  <2> QED BY <1>3, <1>4, <1>5, <1>7, <2>1 DEF RowsAdvance
<1>10. preview' = NoPreview /\ UNCHANGED <<session, batch, synthetic, requests>>
  BY DEF CommitImport
<1>11. \A t \in Sessions : SessionInv(t)' BY <1>9, <1>10, KeptSession DEF IndInv
<1>12. PreviewInv' BY <1>10 DEF PreviewInv, NoPreview
<1> QED BY <1>7, <1>9, <1>10, <1>11, <1>12 DEF IndInv, RowsAdvance

LEMMA RecordLoadKeeps ==
    ASSUME IndInv, NEW s \in Sessions, NEW c \in Cases, NEW v \in RunVerdicts,
           NEW stamp \in Stamps, RecordLoad(s, c, v, stamp)
    PROVE  IndInv' /\ RowsAdvance
<1>1. OfCase(c) \in SUBSET Rows /\ \A q \in OfCase(c) : CopyOf(rows[q], q)
  BY LiveRowsTyped DEF OfCase
<1>2. requests' \in Nat BY DEF RecordLoad, Request, IndInv
<1> QED BY <1>1, <1>2, OpenKeeps DEF RecordLoad

LEMMA RecordKeeps ==
    ASSUME IndInv, NEW s \in Sessions, Record(s)
    PROVE  IndInv' /\ RowsAdvance
<1> DEFINE new == [r \in DOMAIN Held(s) |->
                      Recorded(Held(s)[r], session[s].arg.verdict, session[s].arg.stamp)]
<1>1. session[s].arg.verdict \in RunVerdicts /\ session[s].arg.stamp \in Stamps
      /\ \A r \in DOMAIN Held(s) : Held(s)[r] \in RowType
  BY DEF IndInv, SessionInv, CopyOf, Record
<1>2. \A r \in DOMAIN Held(s) : Advances(Held(s)[r], new[r]) BY <1>1, RecordedAdvances
<1>3. /\ accidents' \in [Rows -> SUBSET {"raced", "edited", "outrun", "crossed"}]
      /\ \A r \in Rows : Raced(r) => Raced(r)'
      /\ \A r \in Overtaken(s) : Raced(r)'
  BY OvertakenRows DEF Record, Raced, IndInv
<1>4. RowsAdvance BY <1>2, <1>3, StoreAdvances DEF Record
<1> QED BY <1>4, CloseKeeps DEF Record, IndInv

LEMMA ReviewLoadKeeps ==
    ASSUME IndInv, NEW s \in Sessions, NEW R \in SUBSET LiveRows, NEW approve \in BOOLEAN,
           ReviewLoad(s, R, approve) \/ ExemptLoad(s, R, approve)
    PROVE  IndInv' /\ RowsAdvance
<1>1. R \in SUBSET Rows /\ \A q \in R : CopyOf(rows[q], q) BY LiveRowsTyped
<1>2. requests' \in Nat BY DEF ReviewLoad, ExemptLoad, Request, IndInv
<1> QED BY <1>1, <1>2, OpenKeeps DEF ReviewLoad, ExemptLoad

LEMMA ReviewKeeps ==
    ASSUME IndInv, NEW s \in Sessions, Review(s)
    PROVE  IndInv' /\ RowsAdvance
<1> DEFINE new == [r \in DOMAIN Held(s) |-> Signed(Held(s)[r], session[s].arg)]
<1>1. \A r \in DOMAIN Held(s) : Held(s)[r] \in RowType BY DEF IndInv, SessionInv, CopyOf
<1>2. \A r \in DOMAIN Held(s) : Advances(Held(s)[r], new[r]) BY <1>1, SignedAdvances
<1>3. /\ accidents' \in [Rows -> SUBSET {"raced", "edited", "outrun", "crossed"}]
      /\ \A r \in Rows : Raced(r) => Raced(r)'
      /\ \A r \in Overtaken(s) : Raced(r)'
  BY HappensType, OvertakenRows DEF Review, Raced
<1>4. RowsAdvance BY <1>2, <1>3, StoreAdvances DEF Review
<1> QED BY <1>4, CloseKeeps DEF Review, IndInv

LEMMA ExemptKeeps ==
    ASSUME IndInv, NEW s \in Sessions, Exempt(s)
    PROVE  IndInv' /\ RowsAdvance
<1> DEFINE new == [r \in DOMAIN Held(s) |-> Exempted(Held(s)[r], session[s].arg.approve)]
<1>1. \A r \in DOMAIN Held(s) : Held(s)[r] \in RowType BY DEF IndInv, SessionInv, CopyOf
<1>2. \A r \in DOMAIN Held(s) : Advances(Held(s)[r], new[r]) BY <1>1, ExemptedAdvances
<1>3. /\ accidents' \in [Rows -> SUBSET {"raced", "edited", "outrun", "crossed"}]
      /\ \A r \in Rows : Raced(r) => Raced(r)'
      /\ \A r \in Overtaken(s) : Raced(r)'
  BY HappensType, OvertakenRows DEF Exempt, Raced
<1>4. RowsAdvance BY <1>2, <1>3, StoreAdvances DEF Exempt
<1>5. synthetic' \in [Rows -> Nat] BY DEF Exempt, IndInv
<1> QED BY <1>4, <1>5, CloseKeeps DEF Exempt, IndInv

LEMMA SyncLoadKeeps ==
    ASSUME IndInv, NEW s \in Sessions, SyncLoad(s)
    PROVE  IndInv' /\ RowsAdvance
<1>1. PICK R \in SUBSET LiveRows : Open(s, "sync", R, None)
  BY DEF SyncLoad, FirstOf
<1>2. R \in SUBSET Rows /\ \A q \in R : CopyOf(rows[q], q) BY LiveRowsTyped
<1> QED BY <1>1, <1>2, OpenKeeps DEF SyncLoad, IndInv

LEMMA SyncKeeps ==
    ASSUME IndInv, NEW s \in Sessions, Sync(s)
    PROVE  IndInv' /\ RowsAdvance
<1> DEFINE new == [r \in DOMAIN Held(s) |-> [Held(s)[r] EXCEPT !.asked = TRUE]]
<1>1. \A r \in DOMAIN Held(s) : Held(s)[r] \in RowType BY DEF IndInv, SessionInv, CopyOf
<1>2. \A r \in DOMAIN Held(s) :
          new[r] \in RowType /\ new[r].version = Held(s)[r].version
          /\ Content(new[r]) = Content(Held(s)[r])
  BY <1>1 DEF RowType, Content
<1>3. \A r \in DOMAIN Held(s) : Advances(Held(s)[r], new[r]) BY <1>2 DEF Advances
<1>4. Overtaken(s) \subseteq DOMAIN Held(s) BY DEF Overtaken
<1>5. RowsAdvance
  <2> HIDE DEF new
  <2> QED BY <1>2, <1>3, <1>4, StoreAdvances DEF Sync, IndInv, Raced, new
<1> QED BY <1>5, CloseKeeps DEF Sync, IndInv

-----------------------------------------------------------------------------
(* The specification.                                                      *)

LEMMA InitIndInv == Init => IndInv
<1> SUFFICES ASSUME Init PROVE IndInv OBVIOUS
<1>1. rows \in [Rows -> RowType \cup {None}]
  <2>1. PICK c \in Cases, r \in Rows :
            rows = [q \in Rows |-> IF q = r THEN NewRow(c, 0, FALSE, "none") ELSE None]
    BY DEF Init
  <2>2. NewRow(c, 0, FALSE, "none") \in RowType BY DEF NewRow, RowType, Results
  <2> QED BY <2>1, <2>2
<1>2. \A s \in Sessions : SessionInv(s) BY DEF Init, SessionInv, Idle, Held, In
<1>3. PreviewInv BY DEF Init, PreviewInv, NoPreview
<1>4. accidents \in [Rows -> SUBSET {"raced", "edited", "outrun", "crossed"}]
      /\ synthetic \in [Rows -> Nat] /\ requests \in Nat /\ DOMAIN session = Sessions
  BY DEF Init
<1>5. DOMAIN batch = {} BY DEF Init
<1> QED BY <1>1, <1>2, <1>3, <1>4, <1>5 DEF IndInv

LEMMA NextIndInv == IndInv /\ [Next]_vars => IndInv' /\ RowsAdvance
<1> SUFFICES ASSUME IndInv, [Next]_vars PROVE IndInv' /\ RowsAdvance OBVIOUS
<1>1. CASE Edits BY <1>1, LookKeeps, PatchLoadKeeps, PatchKeeps DEF Edits
<1>2. CASE Churn BY <1>2, CreateRowKeeps, DeleteRestoreKeeps DEF Churn
<1>3. CASE Batches BY <1>3, BatchLoadKeeps, BatchKeeps, UndoLoadKeeps, UndoKeeps DEF Batches
<1>4. CASE Imports BY <1>4, PreviewImportKeeps, CommitImportKeeps DEF Imports
<1>5. CASE Evidence BY <1>5, RecordLoadKeeps, RecordKeeps DEF Evidence
<1>6. CASE SignOffs
  BY <1>6, ReviewLoadKeeps, ReviewKeeps, ExemptKeeps, SyncLoadKeeps, SyncKeeps DEF SignOffs
<1>7. CASE UNCHANGED vars
  <2>1. RowsAdvance BY <1>7, RowsUnchanged DEF vars
  <2>2. \A t \in Sessions : SessionInv(t)' BY <1>7, <2>1, KeptSession DEF vars, IndInv
  <2>3. PreviewInv' BY <1>7, <2>1, KeptPreview DEF vars, IndInv
  <2> QED BY <1>7, <2>1, <2>2, <2>3 DEF vars, IndInv, RowsAdvance
<1> QED BY <1>1, <1>2, <1>3, <1>4, <1>5, <1>6, <1>7 DEF Next

LEMMA Invariance == Spec => []IndInv
  BY InitIndInv, NextIndInv, PTL DEF Spec

\* Every row, and every copy of one a request or a preview holds, has its type.
THEOREM TypeCorrect == Spec => []TypeOK
<1>1. IndInv => TypeOK BY DEF IndInv, SessionInv, PreviewInv, CopyOf, TypeOK
<1> QED BY <1>1, Invariance, PTL

\* For any rows and any number of requests, a version number stands for one
\* content of a row: what the guard of update_item and the snapshot of an
\* import rely on.
THEOREM VersionNamesContentHolds == Spec => []VersionNamesContent
<1>1. IndInv => VersionNamesContent
  <2> SUFFICES ASSUME IndInv, NEW r \in Rows, rows[r] # None, ~Raced(r)
               PROVE  /\ \A s \in Sessions :
                            r \in DOMAIN Held(s) /\ Held(s)[r].version = rows[r].version =>
                                Content(Held(s)[r]) = Content(rows[r])
                      /\ r \in DOMAIN preview.seen /\ preview.seen[r].version = rows[r].version =>
                             Content(preview.seen[r]) = Content(rows[r])
    BY DEF VersionNamesContent
  <2> QED BY DEF IndInv, SessionInv, PreviewInv, CopyOf, Faithful
<1> QED BY <1>1, Invariance, PTL

\* Only the edit itself ends an edit.
LEMMA OnlyPatchEnds ==
    ASSUME IndInv, Next, NEW s \in Sessions, In(s, "patch"), session'[s] # session[s]
    PROVE  \E r \in Rows : Patch(s, r)
<1>1. ASSUME NEW t \in Sessions, NEW op, NEW R, NEW arg, Open(t, op, R, arg), In(t, "idle")
      PROVE  FALSE
  BY <1>1 DEF Open, In, IndInv
<1>2. ASSUME NEW t \in Sessions, Close(t) PROVE t = s
  BY <1>2 DEF Close, IndInv
<1>3. ASSUME NEW t \in Sessions, NEW r \in Rows, Look(t, r) \/ PatchLoad(t, r) PROVE FALSE
  <2>1. CASE Look(t, r) BY <1>1, <2>1 DEF Look
  <2>2. CASE PatchLoad(t, r)
    <3>1. t # s BY <2>2 DEF PatchLoad, In
    <3>2. \E v : session' = [session EXCEPT ![t] = v] BY <2>2 DEF PatchLoad, Close
    <3> QED BY <3>1, <3>2 DEF IndInv
  <2> QED BY <1>3, <2>1, <2>2
<1>4. CASE Edits
  <2>1. PICK t \in Sessions, r \in Rows : Patch(t, r) BY <1>3, <1>4 DEF Edits
  <2> QED BY <1>2, <2>1 DEF Patch
<1>5. CASE Churn BY <1>5 DEF Churn, CreateRow, DeleteRow, RestoreRow
<1>6. CASE Batches
  BY <1>1, <1>2, <1>6 DEF Batches, BatchLoad, Batch, UndoLoad, Undo, In
<1>7. CASE Imports BY <1>7 DEF Imports, PreviewImport, CommitImport
<1>8. CASE Evidence BY <1>1, <1>2, <1>8 DEF Evidence, RecordLoad, Record, In
<1>9. CASE SignOffs
  BY <1>1, <1>2, <1>9 DEF SignOffs, ReviewLoad, Review, ExemptLoad, Exempt, SyncLoad, Sync, In
<1> QED BY <1>4, <1>5, <1>6, <1>7, <1>8, <1>9 DEF Next

\* For any rows and any number of requests, an accepted edit and an accepted
\* import find the rows as they were shown.
THEOREM SeenBeforeWrittenHolds == Spec => SeenBeforeWritten
<1> DEFINE EditSaw == \A s \in Sessions, r \in Rows :
                session[s].op = "patch" /\ session'[s] # session[s] /\ rows'[r] # rows[r] /\ ~Raced(r) =>
                    Content(rows[r]) = Content(session[s].arg)
           ImportSaw == Previewed /\ ~Previewed' =>
                /\ LiveRows = DOMAIN preview.seen
                /\ \A r \in LiveRows : ~Raced(r) => Content(rows[r]) = Content(preview.seen[r])
<1>1. ASSUME IndInv, Next PROVE EditSaw
  <2> SUFFICES ASSUME NEW s \in Sessions, NEW r \in Rows, In(s, "patch"),
                      session'[s] # session[s], rows'[r] # rows[r], ~Raced(r)
               PROVE  Content(rows[r]) = Content(session[s].arg)
    BY DEF In
  <2>1. PICK q \in Rows : Patch(s, q) BY <1>1, OnlyPatchEnds
  <2>2. Claims(s, q) BY <2>1 DEF Patch
  <2>3. \E new : Store(s, new) BY <2>1, <2>2 DEF Patch
  <2>4. r \in DOMAIN Held(s) BY <2>3 DEF Store
  <2>5. q \in DOMAIN Held(s) BY <2>1 DEF Patch
  <2>6. q = r /\ CopyOf(session[s].arg, r) /\ session[s].arg.version = Held(s)[r].version
    BY <1>1, <2>4, <2>5 DEF IndInv, SessionInv
  <2> QED BY <2>2, <2>6 DEF Claims, CopyOf, Faithful
<1>2. ASSUME IndInv, Next PROVE ImportSaw
  <2> SUFFICES ASSUME Previewed, ~Previewed'
               PROVE  /\ LiveRows = DOMAIN preview.seen
                      /\ \A r \in LiveRows : ~Raced(r) => Content(rows[r]) = Content(preview.seen[r])
    OBVIOUS
  <2>1. preview' # preview BY DEF Previewed
  <2>2. Imports
    BY <1>2, <2>1 DEF Next, Edits, Look, PatchLoad, Patch, Churn, CreateRow, DeleteRow, RestoreRow,
       Batches, BatchLoad, Batch, UndoLoad, Undo, Evidence, RecordLoad, Record,
       SignOffs, ReviewLoad, Review, ExemptLoad, Exempt, SyncLoad, Sync
  <2>3. Fresh
    <3>1. ASSUME NEW mode \in {"upsert", "insert_only", "replace_all"}, NEW W \in SUBSET Cases,
                 PreviewImport(mode, W)
          PROVE  FALSE
      BY <3>1 DEF PreviewImport, Previewed
    <3> QED BY <2>2, <3>1 DEF Imports, CommitImport
  <2> QED BY <1>2, <2>3 DEF Fresh, IndInv, PreviewInv, CopyOf, Faithful
<1>3. IndInv /\ [Next]_vars => [EditSaw /\ ImportSaw]_vars
  <2> HIDE DEF EditSaw, ImportSaw
  <2> QED BY <1>1, <1>2
<1> QED BY <1>3, Invariance, PTL DEF Spec, SeenBeforeWritten

-----------------------------------------------------------------------------
(* Sign-offs.                                                              *)

(* What a row's sign-offs say of the row, given what happened to it: a      *)
(* pending review is about the verdict it shows, and that is some verdict;  *)
(* an approved exemption left one.                                          *)
Settled(row, happened) ==
    /\ row.review = "pending" /\ happened \cap {"edited", "outrun", "crossed"} = {} =>
           row.verdict = row.result /\ row.verdict # "none"
    /\ row.exempt = "approved" /\ "edited" \notin happened => row.result # "none"

(* A request that decides on an exemption knows of the run record of a row, *)
(* or there is none, or the row was written since.                          *)
Informed(s, r) ==
    In(s, "exempt") /\ r \in DOMAIN Held(s) =>
        \/ r \in session[s].arg.has
        \/ synthetic[r] = 0
        \/ rows[r].version > Held(s)[r].version

SignedInv ==
    \A r \in Rows : ~Raced(r) =>
        /\ rows[r] \in RowType => Settled(rows[r], accidents[r])
        /\ synthetic[r] <= 1
        /\ \A s \in Sessions : Informed(s, r)

LEMMA FlushColumns ==
    ASSUME NEW k \in RowType, NEW old \in RowType, NEW new \in RowType
    PROVE  LET row == Flush(k, old, new)
           IN  /\ row.result = IF new.result = old.result THEN k.result ELSE new.result
               /\ row.review = IF new.review = old.review THEN k.review ELSE new.review
               /\ row.verdict = IF new.verdict = old.verdict THEN k.verdict ELSE new.verdict
               /\ row.exempt = IF new.exempt = old.exempt THEN k.exempt ELSE new.exempt
  BY DEF Flush, RowType

(* Writes that leave the signed columns alone, but for closing a review.    *)
SignsNothing(old, new) ==
    /\ new \in RowType
    /\ new.result = old.result /\ new.verdict = old.verdict /\ new.exempt = old.exempt
    /\ new.review = old.review \/ new.review # "pending"

LEMMA FlushSettles ==
    ASSUME NEW k \in RowType, NEW old \in RowType, NEW new, SignsNothing(old, new),
           NEW a, NEW b, a \subseteq b, Settled(k, a)
    PROVE  Settled(Flush(k, old, new), b)
<1>1. new \in RowType BY DEF SignsNothing
<1> DEFINE row == Flush(k, old, new)
<1>2. row.result = k.result /\ row.verdict = k.verdict /\ row.exempt = k.exempt
      /\ (row.review = "pending" => k.review = "pending")
  BY <1>1, FlushColumns DEF SignsNothing
<1>3. b \cap {"edited", "outrun", "crossed"} = {} => a \cap {"edited", "outrun", "crossed"} = {}
  OBVIOUS
<1> QED BY <1>2, <1>3 DEF Settled

LEMMA EditedSigns ==
    ASSUME NEW old \in RowType, NEW e \in Nat
    PROVE  SignsNothing(old, Edited(old, e))
<1>1. Edited(old, e) \in RowType BY EditedAdvances DEF Advances
<1> QED BY <1>1 DEF SignsNothing, Edited, Bumped, RowType

LEMMA ClaimedSigns ==
    ASSUME NEW old \in RowType
    PROVE  SignsNothing(old, Claimed(old))
<1>1. Claimed(old) \in RowType BY ClaimedAdvances DEF Advances
<1> QED BY <1>1 DEF SignsNothing, Claimed, Bumped, RowType

LEMMA SignedSigns ==
    ASSUME NEW old \in RowType, NEW approve
    PROVE  SignsNothing(old, Signed(old, approve))
<1>1. Signed(old, approve) \in RowType BY SignedAdvances DEF Advances
<1> QED BY <1>1 DEF SignsNothing, Signed, Bumped, RowType

LEMMA AskedSigns ==
    ASSUME NEW old \in RowType
    PROVE  SignsNothing(old, [old EXCEPT !.asked = TRUE])
  BY DEF SignsNothing, RowType

\* An exemption decides about the verdict it saw on the row.
LEMMA ExemptedColumns ==
    ASSUME NEW old \in RowType, NEW approve
    PROVE  LET new == Exempted(old, approve)
           IN  /\ new \in RowType
               /\ new.review = old.review /\ new.verdict = old.verdict
               /\ new.exempt = IF approve THEN "approved" ELSE "rejected"
               /\ new.result = IF LandsUntestable(old, approve) THEN "Untestable" ELSE old.result
               /\ new.version > old.version
<1> DEFINE mid == [Bumped(old) EXCEPT !.exempt = IF approve THEN "approved" ELSE "rejected"]
<1>1. old.version \in Nat BY DEF RowType
<1>2. mid \in RowType /\ mid.version = old.version + 1 /\ mid.result = old.result
      /\ mid.review = old.review /\ mid.verdict = old.verdict
      /\ mid.exempt = (IF approve THEN "approved" ELSE "rejected")
  <2>1. Bumped(old) \in RowType BY BumpedAdvances DEF Advances
  <2>2. Bumped(old).version = old.version + 1 /\ Bumped(old).result = old.result
        /\ Bumped(old).review = old.review /\ Bumped(old).verdict = old.verdict
    BY DEF Bumped, RowType
  <2> QED BY <2>1, <2>2 DEF RowType
<1>3. Exempted(old, approve) \in RowType BY ExemptedAdvances DEF Advances
<1>4. CASE LandsUntestable(old, approve)
  <2> HIDE DEF mid
  <2>1. mid.result # "Untestable" BY <1>2, <1>4 DEF LandsUntestable
  <2>2. Exempted(old, approve)
          = Bumped([mid EXCEPT !.result = "Untestable", !.json.stamp = "exemption"])
    BY <1>4, <2>1 DEF Exempted, ServerFields, mid
  <2>3. Exempted(old, approve).version = mid.version + 1
        /\ Exempted(old, approve).result = "Untestable"
        /\ Exempted(old, approve).review = mid.review
        /\ Exempted(old, approve).verdict = mid.verdict
        /\ Exempted(old, approve).exempt = mid.exempt
    BY <1>2, <2>2 DEF Bumped, RowType
  <2> QED BY <1>1, <1>2, <1>3, <1>4, <2>3
<1>5. CASE ~LandsUntestable(old, approve)
  <2>1. Exempted(old, approve) = mid BY <1>5 DEF Exempted
  <2> QED BY <1>1, <1>2, <1>3, <1>5, <2>1
<1> QED BY <1>4, <1>5

LEMMA ExemptedSettles ==
    ASSUME NEW k \in RowType, NEW old \in RowType, NEW approve, NEW a, NEW b, a \subseteq b,
           Settled(k, a), k.result = old.result
    PROVE  Settled(Flush(k, old, Exempted(old, approve)), b)
<1> DEFINE new == Exempted(old, approve)
           row == Flush(k, old, new)
<1>1. new \in RowType /\ new.review = old.review /\ new.verdict = old.verdict
      /\ new.exempt = (IF approve THEN "approved" ELSE "rejected")
      /\ new.result = (IF LandsUntestable(old, approve) THEN "Untestable" ELSE old.result)
  BY ExemptedColumns
<1> HIDE DEF new
<1>2. row.review = k.review /\ row.verdict = k.verdict
      /\ row.result = (IF LandsUntestable(old, approve) THEN "Untestable" ELSE k.result)
      /\ row.exempt = (IF new.exempt = old.exempt THEN k.exempt ELSE new.exempt)
  BY <1>1, FlushColumns DEF LandsUntestable
<1> HIDE DEF row
<1>3. b \cap {"edited", "outrun", "crossed"} = {} => a \cap {"edited", "outrun", "crossed"} = {}
  OBVIOUS
<1>4. row.review = "pending" /\ b \cap {"edited", "outrun", "crossed"} = {} =>
          row.verdict = row.result /\ row.verdict # "none"
  BY <1>2, <1>3 DEF Settled, LandsUntestable
<1>5. row.exempt = "approved" /\ "edited" \notin b => row.result # "none"
  BY <1>1, <1>2 DEF Settled, LandsUntestable
<1> QED BY <1>4, <1>5 DEF Settled, row, new

\* A run asks for the review of the verdict it brings.
LEMMA RecordedColumns ==
    ASSUME NEW old \in RowType, NEW v \in RunVerdicts, NEW st \in Stamps
    PROVE  LET new == Recorded(old, v, st)
           IN  /\ new \in RowType
               /\ new.result = v /\ new.exempt = old.exempt
               /\ IF v \in Reviewed THEN new.review = "pending" /\ new.verdict = v
                  ELSE new.review = old.review /\ new.verdict = old.verdict
<1> DEFINE mid == ServerFields(old, v, st)
<1>1. v \in Results BY DEF Results
<1>2. mid \in RowType BY <1>1, ServerFieldsAdvance DEF Advances
<1>3. mid.result = v /\ mid.exempt = old.exempt /\ mid.review = old.review
      /\ mid.verdict = old.verdict
  <2>1. CASE old.result = v /\ old.json.stamp = st BY <2>1 DEF ServerFields
  <2>2. CASE ~(old.result = v /\ old.json.stamp = st)
    BY <2>2 DEF ServerFields, Bumped, RowType
  <2> QED BY <2>1, <2>2
<1>4. Recorded(old, v, st) \in RowType BY RecordedAdvances DEF Advances
<1> HIDE DEF mid
<1>5. Recorded(old, v, st)
        = IF v \notin Reviewed \/ (mid.review = "pending" /\ mid.verdict = v) THEN mid
          ELSE [mid EXCEPT !.review = "pending", !.verdict = v]
  BY DEF Recorded, Requested, mid
<1> QED BY <1>2, <1>3, <1>4, <1>5 DEF RowType

LEMMA RecordedSettles ==
    ASSUME NEW k \in RowType, NEW old \in RowType, NEW v \in RunVerdicts, NEW st \in Stamps,
           NEW b, k.result = old.result,
           v \notin Reviewed /\ k.review = "pending" => "outrun" \in b,
           k.verdict # old.verdict => "crossed" \in b
    PROVE  Settled(Flush(k, old, Recorded(old, v, st)), b)
<1> DEFINE new == Recorded(old, v, st)
           row == Flush(k, old, new)
<1>1. new \in RowType /\ new.result = v /\ new.exempt = old.exempt
      /\ IF v \in Reviewed THEN new.review = "pending" /\ new.verdict = v
         ELSE new.review = old.review /\ new.verdict = old.verdict
  BY RecordedColumns
<1> HIDE DEF new
<1>2. row.result = v
      /\ row.review = (IF new.review = old.review THEN k.review ELSE new.review)
      /\ row.verdict = (IF new.verdict = old.verdict THEN k.verdict ELSE new.verdict)
  BY <1>1, FlushColumns
<1> HIDE DEF row
<1>3. v # "none" BY DEF RunVerdicts
<1> QED BY <1>1, <1>2, <1>3 DEF Settled, row, new

\* What is left of the sign-offs of the rows after a step.
RowsSettle ==
    \A r \in Rows : rows'[r] \in RowType /\ ~Raced(r)' => Settled(rows'[r], accidents'[r])

LEMMA NotOvertaken ==
    ASSUME IndInv, NEW s \in Sessions, NEW r \in DOMAIN Held(s)
    PROVE  /\ r \in Rows /\ rows[r] \in RowType /\ Held(s)[r] \in RowType
           /\ ~Raced(r) => Held(s)[r].version <= rows[r].version
           /\ ~Raced(r) /\ r \notin Overtaken(s) =>
                  rows[r].result = Held(s)[r].result /\ rows[r].version = Held(s)[r].version
  BY DEF IndInv, SessionInv, CopyOf, Faithful, Overtaken, Content

LEMMA StoreSettles ==
    ASSUME IndInv, SignedInv, RowsAdvance, NEW s \in Sessions, NEW new, Store(s, new),
           \A r \in Rows \ DOMAIN Held(s) : accidents[r] \subseteq accidents'[r],
           \A r \in DOMAIN Held(s) : ~Raced(r)' =>
               Settled(Flush(rows[r], Held(s)[r], new[r]), accidents'[r])
    PROVE  RowsSettle
<1> SUFFICES ASSUME NEW r \in Rows, rows'[r] \in RowType, ~Raced(r)'
             PROVE  Settled(rows'[r], accidents'[r])
  BY DEF RowsSettle
<1>1. CASE r \in DOMAIN Held(s)
  <2>1. rows'[r] = Flush(rows[r], Held(s)[r], new[r]) BY <1>1 DEF Store
  <2> QED BY <1>1, <2>1
<1>2. CASE r \notin DOMAIN Held(s)
  <2>1. rows'[r] = rows[r] BY <1>2 DEF Store
  <2>2. Settled(rows[r], accidents[r]) BY <2>1 DEF SignedInv, RowsAdvance
  <2>3. accidents[r] \subseteq accidents'[r] BY <1>2
  <2> QED BY <2>1, <2>2, <2>3 DEF Settled
<1> QED BY <1>1, <1>2

LEMMA StoreSignsNothing ==
    ASSUME IndInv, SignedInv, RowsAdvance, NEW s \in Sessions, NEW new, Store(s, new),
           \A r \in Rows : accidents[r] \subseteq accidents'[r],
           \A r \in DOMAIN Held(s) : SignsNothing(Held(s)[r], new[r])
    PROVE  RowsSettle
<1>1. ASSUME NEW r \in DOMAIN Held(s), ~Raced(r)'
      PROVE  Settled(Flush(rows[r], Held(s)[r], new[r]), accidents'[r])
  <2>1. r \in Rows /\ rows[r] \in RowType /\ Held(s)[r] \in RowType BY NotOvertaken
  <2>2. Settled(rows[r], accidents[r]) BY <1>1, <2>1 DEF SignedInv, RowsAdvance
  <2> QED BY <2>1, <2>2, FlushSettles
<1> QED BY <1>1, StoreSettles

\* A step that records no exemption and loads none.
LEMMA SignedKept ==
    ASSUME IndInv, SignedInv, RowsAdvance, RowsSettle, synthetic' = synthetic,
           \A t \in Sessions : session'[t] = session[t] \/ session'[t].op # "exempt"
    PROVE  SignedInv'
<1> SUFFICES ASSUME NEW r \in Rows, ~Raced(r)'
             PROVE  /\ rows'[r] \in RowType => Settled(rows'[r], accidents'[r])
                    /\ synthetic'[r] <= 1
                    /\ \A t \in Sessions : Informed(t, r)'
  BY DEF SignedInv, Settled
<1>1. ~Raced(r) BY DEF RowsAdvance
<1>2. ASSUME NEW t \in Sessions, session'[t] = session[t], In(t, "exempt"), r \in DOMAIN Held(t)
      PROVE  \/ r \in session[t].arg.has
             \/ synthetic[r] = 0
             \/ rows'[r].version > Held(t)[r].version
  <2>1. rows[r] \in RowType /\ Held(t)[r] \in RowType BY <1>2, NotOvertaken
  <2>2. rows'[r] \in RowType /\ Advances(rows[r], rows'[r]) BY <2>1 DEF RowsAdvance
  <2>3. rows[r].version \in Nat /\ rows'[r].version \in Nat /\ Held(t)[r].version \in Nat
    BY <2>1, <2>2 DEF RowType
  <2>4. rows'[r].version >= rows[r].version BY <2>2, <2>3 DEF Advances
  <2>5. Informed(t, r) BY <1>1 DEF SignedInv
  <2> QED BY <1>2, <2>3, <2>4, <2>5 DEF Informed
<1>3. \A t \in Sessions : Informed(t, r)' BY <1>2 DEF Informed, In, Held
<1> QED BY <1>1, <1>3 DEF RowsSettle, SignedInv

LEMMA LoadSigned ==
    ASSUME IndInv, SignedInv, UNCHANGED <<rows, accidents, synthetic>>,
           \A t \in Sessions : session'[t] = session[t] \/ session'[t].op # "exempt"
    PROVE  SignedInv'
<1>1. RowsAdvance BY RowsUnchanged
<1>2. RowsSettle BY DEF RowsSettle, SignedInv, Raced
<1> QED BY <1>1, <1>2, SignedKept

LEMMA OpenSession ==
    ASSUME IndInv, NEW s \in Sessions, NEW op, NEW R, NEW arg, Open(s, op, R, arg), op # "exempt"
    PROVE  \A t \in Sessions : session'[t] = session[t] \/ session'[t].op # "exempt"
  BY DEF IndInv, Open

LEMMA CloseSession ==
    ASSUME IndInv, NEW s \in Sessions, Close(s)
    PROVE  \A t \in Sessions : session'[t] = session[t] \/ session'[t].op # "exempt"
  BY DEF IndInv, Close, Idle

LEMMA HappensGrows ==
    ASSUME IndInv, NEW kind, NEW R, accidents' = Happens(kind, R)
    PROVE  \A r \in Rows : accidents[r] \subseteq accidents'[r]
  BY DEF Happens

LEMMA EditsSigned ==
    ASSUME IndInv, SignedInv, RowsAdvance, Edits
    PROVE  SignedInv'
<1>1. PICK s \in Sessions, r \in Rows : Look(s, r) \/ PatchLoad(s, r) \/ Patch(s, r) BY DEF Edits
<1>2. CASE Look(s, r) BY <1>2, OpenSession, LoadSigned DEF Look
<1>3. CASE PatchLoad(s, r)
  <2>1. \A t \in Sessions : session'[t] = session[t] \/ session'[t].op # "exempt"
    BY <1>3, CloseSession DEF PatchLoad, IndInv
  <2> QED BY <1>3, <2>1, LoadSigned DEF PatchLoad
<1>4. CASE Patch(s, r)
  <2>1. \A t \in Sessions : session'[t] = session[t] \/ session'[t].op # "exempt"
    BY <1>4, CloseSession DEF Patch
  <2>2. r \in DOMAIN Held(s) /\ \A q \in DOMAIN Held(s) : q = r
    BY <1>4 DEF Patch, IndInv, SessionInv
  <2>3. Held(s)[r] \in RowType /\ session[s].number \in Nat
    BY <2>2 DEF IndInv, SessionInv, CopyOf
  <2>4. CASE ~Claims(s, r) BY <1>4, <2>1, <2>4, LoadSigned DEF Patch
  <2>5. ASSUME NEW new, Store(s, new), SignsNothing(Held(s)[r], new[r]), UNCHANGED accidents
        PROVE  RowsSettle
    BY <2>2, <2>5, StoreSignsNothing
  <2>6. ASSUME Store(s, [q \in {r} |-> Edited(Held(s)[r], session[s].number)]),
               UNCHANGED accidents
        PROVE  RowsSettle
    BY <2>3, <2>5, <2>6, EditedSigns
  <2>7. ASSUME Store(s, [q \in {r} |-> Claimed(Held(s)[r])]), UNCHANGED accidents
        PROVE  RowsSettle
    BY <2>3, <2>5, <2>7, ClaimedSigns
  <2>8. ASSUME NEW x \in HandResults, Store(s, [q \in {r} |-> Resulted(Held(s)[r], x)]),
               accidents' = Happens("edited", {r})
        PROVE  RowsSettle
    <3>1. "edited" \in accidents'[r] BY <2>8 DEF Happens
    <3>2. \A row : Settled(row, accidents'[r]) BY <3>1 DEF Settled
    <3>3. \A q \in Rows : accidents[q] \subseteq accidents'[q] BY <2>8, HappensGrows
    <3> QED BY <2>2, <2>8, <3>2, <3>3, StoreSettles
  <2>9. Claims(s, r) => RowsSettle BY <1>4, <2>6, <2>7, <2>8 DEF Patch
  <2> QED BY <1>4, <2>1, <2>4, <2>9, SignedKept DEF Patch
<1> QED BY <1>1, <1>2, <1>3, <1>4

LEMMA ChurnSigned ==
    ASSUME IndInv, SignedInv, RowsAdvance, Churn
    PROVE  SignedInv'
<1>1. PICK r \in Rows : (\E c \in Cases : CreateRow(r, c)) \/ DeleteRow(r) \/ RestoreRow(r)
  BY DEF Churn
<1>2. session' = session /\ synthetic' = synthetic /\ accidents' = accidents
  BY <1>1 DEF CreateRow, DeleteRow, RestoreRow
<1>3. \A q \in Rows \ {r} : rows'[q] = rows[q]
  BY <1>1 DEF CreateRow, DeleteRow, RestoreRow, IndInv
<1>4. ~Raced(r) => Settled(rows'[r], accidents[r])
  <2>1. ASSUME NEW c \in Cases, CreateRow(r, c) PROVE Settled(rows'[r], accidents[r])
    <3>1. rows'[r] = NewRow(c, 0, FALSE, "none") BY <2>1 DEF CreateRow, IndInv
    <3> QED BY <3>1 DEF NewRow, Settled
  <2>2. CASE DeleteRow(r) \/ RestoreRow(r)
    <3>1. PICK b \in BOOLEAN : rows' = [rows EXCEPT ![r].live = b]
      BY <2>2 DEF DeleteRow, RestoreRow
    <3>2. rows[r] \in RowType BY <2>2 DEF DeleteRow, RestoreRow, Live, IndInv
    <3>3. rows'[r] = [rows[r] EXCEPT !.live = b] BY <3>1 DEF IndInv
    <3>4. ~Raced(r) => Settled(rows[r], accidents[r]) BY <3>2 DEF SignedInv
    <3> QED BY <3>2, <3>3, <3>4 DEF RowType, Settled
  <2> QED BY <1>1, <2>1, <2>2
<1>5. RowsSettle BY <1>2, <1>3, <1>4 DEF RowsSettle, SignedInv, Raced
<1> QED BY <1>2, <1>5, SignedKept

LEMMA BatchesSigned ==
    ASSUME IndInv, SignedInv, RowsAdvance, Batches
    PROVE  SignedInv'
<1>1. PICK s \in Sessions :
          (\E R \in SUBSET LiveRows : BatchLoad(s, R)) \/ Batch(s) \/ UndoLoad(s) \/ Undo(s)
  BY DEF Batches
<1>2. ASSUME NEW R, BatchLoad(s, R) PROVE SignedInv'
  BY <1>2, OpenSession, LoadSigned DEF BatchLoad
<1>3. CASE UndoLoad(s) BY <1>3, OpenSession, LoadSigned DEF UndoLoad
<1>4. CASE Batch(s)
  <2> DEFINE new == [r \in DOMAIN Held(s) |-> Edited(Held(s)[r], session[s].number)]
  <2>1. \A r \in DOMAIN Held(s) : SignsNothing(Held(s)[r], new[r])
    BY EditedSigns DEF IndInv, SessionInv, CopyOf
  <2>2. RowsSettle BY <1>4, <2>1, HappensGrows, StoreSignsNothing DEF Batch
  <2> QED BY <1>4, <2>2, CloseSession, SignedKept DEF Batch
<1>5. CASE Undo(s)
  <2> DEFINE new == [r \in DOMAIN Held(s) |-> Edited(Held(s)[r], session[s].arg[r])]
  <2>1. \A r \in DOMAIN Held(s) : SignsNothing(Held(s)[r], new[r])
    BY <1>5, EditedSigns DEF IndInv, SessionInv, CopyOf, Undo
  <2>2. RowsSettle BY <1>5, <2>1, HappensGrows, StoreSignsNothing DEF Undo
  <2> QED BY <1>5, <2>2, CloseSession, SignedKept DEF Undo
<1> QED BY <1>1, <1>2, <1>3, <1>4, <1>5

LEMMA ImportsSigned ==
    ASSUME IndInv, SignedInv, RowsAdvance, Imports
    PROVE  SignedInv'
<1>1. ASSUME NEW mode, NEW W, PreviewImport(mode, W) PROVE SignedInv'
  BY <1>1, LoadSigned DEF PreviewImport
<1>2. ASSUME NEW target \in [Cases -> Rows], NEW place \in [Cases -> Rows], NEW claim, NEW x,
             CommitImport(target, place, claim, x)
      PROVE  SignedInv'
  <2> DEFINE updated == {target[c] : c \in preview.updates}
             inserted == {place[c] : c \in preview.inserts}
             put(r) == NewRow(CHOOSE c \in preview.inserts : place[c] = r, requests, claim, x)
             over(r) == [Bumped(rows[r]) EXCEPT !.json.edit = requests, !.json.claim = claim,
                                                !.result = x]
  <2>1. rows' = [r \in Rows |->
            IF r \in inserted THEN put(r)
            ELSE IF r \in updated THEN over(r)
            ELSE IF preview.mode = "replace_all" /\ Live(r) THEN [rows[r] EXCEPT !.live = FALSE]
            ELSE rows[r]]
        /\ accidents' = Happens("edited", updated \cup inserted)
    BY <1>2 DEF CommitImport
  <2> HIDE DEF updated, inserted, put, over
  <2>2. ASSUME NEW r \in Rows, r \in updated \cup inserted
        PROVE  Settled(rows'[r], accidents'[r])
    <3>1. "edited" \in accidents'[r] BY <2>1, <2>2 DEF Happens
    <3> QED BY <3>1 DEF Settled
  <2>3. ASSUME NEW r \in Rows, r \notin updated \cup inserted, rows'[r] \in RowType, ~Raced(r)'
        PROVE  Settled(rows'[r], accidents'[r])
    <3>1. accidents'[r] = accidents[r] BY <2>1, <2>3 DEF Happens
    <3>2. CASE preview.mode = "replace_all" /\ Live(r)
      <4>1. rows'[r] = [rows[r] EXCEPT !.live = FALSE] BY <2>1, <2>3, <3>2
      <4>2. rows[r] \in RowType BY <3>2 DEF Live, IndInv
      <4>3. Settled(rows[r], accidents[r]) BY <2>3, <3>1, <4>2 DEF SignedInv, Raced
      <4> QED BY <3>1, <4>1, <4>2, <4>3 DEF RowType, Settled
    <3>3. CASE ~(preview.mode = "replace_all" /\ Live(r))
      <4>1. rows'[r] = rows[r] BY <2>1, <2>3, <3>3
      <4> QED BY <2>3, <3>1, <4>1 DEF SignedInv, Raced
    <3> QED BY <3>2, <3>3
  <2>4. RowsSettle BY <2>2, <2>3 DEF RowsSettle
  <2> QED BY <1>2, <2>4, SignedKept DEF CommitImport
<1> QED BY <1>1, <1>2 DEF Imports

LEMMA EvidenceSigned ==
    ASSUME IndInv, SignedInv, RowsAdvance, Evidence
    PROVE  SignedInv'
<1>1. PICK s \in Sessions :
          (\E c \in Cases, v \in RunVerdicts, st \in Stamps : RecordLoad(s, c, v, st)) \/ Record(s)
  BY DEF Evidence
<1>2. ASSUME NEW c, NEW v, NEW st, RecordLoad(s, c, v, st) PROVE SignedInv'
  BY <1>2, OpenSession, LoadSigned DEF RecordLoad
<1>3. CASE Record(s)
  <2> DEFINE v == session[s].arg.verdict
             st == session[s].arg.stamp
             new == [r \in DOMAIN Held(s) |-> Recorded(Held(s)[r], v, st)]
  <2>1. v \in RunVerdicts /\ st \in Stamps BY <1>3 DEF Record, IndInv, SessionInv
  <2>2. \A r \in Rows \ DOMAIN Held(s) : accidents'[r] = accidents[r] BY <1>3 DEF Record
  <2>3. ASSUME NEW r \in DOMAIN Held(s), ~Raced(r)'
        PROVE  Settled(Flush(rows[r], Held(s)[r], new[r]), accidents'[r])
    <3>1. r \in Rows /\ rows[r] \in RowType /\ Held(s)[r] \in RowType BY NotOvertaken
    <3>2. ~Raced(r) /\ r \notin Overtaken(s)
      BY <1>3, <2>3, <3>1 DEF Record, Raced, RowsAdvance
    <3>3. rows[r].result = Held(s)[r].result BY <3>2, NotOvertaken
    <3>4. v \notin Reviewed /\ rows[r].review = "pending" => "outrun" \in accidents'[r]
      BY <1>3, <3>1 DEF Record
    <3>5. rows[r].verdict # Held(s)[r].verdict => "crossed" \in accidents'[r]
      BY <1>3, <3>1 DEF Record
    <3> QED BY <2>1, <3>1, <3>3, <3>4, <3>5, RecordedSettles
  <2>4. Store(s, new) BY <1>3 DEF Record
  <2>5. RowsSettle
    <3> HIDE DEF new, v, st
    <3> QED BY <2>2, <2>3, <2>4, StoreSettles
  <2> QED BY <1>3, <2>5, CloseSession, SignedKept DEF Record
<1> QED BY <1>1, <1>2, <1>3

LEMMA ExemptSigned ==
    ASSUME IndInv, SignedInv, RowsAdvance, NEW s \in Sessions, Exempt(s)
    PROVE  SignedInv'
<1> DEFINE approve == session[s].arg.approve
           new == [r \in DOMAIN Held(s) |-> Exempted(Held(s)[r], approve)]
<1>1. Store(s, new) /\ Close(s) /\ accidents' = Happens("raced", Overtaken(s)) BY DEF Exempt
<1>2. ASSUME NEW r \in DOMAIN Held(s), ~Raced(r)'
      PROVE  /\ r \in Rows /\ rows[r] \in RowType /\ Held(s)[r] \in RowType
             /\ ~Raced(r) /\ r \notin Overtaken(s)
             /\ rows[r].result = Held(s)[r].result /\ rows[r].version = Held(s)[r].version
  <2>1. r \in Rows BY NotOvertaken
  <2>2. ~Raced(r) /\ r \notin Overtaken(s) BY <1>1, <1>2, <2>1 DEF Happens, Raced, RowsAdvance
  <2> QED BY <2>2, NotOvertaken
<1>3. ASSUME NEW r \in DOMAIN Held(s), ~Raced(r)'
      PROVE  Settled(Flush(rows[r], Held(s)[r], new[r]), accidents'[r])
  <2>1. accidents[r] \subseteq accidents'[r] BY <1>1, <1>2, <1>3, HappensGrows
  <2>2. Settled(rows[r], accidents[r]) BY <1>2, <1>3 DEF SignedInv
  <2> QED BY <1>2, <1>3, <2>1, <2>2, ExemptedSettles
<1>4. RowsSettle
  <2> HIDE DEF new
  <2> QED BY <1>1, <1>3, HappensGrows, StoreSettles
<1>5. ASSUME NEW r \in Rows, ~Raced(r)' PROVE synthetic'[r] <= 1
  <2>1. synthetic[r] \in Nat /\ synthetic[r] <= 1 BY <1>5 DEF IndInv, SignedInv, RowsAdvance
  <2>2. CASE r \notin DOMAIN Held(s) \/ r \in session[s].arg.has
    BY <2>1, <2>2 DEF Exempt
  <2>3. CASE r \in DOMAIN Held(s) /\ r \notin session[s].arg.has
    <3>1. rows[r].version = Held(s)[r].version /\ rows[r].version \in Nat /\ ~Raced(r)
      BY <1>2, <1>5, <2>3 DEF RowType
    <3>2. Informed(s, r) BY <3>1 DEF SignedInv
    <3>3. synthetic[r] = 0 BY <2>3, <3>1, <3>2 DEF Informed, Exempt
    <3> QED BY <3>3 DEF Exempt
  <2> QED BY <2>2, <2>3
<1>6. ASSUME NEW r \in Rows, ~Raced(r)', NEW t \in Sessions PROVE Informed(t, r)'
  <2>1. session'[t] = session[t] \/ session'[t].op # "exempt" BY <1>1, CloseSession
  <2> SUFFICES ASSUME session'[t] = session[t], In(t, "exempt"), r \in DOMAIN Held(t)
               PROVE  \/ r \in session[t].arg.has
                      \/ synthetic'[r] = 0
                      \/ rows'[r].version > Held(t)[r].version
    BY <2>1 DEF Informed, In, Held
  <2>2. ~Raced(r) BY <1>6 DEF RowsAdvance
  <2>3. rows[r] \in RowType /\ Held(t)[r] \in RowType /\ Held(t)[r].version <= rows[r].version
    BY <2>2, NotOvertaken
  <2>4. rows'[r] \in RowType /\ Advances(rows[r], rows'[r]) BY <1>6, <2>3 DEF RowsAdvance
  <2>5. rows[r].version \in Nat /\ rows'[r].version \in Nat /\ Held(t)[r].version \in Nat
    BY <2>3, <2>4 DEF RowType
  <2>6. CASE r \in DOMAIN Held(s)
    <3>1. rows'[r] = Flush(rows[r], Held(s)[r], new[r]) /\ Held(s)[r] \in RowType
          /\ rows[r].version = Held(s)[r].version
      BY <1>1, <1>2, <1>6, <2>6 DEF Store
    <3>2. new[r] \in RowType /\ new[r].version > Held(s)[r].version
      BY <2>6, <3>1, ExemptedColumns
    <3>3. new[r].version \in Nat /\ Held(s)[r].version \in Nat BY <3>1, <3>2 DEF RowType
    <3>4. rows'[r].version = new[r].version
      <4> HIDE DEF new
      <4> QED BY <2>3, <3>1, <3>2, <3>3, FlushType
    <3> QED BY <2>3, <2>5, <3>1, <3>2, <3>3, <3>4
  <2>7. CASE r \notin DOMAIN Held(s)
    <3>1. synthetic'[r] = synthetic[r] BY <2>7 DEF Exempt, IndInv
    <3>2. rows'[r].version >= rows[r].version BY <2>4, <2>5 DEF Advances
    <3>3. Informed(t, r) BY <2>2 DEF SignedInv
    <3> QED BY <2>5, <3>1, <3>2, <3>3 DEF Informed
  <2> QED BY <2>6, <2>7
<1> QED BY <1>4, <1>5, <1>6 DEF SignedInv, RowsSettle, Settled

LEMMA ExemptLoadSigned ==
    ASSUME IndInv, SignedInv, NEW s \in Sessions, NEW R \in SUBSET LiveRows, NEW approve,
           ExemptLoad(s, R, approve)
    PROVE  SignedInv'
<1>1. session'[s] = [op |-> "exempt", held |-> [r \in R |-> rows[r]],
                     arg |-> [approve |-> approve, has |-> {r \in R : synthetic[r] > 0}],
                     number |-> requests]
      /\ \A t \in Sessions \ {s} : session'[t] = session[t]
  BY DEF ExemptLoad, Open, IndInv
<1>2. UNCHANGED <<rows, accidents, synthetic>> BY DEF ExemptLoad
<1>3. ASSUME NEW r \in Rows PROVE Informed(s, r)'
  <2>1. session'[s].arg.has = {q \in R : synthetic[q] > 0} /\ DOMAIN session'[s].held = R
    BY <1>1
  <2>2. synthetic[r] \in Nat BY DEF IndInv
  <2>3. r \in R => r \in session'[s].arg.has \/ synthetic[r] = 0 BY <2>1, <2>2
  <2> QED BY <1>2, <2>1, <2>3 DEF Informed, Held
<1>4. ASSUME NEW r \in Rows, NEW t \in Sessions \ {s}, Informed(t, r) PROVE Informed(t, r)'
  BY <1>1, <1>2, <1>4 DEF Informed, In, Held
<1> QED BY <1>2, <1>3, <1>4 DEF SignedInv, Raced, Settled

LEMMA SignOffsSigned ==
    ASSUME IndInv, SignedInv, RowsAdvance, SignOffs
    PROVE  SignedInv'
<1>1. PICK s \in Sessions :
          \/ \E R \in SUBSET LiveRows, approve \in BOOLEAN :
                ReviewLoad(s, R, approve) \/ ExemptLoad(s, R, approve)
          \/ Review(s) \/ Exempt(s) \/ SyncLoad(s) \/ Sync(s)
  BY DEF SignOffs
<1>2. ASSUME NEW R, NEW approve, ReviewLoad(s, R, approve) PROVE SignedInv'
  BY <1>2, OpenSession, LoadSigned DEF ReviewLoad
<1>3. CASE SyncLoad(s)
  <2>1. \E R : Open(s, "sync", R, None) BY <1>3 DEF SyncLoad
  <2> QED BY <1>3, <2>1, OpenSession, LoadSigned DEF SyncLoad
<1>4. CASE Review(s)
  <2> DEFINE new == [r \in DOMAIN Held(s) |-> Signed(Held(s)[r], session[s].arg)]
  <2>1. \A r \in DOMAIN Held(s) : SignsNothing(Held(s)[r], new[r])
    BY SignedSigns DEF IndInv, SessionInv, CopyOf
  <2>2. RowsSettle BY <1>4, <2>1, HappensGrows, StoreSignsNothing DEF Review
  <2> QED BY <1>4, <2>2, CloseSession, SignedKept DEF Review
<1>5. CASE Sync(s)
  <2> DEFINE new == [r \in DOMAIN Held(s) |-> [Held(s)[r] EXCEPT !.asked = TRUE]]
  <2>1. \A r \in DOMAIN Held(s) : SignsNothing(Held(s)[r], new[r])
    BY AskedSigns DEF IndInv, SessionInv, CopyOf
  <2>2. RowsSettle BY <1>5, <2>1, StoreSignsNothing DEF Sync
  <2> QED BY <1>5, <2>2, CloseSession, SignedKept DEF Sync
<1> QED BY <1>1, <1>2, <1>3, <1>4, <1>5, ExemptLoadSigned, ExemptSigned

LEMMA InitSigned == Init => SignedInv
<1> SUFFICES ASSUME Init PROVE SignedInv OBVIOUS
<1>1. PICK c \in Cases, q \in Rows :
          rows = [r \in Rows |-> IF r = q THEN NewRow(c, 0, FALSE, "none") ELSE None]
  BY DEF Init
<1>2. ASSUME NEW r \in Rows, rows[r] \in RowType PROVE Settled(rows[r], accidents[r])
  <2>1. rows[r] = NewRow(c, 0, FALSE, "none") BY <1>1, <1>2, NoneAssumption
  <2> QED BY <2>1 DEF NewRow, Settled
<1>3. \A r \in Rows : synthetic[r] = 0 BY DEF Init
<1> QED BY <1>2, <1>3 DEF SignedInv, Informed

LEMMA NextSigned == IndInv /\ SignedInv /\ [Next]_vars => SignedInv'
<1> SUFFICES ASSUME IndInv, SignedInv, [Next]_vars PROVE SignedInv' OBVIOUS
<1>1. RowsAdvance BY NextIndInv
<1>2. CASE UNCHANGED vars BY <1>2, LoadSigned DEF vars
<1> QED BY <1>1, <1>2, EditsSigned, ChurnSigned, BatchesSigned, ImportsSigned, EvidenceSigned,
           SignOffsSigned DEF Next

\* For any rows, requests and policy: a pending review is about the verdict its
\* row shows and an approved exemption left a verdict and one run record, unless
\* one of the accidents the invariant names came in between.
THEOREM SignOffsStandHolds == Spec => []SignOffsStand
<1>1. IndInv /\ SignedInv => SignOffsStand
  <2> SUFFICES ASSUME IndInv, SignedInv, NEW r \in LiveRows, ~Raced(r)
               PROVE  /\ rows[r].review = "pending"
                         /\ accidents[r] \cap {"edited", "outrun", "crossed"} = {} =>
                             rows[r].verdict = rows[r].result
                      /\ Exemption(rows[r]) = "approved" /\ "edited" \notin accidents[r] =>
                             rows[r].result # "none"
                      /\ synthetic[r] <= 1
    BY DEF SignOffsStand
  <2>1. r \in Rows /\ rows[r] \in RowType BY LiveRowsTyped DEF CopyOf
  <2>2. Settled(rows[r], accidents[r]) /\ synthetic[r] <= 1 BY <2>1 DEF SignedInv
  <2>3. Exemption(rows[r]) = "approved" => rows[r].exempt = "approved" BY DEF Exemption
  <2> QED BY <2>2, <2>3 DEF Settled
<1> QED BY <1>1, InitSigned, NextSigned, Invariance, PTL DEF Spec
=============================================================================
