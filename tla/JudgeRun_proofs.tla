--------------------------- MODULE JudgeRun_proofs ---------------------------
(***************************************************************************)
(* A verdict that is read off the log is earned, and arguments stay with   *)
(* the subroutine they were passed to, for every well-formed test case,    *)
(* any signals and values, however deep the subroutines nest and whenever   *)
(* Silver stops the run.                                                   *)
(*                                                                         *)
(* A proof in three layers: the stack of generators (what a frame knows of *)
(* its step), what the frames say about the history (a miss is on the      *)
(* stack until the test ends), and the log (its verdict line is its last).  *)
(***************************************************************************)
EXTENDS JudgeRun, SequenceTheorems, WellFoundedInduction, TLAPS

-----------------------------------------------------------------------------
(* The inductive invariant.                                                *)

Frames ==
    [sub : {None} \cup DOMAIN program.subs, step : Nat \ {0},
     at : {"enter", "acting", "waiting", "failed"}, start : Nat, act : Nat \ {0},
     ok : BOOLEAN, since : Nat, polls : Seq(BOOLEAN)]

(* A frame that has entered its step is at one of its program's steps, and   *)
(* the polls of a step under judgement are those that let it wait.           *)
Located(f) == f.at # "enter" => f.step <= Len(Steps(f.sub))

Polled(f) ==
    f.at \in {"acting", "waiting"} =>
        \A i \in DOMAIN f.polls : f.polls[i] <=> StepOf(f).method = "watch"

(* A frame whose step or whose callee failed. *)
Spoilt(f) == f.at = "failed" \/ ~f.ok

FrameInv(f) ==
    /\ Located(f) /\ Polled(f)
    /\ f.at = "enter" => f.ok
    /\ Spoilt(f) => judged.missed

StackInv ==
    /\ program \in Programs
    /\ now \in Nat
    /\ stack \in Seq(Frames) /\ stack # <<>>
    /\ \A f \in ToSet(stack) : FrameInv(f)
    /\ \A i \in DOMAIN stack : i < Len(stack) => stack[i].at = "acting"
    /\ judged \in [proven : BOOLEAN, missed : BOOLEAN]

(* A step that did not meet its checks is on the stack, or behind a failure. *)
Evident == judged.proven \/ \E f \in ToSet(stack) : Spoilt(f)

(* A generator that may yield has a step number for run_cleanup, unless a     *)
(* subroutine ended before.                                                  *)
CtxInv ==
    /\ ctx = [over |-> ctx.over, step |-> ctx.step, subOk |-> ctx.subOk]
    /\ ctx.over \in BOOLEAN
    /\ Top.at # "enter" => ctx.over \/ ctx.step # 0
    /\ turn = "loading" => Top.at = "enter"

Verdicts == {"testPass", "testFail"}
Running == {"loading", "engine", "silver"}

(* The log of one run: its start, the steps, at most one verdict and that    *)
(* last; a step that did not meet its checks is in it as failed.             *)
WellLogged(lines, proven) ==
    /\ lines \in Seq(Markers) /\ lines # <<>> /\ lines[1] = "started"
    /\ \A i \in DOMAIN lines : lines[i] = "started" => i = 1
    /\ \A i \in DOMAIN lines : lines[i] \in Verdicts => i = Len(lines)
    /\ proven \/ "stepFail" \in ToSet(lines)

LogInv == WellLogged(log, judged.proven)

(* How a run ended is what its last line says. *)
EndInv ==
    /\ turn \in Running \cup {"over", "stopped", "read"}
    /\ ended \in {None, "finished", "raised", "suspended"}
    /\ turn \in Running => ended = None /\ Last(log) \notin Verdicts
    /\ turn \notin Running => ended # None
    /\ turn = "loading" => log = <<"started">>
    /\ turn = "silver" => Top.at # "enter" \/ log = <<"started">>
    /\ turn = "over" => ctx.over
    /\ turn = "over" => ended # "suspended"
    /\ ended = "finished" => Last(log) \in Verdicts
    /\ ended = "raised" => Last(log) = "testFail"
    /\ ended = "suspended" =>
          Last(log) = "testFail" \/ (Last(log) \notin Verdicts /\ (ctx.over \/ log = <<"started">>))
    /\ Last(log) = "testPass" => judged.proven
    /\ ended = "finished" /\ Last(log) = "testFail" => judged.missed
    /\ turn = "read" => verdict = ParseVerdict(log)

(* The arguments of every active subroutine are those of the call at which   *)
(* its caller stands.                                                       *)
Passed(caller, callee) ==
    Binding(callee.sub, StepOf(caller).actions[caller.act].args)

ScopeInv ==
    /\ params \in Seq(ToSet(params)) /\ Len(params) = Len(stack) - 1
    /\ \A i \in DOMAIN params : \A f, g \in ToSet(stack) :
          f = stack[i] /\ g = stack[i + 1] => params[i] = Passed(f, g)

IndInv == StackInv /\ Evident /\ CtxInv /\ LogInv /\ EndInv

-----------------------------------------------------------------------------
(* Stacks: what the top of a sequence is, and what replacing it, pushing and *)
(* popping leave.                                                           *)

LEMMA TopIs ==
    ASSUME NEW S, NEW s \in Seq(S), s # <<>>
    PROVE  /\ Len(s) \in Nat \ {0} /\ DOMAIN s = 1 .. Len(s)
           /\ Last(s) \in S /\ Last(s) = s[Len(s)] /\ Last(s) \in ToSet(s)
           /\ \A i \in 1 .. Len(s) : s[i] \in S /\ s[i] \in ToSet(s)
<1>1. Len(s) \in Nat /\ DOMAIN s = 1 .. Len(s) /\ \A i \in 1 .. Len(s) : s[i] \in S
  BY ElementOfSeq, LenProperties
<1>2. Len(s) # 0
  BY EmptySeq, LenProperties
<1> QED
  BY <1>1, <1>2 DEF Last, ToSet

LEMMA FrontIs ==
    ASSUME NEW S, NEW s \in Seq(S), s # <<>>
    PROVE  /\ Front(s) \in Seq(S) /\ Len(Front(s)) = Len(s) - 1
           /\ \A i \in 1 .. Len(s) - 1 : Front(s)[i] = s[i]
           /\ Len(s) > 1 => Front(s) # <<>> /\ Last(Front(s)) = s[Len(s) - 1]
<1>1. /\ Len(s) \in Nat \ {0}
      /\ \A i \in 1 .. Len(s) : s[i] \in S
  BY TopIs
<1> DEFINE u == Front(s)
           m == Len(s) - 1
<1>2. m \in Nat /\ \A i \in 1 .. m : s[i] \in S
  BY <1>1
<1> HIDE DEF m
<1>3. /\ u \in Seq(S)
      /\ Len(u) = IF 1 <= m THEN m - 1 + 1 ELSE 0
      /\ \A i \in 1 .. m - 1 + 1 : u[i] = s[1 + i - 1]
  <2>1. u = SubSeq(s, 1, m)
    BY DEF Front, m
  <2> QED
    BY <1>2, <2>1, SubSeqProperties
<1> HIDE DEF u
<1>4. Len(u) = m
  BY <1>2, <1>3
<1>5. \A i \in 1 .. m : u[i] = s[i]
  BY <1>2, <1>3
<1>6. m # 0 => u # <<>> /\ Last(u) = s[m]
  <2>1. u = <<>> => m = 0
    BY <1>4, EmptySeq
  <2>2. Last(u) = u[m]
    BY <1>4 DEF Last
  <2> QED
    BY <1>2, <1>5, <2>1, <2>2
<1> QED
  BY <1>1, <1>3, <1>4, <1>5, <1>6 DEF u, m

(* WithTop *)
LEMMA ReplaceTop ==
    ASSUME NEW S, NEW s \in Seq(S), s # <<>>, NEW f \in S
    PROVE  LET t == Append(Front(s), f)
           IN  /\ t \in Seq(S) /\ t # <<>> /\ Len(t) = Len(s) /\ Last(t) = f
               /\ t[Len(s)] = f
               /\ \A i \in 1 .. Len(s) - 1 : t[i] = s[i]
               /\ f \in ToSet(t)
               /\ \A g \in ToSet(t) : g = f \/ g \in ToSet(s)
               /\ \A g \in ToSet(s) : g = Last(s) \/ g \in ToSet(t)
<1> DEFINE t == Append(Front(s), f)
<1>1. /\ Len(s) \in Nat \ {0} /\ DOMAIN s = 1 .. Len(s)
      /\ Last(s) = s[Len(s)]
  BY TopIs
<1>2. /\ Front(s) \in Seq(S) /\ Len(Front(s)) = Len(s) - 1
      /\ \A i \in 1 .. Len(s) - 1 : Front(s)[i] = s[i]
  BY FrontIs
<1>3. /\ t \in Seq(S) /\ t # <<>>
      /\ Len(t) = Len(Front(s)) + 1
      /\ \A i \in 1 .. Len(Front(s)) : t[i] = Front(s)[i]
      /\ t[Len(Front(s)) + 1] = f
  BY <1>2, AppendProperties
<1> HIDE DEF t
<1>4. Len(t) = Len(s) /\ t[Len(s)] = f /\ \A i \in 1 .. Len(s) - 1 : t[i] = s[i]
  BY <1>1, <1>2, <1>3
<1>5. DOMAIN t = 1 .. Len(s) /\ Last(t) = f
  BY <1>3, <1>4, TopIs
<1>6. /\ f \in ToSet(t)
      /\ \A g \in ToSet(t) : g = f \/ g \in ToSet(s)
      /\ \A g \in ToSet(s) : g = Last(s) \/ g \in ToSet(t)
  BY <1>1, <1>4, <1>5 DEF ToSet
<1> QED
  BY <1>3, <1>4, <1>5, <1>6 DEF t

LEMMA PushTop ==
    ASSUME NEW S, NEW s \in Seq(S), NEW f \in S
    PROVE  LET t == Append(s, f)
           IN  /\ t \in Seq(S) /\ t # <<>> /\ Len(t) = Len(s) + 1 /\ Last(t) = f
               /\ Len(s) \in Nat /\ t[Len(s) + 1] = f
               /\ DOMAIN s = 1 .. Len(s) /\ DOMAIN t = 1 .. Len(s) + 1
               /\ \A i \in 1 .. Len(s) : t[i] = s[i]
               /\ f \in ToSet(t)
               /\ \A g \in ToSet(t) : g = f \/ g \in ToSet(s)
               /\ \A g \in ToSet(s) : g \in ToSet(t)
<1> DEFINE t == Append(s, f)
<1>1. Len(s) \in Nat /\ DOMAIN s = 1 .. Len(s)
  BY LenProperties
<1>2. /\ t \in Seq(S) /\ t # <<>>
      /\ Len(t) = Len(s) + 1
      /\ \A i \in 1 .. Len(s) : t[i] = s[i]
      /\ t[Len(s) + 1] = f
  BY AppendProperties
<1> HIDE DEF t
<1>3. DOMAIN t = 1 .. Len(s) + 1 /\ Last(t) = f
  BY <1>2, TopIs
<1>4. /\ f \in ToSet(t)
      /\ \A g \in ToSet(t) : g = f \/ g \in ToSet(s)
      /\ \A g \in ToSet(s) : g \in ToSet(t)
  BY <1>1, <1>2, <1>3 DEF ToSet
<1> QED
  BY <1>1, <1>2, <1>3, <1>4 DEF t

(* ResumeCaller *)
LEMMA PopTop ==
    ASSUME NEW S, NEW s \in Seq(S), Len(s) > 1, NEW f \in S
    PROVE  LET t == Append(Front(Front(s)), f)
           IN  /\ t \in Seq(S) /\ t # <<>> /\ Len(t) = Len(s) - 1 /\ Last(t) = f
               /\ t[Len(s) - 1] = f
               /\ \A i \in 1 .. Len(s) - 2 : t[i] = s[i]
               /\ f \in ToSet(t)
               /\ \A g \in ToSet(t) : g = f \/ g \in ToSet(s)
               /\ \A g \in ToSet(s) : g = Last(s) \/ g = Last(Front(s)) \/ g \in ToSet(t)
               /\ Last(Front(s)) = s[Len(s) - 1] /\ Last(Front(s)) \in ToSet(s)
<1> DEFINE u == Front(s)
           t == Append(Front(u), f)
<1>1. s # <<>>
  BY EmptySeq
<1>2. /\ Len(s) \in Nat \ {0} /\ DOMAIN s = 1 .. Len(s)
      /\ Last(s) = s[Len(s)]
  BY <1>1, TopIs
<1>3. /\ u \in Seq(S) /\ u # <<>> /\ Len(u) = Len(s) - 1
      /\ \A i \in 1 .. Len(s) - 1 : u[i] = s[i]
      /\ Last(u) = s[Len(s) - 1]
  BY <1>1, FrontIs
<1> HIDE DEF u
<1>4. /\ t \in Seq(S) /\ t # <<>> /\ Len(t) = Len(u) /\ Last(t) = f
      /\ t[Len(u)] = f
      /\ \A i \in 1 .. Len(u) - 1 : t[i] = u[i]
      /\ f \in ToSet(t)
      /\ \A g \in ToSet(t) : g = f \/ g \in ToSet(u)
      /\ \A g \in ToSet(u) : g = Last(u) \/ g \in ToSet(t)
  BY <1>3, ReplaceTop
<1>5. DOMAIN u = 1 .. Len(s) - 1
  BY <1>3, TopIs
<1>6. (\A g \in ToSet(u) : g \in ToSet(s)) /\ Last(u) \in ToSet(s)
  BY <1>2, <1>3, <1>5 DEF ToSet
<1>7. \A g \in ToSet(s) : g = Last(s) \/ g \in ToSet(u)
  BY <1>2, <1>3, <1>5 DEF ToSet
<1> HIDE DEF t
<1>8. \A i \in 1 .. Len(s) - 2 : t[i] = s[i]
  BY <1>2, <1>3, <1>4
<1>9. Len(t) = Len(s) - 1 /\ t[Len(s) - 1] = f
  BY <1>3, <1>4
<1> QED
  BY <1>3, <1>4, <1>6, <1>7, <1>8, <1>9 DEF t, u

(* A sequence of anything is a sequence of its own elements. *)
LEMMA OwnElements ==
    ASSUME NEW S, NEW s \in Seq(S)
    PROVE  s \in Seq(ToSet(s))
<1>1. s \in [1 .. Len(s) -> S] /\ Len(s) \in Nat /\ DOMAIN s = 1 .. Len(s)
  BY LenProperties
<1>2. s \in [1 .. Len(s) -> ToSet(s)]
  BY <1>1 DEF ToSet
<1> QED
  BY <1>1, <1>2, SeqDef

-----------------------------------------------------------------------------
(* The test case, the top frame, and what a change of the stack preserves.  *)

LEMMA StepsAre ==
    ASSUME program \in Programs, NEW name \in {None} \cup DOMAIN program.subs
    PROVE  /\ Len(Steps(name)) \in Nat
           /\ \A i \in 1 .. Len(Steps(name)) : WellFormed(Steps(name)[i], program.subs)
<1>1. /\ Steps(name) \in Seq(ToSet(Steps(name)))
      /\ \A i \in DOMAIN Steps(name) : WellFormed(Steps(name)[i], program.subs)
  BY ProgramAssumption DEF Steps
<1> QED
  BY <1>1, LenProperties

LEMMA TopFrame ==
    ASSUME StackInv
    PROVE  /\ Top \in Frames /\ FrameInv(Top) /\ Top \in ToSet(stack)
           /\ Len(stack) \in Nat \ {0} /\ DOMAIN stack = 1 .. Len(stack)
           /\ Top = stack[Len(stack)]
           /\ \A i \in DOMAIN stack : stack[i] \in ToSet(stack)
           /\ Len(Steps(Top.sub)) \in Nat
           /\ Top.at # "enter" => WellFormed(StepOf(Top), program.subs)
<1>1. /\ Top \in Frames /\ Top \in ToSet(stack)
      /\ Len(stack) \in Nat \ {0} /\ DOMAIN stack = 1 .. Len(stack)
      /\ Top = stack[Len(stack)]
      /\ \A i \in DOMAIN stack : stack[i] \in ToSet(stack)
  BY TopIs DEF StackInv, Top
<1>2. FrameInv(Top)
  BY <1>1 DEF StackInv
<1>3. /\ Len(Steps(Top.sub)) \in Nat
      /\ \A i \in 1 .. Len(Steps(Top.sub)) : WellFormed(Steps(Top.sub)[i], program.subs)
  BY <1>1, StepsAre DEF StackInv, Frames
<1>4. Top.at # "enter" => WellFormed(StepOf(Top), program.subs)
  BY <1>1, <1>2, <1>3 DEF FrameInv, Located, StepOf, Frames
<1> QED
  BY <1>1, <1>2, <1>3, <1>4

LEMMA FramesKeep ==
    ASSUME program' = program, judged.missed => judged'.missed
    PROVE  Frames' = Frames /\ \A f : FrameInv(f) => FrameInv(f)'
BY DEF Frames, FrameInv, Located, Polled, Spoilt, StepOf, Steps

LEMMA StackReplaced ==
    ASSUME StackInv, program' = program, now' \in Nat,
           judged' \in [proven : BOOLEAN, missed : BOOLEAN],
           judged.missed => judged'.missed,
           NEW f \in Frames, FrameInv(f)', stack' = WithTop(f)
    PROVE  StackInv'
<1>1. stack \in Seq(Frames) /\ stack # <<>> /\ stack' = Append(Front(stack), f)
  BY DEF StackInv, WithTop
<1>2. Len(stack) \in Nat \ {0} /\ DOMAIN stack = 1 .. Len(stack)
  BY TopFrame
<1>3. /\ stack' \in Seq(Frames) /\ stack' # <<>> /\ Len(stack') = Len(stack)
      /\ \A i \in 1 .. Len(stack) - 1 : stack'[i] = stack[i]
      /\ \A g \in ToSet(stack') : g = f \/ g \in ToSet(stack)
  BY <1>1, ReplaceTop
<1>4. Frames' = Frames /\ \A g : FrameInv(g) => FrameInv(g)'
  BY FramesKeep
<1>5. \A g \in ToSet(stack') : FrameInv(g)'
  BY <1>3, <1>4 DEF StackInv
<1>6. DOMAIN stack' = 1 .. Len(stack')
  BY <1>3, TopIs
<1>7. \A i \in DOMAIN stack' : i < Len(stack') => stack'[i].at = "acting"
  BY <1>2, <1>3, <1>6 DEF StackInv
<1> QED
  BY <1>3, <1>4, <1>5, <1>7 DEF StackInv

LEMMA StackPushed ==
    ASSUME StackInv, program' = program, now' = now, judged' = judged,
           NEW f \in Frames, FrameInv(f)', Top.at = "acting", stack' = Append(stack, f)
    PROVE  StackInv'
<1>1. stack \in Seq(Frames)
  BY DEF StackInv
<1>2. Len(stack) \in Nat \ {0} /\ DOMAIN stack = 1 .. Len(stack) /\ Top = stack[Len(stack)]
  BY TopFrame
<1>3. /\ stack' \in Seq(Frames) /\ stack' # <<>> /\ Len(stack') = Len(stack) + 1
      /\ DOMAIN stack' = 1 .. Len(stack) + 1
      /\ \A i \in 1 .. Len(stack) : stack'[i] = stack[i]
      /\ \A g \in ToSet(stack') : g = f \/ g \in ToSet(stack)
  BY <1>1, PushTop
<1>4. Frames' = Frames /\ \A g : FrameInv(g) => FrameInv(g)'
  BY FramesKeep
<1>5. \A g \in ToSet(stack') : FrameInv(g)'
  BY <1>3, <1>4 DEF StackInv
<1>6. \A i \in DOMAIN stack' : i < Len(stack') => stack'[i].at = "acting"
  BY <1>2, <1>3 DEF StackInv
<1> QED
  BY <1>3, <1>4, <1>5, <1>6 DEF StackInv

LEMMA StackPopped ==
    ASSUME StackInv, program' = program, now' = now, judged' = judged, Len(stack) > 1,
           NEW f \in Frames, FrameInv(f)', stack' = Append(Front(Front(stack)), f)
    PROVE  StackInv'
<1>1. stack \in Seq(Frames)
  BY DEF StackInv
<1>2. Len(stack) \in Nat \ {0} /\ DOMAIN stack = 1 .. Len(stack)
  BY TopFrame
<1>3. /\ stack' \in Seq(Frames) /\ stack' # <<>> /\ Len(stack') = Len(stack) - 1
      /\ \A i \in 1 .. Len(stack) - 2 : stack'[i] = stack[i]
      /\ \A g \in ToSet(stack') : g = f \/ g \in ToSet(stack)
  BY <1>1, PopTop
<1>4. Frames' = Frames /\ \A g : FrameInv(g) => FrameInv(g)'
  BY FramesKeep
<1>5. \A g \in ToSet(stack') : FrameInv(g)'
  BY <1>3, <1>4 DEF StackInv
<1>6. DOMAIN stack' = 1 .. Len(stack')
  BY <1>3, TopIs
<1>7. ASSUME NEW i \in DOMAIN stack', i < Len(stack')
      PROVE  stack'[i].at = "acting"
  <2>0. i \in 1 .. Len(stack) - 1 /\ i < Len(stack) - 1
    BY <1>3, <1>6, <1>7
  <2>1. i \in 1 .. Len(stack) - 2
    BY <1>2, <2>0
  <2>2. i \in DOMAIN stack /\ i < Len(stack)
    BY <1>2, <2>1
  <2>3. stack[i].at = "acting"
    BY <2>2 DEF StackInv
  <2> QED
    BY <1>3, <2>1, <2>3
<1> QED
  BY <1>3, <1>4, <1>5, <1>7 DEF StackInv

LEMMA StackStays ==
    ASSUME StackInv, program' = program, now' \in Nat, judged' = judged, stack' = stack
    PROVE  StackInv'
<1>1. Frames' = Frames /\ \A g : FrameInv(g) => FrameInv(g)'
  BY FramesKeep
<1>2. \A g \in ToSet(stack') : FrameInv(g)'
  BY <1>1 DEF StackInv
<1> QED
  BY <1>1, <1>2 DEF StackInv

-----------------------------------------------------------------------------
(* The actions of the engine, one by one.                                  *)

(* At Undecided's end, the polls tell whether the step met its checks. *)
LEMMA Judgement ==
    ASSUME StackInv, Judging, ~Undecided(Top, ChecksOk(StepOf(Top))),
           NEW polls, polls = Append(Top.polls, ChecksOk(StepOf(Top)))
    PROVE  /\ StepPasses(Top) => Met(Top, polls)
           /\ ~StepPasses(Top) => Missed(Top, polls) \/ judged.missed
<1> DEFINE ok == ChecksOk(StepOf(Top))
           step == StepOf(Top)
<1>1. /\ Top \in Frames /\ FrameInv(Top)
      /\ Top.at = "acting" /\ WellFormed(step, program.subs)
  BY TopFrame DEF Judging
<1>2. ok \in BOOLEAN
  BY DEF ChecksOk
<1>3. /\ Top.polls \in Seq(BOOLEAN) /\ Top.start \in Nat /\ now \in Nat
      /\ Top.ok \in BOOLEAN
  BY <1>1 DEF Frames, StackInv
<1>4. /\ step.method \in {"reach", "watch"}
      /\ step.timeout \in Int /\ step.watch \in Int
  BY <1>1 DEF WellFormed
<1>5. \A i \in DOMAIN Top.polls : Top.polls[i] <=> step.method = "watch"
  BY <1>1 DEF FrameInv, Polled
<1>6. ~Top.ok => judged.missed
  BY <1>1 DEF FrameInv, Spoilt
<1>7. /\ step.method = "reach" => ok \/ now - Top.start >= step.timeout
      /\ step.method = "watch" => ~ok \/ now - Top.start >= step.watch - 1
  BY <1>3, <1>4 DEF Undecided, Elapsed
<1> HIDE DEF ok, step
<1>8. polls = Append(Top.polls, ok)
  BY DEF ok, step
<1>9. /\ Len(Top.polls) \in Nat
      /\ DOMAIN Top.polls = 1 .. Len(Top.polls)
      /\ DOMAIN polls = 1 .. Len(Top.polls) + 1
      /\ \A i \in 1 .. Len(Top.polls) : polls[i] = Top.polls[i]
      /\ polls[Len(Top.polls) + 1] = ok
  BY <1>2, <1>3, <1>8, PushTop
<1>10. /\ Met(Top, polls) <=>
             IF step.method = "reach" THEN \E i \in DOMAIN polls : polls[i]
             ELSE (\A i \in DOMAIN polls : polls[i]) /\ now >= Top.start + step.watch - 1
       /\ Missed(Top, polls) <=>
             IF step.method = "reach"
             THEN (\A i \in DOMAIN polls : ~polls[i]) /\ now >= Top.start + step.timeout
             ELSE \E i \in DOMAIN polls : ~polls[i]
       /\ StepPasses(Top) <=> ok /\ Top.ok
  BY DEF Met, Missed, StepPasses, ok, step
<1>11. CASE step.method = "reach"
  <2>1. ok => Met(Top, polls)
    <3> SUFFICES ASSUME ok PROVE Met(Top, polls)
      OBVIOUS
    <3>1. Len(Top.polls) + 1 \in DOMAIN polls
      BY <1>9
    <3>2. polls[Len(Top.polls) + 1]
      BY <1>9, Zenon
    <3> QED
      BY <1>10, <1>11, <3>1, <3>2
  <2>2. ~ok => Missed(Top, polls)
    <3> SUFFICES ASSUME ~ok PROVE Missed(Top, polls)
      OBVIOUS
    <3>1. now >= Top.start + step.timeout
      BY <1>3, <1>4, <1>7, <1>11
    <3>2. \A i \in 1 .. Len(Top.polls) : ~Top.polls[i]
      BY <1>5, <1>9, <1>11
    <3>3. \A i \in DOMAIN polls : ~polls[i]
      BY <1>9, <3>2
    <3> QED
      BY <1>10, <1>11, <3>1, <3>3
  <2> QED
    BY <1>6, <1>10, <2>1, <2>2
<1>12. CASE step.method = "watch"
  <2>1. ok => Met(Top, polls)
    <3> SUFFICES ASSUME ok PROVE Met(Top, polls)
      OBVIOUS
    <3>1. now >= Top.start + step.watch - 1
      BY <1>3, <1>4, <1>7, <1>12
    <3>2. \A i \in 1 .. Len(Top.polls) : Top.polls[i]
      BY <1>5, <1>9, <1>12
    <3>3. polls[Len(Top.polls) + 1]
      BY <1>9, Zenon
    <3>4. \A i \in DOMAIN polls : polls[i]
      <4> TAKE i \in DOMAIN polls
      <4>1. i \in 1 .. Len(Top.polls) \/ i = Len(Top.polls) + 1
        BY <1>9
      <4> QED
        BY <1>9, <3>2, <3>3, <4>1, Zenon
    <3> QED
      BY <1>10, <1>12, <3>1, <3>4
  <2>2. ~ok => Missed(Top, polls)
    BY <1>9, <1>10, <1>12
  <2> QED
    BY <1>6, <1>10, <2>1, <2>2
<1> QED
  BY <1>4, <1>11, <1>12

(* A new top frame that is as spoilt as the old one hides no failure. *)
LEMMA EvidentReplaced ==
    ASSUME StackInv, Evident, judged'.proven = judged.proven,
           NEW f \in Frames, Spoilt(Top) => Spoilt(f), stack' = WithTop(f)
    PROVE  Evident' /\ Top' = f
<1>1. stack \in Seq(Frames) /\ stack # <<>> /\ stack' = Append(Front(stack), f)
  BY DEF StackInv, WithTop
<1>2. /\ Last(stack') = f /\ f \in ToSet(stack')
      /\ \A g \in ToSet(stack) : g = Last(stack) \/ g \in ToSet(stack')
  BY <1>1, ReplaceTop
<1>3. Top' = f
  BY <1>2 DEF Top
<1>4. (\E g \in ToSet(stack) : Spoilt(g)) => \E g \in ToSet(stack') : Spoilt(g)
  BY <1>2 DEF Top
<1> QED
  BY <1>3, <1>4 DEF Evident

LEMMA EnterStepKeeps ==
    ASSUME StackInv, Evident, EnterStep
    PROVE  StackInv' /\ Evident' /\ Top'.at # "enter"
<1>1. PICK f : f = [Top EXCEPT !.at = "acting", !.start = now, !.act = 1,
                               !.ok = TRUE, !.polls = <<>>]
  OBVIOUS
<1>2. /\ Top \in Frames /\ FrameInv(Top) /\ Len(Steps(Top.sub)) \in Nat
      /\ now \in Nat
  BY TopFrame DEF StackInv
<1>3. /\ stack' = WithTop(f) /\ Top.at = "enter" /\ Top.step <= Len(Steps(Top.sub))
      /\ program' = program /\ now' = now /\ judged' = judged
  BY <1>1 DEF EnterStep
<1>4. f \in Frames
  <2>1. <<>> \in Seq(BOOLEAN)
    BY EmptySeq
  <2>2. f = [sub |-> Top.sub, step |-> Top.step, at |-> "acting", start |-> now,
             act |-> 1, ok |-> TRUE, since |-> Top.since, polls |-> <<>>]
    BY <1>1, <1>2 DEF Frames
  <2> QED
    BY <1>2, <2>1, <2>2 DEF Frames
<1>5. /\ f.sub = Top.sub /\ f.step = Top.step /\ f.at = "acting" /\ f.ok = TRUE
      /\ f.polls = <<>>
  BY <1>1, <1>2 DEF Frames
<1>6. DOMAIN <<>> = {}
  BY EmptySeq, LenProperties
<1>7. FrameInv(f)'
  BY <1>2, <1>3, <1>5, <1>6 DEF FrameInv, Located, Polled, Spoilt, Steps
<1>8. ~Spoilt(Top)
  BY <1>2, <1>3 DEF FrameInv, Spoilt
<1>9. StackInv'
  BY <1>2, <1>3, <1>4, <1>7, StackReplaced DEF StackInv
<1>10. Evident' /\ Top' = f
  BY <1>3, <1>4, <1>8, EvidentReplaced
<1> QED
  BY <1>5, <1>9, <1>10

(* The actions that move the top frame inside its step. *)
LEMMA MoveInsideStep ==
    ASSUME StackInv, Evident, program' = program, now' = now, judged' = judged,
           Top.at \in {"acting", "waiting"},
           NEW f \in Frames, f.at \in {"acting", "waiting"},
           f.sub = Top.sub, f.step = Top.step, f.ok = Top.ok, stack' = WithTop(f),
           \A i \in DOMAIN f.polls : f.polls[i] <=> StepOf(Top).method = "watch"
    PROVE  StackInv' /\ Evident' /\ Top'.at # "enter"
<1>1. Top \in Frames /\ FrameInv(Top) /\ now \in Nat
  BY TopFrame DEF StackInv
<1>2. FrameInv(f)'
  BY <1>1 DEF FrameInv, Located, Polled, Spoilt, Steps, StepOf
<1>3. StackInv'
  BY <1>1, <1>2, StackReplaced DEF StackInv
<1>4. Spoilt(Top) => Spoilt(f)
  BY DEF Spoilt
<1>5. Evident' /\ Top' = f
  BY <1>4, EvidentReplaced
<1> QED
  BY <1>3, <1>5

LEMMA CallFunctionKeeps ==
    ASSUME StackInv, Evident, CallFunction
    PROVE  StackInv' /\ Evident' /\ Top'.at # "enter"
<1>1. PICK f : f = [Top EXCEPT !.act = @ + 1]
  OBVIOUS
<1>2. Top \in Frames /\ FrameInv(Top)
  BY TopFrame
<1>3. /\ stack' = WithTop(f) /\ Top.at = "acting"
      /\ program' = program /\ now' = now /\ judged' = judged
  BY <1>1 DEF CallFunction, Calling
<1>4. f \in Frames
  BY <1>1, <1>2 DEF Frames
<1>5. /\ f.sub = Top.sub /\ f.step = Top.step /\ f.at = Top.at /\ f.ok = Top.ok
      /\ f.polls = Top.polls
  BY <1>1, <1>2 DEF Frames
<1>6. \A i \in DOMAIN f.polls : f.polls[i] <=> StepOf(Top).method = "watch"
  BY <1>2, <1>3, <1>5 DEF FrameInv, Polled
<1> QED
  BY <1>3, <1>4, <1>5, <1>6, MoveInsideStep

LEMMA CallWaitKeeps ==
    ASSUME StackInv, Evident, CallWait
    PROVE  StackInv' /\ Evident' /\ Top'.at # "enter"
<1>1. PICK f : f = [Top EXCEPT !.at = "waiting", !.since = now]
  OBVIOUS
<1>2. Top \in Frames /\ FrameInv(Top) /\ now \in Nat
  BY TopFrame DEF StackInv
<1>3. /\ stack' = WithTop(f) /\ Top.at = "acting"
      /\ program' = program /\ now' = now /\ judged' = judged
  BY <1>1 DEF CallWait, Calling
<1>4. f \in Frames
  BY <1>1, <1>2 DEF Frames
<1>5. /\ f.sub = Top.sub /\ f.step = Top.step /\ f.at = "waiting" /\ f.ok = Top.ok
      /\ f.polls = Top.polls
  BY <1>1, <1>2 DEF Frames
<1>6. \A i \in DOMAIN f.polls : f.polls[i] <=> StepOf(Top).method = "watch"
  BY <1>2, <1>3, <1>5 DEF FrameInv, Polled
<1> QED
  BY <1>3, <1>4, <1>5, <1>6, MoveInsideStep

LEMMA PollWaitKeeps ==
    ASSUME StackInv, Evident, PollWait
    PROVE  StackInv' /\ Evident' /\ Top'.at # "enter"
<1>1. /\ Top.at = "waiting" /\ program' = program /\ now' = now /\ judged' = judged
  BY DEF PollWait
<1>2. Top \in Frames /\ FrameInv(Top) /\ now \in Nat
  BY TopFrame DEF StackInv
<1>3. CASE stack' = stack
  <2>1. StackInv'
    BY <1>1, <1>2, <1>3, StackStays
  <2>2. Evident' /\ Top'.at = "waiting"
    BY <1>1, <1>3 DEF Evident, Top
  <2> QED
    BY <2>1, <2>2
<1>4. CASE stack' # stack
  <2>1. PICK f : f = [Top EXCEPT !.at = "acting", !.act = @ + 1]
    OBVIOUS
  <2>2. stack' = WithTop(f)
    BY <1>4, <2>1 DEF PollWait
  <2>3. f \in Frames
    <3>1. Top.act + 1 \in Nat \ {0}
      BY <1>2 DEF Frames
    <3>2. [Top EXCEPT !.at = "acting"] \in Frames
      BY <1>2 DEF Frames
    <3>3. f = [[Top EXCEPT !.at = "acting"] EXCEPT !.act = Top.act + 1]
      BY <1>2, <2>1 DEF Frames
    <3> QED
      BY <3>1, <3>2, <3>3 DEF Frames
  <2>4. /\ f.sub = Top.sub /\ f.step = Top.step /\ f.at = "acting" /\ f.ok = Top.ok
        /\ f.polls = Top.polls
    BY <1>2, <2>1 DEF Frames
  <2>5. \A i \in DOMAIN f.polls : f.polls[i] <=> StepOf(Top).method = "watch"
    BY <1>1, <1>2, <2>4 DEF FrameInv, Polled
  <2> QED
    BY <1>1, <2>2, <2>3, <2>4, <2>5, MoveInsideStep
<1> QED
  BY <1>3, <1>4

LEMMA JudgeWaitKeeps ==
    ASSUME StackInv, Evident, JudgeWait
    PROVE  StackInv' /\ Evident' /\ Top'.at # "enter" /\ Top.at # "enter"
<1> DEFINE ok == ChecksOk(StepOf(Top))
<1>1. PICK f : f = [Top EXCEPT !.polls = Append(@, ok)]
  OBVIOUS
<1>2. Top \in Frames /\ FrameInv(Top)
  BY TopFrame
<1>3. /\ stack' = WithTop(f) /\ Top.at = "acting"
      /\ program' = program /\ now' = now /\ judged' = judged
      /\ Undecided(Top, ok)
  BY <1>1 DEF JudgeWait, Judging
<1>4. ok \in BOOLEAN
  BY DEF ChecksOk
<1>5. ok <=> StepOf(Top).method = "watch"
  BY <1>3 DEF Undecided
<1> HIDE DEF ok
<1>6. Top.polls \in Seq(BOOLEAN)
  BY <1>2 DEF Frames
<1>7. /\ f.sub = Top.sub /\ f.step = Top.step /\ f.at = Top.at /\ f.ok = Top.ok
      /\ f.polls = Append(Top.polls, ok)
  BY <1>1, <1>2 DEF Frames
<1>8. /\ f.polls \in Seq(BOOLEAN) /\ Len(Top.polls) \in Nat
      /\ DOMAIN Top.polls = 1 .. Len(Top.polls)
      /\ DOMAIN f.polls = 1 .. Len(Top.polls) + 1
      /\ \A i \in 1 .. Len(Top.polls) : f.polls[i] = Top.polls[i]
      /\ f.polls[Len(Top.polls) + 1] = ok
  BY <1>4, <1>6, <1>7, PushTop
<1>9. f \in Frames
  BY <1>1, <1>2, <1>4, <1>6, <1>7, <1>8 DEF Frames
<1>10. ASSUME NEW i \in DOMAIN f.polls
       PROVE  f.polls[i] <=> StepOf(Top).method = "watch"
  <2>1. \A j \in DOMAIN Top.polls : Top.polls[j] <=> StepOf(Top).method = "watch"
    BY <1>2, <1>3 DEF FrameInv, Polled
  <2>2. i \in DOMAIN Top.polls \/ i = Len(Top.polls) + 1
    BY <1>8
  <2> QED
    BY <1>5, <1>8, <2>1, <2>2, Zenon
<1> QED
  BY <1>3, <1>7, <1>9, <1>10, MoveInsideStep

LEMMA JudgeStepKeeps ==
    ASSUME StackInv, Evident, JudgeStep
    PROVE  /\ StackInv' /\ Evident'
           /\ StepPasses(Top) => Top'.at = "enter" /\ judged'.proven = judged.proven
           /\ ~StepPasses(Top) => Top'.at = "failed"
           /\ judged.missed => judged'.missed
<1>1. PICK polls : polls = Append(Top.polls, ChecksOk(StepOf(Top)))
  OBVIOUS
<1>2. /\ Top \in Frames /\ FrameInv(Top) /\ WellFormed(StepOf(Top), program.subs)
      /\ now \in Nat /\ judged \in [proven : BOOLEAN, missed : BOOLEAN]
  BY TopFrame DEF StackInv, JudgeStep, Judging
<1>3. /\ Top.at = "acting" /\ program' = program /\ now' = now
      /\ judged' = [proven |-> judged.proven /\ Met(Top, polls),
                    missed |-> judged.missed \/ Missed(Top, polls)]
      /\ stack' = WithTop(IF StepPasses(Top)
                          THEN [Top EXCEPT !.step = @ + 1, !.at = "enter"]
                          ELSE [Top EXCEPT !.at = "failed"])
  BY <1>1 DEF JudgeStep, Judging
<1>4. /\ StepPasses(Top) => Met(Top, polls)
      /\ ~StepPasses(Top) => Missed(Top, polls) \/ judged.missed
  BY <1>1, Judgement DEF JudgeStep
<1>5. Met(Top, polls) \in BOOLEAN /\ Missed(Top, polls) \in BOOLEAN
  BY DEF Met, Missed
<1>6. /\ judged' \in [proven : BOOLEAN, missed : BOOLEAN]
      /\ judged.missed => judged'.missed
  BY <1>2, <1>3, <1>5
<1>7. CASE StepPasses(Top)
  <2>1. PICK f : f = [Top EXCEPT !.step = @ + 1, !.at = "enter"]
    OBVIOUS
  <2>2. stack' = WithTop(f)
    BY <1>3, <1>7, <2>1
  <2>3. Top.ok = TRUE
    BY <1>2, <1>7 DEF StepPasses, Frames
  <2>4. f \in Frames /\ f.at = "enter" /\ f.ok = TRUE
    <3>1. Top.step + 1 \in Nat \ {0}
      BY <1>2 DEF Frames
    <3>2. [Top EXCEPT !.at = "enter"] \in Frames
      BY <1>2 DEF Frames
    <3>3. f = [[Top EXCEPT !.at = "enter"] EXCEPT !.step = Top.step + 1]
      BY <1>2, <2>1 DEF Frames
    <3> QED
      BY <2>3, <3>1, <3>2, <3>3 DEF Frames
  <2>5. FrameInv(f)'
    BY <2>4 DEF FrameInv, Located, Polled, Spoilt
  <2>6. StackInv'
    BY <1>2, <1>3, <1>6, <2>2, <2>4, <2>5, StackReplaced
  <2>7. judged'.proven = judged.proven
    BY <1>2, <1>3, <1>4, <1>7
  <2>8. ~Spoilt(Top)
    BY <1>3, <2>3 DEF Spoilt
  <2>9. Evident' /\ Top' = f
    BY <2>2, <2>4, <2>7, <2>8, EvidentReplaced
  <2> QED
    BY <1>6, <1>7, <2>4, <2>6, <2>7, <2>9
<1>8. CASE ~StepPasses(Top)
  <2>1. PICK f : f = [Top EXCEPT !.at = "failed"]
    OBVIOUS
  <2>2. stack' = WithTop(f)
    BY <1>3, <1>8, <2>1
  <2>3. f \in Frames /\ f.at = "failed" /\ f.sub = Top.sub /\ f.step = Top.step
    BY <1>2, <2>1 DEF Frames
  <2>4. judged'.missed
    BY <1>3, <1>4, <1>8
  <2>5. FrameInv(f)'
    BY <1>2, <1>3, <2>3, <2>4 DEF FrameInv, Located, Polled, Steps
  <2>6. StackInv'
    BY <1>2, <1>3, <1>6, <2>2, <2>3, <2>5, StackReplaced
  <2>7. stack \in Seq(Frames) /\ stack # <<>> /\ stack' = Append(Front(stack), f)
    BY <2>2 DEF StackInv, WithTop
  <2>8. Last(stack') = f /\ f \in ToSet(stack')
    BY <2>3, <2>7, ReplaceTop
  <2>9. Spoilt(f)
    BY <2>3 DEF Spoilt
  <2>10. Evident' /\ Top' = f
    BY <2>8, <2>9 DEF Evident, Top
  <2> QED
    BY <1>6, <1>8, <2>3, <2>6, <2>10
<1> QED
  BY <1>7, <1>8

LEMMA CallSubroutineKeeps ==
    ASSUME StackInv, Evident, CallSubroutine
    PROVE  StackInv' /\ Evident' /\ Top'.at = "enter"
<1>1. PICK f : f = Frame(Action.name)
  OBVIOUS
<1>2. /\ Top \in Frames /\ FrameInv(Top) /\ WellFormed(StepOf(Top), program.subs)
      /\ stack \in Seq(Frames)
  BY TopFrame DEF StackInv, CallSubroutine, Calling
<1>3. /\ stack' = Append(stack, f) /\ Top.at = "acting" /\ Action.kind = "sub"
      /\ Top.act <= Len(StepOf(Top).actions)
      /\ program' = program /\ now' = now /\ judged' = judged
  BY <1>1 DEF CallSubroutine, Calling, Action
<1>4. Action.name \in DOMAIN program.subs
  <2>1. /\ Len(StepOf(Top).actions) \in Nat
        /\ DOMAIN StepOf(Top).actions = 1 .. Len(StepOf(Top).actions)
    BY <1>2, LenProperties DEF WellFormed
  <2>2. Top.act \in DOMAIN StepOf(Top).actions
    BY <1>2, <1>3, <2>1 DEF Frames
  <2> QED
    BY <1>2, <1>3, <2>2 DEF WellFormed, Action
<1>5. f = [sub |-> Action.name, step |-> 1, at |-> "enter", start |-> 0, act |-> 1,
           ok |-> TRUE, since |-> 0, polls |-> <<>>]
  BY <1>1 DEF Frame
<1>6. f \in Frames /\ f.at = "enter" /\ f.ok = TRUE
  BY <1>4, <1>5, EmptySeq DEF Frames
<1>7. FrameInv(f)'
  BY <1>6 DEF FrameInv, Located, Polled, Spoilt
<1>8. StackInv'
  BY <1>3, <1>6, <1>7, StackPushed
<1>9. Last(stack') = f /\ \A g \in ToSet(stack) : g \in ToSet(stack')
  BY <1>2, <1>3, <1>6, PushTop
<1>10. Evident' /\ Top' = f
  BY <1>3, <1>9 DEF Evident, Top
<1> QED
  BY <1>6, <1>8, <1>10

LEMMA ReturnSubroutineKeeps ==
    ASSUME StackInv, Evident, ReturnSubroutine
    PROVE  StackInv' /\ Evident' /\ Top'.at # "enter"
<1> DEFINE caller == Last(Front(stack))
           passed == Top.at # "failed"
<1>1. PICK f : f = [caller EXCEPT !.act = @ + 1, !.ok = @ /\ passed]
  OBVIOUS
<1>2. /\ Top.at \in {"enter", "failed"} /\ Len(stack) > 1
      /\ stack' = Append(Front(Front(stack)), f)
      /\ program' = program /\ now' = now /\ judged' = judged
  BY <1>1 DEF ReturnSubroutine, Through, ResumeCaller
<1>3. /\ Top \in Frames /\ FrameInv(Top) /\ stack \in Seq(Frames) /\ stack # <<>>
      /\ Len(stack) \in Nat \ {0} /\ DOMAIN stack = 1 .. Len(stack)
  BY TopFrame DEF StackInv
<1>4. caller = stack[Len(stack) - 1]
  BY <1>2, <1>3, FrontIs
<1>5. Len(stack) - 1 \in DOMAIN stack /\ Len(stack) - 1 < Len(stack)
  BY <1>2, <1>3
<1>6. /\ caller \in Frames /\ caller.at = "acting" /\ FrameInv(caller)
      /\ caller \in ToSet(stack)
  BY <1>3, <1>4, <1>5, TopIs DEF StackInv
<1> HIDE DEF caller
<1>7. /\ f.sub = caller.sub /\ f.step = caller.step /\ f.at = "acting"
      /\ f.polls = caller.polls /\ f.ok = (caller.ok /\ passed)
  BY <1>1, <1>6 DEF Frames
<1>8. f \in Frames
  <2>1. caller.act + 1 \in Nat \ {0} /\ (caller.ok /\ passed) \in BOOLEAN
    BY <1>6 DEF Frames
  <2>2. [caller EXCEPT !.act = caller.act + 1] \in Frames
    BY <1>6, <2>1 DEF Frames
  <2>3. f = [[caller EXCEPT !.act = caller.act + 1] EXCEPT !.ok = caller.ok /\ passed]
    BY <1>1, <1>6 DEF Frames
  <2> HIDE DEF passed
  <2> QED
    BY <2>1, <2>2, <2>3 DEF Frames
<1>9. Spoilt(Top) <=> Top.at = "failed"
  BY <1>2, <1>3 DEF FrameInv, Spoilt
<1>10. Spoilt(f) <=> Spoilt(caller) \/ Spoilt(Top)
  BY <1>6, <1>7, <1>9 DEF Spoilt
<1>11. FrameInv(f)'
  <2>1. Spoilt(f) => judged'.missed
    BY <1>2, <1>3, <1>6, <1>10 DEF FrameInv
  <2> QED
    BY <1>2, <1>6, <1>7, <2>1 DEF FrameInv, Located, Polled, StepOf, Steps
<1>12. StackInv'
  BY <1>2, <1>8, <1>11, StackPopped
<1>13. /\ Last(stack') = f /\ f \in ToSet(stack')
       /\ \A g \in ToSet(stack) : g = Top \/ g = caller \/ g \in ToSet(stack')
  BY <1>2, <1>3, <1>8, PopTop DEF Top, caller
<1>14. Evident' /\ Top' = f
  BY <1>2, <1>10, <1>13 DEF Evident, Top
<1> QED
  BY <1>7, <1>12, <1>14

LEMMA StackKeeps ==
    ASSUME StackInv, Evident, program' = program, now' \in Nat, judged' = judged,
           stack' = stack
    PROVE  StackInv' /\ Evident' /\ Top' = Top
BY StackStays DEF Evident, Top

-----------------------------------------------------------------------------
(* The log.                                                                *)

LEMMA LogGrows ==
    ASSUME NEW lines, NEW before, WellLogged(lines, before), Last(lines) \notin Verdicts,
           NEW m \in Markers \ {"started"}, NEW after,
           after \/ ~before \/ m = "stepFail"
    PROVE  WellLogged(Append(lines, m), after) /\ Last(Append(lines, m)) = m
<1> DEFINE l == Append(lines, m)
<1>1. lines \in Seq(Markers) /\ lines # <<>> /\ m \in Markers
  BY DEF WellLogged
<1>2. /\ Len(lines) \in Nat \ {0} /\ DOMAIN lines = 1 .. Len(lines)
      /\ Last(lines) = lines[Len(lines)]
  BY <1>1, TopIs
<1>3. /\ l \in Seq(Markers) /\ l # <<>> /\ Last(l) = m
      /\ DOMAIN l = 1 .. Len(lines) + 1 /\ Len(l) = Len(lines) + 1
      /\ l[Len(lines) + 1] = m
      /\ \A i \in 1 .. Len(lines) : l[i] = lines[i]
      /\ m \in ToSet(l)
      /\ \A g \in ToSet(lines) : g \in ToSet(l)
  BY <1>1, PushTop
<1> HIDE DEF l
<1>4. l[1] = "started"
  BY <1>2, <1>3 DEF WellLogged
<1>5. \A i \in DOMAIN l : l[i] = "started" => i = 1
  BY <1>2, <1>3 DEF WellLogged
<1>6. \A i \in DOMAIN l : l[i] \in Verdicts => i = Len(l)
  <2> SUFFICES ASSUME NEW i \in 1 .. Len(lines), l[i] \in Verdicts
               PROVE  FALSE
    BY <1>2, <1>3
  <2>1. lines[i] \in Verdicts /\ i \in DOMAIN lines
    BY <1>2, <1>3
  <2>2. i = Len(lines)
    BY <2>1 DEF WellLogged
  <2> QED
    BY <1>2, <2>1, <2>2
<1>7. after \/ "stepFail" \in ToSet(l)
  BY <1>3 DEF WellLogged
<1>8. WellLogged(l, after)
  BY <1>3, <1>4, <1>5, <1>6, <1>7 DEF WellLogged
<1> QED
  BY <1>3, <1>8 DEF l

(* run_cleanup leaves the log alone or ends it with a failure. *)
LEMMA LogCleanedUp ==
    ASSUME NEW lines, NEW proven, WellLogged(lines, proven), NEW c
    PROVE  /\ c.over \/ c.step = 0 => lines \o CleanupLines(c) = lines
           /\ ~(c.over \/ c.step = 0) /\ Last(lines) \notin Verdicts =>
                 /\ WellLogged(lines \o CleanupLines(c), proven)
                 /\ Last(lines \o CleanupLines(c)) = "testFail"
<1>1. lines \in Seq(Markers)
  BY DEF WellLogged
<1>2. c.over \/ c.step = 0 => lines \o CleanupLines(c) = lines
  BY <1>1, ConcatEmptySeq DEF CleanupLines
<1>3. ASSUME ~(c.over \/ c.step = 0), Last(lines) \notin Verdicts
      PROVE  /\ WellLogged(lines \o CleanupLines(c), proven)
             /\ Last(lines \o CleanupLines(c)) = "testFail"
  <2> DEFINE l == Append(lines, "stepFail")
             k == Append(l, "testFail")
  <2>1. "stepFail" \in Markers \ {"started"} /\ "testFail" \in Markers \ {"started"}
    BY DEF Markers
  <2>2. WellLogged(l, proven) /\ Last(l) = "stepFail"
    BY <1>3, <2>1, LogGrows
  <2>3. "stepFail" \notin Verdicts
    BY DEF Verdicts
  <2>4. proven \/ ~proven \/ "testFail" = "stepFail"
    OBVIOUS
  <2> HIDE DEF l
  <2>5. WellLogged(k, proven) /\ Last(k) = "testFail"
    BY <2>1, <2>2, <2>3, <2>4, LogGrows
  <2>6. lines \o <<"stepFail", "testFail">> = k
    BY <1>1, <2>1 DEF l
  <2> QED
    BY <1>3, <2>5, <2>6 DEF CleanupLines
<1> QED
  BY <1>2, <1>3

(* The parser looks at the whole log. *)
LEMMA SectionIsLog ==
    ASSUME NEW lines, NEW proven, WellLogged(lines, proven)
    PROVE  CaseSection(lines) = lines
<1> DEFINE starts == {i \in DOMAIN lines : lines[i] = "started"}
           first == IF starts = {} THEN 1
                    ELSE CHOOSE i \in starts : \A j \in starts : j <= i
           verdicts == {i \in first .. Len(lines) : lines[i] \in {"testPass", "testFail"}}
           last == IF starts = {} \/ verdicts = {} THEN Len(lines)
                   ELSE CHOOSE i \in verdicts : \A j \in verdicts : i <= j
<1>1. lines \in Seq(Markers) /\ lines # <<>>
  BY DEF WellLogged
<1>2. Len(lines) \in Nat \ {0} /\ DOMAIN lines = 1 .. Len(lines)
  BY <1>1, TopIs
<1>3. starts = {1}
  BY <1>2 DEF WellLogged
<1>4. first = 1
  <2> HIDE DEF starts
  <2>1. first \in {1}
    BY <1>3
  <2> QED
    BY <2>1
<1> HIDE DEF first
<1>5. \A i \in verdicts : i = Len(lines)
  BY <1>2, <1>4 DEF WellLogged, Verdicts
<1> HIDE DEF verdicts
<1>6. last = Len(lines)
  <2>1. CASE verdicts = {}
    BY <2>1
  <2>2. CASE verdicts # {}
    <3>1. verdicts = {Len(lines)}
      BY <1>5, <2>2
    <3>2. \A j \in verdicts : Len(lines) <= j
      BY <1>2, <3>1
    <3>3. (CHOOSE i \in verdicts : \A j \in verdicts : i <= j) \in verdicts
      BY <3>1, <3>2
    <3> QED
      BY <1>3, <2>2, <3>1, <3>3 DEF starts
  <2> QED
    BY <2>1, <2>2
<1> HIDE DEF last, starts
<1>7. CaseSection(lines) = SubSeq(lines, first, last)
  BY DEF CaseSection, starts, first, verdicts, last
<1> QED
  BY <1>1, <1>4, <1>6, <1>7, SubSeqFull

-----------------------------------------------------------------------------
(* Every step preserves the invariant.                                     *)

LEMMA InitInvariant == Init => IndInv
<1> SUFFICES ASSUME Init PROVE IndInv
  OBVIOUS
<1>1. PICK f : f = Frame(None)
  OBVIOUS
<1>2. f = [sub |-> None, step |-> 1, at |-> "enter", start |-> 0, act |-> 1,
           ok |-> TRUE, since |-> 0, polls |-> <<>>]
  BY <1>1 DEF Frame
<1>3. f \in Frames /\ f.at = "enter" /\ f.ok = TRUE
  BY <1>2, EmptySeq DEF Frames
<1>4. stack = <<f>> /\ ToSet(stack) = {f} /\ Top = f /\ Len(stack) = 1
  BY <1>1 DEF Init, ToSet, Top, Last
<1>5. FrameInv(f)
  BY <1>3 DEF FrameInv, Located, Polled, Spoilt
<1>6. StackInv
  <2>1. stack \in Seq(Frames) /\ stack # <<>>
    BY <1>3, <1>4
  <2>2. \A i \in DOMAIN stack : i < Len(stack) => stack[i].at = "acting"
    BY <1>4
  <2> QED
    BY <1>4, <1>5, <2>1, <2>2 DEF Init, StackInv
<1>7. Evident /\ CtxInv
  BY <1>3, <1>4 DEF Init, Evident, CtxInv, FreshCtx
<1>8. LogInv /\ Last(log) = "started"
  BY DEF Init, LogInv, WellLogged, Markers, Verdicts, Last
<1>9. EndInv
  BY <1>8, NoneAssumption DEF Init, EndInv, Running, Verdicts
<1> QED
  BY <1>6, <1>7, <1>8, <1>9 DEF IndInv

(* A step of the engine that writes no verdict. *)
LEMMA EngineGoesOn ==
    ASSUME EndInv, turn = "engine", turn' \in {"engine", "silver"}, ended' = ended,
           Last(log') \notin Verdicts, turn' = "silver" => Top'.at # "enter"
    PROVE  EndInv'
BY NoneAssumption DEF EndInv, Running, Verdicts

LEMMA StepInvariant == IndInv /\ [Next]_vars => IndInv'
<1> SUFFICES ASSUME IndInv, [Next]_vars PROVE IndInv'
  OBVIOUS
<1>1. StackInv /\ Evident /\ CtxInv /\ LogInv /\ EndInv
  BY DEF IndInv
<1>2. /\ now \in Nat /\ judged \in [proven : BOOLEAN, missed : BOOLEAN]
      /\ ctx = [over |-> ctx.over, step |-> ctx.step, subOk |-> ctx.subOk]
      /\ ctx.over \in BOOLEAN
  BY <1>1 DEF StackInv, CtxInv
<1>3. ASSUME turn = "engine" PROVE ended = None /\ Last(log) \notin Verdicts
  BY <1>1, <1>3 DEF EndInv, Running
<1>4. ASSUME log' = log, judged' = judged PROVE LogInv' /\ Last(log') = Last(log)
  BY <1>1, <1>4 DEF LogInv, WellLogged
<1>5. CASE PreInit
  <2>1. StackInv' /\ Evident' /\ Top' = Top
    BY <1>1, <1>2, <1>5, StackKeeps DEF PreInit
  <2>2. /\ turn = "loading" /\ turn' = "silver" /\ ended' = ended
        /\ log' = log /\ judged' = judged
    BY <1>5 DEF PreInit
  <2>3. CtxInv'
    <3>1. PICK no : ctx' = [ctx EXCEPT !.step = no]
      BY <1>5 DEF PreInit
    <3>2. Top.at = "enter" /\ turn' = "silver"
      BY <1>1, <1>5 DEF PreInit, CtxInv
    <3> QED
      BY <1>2, <2>1, <3>1, <3>2 DEF CtxInv
  <2>4. EndInv'
    BY <1>1, <1>4, <2>1, <2>2, NoneAssumption DEF EndInv, Running, Verdicts
  <2> QED
    BY <1>4, <2>1, <2>2, <2>3, <2>4 DEF IndInv
<1>6. CASE EnterStep
  <2>1. StackInv' /\ Evident' /\ Top'.at # "enter"
    BY <1>1, <1>6, EnterStepKeeps
  <2>2. /\ turn = "engine" /\ turn' = turn /\ ended' = ended /\ log' = log
        /\ judged' = judged /\ ctx' = [ctx EXCEPT !.step = StepOf(Top).no]
    BY <1>6 DEF EnterStep, Engine
  <2>3. StepOf(Top).no \in Nat \ {0}
    <3>1. /\ Top \in Frames /\ Len(Steps(Top.sub)) \in Nat
      BY <1>1, TopFrame
    <3>2. Top.step \in 1 .. Len(Steps(Top.sub))
      BY <1>6, <3>1 DEF EnterStep, Frames
    <3>3. WellFormed(StepOf(Top), program.subs)
      BY <1>1, <3>1, <3>2, StepsAre DEF StackInv, Frames, StepOf
    <3> QED
      BY <3>3 DEF WellFormed
  <2>4. CtxInv'
    BY <1>2, <2>2, <2>3 DEF CtxInv
  <2>5. EndInv'
    BY <1>1, <1>3, <1>4, <2>2, EngineGoesOn
  <2> QED
    BY <1>4, <2>1, <2>2, <2>4, <2>5 DEF IndInv
<1>7. CASE CallSubroutine
  <2>1. StackInv' /\ Evident' /\ Top'.at = "enter"
    BY <1>1, <1>7, CallSubroutineKeeps
  <2>2. /\ turn = "engine" /\ turn' = turn /\ ended' = ended /\ log' = log
        /\ judged' = judged /\ ctx' = FreshCtx
    BY <1>7 DEF CallSubroutine, Calling, Engine
  <2>3. CtxInv'
    BY <2>1, <2>2 DEF CtxInv, FreshCtx
  <2>4. EndInv'
    BY <1>1, <1>3, <1>4, <2>2, EngineGoesOn
  <2> QED
    BY <1>4, <2>1, <2>2, <2>3, <2>4 DEF IndInv
<1>8. CASE CallFunction \/ CallWait
  <2>1. StackInv' /\ Evident' /\ Top'.at # "enter"
    BY <1>1, <1>8, CallFunctionKeeps, CallWaitKeeps
  <2>2. /\ turn = "engine" /\ turn' = turn /\ ended' = ended /\ log' = log
        /\ judged' = judged /\ ctx' = [ctx EXCEPT !.subOk = TRUE] /\ Top.at = "acting"
    BY <1>8 DEF CallFunction, CallWait, Calling, Engine
  <2>3. CtxInv'
    BY <1>1, <1>2, <2>2 DEF CtxInv
  <2>4. EndInv'
    BY <1>1, <1>3, <1>4, <2>2, EngineGoesOn
  <2> QED
    BY <1>4, <2>1, <2>2, <2>3, <2>4 DEF IndInv
<1>9. CASE PollWait \/ JudgeWait
  <2>1. StackInv' /\ Evident' /\ Top'.at # "enter"
    BY <1>1, <1>9, PollWaitKeeps, JudgeWaitKeeps
  <2>2. /\ turn = "engine" /\ turn' \in {"engine", "silver"} /\ ended' = ended
        /\ log' = log /\ judged' = judged /\ ctx' = ctx /\ Top.at # "enter"
    BY <1>9 DEF PollWait, JudgeWait, Judging, Engine
  <2>3. CtxInv'
    BY <1>1, <2>2 DEF CtxInv
  <2>4. EndInv'
    BY <1>1, <1>3, <1>4, <2>1, <2>2, EngineGoesOn
  <2> QED
    BY <1>4, <2>1, <2>2, <2>3, <2>4 DEF IndInv
<1>10. CASE JudgeStep
  <2>1. /\ StackInv' /\ Evident'
        /\ StepPasses(Top) => Top'.at = "enter" /\ judged'.proven = judged.proven
        /\ ~StepPasses(Top) => Top'.at = "failed"
        /\ judged.missed => judged'.missed
    BY <1>1, <1>10, JudgeStepKeeps
  <2>2. /\ turn = "engine" /\ turn' = turn /\ ended' = ended /\ ctx' = ctx
        /\ Top.at # "enter"
        /\ log' = Append(log, IF StepPasses(Top) THEN "stepPass" ELSE "stepFail")
    BY <1>10 DEF JudgeStep, Judging, Engine
  <2>3. LogInv' /\ Last(log') \notin Verdicts
    <3> DEFINE m == IF StepPasses(Top) THEN "stepPass" ELSE "stepFail"
    <3>1. PICK n : n = m
      OBVIOUS
    <3>2. n \in Markers \ {"started"} /\ n \notin Verdicts /\ log' = Append(log, n)
      BY <2>2, <3>1 DEF Markers, Verdicts
    <3>3. judged'.proven \/ ~judged.proven \/ n = "stepFail"
      BY <2>1, <3>1
    <3>4. WellLogged(Append(log, n), judged'.proven) /\ Last(Append(log, n)) = n
      BY <1>1, <1>3, <2>2, <3>2, <3>3, LogGrows DEF LogInv
    <3> QED
      BY <3>2, <3>4 DEF LogInv
  <2>4. CtxInv'
    BY <1>1, <2>2 DEF CtxInv
  <2>5. EndInv'
    BY <1>1, <2>2, <2>3, EngineGoesOn
  <2> QED
    BY <2>1, <2>3, <2>4, <2>5 DEF IndInv
<1>11. CASE ReturnSubroutine
  <2>1. StackInv' /\ Evident' /\ Top'.at # "enter"
    BY <1>1, <1>11, ReturnSubroutineKeeps
  <2>2. PICK passed : passed = (Top.at # "failed")
    OBVIOUS
  <2>3. /\ turn = "engine" /\ turn' = turn /\ ended' = ended /\ log' = log
        /\ judged' = judged /\ ctx' = [ctx EXCEPT !.over = TRUE, !.subOk = passed]
        /\ passed \in BOOLEAN
    BY <1>11, <2>2 DEF ReturnSubroutine, Through, Engine
  <2>4. CtxInv'
    BY <1>2, <2>3 DEF CtxInv
  <2>5. EndInv'
    BY <1>1, <1>3, <1>4, <2>3, EngineGoesOn
  <2> QED
    BY <1>4, <2>1, <2>3, <2>4, <2>5 DEF IndInv
<1>12. CASE Raise
  <2>1. StackInv' /\ Evident' /\ Top' = Top
    BY <1>1, <1>2, <1>12, StackKeeps DEF Raise
  <2>2. /\ turn = "engine" /\ turn' = "over" /\ ended' = "raised" /\ judged' = judged
        /\ log' = Append(log, "testFail") /\ ctx' = [ctx EXCEPT !.over = TRUE]
    BY <1>12 DEF Raise, Calling, Engine
  <2>3. LogInv' /\ Last(log') = "testFail"
    <3>1. "testFail" \in Markers \ {"started"}
      BY DEF Markers
    <3>2. judged'.proven \/ ~judged.proven \/ "testFail" = "stepFail"
      BY <2>2
    <3> QED
      BY <1>1, <1>3, <2>2, <3>1, <3>2, LogGrows DEF LogInv
  <2>4. CtxInv'
    BY <1>2, <2>2 DEF CtxInv
  <2>5. EndInv'
    BY <1>2, <2>2, <2>3, NoneAssumption DEF EndInv, Running, Verdicts
  <2> QED
    BY <2>1, <2>3, <2>4, <2>5 DEF IndInv
<1>13. CASE FinishTest
  <2>1. StackInv' /\ Evident' /\ Top' = Top
    BY <1>1, <1>2, <1>13, StackKeeps DEF FinishTest
  <2>2. PICK n : n = IF Top.at = "failed" THEN "testFail" ELSE "testPass"
    OBVIOUS
  <2>3. /\ turn = "engine" /\ turn' = "over" /\ ended' = "finished" /\ judged' = judged
        /\ log' = Append(log, n) /\ ctx' = [ctx EXCEPT !.over = TRUE]
        /\ Top.at \in {"enter", "failed"} /\ Len(stack) = 1
    BY <1>13, <2>2 DEF FinishTest, Through, Engine
  <2>4. LogInv' /\ Last(log') = n
    <3>1. n \in Markers \ {"started"}
      BY <2>2 DEF Markers
    <3>2. judged'.proven \/ ~judged.proven \/ n = "stepFail"
      BY <2>3
    <3> QED
      BY <1>1, <1>3, <2>3, <3>1, <3>2, LogGrows DEF LogInv
  <2>5. FrameInv(Top) /\ ToSet(stack) = {Top}
    BY <1>1, <2>3, TopFrame DEF ToSet
  <2>6. Top.at = "failed" => judged.missed
    BY <2>5 DEF FrameInv, Spoilt
  <2>7. Top.at = "enter" => judged.proven
    BY <1>1, <2>5 DEF FrameInv, Spoilt, Evident
  <2>8. CtxInv'
    BY <1>2, <2>3 DEF CtxInv
  <2>9. EndInv'
    BY <1>2, <2>2, <2>3, <2>4, <2>6, <2>7, NoneAssumption DEF EndInv, Running, Verdicts
  <2> QED
    BY <2>1, <2>4, <2>8, <2>9 DEF IndInv
<1>14. CASE MacroStep
  <2>1. StackInv' /\ Evident' /\ Top' = Top
    BY <1>1, <1>2, <1>14, StackKeeps DEF MacroStep
  <2>2. /\ turn = "silver" /\ turn' = "engine" /\ ended' = ended /\ judged' = judged
        /\ log' = log /\ ctx' = ctx
    BY <1>14 DEF MacroStep
  <2>3. CtxInv'
    BY <1>1, <2>1, <2>2 DEF CtxInv
  <2>4. EndInv'
    BY <1>1, <2>2 DEF EndInv, Running, Verdicts
  <2> QED
    BY <1>4, <2>1, <2>2, <2>3, <2>4 DEF IndInv
<1>15. CASE Stop
  <2>1. StackInv' /\ Evident' /\ Top' = Top
    BY <1>1, <1>2, <1>15, StackKeeps DEF Stop
  <2>2. /\ turn \in {"silver", "over"} /\ turn' = "stopped" /\ judged' = judged
        /\ ctx' = ctx /\ log' = log \o CleanupLines(ctx)
        /\ ended' = IF turn = "silver" THEN "suspended" ELSE ended
    BY <1>15 DEF Stop
  <2>3. CtxInv'
    BY <1>1, <2>1, <2>2 DEF CtxInv
  <2>4. WellLogged(log, judged.proven)
    BY <1>1 DEF LogInv
  <2>5. CASE turn = "over"
    <3>1. ctx.over
      BY <1>1, <2>5 DEF EndInv
    <3>2. log' = log
      BY <2>2, <2>4, <3>1, LogCleanedUp
    <3>3. EndInv'
      BY <1>1, <2>2, <2>5, <3>2 DEF EndInv, Running, Verdicts
    <3> QED
      BY <1>4, <2>1, <2>2, <2>3, <3>2, <3>3 DEF IndInv
  <2>6. CASE turn = "silver" /\ (ctx.over \/ ctx.step = 0)
    <3>1. log' = log
      BY <2>2, <2>4, <2>6, LogCleanedUp
    <3>2. ctx.over \/ log = <<"started">>
      BY <1>1, <2>6 DEF EndInv, CtxInv
    <3>3. EndInv'
      BY <1>1, <2>2, <2>6, <3>1, <3>2, NoneAssumption DEF EndInv, Running, Verdicts
    <3> QED
      BY <1>4, <2>1, <2>2, <2>3, <3>1, <3>3 DEF IndInv
  <2>7. CASE turn = "silver" /\ ~(ctx.over \/ ctx.step = 0)
    <3>1. Last(log) \notin Verdicts
      BY <1>1, <2>7 DEF EndInv, Running
    <3>2. WellLogged(log', judged.proven) /\ Last(log') = "testFail"
      BY <2>2, <2>4, <2>7, <3>1, LogCleanedUp
    <3>3. LogInv'
      BY <2>2, <3>2 DEF LogInv
    <3>4. EndInv'
      BY <1>1, <2>2, <2>7, <3>2, NoneAssumption DEF EndInv, Running, Verdicts
    <3> QED
      BY <2>1, <2>3, <3>3, <3>4 DEF IndInv
  <2> QED
    BY <2>2, <2>5, <2>6, <2>7
<1>16. CASE TearDown
  <2>1. StackInv' /\ Evident' /\ Top' = Top
    BY <1>1, <1>2, <1>16, StackKeeps DEF TearDown
  <2>2. /\ turn' = turn /\ ended' = ended /\ judged' = judged /\ ctx' = ctx
        /\ turn # "read" /\ log' = log \o CleanupLines(FreshCtx)
    BY <1>16 DEF TearDown
  <2>3. log' = log
    <3>1. PICK c : c = FreshCtx
      OBVIOUS
    <3> QED
      BY <1>1, <2>2, <3>1, LogCleanedUp DEF LogInv, FreshCtx
  <2>4. CtxInv'
    BY <1>1, <2>1, <2>2 DEF CtxInv
  <2>5. EndInv'
    BY <1>1, <2>1, <2>2, <2>3 DEF EndInv
  <2> QED
    BY <1>4, <2>1, <2>2, <2>3, <2>4, <2>5 DEF IndInv
<1>17. CASE ReadVerdict
  <2>1. StackInv' /\ Evident' /\ Top' = Top
    BY <1>1, <1>2, <1>17, StackKeeps DEF ReadVerdict
  <2>2. /\ turn = "stopped" /\ turn' = "read" /\ ended' = ended /\ judged' = judged
        /\ ctx' = ctx /\ log' = log /\ verdict' = ParseVerdict(log)
    BY <1>17 DEF ReadVerdict
  <2>3. CtxInv'
    BY <1>1, <2>1, <2>2 DEF CtxInv
  <2>4. EndInv'
    BY <1>1, <2>2 DEF EndInv, Running
  <2> QED
    BY <1>4, <2>1, <2>2, <2>3, <2>4 DEF IndInv
<1>18. CASE UNCHANGED vars
  <2>1. StackInv' /\ Evident' /\ Top' = Top
    BY <1>1, <1>2, <1>18, StackKeeps DEF vars
  <2>2. CtxInv' /\ EndInv'
    BY <1>1, <1>18, <2>1 DEF CtxInv, EndInv, vars
  <2> QED
    BY <1>4, <1>18, <2>1, <2>2 DEF IndInv, vars
<1> QED
  BY <1>5, <1>6, <1>7, <1>8, <1>9, <1>10, <1>11, <1>12, <1>13, <1>14, <1>15, <1>16,
     <1>17, <1>18 DEF Next, EngineStep

-----------------------------------------------------------------------------
(* The arguments.                                                          *)

LEMMA PassedKeeps ==
    ASSUME program' = program
    PROVE  \A f, g : Passed(f, g)' = Passed(f, g)
BY DEF Passed, Binding, StepOf, Steps

LEMMA ScopeShape ==
    ASSUME StackInv, ScopeInv
    PROVE  /\ Len(stack) \in Nat \ {0} /\ DOMAIN stack = 1 .. Len(stack)
           /\ Len(params) = Len(stack) - 1 /\ DOMAIN params = 1 .. Len(stack) - 1
           /\ Top = stack[Len(stack)]
           /\ \A i \in 1 .. Len(stack) - 1 : params[i] = Passed(stack[i], stack[i + 1])
<1>1. /\ Len(stack) \in Nat \ {0} /\ DOMAIN stack = 1 .. Len(stack)
      /\ Top = stack[Len(stack)]
      /\ \A i \in DOMAIN stack : stack[i] \in ToSet(stack)
  BY TopFrame
<1>2. Len(params) = Len(stack) - 1 /\ DOMAIN params = 1 .. Len(stack) - 1
  BY LenProperties DEF ScopeInv
<1>3. ASSUME NEW i \in 1 .. Len(stack) - 1
      PROVE  params[i] = Passed(stack[i], stack[i + 1])
  <2>1. i \in DOMAIN stack /\ i + 1 \in DOMAIN stack
    BY <1>1
  <2> QED
    BY <1>1, <1>2, <2>1 DEF ScopeInv
<1> QED
  BY <1>1, <1>2, <1>3

LEMMA ScopeReplaced ==
    ASSUME StackInv, ScopeInv, program' = program, params' = params,
           NEW f, f.sub = Top.sub, stack' = WithTop(f)
    PROVE  ScopeInv'
<1>1. /\ stack \in Seq(Frames \cup {f}) /\ f \in Frames \cup {f}
      /\ stack # <<>> /\ stack' = Append(Front(stack), f)
  BY SeqMonotonic DEF StackInv, WithTop
<1>2. /\ Len(stack') = Len(stack) /\ stack'[Len(stack)] = f
      /\ \A i \in 1 .. Len(stack) - 1 : stack'[i] = stack[i]
  BY <1>1, ReplaceTop
<1>3. /\ Len(stack) \in Nat \ {0}
      /\ Len(params) = Len(stack) - 1 /\ DOMAIN params = 1 .. Len(stack) - 1
      /\ Top = stack[Len(stack)]
      /\ \A i \in 1 .. Len(stack) - 1 : params[i] = Passed(stack[i], stack[i + 1])
  BY ScopeShape
<1>4. ASSUME NEW i \in DOMAIN params', NEW g, NEW h, g = stack'[i], h = stack'[i + 1]
      PROVE  params'[i] = Passed(g, h)'
  <2>1. i \in 1 .. Len(stack) - 1
    BY <1>3
  <2>2. g = stack[i]
    BY <1>2, <1>4, <2>1
  <2>3. h.sub = stack[i + 1].sub
    <3>1. CASE i + 1 = Len(stack)
      BY <1>2, <1>3, <1>4, <3>1
    <3>2. CASE i + 1 # Len(stack)
      <4>1. i + 1 \in 1 .. Len(stack) - 1
        BY <1>3, <2>1, <3>2
      <4> QED
        BY <1>2, <1>4, <4>1
    <3> QED
      BY <3>1, <3>2
  <2>4. params[i] = Passed(g, h)
    BY <1>3, <2>1, <2>2, <2>3 DEF Passed
  <2> QED
    BY <2>4, PassedKeeps
<1> QED
  BY <1>2, <1>3, <1>4 DEF ScopeInv

LEMMA ScopeStep == IndInv /\ ScopeInv /\ [Next]_vars => ScopeInv'
<1> SUFFICES ASSUME IndInv, ScopeInv, [Next]_vars PROVE ScopeInv'
  OBVIOUS
<1>1. StackInv /\ ScopeInv
  BY DEF IndInv
<1>2. Top \in Frames /\ stack \in Seq(Frames) /\ stack # <<>>
  BY <1>1, TopFrame DEF StackInv
<1>3. ASSUME program' = program, stack' = stack, params' = params
      PROVE  ScopeInv'
  BY <1>1, <1>3, PassedKeeps DEF ScopeInv
<1>4. CASE CallSubroutine
  <2>1. PICK f : f = Frame(Action.name)
    OBVIOUS
  <2>2. PICK bound : bound = Binding(Action.name, Action.args)
    OBVIOUS
  <2>3. /\ stack' = Append(stack, f) /\ params' = Append(params, bound)
        /\ program' = program
    BY <1>4, <2>1, <2>2 DEF CallSubroutine
  <2>4. bound = Passed(Top, f)
    BY <2>1, <2>2 DEF Passed, Action, Frame
  <2>5. /\ stack \in Seq(Frames \cup {f}) /\ f \in Frames \cup {f}
    BY <1>2, SeqMonotonic
  <2>6. /\ Len(stack') = Len(stack) + 1 /\ stack'[Len(stack) + 1] = f
        /\ \A i \in 1 .. Len(stack) : stack'[i] = stack[i]
    BY <2>3, <2>5, PushTop
  <2>7. /\ params \in Seq(ToSet(params) \cup {bound}) /\ bound \in ToSet(params) \cup {bound}
    BY <1>1, SeqMonotonic DEF ScopeInv
  <2>8. /\ params' \in Seq(ToSet(params) \cup {bound})
        /\ Len(params') = Len(params) + 1 /\ DOMAIN params' = 1 .. Len(params) + 1
        /\ params'[Len(params) + 1] = bound
        /\ \A i \in 1 .. Len(params) : params'[i] = params[i]
    BY <2>3, <2>7, PushTop
  <2>9. params' \in Seq(ToSet(params'))
    BY <2>8, OwnElements
  <2>10. /\ Len(stack) \in Nat \ {0} /\ Len(params) = Len(stack) - 1
         /\ Top = stack[Len(stack)]
         /\ \A i \in 1 .. Len(stack) - 1 : params[i] = Passed(stack[i], stack[i + 1])
    BY <1>1, ScopeShape
  <2>11. ASSUME NEW i \in DOMAIN params', NEW g, NEW h, g = stack'[i], h = stack'[i + 1]
         PROVE  params'[i] = Passed(g, h)'
    <3>1. CASE i = Len(stack)
      <4>1. g = Top /\ h = f /\ params'[i] = bound
        BY <2>6, <2>8, <2>10, <2>11, <3>1
      <4> QED
        BY <2>3, <2>4, <4>1, PassedKeeps
    <3>2. CASE i # Len(stack)
      <4>1. i \in 1 .. Len(stack) - 1 /\ i \in 1 .. Len(stack) /\ i + 1 \in 1 .. Len(stack)
        BY <2>8, <2>10, <3>2
      <4>2. g = stack[i] /\ h = stack[i + 1] /\ params'[i] = params[i]
        BY <2>6, <2>8, <2>10, <2>11, <4>1
      <4> QED
        BY <2>3, <2>10, <4>1, <4>2, PassedKeeps
    <3> QED
      BY <3>1, <3>2
  <2> QED
    BY <2>6, <2>8, <2>9, <2>10, <2>11 DEF ScopeInv
<1>5. CASE ReturnSubroutine
  <2> DEFINE caller == Last(Front(stack))
  <2>1. PICK f : f = [caller EXCEPT !.act = @ + 1, !.ok = @ /\ Top.at # "failed"]
    OBVIOUS
  <2>2. /\ stack' = Append(Front(Front(stack)), f) /\ params' = Front(params)
        /\ program' = program /\ Len(stack) > 1
    BY <1>5, <2>1 DEF ReturnSubroutine, ResumeCaller
  <2>3. /\ Len(stack) \in Nat \ {0} /\ Len(params) = Len(stack) - 1
        /\ DOMAIN params = 1 .. Len(stack) - 1
        /\ \A i \in 1 .. Len(stack) - 1 : params[i] = Passed(stack[i], stack[i + 1])
    BY <1>1, ScopeShape
  <2>4. caller = stack[Len(stack) - 1] /\ caller \in Frames
    <3>1. caller = stack[Len(stack) - 1]
      BY <1>2, <2>2, FrontIs
    <3>2. Len(stack) - 1 \in 1 .. Len(stack)
      BY <2>2, <2>3
    <3> QED
      BY <1>2, <3>1, <3>2, TopIs
  <2> HIDE DEF caller
  <2>5. f.sub = caller.sub
    BY <2>1, <2>4 DEF Frames
  <2>6. /\ stack \in Seq(Frames \cup {f}) /\ f \in Frames \cup {f}
    BY <1>2, SeqMonotonic
  <2>7. /\ Len(stack') = Len(stack) - 1 /\ stack'[Len(stack) - 1] = f
        /\ \A i \in 1 .. Len(stack) - 2 : stack'[i] = stack[i]
    BY <2>2, <2>6, PopTop
  <2>8. params # <<>>
    BY <2>2, <2>3, EmptySeq
  <2>9. /\ params' \in Seq(ToSet(params)) /\ Len(params') = Len(params) - 1
        /\ \A i \in 1 .. Len(params) - 1 : params'[i] = params[i]
    BY <1>1, <2>2, <2>8, FrontIs DEF ScopeInv
  <2>10. params' \in Seq(ToSet(params')) /\ DOMAIN params' = 1 .. Len(params')
    BY <2>9, OwnElements, LenProperties
  <2>11. ASSUME NEW i \in DOMAIN params', NEW g, NEW h, g = stack'[i], h = stack'[i + 1]
         PROVE  params'[i] = Passed(g, h)'
    <3>1. i \in 1 .. Len(stack) - 2 /\ i \in 1 .. Len(stack) - 1 /\ i \in 1 .. Len(params) - 1
      BY <2>3, <2>9, <2>10
    <3>2. g = stack[i] /\ params'[i] = params[i]
      BY <2>7, <2>9, <2>11, <3>1
    <3>3. h.sub = stack[i + 1].sub
      <4>1. CASE i = Len(stack) - 2
        BY <2>3, <2>4, <2>5, <2>7, <2>11, <4>1
      <4>2. CASE i # Len(stack) - 2
        <5>1. i + 1 \in 1 .. Len(stack) - 2
          BY <2>3, <3>1, <4>2
        <5> QED
          BY <2>7, <2>11, <5>1
      <4> QED
        BY <4>1, <4>2
    <3>4. params[i] = Passed(g, h)
      BY <2>3, <3>1, <3>2, <3>3 DEF Passed
    <3> QED
      BY <2>2, <3>2, <3>4, PassedKeeps
  <2> QED
    BY <2>3, <2>7, <2>9, <2>10, <2>11 DEF ScopeInv
<1>6. ASSUME EnterStep \/ CallFunction \/ CallWait \/ PollWait \/ JudgeWait \/ JudgeStep
      PROVE  ScopeInv'
  <2>1. program' = program /\ params' = params
    BY <1>6 DEF EnterStep, CallFunction, CallWait, PollWait, JudgeWait, JudgeStep
  <2>2. CASE stack' = stack
    BY <1>3, <2>1, <2>2
  <2>3. CASE stack' # stack
    <3>1. \/ stack' = WithTop([Top EXCEPT !.at = "acting", !.start = now, !.act = 1,
                                         !.ok = TRUE, !.polls = <<>>])
          \/ stack' = WithTop([Top EXCEPT !.act = @ + 1])
          \/ stack' = WithTop([Top EXCEPT !.at = "waiting", !.since = now])
          \/ stack' = WithTop([Top EXCEPT !.at = "acting", !.act = @ + 1])
          \/ stack' = WithTop([Top EXCEPT !.polls = Append(@, ChecksOk(StepOf(Top)))])
          \/ stack' = WithTop([Top EXCEPT !.step = @ + 1, !.at = "enter"])
          \/ stack' = WithTop([Top EXCEPT !.at = "failed"])
      BY <1>6, <2>3 DEF EnterStep, CallFunction, CallWait, PollWait, JudgeWait, JudgeStep
    <3>2. /\ [Top EXCEPT !.at = "acting", !.start = now, !.act = 1,
                         !.ok = TRUE, !.polls = <<>>].sub = Top.sub
          /\ [Top EXCEPT !.act = @ + 1].sub = Top.sub
          /\ [Top EXCEPT !.at = "waiting", !.since = now].sub = Top.sub
          /\ [Top EXCEPT !.at = "acting", !.act = @ + 1].sub = Top.sub
          /\ [Top EXCEPT !.polls = Append(@, ChecksOk(StepOf(Top)))].sub = Top.sub
          /\ [Top EXCEPT !.step = @ + 1, !.at = "enter"].sub = Top.sub
          /\ [Top EXCEPT !.at = "failed"].sub = Top.sub
      BY <1>2 DEF Frames
    <3>3. PICK f : stack' = WithTop(f) /\ f.sub = Top.sub
      BY <3>1, <3>2, Zenon
    <3> QED
      BY <1>1, <2>1, <3>3, ScopeReplaced
  <2> QED
    BY <2>2, <2>3
<1>7. CASE PreInit \/ Raise \/ FinishTest \/ MacroStep \/ Stop \/ TearDown \/ ReadVerdict
  BY <1>3, <1>7 DEF PreInit, Raise, FinishTest, MacroStep, Stop, TearDown, ReadVerdict
<1>8. CASE UNCHANGED vars
  BY <1>3, <1>8 DEF vars
<1> QED
  BY <1>4, <1>5, <1>6, <1>7, <1>8 DEF Next, EngineStep

-----------------------------------------------------------------------------
(* The theorems.                                                           *)

LEMMA InvariantHolds == Spec => []IndInv
<1> QED
  BY InitInvariant, StepInvariant, PTL DEF Spec

\* For every well-formed test case, whatever the signals do and whenever Silver
\* stops the run, a verdict read off the log is earned: run_test, run_subroutine,
\* run_cleanup and parse_verdict_text never turn a missed step into a pass, nor
\* steps that met their checks into a failure.
THEOREM VerdictIsEarnedHolds == Spec => []VerdictIsEarned
<1>1. IndInv => VerdictIsEarned
  <2> SUFFICES ASSUME IndInv, turn = "read"
               PROVE  /\ verdict = "PASS" => judged.proven
                      /\ verdict = "PASS" =>
                            ended = "finished" \/ (ended = "suspended" /\ ctx.over)
                      /\ verdict = "FAIL" => judged.missed \/ ended \in {"raised", "suspended"}
                      /\ verdict = "UNKNOWN" => ended = "suspended"
    BY DEF VerdictIsEarned
  <2>1. WellLogged(log, judged.proven) /\ verdict = ParseVerdict(log) /\ EndInv
    BY DEF IndInv, LogInv, EndInv
  <2>2. CaseSection(log) = log
    BY <2>1, SectionIsLog
  <2> DEFINE found == ToSet(log)
  <2>3. verdict = CASE "testFail" \in found -> "FAIL"
                    [] "testFail" \notin found /\ "testPass" \in found -> "PASS"
                    [] found \cap {"testFail", "testPass"} = {} /\ "stepFail" \in found -> "FAIL"
                    [] found \cap {"testFail", "testPass", "stepFail"} = {}
                          /\ "stepPass" \in found -> "PASS"
                    [] OTHER -> "UNKNOWN"
    BY <2>1, <2>2 DEF ParseVerdict
  <2>4. /\ log \in Seq(Markers) /\ log # <<>>
        /\ \A m \in Verdicts : m \in found <=> Last(log) = m
    <3>1. log \in Seq(Markers) /\ log # <<>>
      BY <2>1 DEF WellLogged
    <3>2. /\ DOMAIN log = 1 .. Len(log) /\ Last(log) = log[Len(log)]
          /\ Last(log) \in ToSet(log)
      BY <3>1, TopIs
    <3>3. \A m \in Verdicts : m \in found => Last(log) = m
      BY <2>1, <3>2 DEF ToSet, WellLogged
    <3> QED
      BY <3>1, <3>2, <3>3
  <2>5. "stepFail" \in found \/ judged.proven
    BY <2>1 DEF WellLogged
  <2>6. log = <<"started">> => found = {"started"}
    BY DEF ToSet
  <2> HIDE DEF found
  <2>7. "testFail" \in found <=> Last(log) = "testFail"
    BY <2>4 DEF Verdicts
  <2>8. "testPass" \in found <=> Last(log) = "testPass"
    BY <2>4 DEF Verdicts
  <2>9. /\ ended \in {"finished", "raised", "suspended"}
        /\ ended = "finished" => Last(log) \in Verdicts
        /\ ended = "raised" => Last(log) = "testFail"
        /\ ended = "suspended" =>
              Last(log) = "testFail" \/ (Last(log) \notin Verdicts /\ (ctx.over \/ log = <<"started">>))
        /\ Last(log) = "testPass" => judged.proven
        /\ ended = "finished" /\ Last(log) = "testFail" => judged.missed
    BY <2>1 DEF EndInv, Running
  <2>10. CASE Last(log) = "testFail"
    BY <2>3, <2>7, <2>9, <2>10
  <2>11. CASE Last(log) = "testPass"
    <3>1. verdict = "PASS"
      BY <2>3, <2>7, <2>8, <2>11
    <3> QED
      BY <2>9, <2>11, <3>1 DEF Verdicts
  <2>12. CASE Last(log) \notin Verdicts
    <3>1. ended = "suspended" /\ (ctx.over \/ log = <<"started">>)
      BY <2>9, <2>12 DEF Verdicts
    <3>2. "testFail" \notin found /\ "testPass" \notin found
      BY <2>7, <2>8, <2>12 DEF Verdicts
    <3>3. verdict = "PASS" => "stepFail" \notin found /\ "stepPass" \in found
      BY <2>3, <3>2
    <3> QED
      BY <2>5, <2>6, <3>1, <3>3
  <2> QED
    BY <2>10, <2>11, <2>12 DEF Verdicts
<1> QED
  BY <1>1, InvariantHolds, PTL

\* A subroutine reads its own caller's arguments, however deep the calls nest and
\* whatever names its formal parameters share with outer ones: push_params and
\* pop_params keep one binding per active subroutine.
THEOREM ParamsScopedHolds == Spec => []ParamsScoped
<1>1. Init => ScopeInv
  <2> SUFFICES ASSUME Init PROVE ScopeInv
    OBVIOUS
  <2>1. params = <<>> /\ Len(stack) = 1
    BY DEF Init
  <2>2. Len(params) = 0 /\ DOMAIN params = {} /\ params \in Seq(ToSet(params))
    BY <2>1, EmptySeq, LenProperties
  <2> QED
    BY <2>1, <2>2 DEF ScopeInv
<1>2. IndInv /\ ScopeInv => ParamsScoped
  <2> SUFFICES ASSUME IndInv, ScopeInv PROVE ParamsScoped
    OBVIOUS
  <2>1. /\ Len(params) = Len(stack) - 1 /\ DOMAIN params = 1 .. Len(stack) - 1
        /\ \A i \in 1 .. Len(stack) - 1 : params[i] = Passed(stack[i], stack[i + 1])
    BY ScopeShape DEF IndInv
  <2> QED
    BY <2>1 DEF ParamsScoped, Passed
<1> QED
  BY <1>1, <1>2, ScopeStep, InvariantHolds, PTL DEF Spec

-----------------------------------------------------------------------------
(* The types.  A position in a list of steps or of actions never runs past   *)
(* its end, which takes what a caller knows: it stands at a call.            *)

FrameTyped(f) ==
    /\ f.start \in 0 .. now /\ f.since \in 0 .. now
    /\ f.step <= Len(Steps(f.sub)) + 1
    /\ f.at = "acting" => f.act <= Len(StepOf(f).actions) + 1
    /\ f.at = "waiting" => f.act <= Len(StepOf(f).actions)

AtCall(f) == f.act <= Len(StepOf(f).actions)

StackTyped ==
    /\ stack[1].sub = None
    /\ \A i \in DOMAIN stack : \A f \in ToSet(stack) :
          f = stack[i] =>
             /\ FrameTyped(f)
             /\ i > 1 => f.sub # None
             /\ i < Len(stack) => AtCall(f)

ParamsTyped == \A i \in DOMAIN params : \A p \in DOMAIN params[i] : params[i][p] \in Values

PlainTyped ==
    /\ now <= Horizon
    /\ signals \in [Vars -> Values]
    /\ ctx.subOk \in BOOLEAN /\ ctx.step \in Nat
    /\ discarded \in BOOLEAN
    /\ verdict \in {None, "PASS", "FAIL", "UNKNOWN"}

\* A nonempty bounded set of numbers has a greatest one: the least distance to
\* the bound.
LEMMA GreatestExists ==
    ASSUME NEW S, S \subseteq Nat, S # {}, NEW L \in Nat, \A d \in S : d <= L
    PROVE  \E m \in S : \A e \in S : e <= m
<1> DEFINE T == {L - d : d \in S}
           R == {ss \in Nat \X Nat : ss[1] < ss[2]}
<1>1. T \subseteq Nat /\ T # {}
  <2>1. \A d \in S : L - d \in Nat
    OBVIOUS
  <2>2. PICK d \in S : TRUE
    OBVIOUS
  <2>3. L - d \in T
    BY <2>2
  <2> QED
    BY <2>1, <2>3
<1>2. IsWellFoundedOn(R, Nat)
  BY NatLessThanWellFounded, Zenon DEF OpToRel
<1>3. PICK x \in T : \A y \in T : ~(<<y, x>> \in R)
  <2> HIDE DEF R, T
  <2> QED
    BY <1>1, <1>2, WFMin, Zenon
<1>4. \A y \in T : x <= y
  <2> SUFFICES ASSUME NEW y \in T PROVE x <= y
    OBVIOUS
  <2>1. x \in Nat /\ y \in Nat /\ <<y, x>> \notin R
    BY <1>1, <1>3
  <2> QED
    BY <2>1
<1>5. PICK d \in S : x = L - d
  OBVIOUS
<1>6. \A e \in S : e <= d
  <2> SUFFICES ASSUME NEW e \in S PROVE e <= d
    OBVIOUS
  <2>1. L - d <= L - e
    BY <1>4, <1>5
  <2>2. d \in Nat /\ e \in Nat
    OBVIOUS
  <2> QED
    BY <2>1, <2>2
<1> QED
  BY <1>6

\* The last of several assignments in run_init_subroutine's order is one of them.
LEMMA LatestIs ==
    ASSUME NEW W, W # {}, NEW L \in Nat, NEW M \in [1 .. L -> Nat],
           \A p \in W : p = <<p[1], p[2]>> /\ p[1] \in 1 .. L /\ p[2] \in 1 .. M[p[1]]
    PROVE  Latest(W) \in W
<1> DEFINE A == {p[1] : p \in W}
<1>1. A \subseteq Nat /\ A # {} /\ \A d \in A : d <= L
  OBVIOUS
<1>2. PICK a \in A : \A e \in A : e <= a
  <2> HIDE DEF A
  <2> QED
    BY <1>1, GreatestExists
<1>3. PICK pa \in W : pa[1] = a
  OBVIOUS
<1> DEFINE B == {p[2] : p \in {q \in W : q[1] = a}}
<1>4. M[a] \in Nat /\ B \subseteq Nat /\ \A d \in B : d <= M[a]
  BY <1>3
<1>5. B # {}
  BY <1>3
<1>6. PICK b \in B : \A e \in B : e <= b
  <2> HIDE DEF B
  <2> QED
    BY <1>4, <1>5, GreatestExists
<1>7. PICK m \in W : m[1] = a /\ m[2] = b
  OBVIOUS
<1>8. ASSUME NEW q \in W
      PROVE  q[1] < m[1] \/ (q[1] = m[1] /\ q[2] <= m[2])
  <2>1. q[1] <= a /\ q[1] \in Nat /\ a \in Nat
    BY <1>1, <1>2
  <2>2. q[1] = a => q[2] <= b
    BY <1>6
  <2> QED
    BY <1>7, <2>1, <2>2
<1>9. \E p \in W : \A q \in W : q[1] < p[1] \/ (q[1] = p[1] /\ q[2] <= p[2])
  BY <1>8
<1> QED
  BY <1>9 DEF Latest

(* The last step of a list. *)
LEMMA LastStep ==
    ASSUME program \in Programs, NEW name \in {None} \cup DOMAIN program.subs,
           Steps(name) # <<>>
    PROVE  WellFormed(Last(Steps(name)), program.subs)
<1>1. Steps(name) \in Seq(ToSet(Steps(name)))
  BY ProgramAssumption DEF Steps
<1>2. Len(Steps(name)) \in Nat \ {0} /\ Last(Steps(name)) = Steps(name)[Len(Steps(name))]
  BY <1>1, TopIs
<1> QED
  BY <1>2, StepsAre

LEMMA PreInitTyped ==
    ASSUME program \in Programs, CtxInv, PlainTyped, PreInit
    PROVE  PlainTyped'
<1>1. /\ program.init \in Seq(DOMAIN program.subs) /\ None \notin DOMAIN program.subs
  BY ProgramAssumption
<1>2. /\ Len(program.init) \in Nat /\ DOMAIN program.init = 1 .. Len(program.init)
      /\ \A i \in 1 .. Len(program.init) : program.init[i] \in DOMAIN program.subs
  BY <1>1, LenProperties
<1>3. ASSUME NEW i \in 1 .. Len(program.init)
      PROVE  /\ DOMAIN Steps(program.init[i]) = 1 .. Len(Steps(program.init[i]))
             /\ Len(Steps(program.init[i])) \in Nat
             /\ \A j \in DOMAIN Steps(program.init[i]) :
                   WellFormed(Steps(program.init[i])[j], program.subs)
  <2>1. program.init[i] \in {None} \cup DOMAIN program.subs
    BY <1>2
  <2>2. /\ Steps(program.init[i]) \in Seq(ToSet(Steps(program.init[i])))
        /\ \A j \in DOMAIN Steps(program.init[i]) :
              WellFormed(Steps(program.init[i])[j], program.subs)
    BY <2>1, ProgramAssumption DEF Steps
  <2> QED
    BY <2>2, LenProperties
<1> DEFINE M == [i \in 1 .. Len(program.init) |-> Len(Steps(program.init[i]))]
<1>4. M \in [1 .. Len(program.init) -> Nat]
  BY <1>3
<1>5. ASSUME NEW p \in InitSteps
      PROVE  /\ p = <<p[1], p[2]>> /\ p[1] \in 1 .. Len(program.init) /\ p[2] \in 1 .. M[p[1]]
             /\ WellFormed(InitStep(p), program.subs)
  <2>1. PICK i \in 1 .. Len(program.init) : p \in {i} \X DOMAIN Steps(program.init[i])
    BY <1>2 DEF InitSteps
  <2>2. p = <<p[1], p[2]>> /\ p[1] = i /\ p[2] \in DOMAIN Steps(program.init[i])
    BY <2>1
  <2> QED
    BY <1>3, <2>2 DEF InitStep
<1> HIDE DEF M
<1>6. ASSUME NEW v \in Vars,
             NEW writes, writes = {p \in InitSteps : v \in DOMAIN InitStep(p).inputs},
             writes # {}
      PROVE  InitStep(Latest(writes)).inputs[v].value \in Values
  <2>1. Latest(writes) \in writes
    <3>1. \A p \in writes :
             /\ p = <<p[1], p[2]>> /\ p[1] \in 1 .. Len(program.init)
             /\ p[2] \in 1 .. M[p[1]]
      BY <1>5, <1>6
    <3> QED
      BY <1>2, <1>4, <1>6, <3>1, LatestIs
  <2>2. PICK p : p = Latest(writes)
    OBVIOUS
  <2>3. p \in InitSteps /\ v \in DOMAIN InitStep(p).inputs
    BY <1>6, <2>1, <2>2
  <2>4. WellFormed(InitStep(p), program.subs)
    BY <1>5, <2>3
  <2> QED
    BY <2>2, <2>3, <2>4 DEF WellFormed
<1>7. signals' \in [Vars -> Values]
  <2> DEFINE writes(v) == {p \in InitSteps : v \in DOMAIN InitStep(p).inputs}
             new(v) == IF writes(v) = {} THEN signals[v]
                       ELSE InitStep(Latest(writes(v))).inputs[v].value
  <2>1. signals' = [v \in Vars |-> new(v)]
    BY DEF PreInit
  <2>2. ASSUME NEW v \in Vars PROVE new(v) \in Values
    <3>1. signals[v] \in Values
      BY DEF PlainTyped
    <3>2. writes(v) # {} => InitStep(Latest(writes(v))).inputs[v].value \in Values
      BY <1>6
    <3> QED
      BY <3>1, <3>2
  <2> HIDE DEF new
  <2> QED
    BY <2>1, <2>2
<1>8. ctx'.step \in Nat /\ ctx'.subOk = ctx.subOk
  <2> DEFINE steps == IF program.init = <<>> THEN <<>> ELSE Steps(Last(program.init))
  <2>1. PICK n : n = IF steps = <<>> THEN 0 ELSE Last(steps).no
    OBVIOUS
  <2>2. n \in Nat
    <3>1. CASE program.init = <<>> \/ steps = <<>>
      BY <2>1, <3>1
    <3>2. CASE program.init # <<>> /\ steps # <<>>
      <4>1. Last(program.init) \in DOMAIN program.subs
        BY <1>1, <3>2, TopIs
      <4>2. WellFormed(Last(Steps(Last(program.init))), program.subs)
        BY <3>2, <4>1, LastStep
      <4> QED
        BY <2>1, <3>2, <4>2 DEF WellFormed
    <3> QED
      BY <3>1, <3>2
  <2>3. ctx' = [ctx EXCEPT !.step = n]
    BY <2>1 DEF PreInit
  <2> QED
    BY <2>2, <2>3 DEF CtxInv
<1> QED
  BY <1>7, <1>8 DEF PreInit, PlainTyped

-----------------------------------------------------------------------------
(* What the top frame's step offers.                                       *)

LEMMA TopStep ==
    ASSUME StackInv
    PROVE  /\ Top.at # "enter" => Len(StepOf(Top).actions) \in Nat
           /\ Top.step <= Len(Steps(Top.sub)) =>
                 WellFormed(StepOf(Top), program.subs) /\ Len(StepOf(Top).actions) \in Nat
           /\ Top.at = "acting" /\ Top.act <= Len(StepOf(Top).actions) =>
                 \/ Action.kind # "sub"
                 \/ Action.name \in DOMAIN program.subs /\ Action.args \in Seq(Values)
<1>1. /\ Top \in Frames /\ FrameInv(Top) /\ Len(Steps(Top.sub)) \in Nat
      /\ Top.at # "enter" => WellFormed(StepOf(Top), program.subs)
  BY TopFrame
<1>2. Top.step <= Len(Steps(Top.sub)) => WellFormed(StepOf(Top), program.subs)
  <2>1. Top.step \in Nat \ {0} /\ Top.sub \in {None} \cup DOMAIN program.subs
    BY <1>1 DEF Frames
  <2> QED
    BY <1>1, <2>1, StepsAre DEF StackInv, StepOf
<1>3. ASSUME WellFormed(StepOf(Top), program.subs)
      PROVE  /\ Len(StepOf(Top).actions) \in Nat
             /\ DOMAIN StepOf(Top).actions = 1 .. Len(StepOf(Top).actions)
  BY <1>3, LenProperties DEF WellFormed
<1>4. ASSUME Top.at = "acting", Top.act <= Len(StepOf(Top).actions), Action.kind = "sub"
      PROVE  Action.name \in DOMAIN program.subs /\ Action.args \in Seq(Values)
  <2>1. WellFormed(StepOf(Top), program.subs)
    BY <1>1, <1>4
  <2>2. Top.act \in DOMAIN StepOf(Top).actions
    <3>1. Top.act \in Nat \ {0}
      BY <1>1 DEF Frames
    <3> QED
      BY <1>3, <1>4, <2>1, <3>1
  <2> QED
    BY <1>4, <2>1, <2>2 DEF WellFormed, Action
<1> QED
  BY <1>1, <1>2, <1>3, <1>4

LEMMA FrameTypedKeeps ==
    ASSUME program' = program, now \in Nat, now' \in Nat, now <= now'
    PROVE  \A f : /\ FrameTyped(f) => FrameTyped(f)'
                  /\ AtCall(f) => AtCall(f)'
BY DEF FrameTyped, AtCall, StepOf, Steps

LEMMA TypedReplaced ==
    ASSUME StackInv, StackTyped, program' = program, now' = now,
           NEW f, f.sub = Top.sub, FrameTyped(f), stack' = WithTop(f)
    PROVE  StackTyped'
<1>1. /\ stack \in Seq(Frames \cup {f}) /\ f \in Frames \cup {f}
      /\ stack # <<>> /\ stack' = Append(Front(stack), f)
  BY SeqMonotonic DEF StackInv, WithTop
<1>2. /\ Len(stack') = Len(stack) /\ stack'[Len(stack)] = f
      /\ \A i \in 1 .. Len(stack) - 1 : stack'[i] = stack[i]
      /\ stack' \in Seq(Frames \cup {f})
  BY <1>1, ReplaceTop
<1>3. /\ Len(stack) \in Nat \ {0} /\ DOMAIN stack = 1 .. Len(stack)
      /\ Top = stack[Len(stack)] /\ now \in Nat
      /\ \A i \in DOMAIN stack : stack[i] \in ToSet(stack)
  BY TopFrame DEF StackInv
<1>length. Len(stack) \in Nat
  BY <1>3
<1>4. DOMAIN stack' = 1 .. Len(stack)
  BY <1>2, LenProperties
<1>5. \A g : /\ FrameTyped(g) => FrameTyped(g)'
             /\ AtCall(g) => AtCall(g)'
  BY <1>3, FrameTypedKeeps
<1>6. ASSUME NEW i \in 1 .. Len(stack), NEW g, g = stack'[i]
      PROVE  /\ FrameTyped(g)' /\ g.sub = stack[i].sub
             /\ i < Len(stack) => AtCall(g)'
  <2>1. CASE i = Len(stack)
    <3>1. g = f /\ ~(i < Len(stack)) /\ f.sub = stack[i].sub
      BY <1>2, <1>3, <1>6, <2>1
    <3> QED
      BY <1>5, <3>1
  <2>2. CASE i # Len(stack)
    <3>1. i \in 1 .. Len(stack) - 1 /\ i < Len(stack)
      BY <1>length, <2>2
    <3>2. FrameTyped(stack[i]) /\ AtCall(stack[i])
      BY <1>3, <3>1 DEF StackTyped
    <3> QED
      BY <1>2, <1>5, <1>6, <3>1, <3>2
  <2> QED
    BY <2>1, <2>2
<1>7. stack'[1].sub = None /\ \A i \in 1 .. Len(stack) : i > 1 => stack'[i].sub # None
  <2>1. stack[1].sub = None /\ \A i \in 1 .. Len(stack) : i > 1 => stack[i].sub # None
    BY <1>3 DEF StackTyped
  <2>2. \A i \in 1 .. Len(stack) : stack'[i].sub = stack[i].sub
    BY <1>6
  <2> QED
    BY <1>3, <2>1, <2>2
<1> QED
  BY <1>2, <1>4, <1>6, <1>7 DEF StackTyped

LEMMA TypedPushed ==
    ASSUME StackInv, StackTyped, program' = program, now' = now,
           NEW f, f.sub # None, FrameTyped(f), AtCall(Top), stack' = Append(stack, f)
    PROVE  StackTyped'
<1>1. /\ stack \in Seq(Frames \cup {f}) /\ f \in Frames \cup {f}
  BY SeqMonotonic DEF StackInv
<1>2. /\ Len(stack') = Len(stack) + 1 /\ stack'[Len(stack) + 1] = f
      /\ DOMAIN stack' = 1 .. Len(stack) + 1
      /\ \A i \in 1 .. Len(stack) : stack'[i] = stack[i]
  BY <1>1, PushTop
<1>3. /\ Len(stack) \in Nat \ {0} /\ DOMAIN stack = 1 .. Len(stack)
      /\ Top = stack[Len(stack)] /\ now \in Nat
      /\ \A i \in DOMAIN stack : stack[i] \in ToSet(stack)
  BY TopFrame DEF StackInv
<1>4. \A g : /\ FrameTyped(g) => FrameTyped(g)'
             /\ AtCall(g) => AtCall(g)'
  BY <1>3, FrameTypedKeeps
<1>5. ASSUME NEW i \in 1 .. Len(stack) + 1, NEW g, g = stack'[i]
      PROVE  /\ FrameTyped(g)' /\ (i > 1 => g.sub # None)
             /\ i < Len(stack) + 1 => AtCall(g)'
  <2>1. CASE i = Len(stack) + 1
    BY <1>2, <1>3, <1>4, <1>5, <2>1
  <2>2. CASE i # Len(stack) + 1
    <3>1. i \in 1 .. Len(stack) /\ stack'[i] = stack[i]
      BY <1>2, <1>3, <2>2
    <3>2. FrameTyped(stack[i]) /\ AtCall(stack[i]) /\ (i > 1 => stack[i].sub # None)
      BY <1>3, <3>1 DEF StackTyped
    <3> QED
      BY <1>4, <1>5, <3>1, <3>2
  <2> QED
    BY <2>1, <2>2
<1>6. stack'[1].sub = None
  BY <1>2, <1>3 DEF StackTyped
<1> QED
  BY <1>2, <1>5, <1>6 DEF StackTyped

LEMMA TypedPopped ==
    ASSUME StackInv, StackTyped, program' = program, now' = now, Len(stack) > 1,
           NEW f, f.sub = stack[Len(stack) - 1].sub, FrameTyped(f),
           stack' = Append(Front(Front(stack)), f)
    PROVE  StackTyped'
<1>1. /\ stack \in Seq(Frames \cup {f}) /\ f \in Frames \cup {f}
  BY SeqMonotonic DEF StackInv
<1>2. /\ Len(stack') = Len(stack) - 1 /\ stack'[Len(stack) - 1] = f
      /\ \A i \in 1 .. Len(stack) - 2 : stack'[i] = stack[i]
      /\ stack' \in Seq(Frames \cup {f})
  BY <1>1, PopTop
<1>3. /\ Len(stack) \in Nat \ {0} /\ DOMAIN stack = 1 .. Len(stack) /\ now \in Nat
      /\ \A i \in DOMAIN stack : stack[i] \in ToSet(stack)
  BY TopFrame DEF StackInv
<1>length. Len(stack) \in Nat
  BY <1>3
<1>4. DOMAIN stack' = 1 .. Len(stack) - 1
  BY <1>2, LenProperties
<1>5. \A g : /\ FrameTyped(g) => FrameTyped(g)'
             /\ AtCall(g) => AtCall(g)'
  BY <1>3, FrameTypedKeeps
<1>6. ASSUME NEW i \in 1 .. Len(stack) - 1, NEW g, g = stack'[i]
      PROVE  /\ FrameTyped(g)' /\ g.sub = stack[i].sub
             /\ i < Len(stack) - 1 => AtCall(g)'
  <2>1. CASE i = Len(stack) - 1
    <3>1. g = f /\ ~(i < Len(stack) - 1) /\ f.sub = stack[i].sub
      BY <1>2, <1>3, <1>6, <2>1
    <3> QED
      BY <1>5, <3>1
  <2>2. CASE i # Len(stack) - 1
    <3>1. i \in 1 .. Len(stack) - 2 /\ i \in 1 .. Len(stack) /\ i < Len(stack)
      BY <1>length, <2>2
    <3>2. FrameTyped(stack[i]) /\ AtCall(stack[i])
      BY <1>3, <3>1 DEF StackTyped
    <3> QED
      BY <1>2, <1>5, <1>6, <3>1, <3>2
  <2> QED
    BY <2>1, <2>2
<1>7. /\ stack'[1].sub = None
      /\ \A i \in 1 .. Len(stack) - 1 : i > 1 => stack'[i].sub # None
  <2>1. stack[1].sub = None /\ \A i \in 1 .. Len(stack) : i > 1 => stack[i].sub # None
    BY <1>3 DEF StackTyped
  <2>2. \A i \in 1 .. Len(stack) - 1 : stack'[i].sub = stack[i].sub
    BY <1>6
  <2>3. stack'[1].sub = stack[1].sub
    BY <1>3, <2>2
  <2>4. \A i \in 1 .. Len(stack) - 1 : i \in 1 .. Len(stack)
    BY <1>3
  <2> QED
    BY <2>1, <2>2, <2>3, <2>4
<1> QED
  BY <1>2, <1>4, <1>6, <1>7 DEF StackTyped

LEMMA TypedStays ==
    ASSUME StackInv, StackTyped, program' = program, stack' = stack,
           now' \in Nat, now <= now'
    PROVE  StackTyped'
<1>1. \A g : /\ FrameTyped(g) => FrameTyped(g)'
             /\ AtCall(g) => AtCall(g)'
  BY FrameTypedKeeps DEF StackInv
<1> QED
  BY <1>1 DEF StackTyped

-----------------------------------------------------------------------------
(* The steps.                                                              *)

LEMMA StackTypedStep == IndInv /\ StackTyped /\ [Next]_vars => StackTyped'
<1> SUFFICES ASSUME IndInv, StackTyped, [Next]_vars PROVE StackTyped'
  OBVIOUS
<1>1. StackInv
  BY DEF IndInv
<1>2. /\ Top \in Frames /\ FrameInv(Top) /\ Len(Steps(Top.sub)) \in Nat
      /\ Len(stack) \in Nat \ {0} /\ now \in Nat
      /\ None \notin DOMAIN program.subs
  BY <1>1, TopFrame, ProgramAssumption DEF StackInv
<1>3. FrameTyped(Top)
  <2>1. Top \in ToSet(stack) /\ Top = stack[Len(stack)] /\ Len(stack) \in DOMAIN stack
    BY <1>1, TopFrame
  <2> QED
    BY <2>1 DEF StackTyped
<1>4. /\ Top.at # "enter" => Len(StepOf(Top).actions) \in Nat
      /\ Top.step <= Len(Steps(Top.sub)) => Len(StepOf(Top).actions) \in Nat
      /\ Top.at = "acting" /\ Top.act <= Len(StepOf(Top).actions) =>
            Action.kind # "sub" \/ Action.name \in DOMAIN program.subs
  BY <1>1, TopStep
<1>5. CASE EnterStep
  <2>1. PICK f : f = [Top EXCEPT !.at = "acting", !.start = now, !.act = 1,
                                 !.ok = TRUE, !.polls = <<>>]
    OBVIOUS
  <2>2. /\ f.sub = Top.sub /\ f.step = Top.step /\ f.at = "acting" /\ f.start = now
        /\ f.act = 1 /\ f.since = Top.since
    BY <1>2, <2>1 DEF Frames
  <2>3. StepOf(f) = StepOf(Top) /\ Len(StepOf(Top).actions) \in Nat
    BY <1>4, <1>5, <2>2 DEF StepOf, EnterStep
  <2>4. FrameTyped(f)
    BY <1>2, <1>3, <2>2, <2>3 DEF FrameTyped
  <2>5. program' = program /\ now' = now /\ stack' = WithTop(f)
    BY <1>5, <2>1 DEF EnterStep
  <2> QED
    BY <1>1, <2>2, <2>4, <2>5, TypedReplaced
<1>6. CASE CallSubroutine
  <2>1. PICK f : f = Frame(Action.name)
    OBVIOUS
  <2>2. /\ f.sub = Action.name /\ f.step = 1 /\ f.at = "enter" /\ f.start = 0 /\ f.since = 0
    BY <2>1 DEF Frame
  <2>3. AtCall(Top) /\ Action.kind = "sub" /\ Top.at = "acting"
    BY <1>6 DEF CallSubroutine, Calling, AtCall, Action
  <2>4. f.sub \in DOMAIN program.subs /\ f.sub # None
    BY <1>2, <1>4, <2>2, <2>3 DEF AtCall
  <2>5. Len(Steps(f.sub)) \in Nat
    BY <1>1, <2>4, StepsAre DEF StackInv
  <2>6. FrameTyped(f)
    BY <1>2, <2>2, <2>5 DEF FrameTyped
  <2>7. program' = program /\ now' = now /\ stack' = Append(stack, f)
    BY <1>6, <2>1 DEF CallSubroutine
  <2> QED
    BY <1>1, <2>3, <2>4, <2>6, <2>7, TypedPushed
<1>7. CASE CallFunction
  <2>1. PICK f : f = [Top EXCEPT !.act = @ + 1]
    OBVIOUS
  <2>2. /\ f.sub = Top.sub /\ f.step = Top.step /\ f.at = Top.at /\ f.start = Top.start
        /\ f.act = Top.act + 1 /\ f.since = Top.since
    BY <1>2, <2>1 DEF Frames
  <2>3. /\ Top.at = "acting" /\ Top.act <= Len(StepOf(Top).actions)
        /\ StepOf(f) = StepOf(Top) /\ Top.act \in Nat
    BY <1>2, <1>7, <2>2 DEF StepOf, CallFunction, Calling, Frames
  <2>4. FrameTyped(f)
    BY <1>2, <1>3, <1>4, <2>2, <2>3 DEF FrameTyped
  <2>5. program' = program /\ now' = now /\ stack' = WithTop(f)
    BY <1>7, <2>1 DEF CallFunction
  <2> QED
    BY <1>1, <2>2, <2>4, <2>5, TypedReplaced
<1>8. CASE CallWait
  <2>1. PICK f : f = [Top EXCEPT !.at = "waiting", !.since = now]
    OBVIOUS
  <2>2. /\ f.sub = Top.sub /\ f.step = Top.step /\ f.at = "waiting" /\ f.start = Top.start
        /\ f.act = Top.act /\ f.since = now
    BY <1>2, <2>1 DEF Frames
  <2>3. Top.act <= Len(StepOf(Top).actions) /\ StepOf(f) = StepOf(Top)
    BY <1>8, <2>2 DEF StepOf, CallWait, Calling
  <2>4. FrameTyped(f)
    BY <1>2, <1>3, <2>2, <2>3 DEF FrameTyped
  <2>5. program' = program /\ now' = now /\ stack' = WithTop(f)
    BY <1>8, <2>1 DEF CallWait
  <2> QED
    BY <1>1, <2>2, <2>4, <2>5, TypedReplaced
<1>9. CASE PollWait
  <2>1. PICK f : f = [Top EXCEPT !.at = "acting", !.act = @ + 1]
    OBVIOUS
  <2>2. /\ f.sub = Top.sub /\ f.step = Top.step /\ f.at = "acting" /\ f.start = Top.start
        /\ f.act = Top.act + 1 /\ f.since = Top.since
    BY <1>2, <2>1 DEF Frames
  <2>3. Top.at = "waiting" /\ StepOf(f) = StepOf(Top) /\ Top.act \in Nat
    BY <1>2, <1>9, <2>2 DEF StepOf, PollWait, Frames
  <2>4. FrameTyped(f)
    BY <1>2, <1>3, <1>4, <2>2, <2>3 DEF FrameTyped
  <2>5. program' = program /\ now' = now /\ (stack' = WithTop(f) \/ stack' = stack)
    BY <1>9, <2>1 DEF PollWait
  <2>6. now' \in Nat /\ now <= now'
    BY <1>2, <2>5
  <2> QED
    BY <1>1, <2>2, <2>4, <2>5, <2>6, TypedReplaced, TypedStays
<1>10. CASE JudgeWait
  <2>1. PICK f : f = [Top EXCEPT !.polls = Append(@, ChecksOk(StepOf(Top)))]
    OBVIOUS
  <2>2. /\ f.sub = Top.sub /\ f.step = Top.step /\ f.at = Top.at /\ f.start = Top.start
        /\ f.act = Top.act /\ f.since = Top.since
    BY <1>2, <2>1 DEF Frames
  <2>3. FrameTyped(f)
    BY <1>3, <2>2 DEF FrameTyped, StepOf
  <2>4. program' = program /\ now' = now /\ stack' = WithTop(f)
    BY <1>10, <2>1 DEF JudgeWait
  <2> QED
    BY <1>1, <2>2, <2>3, <2>4, TypedReplaced
<1>11. CASE JudgeStep
  <2>1. PICK f : f = IF StepPasses(Top) THEN [Top EXCEPT !.step = @ + 1, !.at = "enter"]
                     ELSE [Top EXCEPT !.at = "failed"]
    OBVIOUS
  <2>2. /\ f.sub = Top.sub /\ f.start = Top.start /\ f.since = Top.since
        /\ f.at \in {"enter", "failed"} /\ (f.step = Top.step \/ f.step = Top.step + 1)
    BY <1>2, <2>1 DEF Frames
  <2>3. Top.step \in Nat /\ Top.step <= Len(Steps(Top.sub))
    <3>1. Top.at # "enter"
      BY <1>11 DEF JudgeStep, Judging
    <3> QED
      BY <1>2, <3>1 DEF FrameInv, Located, Frames
  <2>4. FrameTyped(f)
    BY <1>2, <1>3, <2>2, <2>3 DEF FrameTyped
  <2>5. program' = program /\ now' = now /\ stack' = WithTop(f)
    BY <1>11, <2>1 DEF JudgeStep
  <2> QED
    BY <1>1, <2>2, <2>4, <2>5, TypedReplaced
<1>12. CASE ReturnSubroutine
  <2>1. Len(stack) > 1 /\ program' = program /\ now' = now
    BY <1>12 DEF ReturnSubroutine
  <2>2. PICK caller : caller = stack[Len(stack) - 1]
    OBVIOUS
  <2>3. /\ Len(stack) - 1 \in DOMAIN stack /\ caller \in ToSet(stack)
        /\ caller \in Frames /\ Last(Front(stack)) = caller /\ caller.at = "acting"
    <3>1. /\ DOMAIN stack = 1 .. Len(stack) /\ stack \in Seq(Frames) /\ stack # <<>>
          /\ \A i \in DOMAIN stack : stack[i] \in ToSet(stack)
      BY <1>1, TopFrame DEF StackInv
    <3>2. Len(stack) - 1 \in 1 .. Len(stack)
      BY <1>2, <2>1
    <3>3. caller \in Frames /\ Last(Front(stack)) = caller
      BY <2>1, <2>2, <3>1, <3>2, TopIs, FrontIs
    <3>4. caller.at = "acting"
      BY <1>1, <1>2, <2>2, <3>1, <3>2 DEF StackInv
    <3> QED
      BY <2>2, <3>1, <3>2, <3>3, <3>4
  <2>4. FrameTyped(caller) /\ AtCall(caller)
    <3>1. Len(stack) - 1 < Len(stack)
      BY <1>2
    <3> QED
      BY <2>2, <2>3, <3>1 DEF StackTyped
  <2>5. PICK f : f = [caller EXCEPT !.act = @ + 1, !.ok = @ /\ Top.at # "failed"]
    OBVIOUS
  <2>6. /\ f.sub = caller.sub /\ f.step = caller.step /\ f.at = "acting"
        /\ f.start = caller.start /\ f.act = caller.act + 1 /\ f.since = caller.since
        /\ caller.act \in Nat
    BY <2>3, <2>5 DEF Frames
  <2>7. StepOf(f) = StepOf(caller) /\ Len(StepOf(caller).actions) \in Nat
    <3>1. StepOf(f) = StepOf(caller)
      BY <2>6 DEF StepOf
    <3>2. caller.step \in 1 .. Len(Steps(caller.sub)) /\ caller.sub \in {None} \cup DOMAIN program.subs
      <4>1. FrameInv(caller)
        BY <1>1, <2>3 DEF StackInv
      <4>2. caller.step <= Len(Steps(caller.sub))
        BY <2>3, <4>1 DEF FrameInv, Located
      <4>3. Len(Steps(caller.sub)) \in Nat
        BY <1>1, <2>3, StepsAre DEF StackInv, Frames
      <4> QED
        BY <2>3, <4>2, <4>3 DEF Frames
    <3>3. WellFormed(StepOf(caller), program.subs)
      BY <1>1, <3>2, StepsAre DEF StackInv, StepOf
    <3> QED
      BY <3>1, <3>3, LenProperties DEF WellFormed
  <2>8. FrameTyped(f)
    BY <2>4, <2>6, <2>7 DEF FrameTyped, AtCall
  <2>9. stack' = Append(Front(Front(stack)), f)
    BY <1>12, <2>3, <2>5 DEF ReturnSubroutine, ResumeCaller
  <2>10. f.sub = stack[Len(stack) - 1].sub
    BY <2>2, <2>6
  <2> QED
    BY <1>1, <2>1, <2>8, <2>9, <2>10, TypedPopped
<1>13. CASE \/ PreInit \/ Raise \/ FinishTest \/ MacroStep \/ Stop \/ TearDown \/ ReadVerdict
            \/ UNCHANGED vars
  <2>1. program' = program /\ stack' = stack /\ (now' = now \/ now' = now + 1)
    BY <1>13 DEF PreInit, Raise, FinishTest, MacroStep, Stop, TearDown, ReadVerdict, vars
  <2>2. now' \in Nat /\ now <= now'
    BY <1>2, <2>1
  <2> QED
    BY <1>1, <2>1, <2>2, TypedStays
<1> QED
  BY <1>5, <1>6, <1>7, <1>8, <1>9, <1>10, <1>11, <1>12, <1>13 DEF Next, EngineStep

LEMMA ParamsTypedStep == IndInv /\ ScopeInv /\ ParamsTyped /\ [Next]_vars => ParamsTyped'
<1> SUFFICES ASSUME IndInv, ScopeInv, ParamsTyped, [Next]_vars PROVE ParamsTyped'
  OBVIOUS
<1>1. StackInv /\ params \in Seq(ToSet(params))
  BY DEF IndInv, ScopeInv
<1>2. CASE params' = params
  BY <1>2 DEF ParamsTyped
<1>3. CASE CallSubroutine
  <2>1. PICK bound : bound = Binding(Action.name, Action.args)
    OBVIOUS
  <2>2. params' = Append(params, bound)
    BY <1>3, <2>1 DEF CallSubroutine
  <2>3. Action.args \in Seq(Values)
    <3>1. Top.at = "acting" /\ Top.act <= Len(StepOf(Top).actions) /\ Action.kind = "sub"
      BY <1>3 DEF CallSubroutine, Calling, Action
    <3> QED
      BY <1>1, <3>1, TopStep
  <2>4. \A p \in DOMAIN bound : bound[p] \in Values
    <3> DEFINE formal == program.subs[Action.name].params
               given == DOMAIN formal \cap DOMAIN Action.args
    <3>1. bound = [p \in {formal[i] : i \in given} |->
                       Action.args[CHOOSE i \in given : formal[i] = p]]
      BY <2>1 DEF Binding
    <3>2. \A i \in DOMAIN Action.args : Action.args[i] \in Values
      BY <2>3, LenProperties
    <3>3. ASSUME NEW p \in {formal[i] : i \in given}
          PROVE  (CHOOSE i \in given : formal[i] = p) \in given
      OBVIOUS
    <3> QED
      BY <3>1, <3>2, <3>3
  <2>5. /\ DOMAIN params' = 1 .. Len(params) + 1 /\ params'[Len(params) + 1] = bound
        /\ DOMAIN params = 1 .. Len(params) /\ Len(params) \in Nat
        /\ \A i \in 1 .. Len(params) : params'[i] = params[i]
    <3>1. /\ params \in Seq(ToSet(params) \cup {bound}) /\ bound \in ToSet(params) \cup {bound}
      BY <1>1, SeqMonotonic
    <3> QED
      BY <2>2, <3>1, PushTop
  <2>6. ASSUME NEW i \in DOMAIN params'
        PROVE  \A p \in DOMAIN params'[i] : params'[i][p] \in Values
    <3>1. i = Len(params) + 1 \/ i \in 1 .. Len(params)
      BY <2>5
    <3> QED
      BY <2>4, <2>5, <3>1 DEF ParamsTyped
  <2> QED
    BY <2>6 DEF ParamsTyped
<1>4. CASE ReturnSubroutine
  <2>1. params' = Front(params) /\ Len(stack) > 1
    BY <1>4 DEF ReturnSubroutine
  <2>2. Len(params) = Len(stack) - 1 /\ DOMAIN params = 1 .. Len(params) /\ Len(stack) \in Nat
    BY <1>1, ScopeShape, LenProperties
  <2>3. params # <<>>
    BY <2>1, <2>2, EmptySeq
  <2>4. /\ params' \in Seq(ToSet(params)) /\ Len(params') = Len(params) - 1
        /\ \A i \in 1 .. Len(params) - 1 : params'[i] = params[i]
    BY <1>1, <2>1, <2>3, FrontIs
  <2>5. DOMAIN params' = 1 .. Len(params) - 1
    BY <2>4, LenProperties
  <2> QED
    BY <2>2, <2>4, <2>5 DEF ParamsTyped
<1>5. \/ params' = params \/ CallSubroutine \/ ReturnSubroutine
  BY DEF Next, EngineStep, PreInit, EnterStep, CallFunction, Raise, CallWait, PollWait,
         JudgeWait, JudgeStep, FinishTest, MacroStep, Stop, TearDown, ReadVerdict, vars
<1> QED
  BY <1>2, <1>3, <1>4, <1>5

(* What the parser answers. *)
LEMMA ParseIs ==
    ASSUME NEW lines
    PROVE  ParseVerdict(lines) \in {"PASS", "FAIL", "UNKNOWN"}
<1> DEFINE found == ToSet(CaseSection(lines))
<1>1. ParseVerdict(lines) =
        CASE "testFail" \in found -> "FAIL"
          [] "testFail" \notin found /\ "testPass" \in found -> "PASS"
          [] found \cap {"testFail", "testPass"} = {} /\ "stepFail" \in found -> "FAIL"
          [] found \cap {"testFail", "testPass", "stepFail"} = {} /\ "stepPass" \in found -> "PASS"
          [] OTHER -> "UNKNOWN"
  BY DEF ParseVerdict
<1> HIDE DEF found
<1> QED
  BY <1>1

LEMMA PlainTypedStep ==
    IndInv /\ ScopeInv /\ ParamsTyped /\ PlainTyped /\ [Next]_vars => PlainTyped'
<1> SUFFICES ASSUME IndInv, ScopeInv, ParamsTyped, PlainTyped, [Next]_vars
             PROVE  PlainTyped'
  OBVIOUS
<1>1. StackInv /\ CtxInv /\ program \in Programs /\ now \in Nat
  BY DEF IndInv, StackInv
<1>2. CASE PreInit
  BY <1>1, <1>2, PreInitTyped
<1>3. CASE EnterStep
  <2> DEFINE inputs == StepOf(Top).inputs
  <2>1. WellFormed(StepOf(Top), program.subs)
    BY <1>1, <1>3, TopStep DEF EnterStep
  <2>2. StepOf(Top).no \in Nat /\ \A v \in DOMAIN inputs : inputs[v].value \in Values
    BY <2>1 DEF WellFormed
  <2>3. params # <<>> => \A p \in DOMAIN Last(params) : Last(params)[p] \in Values
    <3>1. ASSUME params # <<>>
          PROVE  Last(params) = params[Len(params)] /\ Len(params) \in DOMAIN params
      BY <3>1, TopIs DEF ScopeInv
    <3> QED
      BY <3>1 DEF ParamsTyped
  <2>4. \A v \in DOMAIN inputs : Bind(inputs[v].param, inputs[v].value) \in Values
    BY <2>2, <2>3 DEF Bind
  <2>5. signals' \in [Vars -> Values]
    <3> DEFINE new(v) == IF v \notin DOMAIN inputs THEN signals[v]
                         ELSE IF Top.sub = None THEN inputs[v].value
                         ELSE Bind(inputs[v].param, inputs[v].value)
    <3>1. signals' = [v \in Vars |-> new(v)]
      BY <1>3 DEF EnterStep
    <3>2. \A v \in Vars : new(v) \in Values
      BY <2>2, <2>4 DEF PlainTyped
    <3> HIDE DEF new
    <3> QED
      BY <3>1, <3>2
  <2>6. ctx'.step \in Nat /\ ctx'.subOk = ctx.subOk
    <3>1. ctx' = [ctx EXCEPT !.step = StepOf(Top).no]
      BY <1>3 DEF EnterStep
    <3> QED
      BY <1>1, <2>2, <3>1 DEF CtxInv
  <2> QED
    BY <1>3, <2>5, <2>6 DEF EnterStep, PlainTyped
<1>4. ASSUME now' = now, signals' = signals, discarded' \in BOOLEAN,
             verdict' \in {None, "PASS", "FAIL", "UNKNOWN"},
             ctx'.subOk \in BOOLEAN, ctx'.step \in Nat
      PROVE  PlainTyped'
  BY <1>4 DEF PlainTyped
<1>5. CASE CallSubroutine
  <2>1. ctx' = FreshCtx
    BY <1>5 DEF CallSubroutine
  <2>2. ctx'.subOk \in BOOLEAN /\ ctx'.step \in Nat
    BY <2>1 DEF FreshCtx
  <2> QED
    BY <1>5, <2>2 DEF CallSubroutine, PlainTyped
<1>6. ASSUME CallFunction \/ Raise \/ CallWait \/ ReturnSubroutine \/ FinishTest
      PROVE  PlainTyped'
  <2>1. \/ ctx' = [ctx EXCEPT !.subOk = TRUE] \/ ctx' = [ctx EXCEPT !.over = TRUE]
        \/ ctx' = [ctx EXCEPT !.over = TRUE, !.subOk = (Top.at # "failed")]
    BY <1>6 DEF CallFunction, Raise, CallWait, ReturnSubroutine, FinishTest
  <2>2. ctx'.subOk \in BOOLEAN /\ ctx'.step \in Nat
    BY <1>1, <2>1 DEF CtxInv, PlainTyped
  <2>3. now' = now /\ signals' = signals /\ discarded' = discarded /\ verdict' = verdict
    BY <1>6 DEF CallFunction, Raise, CallWait, ReturnSubroutine, FinishTest
  <2> QED
    BY <2>2, <2>3 DEF PlainTyped
<1>7. CASE PollWait \/ JudgeWait \/ JudgeStep \/ UNCHANGED vars
  <2>1. /\ now' = now /\ signals' = signals /\ discarded' = discarded /\ verdict' = verdict
        /\ ctx' = ctx
    BY <1>7 DEF PollWait, JudgeWait, JudgeStep, vars
  <2> QED
    BY <2>1 DEF PlainTyped
<1>8. CASE MacroStep
  <2>1. /\ now' = now + 1 /\ now' <= Horizon /\ signals' \in [Vars -> Values]
        /\ discarded' = discarded /\ verdict' = verdict /\ ctx' = ctx
    BY <1>1, <1>8, HorizonAssumption DEF MacroStep
  <2> QED
    BY <2>1 DEF PlainTyped
<1>9. CASE Stop \/ TearDown
  <2>1. /\ now' = now /\ signals' = signals /\ verdict' = verdict /\ ctx' = ctx
        /\ (discarded' = discarded \/ discarded' = FALSE)
    BY <1>9 DEF Stop, TearDown
  <2> QED
    BY <2>1 DEF PlainTyped
<1>10. CASE ReadVerdict
  <2>1. /\ now' = now /\ signals' = signals /\ verdict' = ParseVerdict(log) /\ ctx' = ctx
        /\ discarded' = discarded
    BY <1>10 DEF ReadVerdict
  <2>2. verdict' \in {None, "PASS", "FAIL", "UNKNOWN"}
    BY <2>1, ParseIs
  <2> QED
    BY <2>1, <2>2 DEF PlainTyped
<1> QED
  BY <1>2, <1>3, <1>5, <1>6, <1>7, <1>8, <1>9, <1>10 DEF Next, EngineStep

TypedInv == ScopeInv /\ StackTyped /\ ParamsTyped /\ PlainTyped

LEMMA InitTyped == Init => TypedInv
<1> SUFFICES ASSUME Init PROVE TypedInv
  OBVIOUS
<1>1. /\ stack = <<Frame(None)>> /\ params = <<>> /\ now = 0 /\ ctx = FreshCtx
      /\ program \in Programs /\ signals \in [Vars -> Values] /\ discarded = TRUE
      /\ verdict = None
  BY DEF Init
<1>2. ScopeInv /\ ParamsTyped
  <2>1. /\ Len(params) = 0 /\ DOMAIN params = {} /\ params \in Seq(ToSet(params))
        /\ Len(stack) = 1
    BY <1>1, EmptySeq, LenProperties
  <2> QED
    BY <2>1 DEF ScopeInv, ParamsTyped
<1>3. StackTyped
  <2>1. PICK f : f = Frame(None)
    OBVIOUS
  <2>2. /\ f.sub = None /\ f.step = 1 /\ f.at = "enter" /\ f.start = 0 /\ f.since = 0
    BY <2>1 DEF Frame
  <2>3. FrameTyped(f)
    <3>1. Len(Steps(None)) \in Nat
      BY <1>1, StepsAre
    <3> QED
      BY <1>1, <2>2, <3>1 DEF FrameTyped
  <2>4. stack = <<f>> /\ Len(stack) = 1 /\ DOMAIN stack = {1} /\ stack[1] = f
    BY <1>1, <2>1
  <2> QED
    BY <2>2, <2>3, <2>4 DEF StackTyped
<1>4. PlainTyped
  BY <1>1, HorizonAssumption DEF PlainTyped, FreshCtx
<1> QED
  BY <1>2, <1>3, <1>4 DEF TypedInv

LEMMA TypedStep == IndInv /\ TypedInv /\ [Next]_vars => TypedInv'
BY ScopeStep, StackTypedStep, ParamsTypedStep, PlainTypedStep DEF TypedInv

\* For every well-formed test case the engine's state keeps its type: no frame
\* runs past the end of its steps or of a step's actions, only the test itself is
\* at the bottom of the generators, and whatever is assigned or passed is a value
\* (run_test, run_subroutine, _run_subcall, run_init_subroutine).
THEOREM TypesHold == Spec => []TypeOK
<1>1. IndInv /\ TypedInv => TypeOK
  <2> SUFFICES ASSUME IndInv, TypedInv PROVE TypeOK
    OBVIOUS
  <2>1. StackInv /\ StackTyped /\ ParamsTyped /\ PlainTyped
    BY DEF IndInv, TypedInv
  <2>2. ASSUME NEW i \in DOMAIN stack, NEW f, f = stack[i]
        PROVE  FrameOK(f) /\ (i > 1 => f.sub # None)
    <3>1. f \in ToSet(stack) /\ f \in Frames
      BY <2>1, <2>2, TopIs DEF StackInv
    <3>2. FrameTyped(f) /\ (i > 1 => f.sub # None)
      BY <2>1, <2>2, <3>1 DEF StackTyped
    <3>3. Located(f)
      BY <2>1, <3>1 DEF StackInv, FrameInv
    <3>4. /\ f.sub \in {None} \cup DOMAIN program.subs /\ f.step \in Nat \ {0}
          /\ f.at \in {"enter", "acting", "waiting", "failed"} /\ f.act \in Nat \ {0}
          /\ f.ok \in BOOLEAN
      BY <3>1 DEF Frames
    <3>5. Len(Steps(f.sub)) \in Nat
      BY <2>1, <3>4, StepsAre DEF StackInv
    <3>6. f.at = "acting" => Len(StepOf(f).actions) \in Nat
      <4>1. ASSUME f.at = "acting" PROVE WellFormed(StepOf(f), program.subs)
        <5>1. f.step \in 1 .. Len(Steps(f.sub))
          BY <3>3, <3>4, <3>5, <4>1 DEF Located
        <5> QED
          BY <2>1, <3>4, <5>1, StepsAre DEF StackInv, StepOf
      <4> QED
        BY <4>1, LenProperties DEF WellFormed
    <3>7. f.step \in 1 .. Len(Steps(f.sub)) + 1
      BY <3>2, <3>4, <3>5 DEF FrameTyped
    <3>8. f.at = "acting" => f.act \in 1 .. Len(StepOf(f).actions) + 1
      BY <3>2, <3>4, <3>6 DEF FrameTyped
    <3> QED
      BY <3>2, <3>4, <3>7, <3>8 DEF FrameOK, FrameTyped
  <2>3. \A i \in DOMAIN stack : FrameOK(stack[i]) /\ (i > 1 => stack[i].sub # None)
    BY <2>2
  <2>4. ToSet(log) \subseteq Markers
    <3>1. log \in Seq(Markers)
      BY DEF IndInv, LogInv, WellLogged
    <3> QED
      BY <3>1, ElementOfSeq, LenProperties DEF ToSet
  <2>5. /\ turn \in {"loading", "engine", "silver", "over", "stopped", "read"}
        /\ ended \in {None, "finished", "raised", "suspended"}
    BY DEF IndInv, EndInv, Running
  <2>6. judged.proven \in BOOLEAN /\ judged.missed \in BOOLEAN /\ ctx.over \in BOOLEAN
    BY <2>1 DEF StackInv, IndInv, CtxInv
  <2>7. now \in 0 .. Horizon /\ program \in Programs /\ stack # <<>>
    BY <2>1, HorizonAssumption DEF StackInv, PlainTyped
  <2>8. /\ stack[1].sub = None
        /\ \A i \in DOMAIN params : \A p \in DOMAIN params[i] : params[i][p] \in Values
    BY <2>1 DEF StackTyped, ParamsTyped
  <2> QED
    BY <2>1, <2>3, <2>4, <2>5, <2>6, <2>7, <2>8 DEF TypeOK, PlainTyped
<1> QED
  BY <1>1, InitTyped, TypedStep, InvariantHolds, PTL DEF Spec
=============================================================================
