------------------------------ MODULE JudgeRun ------------------------------
(***************************************************************************)
(* One test run inside Silver: the step engine that executes a test case   *)
(* (silver_test_framework.py), the entry points Silver calls               *)
(* (silver_json_runner.py), the log it leaves, and the parser that turns   *)
(* the log into a verdict (test_runner.py).                                *)
(*                                                                         *)
(* The engine is a Python generator.  Between two of its yields nothing    *)
(* else runs; at a yield Silver takes its turn: it advances the model by   *)
(* one macro step, in which every signal may change, or stops the run and  *)
(* calls pre_cleanup.  Time is counted in macro steps.                     *)
(***************************************************************************)
EXTENDS Integers, Sequences, SequencesExt

CONSTANTS
    Programs,   \* the test cases: [main |-> steps, init |-> names,
                \*   subs |-> [name -> [params |-> names, steps |-> steps]]]
    Vars,       \* Silver variables
    Values,     \* what they may hold
    Horizon,    \* no program runs longer than this
    None

ASSUME HorizonAssumption == Horizon \in Nat
ASSUME NoneAssumption == None \notin {"finished", "raised", "suspended"}

(* The shape of the exported test cases: steps are numbered from 1 (the code's *)
(* -1, no step, is 0 here), methods are the two of _judge_loop, every call      *)
(* resolves (build_steps, resolve_subroutine), and Values has what is assigned. *)
WellFormed(step, subs) ==
    /\ step.no \in Nat \ {0}
    /\ step.method \in {"reach", "watch"}
    /\ step.timeout \in Int /\ step.watch \in Int
    /\ \A v \in DOMAIN step.inputs : step.inputs[v].value \in Values
    /\ step.actions \in Seq(ToSet(step.actions))
    /\ \A i \in DOMAIN step.actions :
          step.actions[i].kind = "sub" =>
              step.actions[i].name \in DOMAIN subs /\ step.actions[i].args \in Seq(Values)

ASSUME ProgramAssumption ==
    \A p \in Programs :
        /\ None \notin DOMAIN p.subs
        /\ p.init \in Seq(DOMAIN p.subs) /\ p.main \in Seq(ToSet(p.main))
        /\ \A i \in DOMAIN p.main : WellFormed(p.main[i], p.subs)
        /\ \A name \in DOMAIN p.subs :
              /\ p.subs[name].steps \in Seq(ToSet(p.subs[name].steps))
              /\ \A i \in DOMAIN p.subs[name].steps :
                    WellFormed(p.subs[name].steps[i], p.subs)

VARIABLES
    program,    \* the test case and its subroutines
    now,        \* currentTime
    signals,    \* the value of each variable
    stack,      \* the active generators: run_test, then nested run_subroutine
    params,     \* TestContext._param_stack
    ctx,        \* TestContext: test_python_over, test_step_no, sub_ok
    turn,       \* "loading"; who runs, "engine" or "silver"; "over": the generator
                \* only yields any more; "stopped"; "read": the verdict was parsed
    log,        \* the marker lines of jdgrslt.log
    discarded,  \* whether the first load of the module still awaits its teardown
    verdict,    \* parse_verdict_text
    ended,      \* how the run ended (history)
    judged      \* what the finished steps showed (history)

vars == <<program, now, signals, stack, params, ctx, turn, log, discarded,
          verdict, ended, judged>>

-----------------------------------------------------------------------------
(* A step has inputs (a function from variables to [value, param]), actions *)
(* (subroutine calls, lib functions, waits), checks, and a method.          *)

Steps(name) == IF name = None THEN program.main ELSE program.subs[name].steps

Frame(name) == [sub |-> name, step |-> 1, at |-> "enter", start |-> 0, act |-> 1,
                ok |-> TRUE, since |-> 0, polls |-> <<>>]

Top == Last(stack)
StepOf(f) == Steps(f.sub)[f.step]
WithTop(f) == Append(Front(stack), f)

(* bind_arg: the caller's argument, or the default that was exported. *)
Bind(param, default) ==
    IF params # <<>> /\ param \in DOMAIN Last(params) THEN Last(params)[param] ELSE default

\* Mutant: a formal parameter without an argument is bound to nothing.
BindingPadded(name, args) ==
    LET formal == program.subs[name].params
    IN  [p \in ToSet(formal) |->
            LET i == CHOOSE i \in DOMAIN formal : formal[i] = p
            IN  IF i \in DOMAIN args THEN args[i] ELSE None]

(* Positional arguments are bound in order; a missing one is left unbound. *)
Binding(name, args) ==
    LET formal == program.subs[name].params
        given == DOMAIN formal \cap DOMAIN args
    IN  [p \in {formal[i] : i \in given} |-> args[CHOOSE i \in given : formal[i] = p]]

(* _compare; an equality's expected value is the set of the alternatives.   *)
Compare(observed, op, expected) ==
    CASE op = "==" -> observed \in expected
      [] op = "!=" -> observed \notin expected
      [] op = ">"  -> observed > expected
      [] op = "<"  -> observed < expected
      [] op = ">=" -> observed >= expected
      [] op = "<=" -> observed <= expected
      [] op = "in" ->
            /\ expected.lo # None =>
                  observed > expected.lo \/ (expected.loIncl /\ observed = expected.lo)
            /\ expected.hi # None =>
                  observed < expected.hi \/ (expected.hiIncl /\ observed = expected.hi)

\* An argument is a plain value; what a check expects of it is that value.
Expected(c) ==
    IF c.op \in {"==", "!="}
    THEN LET bound == Bind(c.param, None) IN IF bound = None THEN c.expected ELSE {bound}
    ELSE Bind(c.param, c.expected)

ChecksOk(step) == \A c \in step.checks : Compare(signals[c.var], c.op, Expected(c))

\* time_st is recorded before the actions, whose time counts.
Elapsed(f) == now - f.start

-----------------------------------------------------------------------------
(* The log and its parser.                                                 *)

Markers == {"started", "stepPass", "stepFail", "testPass", "testFail"}

(* The newest section of the case, cut at its own verdict line. *)
CaseSection(lines) ==
    LET starts == {i \in DOMAIN lines : lines[i] = "started"}
        first == IF starts = {} THEN 1 ELSE CHOOSE i \in starts : \A j \in starts : j <= i
        verdicts == {i \in first .. Len(lines) : lines[i] \in {"testPass", "testFail"}}
        last == IF starts = {} \/ verdicts = {} THEN Len(lines)
                ELSE CHOOSE i \in verdicts : \A j \in verdicts : i <= j
    IN  SubSeq(lines, first, last)

ParseVerdict(lines) ==
    LET found == ToSet(CaseSection(lines))
    IN  CASE "testFail" \in found -> "FAIL"
          [] "testFail" \notin found /\ "testPass" \in found -> "PASS"
          [] found \cap {"testFail", "testPass"} = {} /\ "stepFail" \in found -> "FAIL"
          [] found \cap {"testFail", "testPass", "stepFail"} = {} /\ "stepPass" \in found -> "PASS"
          [] OTHER -> "UNKNOWN"

(* run_cleanup: the lines of a suspended test.  It reports nothing once     *)
(* test_python_over is set, nor for an instance that reached no step.       *)
CleanupLines(c) ==
    IF c.over \/ c.step = 0 THEN <<>> ELSE <<"stepFail", "testFail">>

FreshCtx == [over |-> FALSE, step |-> 0, subOk |-> TRUE]

-----------------------------------------------------------------------------
(* pre_init runs the initialization subroutines, which only assign inputs,   *)
(* so a variable keeps the value it is assigned last.                        *)
InitSteps == UNION {{i} \X DOMAIN Steps(program.init[i]) : i \in DOMAIN program.init}
InitStep(p) == Steps(program.init[p[1]])[p[2]]
Latest(ps) == CHOOSE p \in ps : \A q \in ps : q[1] < p[1] \/ (q[1] = p[1] /\ q[2] <= p[2])

\* The steps count: a run suspended right after the last one is reported.
PreInit ==
    /\ turn = "loading"
    /\ signals' = [v \in Vars |->
           LET writes == {p \in InitSteps : v \in DOMAIN InitStep(p).inputs}
           IN  IF writes = {} THEN signals[v] ELSE InitStep(Latest(writes)).inputs[v].value]
    /\ LET steps == IF program.init = <<>> THEN <<>> ELSE Steps(Last(program.init))
       IN  ctx' = [ctx EXCEPT !.step = IF steps = <<>> THEN 0 ELSE Last(steps).no]
    /\ turn' = "silver"
    /\ UNCHANGED <<program, now, stack, params, log, discarded, verdict, ended, judged>>

-----------------------------------------------------------------------------
(* The engine.  Its actions never yield unless they give the turn away.     *)

Engine == turn = "engine"

(* The head of a step: its number, its start time and its inputs.  The test *)
(* assigns the literal value, a subroutine what its caller passed.          *)
EnterStep ==
    /\ Engine /\ Top.at = "enter" /\ Top.step <= Len(Steps(Top.sub))
    /\ LET inputs == StepOf(Top).inputs
       IN  signals' = [v \in Vars |->
                IF v \notin DOMAIN inputs THEN signals[v]
                ELSE IF Top.sub = None THEN inputs[v].value
                ELSE Bind(inputs[v].param, inputs[v].value)]
    /\ ctx' = [ctx EXCEPT !.step = StepOf(Top).no]
    /\ stack' = WithTop([Top EXCEPT !.at = "acting", !.start = now, !.act = 1,
                                    !.ok = TRUE, !.polls = <<>>])
    /\ UNCHANGED <<program, now, params, turn, log, discarded, verdict, ended, judged>>

Calling(kind) ==
    /\ Engine /\ Top.at = "acting" /\ Top.act <= Len(StepOf(Top).actions)
    /\ StepOf(Top).actions[Top.act].kind = kind

Action == StepOf(Top).actions[Top.act]

(* A SubCall pushes its arguments and starts a nested generator. *)
CallSubroutine ==
    /\ Calling("sub")
    /\ stack' = Append(stack, Frame(Action.name))
    /\ params' = Append(params, Binding(Action.name, Action.args))
    /\ ctx' = FreshCtx
    /\ UNCHANGED <<program, now, signals, turn, log, discarded, verdict, ended, judged>>

CallFunction ==
    /\ Calling("function")
    /\ stack' = WithTop([Top EXCEPT !.act = @ + 1])
    /\ ctx' = [ctx EXCEPT !.subOk = TRUE]
    /\ UNCHANGED <<program, now, signals, params, turn, log, discarded, verdict, ended, judged>>

(* A lib function raises: MainGenerator turns it into a failed test, the     *)
(* nested generators are abandoned.                                         *)
Raise ==
    /\ Calling("function")
    /\ log' = Append(log, "testFail")
    /\ ctx' = [ctx EXCEPT !.over = TRUE]
    /\ turn' = "over" /\ ended' = "raised"
    /\ UNCHANGED <<program, now, signals, stack, params, discarded, verdict, judged>>

(* Wait(ms), driven by the judge idiom "while next(gen): yield". *)
CallWait ==
    /\ Calling("wait")
    /\ stack' = WithTop([Top EXCEPT !.at = "waiting", !.since = now])
    /\ ctx' = [ctx EXCEPT !.subOk = TRUE]
    /\ UNCHANGED <<program, now, signals, params, turn, log, discarded, verdict, ended, judged>>

PollWait ==
    /\ Engine /\ Top.at = "waiting"
    /\ IF now - Top.since < Action.ms
       THEN turn' = "silver" /\ UNCHANGED stack
       ELSE stack' = WithTop([Top EXCEPT !.at = "acting", !.act = @ + 1]) /\ UNCHANGED turn
    /\ UNCHANGED <<program, now, signals, params, ctx, log, discarded, verdict, ended, judged>>

-----------------------------------------------------------------------------
(* _judge_loop.                                                            *)

Judging == Engine /\ Top.at = "acting" /\ Top.act > Len(StepOf(Top).actions)

\* Mutant: a watched step is watched as long as it holds.
UndecidedEndless(f, ok) ==
    \/ StepOf(f).method = "reach" /\ ~ok /\ Elapsed(f) < StepOf(f).timeout
    \/ StepOf(f).method = "watch" /\ ok

(* A step that is reached waits for its checks, one that is watched waits    *)
(* while they hold, each inside its window.                                  *)
Undecided(f, ok) ==
    LET step == StepOf(f)
    IN  \/ step.method = "reach" /\ ~ok /\ Elapsed(f) < step.timeout
        \/ step.method = "watch" /\ ok /\ Elapsed(f) < step.watch - 1

JudgeWait ==
    /\ Judging /\ Undecided(Top, ChecksOk(StepOf(Top)))
    /\ stack' = WithTop([Top EXCEPT !.polls = Append(@, ChecksOk(StepOf(Top)))])
    /\ turn' = "silver"
    /\ UNCHANGED <<program, now, signals, params, ctx, log, discarded, verdict, ended, judged>>

(* What the polls of a step show, told without the loop. *)
Met(f, polls) ==
    IF StepOf(f).method = "reach"
    THEN \E i \in DOMAIN polls : polls[i]
    ELSE (\A i \in DOMAIN polls : polls[i]) /\ now >= f.start + StepOf(f).watch - 1

Missed(f, polls) ==
    IF StepOf(f).method = "reach"
    THEN (\A i \in DOMAIN polls : ~polls[i]) /\ now >= f.start + StepOf(f).timeout
    ELSE \E i \in DOMAIN polls : ~polls[i]

(* The verdict of a step: its checks, and the subroutines it called. *)
StepPasses(f) == ChecksOk(StepOf(f)) /\ f.ok

JudgeStep ==
    /\ Judging /\ ~Undecided(Top, ChecksOk(StepOf(Top)))
    /\ LET passed == StepPasses(Top)
           polls == Append(Top.polls, ChecksOk(StepOf(Top)))
       IN  /\ log' = Append(log, IF passed THEN "stepPass" ELSE "stepFail")
           /\ stack' = WithTop(IF passed
                               THEN [Top EXCEPT !.step = @ + 1, !.at = "enter"]
                               ELSE [Top EXCEPT !.at = "failed"])
           /\ judged' = [proven |-> judged.proven /\ Met(Top, polls),
                         missed |-> judged.missed \/ Missed(Top, polls)]
    /\ UNCHANGED <<program, now, signals, params, ctx, turn, discarded, verdict, ended>>

-----------------------------------------------------------------------------
(* The end of a subroutine and of the test.                                *)

Through ==
    /\ Engine
    /\ Top.at = "enter" => Top.step > Len(Steps(Top.sub))
    /\ Top.at \in {"enter", "failed"}

\* Mutant: the subroutine's verdict is swallowed.
ResumeCallerBlindly(passed) ==
    Append(Front(Front(stack)), [Last(Front(stack)) EXCEPT !.act = @ + 1])

(* The subroutine's verdict goes to the step that called it. *)
ResumeCaller(passed) ==
    LET caller == Last(Front(stack))
    IN  Append(Front(Front(stack)),
               [caller EXCEPT !.act = @ + 1, !.ok = @ /\ passed])

\* Mutant: the arguments stay on the stack after the subroutine returned.
ReturnKeepsParams ==
    /\ Through /\ Len(stack) > 1
    /\ LET passed == Top.at # "failed"
       IN  /\ stack' = ResumeCaller(passed)
           /\ ctx' = [ctx EXCEPT !.over = TRUE, !.subOk = passed]
    /\ UNCHANGED <<program, now, signals, params, turn, log, discarded, verdict, ended, judged>>

ReturnSubroutine ==
    /\ Through /\ Len(stack) > 1
    /\ LET passed == Top.at # "failed"
       IN  /\ stack' = ResumeCaller(passed)
           /\ ctx' = [ctx EXCEPT !.over = TRUE, !.subOk = passed]
    /\ params' = Front(params)
    /\ UNCHANGED <<program, now, signals, turn, log, discarded, verdict, ended, judged>>

FinishTest ==
    /\ Through /\ Len(stack) = 1
    /\ log' = Append(log, IF Top.at = "failed" THEN "testFail" ELSE "testPass")
    /\ ctx' = [ctx EXCEPT !.over = TRUE]
    /\ turn' = "over" /\ ended' = "finished"
    /\ UNCHANGED <<program, now, signals, stack, params, discarded, verdict, judged>>

-----------------------------------------------------------------------------
(* Silver.                                                                 *)

MacroStep ==
    /\ turn = "silver" /\ now < Horizon
    /\ now' = now + 1
    /\ signals' \in [Vars -> Values]
    /\ turn' = "engine"
    /\ UNCHANGED <<program, stack, params, ctx, log, discarded, verdict, ended, judged>>

(* The run ends, because the generator is over or because Silver stops it   *)
(* (a timeout of run_until, another module): pre_cleanup.                   *)
Stop ==
    /\ turn \in {"silver", "over"}
    /\ log' = log \o CleanupLines(ctx)
    /\ ended' = IF turn = "silver" THEN "suspended" ELSE ended
    /\ turn' = "stopped"
    /\ UNCHANGED <<program, now, signals, stack, params, ctx, discarded, verdict, judged>>

(* The instance of the first load is torn down at an unpredictable moment.  *)
TearDown ==
    /\ discarded /\ turn # "read"
    /\ log' = log \o CleanupLines(FreshCtx)
    /\ discarded' = FALSE
    /\ UNCHANGED <<program, now, signals, stack, params, ctx, turn, verdict, ended, judged>>

ReadVerdict ==
    /\ turn = "stopped"
    /\ verdict' = ParseVerdict(log)
    /\ turn' = "read"
    /\ UNCHANGED <<program, now, signals, stack, params, ctx, log, discarded, ended, judged>>

-----------------------------------------------------------------------------
Init ==
    /\ program \in Programs
    /\ now = 0
    /\ signals \in [Vars -> Values]
    /\ stack = <<Frame(None)>>
    /\ params = <<>>
    /\ ctx = FreshCtx
    /\ turn = "loading"
    /\ log = <<"started">>
    /\ discarded = TRUE
    /\ verdict = None
    /\ ended = None
    /\ judged = [proven |-> TRUE, missed |-> FALSE]

EngineStep ==
    \/ EnterStep \/ CallSubroutine \/ CallFunction \/ Raise \/ CallWait \/ PollWait
    \/ JudgeWait \/ JudgeStep \/ ReturnSubroutine \/ FinishTest

Next == PreInit \/ EngineStep \/ MacroStep \/ Stop \/ TearDown \/ ReadVerdict

(* Python goes on between two yields, and Silver's clock goes on; a run that *)
(* is over is stopped and read.  Nothing makes Silver suspend a run.         *)
Fairness ==
    /\ WF_vars(PreInit) /\ WF_vars(EngineStep) /\ WF_vars(MacroStep) /\ WF_vars(ReadVerdict)
    /\ WF_vars(turn = "over" /\ Stop)

Spec == Init /\ [][Next]_vars /\ Fairness

-----------------------------------------------------------------------------
(* Properties.                                                             *)

FrameOK(f) ==
    /\ f.sub \in {None} \cup DOMAIN program.subs
    /\ f.step \in 1 .. Len(Steps(f.sub)) + 1
    /\ f.at \in {"enter", "acting", "waiting", "failed"}
    /\ f.start \in 0 .. now /\ f.since \in 0 .. now
    /\ f.at = "acting" => f.act \in 1 .. Len(StepOf(f).actions) + 1
    /\ f.ok \in BOOLEAN

\* Every variable has its type; only a subroutine's own generator is on top of
\* its caller's, and every bound argument is a value (run_test, run_subroutine).
TypeOK ==
    /\ program \in Programs
    /\ now \in 0 .. Horizon
    /\ signals \in [Vars -> Values]
    /\ stack # <<>> /\ stack[1].sub = None
    /\ \A i \in DOMAIN stack : FrameOK(stack[i]) /\ (i > 1 => stack[i].sub # None)
    /\ \A i \in DOMAIN params : \A p \in DOMAIN params[i] : params[i][p] \in Values
    /\ ctx.over \in BOOLEAN /\ ctx.subOk \in BOOLEAN /\ ctx.step \in Nat
    /\ turn \in {"loading", "engine", "silver", "over", "stopped", "read"}
    /\ ToSet(log) \subseteq Markers
    /\ discarded \in BOOLEAN
    /\ verdict \in {None, "PASS", "FAIL", "UNKNOWN"}
    /\ ended \in {None, "finished", "raised", "suspended"}
    /\ judged.proven \in BOOLEAN /\ judged.missed \in BOOLEAN

\* The verdict that is read off the log is the one the signals deserve, at every
\* depth of nested subroutines: a run only passes when every step that was
\* judged met its checks inside its window, and only fails when a step missed
\* its whole window, when a lib raised or when the run was suspended; the
\* teardown of the discarded instance never tells (run_test, run_subroutine,
\* run_cleanup, parse_verdict_text).  A run suspended after a subroutine ended
\* is the exception: see SuspendedNotPassed.
VerdictIsEarned ==
    turn = "read" =>
        /\ verdict = "PASS" => judged.proven
        /\ verdict = "PASS" => ended = "finished" \/ (ended = "suspended" /\ ctx.over)
        /\ verdict = "FAIL" => judged.missed \/ ended \in {"raised", "suspended"}
        /\ verdict = "UNKNOWN" => ended = "suspended"

\* A subroutine reads its own caller's arguments, and nobody reads those of a
\* subroutine that returned (push_params, pop_params, bind_arg).
ParamsScoped ==
    turn \in {"engine", "silver"} =>
        /\ Len(params) = Len(stack) - 1
        /\ \A i \in DOMAIN params :
              LET call == StepOf(stack[i]).actions[stack[i].act]
              IN  params[i] = Binding(stack[i + 1].sub, call.args)

\* Every run ends with a verdict, whatever the signals do: each wait and each
\* nested window elapses in simulated time (_judge_loop, Wait, run_subroutine).
TestEnds == <>(turn = "read")

\* A run that Silver suspended is reported as failed by pre_cleanup
\* (silver_test_framework.py, run_cleanup) and never passes.
SuspendedNotPassed == verdict = "PASS" => ended # "suspended"

=============================================================================
