---------------------------- MODULE MCJudgeRun ----------------------------
(***************************************************************************)
(* The test cases for TLC: nested subroutines with and without arguments,  *)
(* a wait, a lib function, both methods and several kinds of checks.        *)
(***************************************************************************)
EXTENDS JudgeRun

NoInputs == [v \in {} |-> 0]
Input(v, value, param) == [w \in {v} |-> [value |-> value, param |-> param]]
Check(v, op, expected, param) ==
    [var |-> v, op |-> op, expected |-> expected, param |-> param]
Sub(name, args) == [kind |-> "sub", name |-> name, args |-> args]
Wait(ms) == [kind |-> "wait", ms |-> ms]
Function == [kind |-> "function"]

Reach(no, inputs, actions, checks, timeout) ==
    [no |-> no, inputs |-> inputs, actions |-> actions, checks |-> checks,
     method |-> "reach", timeout |-> timeout, watch |-> 0]
Watch(no, inputs, actions, checks, watch) ==
    [no |-> no, inputs |-> inputs, actions |-> actions, checks |-> checks,
     method |-> "watch", timeout |-> 0, watch |-> watch]

Interval == [lo |-> 0, hi |-> 1, loIncl |-> FALSE, hiIncl |-> TRUE]
AnyAbove == [lo |-> 0, hi |-> None, loIncl |-> TRUE, hiIncl |-> FALSE]

\* Drive sets "out" to its argument and expects it back; Outer nests Drive.
Library ==
    [Drive |-> [params |-> <<"level">>,
                steps |-> <<Reach(1, Input("out", 0, "level"), <<>>,
                                  {Check("out", "==", {0}, "level")}, 1)>>],
     Outer |-> [params |-> <<>>,
                steps |-> <<Reach(1, NoInputs, <<Sub("Drive", <<1>>), Wait(1)>>,
                                  {Check("in", ">", 0, None)}, 2),
                            Watch(2, NoInputs, <<>>, {Check("in", "in", Interval, None)}, 2)>>],
     Default |-> [params |-> <<"level">>,
                  steps |-> <<Reach(1, Input("out", 1, "level"), <<Function>>,
                                    {Check("out", "!=", {0}, "level")}, 1)>>]]

(* Every test case of two steps taken from these.                          *)
StepPool == {
    Reach(1, Input("out", 1, None), <<Sub("Outer", <<>>), Sub("Drive", <<0>>)>>,
          {Check("in", "==", {1}, "level")}, 2),
    Reach(2, NoInputs, <<Wait(2), Function>>, {Check("out", "<=", 0, None)}, 3),
    Reach(3, NoInputs, <<Sub("Default", <<>>), Sub("Outer", <<>>)>>,
          {Check("in", "<", 1, None)}, 5),
    Reach(4, Input("in", 0, None), <<>>, {}, 0),
    Reach(5, NoInputs, <<Sub("Drive", <<1, 0>>)>>,
          {Check("in", "==", {0, 1}, None), Check("out", "==", {0}, None)}, 1),
    Watch(6, NoInputs, <<>>, {Check("in", ">=", 1, None)}, 3),
    Watch(7, Input("in", 1, None), <<Sub("Drive", <<1>>), Sub("Default", <<1>>)>>,
          {Check("out", "in", AnyAbove, None)}, 2),
    Watch(8, NoInputs, <<Sub("Default", <<>>)>>, {}, 1)}

TestCases == {[main |-> main, init |-> init, subs |-> Library] :
                 main \in StepPool \X StepPool, init \in {<<>>, <<"Default", "Drive">>}}
=============================================================================
