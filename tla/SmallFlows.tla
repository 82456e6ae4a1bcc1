----------------------------- MODULE SmallFlows -----------------------------
(***************************************************************************)
(* Small task graphs for the executors: every directed acyclic graph of a  *)
(* few static tasks (edges lead from a smaller identifier to a larger      *)
(* one), and conditions, subflows, spent graphs and closures that panic in *)
(* the arrangements the documentation shows.                               *)
(***************************************************************************)
EXTENDS Naturals, TLC

CONSTANT MaxTasks   \* bound: the largest graph

Node(p, kind, edges) ==
  [id |-> p, work |-> kind,
   succ |-> {e[2] : e \in {f \in edges : f[1] = p}},
   deps |-> {e[1] : e \in {f \in edges : f[2] = p}}]

FlowOf(works, edges, br) ==
  [graph |-> [p \in DOMAIN works |-> Node(p, works[p], edges)],
   branches |-> br, spent |-> FALSE]

StaticWork == [kind |-> "static"]

ForwardEdges(n) == {e \in (1 .. n) \X (1 .. n) : e[1] < e[2]}

\* All the graphs of at most MaxTasks static tasks.
StaticFlows ==
  UNION {{FlowOf([p \in 1 .. n |-> StaticWork], edges, <<>>) :
            edges \in SUBSET ForwardEdges(n)} : n \in 0 .. MaxTasks}

Condition(returns) == [kind |-> "condition", returns |-> returns]
AsyncWork == [kind |-> "async"]
FaultyWork == [kind |-> "faulty"]
Emplace(kind) == [name |-> "emplace", work |-> kind]
Precede(i, j) == [name |-> "precede", from |-> i, to |-> j]
SubflowOf(ops) == [kind |-> "subflow", ops |-> ops]

Kids == SubflowOf(<<Emplace(StaticWork), Emplace(StaticWork), Precede(1, 2)>>)
Nested == SubflowOf(<<Emplace(SubflowOf(<<Emplace(StaticWork)>>)), Emplace(StaticWork)>>)
Childless == SubflowOf(<<>>)

\* ADVANCED_CONDITIONS.md: a switch whose branches are chains, nested conditions,
\* a branch of several tasks, the convergent task the document warns about.
SwitchFlow ==
  FlowOf(<<Condition({0, 1}), StaticWork, StaticWork, StaticWork, StaticWork>>,
         {<<1, 2>>, <<2, 3>>, <<1, 4>>, <<4, 5>>},
         1 :> (0 :> <<2>> @@ 1 :> <<4>>))
NestedConditions ==
  FlowOf(<<StaticWork, Condition({0, 1}), Condition({0, 1}), StaticWork, StaticWork, StaticWork>>,
         {<<1, 2>>, <<2, 3>>, <<2, 4>>, <<3, 5>>, <<3, 6>>},
         2 :> (0 :> <<3>> @@ 1 :> <<4>>) @@ 3 :> (0 :> <<5>> @@ 1 :> <<6>>))
WideBranch ==
  FlowOf(<<Condition({0, 1}), StaticWork, StaticWork, StaticWork, StaticWork>>,
         {<<1, 2>>, <<1, 3>>, <<1, 4>>},
         1 :> (0 :> <<3, 2>> @@ 1 :> <<4>>))
ConvergentFlow ==
  FlowOf(<<Condition({0, 1}), StaticWork, StaticWork, StaticWork>>,
         {<<1, 2>>, <<1, 3>>, <<2, 4>>, <<3, 4>>},
         1 :> (0 :> <<2>> @@ 1 :> <<3>>))
\* A branch names its successor twice, and nothing else holds that one back.
RepeatedBranch ==
  FlowOf(<<Condition({0, 1}), StaticWork, StaticWork>>, {<<1, 2>>, <<1, 3>>},
         1 :> (0 :> <<2, 2>> @@ 1 :> <<3>>))
\* A condition without registered branches activates all its successors.
PlainCondition ==
  FlowOf(<<Condition({0, 1}), StaticWork, StaticWork>>, {<<1, 2>>, <<1, 3>>}, <<>>)

ConditionFlows ==
  {SwitchFlow, NestedConditions, WideBranch, ConvergentFlow, RepeatedBranch,
   PlainCondition}

\* Subflow tasks that never run at the same time as another.
SubflowFlows ==
  {FlowOf(<<Kids, StaticWork, StaticWork>>, {<<1, 2>>}, <<>>),
   FlowOf(<<Nested, StaticWork>>, {<<1, 2>>}, <<>>),
   FlowOf(<<Childless, Kids>>, {<<1, 2>>}, <<>>),
   FlowOf(<<Condition({0, 1}), Kids, StaticWork>>, {<<1, 2>>, <<1, 3>>},
          1 :> (0 :> <<2>> @@ 1 :> <<3>>))}

\* Closures that panic in one executor or in both, with a task that depends on
\* them or one that does not still to come.
PanickingFlows ==
  {FlowOf(<<closure, StaticWork, StaticWork>>, edges, <<>>) :
     closure \in {AsyncWork, FaultyWork}, edges \in {{<<1, 3>>}, {<<2, 3>>}}}

\* A second run of the same taskflow finds no closures left.
SpentFlows ==
  {[FlowOf(<<StaticWork, StaticWork, StaticWork>>, edges, <<>>) EXCEPT !.spent = TRUE] :
     edges \in {{<<1, 2>>}, {<<1, 3>>, <<2, 3>>}}}

\* examples/advanced_conditions.rs, with every branch a condition may take.
DemoSwitchCase ==
  FlowOf([p \in 1 .. 7 |-> IF p = 1 THEN Condition({0, 1}) ELSE StaticWork],
         {<<2, 3>>, <<3, 4>>, <<5, 6>>, <<6, 7>>, <<1, 2>>, <<1, 5>>},
         1 :> (0 :> <<2>> @@ 1 :> <<5>>))
DemoNestedConditions ==
  FlowOf(<<Condition({0, 1}), Condition({0, 1}), StaticWork, StaticWork, StaticWork>>,
         {<<1, 2>>, <<1, 5>>, <<2, 3>>, <<2, 4>>},
         1 :> (0 :> <<2>> @@ 1 :> <<5>>) @@ 2 :> (0 :> <<3>> @@ 1 :> <<4>>))


\* examples/basic.rs and tests/integration_tests.rs.
SubflowExample ==
  FlowOf(<<StaticWork,
           SubflowOf(<<Emplace(StaticWork), Emplace(StaticWork), Emplace(StaticWork),
                       Precede(1, 3), Precede(2, 3)>>),
           StaticWork>>,
         {<<1, 2>>, <<2, 3>>}, <<>>)
TestSubflow == FlowOf(<<SubflowOf(<<Emplace(StaticWork), Emplace(StaticWork)>>)>>, {}, <<>>)

ExampleFlows ==
  {DemoSwitchCase, DemoNestedConditions, SubflowExample, TestSubflow}

DocumentedFlows ==
  ExampleFlows \cup SpentFlows \cup StaticFlows \cup ConditionFlows \cup SubflowFlows \cup PanickingFlows
-----------------------------------------------------------------------------
(* Flows on which the code departs from what the repository says of it.    *)

\* The condition returns a branch nobody registered.
FallbackFlows ==
  {FlowOf(<<Condition({2}), StaticWork, StaticWork>>, {<<1, 2>>, <<1, 3>>},
          1 :> (0 :> <<2>> @@ 1 :> <<3>>))}

\* Two subflow tasks with nothing to order them.
ParallelSubflows ==
  {FlowOf(<<SubflowOf(<<Emplace(StaticWork)>>), SubflowOf(<<Emplace(StaticWork)>>)>>, {}, <<>>)}

\* A branch that names a task twice, as two calls of branch leave it, although the
\* task depends on another one as well; and a task behind both branches.
RepeatingFlows ==
  {FlowOf(<<Condition({0}), StaticWork, StaticWork, StaticWork, StaticWork>>,
          {<<1, 2>>, <<1, 3>>, <<2, 4>>, <<3, 4>>, <<5, 2>>},
          1 :> (0 :> <<2, 2>> @@ 1 :> <<3>>))}

\* Two branches that are not taken lead to the same task.
OverlappingFlow ==
  FlowOf(<<Condition({0}), StaticWork, StaticWork, StaticWork, StaticWork>>,
         {<<1, 2>>, <<1, 3>>, <<1, 4>>, <<3, 5>>, <<4, 5>>},
         1 :> (0 :> <<2>> @@ 1 :> <<3>> @@ 2 :> <<4>>))

\* As many tasks, given as async closures.
AsyncFlow(n) == FlowOf([p \in 1 .. n |-> AsyncWork], {}, <<>>)

=============================================================================
