---------------------------- MODULE MCAgentHarness ----------------------------
(* Instances of AgentHarness for TLC: the intents of each run.             *)
EXTENDS AgentHarness, TLC

Ask(tool, expects) == [tool |-> tool, doc |-> "d1", expects |-> expects]

\* A pinned transaction, a semantic one, layouts pinned to the present and to a
\* coming revision, and a denied tool.
CoreIntents ==
  {Ask("compiled", {0}), Ask("semantic", {0}), Ask("layout", {0}),
   Ask("layout", {1}), Ask("release", {})}

\* Transactions that do not say which revision they expect.
UnpinnedIntents == {Ask("compiled", {})}

Interchangeable ==
  Permutations(Sessions) \cup Permutations(Approvals)
    \cup Permutations(Calls) \cup Permutations(Workers)

===============================================================================
