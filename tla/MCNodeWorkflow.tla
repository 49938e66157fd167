--------------------------- MODULE MCNodeWorkflow ---------------------------
(***************************************************************************)
(* Small instances of NodeWorkflow for TLC: workflows of two and of three  *)
(* nodes, two agents and one member.                                       *)
(***************************************************************************)
EXTENDS NodeRefinement, NodeViews, TLC

\* A template node any agent may claim, rolled back to max times at most.
Step(type, max) ==
  [nodeType |-> type, assigneeType |-> "any_agent", assignee |-> None,
   maxRejects |-> max, dependsOn |-> {}]

\* The same for somebody named by the template.
Assigned(type, assigneeType, who) ==
  [Step(type, 1) EXCEPT !.assigneeType = assigneeType, !.assignee = who]

After(t, deps) == [t EXCEPT !.dependsOn = deps]

\* Started by its creation, for whoever approves or hands it over first.
Implement == [Assigned("standard", "auto", None) EXCEPT !.maxRejects = 2]

ImplementTest == <<Implement, Step("standard", 1)>>
TwoReviews    == <<Implement, Step("review", 1), After(Step("review", 1), {1})>>

\* A first node for a named agent, for a human, and for anybody.
Openings ==
  {<<Assigned("standard", "human", None), Step("standard", 1)>>,
   <<Step("standard", 1), Assigned("manual", "human", None)>>}
  \cup {<<Assigned("standard", "specific_agent", a), After(Step("review", 1), {1})>> :
          a \in Agents}

\* The second node for anybody, or for an agent whom the template names; then
\* the first is approved or resolved, or is a human's.
Named     == Assigned("standard", "specific_agent", CHOOSE a \in Agents : TRUE)
Continued == {ImplementTest, <<Implement, Named>>,
              <<Assigned("standard", "human", None), Named>>}
Longer    == {TwoReviews}

AgentSymmetry == Permutations(Agents)
=============================================================================
