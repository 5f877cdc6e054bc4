----------------------------- MODULE MCDeployment -----------------------------
(* Workflows with lists short enough to break off anywhere.                 *)
EXTENDS Deployment

CONSTANT NoValue

F(model, history, c, d, g, k) ==
    [model |-> model, history |-> history, currentState |-> c, deviceId |-> d, group |-> g, modelKey |-> k]

MCFilters == {F(TRUE, FALSE, 0, 0, 0, 0), F(FALSE, TRUE, 1, 0, 2, 0), F(TRUE, TRUE, 0, 3, 0, 1),
              F(FALSE, FALSE, 0, 0, 0, 0), F(FALSE, FALSE, 2, 1, 1, 3)}
MCStates == {{"state", "message"}, {"state"}, {}}
MCMaxItems == [kind \in Kinds |-> IF kind = "state" THEN 2 ELSE 1]
=============================================================================
