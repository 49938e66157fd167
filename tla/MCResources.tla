---------------------------- MODULE MCResources -----------------------------
(***************************************************************************)
(* The rows and what they say of each other, or what one of them holds: a  *)
(* behaviour is one of Resources or one of Records, which share no state.  *)
(***************************************************************************)
EXTENDS Resources, Records, TLC

CONSTANT MaxUnderWay  \* bound: requests and deletions under way at once

VARIABLE side  \* which of the two

UnderWay == Cardinality({h \in Handlers : req[h] # Idle})
              + Cardinality({x \in DOMAIN going : going[x] # 0})

MCInit ==
  /\ Init
  /\ RecordInit
  /\ side \in {"rows", "record"}
  /\ side = "rows" => kind = "agent"

MCNext ==
  \/ side = "rows" /\ Next /\ UnderWay' <= MaxUnderWay /\ UNCHANGED <<recordVars, side>>
  \/ side = "record" /\ RecordNext /\ UNCHANGED <<vars, side>>

MCSpec == MCInit /\ [][MCNext]_<<vars, recordVars, side>>

\* Workspaces are alike, and so are handlers.
Symmetry == Permutations(Workspaces) \cup Permutations(Handlers)
=============================================================================
