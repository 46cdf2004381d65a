--------------------------- MODULE MCSemanticBus ---------------------------
(* Instances of SemanticBus for TLC.                                       *)
EXTENDS SemanticBus

File(a, t) == [activity |-> a, tool |-> t]

(* An agent's file names its tool while one runs, and only then.           *)
PlainContent ==
  {File("idle", "none")} \cup {File("toolRunning", t) : t \in Tool}

(* A hook leaves the tool in the file after it is over, and may say that a *)
(* tool runs and not which.                                                *)
AnyContent ==
  PlainContent \cup {File("idle", t) : t \in Tool} \cup {File("toolRunning", "none")}
=============================================================================
