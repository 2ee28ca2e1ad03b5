--------------------------- MODULE MCJobLifecycle ---------------------------
(***************************************************************************)
(* Instances of JobLifecycle for TLC.                                      *)
(***************************************************************************)
EXTENDS JobLifecycle

\* A conversation: a complete request, then a follow-up naming only a type.
PairMessages == {"m1", "m2"}
PairThread == [m \in PairMessages |-> "t1"]
PairAsks == [m \in PairMessages |->
  IF m = "m1" THEN [matter |-> "M1", type |-> "Exhibits"]
              ELSE [matter |-> None, type |-> "Transcripts"]]
PairReceivedAt == [m \in PairMessages |-> IF m = "m1" THEN 1 ELSE 2]

\* The same, both emails naming their matter.
RivalAsks == [m \in PairMessages |->
  IF m = "m1" THEN [matter |-> "M1", type |-> "Exhibits"]
              ELSE [matter |-> "M2", type |-> "Exhibits"]]

\* A request and a follow-up in one thread, a bare request outside of it.
TrioMessages == {"m1", "m2", "m3"}
TrioThread == [m \in TrioMessages |-> IF m = "m3" THEN None ELSE "t1"]
TrioAsks == [m \in TrioMessages |->
  CASE m = "m1" -> [matter |-> "M1", type |-> "Exhibits"]
    [] m = "m2" -> [matter |-> None, type |-> "Transcripts"]
    [] m = "m3" -> [matter |-> "M2", type |-> None]]
TrioReceivedAt == [m \in TrioMessages |-> CASE m = "m1" -> 1 [] m = "m2" -> 2 [] m = "m3" -> 3]

\* A single email.
LoneMessages == {"m1"}
LoneThread == [m \in LoneMessages |-> "t1"]
LoneAsks == [m \in LoneMessages |-> [matter |-> "M1", type |-> "Exhibits"]]
LoneReceivedAt == [m \in LoneMessages |-> 1]

=============================================================================
