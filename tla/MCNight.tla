------------------------------ MODULE MCNight -------------------------------
(***************************************************************************)
(* Instances of NightRun: three or four issues, and the sets of edges.     *)
(***************************************************************************)
EXTENDS NightRun

Three == 1 .. 3
Four == 1 .. 4

(* Every graph without self-edges, cycles included.                        *)
ThreeGraphs == {edges \in [Three -> SUBSET Three] : \A n \in Three : n \notin edges[n]}

(* Edges to any number of older issues.                                    *)
OlderGraphs(issues) ==
  {edges \in [issues -> SUBSET issues] : \A n \in issues : \A p \in edges[n] : p < n}
FourOlder == OlderGraphs(Four)

=============================================================================
