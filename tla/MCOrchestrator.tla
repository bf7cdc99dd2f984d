---------------------------- MODULE MCOrchestrator ----------------------------
(***************************************************************************)
(* Instances of Orchestrator for TLC.  MCOrchestratorDomains.cfg follows   *)
(* one query over two domains with every optional part configured;         *)
(* MCOrchestratorSessions.cfg lets three queries of two sessions overlap.  *)
(***************************************************************************)
EXTENDS Orchestrator, TLC

CONSTANTS r1, r2, r3, inventory, finance, compliance

Decide(intent, domains) == [intent |-> intent, domains |-> domains]

\* One domain is enough to tell a query's turn from a query without one.
OneDomain ==
  {Decide(Supply, <<inventory>>), Decide(Supply, << >>), Decide(OutOfScope, << >>)}

PlacedOrNot == {Decide(Supply, <<inventory>>), Decide(OutOfScope, << >>)}

\* Two agents, and a domain that has none.
TwoDomains ==
  {Decide(Supply, <<inventory, finance>>), Decide(Supply, <<finance, compliance>>),
   Decide(Clarify, <<finance>>), Decide(OutOfScope, << >>)}

\* Bound of the model: how many queries run at the same time.
Running == {r \in Requests : pc[r] # "new" /\ ~Ended(r)}
AtMostTwoRunning == Cardinality(Running) <= 2

Symmetry == Permutations({r1, r2, r3}) \cup Permutations(SessionIds)
=============================================================================
