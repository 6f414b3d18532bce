------------------------------ MODULE MCFlowTelemetry ------------------------------
(* FlowTelemetry on small instances.  Runner is the one producer that is scheduled;   *)
(* the others may stop anywhere, also inside a slot.                                  *)
EXTENDS FlowTelemetry

CONSTANT Runner

FairSpec == Spec /\ WF_vars(ExportStep(Runner))

\* tryWrite neither waits nor spins: a producer that got a ticket returns from the export
\* on its own steps alone, whatever the other producers do or stop doing in the slot.
ExportCompletes == pc[Runner] \in InTryWrite ~> pc[Runner] = "hot"
================================================================================
