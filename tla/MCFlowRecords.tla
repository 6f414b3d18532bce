------------------------------ MODULE MCFlowRecords ------------------------------
(* FlowRecords on a small instance: one INPUT and one OUTPUT worker, an interface block *)
(* (no rule) and a rule block.                                                          *)
EXTENDS FlowRecords

MCDecisions == {[reason |-> "IFACE_BLOCK", ruleId |-> 0, known |-> FALSE],
                [reason |-> "IP_RULE_BLOCK", ruleId |-> 7, known |-> TRUE]}
MCBlockReasons == {"IFACE_BLOCK", "IP_RULE_BLOCK"}
=============================================================================
