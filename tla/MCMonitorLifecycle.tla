------------------------ MODULE MCMonitorLifecycle ------------------------
EXTENDS MonitorLifecycle

CONSTANTS i1, i2

\* Two connectors, one of them watched; or one, with the master switch off.
MCForm == {[enabled |-> TRUE, seq |-> <<[id |-> i2, on |-> FALSE], [id |-> i1, on |-> TRUE]>>],
           [enabled |-> FALSE, seq |-> <<[id |-> i1, on |-> TRUE]>>]}
============================================================================
