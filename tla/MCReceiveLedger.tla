-------------------------- MODULE MCReceiveLedger --------------------------
EXTENDS ReceiveLedger

CONSTANTS near, far

\* One sender knows two addresses of the device, the other one.
MCAddresses == [s \in Senders |-> IF s = near THEN 2 ELSE 1]
\* Only the other's bytes are counted, to keep the instance small.
MCBytes == [s \in Senders |-> IF s = near THEN 0 ELSE 1]
=============================================================================
