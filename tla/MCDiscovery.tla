----------------------------- MODULE MCDiscovery -----------------------------
EXTENDS Discovery

\* This device and another, with one interface each: the one here comes and goes,
\* the other changes its address.
MCServices == {[host |-> "here", interface |-> 1], [host |-> "there", interface |-> 2]}
MCAddresses ==
    [s \in MCServices |-> IF s.host = Here THEN {None, 1} ELSE {2, 3}]
=============================================================================
