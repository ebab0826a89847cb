---------------------------- MODULE MCJobPolling ----------------------------
EXTENDS JobPolling

CONSTANT First      \* the user the jobs belong to

MCOwner == [j \in Jobs |-> First]
=============================================================================
