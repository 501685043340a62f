---------------------------- MODULE MCMaintenance ----------------------------
\* Instances of Maintenance for TLC.
EXTENDS Maintenance

CONSTANTS wk, us

\* Every session west of Greenwich, in the same zone.
OneZone(s, u) == -1

\* The clock runs over the epoch.
LastBeforeEpoch == -1

\* A row before the first partition and one after the last.
EarlyAndLate == {-6, 3}

\* The worker in UTC, the user who creates the table west of it.
TwoZones(s, u) == IF s = wk THEN 0 ELSE -1
=============================================================================
