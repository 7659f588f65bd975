---------------------------- MODULE MCSettlement ----------------------------
\* One owner, the job and an admin, and a session that names the first week: it
\* may be in the periods of two jobs, run past the first, and be told of weeks later.
EXTENDS Settlement

MCPeriod == {<<1, 2>>}
=============================================================================
