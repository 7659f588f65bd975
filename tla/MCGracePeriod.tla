---------------------------- MODULE MCGracePeriod ----------------------------
\* The balance pays for three readings at most, a top-up for three: it may be at
\* and above every threshold; two attempts of a job and two failing calls.
EXTENDS GracePeriod
=============================================================================
