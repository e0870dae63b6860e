------------------------------- MODULE MCStats -------------------------------
EXTENDS StatsProps
=============================================================================
