------------------------------ MODULE MCSpawner ------------------------------
EXTENDS SpawnerProps
=============================================================================
