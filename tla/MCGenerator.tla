----------------------------- MODULE MCGenerator -----------------------------
EXTENDS GeneratorProps
=============================================================================
