-------------------------------- MODULE MCLog --------------------------------
EXTENDS LogProps
=============================================================================
