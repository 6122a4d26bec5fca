------------------------ MODULE MCRuntimeCredentials ------------------------
EXTENDS RuntimeCredentials
=============================================================================
