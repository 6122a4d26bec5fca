-------------------------- MODULE MCHandlerContext --------------------------
EXTENDS HandlerContext
=============================================================================
