--------------------------- MODULE MCSessionStore ---------------------------
EXTENDS SessionStore

CONSTANTS a1, a2, pin1, pin2, key1, key2
=============================================================================
