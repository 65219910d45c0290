------------------------------ MODULE MCInvites ------------------------------
EXTENDS Invites
CONSTANTS i1, a1, a2, n1, v1
=============================================================================
