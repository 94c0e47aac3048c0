--------------------------- MODULE MCClientCache ---------------------------
EXTENDS ClientCache

\* One resource of each kind; a role, which is handled like a channel but for the
\* manager that holds it, is left to the member.
MCResources == Kinds \ {"role"}
MCKindOf == [r \in MCResources |-> r]
=============================================================================
