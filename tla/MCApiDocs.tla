----------------------------- MODULE MCApiDocs -----------------------------
EXTENDS ApiDocs

\* An address and a number of blocks, and names that occur in other paths.
MCValues == {"10.0.0.1", "10", "generators", "all"}
=============================================================================
