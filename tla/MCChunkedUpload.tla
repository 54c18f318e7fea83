--------------------------- MODULE MCChunkedUpload ---------------------------
\* ChunkedUpload on a small instance.
EXTENDS ChunkedUpload, TLC

Symmetry == Permutations(Requests) \cup Permutations(Bodies)
==============================================================================
