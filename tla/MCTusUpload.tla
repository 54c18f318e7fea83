---------------------------- MODULE MCTusUpload ----------------------------
\* TusUpload on a small instance.
EXTENDS TusUpload, TLC

Symmetry == Permutations(Requests)
=============================================================================
