---------------------------- MODULE MCBlobSweeps ----------------------------
\* The blob store with its sweeps on a small instance.
EXTENDS BlobSweeps

CONSTANT h1

\* Two blobs of different sizes, so that a credit for the wrong one shows.
SizeOf == [h \in Hashes |-> IF h = h1 THEN 1 ELSE 2]

\* Encryption adds to the stored size.
EncryptedSize == [h \in Hashes |-> SizeOf[h] + 1]
=============================================================================
