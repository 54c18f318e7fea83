----------------------------- MODULE MCModeration -----------------------------
\* Moderation on a small instance: one report, one decision and one upload that
\* comes in a batch.
EXTENDS Moderation

ReportedBlob == [r \in Reports |-> "h"]
BatchKey == [u \in ModUploads |-> "k"]
BatchBlob == [u \in ModUploads |-> "h"]

BatchSpec == ModSpec /\ way = [u \in ModUploads |-> "batch"]
==============================================================================
