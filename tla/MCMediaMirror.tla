---------------------------- MODULE MCMediaMirror ----------------------------
\* The media mirror alone: every origin has the same bytes.
EXTENDS MediaMirror

Origins == [u \in MediaUrls |-> MediaContents]
==============================================================================
