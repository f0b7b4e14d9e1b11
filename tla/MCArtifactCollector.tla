------------------------ MODULE MCArtifactCollector ------------------------
(* Contents of every size up to one above the limit of a file; two of each *)
(* size that fits, so that files of one size may differ.                   *)
EXTENDS ArtifactCollector
MCContents == [tag : {1}, size : 0 .. MaxFileSize + 1] \union [tag : {2}, size : 1 .. MaxFileSize]
=============================================================================
