--------------------------- MODULE AtomicPublish ----------------------------
(***************************************************************************)
(* What write_bundle promises about the output path: a reader finds there  *)
(* the bundle that was there before, or a new whole one, never a part of   *)
(* one; a power loss may bring back an earlier bundle, but the path never  *)
(* holds less than the disk had, once the directory is on disk itself.     *)
(***************************************************************************)
CONSTANTS
  Bundles,  \* the whole bundles there can be
  Nothing   \* no file at the path

VARIABLES
  published,  \* what a reader finds at the path
  durable,    \* what it would find after a power loss, in a directory that is on disk
  rooted      \* the directory is on disk

PublishInit ==
  /\ published \in Bundles \union {Nothing} /\ durable = published
  /\ rooted \in BOOLEAN /\ (~ rooted => published = Nothing)

Publish(bundle) == published' = bundle /\ UNCHANGED << durable, rooted >>

Persist == durable' = published /\ UNCHANGED << published, rooted >>

Root == rooted' = TRUE /\ UNCHANGED << published, durable >>

PowerLoss ==
  /\ durable' = IF rooted THEN durable ELSE Nothing
  /\ published' = durable'
  /\ UNCHANGED rooted

PublishNext == (\E bundle \in Bundles : Publish(bundle)) \/ Persist \/ Root \/ PowerLoss

PublishSpec == PublishInit /\ [][PublishNext]_<< published, durable, rooted >>
=============================================================================
