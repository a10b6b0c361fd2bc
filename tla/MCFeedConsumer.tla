--------------------------- MODULE MCFeedConsumer ---------------------------
(* A small instance of FeedConsumer for TLC.                               *)
EXTENDS FeedConsumer, TLC

CONSTANTS o1, o2, o3

MCRefs == {o1, o2, o3}
=============================================================================
