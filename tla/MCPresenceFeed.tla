---------------------------- MODULE MCPresenceFeed ----------------------------
(* Instances of PresenceFeed for TLC. *)
EXTENDS PresenceFeed
================================================================================
