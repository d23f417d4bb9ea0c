---------------------------- MODULE MCVulnFeeds ----------------------------
(* A small instance of VulnFeeds for TLC. *)
EXTENDS VulnFeeds

OneEcosystem == <<"npm">>
OneSource == <<"elastic">>
=============================================================================
