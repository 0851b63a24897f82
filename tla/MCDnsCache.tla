---------------------------- MODULE MCDnsCache ----------------------------
(* Small instances of DnsCache for TLC. *)
EXTENDS DnsCache

\* A response that only a shadow refresh caches, and one whose records live for a
\* second and for two.
SomeResponses == {{0}, {1, 2}}
===========================================================================
