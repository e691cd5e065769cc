----------------------------- MODULE MC_KexLive -----------------------------
(* The instance of MC_KexStore for checking liveness, without symmetry     *)
(* (which liveness checking does not admit) and with a single key length  *)
(* of one and a half blocks, so that the shredding loop runs twice and   *)
(* its last write passes the end of the file.  There are no peer keys:  *)
(* an import's two steps (stat, rename) touch no loop, and with a peer  *)
(* key the graph is too large for a liveness check.                       *)
EXTENDS MC_KexStore

MC_LiveKeyLen == {3}
MC_LivePeerKey == {}
=============================================================================
