---------------------------- MODULE MC_KexFaults ----------------------------
(* KexFaults on the instance of MC_KexStore.                               *)
EXTENDS KexFaults, MC_KexStore
=============================================================================
