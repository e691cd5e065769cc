---------------------------- MODULE MC_Normalize ----------------------------
(* Normalize on strings of up to 8 characters over "-", "B", "E" and a     *)
(* newline. The markers keep the real BEGIN marker's self-overlap: each    *)
(* starts and ends with "-".                                               *)
EXTENDS Normalize

MC_Char == {"-", "B", "E", "\n"}
MC_PubBegin == <<"-", "B", "-">>
MC_PubEnd == <<"-", "E", "-">>
=============================================================================
