--------------------------- MODULE MC_SWUpdateRepo ---------------------------
(* One release; the removal sentinel, one URL, and two local paths: one    *)
(* named *.iso and one with another suffix, each of which may be a file,   *)
(* a directory or nothing; one non-empty repo params dict.                *)
EXTENDS SWUpdateRepo

CONSTANTS r1, undef, url, p_iso, p_img, prm

MCSuffix == [p \in {p_iso, p_img} |-> IF p = p_iso THEN "iso" ELSE "other"]
=============================================================================
