----------------------------- MODULE MCLiveSession -----------------------------
(* A chain of four blocks, two providers of unequal weight, and one failure    *)
(* less than the cap.                                                          *)
EXTENDS LiveSession

MCWeight == <<1, 1>>
===============================================================================
