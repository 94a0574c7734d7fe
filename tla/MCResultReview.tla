--------------------------- MODULE MCResultReview ---------------------------
EXTENDS ResultReview, TLC

(* Two panels are interchangeable: no property names one of them.          *)
PanelsAlike == Permutations(Panels)
=============================================================================
