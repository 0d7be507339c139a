--------------------------- MODULE MCPreviewStore ---------------------------
(* PreviewStore on a small instance; tokens are interchangeable, and so are *)
(* previews.                                                                *)
EXTENDS PreviewStore, TLC

Symmetry == Permutations(Token) \cup Permutations(Preview)

\* A wall clock that runs to the end of a lifetime or of two, and is also set back (NTP,
\* or an operator).
Steps == {1, 2, -1}
=============================================================================
