--------------------------- MODULE DocumentTexts ---------------------------
(***************************************************************************)
(* Texts of documents, as lcl-workspace keeps them (document.rs): a text   *)
(* may lack the line end that a saved document must finish with.  A text's *)
(* digest, its revision, stands for it.                                    *)
(***************************************************************************)
CONSTANTS
    Bodies,  \* what texts say, their last line end apart
    Absent   \* no document, and the null digest that reports it

Texts == [body : Bodies, lf : BOOLEAN]
Contents == Texts \cup {Absent}

\* What is saved ends in a line end, added where the text sent lacks it.
admissible(t) == [t EXCEPT !.lf = TRUE]
=============================================================================
