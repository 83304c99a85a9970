---------------------------- MODULE MCDiffReader ---------------------------
(***************************************************************************)
(* Instances of DiffReader: two files in sections of every form, and added *)
(* lines that look like a "+++" line or like the header of one of them.    *)
(***************************************************************************)
EXTENDS DiffReader

CONSTANTS f, g

AllForms == {"plain", "spaced", "quoted", "deleted"}
AllTexts == {Plain, PlusPlus, f}
SkippedText == {Plain, PlusPlus}

=============================================================================
