-------------------------------- MODULE MCRouter --------------------------------
(* Small instances of OcrRouter. *)
EXTENDS OcrRouter

\* A handwritten region, and one after it that may meet its threads.
HandwrittenThenTyped == <<"handwritten", "typed">>

\* The handwriting threads of the first region's two attempts.
FirstCalls == {<<1, 1, "primary">>, <<1, 2, "primary">>}
=============================================================================
