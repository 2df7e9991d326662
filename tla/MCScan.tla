--------------------------------- MODULE MCScan ---------------------------------
(* Small instances of ScanIntake. *)
EXTENDS ScanIntake

Png == [format |-> "raster", opens |-> TRUE, frames |-> 1, pixels |-> 1,
        decodes |-> TRUE, cut |-> FALSE, big |-> FALSE]
\* A TIFF of two pages, copied as far as the second.
HalfTiff == [Png EXCEPT !.frames = 2, !.cut = TRUE]
\* PDFium opens it, but cannot load its page.
BrokenPdf == [Png EXCEPT !.format = "pdf", !.decodes = FALSE]
\* Pillow opens it, OpenCV does not.
Undecodable == [Png EXCEPT !.decodes = FALSE]
\* Over max_upload_size_bytes.
TooBig == [Png EXCEPT !.big = TRUE]

\* The second file may be refused, and then the third is not looked at.
ThreeFiles == <<{HalfTiff}, {BrokenPdf, TooBig}, {Png}>>
PngOrNot   == {Png, Undecodable}
=============================================================================
