------------------------------ MODULE MCIngest ------------------------------
(* Instances of Ingest for TLC: an upload may have two messages, and one more *)
(* around the file.                                                           *)
EXTENDS Ingest, TLC

CONSTANTS q1, q2, q3

Plain == [mime |-> "octet-stream", members |-> {}, looks_like_text |-> TRUE, pictures |-> FALSE]
Source == [Plain EXCEPT !.mime = "text/x"]
Word == [Plain EXCEPT !.members = {"docx"}, !.looks_like_text = FALSE, !.pictures = TRUE]
Scan == [Plain EXCEPT !.mime = "image", !.looks_like_text = FALSE]

Standard == [pipeline |-> "standard", ocr_mode |-> "auto"]
Layout == [pipeline |-> "layout", ocr_mode |-> "off"]

File(content, ext) == [content |-> content, ext |-> ext, size |-> 1, body |-> 1, declared |-> TRUE,
                       options |-> Standard, force |-> FALSE]

\* Flavours of one text, options, a forced one, other kinds, and sizes at the limits.
SomeUploads ==
  {File(Plain, ".txt"), File(Plain, ".csv"), File(Plain, ".exe"),
   [File(Plain, ".txt") EXCEPT !.force = TRUE], [File(Plain, ".txt") EXCEPT !.options = Layout],
   File(Source, ".eml"), File(Source, ".html"),
   [File(Scan, ".txt") EXCEPT !.options = Layout, !.size = 2, !.body = 3, !.declared = FALSE],
   [File([Plain EXCEPT !.mime = "pdf"], ".pdf") EXCEPT !.size = 3, !.body = 3],
   [File([Plain EXCEPT !.mime = "rtf"], ".rtf") EXCEPT !.size = 4, !.body = 4, !.declared = FALSE],
   [File(Word, ".docx") EXCEPT !.size = 4, !.body = 4],
   [File([Plain EXCEPT !.mime = "html"], ".html") EXCEPT !.size = 0]}

TwoFlavours == {File(Plain, ".txt"), File(Plain, ".csv")}

Symmetry == Permutations(Requests)
=============================================================================
