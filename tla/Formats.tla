------------------------------- MODULE Formats -------------------------------
(***************************************************************************)
(* detect_format and route_queue: which extractor and which pool of workers *)
(* a file is for.  Of the table of formats this keeps the kinds, and the    *)
(* extensions that tell the flavours of a kind apart.                       *)
(***************************************************************************)
EXTENDS Sequences

FORMATS ==
  [pdf   |-> [extensions |-> <<".pdf">>,                queue |-> "heavy"],
   image |-> [extensions |-> <<".png", ".jpg">>,        queue |-> "heavy"],
   text  |-> [extensions |-> <<".txt", ".md", ".csv">>, queue |-> "light"],
   html  |-> [extensions |-> <<".html">>,               queue |-> "light"],
   docx  |-> [extensions |-> <<".docx">>,               queue |-> "light"],
   pptx  |-> [extensions |-> <<".pptx">>,               queue |-> "light"],
   xlsx  |-> [extensions |-> <<".xlsx">>,               queue |-> "light"],
   eml   |-> [extensions |-> <<".eml">>,                queue |-> "heavy"],
   rtf   |-> [extensions |-> <<".rtf">>,                queue |-> "light"]]

Kinds == DOMAIN FORMATS

ExtensionsOf(kind) == {FORMATS[kind].extensions[i] : i \in DOMAIN FORMATS[kind].extensions}

\* "" is no extension at all, ".exe" one of no format.
Extensions == UNION {ExtensionsOf(kind) : kind \in Kinds} \cup {"", ".exe"}

\* What libmagic says: a registered type, which goes by its kind here, a
\* text/x-something, a container, or something else.
Mimes == Kinds \cup {"text/x", "zip", "octet-stream", "other"}

\* What detection and routing ask of the bytes: the answer of libmagic, the
\* Office markers among the members of the ZIP, whether charset_normalizer
\* takes them for text, and whether embedded pictures reach the threshold.
Content == [mime : Mimes, members : SUBSET {"docx", "pptx", "xlsx"},
            looks_like_text : BOOLEAN, pictures : BOOLEAN]

Sniffed(members) == CASE "docx" \in members -> "docx"
                      [] "docx" \notin members /\ "pptx" \in members -> "pptx"
                      [] "docx" \notin members /\ "pptx" \notin members /\ "xlsx" \in members -> "xlsx"
                      [] members = {} -> "none"

Container(content) == content.mime \in {"zip", "octet-stream"} /\ content.members # {}

\* Mutant: the name decides, if it can.
KindByName(content, ext) ==
  IF \E kind \in Kinds : ext \in ExtensionsOf(kind)
    THEN CHOOSE kind \in Kinds : ext \in ExtensionsOf(kind)
    ELSE IF content.mime \in Kinds THEN content.mime ELSE "none"

\* The kind of a file by its content and the extension of its name.
KindOf(content, ext) ==
  CASE content.mime \in Kinds   -> content.mime
    [] Container(content)       -> Sniffed(content.members)
    [] content.mime = "text/x"  -> IF ext = ".eml" THEN "eml" ELSE "text"
    [] OTHER                    -> IF ext \in ExtensionsOf("text") /\ content.looks_like_text
                                     THEN "text" ELSE "none"

Supported(content, ext) == KindOf(content, ext) # "none"

\* The declared extension, if it is one of the kind; else the first of the kind.
CanonicalExtension(content, ext) ==
  LET kind == KindOf(content, ext) IN
  IF ext \in ExtensionsOf(kind) THEN ext ELSE Head(FORMATS[kind].extensions)

RouteQueue(content, ext, options) ==
  LET kind == KindOf(content, ext) IN
  IF options.pipeline = "layout" /\ kind \in {"pdf", "image"} THEN "layout"
  ELSE IF kind \in {"docx", "pptx"} /\ options.ocr_mode # "off" /\ content.pictures THEN "heavy"
  ELSE FORMATS[kind].queue
==============================================================================
