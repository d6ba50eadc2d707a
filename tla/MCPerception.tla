---------------------------- MODULE MCPerception ----------------------------
(* One document, two users: a scan that OCR reads in part, or an image on a  *)
(* host without Tesseract.                                                   *)
EXTENDS Perception

Document(mime, layer, tesseract) ==
    [mime |-> mime, opens |-> TRUE, pages |-> 2, layer |-> layer,
     ocr |-> <<10, 30>>, tesseract |-> tesseract, bytes |-> 3]
MCDocs == {Document("pdf", 79, TRUE), Document("image", 0, FALSE)}

Part(name, chunks, ended) ==
    [name |-> name, filename |-> TRUE, chunks |-> chunks, ended |-> ended]
MCBodies == {<<Part("file", <<1, 2>>, TRUE)>>,
             <<Part("title", <<9>>, TRUE), Part("file", <<3>>, TRUE), Part("file", <<1>>, TRUE)>>,
             <<Part("file", <<2, 2>>, TRUE)>>, <<Part("file", <<3>>, FALSE)>>}

MCCaps == <<2, 3>>

MCReplies == {[sections |-> RequiredSections, verbatim |-> 199]}
=============================================================================
