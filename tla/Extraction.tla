----------------------------- MODULE Extraction ------------------------------
(***************************************************************************)
(* Text out of a document (extract/extractor.py, tika.py, ocr.py): Tika,   *)
(* then Python, then OCR.  Of a text only its length matters; what each    *)
(* backend can read of a content is file.chars.                            *)
(***************************************************************************)
EXTENDS Naturals

OCR_CHAR_THRESHOLD == 200

\* Suffixes that the Python backends and the OCR toolchain know.
PythonSuffixes == {".pdf", ".docx", ".txt", ".md", ".text", ".csv"}
OcrSuffixes    == {".pdf", ".png", ".jpg", ".jpeg", ".tif", ".tiff", ".bmp", ".webp"}

\* What one request for Tika may come to, and the remembered health of the
\* server after it: only an unreachable server clears it.
Tika(ok) ==
    (IF ok = "no" THEN {} ELSE {<<"text", "yes">>, <<"refused", "yes">>, <<"unreachable", "unknown">>})
    \cup (IF ok = "yes" THEN {} ELSE {<<"skipped", "no">>})

PythonText(file) == IF file.suffix \in PythonSuffixes THEN file.chars.python ELSE 0
OcrText(file, installed) == IF installed /\ file.suffix \in OcrSuffixes THEN file.chars.ocr ELSE 0

\* A mistaken fallback: a server that answered needs none.
TextUnlessServed(file, answer) ==
    IF answer = "text" THEN file.chars.tika
    ELSE IF answer = "skipped" THEN PythonText(file) ELSE 0
\* The text before OCR.
Text(file, answer) ==
    IF answer = "text" /\ file.chars.tika > 0 THEN file.chars.tika ELSE PythonText(file)

\* extract_bytes: OCR is tried when there is little text, and the longer text wins.
Extracted(file, answer, installed) ==
    LET text == Text(file, answer)
        ocr  == OcrText(file, installed)
    IN IF text < OCR_CHAR_THRESHOLD /\ ocr > text THEN ocr ELSE text
=============================================================================
