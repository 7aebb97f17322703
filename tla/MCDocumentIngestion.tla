------------------------ MODULE MCDocumentIngestion ------------------------
(* A text of two chunks and one of a single chunk. *)
EXTENDS DocumentIngestion

CONSTANTS long, short, noText, worker, importer, e1

ChunkCounts == [x \in {long, short} |-> IF x = long THEN 2 ELSE 1]
\* Two edits; or one, an import and a second run of the job or an end of the process.
Mix(r, e, i, d) == [runs |-> r, ends |-> e, imports |-> i, edits |-> d]
Mixes == {Mix(0, 0, 0, 2), Mix(1, 0, 1, 1), Mix(0, 1, 1, 1)}
=============================================================================
