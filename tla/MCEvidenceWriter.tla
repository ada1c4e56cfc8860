-------------------------- MODULE MCEvidenceWriter --------------------------
(* One session: a replay copy and a live capture of one process, and a     *)
(* second copy made by another process.                                    *)
EXTENDS EvidenceWriter

CONSTANTS copy1, live1, copy2, writer1, writer2, session

MCWriterOf ==
    [c \in {copy1, live1, copy2} |-> IF c = copy2 THEN writer2 ELSE writer1]
MCSessionOf == [c \in {copy1, live1, copy2} |-> session]
=============================================================================
