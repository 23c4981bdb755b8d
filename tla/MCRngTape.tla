----------------------------- MODULE MCRngTape ------------------------------
(* Tapes of no, one and two bytes that agree, differ early and differ late.  *)
EXTENDS RngTape

Bytes == {0, 7}
SmallTapes == [data : {<<>>, <<7>>} \cup {<<7, b>> : b \in Bytes}, repeat : BOOLEAN]
BothLibraries == {"liboqs", "pqclean"}
=============================================================================
