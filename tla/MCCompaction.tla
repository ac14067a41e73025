---------------------------- MODULE MCCompaction ----------------------------
(* A small instance of Compaction: note says what refund says, and less     *)
(* saliently.                                                               *)
EXTENDS Compaction, MCMemoryManager

MCFaded == {note}

MCNear == {<<f, f>> : f \in MCFacts} \cup {<<refund, note>>, <<note, refund>>}

=============================================================================
