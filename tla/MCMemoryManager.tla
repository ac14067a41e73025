--------------------------- MODULE MCMemoryManager ---------------------------
(* Small instances of MemoryManager.                                         *)
EXTENDS MemoryManager, TLC

CONSTANTS refund, replacement, note

MCFacts == {refund, replacement, note}

\* conflict.py:30, ("refund", "replacement")
MCOpposed == {<<refund, replacement>>, <<replacement, refund>>}

MCKind == [f \in MCFacts |-> IF f = note THEN "preference" ELSE "intent"]

MCSalience == [f \in MCFacts |-> IF f = note THEN 1 ELSE 2]

WriterSymmetry == Permutations(Writers)
ReaderSymmetry == Permutations(Readers)

Nothing == {}

NoFilter == {Nil}

\* One fact per write, and the two that contradict each other.
Opposites == {<<refund>>, <<replacement>>}

\* A write that extraction empties, one the policy empties, one of each kind.
Mixed == {<<>>, <<note>>, <<refund>>, <<note, replacement>>}

Pairs == {<<refund>>, <<note, replacement>>}

NoteRefused == {note}

NoFloor == {0}
OneFloor == {0, 1}
TwoFloors == {0, 1, 2}
==============================================================================
