--------------------------- MODULE MCKNucleotide ---------------------------
(* Small instances of KNucleotide for TLC; the bounds are in the .cfg. *)
EXTENDS KNucleotide

\* Texts over two of the nucleotides: shorter than a line, a line, a line and a
\* half, and two of two full lines.
AllTexts == UNION {[1..m -> {1, 2}] : m \in {1, 2, 5, 7}}
            \cup {[p \in 1..10 |-> 1 + (p % d)] : d \in {1, 2}}

\* Before the sequence: its header alone; a full line and a longer header; or a
\* short line that is longer than the header, the end of sequence TWO.
Row(k) == [p \in 1..k |-> 3]
SomeLines == {<<Row(1)>>, <<Row(5), Row(4)>>, <<Row(5), Row(3), Row(1)>>}

\* The allocated buffer holds zeros, or newlines.
Zeros == [p \in 1..(linewidth + 2) |-> NUL]
Newlines == [p \in 1..(linewidth + 2) |-> NL]
SomeMemory == {Zeros, Newlines}

TwoFrames == <<1, 2>>
=============================================================================
