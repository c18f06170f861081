------------------------------ MODULE FastaText ------------------------------
(***************************************************************************)
(* The sequential part of three ports of one benchmark, which print number *)
(* letters in lines of Width: a string repeated (sequence ONE) by          *)
(* 2018/01/02/multicorefasta.c ("c"), fasta-ganszky/main.swift ("ganszky") *)
(* and fasta-lemire/main.swift ("lemire"), and the random letters of the   *)
(* last one ("random").                                                    *)
(*                                                                         *)
(* A letter of the repeated string is its position in it, a random letter  *)
(* the rank of its number; 0 ends a line.  A step is one turn of a loop.   *)
(***************************************************************************)
EXTENDS Integers, Sequences

CONSTANTS
  Width,          \* MAXIMUM_LINE_WIDTH, linewidth
  StringLengths,  \* lengths of the string to repeat, 287 in the programs
  MaxLetters,     \* bound on the number of letters to print
  BufferSize      \* buffer_size of fasta-lemire

ASSUME TextAssumption ==
  /\ Width \in Nat \ {0}
  /\ \A l \in StringLengths : l \in Nat /\ l >= Width
  /\ MaxLetters \in Nat
  /\ BufferSize \in Nat /\ BufferSize > Width + 1

VARIABLES
  port, len, number,   \* the program, the length of its string, its argument
  pc, offset, left,    \* where it is in the string, what it has still to do
  buffer, output

input == <<port, len, number>>
TextVars == <<input, pc, offset, left, buffer, output>>

TextInit ==
  /\ port \in {"c", "ganszky", "lemire", "random"}
  /\ len \in StringLengths
  /\ number \in 0..MaxLetters
  /\ pc = "fill"
  /\ offset = 0
  /\ left = CASE port = "c" -> len * Width [] port = "ganszky" -> len [] OTHER -> number
  /\ buffer = <<>> /\ output = <<>>

\* extended_String_To_Repeat, by index; memory copies of k letters from one.
Extended(i)   == (i % len) + 1
Copy(from, k) == [i \in 1..k |-> Extended(from + i - 1)]

line_Length == IF left < Width THEN left ELSE Width

\* Mutant: the offset is not brought back into the string.
AdvanceOut(k) == offset + k

Advance(k) == IF offset + k > len THEN offset + k - len ELSE offset + k

\* The number of bytes of number letters and of the ends of their full lines.
Bytes == number + number \div Width

-----------------------------------------------------------------------------
(* make_Sequence_Buffer and repeat_And_Wrap_String of multicorefasta.c. *)

CLine ==
  /\ port = "c" /\ pc = "fill" /\ left > 0
  /\ buffer' = buffer \o Copy(offset, line_Length) \o <<0>>
  /\ offset' = Advance(line_Length)
  /\ left' = left - line_Length
  /\ UNCHANGED <<input, pc, output>>

CFilled ==
  /\ port = "c" /\ pc = "fill" /\ left = 0
  /\ left' = Bytes /\ pc' = "repeat"
  /\ UNCHANGED <<input, offset, buffer, output>>

CRepeat ==
  /\ port = "c" /\ pc = "repeat" /\ left >= Len(buffer)
  /\ output' = output \o buffer
  /\ left' = left - Len(buffer)
  /\ UNCHANGED <<input, pc, offset, buffer>>

\* Mutant: the last line is not ended.
CRestOpen ==
  /\ port = "c" /\ pc = "repeat" /\ left < Len(buffer)
  /\ output' = output \o SubSeq(buffer, 1, left)
  /\ pc' = "done"
  /\ UNCHANGED <<input, offset, left, buffer>>

CRest ==
  /\ port = "c" /\ pc = "repeat" /\ left < Len(buffer)
  /\ output' = IF left > 0 THEN output \o SubSeq(buffer, 1, left) \o <<0>> ELSE output
  /\ pc' = "done"
  /\ UNCHANGED <<input, offset, left, buffer>>

-----------------------------------------------------------------------------
(* buildFastaBlockFromString and repeatFasta of fasta-ganszky. *)

\* One line of the block from the string repeated Width times.
GLine ==
  /\ port = "ganszky" /\ pc = "fill" /\ left > 0
  /\ buffer' = buffer \o Copy(offset, Width) \o (IF left > 1 THEN <<0>> ELSE <<>>)
  /\ offset' = offset + Width
  /\ left' = left - 1
  /\ UNCHANGED <<input, pc, output>>

aluSize == Len(buffer) + 1

\* The block has no terminating zero (blockNl) but is read as a C string: the byte
\* behind it is taken to be a zero, as in memory that was never used.
GFilled ==
  /\ port = "ganszky" /\ pc = "fill" /\ left = 0
  /\ left' = Bytes
  /\ pc' = IF Bytes > aluSize THEN "repeat" ELSE "rest"
  /\ UNCHANGED <<input, offset, buffer, output>>

\* The loop of aluLen/aluSize turns, and what it leaves of aluLen.
GRepeat ==
  /\ port = "ganszky" /\ pc = "repeat"
  /\ IF left >= aluSize
     THEN output' = output \o buffer \o <<0>> /\ left' = left - aluSize /\ UNCHANGED pc
     ELSE pc' = "rest" /\ UNCHANGED <<output, left>>
  /\ UNCHANGED <<input, offset, buffer>>

GRest ==
  /\ port = "ganszky" /\ pc = "rest"
  /\ LET aluLen == IF number % Width = 0 THEN left - 1 ELSE left
     IN  output' = IF aluLen > 0 THEN output \o SubSeq(buffer, 1, aluLen) \o <<0>>
                   ELSE output
  /\ pc' = "done"
  /\ UNCHANGED <<input, offset, left, buffer>>

-----------------------------------------------------------------------------
(* repeat_And_Wrap_String and generate_And_Wrap_Pseudorandom_DNA_Sequence of *)
(* fasta-lemire.                                                             *)

Lemire == port \in {"lemire", "random"}

\* The line does not fit: print the buffer first.
Full == Len(buffer) + line_Length + 1 >= BufferSize

Letters == IF port = "lemire" THEN Copy(Advance(line_Length), line_Length)
           ELSE [i \in 1..line_Length |-> number - left + i]

LLine ==
  /\ Lemire /\ pc = "fill" /\ left > 0
  /\ output' = IF Full THEN output \o buffer ELSE output
  /\ buffer' = (IF Full THEN <<>> ELSE buffer) \o Letters \o <<0>>
  /\ offset' = IF port = "lemire" THEN Advance(line_Length) ELSE offset
  /\ left' = left - line_Length
  /\ UNCHANGED <<input, pc>>

LEnd ==
  /\ Lemire /\ pc = "fill" /\ left = 0
  /\ output' = output \o buffer
  /\ pc' = "done"
  /\ UNCHANGED <<input, offset, left, buffer>>

-----------------------------------------------------------------------------
TextNext ==
  \/ CLine \/ CFilled \/ CRepeat \/ CRest
  \/ GLine \/ GFilled \/ GRepeat \/ GRest
  \/ LLine \/ LEnd
  \/ pc = "done" /\ UNCHANGED TextVars

TextSpec == TextInit /\ [][TextNext]_TextVars

-----------------------------------------------------------------------------
(* Properties. *)

\* The letters in lines of Width, the k-th of them Letter(k).
Wrapped(Letter(_)) ==
  LET bytes == number + (number + Width - 1) \div Width
  IN  [p \in 1..bytes |-> IF p = bytes \/ p % (Width + 1) = 0 THEN 0
                          ELSE Letter(p - (p \div (Width + 1)))]

Repeated(k) == ((k - 1) % len) + 1
\* The length of the line of letter k.
LineOf(k)   == IF k > number - (number % Width) THEN number % Width ELSE Width

\* What the programs print in the end.  The string is repeated from its first
\* letter on by two of them; the one in C ends with an empty line when number
\* fills its lines, unless it ended with the buffer.  fasta-lemire moves on in the string
\* before it copies a line, so that each line shows the letters that should follow it.
PrintsTheLetters ==
  pc = "done" =>
    output =
      CASE port = "ganszky" -> Wrapped(Repeated)
        [] port = "random"  -> Wrapped(LAMBDA k : k)
        [] port = "lemire"  -> Wrapped(LAMBDA k : Repeated(k + LineOf(k)))
        [] port = "c"       -> Wrapped(Repeated) \o
             (IF number % Width = 0 /\ (number \div Width) % len # 0 THEN <<0>> ELSE <<>>)

\* Copies stay within the extended string and the buffers within what was
\* allocated for them, a terminating zero included in C.
InBounds ==
  /\ port \in {"c", "lemire"} => offset <= len
  /\ port = "c" => Len(buffer) + 1 <= len * Width + len + 1
  /\ Lemire => Len(buffer) <= BufferSize

=============================================================================
