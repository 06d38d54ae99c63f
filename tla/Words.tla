-------------------------------- MODULE Words --------------------------------
(***************************************************************************)
(* How the shell splits a command line: countWords, wordLen and getWord of *)
(* string.c.  The characters of a line are numbered from 0 as in the       *)
(* source: At(line, i) is str[i].  All three loops look at i and i + 1 for *)
(* i < strlen(str) - 1, so that they never ask whether the last character  *)
(* is a blank, and find no word in a line of one character.  What getWord  *)
(* then copies lies in front of the line and is left out: GetWord is used  *)
(* for the words that countWords counts.                                   *)
(***************************************************************************)
EXTENDS Integers, Sequences, FiniteSetsExt

CONSTANT Separator     \* the blank

At(line, i) == line[i + 1]
Scanned(line) == 0 .. Len(line) - 2

(* Where the loops begin a word. *)
StartsAfterBlank(line) ==
    {i + 1 : i \in {j \in Scanned(line) : At(line, j) = Separator /\ At(line, j + 1) # Separator}}
WordStarts(line) ==
    {i \in Scanned(line) : i = 0 /\ At(line, 0) # Separator} \cup StartsAfterBlank(line)

CountWords(line) == Cardinality(WordStarts(line))

WordStart(line, idx) ==
    CHOOSE s \in WordStarts(line) : Cardinality({t \in WordStarts(line) : t < s}) = idx

(* The place behind the word: the first blank that the loop meets. *)
WordEnd(line, start) ==
    LET blanks == {i \in Scanned(line) : i > start /\ At(line, i) = Separator}
    IN  IF blanks = {} THEN Len(line) ELSE Min(blanks)

GetWord(line, idx) ==
    LET start == WordStart(line, idx)
    IN  SubSeq(line, start + 1, WordEnd(line, start))

-----------------------------------------------------------------------------
(* The words of a line are its longest runs without a blank, in order; all *)
(* of them are found, whole, except that a line of one character has none  *)
(* and that a single blank at the end belongs to the word in front of it.  *)
TrueStarts(line) ==
    {s \in 1 .. Len(line) : line[s] # Separator /\ (s > 1 => line[s - 1] = Separator)}
TrueEnd(line, s) ==
    CHOOSE e \in s .. Len(line) :
        /\ \A i \in s .. e : line[i] # Separator
        /\ e < Len(line) => line[e + 1] = Separator
TrueWords(line) ==
    LET starts == CHOOSE e \in [1 .. Cardinality(TrueStarts(line)) -> TrueStarts(line)] :
                      \A j, k \in DOMAIN e : j < k => e[j] < e[k]
    IN  [k \in DOMAIN starts |-> SubSeq(line, starts[k], TrueEnd(line, starts[k]))]

LastWordKeepsBlank(line) ==
    Len(line) > 1 /\ line[Len(line)] = Separator /\ line[Len(line) - 1] # Separator

SplitsIntoWords(line) ==
    LET found == [k \in 1 .. CountWords(line) |-> GetWord(line, k - 1)]
        words == TrueWords(line)
    IN  IF Len(line) = 1 THEN found = << >>
        ELSE IF LastWordKeepsBlank(line)
             THEN found = [words EXCEPT ![Len(words)] = Append(@, Separator)]
             ELSE found = words
=============================================================================
