-------------------------- MODULE MCChunkBoundaries --------------------------
(* Small instances of ChunkBoundaries for TLC. *)
EXTENDS ChunkBoundaries, SequencesExt

CONSTANTS MaxChars, MaxTokens

\* The marker hierarchy without its two rulers, which only differ in their name.
Hierarchy == <<<<"nl", "nl">>, <<"nl">>, <<".">>>>

\* Every text of a few characters.
Short == UNION {[1..n -> {"w", " ", "nl", "."}] : n \in 0..MaxChars}

\* Longer texts, made of words with their separators.
Tokens == {<<"w", " ">>, <<"w", ".", " ">>, <<"w", "tab">>, <<"w", "nl", "nl">>,
           <<"w", "w", "w", "w", "w", "w", "w", " ">>}
Long ==
    LET Flat(s) == FoldSeq(LAMBDA token, rest : token \o rest, <<>>, s)
    IN  {Flat(s) : s \in UNION {[1..n -> Tokens] : n \in 0..MaxTokens}}

\* Texts of even words, the last one possibly with a full stop.
Rows == {[i \in 1..((n + 1) * k - 1) |-> IF i % (n + 1) = 0 THEN " "
                                         ELSE IF i % (n + 1) = n /\ i \div (n + 1) \in S THEN "."
                                         ELSE "w"] :
            n \in 1..3, k \in 1..7, S \in SUBSET {1, 2, 4}}

\* One-letter words and a long one after them, which makes the first chunk so rich in
\* words that its repeated part fills the hard limit: the loop goes back.
Lopsided == {[i \in 1..(2 * n + g + k) |-> IF i > 2 * n + g THEN " "
                                           ELSE IF i <= 2 * n /\ i % 2 = 0 THEN sep ELSE "w"] :
                n \in 1..7, g \in {5, 11, 13, 19, 41}, k \in 0..1, sep \in {" ", "nl"}}

Samples == Short \cup Long \cup Rows \cup Lopsided

\* A body (with overlap), a title (without), a chunk type of a larger limit, and one
\* whose overlap is half a chunk.
Body == [target |-> 2, hard |-> 3, overlap |-> <<1, 3>>]
Title == [target |-> 2, hard |-> 3, overlap |-> <<0, 1>>]
Analysis == [target |-> 3, hard |-> 4, overlap |-> <<1, 4>>]
Narrow == [target |-> 2, hard |-> 2, overlap |-> <<1, 2>>]
Strategies == {Body, Title, Analysis, Narrow}
Fifth == <<1, 5>>
=============================================================================
