--------------------------- MODULE ChunkBoundaries ---------------------------
(***************************************************************************)
(* chunk_at_boundaries: the loop that cuts a post's text into chunks for   *)
(* the embedding models.  Limits are counted in words, positions are       *)
(* characters: the loop converts one to the other with the average length  *)
(* of a word in the rest of the text, and searches a break marker there.   *)
(*                                                                         *)
(* A position is 0-based and an interval <<a, b>> excludes b, as a slice   *)
(* does.  A character is its class: a letter, a space, a tab, a newline or *)
(* a full stop.  The text is the one after the normalisation of escape     *)
(* sequences.  Every configuration in use starts at offset 0.              *)
(*                                                                         *)
(* Where the words to repeat are more than the hard limit, the loop goes   *)
(* back, and the cursor may become negative: a slice then counts from the  *)
(* end of the text, an index too, and too far back raises IndexError.      *)
(***************************************************************************)
EXTENDS Integers, FiniteSets, FiniteSetsExt, Sequences

CONSTANTS
    Texts,          \* the texts to cut, sequences of characters
    Configs,        \* ChunkConfig: target, hard limit, overlap as a fraction
    Markers,        \* MARKERS, each a sequence of characters, preferred first
    Tolerance,      \* chunk_size_tolerance, as a fraction
    MinTarget,      \* the literal 10 of effective_target
    MinSlack,       \* the literal 30 of slack
    NoBreak,        \* None
    MaxChunks       \* bound of the model on the list: the loop may never end

Characters == {"w", " ", "tab", "nl", "."}

\* The least window starts at least one character after the cursor, as 80 % of
\* 10 words of at least one character does.
ASSUME ChunkAssumption ==
    /\ \A t \in Texts : t \in Seq(Characters)
    /\ Markers \in Seq(Seq(Characters))
    /\ \A c \in Configs :
           /\ c.target \in Nat \ {0} /\ c.hard \in Nat \ {0}
           /\ c.overlap[1] \in Nat /\ c.overlap[2] \in Nat \ {0}
           /\ c.overlap[1] < c.overlap[2]
    /\ Tolerance[1] \in Nat /\ Tolerance[2] \in Nat \ {0}
    /\ Tolerance[1] <= Tolerance[2] /\ MinTarget \in Nat
    /\ MinTarget * (Tolerance[2] - Tolerance[1]) >= Tolerance[2]
    /\ MinSlack \in Nat
    /\ NoBreak \notin Nat
    /\ MaxChunks \in Nat

VARIABLES
    text,
    config,         \* the strategy of the chunk type
    cursor,
    prev,           \* prev_chunk_text, an interval of the text
    chunks,         \* per chunk: the interval repeated before it, and its own
    pc

vars == <<text, config, cursor, prev, chunks, pc>>

Least(m, n) == IF m < n THEN m ELSE n
Most(m, n) == IF m < n THEN n ELSE m

Size == Len(text)
Char(i) == text[i + 1]
IsSpace(i) == Char(i) \in {" ", "tab", "nl"}
Letters(a, b) == {i \in a..(b - 1) : ~ IsSpace(i)}

\* Where a slice that is given the position i begins or ends, and the place of
\* the character that an index i names.
Bound(i) == IF i >= 0 THEN Least(i, Size) ELSE Most(0, Size + i)
At(i) == IF i >= 0 THEN i ELSE Size + i

\* Mutant of Strip: the end one character too far.
StripPast(a, b) ==
    IF Letters(a, b) = {} THEN <<a, a>> ELSE <<Min(Letters(a, b)), Max(Letters(a, b)) + 2>>

\* str.strip of a slice
Strip(a, b) ==
    IF Letters(a, b) = {} THEN <<a, a>> ELSE <<Min(Letters(a, b)), Max(Letters(a, b)) + 1>>

\* The words of str.split, by their first position; word_count is their number.
Words(a, b) == {i \in Letters(a, b) : i = a \/ IsSpace(i - 1)}
WordCount(a, b) == Cardinality(Words(a, b))

\* int() of a quotient: rounds towards zero.
Truncate(n, d) == IF n >= 0 THEN n \div d ELSE - ((- n) \div d)

Distance(m, n) == Most(m - n, n - m)

-----------------------------------------------------------------------------
(* The helpers. *)

\* The positions right after each occurrence of the marker in a slice.
FindBreaks(a, b, marker) ==
    {p \in (a + Len(marker))..b : SubSeq(text, p - Len(marker) + 1, p) = marker}

\* The first marker of the hierarchy with a break in the window wins, with its
\* break closest to the target; the earlier one of two.
NearestBreak(a, b, target, lo, hi) ==
    LET In(m) == FindBreaks(a, b, Markers[m]) \cap lo..hi
        Best == {m \in DOMAIN Markers : In(m) # {}}
    IN  IF Best = {} THEN NoBreak
        ELSE CHOOSE p \in In(Min(Best)) :
                \A q \in In(Min(Best)) :
                    \/ Distance(p, target) < Distance(q, target)
                    \/ Distance(p, target) = Distance(q, target) /\ p <= q

\* The end of the word that completes the fraction, of the first one at least.
CharForWordFraction(a, b, num, den) ==
    LET count == Most(1, (WordCount(a, b) * num) \div den)
    IN  Min({b} \cup {p \in (a + 1)..b : WordCount(a, p) = count /\ IsSpace(p)})

-----------------------------------------------------------------------------
(* One iteration of the loop. *)

\* Where the rest of the text begins, remaining.
Here == Bound(cursor)

Overlaps == config.overlap[1] > 0 /\ prev[1] < prev[2]

\* The tail of the previous chunk that the next one repeats: from a marker near
\* the end, or else its last words.
OverlapPrefix ==
    LET a == prev[1]
        b == prev[2]
        num == config.overlap[1]
        den == config.overlap[2]
        start == CharForWordFraction(a, b, den - num, den)
        slack == Most(MinSlack, (b - a) \div 10)
        snap == NearestBreak(a, b, start, Most(a, start - slack), Least(b, start + slack))
        count == Most(1, (WordCount(a, b) * num) \div den)
    IN  IF ~ Overlaps THEN <<0, 0>>
        ELSE IF snap # NoBreak THEN Strip(snap, b)
        ELSE <<CHOOSE i \in Words(a, b) : WordCount(i, b) = count, b>>

OverlapWords == WordCount(OverlapPrefix[1], OverlapPrefix[2])
RemainingWords == WordCount(Here, Size)

\* As many characters as so many words (a fraction) take on average.
Chars(num, den) == Truncate(num * (Size - Here), den * Most(1, RemainingWords))

\* Mutant of EffectiveTarget: no lower bound.
EffectiveTargetUnbounded == config.target - OverlapWords

EffectiveTarget == Most(MinTarget, config.target - OverlapWords)

\* The break in the window around the target, as far as the hard limit allows.
BreakPos ==
    LET lo == Chars(EffectiveTarget * (Tolerance[2] - Tolerance[1]), Tolerance[2])
        hi == Chars(Least(EffectiveTarget * (Tolerance[2] + Tolerance[1]),
                          (config.hard - OverlapWords) * Tolerance[2]), Tolerance[2])
    IN  NearestBreak(0, Size, cursor + Chars(EffectiveTarget, 1),
                     cursor + lo, cursor + Least(hi, Size - Here))

HardChars == Chars(config.hard - OverlapWords, 1)

\* The ends that the search for a space goes through, from the last one down:
\* none when the overlap fills the limit.
Candidates == (cursor + 1)..(cursor + Least(HardChars, Size - Here))
Spaces == {p \in Candidates : At(p - 1) >= 0 /\ Char(At(p - 1)) \in {" ", "nl"}}

\* The last space or newline within the hard limit; in the middle of a word if
\* there is none.
HardSplit == IF Spaces # {} THEN Max(Spaces) ELSE cursor + HardChars

\* The search runs off the beginning of the text.
OutOfRange == Spaces = {} /\ \E p \in Candidates : At(p - 1) < 0

\* A chunk is appended unless it is empty.
Emit(raw) ==
    chunks' = IF OverlapWords = 0 /\ raw[1] = raw[2] THEN chunks
              ELSE Append(chunks, [prefix |-> OverlapPrefix, raw |-> raw])

Init ==
    /\ text \in Texts
    /\ config \in Configs
    /\ cursor = 0
    /\ prev = <<0, 0>>
    /\ chunks = <<>>
    /\ pc = IF Size = 0 THEN "done" ELSE "loop"

\* Mutant of Fits: the overlap prefix is not counted.
FitsRemaining == RemainingWords <= config.hard

Fits == OverlapWords + RemainingWords <= config.hard

\* The loop goes on.
Iterate == pc = "loop" /\ Len(chunks) < MaxChunks

\* Everything that is left fits: the last chunk.
FinalChunk ==
    /\ Iterate
    /\ Fits
    /\ Emit(Strip(Here, Size))
    /\ pc' = "done"
    /\ UNCHANGED <<text, config, cursor, prev>>

\* Mutants of Cut: the next chunk starts after the separator that is expected
\* there; it starts one character early.
CutSkipping(end) ==
    /\ Emit(Strip(Here, Bound(end)))
    /\ prev' = Strip(Here, Bound(end))
    /\ cursor' = end + 1
    /\ pc' = IF end + 1 < Size THEN "loop" ELSE "done"
    /\ UNCHANGED <<text, config>>

CutEarly(end) ==
    /\ Emit(Strip(Here, Bound(end)))
    /\ prev' = Strip(Here, Bound(end))
    /\ cursor' = end - 1
    /\ pc' = IF end - 1 < Size THEN "loop" ELSE "done"
    /\ UNCHANGED <<text, config>>

\* A chunk up to the position, which becomes the cursor.  The chunk is empty but
\* for its prefix when the position is not after the cursor.
Cut(end) ==
    /\ Emit(Strip(Here, Bound(end)))
    /\ prev' = Strip(Here, Bound(end))
    /\ cursor' = end
    /\ pc' = IF end < Size THEN "loop" ELSE "done"
    /\ UNCHANGED <<text, config>>

CutAtBreak ==
    /\ Iterate
    /\ ~ Fits
    /\ BreakPos # NoBreak
    /\ Cut(BreakPos)

CutHard ==
    /\ Iterate
    /\ ~ Fits
    /\ BreakPos = NoBreak
    /\ ~ OutOfRange
    /\ Cut(HardSplit)

\* text[end - 1] with an end before the text.
IndexError ==
    /\ Iterate
    /\ ~ Fits
    /\ BreakPos = NoBreak
    /\ OutOfRange
    /\ pc' = "failed"
    /\ UNCHANGED <<text, config, cursor, prev, chunks>>

Next == FinalChunk \/ CutAtBreak \/ CutHard \/ IndexError

Spec == Init /\ [][Next]_vars

-----------------------------------------------------------------------------
Intervals == (0..Size) \X (0..Size)
Chunk == [prefix : Intervals, raw : Intervals]

TypeOK ==
    /\ text \in Texts
    /\ config \in Configs
    /\ cursor \in Int
    /\ prev \in Intervals
    /\ chunks \in Seq(Chunk)
    /\ pc \in {"loop", "done", "failed"}

\* Where the text has been cut so far.
Reached == IF pc = "done" THEN Size ELSE Here

\* No letter of the text is lost: each one before the cursor is in a chunk, also
\* after the loop has gone back, and when it ends every letter is.
NothingLost ==
    Letters(0, Reached) \subseteq
        UNION {Letters(chunks[k].raw[1], chunks[k].raw[2]) : k \in DOMAIN chunks}

\* Some chunk began with so many repeated words that they fill the hard limit.
Filled ==
    \E k \in DOMAIN chunks :
        WordCount(chunks[k].prefix[1], chunks[k].prefix[2]) >= config.hard

\* Unless the repeated words have filled the hard limit, no letter is cut twice:
\* apart from the repeated prefixes the chunks follow each other in the text.
CutOnce ==
    \/ Filled
    \/ \A j, k \in DOMAIN chunks : j < k => chunks[j].raw[2] <= chunks[k].raw[1]

\* The loop stays where it is or goes back in one case only: the repeated words
\* alone fill the hard limit.  Rounding, the marker window and the lower bound of
\* the target never keep it from advancing by themselves.
StallsOnlyWhenFull ==
    [][pc' = "loop" /\ cursor' <= cursor => OverlapWords >= config.hard]_vars

\* Words of one length with one separator between them, and markers that only end
\* where a word or a separator does.
Even ==
    LET Gaps == {i \in 0..(Size - 1) : IsSpace(i)}
        Breaks == UNION {FindBreaks(0, Size, Markers[m]) : m \in DOMAIN Markers}
    IN  \E n \in 1..Size :
            /\ Gaps = {i \in 0..(Size - 1) : i % (n + 1) = n}
            /\ (Size + 1) % (n + 1) = 0
            /\ \A p \in Breaks : p = Size \/ IsSpace(p) \/ IsSpace(p - 1)

ChunkWords(chunk) ==
    WordCount(chunk.prefix[1], chunk.prefix[2]) + WordCount(chunk.raw[1], chunk.raw[2])

\* The module's parameters: "hard_limit: absolute maximum words per chunk before
\* a forced split".
WithinHardLimit == \A k \in DOMAIN chunks : ChunkWords(chunks[k]) <= config.hard

\* The hard limit is kept, the repeated words included, where every word is as
\* long as the average.
EvenTextWithinLimit == Even => WithinHardLimit
=============================================================================
