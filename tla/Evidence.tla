------------------------------- MODULE Evidence -------------------------------
\* Is a quote in what was said?  The worker's answer (src/app/text_utils.py,
\* src/app/scoring.py) and the screen's own search, highlight and hint
\* (src/frontend/src/lib/evidence.ts, features/interviews/Transcript.tsx and
\* EvidenceBadge.tsx).  A text is a sequence of characters.
EXTENDS Cases, Integers, SequencesExt

CONSTANTS
    Chars,       \* some of "a", "b", "A", "a'" (an accented a), "^" (a combining mark), ".", "!", " "
    MaxText,     \* the longest transcript
    MAX_WINDOWS, \* how many windows the hint compares
    DANGLING     \* the longest fragment of a sentence the hint drops

ASSUME EvidenceAssumption == MaxText \in Nat /\ MAX_WINDOWS \in Nat \ {0} /\ DANGLING \in Nat

-------------------------------------------------------------------------------
(* The worker: clean_text and the exact half of validate_evidence. *)

\* str.lower() and NFD without its marks; "^" is only a mark.
Lowered(c) == IF c \in {"A", "a'"} THEN "a" ELSE c
IsMark(c) == c = "^"
IsPunctuation(c) == c \in {".", "!"}

LowerCase(text) == [i \in DOMAIN text |-> Lowered(text[i])]
WithoutMarks(text) == Only(text, {i \in DOMAIN text : ~IsMark(text[i])})

\* re.sub puts blanks for the punctuation.
WithoutPunctuation(text) == [i \in DOMAIN text |-> IF IsPunctuation(text[i]) THEN " " ELSE text[i]]

\* split and join keep one blank of each run of them between words.
WithSingleBlanks(text) ==
    Only(text, {i \in DOMAIN text :
                    text[i] # " " \/ (/\ i > 1 /\ text[i - 1] # " "
                                      /\ \E j \in DOMAIN text : j > i /\ text[j] # " ")})

CleanText(text) == WithSingleBlanks(WithoutPunctuation(WithoutMarks(LowerCase(text))))

\* Where a text first holds another, 0 when it does not.
IndexOf(needle, text) ==
    LET found == {k \in 1 .. Len(text) - Len(needle) + 1 : SubSeq(text, k, k + Len(needle) - 1) = needle}
    IN  IF found = {} THEN 0 ELSE Min(found)

\* ConsolidateTranscript joins the texts with a blank.
Joined(texts) ==
    LET separator(n) == IF n = 1 THEN <<>> ELSE <<" ">>
        joined[n \in 0 .. Len(texts)] == IF n = 0 THEN <<>> ELSE joined[n - 1] \o separator(n) \o texts[n]
    IN  joined[Len(texts)]

\* partial_ratio is rapidfuzz's: whether it reaches the threshold is an input.
ValidateEvidence(quote, texts, similar) ==
    LET cleanQuote == CleanText(quote)
        cleanTranscript == CleanText(Joined(texts))
    IN  /\ cleanQuote # <<>> /\ cleanTranscript # <<>>
        /\ IndexOf(cleanQuote, cleanTranscript) # 0 \/ similar

-------------------------------------------------------------------------------
(* The screen: the same cleaning, remembering where each character was. *)

Emitted(c) == IF IsPunctuation(c) THEN " " ELSE Lowered(c)

\* A run of blanks and punctuation leaves one blank, at its first character,
\* and none at the ends; a mark is as if it was not there.
\* mutant: every blank is kept
SurvivesEvenBlank(text, i) == ~IsMark(text[i])
Survives(text, i) ==
    LET before == {j \in 1 .. i - 1 : ~IsMark(text[j])}
    IN  /\ ~IsMark(text[i])
        /\ Emitted(text[i]) = " " => /\ before # {} /\ Emitted(text[Max(before)]) # " "
                                    /\ \E j \in i + 1 .. Len(text) : ~IsMark(text[j]) /\ Emitted(text[j]) # " "

NormalizeWithMap(text) ==
    LET map == Ascending({i \in DOMAIN text : Survives(text, i)})
    IN  [text |-> [k \in DOMAIN map |-> Emitted(text[map[k]])], map |-> map]

\* null.
Nowhere == [start |-> 0, end |-> 0]

\* The first and last character of the quote in the text as it was.
LocateQuote(quote, transcript) ==
    LET needle == NormalizeWithMap(quote).text
        haystack == NormalizeWithMap(transcript)
        at == IndexOf(needle, haystack.text)
    IN  IF needle = <<>> \/ at = 0 THEN Nowhere
        ELSE [start |-> haystack.map[at], end |-> haystack.map[at + Len(needle) - 1]]

\* The row of one character of a, from the row of the one before.
LcsRow(c, b, previous) ==
    LET current[j \in 0 .. Len(b)] ==
            IF j = 0 THEN 0
            ELSE IF c = b[j] THEN previous[j - 1] + 1
            ELSE LET up == previous[j] left == current[j - 1]
                 IN  IF up > left THEN up ELSE left
    IN  current

LcsLength(a, b) ==
    LET rows[i \in 0 .. Len(a)] == IF i = 0 THEN [j \in 0 .. Len(b) |-> 0] ELSE LcsRow(a[i], b, rows[i - 1])
    IN  rows[Len(a)][Len(b)]

IsWord(c) == ~IsMark(c) /\ ~IsPunctuation(c) /\ c # " "

\* Out to whole words on both sides.
Widened(text, span) ==
    [start |-> Min({s \in 1 .. span.start : \A k \in s .. span.start - 1 : IsWord(text[k])}),
     end |-> Max({e \in span.end .. Len(text) : \A k \in span.end + 1 .. e : IsWord(text[k])})]

\* A short piece of the sentence after, then of the sentence before, is dropped.
\* The code looks for ". " and "? " at the end and for "!" too at the start.
Trimmed(text, span) ==
    LET stops(marks) == {k \in span.start .. span.end - 1 : text[k] \in marks /\ text[k + 1] = " "}
        after == stops({"."})
        end == IF after # {} /\ span.end - Max(after) - 1 <= DANGLING THEN Max(after) ELSE span.end
        before == {k \in stops({".", "!"}) : k < end}
        start == IF before # {} /\ Min(before) - span.start + 1 <= DANGLING THEN Min(before) + 2
                 ELSE span.start
    IN  [start |-> start, end |-> end]

\* Where the windows begin: at 0 and every stride on.
WindowStarts(last) ==
    LET stride == Max({1, (last + MAX_WINDOWS) \div MAX_WINDOWS})
    IN  {o \in 0 .. last : o % stride = 0}

\* The window most like the quote, the first of equals; null when there is
\* nothing to compare.
ClosestPassage(quote, transcript) ==
    LET needle == NormalizeWithMap(quote).text
        haystack == NormalizeWithMap(transcript)
        size == Min({Len(needle), Len(haystack.text)})
        common == [o \in WindowStarts(Len(haystack.text) - size) |->
                        LcsLength(needle, SubSeq(haystack.text, o + 1, o + size))]
        best == Min({o \in DOMAIN common : \A p \in DOMAIN common : common[o] >= common[p]})
    IN  IF needle = <<>> \/ haystack.text = <<>> THEN Nowhere
        ELSE Trimmed(transcript, Widened(transcript, [start |-> haystack.map[best + 1],
                                                      end |-> haystack.map[best + size]]))

-------------------------------------------------------------------------------
(* The reader: the fala a quote is highlighted in, and the badge beside it. *)

\* buildTurns leaves out the texts that are blank; no turns is no transcript.
BuildTurns(texts) == Only(texts, {k \in DOMAIN texts : \E i \in DOMAIN texts[k] : texts[k][i] # " "})
TranscriptText(texts) == Joined(BuildTurns(texts))

\* The first turn that holds the whole quote, 0 when none does.
HighlightIndex(quote, turns) ==
    LET holding == {i \in DOMAIN turns : LocateQuote(quote, turns[i]) # Nowhere}
    IN  IF holding = {} THEN 0 ELSE Min(holding)

\* A flagged quote is shown with the nearest passage, a verified one with a link
\* when the screen finds it too.
EvidenceBadge(verified, quote, transcript) ==
    [alarm |-> verified = "no",
     nearest |-> IF verified = "no" /\ transcript # <<>> THEN ClosestPassage(quote, transcript) ELSE Nowhere,
     link |-> verified = "yes" /\ transcript # <<>> /\ LocateQuote(quote, transcript) # Nowhere]

-------------------------------------------------------------------------------
(* The calls considered. *)

Texts(n) == BoundedSeq(Chars, n)
Quotes == {<<>>, <<".">>, <<"A", "^">>, <<"b", "a">>, <<"a", " ", "b">>}
QuoteCalls ==
    [kind : {"quote"}, transcript : Texts(MaxText), quote : Quotes]
        \cup [kind : {"quote"}, transcript : TupleOf({"a", "b", ".", " "}, MaxText + 1), quote : {<<"b", "a">>}]
        \cup [kind : {"quote"}, transcript : TupleOf({"a", ".", " "}, 2 * MaxText), quote : {<<"a", " ", "b", " ", "a">>}]
TurnCalls == [kind : {"turns"}, texts : Texts(2) \X Texts(1), quote : Quotes]

-------------------------------------------------------------------------------
(* What must hold. *)

\* The screen finds a quote exactly when the worker's exact rule does, and what
\* it marks reads, cleaned, as the quote does (lib/evidence.ts:76-92 "exactly the
\* condition that makes the backend flag", src/app/text_utils.py:5-25).
MarkedIsTheQuote ==
    input.kind = "quote" =>
        LET at == LocateQuote(input.quote, input.transcript)
        IN  /\ at # Nowhere <=> ValidateEvidence(input.quote, <<input.transcript>>, FALSE)
            /\ at # Nowhere =>
                    CleanText(SubSeq(input.transcript, at.start, at.end)) = CleanText(input.quote)

\* The passage offered beside an alarm is a piece of the transcript that starts and
\* ends with whole words, whatever was dropped from it, and has a word in it
\* (lib/evidence.ts:150-168 "a hint a person has to read should start and end on
\* whole words").  Not so when a sentence was cut off after it: what is left may
\* then be nothing but punctuation, as of "a. . b", which leaves the second stop.
PassageIsReadable ==
    input.kind = "quote" =>
        LET text == input.transcript
            near == ClosestPassage(input.quote, text)
            cut(k) == k > 0 /\ k < Len(text) /\ IsWord(text[k]) /\ IsWord(text[k + 1])
            cutOff == near.end < Len(text) /\ text[near.end] = "." /\ text[near.end + 1] = " "
        IN  near # Nowhere =>
                /\ 1 <= near.start /\ near.start <= near.end /\ near.end <= Len(text)
                /\ ~cut(near.start - 1) /\ ~cut(near.end)
                /\ ~cutOff => \E k \in near.start .. near.end : IsWord(text[k])

\* A quote the worker flags is in no turn of the reader, and a turn that is
\* highlighted holds the quote
\* (features/interviews/Transcript.tsx:41-46, EvidenceBadge.tsx:27-35).
FlaggedIsNowhereToBeRead ==
    input.kind = "turns" =>
        LET turns == BuildTurns(input.texts)
            verdict == IF ValidateEvidence(input.quote, input.texts, FALSE) THEN "yes" ELSE "no"
            badge == EvidenceBadge(verdict, input.quote, TranscriptText(input.texts))
            shown == HighlightIndex(input.quote, turns)
        IN  /\ badge.alarm => shown = 0
            /\ shown # 0 => badge.link /\ IndexOf(CleanText(input.quote), CleanText(turns[shown])) # 0

\* What the worker verifies, what the badge says of it and what the reader marks
\* are about the same words.
QuotesAreRead == MarkedIsTheQuote /\ PassageIsReadable /\ FlaggedIsNowhereToBeRead
===============================================================================
