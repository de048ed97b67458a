-------------------------------- MODULE Speech --------------------------------
\* From a recording to the dialogue that is scored: the three transcription
\* drivers and the diarizer of src/app/audio_processor.py, the merge of what
\* they return, and the passthrough of src/app/services.py.
EXTENDS Cases, Integers, SequencesExt

CONSTANTS
    SpeechTexts,  \* what a segment may say; "" and " " say nothing
    Speakers,     \* the labels a diarizer gives
    Horizon       \* the last instant of a recording

ASSUME SpeechAssumption == Horizon \in Nat /\ Speakers \subseteq STRING /\ "UNKNOWN" \notin Speakers

-------------------------------------------------------------------------------
(* What a call returns or raises. *)

Returns(segments) == [raised |-> "nothing", segments |-> segments]
Raises(error) == [raised |-> error, segments |-> <<>>]

\* str.strip(), of texts that are blank or have no blanks at their ends.
Strip(text) == IF text = " " THEN "" ELSE text

\* A driver's segments, without the blanks around them.
Formatted(segments) ==
    [i \in DOMAIN segments |-> [text |-> Strip(segments[i].text),
                                start |-> segments[i].start, end |-> segments[i].end]]

\* WhisperX aligns what Whisper heard; when the alignment fails, the unaligned
\* segments are used.
LocalTranscribe(installed, segments, alignment) ==
    IF ~installed THEN Raises("TranscriptionDependencyError")
    ELSE Returns(Formatted(IF alignment.raised = "nothing" THEN alignment.segments ELSE segments))

\* The SDK may leave out the segments of a response, which is no segments.
OpenAITranscribe(key, segments) ==
    IF ~key THEN Raises("TranscriptionDependencyError") ELSE Returns(Formatted(segments))

\* Deepgram numbers the speakers of its utterances, or does not say.  A
\* transcript without utterances is an answer it should not give.
DeepgramTranscribe(key, status, utterances, transcript) ==
    CASE ~key -> Raises("TranscriptionDependencyError")
      [] key /\ status # 200 -> Raises("HTTPStatusError")
      [] key /\ status = 200 /\ utterances = <<>> /\ transcript # "" -> Raises("ValueError")
      [] OTHER -> Returns([i \in DOMAIN utterances |->
                    [text |-> Strip(utterances[i].text), start |-> utterances[i].start,
                     end |-> utterances[i].end,
                     speaker |-> IF utterances[i].speaker = "" THEN "UNKNOWN"
                                 ELSE utterances[i].speaker]])

\* Either shape pyannote answers in holds the same turns.
Diarizer(installed, token, loaded, turns) ==
    CASE ~installed -> Raises("TranscriptionDependencyError")
      [] installed /\ ~token -> Raises("TranscriptionDependencyError")
      [] installed /\ token /\ ~loaded -> Raises("ValueError")
      [] OTHER -> Returns(turns)

-------------------------------------------------------------------------------
(* merge_transcription_and_diarization *)

Least(a, b) == IF a <= b THEN a ELSE b
Greatest(a, b) == IF a >= b THEN a ELSE b

\* mutant: touching counts as overlapping, one instant is added
OverlapInclusive(a, b) == Greatest(0, Least(a.end, b.end) - Greatest(a.start, b.start) + 1)
Overlap(a, b) == Greatest(0, Least(a.end, b.end) - Greatest(a.start, b.start))

\* The overlaps of a segment with all the turns of a speaker, added up.
SpeakerOverlap(segment, turns, speaker) ==
    LET upTo[n \in 0 .. Len(turns)] ==
            IF n = 0 THEN 0
            ELSE upTo[n - 1] + (IF turns[n].speaker = speaker THEN Overlap(segment, turns[n]) ELSE 0)
    IN  upTo[Len(turns)]

\* max over a dict filled in the order of the turns: among equals, the speaker
\* who overlaps first.
BestSpeaker(segment, turns) ==
    LET over == {i \in DOMAIN turns : Overlap(segment, turns[i]) > 0}
        most == {i \in over : \A j \in over : SpeakerOverlap(segment, turns, turns[i].speaker)
                                                >= SpeakerOverlap(segment, turns, turns[j].speaker)}
    IN  IF over = {} THEN "UNKNOWN" ELSE turns[Min(most)].speaker

\* list.sort is stable.
ByStart(segments) == SortedBy(segments, [i \in DOMAIN segments |-> segments[i].start])

Merge(segments, turns) ==
    ByStart([i \in DOMAIN segments |->
        [speaker |-> BestSpeaker(segments[i], turns), text |-> segments[i].text,
         start |-> segments[i].start, end |-> segments[i].end]])

\* diarize_audio: segments that all carry a speaker are passed on, whichever
\* provider is configured by now; the others wait for the diarizer.  What is passed
\* on is a list, as every transcriber saves: the branch for a dict has no caller.
DiarizeAudio(raw, diarizer) ==
    CASE raw # <<>> /\ \A i \in DOMAIN raw : "speaker" \in DOMAIN raw[i] ->
            Returns([i \in DOMAIN raw |-> [speaker |-> raw[i].speaker, text |-> raw[i].text,
                                           start |-> raw[i].start, end |-> raw[i].end]])
      [] raw # <<>> /\ \E i \in DOMAIN raw : "speaker" \notin DOMAIN raw[i] ->
            IF diarizer.raised # "nothing" THEN diarizer
            ELSE Returns(Merge(raw, diarizer.segments))
      [] OTHER -> diarizer

\* What the model is shown: the texts alone, and the labelled lines that have
\* both a speaker and a text.
ConsolidateTranscript(raw) == [i \in DOMAIN raw |-> raw[i].text]
ConsolidateDialogue(dialogue) ==
    LET spoken == Only(dialogue, {i \in DOMAIN dialogue : dialogue[i].text # "" /\ dialogue[i].speaker # ""})
    IN  [i \in DOMAIN spoken |-> <<spoken[i].speaker, spoken[i].text>>]

-------------------------------------------------------------------------------
(* The calls considered. *)

Spans == {span \in [start : 0 .. Horizon, end : 0 .. Horizon] : span.start <= span.end}
Plain == {[text |-> t, start |-> s.start, end |-> s.end] : t \in SpeechTexts, s \in Spans}
Turns == {[speaker |-> p, start |-> s.start, end |-> s.end] : p \in Speakers, s \in Spans}

\* One sentence among many turns, and several sentences among few.
MergeCalls ==
    [kind : {"merge"}, segments : {<<[text |-> "a", start |-> t, end |-> Horizon]>> : t \in 0 .. 1},
     turns : BoundedSeq(Turns, 3)]
        \cup [kind : {"merge"}, segments : TupleOf({s \in Plain : s.text # " "}, 2),
              turns : {<<>>} \cup TupleOf({t \in Turns : t.start = 0}, 1)]

Utterances == {[text |-> t, start |-> 0, end |-> 1, speaker |-> p] :
                    t \in SpeechTexts, p \in Speakers \cup {""}}
Spoken == {s \in Plain : s.start = 0 /\ s.end = 1}
ProviderCalls ==
    [kind : {"transcribe"}, provider : {"local"}, usable : BOOLEAN, segments : BoundedSeq(Spoken, 2),
     aligned : BOOLEAN, status : {200}, transcript : {""}]
        \cup [kind : {"transcribe"}, provider : {"openai"}, usable : BOOLEAN,
              segments : BoundedSeq(Spoken, 2), aligned : {FALSE}, status : {200}, transcript : {""}]
        \cup [kind : {"transcribe"}, provider : {"deepgram"}, usable : BOOLEAN,
              segments : BoundedSeq(Utterances, 2), aligned : {FALSE}, status : {200, 500},
              transcript : {"", "a"}]

\* get_transcriber and the call of its driver.
TranscribeAudio(c) ==
    CASE c.provider = "openai" -> OpenAITranscribe(c.usable, c.segments)
      [] c.provider = "deepgram" -> DeepgramTranscribe(c.usable, c.status, c.segments, c.transcript)
      [] OTHER -> LocalTranscribe(c.usable, c.segments,
                        IF c.aligned THEN Returns([i \in DOMAIN c.segments |-> [c.segments[i] EXCEPT !.end = @ + 1]])
                        ELSE Raises("RuntimeError"))

-------------------------------------------------------------------------------
(* What must hold. *)

\* How many instants of a segment a speaker is heard in, counted one by one and
\* once for each turn that covers it.
Heard(segment, turns, speaker) ==
    Cardinality({at \in (segment.start .. segment.end - 1) \X DOMAIN turns :
        /\ turns[at[2]].speaker = speaker
        /\ turns[at[2]].start <= at[1] /\ at[1] < turns[at[2]].end})

\* Every sentence is given to a speaker heard in it longer than, or as long as,
\* anybody else, and to nobody only when nobody is heard: touching, repeated and
\* empty intervals included (src/app/audio_processor.py:353-370).
SpeakerIsTheOneHeardMost ==
    input.kind = "merge" =>
        \A m \in ToSet(Merge(input.segments, input.turns)) :
            LET heard == [s \in Speakers |-> Heard(m, input.turns, s)]
            IN  IF m.speaker = "UNKNOWN" THEN \A s \in Speakers : heard[s] = 0
                ELSE heard[m.speaker] > 0 /\ \A s \in Speakers : heard[s] <= heard[m.speaker]

\* From the provider's answer to the dialogue that is scored, no sentence is
\* lost, added or repeated, in whichever of the ways the speakers are found
\* (services.py:166-213, audio_processor.py:125-132, 272-285, 346-381).
SpeechSurvives ==
    /\ input.kind = "merge" =>
            LET m == Merge(input.segments, input.turns)
            IN  /\ Len(m) = Len(input.segments)
                /\ \A s \in ToSet(input.segments) :
                    Cardinality({i \in DOMAIN m : <<m[i].text, m[i].start, m[i].end>> = <<s.text, s.start, s.end>>})
                        = Cardinality({i \in DOMAIN input.segments : input.segments[i] = s})
                /\ \A i, j \in DOMAIN m : i < j => m[i].start <= m[j].start
    /\ input.kind = "transcribe" /\ TranscribeAudio(input).raised = "nothing" =>
            LET raw == TranscribeAudio(input).segments
                scored == DiarizeAudio(raw, Returns(<<>>)).segments
            IN  /\ ConsolidateTranscript(scored) = [i \in DOMAIN input.segments |-> Strip(input.segments[i].text)]
                /\ Len(ConsolidateDialogue(scored))
                    = Cardinality({i \in DOMAIN input.segments : Strip(input.segments[i].text) # ""})

\* From the recording to the dialogue, what was said is kept and given to whom it
\* was heard from.
MergeIsFaithful == SpeakerIsTheOneHeardMost /\ SpeechSurvives
===============================================================================
