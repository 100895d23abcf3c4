------------------------------ MODULE Waveform ------------------------------
(***************************************************************************)
(* The waveform of a preview (catalog/application/waveform.go): frames are *)
(* decoded from a stream that delivers any number of bytes at a time,      *)
(* summed up in chunks of equal length, the chunks merged two by two when  *)
(* there are too many, and at the end spread over the bars. A chunk keeps  *)
(* the number and the summed loudness of its frames. One analysis; one     *)
(* action per read, per frame and for the end.                             *)
(***************************************************************************)
EXTENDS Naturals, Sequences

CONSTANTS
    BarCounts,          \* the numbers of bars a caller may ask for
    ChunkFrames,        \* frames of a chunk at first, sampleRate / 20
    maxWaveformChunks,
    FrameLimit,         \* frames of the longest preview accepted
    Loudness,           \* bound: values of a frame, (left + right) / 2
    ReadSizes,          \* bound: bytes of one read
    MaxBytes            \* bound: bytes of a stream

FrameBytes == 4

WaveformAssumption ==
    /\ BarCounts \subseteq Nat \ {0}
    /\ ChunkFrames \in Nat \ {0}
    /\ maxWaveformChunks \in Nat /\ maxWaveformChunks >= 2
    /\ maxWaveformChunks % 2 = 0
    /\ FrameLimit \in Nat
    /\ Loudness \subseteq Nat /\ ReadSizes \subseteq Nat /\ MaxBytes \in Nat

VARIABLES
    barCount,
    status,
    pending,      \* bytes of an incomplete frame kept for the next read
    ready,        \* complete frames in the buffer
    ended,        \* what came with the bytes in the buffer: nothing, EOF, an error
    chunk,        \* the open chunk
    chunks,
    chunkFrames,
    totalFrames,
    delivered,    \* history: bytes the decoder has delivered
    loud          \* history: the summed loudness of the frames

buffer == <<pending, ready, ended>>
summary == <<chunk, chunks, chunkFrames, totalFrames>>
vars == <<barCount, status, buffer, summary, delivered, loud>>

Chunk == [count : Nat, sum : Nat]
NoChunk == [count |-> 0, sum |-> 0]

\* The shape of the buffer and of the chunks; fewer chunks than the bound are
\* kept, and less than a frame is kept back.
TypeOK ==
    /\ barCount \in BarCounts
    /\ status \in {"reading", "done", "failed"}
    /\ pending \in 0..(FrameBytes - 1) /\ ready \in Nat
    /\ ended \in {"no", "EOF", "error"}
    /\ chunk \in Chunk /\ chunks \in Seq(Chunk)
    /\ Len(chunks) < maxWaveformChunks
    /\ chunkFrames \in Nat \ {0}
    /\ totalFrames \in 0..(FrameLimit + 1)
    /\ delivered \in Nat /\ loud \in Nat

Init ==
    /\ barCount \in BarCounts
    /\ status = "reading"
    /\ pending = 0 /\ ready = 0 /\ ended = "no"
    /\ chunk = NoChunk /\ chunks = <<>>
    /\ chunkFrames = ChunkFrames
    /\ totalFrames = 0 /\ delivered = 0 /\ loud = 0

----------------------------------------------------------------------------

\* The bytes that do not make up a frame.
Kept(available) == available % FrameBytes

\* decoder.Read; an error or EOF may come together with bytes.
Read ==
    /\ status = "reading" /\ ready = 0 /\ ended = "no"
    /\ \E n \in ReadSizes, end \in {"no", "EOF", "error"} :
        /\ delivered + n <= MaxBytes
        /\ n = 0 => end # "no"
        /\ delivered' = delivered + n
        /\ pending' = Kept(pending + n)
        /\ ready' = (pending + n) \div FrameBytes
        /\ ended' = end
    /\ UNCHANGED <<barCount, status, summary, loud>>

\* Counts and sums are added, so averages stay what they were.
Joined(a, b) == [count |-> a.count + b.count, sum |-> a.sum + b.sum]

\* Two neighbours become one; a last one without a neighbour stays.
Merged(s) ==
    [i \in 1..((Len(s) + 1) \div 2) |->
        IF 2 * i > Len(s) THEN s[2 * i - 1] ELSE Joined(s[2 * i - 1], s[2 * i])]

\* Mutant of Widened: later chunks keep the length of the first ones.
WidenedNot(frames) == frames

Widened(frames) == 2 * frames

TooMany(s) == Len(s) >= maxWaveformChunks

\* flushChunk: the chunk is closed, and with too many chunks they are merged
\* and the chunks to come are made twice as long.
Flush(c) ==
    LET all == Append(chunks, c) IN
    /\ chunk' = NoChunk
    /\ IF TooMany(all)
       THEN chunks' = Merged(all) /\ chunkFrames' = Widened(chunkFrames)
       ELSE chunks' = all /\ UNCHANGED chunkFrames

\* One frame: counted, checked against the limit, added to the open chunk.
Frame ==
    /\ status = "reading" /\ ready > 0
    /\ ready' = ready - 1
    /\ totalFrames' = totalFrames + 1
    /\ \E v \in Loudness :
        LET c == [count |-> chunk.count + 1, sum |-> chunk.sum + v] IN
        /\ loud' = loud + v
        /\ IF totalFrames' > FrameLimit
           THEN /\ status' = "failed" /\ chunk' = c
                /\ UNCHANGED <<chunks, chunkFrames>>
           ELSE /\ IF c.count >= chunkFrames THEN Flush(c)
                   ELSE chunk' = c /\ UNCHANGED <<chunks, chunkFrames>>
                /\ UNCHANGED status
    /\ UNCHANGED <<barCount, pending, ended, delivered>>

\* After EOF the open chunk is closed; without any chunk there is no result.
Finish ==
    /\ status = "reading" /\ ready = 0 /\ ended = "EOF"
    /\ IF chunk.count > 0 THEN Flush(chunk)
                          ELSE UNCHANGED <<chunk, chunks, chunkFrames>>
    /\ status' = IF totalFrames > 0 THEN "done" ELSE "failed"
    /\ UNCHANGED <<barCount, buffer, totalFrames, delivered, loud>>

ReadFails ==
    /\ status = "reading" /\ ready = 0 /\ ended = "error"
    /\ status' = "failed"
    /\ UNCHANGED <<barCount, buffer, summary, delivered, loud>>

Next == Read \/ Frame \/ Finish \/ ReadFails

Spec == Init /\ [][Next]_vars

----------------------------------------------------------------------------
(* The bars. Chunks and bars are counted from zero.                        *)

Capped(i, n) == IF i >= n THEN n - 1 ELSE i

BarOf(i) == Capped((i * barCount) \div Len(chunks), barCount)

\* Mutant of Closest: the middle of the bar is not halved.
ClosestUnhalved(bar) == Capped(((2 * bar + 1) * Len(chunks)) \div barCount, Len(chunks))

\* The chunk at the middle of the bar.
Closest(bar) == Capped(((2 * bar + 1) * Len(chunks)) \div (2 * barCount), Len(chunks))

Own(bar) == {i \in 0..(Len(chunks) - 1) : BarOf(i) = bar}

\* The chunks whose average is the height of a bar.
Shown(bar) == IF Own(bar) # {} THEN Own(bar) ELSE {Closest(bar)}

----------------------------------------------------------------------------

Counts(s) == [i \in DOMAIN s |-> s[i].count]
Sums(s) == [i \in DOMAIN s |-> s[i].sum]

Total(numbers) ==
    LET upTo[i \in Nat] == IF i = 0 THEN 0 ELSE upTo[i - 1] + numbers[i]
    IN  upTo[Len(numbers)]

\* Reads may cut a frame anywhere and chunks are merged many times: every
\* byte delivered, every frame and all its loudness is in the summary once
\* ("adjacent summaries are losslessly merged").
NothingLost ==
    /\ totalFrames + ready = delivered \div FrameBytes
    /\ pending = delivered % FrameBytes
    /\ Total(Counts(chunks)) + chunk.count = totalFrames
    /\ Total(Sums(chunks)) + chunk.sum = loud

\* Every chunk stands for the same stretch of time, however often they were
\* merged ("future chunks cover the same doubled time window"); only the last
\* one of a finished analysis may be shorter. The bars rely on it.
EqualWindows ==
    /\ \A i \in DOMAIN chunks :
        IF i = Len(chunks) /\ status = "done" THEN chunks[i].count \in 1..chunkFrames
                                              ELSE chunks[i].count = chunkFrames
    /\ status = "reading" => chunk.count < chunkFrames

\* The summary is bounded and says what was decoded.
WaveformInv == TypeOK /\ NothingLost /\ EqualWindows

\* The bars show the preview in its order and leave nothing out, with more
\* chunks than bars and with fewer; a bar of its own has no nearer chunk.
BarsInOrder ==
    status = "done" =>
        LET Bars == 0..(barCount - 1)
            Distance(i, bar) ==
                LET a == (2 * i + 1) * barCount
                    b == (2 * bar + 1) * Len(chunks)
                IN  IF a > b THEN a - b ELSE b - a
        IN  /\ UNION {Shown(bar) : bar \in Bars} = 0..(Len(chunks) - 1)
            /\ \A a, b \in Bars : a < b =>
                \A i \in Shown(a), j \in Shown(b) : i <= j
            /\ \A bar \in Bars : Own(bar) = {} =>
                \A i \in Shown(bar), j \in 0..(Len(chunks) - 1) :
                    Distance(i, bar) <= Distance(j, bar)
=============================================================================
