------------------------------ MODULE WavWalk ------------------------------
(***************************************************************************)
(* The check of an uploaded WAV (validateWAV of                            *)
(* catalog/application/processor.go): a walk over the chunks of a RIFF     *)
(* file that keeps count of the bytes left. A file is what the walk looks  *)
(* at: its length, the RIFF size in its header, and its chunks. One action *)
(* for the header, one per chunk, one for the end.                         *)
(***************************************************************************)
EXTENDS Naturals, Sequences, FiniteSets

CONSTANTS
    Sizes,      \* bound: sizes in chunk headers
    MaxChunks,  \* bound: chunks of a file
    Shifts      \* bound: lengths of a file, from one byte short (0) on

HeaderBytes == 8

WalkAssumption ==
    /\ Sizes \subseteq Nat /\ MaxChunks \in Nat
    /\ Shifts \subseteq 0..HeaderBytes

VARIABLES
    file,
    at,         \* number of the next chunk
    offset,     \* bytes taken from the reader
    remaining,
    foundFormat,
    foundAudioData,
    verdict

found == <<foundFormat, foundAudioData>>
vars == <<file, at, offset, remaining, found, verdict>>

\* supported: the encoding, channels, rates and depth of a fmt chunk.
Chunk == {c \in [id : {"fmt", "data", "other"}, size : Sizes, supported : BOOLEAN] :
            c.id # "fmt" => c.supported}

----------------------------------------------------------------------------
(* What a WAV file is: a header of twelve bytes, and chunks.               *)

\* The header of a chunk and its body, filled up to an even length.
Length(c) == HeaderBytes + 2 * ((c.size + 1) \div 2)

Lengths(chunks) == [i \in DOMAIN chunks |-> Length(chunks[i])]

\* Where a chunk begins; the one after the last begins where the file ends.
Begins(chunks, n) ==
    LET upTo[i \in Nat] ==
            IF i = 0 THEN 12 ELSE upTo[i - 1] + Lengths(chunks)[i]
    IN  upTo[n - 1]
End(chunks) == Begins(chunks, Len(chunks) + 1)

\* The chunks fill the file, there is one format and some audio.
WellFormed(f) ==
    LET Those(id) == {i \in DOMAIN f.chunks : f.chunks[i].id = id} IN
    /\ f.magic /\ f.riff + 8 = f.size /\ f.size = End(f.chunks)
    /\ Cardinality(Those("fmt")) = 1 /\ Those("data") # {}
    /\ \A i \in Those("fmt") : f.chunks[i].supported /\ f.chunks[i].size >= 16
    /\ \A i \in Those("data") : f.chunks[i].size > 0

----------------------------------------------------------------------------

\* The shape of the file and of the walk.
TypeOK ==
    /\ file \in [magic : BOOLEAN, riff : Nat, size : Nat, chunks : Seq(Chunk)]
    /\ at \in 1..(MaxChunks + 1)
    /\ offset \in Nat /\ remaining \in Nat
    /\ foundFormat \in BOOLEAN /\ foundAudioData \in BOOLEAN
    /\ verdict \in {"new", "walking", "accepted", "rejected", "failed"}

Start(f) ==
    /\ file = f
    /\ at = 1 /\ offset = 0 /\ remaining = 0
    /\ foundFormat = FALSE /\ foundAudioData = FALSE
    /\ verdict = "new"

\* Files that end with their last chunk, within it, or a little after it:
\* eight bytes more would be another header. The RIFF size may be wrong.
Init ==
    \E n \in 0..MaxChunks : \E chunks \in [1..n -> Chunk], magic \in BOOLEAN,
      s \in Shifts, more \in {7, 8} :
        LET size == End(chunks) + s - 1
        IN  Start([magic |-> magic, riff |-> size - more, size |-> size,
                   chunks |-> chunks])

\* A call of the object store fails.
StorageFails ==
    /\ verdict \in {"new", "walking"}
    /\ verdict' = "failed"
    /\ UNCHANGED <<file, at, offset, remaining, found>>

\* The length from the object store, and the first twelve bytes.
ReadHeader ==
    /\ verdict = "new"
    /\ IF \/ file.size < 44 \/ ~file.magic
          \/ file.riff < 4 \/ file.riff + 8 # file.size
       THEN verdict' = "rejected" /\ UNCHANGED <<offset, remaining>>
       ELSE /\ verdict' = "walking"
            /\ offset' = 12 /\ remaining' = file.riff - 4
    /\ UNCHANGED <<file, at, found>>

\* Mutant of Padded: an odd chunk is taken to be followed by the next at once.
PaddedNot(size) == size

Padded(size) == size + (size % 2)

\* A chunk that does not fit, a fmt chunk that is not the only valid one, or
\* an empty data chunk.
Refused(c) ==
    \/ Padded(c.size) > remaining - HeaderBytes
    \/ c.id = "fmt" /\ (foundFormat \/ c.size < 16 \/ ~c.supported)
    \/ c.id = "data" /\ c.size = 0

\* The header of a chunk, its body and the byte after an odd one.
ReadChunk ==
    /\ verdict = "walking" /\ remaining >= HeaderBytes
    /\ at \in DOMAIN file.chunks
    /\ LET c == file.chunks[at] IN
       \/ /\ Refused(c)
          /\ verdict' = "rejected"
          /\ UNCHANGED <<at, offset, remaining, found>>
       \/ /\ ~Refused(c)
          /\ at' = at + 1
          /\ offset' = offset + HeaderBytes + c.size + (c.size % 2)
          /\ remaining' = remaining - HeaderBytes - Padded(c.size)
          /\ foundFormat' = (foundFormat \/ c.id = "fmt")
          /\ foundAudioData' = (foundAudioData \/ c.id = "data")
          /\ UNCHANGED verdict
    /\ UNCHANGED file

\* Less than a header is left: nothing, or what is no chunk.
Conclude ==
    /\ verdict = "walking" /\ remaining < HeaderBytes
    /\ verdict' = IF remaining = 0 /\ foundFormat /\ foundAudioData
                  THEN "accepted" ELSE "rejected"
    /\ UNCHANGED <<file, at, offset, remaining, found>>

Next == StorageFails \/ ReadHeader \/ ReadChunk \/ Conclude

Spec == Init /\ [][Next]_vars

----------------------------------------------------------------------------

\* The walk accepts exactly the well-formed files, odd chunks, cut files and
\* trailing bytes included.
VerdictIsExact ==
    /\ verdict = "accepted" => WellFormed(file)
    /\ verdict = "rejected" => ~WellFormed(file)

\* The count of bytes left and the reader move together from one chunk to the
\* next, and where the walk reads a header the file has one: the reader does
\* not end before the walk ("wav chunk exceeds RIFF bounds" comes first).
WalkIsAligned ==
    verdict = "walking" =>
        /\ offset + remaining = file.size
        /\ offset = Begins(file.chunks, at)
        /\ remaining >= HeaderBytes => at \in DOMAIN file.chunks

\* The walk and its outcome.
WavInv == TypeOK /\ VerdictIsExact /\ WalkIsAligned
=============================================================================
