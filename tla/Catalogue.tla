----------------------------- MODULE Catalogue -----------------------------
(***************************************************************************)
(* A spec and what is derived from it, side by side: the row with its      *)
(* files and cached responses (Catalog), its license options, its place in *)
(* the rankings, the check of its WAV and the waveform of its preview.     *)
(* They share no state here.                                               *)
(***************************************************************************)
EXTENDS Catalog

CONSTANTS
    \* LicenseOptions:
    Ids, Types, FreeForm,
    \* Rankings, with the slots and faults of the homepage:
    Specs, Visitors, MaxScore, MaxRuns, MaxLosses, Versioned,
    \* Waveform:
    BarCounts, ChunkFrames, maxWaveformChunks, FrameLimit, Loudness,
    ReadSizes, MaxBytes,
    \* WavWalk:
    Sizes, MaxChunks, Shifts

VARIABLES
    \* LicenseOptions:
    option, sellable, sold, tx, listed, refused,
    \* Rankings:
    live, gone, score, table, run, fresh, lock, home, unlucky, lost,
    \* Waveform:
    barCount, status, pending, ready, ended, chunk, chunks, chunkFrames,
    totalFrames, delivered, loud,
    \* WavWalk:
    file, at, offset, remaining, foundFormat, foundAudioData, verdict

Options == INSTANCE LicenseOptions WITH ordered <- sellable
Home == INSTANCE Rankings WITH
    Requests <- Visitors, MaxFaults <- MaxLosses, req <- home, faults <- lost
Wave == INSTANCE Waveform
Wav == INSTANCE WavWalk

ASSUME CatalogueAssumption ==
    /\ Options!OptionsAssumption
    /\ Home!RankingsAssumption
    /\ Wave!WaveformAssumption
    /\ Wav!WalkAssumption

----------------------------------------------------------------------------

\* No update removes an option that was sold.
SoldOptionsStay == Options!SoldOptionsStay

\* What was listed last is what is offered.
OptionsInv == Options!OptionsInv

\* A section is one calculation, and its lock has an owner.
RankingsInv == Home!RankingsInv

\* The summary of a preview is bounded and loses nothing.
WaveformInv == Wave!WaveformInv

\* The bars show the preview in its order and leave nothing out.
BarsInOrder == Wave!BarsInOrder

\* The check of a WAV accepts exactly the well-formed files.
WavInv == Wav!WavInv
=============================================================================
