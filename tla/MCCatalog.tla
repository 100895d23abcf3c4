----------------------------- MODULE MCCatalog -----------------------------
(***************************************************************************)
(* The catalogue for TLC: one run checks its parts side by side. Each      *)
(* starts in its own initial state, and the run chooses at the start which *)
(* of them moves.                                                          *)
(***************************************************************************)
EXTENDS Catalogue, TLC

VARIABLE part   \* which of the parts moves

optionVars == <<option, sellable, sold, tx, listed, refused>>
homeVars == <<live, gone, score, table, run, fresh, lock, home, unlucky, lost>>
waveVars == <<barCount, status, pending, ready, ended, chunk, chunks,
              chunkFrames, totalFrames, delivered, loud>>
wavVars == <<file, at, offset, remaining, foundFormat, foundAudioData, verdict>>
allVars == <<part, vars, optionVars, homeVars, waveVars, wavVars>>

\* What a part that does not move starts with says nothing: no option, no
\* ranking, one bar and an empty file will do.
MCInit ==
    /\ part \in {"catalog", "options", "home", "wave", "wav"}
    /\ Init
    /\ IF part = "options" THEN Options!Init
       ELSE Options!Start([i \in Ids |-> NULL])
    /\ Home!Init
    /\ (part # "home" => live = {} /\ \A s \in Specs : score[s] = 0)
    /\ Wave!Init
    /\ (part # "wave" => barCount = 1)
    /\ IF part = "wav" THEN Wav!Init
       ELSE Wav!Start([magic |-> FALSE, riff |-> 0, size |-> 0, chunks |-> <<>>])

MCNext ==
    /\ UNCHANGED part
    /\ \/ part = "catalog" /\ Next
          /\ UNCHANGED <<optionVars, homeVars, waveVars, wavVars>>
       \/ part = "options" /\ Options!Next
          /\ UNCHANGED <<vars, homeVars, waveVars, wavVars>>
       \/ part = "home" /\ Home!Next
          /\ UNCHANGED <<vars, optionVars, waveVars, wavVars>>
       \/ part = "wave" /\ Wave!Next
          /\ UNCHANGED <<vars, optionVars, homeVars, wavVars>>
       \/ part = "wav" /\ Wav!Next
          /\ UNCHANGED <<vars, optionVars, homeVars, waveVars>>

MCSpec == MCInit /\ [][MCNext]_allVars

\* Types and specs are the same model values as covers.
Interchangeable == Permutations(Covers) \cup Permutations(Visitors)
=============================================================================
