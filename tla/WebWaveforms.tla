---------------------------- MODULE WebWaveforms ----------------------------
(***************************************************************************)
(* The waveforms the web UI fetches (src/api/web/js: waveforms.js, the     *)
(* colour mode of core.js): the cache, the fetches under way, and the two  *)
(* kinds of data, of which the colour mode says the one to draw.  In 3band *)
(* mode a track for which the server has no 3-band data draws the spectral *)
(* wave.  WebDrawer composes this with the drawer, which waits for the     *)
(* data in two ways: as an opening of a track, and as a drawing to be done *)
(* later.                                                                  *)
(***************************************************************************)
EXTENDS Integers, FiniteSets

CONSTANTS
    Tracks,   \* track IDs
    Flat      \* those the server has no 3-band data for

ASSUME WebWaveformsAssumption == Flat \subseteq Tracks

Styles == {"spectral", "3band"}
Kinds == {"detail", "detail3band"}
Keys == Kinds \X Tracks

VARIABLES
    style,          \* detailWaveStyle: the kind of data the mode asks for
    lastDisplaySig, \* the mode the last poll saw
    waveformCache,  \* the keys whose data are cached
    no3Band,        \* tracks known to have no 3-band data
    inflight,       \* inflightWaveforms: "asked", or "fallback" when a 3-band
                    \* fetch waits for the spectral data it falls back to
    unpainted,      \* history: the mode changed with the settings, and nothing
                    \* was redrawn since
    lost            \* history: a fetch failed

modeVars == <<style, lastDisplaySig, unpainted>>
fetchVars == <<waveformCache, no3Band, inflight, lost>>
waveVars == <<modeVars, fetchVars>>

WaveTypeOK ==
    /\ style \in Styles
    /\ lastDisplaySig \in Styles
    /\ waveformCache \subseteq Keys
    /\ no3Band \subseteq Flat
    /\ inflight \in [Keys -> {"no", "asked", "fallback"}]
    /\ unpainted \in BOOLEAN
    /\ lost \in BOOLEAN

WaveInit ==
    /\ style \in Styles
    /\ lastDisplaySig = style
    /\ waveformCache = {}
    /\ no3Band = {}
    /\ inflight = [k \in Keys |-> "no"]
    /\ unpainted = FALSE
    /\ lost = FALSE

\* The kind of data a track is drawn with in a mode.
DataFor(t, mode) == IF mode = "3band" /\ t \notin no3Band THEN "3band" ELSE "spectral"

\* The key of that data, and the data that are cached under a key.
KeyFor(t, mode) == <<IF DataFor(t, mode) = "3band" THEN "detail3band" ELSE "detail", t>>
DataOf(key) == IF key[1] = "detail3band" THEN "3band" ELSE "spectral"

\* ensureWaveform and ensureDetailWave, of a key that is not cached: a second
\* request for it waits for the first one's fetch.
Ensured(fetches, key) ==
    IF fetches[key] = "no" THEN [fetches EXCEPT ![key] = "asked"] ELSE fetches

\* The spectral data go to those who asked for them, and to the 3-band fetch
\* that fell back to them.
Spectral(key) == <<"detail", key[2]>>
FallsBack(key) == <<"detail3band", key[2]>>

Resolved(key) ==
    {key} \cup (IF key[1] = "detail" /\ inflight[FallsBack(key)] = "fallback"
                THEN {FallsBack(key)} ELSE {})

Ended(keys) == [k \in Keys |-> IF k \in keys THEN "no" ELSE inflight[k]]

\* The answer comes with data: it is cached.
FetchOK(key) ==
    /\ inflight[key] = "asked"
    /\ key[1] = "detail3band" => key[2] \notin Flat
    /\ waveformCache' = waveformCache \cup {key}
    /\ inflight' = Ended(Resolved(key))
    /\ UNCHANGED <<no3Band, lost>>

\* The spectral fetch fails, or the track has no waveform: nothing is cached.
FetchFails(key) ==
    /\ inflight[key] = "asked"
    /\ key[1] = "detail"
    /\ inflight' = Ended(Resolved(key))
    /\ lost' = TRUE
    /\ UNCHANGED <<waveformCache, no3Band>>

\* The 3-band fetch is answered without entries, or fails: it falls back to
\* the spectral data, cached (then its waiters get them at once) or to fetch.
ServedAtOnce(key) == IF Spectral(key) \in waveformCache THEN {key} ELSE {}

FallBack(key, failed) ==
    /\ inflight[key] = "asked"
    /\ key[1] = "detail3band"
    /\ failed \/ key[2] \in Flat
    /\ no3Band' = IF failed THEN no3Band ELSE no3Band \cup {key[2]}
    /\ lost' = (lost \/ failed)
    /\ inflight' = IF ServedAtOnce(key) # {}
                   THEN Ended({key})
                   ELSE Ensured([inflight EXCEPT ![key] = "fallback"], Spectral(key))
    /\ UNCHANGED waveformCache
=============================================================================
