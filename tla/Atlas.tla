--------------------------------- MODULE Atlas ---------------------------------
(***************************************************************************)
(* The sprite atlas: DF's sprites, the two documents that wf_build_atlas   *)
(* makes of them on the main thread, the version that tock sends, and the  *)
(* page that fetches the documents one after the other.                    *)
(*                                                                         *)
(* A document stands for the sprites it was made of.  The image and the    *)
(* index are replaced and cleared together, under a mutex, and are one     *)
(* variable; the page fetches them apart.                                  *)
(***************************************************************************)
EXTENDS Integers

CONSTANTS
    Sprites,    \* what DF may have loaded
    NoSprites,  \* nothing loaded: enabler->textures.raws is empty
    NoAtlas,    \* an empty document, an image or index that is not there
    Glyphs,     \* a document of the font alone, made of art on the disk
    Count,      \* the number of surfaces, all that wf_build_atlas compares:
                \* raws.size() stays when DF reuses the slots (webfort.cpp:577)
    Versions,   \* the version of the atlas wraps here; 16 in the code
    Lag,        \* how many rebuilds a page may miss between two updates
    MaxRetries  \* pending timers beyond this many are not told apart

ASSUME SpritesAssumption ==
    /\ NoSprites \notin Sprites
    /\ NoAtlas \notin Sprites \cup {Glyphs}
    /\ Glyphs \notin Sprites
    /\ Count \in [Sprites -> Nat \ {0}]
ASSUME VersionsAssumption == Versions \in Nat \ {0} /\ Lag \in Nat /\ Lag < Versions
ASSUME RetriesAssumption == MaxRetries \in Nat \ {0}

VARIABLES
    useGraphics,  \* DF: USE_GRAPHICS
    sprites,      \* DF: the sprites that are loaded
    held,         \* DF: their pixels are in memory, not only on the GPU
    mode,         \* g_graphics_mode
    pc,           \* where the main thread is
    atlas,        \* g_atlas_png and g_atlas_json
    version,      \* g_atlas_version
    lastCount,    \* g_atlas_last_valid_count, or Forced
    packet,       \* the update on its way to the page, if any
    last,         \* lastAtlasVersion
    img, map,     \* atlasImg, atlasMap
    load,         \* the load in progress: atlasLoading and what it has so far
    retries,      \* pending timers of loadAtlas
    lag,          \* rebuilds since the update that last comes from (history)
    missed,       \* since the last load began, a new version was taken for loaded
                  \* in it, or it was given up (history)
    failed        \* the last build could not be encoded (history)

df == <<useGraphics, sprites, held>>
plugin == <<mode, pc, atlas, version, lastCount>>
page == <<last, img, map, load, retries>>
vars == <<df, plugin, packet, page, lag, missed, failed>>

NoPacket == [gfx |-> FALSE, version |-> 0, lag |-> 0, sent |-> FALSE]
NotAsked == Versions   \* lastAtlasVersion = -1
Idle == [stage |-> "idle", map |-> NoAtlas, img |-> NoAtlas]
Picture == Sprites \cup {Glyphs, NoAtlas}

\* What the detection remembers when it must not skip: another mode than the
\* present one, or no surfaces at all.
Forced == -1

Init ==
    /\ useGraphics \in BOOLEAN
    /\ sprites \in Sprites \cup {NoSprites}
    /\ held = TRUE
    /\ mode = FALSE
    /\ pc = "enable"
    /\ atlas = NoAtlas
    /\ version = 0
    /\ lastCount = Forced
    /\ packet = NoPacket
    /\ last = NotAsked
    /\ img = NoAtlas
    /\ map = NoAtlas
    /\ load = Idle
    /\ retries = 0
    /\ lag = 0
    /\ missed = FALSE
    /\ failed = FALSE

--------------------------------------------------------------------------------
(* DF, between two ticks *)

\* The slots once made are used again, and never become none.
LoadSprites ==
    /\ sprites' \in Sprites \ {sprites}
    /\ held' = TRUE
    /\ UNCHANGED useGraphics

\* Uploaded to the GPU, and the pixels freed (docs/GRAPHICS_MODE_ANALYSIS.md:45).
Upload ==
    /\ sprites # NoSprites /\ held
    /\ held' = FALSE
    /\ UNCHANGED <<useGraphics, sprites>>

SetMode ==
    /\ useGraphics' = ~useGraphics
    /\ UNCHANGED <<sprites, held>>

DFChange ==
    /\ pc = "idle"
    /\ LoadSprites \/ Upload \/ SetMode
    /\ UNCHANGED <<plugin, packet, page, lag, missed, failed>>

--------------------------------------------------------------------------------
(* The main thread *)

\* The websocket thread already runs: plugin_enable has called start().
plugin_enable ==
    /\ pc = "enable"
    /\ mode' = useGraphics
    /\ lastCount' = Forced
    /\ pc' = "build"
    /\ UNCHANGED <<df, atlas, version, packet, page, lag, missed, failed>>

\* DF's mode has changed; the flag is published before the atlas is rebuilt.
FlipMode ==
    /\ pc = "idle"
    /\ useGraphics # mode
    /\ mode' = useGraphics
    /\ pc' = "build"
    /\ UNCHANGED <<df, atlas, version, lastCount, packet, page, lag, missed,
                   failed>>

\* A slip: the change detection is not reset in ASCII mode.
ClearAtlas_KeepsCount ==
    /\ ~mode
    /\ atlas' = NoAtlas
    /\ failed' = FALSE
    /\ UNCHANGED <<version, lastCount, packet, lag>>

ClearAtlas ==
    /\ ~mode
    /\ atlas' = NoAtlas
    /\ lastCount' = Forced
    /\ failed' = FALSE
    /\ UNCHANGED <<version, packet, lag>>

valid_count == IF held THEN Count[sprites] ELSE 0

NothingNew == sprites # NoSprites => valid_count = lastCount

SkipBuild ==
    /\ mode
    /\ NothingNew
    /\ failed' = FALSE
    /\ UNCHANGED <<atlas, version, lastCount, packet, lag>>

\* The two returns that leave the old documents, and the detection as it was:
\* all_texpos is empty, when the font has no slots without a surface either, or
\* the image cannot be encoded.
KeepAtlas ==
    /\ mode
    /\ ~NothingNew
    /\ failed' \in BOOLEAN
    /\ held => failed'
    /\ UNCHANGED <<atlas, version, lastCount, packet, lag>>

\* v: the version from now on.
Publish(v) ==
    /\ mode
    /\ ~NothingNew
    /\ lag < Lag
    /\ atlas' = IF held THEN sprites ELSE Glyphs
    /\ lastCount' = valid_count
    /\ version' = v
    /\ failed' = FALSE
    /\ lag' = lag + 1
    /\ packet' = [packet EXCEPT !.lag = IF packet.sent THEN @ + 1 ELSE 0]

\* Two slips: the version stays, and it is not cut to four bits.
Rebuild_SameVersion == Publish(version)
Rebuild_NoWrap == Publish(version + 1)

Rebuild == Publish(IF version + 1 < Versions THEN version + 1 ELSE 0)

Look == ClearAtlas \/ SkipBuild \/ KeepAtlas \/ Rebuild

wf_build_atlas ==
    /\ pc = "build"
    /\ Look
    /\ pc' = "idle"
    /\ UNCHANGED <<df, mode, page, missed>>

\* Every sixty ticks, after the check of the mode in the same tick.
Periodic ==
    /\ pc = "idle"
    /\ useGraphics = mode
    /\ Look
    /\ UNCHANGED <<df, mode, pc, page, missed>>

--------------------------------------------------------------------------------
(* The websocket thread answers the page's request for an update *)

tock ==
    /\ ~packet.sent
    /\ packet' = [gfx |-> mode, version |-> version, lag |-> 0, sent |-> TRUE]
    /\ UNCHANGED <<df, plugin, page, lag, missed, failed>>

--------------------------------------------------------------------------------
(* The page *)

loadAtlas ==
    IF load.stage # "idle"
      THEN UNCHANGED load
      ELSE load' = [Idle EXCEPT !.stage = "json"]

\* The version counts as loaded from the moment the load is asked for.
NewVersion ==
    /\ packet.gfx
    /\ packet.version # last
    /\ last' = packet.version
    /\ loadAtlas
    /\ missed' = (load.stage # "idle")
    /\ UNCHANGED <<img, map>>

SameVersion ==
    /\ packet.gfx
    /\ packet.version = last
    /\ UNCHANGED <<last, img, map, load, missed>>

AsciiUpdate ==
    /\ ~packet.gfx
    /\ last' = NotAsked
    /\ img' = NoAtlas
    /\ map' = NoAtlas
    /\ UNCHANGED <<load, missed>>

onMessage ==
    /\ packet.sent
    /\ NewVersion \/ SameVersion \/ AsciiUpdate
    /\ lag' = packet.lag
    /\ packet' = NoPacket
    /\ UNCHANGED <<df, plugin, retries, failed>>

retryTimer ==
    /\ retries > 0
    /\ retries' = retries - 1
    /\ loadAtlas
    /\ missed' = (missed /\ load.stage # "idle")
    /\ UNCHANGED <<df, plugin, packet, last, img, map, lag, failed>>

JsonLoaded ==
    /\ load.stage = "json"
    /\ atlas # NoAtlas
    /\ load' = [load EXCEPT !.stage = "png", !.map = atlas]
    /\ UNCHANGED <<df, plugin, packet, last, img, map, retries, lag, missed, failed>>

\* A slip: an error is not tried again.
JsonFailed_GivesUp ==
    /\ load.stage = "json"
    /\ load' = Idle
    /\ UNCHANGED <<df, plugin, packet, last, img, map, retries, lag, missed, failed>>

\* Not built yet, or not reached.
JsonFailed ==
    /\ load.stage = "json"
    /\ load' = Idle
    /\ retries' = IF retries < MaxRetries THEN retries + 1 ELSE MaxRetries
    /\ UNCHANGED <<df, plugin, packet, last, img, map, lag, missed, failed>>

\* Any other status, or an index that does not parse: nothing is tried again.
JsonGivenUp ==
    /\ load.stage = "json"
    /\ load' = Idle
    /\ missed' = TRUE
    /\ UNCHANGED <<df, plugin, packet, last, img, map, retries, lag, failed>>

PngArrives ==
    /\ load.stage = "png"
    /\ atlas # NoAtlas
    /\ load' = [load EXCEPT !.stage = "decode", !.img = atlas]
    /\ UNCHANGED <<df, plugin, packet, last, img, map, retries, lag, missed, failed>>

PngLoaded ==
    /\ load.stage = "decode"
    /\ img' = load.img
    /\ map' = load.map
    /\ load' = Idle
    /\ UNCHANGED <<df, plugin, packet, last, retries, lag, missed, failed>>

\* img.onerror: nothing is tried again.
PngFailed ==
    /\ load.stage \in {"png", "decode"}
    /\ load' = Idle
    /\ missed' = TRUE
    /\ UNCHANGED <<df, plugin, packet, last, img, map, retries, lag, failed>>

LoadStep == JsonLoaded \/ JsonFailed \/ JsonGivenUp \/ PngArrives \/ PngLoaded \/ PngFailed

Next ==
    \/ DFChange
    \/ plugin_enable \/ FlipMode \/ wf_build_atlas \/ Periodic
    \/ tock \/ onMessage \/ retryTimer \/ LoadStep

Spec == Init /\ [][Next]_vars

\* plugin_onupdate runs every tick, a page asks for update after update, a
\* timer fires, a request is answered or fails, and not forever the latter.
FairSpec ==
    /\ Spec
    /\ WF_vars(plugin_enable) /\ WF_vars(FlipMode)
    /\ WF_vars(wf_build_atlas) /\ WF_vars(Periodic)
    /\ WF_vars(tock) /\ WF_vars(onMessage) /\ WF_vars(retryTimer)
    /\ WF_vars(LoadStep) /\ SF_vars(JsonLoaded)

--------------------------------------------------------------------------------
(* Properties *)

\* Every variable has its type: the version keeps to its bits, and no update is
\* further behind than the page that waits for it.
TypeOK ==
    /\ useGraphics \in BOOLEAN
    /\ sprites \in Sprites \cup {NoSprites}
    /\ held \in BOOLEAN
    /\ mode \in BOOLEAN
    /\ pc \in {"enable", "build", "idle"}
    /\ atlas \in Picture
    /\ version \in 0..(Versions - 1)
    /\ lastCount \in Nat \cup {Forced}
    /\ packet \in [gfx : BOOLEAN, version : 0..(Versions - 1), lag : 0..Lag, sent : BOOLEAN]
    /\ packet.lag <= lag
    /\ last \in 0..Versions
    /\ img \in Picture
    /\ map \in Picture
    /\ load \in [stage : {"idle", "json", "png", "decode"}, map : Picture, img : Picture]
    /\ retries \in 0..MaxRetries
    /\ lag \in 0..Lag
    /\ missed \in BOOLEAN
    /\ failed \in BOOLEAN

\* A page that counts itself up to date is so: when the last version it saw is
\* the current one and no load is under way or pending, its image and its index
\* are those of the current atlas, unless a new version was swallowed by a load
\* in progress or the load was given up.
UpToDate ==
    /\ mode /\ pc = "idle" /\ atlas # NoAtlas
    /\ last = version
    /\ load.stage = "idle" /\ retries = 0
    /\ ~missed
    => img = atlas /\ map = atlas

\* Sprites that the detection of changes does not tell from s.
Alike(s) == {t \in Sprites : Count[t] = Count[s]}

\* Whenever the main thread has looked at sprites that are in memory, the
\* documents show them, or others just as many that they have replaced: whatever
\* was cleared, freed, skipped or could not be encoded before, no look passes over
\* documents that are empty, hold the font alone or are short of a sprite.
\* Only a build that cannot be encoded leaves them so.
BuildCurrent ==
    [][(wf_build_atlas \/ Periodic) /\ mode /\ sprites # NoSprites /\ held
          => atlas' \in Alike(sprites) \/ failed']_vars

\* A page comes to show the sprites that stay in memory, or those they replaced
\* unnoticed, and the index of what it shows, unless a load swallowed the news or
\* was given up, or the documents cannot be encoded.
AtlasConverges ==
    \A s \in Sprites :
        <>[](useGraphics /\ sprites = s /\ held /\ ~failed)
            => <>[](missed \/ (img \in Alike(s) /\ map = img))
================================================================================
