------------------------------ MODULE AtlasProofs ------------------------------
(***************************************************************************)
(* Theorems about Atlas, for every set of sprites, every width of the      *)
(* version and every page that misses fewer rebuilds than the version has  *)
(* values.                                                                 *)
(***************************************************************************)
EXTENDS Atlas, TLAPS

\* v is the version n rebuilds ago.
Ago(v, n) == version = IF v + n < Versions THEN v + n ELSE (v + n) - Versions

\* What the page and the update on its way know of the version.
Known ==
    /\ last # NotAsked => Ago(last, lag)
    /\ packet.sent => Ago(packet.version, packet.lag)
    /\ ~packet.sent => packet.lag = 0

\* What the change detection remembers is what the documents show.
Detected ==
    \/ lastCount = Forced
    \/ lastCount = 0 /\ atlas = Glyphs
    \/ atlas \in Sprites /\ lastCount = Count[atlas]

\* No rebuild since the page asked for the version it takes for loaded.
Undisturbed == last # NotAsked /\ lag = 0 /\ atlas # NoAtlas /\ ~missed

\* What such a page has loaded, or has so far of the load, is the atlas.
Loaded ==
    Undisturbed =>
        /\ load.stage \in {"png", "decode"} => load.map = atlas
        /\ load.stage = "decode" => load.img = atlas
        /\ load.stage = "idle" /\ retries = 0 => img = atlas /\ map = atlas

IInv == TypeOK /\ Known /\ Detected /\ Loaded

--------------------------------------------------------------------------------

\* The initial states satisfy the invariant: nothing is built and nothing asked.
LEMMA InitInv == Init => IInv
<1> SUFFICES ASSUME Init PROVE IInv
  OBVIOUS
<1> USE SpritesAssumption, VersionsAssumption, RetriesAssumption
<1>1. TypeOK
  <2>1. /\ useGraphics \in BOOLEAN /\ mode \in BOOLEAN /\ held \in BOOLEAN
        /\ missed \in BOOLEAN /\ failed \in BOOLEAN
    BY Zenon DEF Init
  <2>2. /\ sprites \in Sprites \cup {NoSprites} /\ atlas \in Picture
        /\ img \in Picture /\ map \in Picture
        /\ pc \in {"enable", "build", "idle"}
    BY DEF Init, Picture
  <2>3. /\ version \in 0..(Versions - 1) /\ lastCount \in Nat \cup {Forced}
        /\ last \in 0..Versions /\ retries \in 0..MaxRetries /\ lag \in 0..Lag
    BY DEF Init, NotAsked
  <2>4. /\ packet \in [gfx : BOOLEAN, version : 0..(Versions - 1), lag : 0..Lag, sent : BOOLEAN]
        /\ packet.lag <= lag
    BY DEF Init, NoPacket
  <2>5. load \in [stage : {"idle", "json", "png", "decode"}, map : Picture, img : Picture]
    BY DEF Init, Idle, Picture
  <2> QED
    BY <2>1, <2>2, <2>3, <2>4, <2>5 DEF TypeOK
<1>2. Known /\ Detected /\ Loaded
  BY DEF Init, Known, Detected, Loaded, Undisturbed, NoPacket, NotAsked
<1> QED
  BY <1>1, <1>2 DEF IInv

\* What a look at the sprites assigns.
LEMMA LookType ==
    ASSUME TypeOK, Look
    PROVE  /\ atlas' \in Picture /\ version' \in 0..(Versions - 1)
           /\ lastCount' \in Nat \cup {Forced} /\ failed' \in BOOLEAN /\ lag' \in 0..Lag
           /\ packet' \in [gfx : BOOLEAN, version : 0..(Versions - 1), lag : 0..Lag, sent : BOOLEAN]
           /\ packet'.lag <= lag'
<1> USE SpritesAssumption, VersionsAssumption DEF TypeOK, Picture
<1>1. CASE ClearAtlas
  BY <1>1 DEF ClearAtlas
<1>2. CASE SkipBuild
  BY <1>2 DEF SkipBuild
<1>3. CASE KeepAtlas
  BY <1>3 DEF KeepAtlas
<1>4. CASE Rebuild
  <2>1. /\ atlas' = (IF held THEN sprites ELSE Glyphs) /\ lastCount' = valid_count
        /\ sprites # NoSprites /\ lag < Lag /\ lag' = lag + 1 /\ failed' = FALSE
    BY <1>4 DEF Rebuild, Publish, NothingNew
  <2>2. valid_count \in Nat
    BY <2>1 DEF valid_count
  <2>3. version' \in 0..(Versions - 1)
    BY <1>4 DEF Rebuild, Publish
  <2>4. packet' = [packet EXCEPT !.lag = IF packet.sent THEN @ + 1 ELSE 0]
    BY <1>4 DEF Rebuild, Publish
  <2>5. /\ packet' \in [gfx : BOOLEAN, version : 0..(Versions - 1), lag : 0..Lag, sent : BOOLEAN]
        /\ packet'.lag <= lag'
    BY <2>1, <2>4
  <2>6. atlas' \in Picture /\ failed' \in BOOLEAN /\ lastCount' \in Nat \cup {Forced}
    BY <2>1, <2>2
  <2>7. lag' \in 0..Lag
    BY <2>1
  <2> HIDE DEF TypeOK, Picture
  <2> QED
    BY <2>3, <2>5, <2>6, <2>7
<1> QED
  BY <1>1, <1>2, <1>3, <1>4 DEF Look

\* Every step of either thread and of the page keeps the types.
LEMMA TypeStep == TypeOK /\ [Next]_vars => TypeOK'
<1> SUFFICES ASSUME TypeOK, [Next]_vars PROVE TypeOK'
  OBVIOUS
<1> USE SpritesAssumption, VersionsAssumption, RetriesAssumption
    DEF TypeOK, Picture, NotAsked, NoPacket, Idle, df, plugin, page, vars
<1>1. CASE DFChange
  <2>1. useGraphics' \in BOOLEAN /\ held' \in BOOLEAN
    BY <1>1, Zenon DEF DFChange, LoadSprites, Upload, SetMode
  <2> QED
    BY <1>1, <2>1 DEF DFChange, LoadSprites, Upload, SetMode
<1>2. CASE plugin_enable
  BY <1>2 DEF plugin_enable
<1>3. CASE FlipMode
  BY <1>3 DEF FlipMode
<1>4. CASE wf_build_atlas
  BY <1>4, LookType DEF wf_build_atlas
<1>5. CASE Periodic
  BY <1>5, LookType DEF Periodic
<1>6. CASE tock
  BY <1>6 DEF tock
<1>7. CASE onMessage
  <2>1. missed' \in BOOLEAN
    BY <1>7, Zenon DEF onMessage, NewVersion, SameVersion, AsciiUpdate, loadAtlas
  <2>2. load' \in [stage : {"idle", "json", "png", "decode"}, map : Picture, img : Picture]
    BY <1>7 DEF onMessage, NewVersion, SameVersion, AsciiUpdate, loadAtlas
  <2>3. last' \in 0..Versions /\ img' \in Picture /\ map' \in Picture /\ lag' \in 0..Lag
    BY <1>7 DEF onMessage, NewVersion, SameVersion, AsciiUpdate
  <2>4. /\ packet' \in [gfx : BOOLEAN, version : 0..(Versions - 1), lag : 0..Lag, sent : BOOLEAN]
        /\ packet'.lag <= lag'
    BY <1>7, <2>3 DEF onMessage
  <2> QED
    BY <1>7, <2>1, <2>2, <2>3, <2>4 DEF onMessage
<1>8. CASE retryTimer
  <2>1. missed' \in BOOLEAN
    BY <1>8, Zenon DEF retryTimer, loadAtlas
  <2>2. load' \in [stage : {"idle", "json", "png", "decode"}, map : Picture, img : Picture]
    BY <1>8 DEF retryTimer, loadAtlas
  <2> QED
    BY <1>8, <2>1, <2>2 DEF retryTimer
<1>9. CASE LoadStep
  <2>1. CASE JsonLoaded
    <3>1. load' = [stage |-> load'.stage, map |-> load'.map, img |-> load'.img]
      BY <2>1 DEF JsonLoaded
    <3>2. load'.stage \in {"png", "decode"} /\ load'.map \in Picture /\ load'.img \in Picture
      BY <2>1 DEF JsonLoaded
    <3> QED
      BY <2>1, <3>1, <3>2 DEF JsonLoaded
  <2>2. CASE JsonFailed
    BY <2>2 DEF JsonFailed
  <2>3. CASE PngArrives
    <3>1. load' = [stage |-> load'.stage, map |-> load'.map, img |-> load'.img]
      BY <2>3 DEF PngArrives
    <3>2. load'.stage \in {"png", "decode"} /\ load'.map \in Picture /\ load'.img \in Picture
      BY <2>3 DEF PngArrives
    <3> QED
      BY <2>3, <3>1, <3>2 DEF PngArrives
  <2>4. CASE PngLoaded
    BY <2>4 DEF PngLoaded
  <2>5. CASE PngFailed
    BY <2>5 DEF PngFailed
  <2>6. CASE JsonGivenUp
    BY <2>6 DEF JsonGivenUp
  <2> QED
    BY <1>9, <2>1, <2>2, <2>3, <2>4, <2>5, <2>6 DEF LoadStep
<1>10. CASE UNCHANGED vars
  BY <1>10
<1>11. QED
  BY <1>1, <1>2, <1>3, <1>4, <1>5, <1>6, <1>7, <1>8, <1>9, <1>10 DEF Next

--------------------------------------------------------------------------------
(* The invariant *)

\* A rebuild moves the version one on and both counts with it.
LEMMA RebuildKnown ==
    ASSUME TypeOK, Known, Rebuild, UNCHANGED last PROVE Known'
  BY VersionsAssumption DEF TypeOK, Known, Ago, Rebuild, Publish, NotAsked

\* What an update says of the version is what the page knows of it, if the two
\* versions are the same: no update is so far behind that the version wraps.
LEMMA SameAge ==
    ASSUME TypeOK, Known, packet.sent, packet.version = last
    PROVE  packet.lag = lag
  BY VersionsAssumption DEF TypeOK, Known, Ago, NotAsked

\* What the three outcomes of wf_build_atlas keep.
LEMMA BuildInv ==
    ASSUME IInv, Look, UNCHANGED <<page, missed>>
    PROVE  Known' /\ Detected' /\ Loaded'
<1> USE SpritesAssumption, VersionsAssumption DEF page
<1>1. CASE ClearAtlas
  BY <1>1 DEF IInv, ClearAtlas, Known, Ago, Detected, Loaded, Undisturbed
<1>2. CASE SkipBuild
  BY <1>2 DEF IInv, SkipBuild, Known, Ago, Detected, Loaded, Undisturbed
<1>3. CASE Rebuild
  <2>1. Known'
    BY <1>3, RebuildKnown DEF IInv
  <2>2. Detected'
    BY <1>3 DEF IInv, TypeOK, Rebuild, Publish, Detected, NothingNew, valid_count
  <2>3. lag' # 0
    BY <1>3 DEF IInv, TypeOK, Rebuild, Publish
  <2> QED
    BY <2>1, <2>2, <2>3 DEF Loaded, Undisturbed
<1>4. CASE KeepAtlas
  BY <1>4 DEF IInv, KeepAtlas, Known, Ago, Detected, Loaded, Undisturbed
<1> QED
  BY <1>1, <1>2, <1>3, <1>4 DEF Look

\* Every step keeps the invariant.
LEMMA InvStep == IInv /\ [Next]_vars => IInv'
<1> SUFFICES ASSUME IInv, [Next]_vars PROVE Known' /\ Detected' /\ Loaded'
  BY TypeStep DEF IInv
<1> USE SpritesAssumption, VersionsAssumption, RetriesAssumption
    DEF IInv, Known, Detected, Loaded, Undisturbed, Ago, NotAsked, df, plugin, page
<1>1. CASE DFChange
  BY <1>1 DEF DFChange
<1>2. CASE plugin_enable
  BY <1>2 DEF plugin_enable
<1>3. CASE FlipMode
  BY <1>3 DEF FlipMode
<1>4. CASE wf_build_atlas
  BY <1>4, BuildInv DEF wf_build_atlas
<1>5. CASE Periodic
  BY <1>5, BuildInv DEF Periodic
<1>6. CASE tock
  BY <1>6 DEF tock, TypeOK
<1>7. CASE onMessage
  <2>1. Known' /\ Detected'
    BY <1>7 DEF onMessage, NewVersion, SameVersion, AsciiUpdate, NoPacket, TypeOK
  <2>2. CASE NewVersion
    <3>1. CASE load.stage = "idle"
      <4>1. load'.stage = "json"
        BY <2>2, <3>1 DEF NewVersion, loadAtlas, Idle
      <4> QED
        BY <2>1, <4>1
    <3>2. CASE load.stage # "idle"
      BY <2>1, <2>2, <3>2 DEF NewVersion
    <3> QED
      BY <3>1, <3>2
  <2>3. CASE SameVersion
    <3>1. lag' = lag
      BY <1>7, <2>3, SameAge DEF onMessage, SameVersion
    <3> QED
      BY <1>7, <2>1, <2>3, <3>1 DEF onMessage, SameVersion
  <2>4. CASE AsciiUpdate
    BY <1>7, <2>1, <2>4 DEF onMessage, AsciiUpdate
  <2> QED
    BY <1>7, <2>1, <2>2, <2>3, <2>4 DEF onMessage
<1>8. CASE retryTimer
  BY <1>8 DEF retryTimer, loadAtlas, Idle, TypeOK
<1>9. CASE LoadStep
  <2>1. CASE JsonLoaded
    BY <2>1 DEF JsonLoaded, TypeOK
  <2>2. CASE JsonFailed
    BY <2>2 DEF JsonFailed, Idle, TypeOK
  <2>3. CASE PngArrives
    BY <2>3 DEF PngArrives, TypeOK
  <2>4. CASE PngLoaded
    BY <2>4 DEF PngLoaded, Idle, TypeOK
  <2>5. CASE PngFailed
    BY <2>5 DEF PngFailed, Idle, TypeOK
  <2>6. CASE JsonGivenUp
    BY <2>6 DEF JsonGivenUp, Idle, TypeOK
  <2> QED
    BY <1>9, <2>1, <2>2, <2>3, <2>4, <2>5, <2>6 DEF LoadStep
<1>10. CASE UNCHANGED vars
  BY <1>10 DEF vars
<1>11. QED
  BY <1>1, <1>2, <1>3, <1>4, <1>5, <1>6, <1>7, <1>8, <1>9, <1>10 DEF Next

\* The inductive invariant holds in every reachable state.
LEMMA Invariant == Spec => []IInv
<1>1. Init => IInv
  BY InitInv
<1>2. IInv /\ [Next]_vars => IInv'
  BY InvStep
<1> QED
  BY <1>1, <1>2, PTL DEF Spec

--------------------------------------------------------------------------------
(* Theorems *)

\* Every variable keeps its type (wf_build_atlas, tock and the page's loadAtlas).
THEOREM TypeCorrect == Spec => []TypeOK
<1>1. IInv => TypeOK
  BY DEF IInv
<1> QED
  BY <1>1, Invariant, PTL

\* A page that counts itself up to date is so, whatever was rebuilt, cleared or
\* tried again in between (webfort.js:372, webfort.cpp:733).
THEOREM PageUpToDate == Spec => []UpToDate
<1>1. IInv => UpToDate
  <2> SUFFICES ASSUME IInv, mode, atlas # NoAtlas, last = version,
                      load.stage = "idle", retries = 0, ~missed
               PROVE  img = atlas /\ map = atlas
    BY DEF UpToDate
  <2>1. last # NotAsked
    BY VersionsAssumption DEF IInv, TypeOK, NotAsked
  <2>2. lag = 0
    BY <2>1, VersionsAssumption DEF IInv, TypeOK, Known, Ago
  <2> QED
    BY <2>1, <2>2 DEF IInv, Loaded, Undisturbed
<1> QED
  BY <1>1, Invariant, PTL

\* Whenever the main thread has looked at sprites that are in memory, the documents
\* show them or as many others, unless they could not be encoded, whatever came
\* before (webfort.cpp:562-593, 644, 726).
THEOREM BuildsAreCurrent == Spec => BuildCurrent
<1>1. IInv /\ [Next]_vars
        => [(wf_build_atlas \/ Periodic) /\ mode /\ sprites # NoSprites /\ held
               => atlas' \in Alike(sprites) \/ failed']_vars
  <2> SUFFICES ASSUME IInv, wf_build_atlas \/ Periodic, mode, sprites # NoSprites, held
               PROVE  atlas' \in Alike(sprites) \/ failed'
    OBVIOUS
  <2>1. sprites \in Sprites /\ valid_count = Count[sprites] /\ Count[sprites] \in Nat \ {0}
    BY SpritesAssumption DEF IInv, TypeOK, valid_count
  <2>2. SkipBuild \/ KeepAtlas \/ Rebuild
    BY DEF wf_build_atlas, Periodic, Look, ClearAtlas
  <2>3. CASE SkipBuild
    <3>1. lastCount = Count[sprites] /\ lastCount # Forced /\ lastCount # 0
      BY <2>1, <2>3 DEF SkipBuild, NothingNew, Forced
    <3>2. atlas \in Sprites /\ lastCount = Count[atlas]
      BY <3>1 DEF IInv, Detected
    <3> QED
      BY <2>3, <3>1, <3>2 DEF SkipBuild, Alike
  <2>4. CASE KeepAtlas
    BY <2>4 DEF KeepAtlas
  <2>5. CASE Rebuild
    BY <2>1, <2>5 DEF Rebuild, Publish, Alike
  <2> QED
    BY <2>2, <2>3, <2>4, <2>5
<1> QED
  BY <1>1, Invariant, PTL DEF Spec, BuildCurrent
================================================================================
