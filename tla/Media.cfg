SPECIFICATION Spec
CONSTANTS
    img = img
    up = up
    vid = vid
    aud = aud
    joined = joined
    styled = styled
    speech = speech
    wander = wander
    perform = perform
    still = still
    upscale = upscale
    film = film
    anime = anime
    Jobs = {img, up, vid, aud, joined, styled, speech}
    Tasks <- MediaTasks
    SceneImage = "scene_image"
    Speech = "tts"
    Task <- MadeAs
    Owner <- Owners
    Source <- Chained
    Url = url
    Styled = {styled, speech}
    Literal = anime
    Clients = {wander, perform}
    Shared = shared
    Looks = {still, upscale, film, anime}
    Films = {film}
    Animated = {upscale, film}
    Default = still
    FirstRules <- Seeds
    AliasPuts <- StylePuts
    RulePuts <- KindPuts
    None = None
    MaxFaults = 2
    MaxEdits = 2
    Loads <- MediaLoads
CHECK_DEADLOCK FALSE
INVARIANT TypeOK
INVARIANT UrlNamesFile
INVARIANT RanAsSubmitted
INVARIANT RoomForAudio
