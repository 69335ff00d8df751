------------------------------ MODULE MCMedia ------------------------------
(* Small instances of Media for TLC. *)
EXTENDS Media

CONSTANTS img, up, vid, aud, joined, styled, speech, wander, perform,
          still, upscale, film, anime

MediaTasks == {"scene_image", "image_upscale", "scene_video", "ambient_audio", "scene_mux"}

Seeded(k, l) == [kind |-> k, look |-> l, archived |-> FALSE]

NoSource == [r \in Roles |-> None]

\* A still that is upscaled, an animation of the large one, a track, a mux of that video with
\* a track from elsewhere; an image in a style, and speech for another client.
MadeAs == [j \in Jobs |-> CASE j \in {img, styled} -> "scene_image" [] j = up -> "image_upscale"
                            [] j = vid -> "scene_video" [] j = aud -> "ambient_audio"
                            [] j = joined -> "scene_mux" [] j = speech -> "tts"]
Owners == [j \in Jobs |-> IF j = speech THEN perform ELSE wander]
Chained == [j \in Jobs |-> CASE j = up -> [NoSource EXCEPT !["image"] = img]
                             [] j = vid -> [NoSource EXCEPT !["image"] = up]
                             [] j = joined -> [NoSource EXCEPT !["video"] = vid, !["audio"] = Url]
                             [] OTHER -> NoSource]
Seeds == [t \in MediaTasks |->
    CASE t = "scene_image" -> Seeded("image", still) [] t = "image_upscale" -> Seeded("image", upscale)
      [] t = "scene_video" -> Seeded("video", film) [] t = "ambient_audio" -> Seeded("audio", still)
      [] t = "scene_mux" -> Seeded("mux", still)]

\* The name is made known to everybody, or one client gets another look for it.
StylePuts == {<<Shared, still>>, <<perform, anime>>}

\* An image rule that names the workflow of a film, and a rule that changes its kind.
KindPuts == {<<"scene_image", "image", film>>, <<"scene_image", "mux", still>>}

\* The chain, with two faults and an edit; and what has a style, a voice or neither, with more
\* edits and a fault.
Chain  == [jobs |-> Jobs \ {styled, speech}, faults |-> 2, edits |-> 1]
Styles == [jobs |-> {img, styled, speech}, faults |-> 1, edits |-> 2]

MediaLoads == {Chain, Styles}

=============================================================================
