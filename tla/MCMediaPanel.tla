---------------------------- MODULE MCMediaPanel ----------------------------
(* An instance of MediaPanel: a radio station and two podcasts.              *)
EXTENDS MediaPanel

MCFav == {1, 2, 3}
MCKind == [f \in MCFav |-> IF f = 1 THEN "Radio" ELSE "PodcastFeed"]
=============================================================================
