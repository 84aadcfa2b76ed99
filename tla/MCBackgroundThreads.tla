------------------------- MODULE MCBackgroundThreads -------------------------
(* The background threads with one of the collectors and a task that commits. *)
EXTENDS BackgroundThreads

MCCrews == {<<"maker", "pages">>, <<"maker", "log">>}
==============================================================================
