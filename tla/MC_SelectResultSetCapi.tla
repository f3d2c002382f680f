----------------------- MODULE MC_SelectResultSetCapi -----------------------
(* Statement modes and usage profiles for the runs of SelectResultSetCapi. *)
EXTENDS SelectResultSetCapi

(* Every scroll type with a stored result and with streams of one and    *)
(* two rows per chunk.                                                     *)
AllModes == ScrollTypes \X {0, 1, 2}

(* The modes whose cursors cache every row they read: stored results,    *)
(* forward-only streams, and scrollable streams of chunks larger than one.*)
CachingModes == AllModes \ {<<SCROLL, 1>>}

(* An application that walks the result with next() and reads values,   *)
(* while other commands run on the connection, and closes or aborts.    *)
ForwardProfile == {"next", "get", "cacheCompleteLocally", "close", "abort"}

(* An application that walks a result with next(), reads values and     *)
(* calls last().                                                           *)
LastProfile == {"next", "get", "last"}

(* Forward-only streams of one and two rows per chunk.                     *)
ForwardOnlyStreamModes == {FO} \X {1, 2}

(* The scrollable stream of one row per chunk.                            *)
ScrollSingleModes == {<<SCROLL, 1>>}
====
