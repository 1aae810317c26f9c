----------------------------- MODULE MCWebData -----------------------------
(* What the web client shows and sends of what it has read: the cache of   *)
(* queries, and the sheets of attendance.  One of them runs.               *)
EXTENDS WebCache, WebSheets

VARIABLE focus      \* the part that runs

\* Two classes today, and one of them yesterday.
MCToday == <<"5A", "today">>
MCKeys == {MCToday, <<"5B", "today">>, <<"5A", "yesterday">>}

MCInit ==
    /\ focus \in {"cache", "sheets"}
    /\ CacheInit /\ SheetInit
    /\ focus # "cache" => pair = CHOOSE p \in Pairs : TRUE
    /\ focus # "sheets" => kind = "class" /\ \A k \in Pupils : place[k] = FirstKey[1]

MCNext ==
    /\ UNCHANGED focus
    /\ \/ focus = "cache" /\ CacheNext /\ UNCHANGED sheetVars
       \/ focus = "sheets" /\ SheetNext /\ UNCHANGED cacheVars

MCSpec == MCInit /\ [][MCNext]_<<focus, cacheVars, sheetVars>>
=============================================================================
