----------------------------- MODULE ThemeManager -----------------------------
(***************************************************************************)
(* The portal's theme: the row of theme_config, the theme that             *)
(* ThemeManager caches, and the requests that show, update and reset it.   *)
(* Their sessions share the connection of SharedConnection with those of   *)
(* every other component, which appear here as sessions that insert a row  *)
(* of their own or only read.                                              *)
(*                                                                         *)
(* The cache holds a reference: update_theme is given the cached object    *)
(* and changes it in place before it is saved.  An object is named after   *)
(* the request that made it.                                               *)
(***************************************************************************)
EXTENDS SharedConnection

CONSTANTS
    Requests,      \* the handlers of theme requests; the others are other components
    Updates,       \* the changes that updates ask for
    ThemeRow,      \* the row of theme_config with id 1
    Inserted,      \* what the row of another component holds
    NoObject,
    TTL            \* ticks for which a cached theme is valid

\* A blank title passes update_theme and is refused on reading; a colour of
\* three digits, or an empty one, passes update_theme and is refused by the table.
Themes == [title: {"default", "custom", "blank"},
           color: {"default", "custom", "short", "empty"}]
DefaultTheme == [title |-> "default", color |-> "default"]
Readable(t) == t.title # "blank"
Storable(t) == t.color \notin {"short", "empty"}

\* What an update may ask to change: "malformed" is a colour that is neither
\* hexadecimal nor empty.
Change == [title: {"keep", "custom", "blank"},
           color: {"keep", "custom", "short", "empty", "malformed"}]
Nothing == [title |-> "keep", color |-> "keep"]

ASSUME ThemeAssumption ==
    /\ ThemeRow \in Rows /\ Handlers \subseteq Rows /\ ThemeRow \notin Handlers
    /\ Requests \subseteq Handlers /\ Updates \subseteq Change
    /\ Themes \cup {Absent, Inserted} \subseteq Values
    /\ Absent \notin Themes
    /\ NoObject \notin Handlers
    /\ TTL \in Nat \ {0}

VARIABLES
    cache,     \* the cached object
    age,       \* how long ago it was cached
    heap,      \* the theme objects
    request,   \* where each request is
    suspect    \* history: the cached object was read while another session ran,
               \* or a save has failed since

theme == <<cache, age, heap, suspect>>
vars == <<conn, theme, request>>

Request == [op: {"none", "show", "update", "reset"},
            at: {"idle", "load", "loaded", "save", "write", "saving", "ending",
                 "failed", "end"},
            change: Change,
            obj: Handlers \cup {NoObject},   \* the theme object it changes
            exists: BOOLEAN]                 \* its SELECT found the row
Idle == [op |-> "none", at |-> "idle", change |-> Nothing, obj |-> NoObject,
         exists |-> FALSE]
Over == [Idle EXCEPT !.at = "end"]

ThemeOf(value) == IF value = Absent THEN DefaultTheme ELSE value
CacheValid == cache # NoObject /\ age < TTL

Init ==
    /\ ConnInit
    /\ cache = NoObject /\ age = 0
    /\ heap = [h \in Handlers |-> DefaultTheme]
    /\ request = [h \in Handlers |-> Idle]
    /\ suspect = FALSE

Goto(h, stage) == request' = [request EXCEPT ![h].at = stage]
End(h) == request' = [request EXCEPT ![h] = Over]
Is(h, stage) == request[h].at = stage

-----------------------------------------------------------------------------
(* Reading, through the cache.                                             *)

\* The checks of update_theme, which an empty colour is not put to; the faulty
\* variant has none.
WellformedUnchecked(change) == TRUE
Wellformed(change) == change.color # "malformed"
Merged(t, change) ==
    [title |-> IF change.title = "keep" THEN t.title ELSE change.title,
     color |-> IF change.color = "keep" THEN t.color ELSE change.color]

\* With the current theme at hand, in the object o: a request to show it is
\* served, an update is refused or applied to the object.
Proceed(h, op, change, o) ==
    IF op = "update" /\ Wellformed(change)
    THEN /\ heap' = [heap EXCEPT ![o] = Merged(@, change)]
         /\ request' = [request EXCEPT ![h] =
               [Idle EXCEPT !.op = op, !.obj = o, !.at = "save"]]
    ELSE End(h) /\ UNCHANGED heap

\* A hit leaves the age of the cache alone; the faulty variant renews it.
AgeAfterHitRenewed(a) == 0
AgeAfterHit(a) == a

\* Requests that find the cache valid come and go in one step.
ServeCached ==
    /\ CacheValid
    /\ age' = AgeAfterHit(age)
    /\ UNCHANGED <<conn, cache, heap, suspect, request>>

UpdateCached(h, change) ==
    /\ Is(h, "idle") /\ CacheValid
    /\ Proceed(h, "update", change, cache)
    /\ age' = AgeAfterHit(age)
    /\ UNCHANGED <<conn, cache, suspect>>

Miss(h, op, change) ==
    /\ Is(h, "idle") /\ ~ CacheValid
    /\ request' = [request EXCEPT ![h] =
          [@ EXCEPT !.op = op, !.change = change, !.at = "load"]]
    /\ UNCHANGED <<conn, theme>>

Load(h) ==
    /\ Is(h, "load")
    /\ Select(h)
    /\ heap' = [heap EXCEPT ![h] = ThemeOf(view[ThemeRow])]
    /\ Goto(h, "loaded")
    /\ UNCHANGED <<cache, age, suspect>>

\* The session is over: the theme is checked, cached and used. One that fails
\* the check is neither; the request gets the default theme or an error. The
\* faulty variant caches before it checks.
FitForCacheUnchecked(t) == TRUE
FitForCache(t) == Readable(t)

Loaded(h) ==
    /\ Is(h, "loaded")
    /\ Return(h)
    /\ IF FitForCache(heap[h])
       THEN /\ cache' = h /\ age' = 0
            /\ suspect' = ~ alone[h]
            /\ Proceed(h, request[h].op, request[h].change, h)
       ELSE /\ End(h)
            /\ UNCHANGED theme

-----------------------------------------------------------------------------
(* Saving.                                                                 *)

ResetTheme(h) ==
    /\ Is(h, "idle")
    /\ heap' = [heap EXCEPT ![h] = DefaultTheme]
    /\ request' = [request EXCEPT ![h] =
          [@ EXCEPT !.op = "reset", !.obj = h, !.at = "save"]]
    /\ UNCHANGED <<conn, cache, age, suspect>>

SaveSelect(h) ==
    /\ Is(h, "save")
    /\ Select(h)
    /\ request' = [request EXCEPT ![h] =
          [@ EXCEPT !.at = "write", !.exists = (view[ThemeRow] # Absent)]]
    /\ UNCHANGED theme

\* The object as it is now, other requests' changes included. An UPDATE of a
\* row that is gone by now changes nothing; an INSERT of one that is there by
\* now is refused, as is a theme that breaks the table's CHECK.
SaveWrite(h) ==
    /\ Is(h, "write")
    /\ LET t == heap[request[h].obj]
           there == view[ThemeRow] # Absent
       IN /\ Storable(t)
          /\ \/ request[h].exists = there /\ Put(h, ThemeRow, t)
             \/ request[h].exists /\ ~ there /\ Select(h)
    /\ Goto(h, "saving")
    /\ UNCHANGED theme

\* What is cached after a save. The faulty variant keeps it.
AfterSaveKept == cache
AfterSave == NoObject

Saved(h) ==
    /\ Is(h, "saving")
    /\ Return(h)
    /\ cache' = AfterSave /\ age' = 0
    /\ suspect' = FALSE
    /\ End(h)
    /\ UNCHANGED heap

-----------------------------------------------------------------------------
(* Sessions of the other components, and the end of every session.         *)

Statement(h) ==
    /\ h \notin Requests /\ Is(h, "idle")
    /\ Put(h, h, Inserted) \/ Select(h)
    /\ Goto(h, "ending")
    /\ UNCHANGED theme

Ended(h) ==
    /\ Is(h, "ending")
    /\ Return(h)
    /\ End(h)
    /\ UNCHANGED theme

Commits(h) ==
    /\ request[h].at \in {"loaded", "saving", "ending"}
    /\ Commit(h)
    /\ UNCHANGED <<theme, request>>

\* A statement, the commit or the code in the session raises.
Fails(h) ==
    /\ request[h].at \in {"loaded", "write", "saving", "ending"}
    /\ Rollback(h)
    /\ Goto(h, "failed")
    /\ UNCHANGED theme

\* The cache stays as it is, with the object that could not be saved.
Failed(h) ==
    /\ Is(h, "failed")
    /\ Return(h)
    /\ suspect' = (suspect \/ request[h].obj # NoObject)
    /\ End(h)
    /\ UNCHANGED <<cache, age, heap>>

-----------------------------------------------------------------------------
Tick ==
    /\ cache # NoObject /\ age < TTL
    /\ age' = age + 1
    /\ UNCHANGED <<conn, cache, heap, suspect, request>>

\* The cache and the requests under way are lost; the file stays.
Restart ==
    /\ Disconnect
    /\ cache' = NoObject /\ age' = 0 /\ suspect' = FALSE
    /\ heap' = [h \in Handlers |-> DefaultTheme]
    /\ request' = [h \in Handlers |->
          IF Is(h, "idle") THEN Idle ELSE Over]

SessionStep(h) ==
    \/ Load(h) \/ Loaded(h)
    \/ SaveSelect(h) \/ SaveWrite(h) \/ Saved(h)
    \/ Statement(h) \/ Ended(h)
    \/ Commits(h) \/ Fails(h) \/ Failed(h)

Next ==
    \/ \E h \in Requests : ResetTheme(h) \/ Miss(h, "show", Nothing)
    \/ \E h \in Requests, u \in Updates : UpdateCached(h, u) \/ Miss(h, "update", u)
    \/ \E h \in Handlers : SessionStep(h)
    \/ ServeCached \/ Tick \/ Restart

Spec == Init /\ [][Next]_vars

\* Time passes.
FairSpec == Spec /\ WF_vars(Tick)

-----------------------------------------------------------------------------
(* Properties.                                                             *)

\* The types of all variables: update_theme (theme_manager.py:122-138) leaves no
\* theme object with a colour that is neither hexadecimal nor empty.
TypeOK ==
    /\ committed \in [Rows -> Values] /\ view \in [Rows -> Values]
    /\ promised \in [Rows -> Values]
    /\ phase \in [Handlers -> Phases]
    /\ wrote \in [Handlers -> Write \cup {NoWrite}]
    /\ alone \in [Handlers -> BOOLEAN] /\ doubtful \subseteq Rows
    /\ cache \in Handlers \cup {NoObject} /\ age \in 0 .. TTL
    /\ heap \in [Handlers -> Themes]
    /\ request \in [Handlers -> Request]
    /\ suspect \in BOOLEAN

\* A row whose last writer had the connection to itself (get_session,
\* database.py:62) is in the file as that session left it: what it committed is
\* neither lost nor joined by what a failed session wrote.
AloneMeansKept == \A r \in Rows \ doubtful : committed[r] = promised[r]

Writing(h) == request[h].obj # NoObject

\* While nobody saves a theme, the cache (theme_manager.py:74-92, 148) holds the
\* saved one, and one that reading accepts, unless it was read next to another
\* session or a save has failed since.
CacheAgrees ==
    cache # NoObject /\ ~ suspect /\ (\A h \in Handlers : ~ Writing(h))
      => /\ heap[cache] = ThemeOf(committed[ThemeRow])
         /\ Readable(heap[cache])

Stale == CacheValid /\ heap[cache] # ThemeOf(committed[ThemeRow])

\* A theme that differs from the saved one, left by a failed save or an
\* overlapping read, is not shown for ever, however often the cache is read
\* (_is_cache_valid, theme_manager.py:297).
StaleThemeExpires == Stale ~> ~ Stale

\* FR-016 (spec.md:107) asks that bursts of grants are handled concurrently: what
\* the sessions that are over were told is committed (get_session,
\* database.py:67) is in the file. (Refuted.)
AcknowledgedKept ==
    (\A h \in Handlers : phase[h] = "closed")
      => \A r \in Rows : promised[r] # Absent => committed[r] = promised[r]
===============================================================================
