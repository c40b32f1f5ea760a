------------------------------ MODULE ThemeProofs ------------------------------
(***************************************************************************)
(* Proofs about SharedConnection and ThemeManager: types, what sessions    *)
(* that run alone are promised, and the agreement of cache and table.      *)
(***************************************************************************)
EXTENDS ThemeManager, TLAPS

OthersClosed(h) == \A k \in Handlers \ {h} : phase[k] = "closed"

ConnTypes ==
    /\ committed \in [Rows -> Values] /\ view \in [Rows -> Values]
    /\ promised \in [Rows -> Values]
    /\ phase \in [Handlers -> Phases]
    /\ wrote \in [Handlers -> Write \cup {NoWrite}]
    /\ alone \in [Handlers -> BOOLEAN] /\ doubtful \subseteq Rows

\* What the connection shows beyond the file was written by a session under way.
PendingOwned ==
    \A r \in Rows : view[r] # committed[r]
        => \E h \in Handlers : wrote[h] # NoWrite /\ wrote[h].row = r

\* Two sessions under way leave no written row unmarked.
WritesMarked ==
    \A h \in Handlers : wrote[h] # NoWrite
        => phase[h] = "open" /\ (OthersClosed(h) \/ wrote[h].row \in doubtful)

AloneIsAlone ==
    \A h \in Handlers : alone[h]
        => /\ phase[h] # "closed" /\ OthersClosed(h)
           /\ wrote[h] # NoWrite => view[wrote[h].row] = wrote[h].value

ConnInv == ConnTypes /\ PendingOwned /\ WritesMarked /\ AloneIsAlone /\ AloneMeansKept

ThemeTypes ==
    /\ cache \in Handlers \cup {NoObject} /\ age \in 0 .. TTL
    /\ heap \in [Handlers -> Themes]
    /\ request \in [Handlers -> Request]
    /\ suspect \in BOOLEAN

\* An object not yet read is nobody's.
ObjectsOwned ==
    \A h \in Handlers : request[h].at \in {"idle", "load", "loaded"}
        => cache # h /\ \A k \in Handlers : request[k].obj # h

\* A session has written the theme's row only on behalf of a save.
ThemeWrites ==
    \A h \in Handlers :
        /\ wrote[h] # NoWrite => request[h].at \in {"saving", "ending"}
        /\ wrote[h] # NoWrite /\ wrote[h].row = ThemeRow => Writing(h)

StageOfObject ==
    \A h \in Handlers :
        /\ request[h].at \in {"save", "write", "saving"} => Writing(h)
        /\ request[h].at \in {"idle", "load", "loaded", "ending", "end"} => ~ Writing(h)
        /\ request[h].at \in {"idle", "end"} => phase[h] = "closed"

\* What a session alone has read is in the file.
ReadAgrees ==
    \A h \in Handlers : request[h].at = "loaded" /\ alone[h]
        => heap[h] = ThemeOf(committed[ThemeRow])

\* Other components write their own rows.
ThemeRowHolds ==
    /\ view[ThemeRow] \in Themes \cup {Absent}
    /\ committed[ThemeRow] \in Themes \cup {Absent}

CacheInv ==
    /\ ConnInv /\ ThemeTypes /\ ThemeRowHolds /\ ObjectsOwned /\ ThemeWrites /\ StageOfObject
    /\ ReadAgrees /\ CacheAgrees

-----------------------------------------------------------------------------
(* The connection.                                                         *)

LEMMA SelectKeeps ==
    ASSUME ConnInv, NEW h \in Handlers, Select(h)
    PROVE  ConnInv'
<1> USE DEF ConnInv, Select, Running
<1>1. ConnTypes'
  BY DEF ConnTypes, Phases, Unsettled
<1>2. PendingOwned'
  BY DEF ConnTypes, PendingOwned
<1>3. WritesMarked'
  BY DEF ConnTypes, WritesMarked, OthersClosed, InFlight, Unsettled, Write
<1>4. AloneIsAlone'
  BY DEF ConnTypes, AloneIsAlone, OthersClosed, InFlight, WritesMarked
<1>5. AloneMeansKept'
  BY DEF ConnTypes, AloneMeansKept
<1> QED BY <1>1, <1>2, <1>3, <1>4, <1>5

LEMMA PutKeeps ==
    ASSUME ConnInv, ConnectionAssumption,
           NEW h \in Handlers, NEW r \in Rows, NEW v \in Values, Put(h, r, v)
    PROVE  ConnInv'
<1> DEFINE w == [row |-> r, value |-> v]
<1>w. w \in Write /\ w # NoWrite /\ w.row = r /\ w.value = v
  BY DEF Write, ConnectionAssumption
<1>a. /\ wrote[h] = NoWrite /\ wrote' = [wrote EXCEPT ![h] = w]
      /\ view' = [view EXCEPT ![r] = v]
      /\ committed' = committed /\ promised' = promised
      /\ phase' = [phase EXCEPT ![h] = "open"] /\ phase[h] \in {"closed", "open"}
      /\ IF InFlight \subseteq {h}
         THEN alone' = [alone EXCEPT ![h] = (phase[h] = "closed") \/ @] /\ doubtful' = doubtful
         ELSE /\ alone' = [k \in Handlers |-> FALSE]
              /\ doubtful' = doubtful \cup Unsettled([wrote EXCEPT ![h] = w])
  BY DEF Put, Running
<1> HIDE DEF w
<1> USE DEF ConnInv
<1>1. ConnTypes'
  BY <1>a, <1>w DEF ConnTypes, Phases, Unsettled
<1>2. PendingOwned'
  BY <1>a, <1>w DEF ConnTypes, PendingOwned
<1>3. WritesMarked'
  BY <1>a, <1>w DEF ConnTypes, WritesMarked, OthersClosed, InFlight, Unsettled, Write
<1>4. AloneIsAlone'
  BY <1>a, <1>w DEF ConnTypes, AloneIsAlone, OthersClosed, InFlight, WritesMarked
<1>5. AloneMeansKept'
  BY <1>a DEF ConnTypes, AloneMeansKept
<1> QED BY <1>1, <1>2, <1>3, <1>4, <1>5

LEMMA CommitKeeps ==
    ASSUME ConnInv, NEW h \in Handlers, Commit(h)
    PROVE  ConnInv'
<1> USE DEF ConnInv, Commit, Settle, AfterCommit
<1>1. ConnTypes'
  BY DEF ConnTypes, Phases, Write
<1>2. PendingOwned'
  BY DEF ConnTypes, PendingOwned
<1>3. WritesMarked'
  BY DEF ConnTypes, WritesMarked, OthersClosed, AloneIsAlone
<1>4. AloneIsAlone'
  BY DEF ConnTypes, AloneIsAlone, OthersClosed
<1>5. AloneMeansKept'
  <2> SUFFICES ASSUME NEW r \in Rows \ doubtful' PROVE committed'[r] = promised'[r]
    BY DEF AloneMeansKept
  <2>1. CASE wrote[h] # NoWrite /\ wrote[h].row = r
    BY <2>1 DEF ConnTypes, AloneIsAlone, Write
  <2>2. CASE wrote[h] = NoWrite \/ wrote[h].row # r
    <3>1. r \notin doubtful /\ promised'[r] = promised[r]
      BY <2>2 DEF ConnTypes, Write
    <3>2. view[r] = committed[r]
      BY <2>2, <3>1 DEF PendingOwned, WritesMarked, OthersClosed
    <3> QED BY <3>1, <3>2 DEF AloneMeansKept
  <2> QED BY <2>1, <2>2
<1> QED BY <1>1, <1>2, <1>3, <1>4, <1>5

LEMMA RollbackKeeps ==
    ASSUME ConnInv, NEW h \in Handlers, Rollback(h)
    PROVE  ConnInv'
<1> USE DEF ConnInv, Rollback, Settle
<1>1. ConnTypes'
  BY DEF ConnTypes, Phases
<1>2. PendingOwned'
  BY DEF PendingOwned
<1>3. WritesMarked'
  BY DEF ConnTypes, WritesMarked, OthersClosed
<1>4. AloneIsAlone'
  BY DEF ConnTypes, AloneIsAlone, OthersClosed, WritesMarked
<1>5. AloneMeansKept'
  BY DEF AloneMeansKept
<1> QED BY <1>1, <1>2, <1>3, <1>4, <1>5

LEMMA ReturnKeeps ==
    ASSUME ConnInv, NEW h \in Handlers, Return(h)
    PROVE  ConnInv'
<1> USE DEF ConnInv, Return
<1>1. ConnTypes'
  BY DEF ConnTypes, Phases
<1>2. PendingOwned'
  BY DEF PendingOwned
<1>3. WritesMarked'
  BY DEF ConnTypes, WritesMarked, OthersClosed
<1>4. AloneIsAlone'
  BY DEF ConnTypes, AloneIsAlone, OthersClosed
<1>5. AloneMeansKept'
  BY DEF AloneMeansKept
<1> QED BY <1>1, <1>2, <1>3, <1>4, <1>5

LEMMA DisconnectKeeps ==
    ASSUME ConnInv, Disconnect
    PROVE  ConnInv'
BY DEF ConnInv, ConnTypes, Phases, Disconnect, PendingOwned, WritesMarked, AloneIsAlone,
       AloneMeansKept

LEMMA ConnectionKeeps ==
    ASSUME ConnInv, ConnectionAssumption, [ConnNext]_conn
    PROVE  ConnInv'
<1>1. CASE UNCHANGED conn
  BY <1>1 DEF conn, store, ConnInv, ConnTypes, PendingOwned, WritesMarked, OthersClosed,
              AloneIsAlone, AloneMeansKept
<1>2. CASE ConnNext
  BY <1>2, SelectKeeps, PutKeeps, CommitKeeps, RollbackKeeps, ReturnKeeps, DisconnectKeeps
     DEF ConnNext
<1> QED BY <1>1, <1>2

LEMMA ConnectionStarts ==
    ASSUME ConnectionAssumption, ConnInit
    PROVE  ConnInv
BY DEF ConnInit, ConnectionAssumption, ConnInv, ConnTypes, Phases, PendingOwned,
       WritesMarked, AloneIsAlone, AloneMeansKept

-----------------------------------------------------------------------------
(* The theme manager.                                                      *)

LEMMA RecordTypes ==
    /\ Idle \in Request /\ Over \in Request /\ DefaultTheme \in Themes
    /\ Idle.obj = NoObject /\ Over.obj = NoObject /\ Over.at = "end"
    /\ \A v \in Themes \cup {Absent} : ThemeOf(v) \in Themes
BY DEF Idle, Over, Request, DefaultTheme, Themes, ThemeOf, Nothing, Change

LEMMA ZeroAge == 0 \in 0 .. TTL
BY ThemeAssumption DEF ThemeAssumption

LEMMA MergedTypes ==
    \A t \in Themes, c \in Change : Wellformed(c) => Merged(t, c) \in Themes
BY DEF Themes, Change, Wellformed, Merged

LEMMA StepOnConnection ==
    ASSUME CacheInv, ThemeAssumption, ConnectionAssumption, [Next]_vars
    PROVE  [ConnNext]_conn
<1>1. ThemeRow \in Rows /\ Handlers \subseteq Rows /\ Inserted \in Values /\ Themes \subseteq Values
  BY DEF ThemeAssumption
<1>2. ASSUME NEW h \in Handlers, SaveWrite(h) PROVE ConnNext
  <2>1. heap[request[h].obj] \in Values
    BY <1>1, <1>2 DEF SaveWrite, Is, CacheInv, StageOfObject, Writing, ThemeTypes, Request
  <2> QED BY <1>1, <1>2, <2>1 DEF SaveWrite, ConnNext
<1>3. ASSUME NEW h \in Handlers, SessionStep(h) PROVE ConnNext
  BY <1>1, <1>2, <1>3 DEF SessionStep, Load, Loaded, SaveSelect, Saved, Statement, Ended,
     Commits, Fails, Failed, ConnNext
<1>4. ASSUME Next, ~ ConnNext PROVE UNCHANGED conn
  BY <1>3, <1>4 DEF Next, ResetTheme, Miss, UpdateCached, ServeCached, Tick, Restart,
     ConnNext, theme, conn
<1> QED BY <1>4 DEF vars

LEMMA LoadKeeps ==
    ASSUME CacheInv, ConnInv', ThemeAssumption, NEW h \in Handlers, Load(h)
    PROVE  CacheInv'
<1> USE DEF CacheInv, Load, Is, Goto, Select, Running, theme
<1>1. ThemeTypes'
  BY RecordTypes, ThemeAssumption DEF ThemeTypes, Request, ThemeRowHolds, ThemeAssumption
<1>2. ThemeRowHolds'
  BY DEF ThemeRowHolds
<1>3. ObjectsOwned'
  BY RecordTypes, ThemeAssumption DEF ObjectsOwned, ThemeTypes, Request, ThemeAssumption
<1>4. ThemeWrites'
  BY RecordTypes, ThemeAssumption
     DEF ThemeWrites, Writing, ThemeTypes, Request, ConnInv, ConnTypes, WritesMarked, ThemeAssumption
<1>5. StageOfObject'
  BY RecordTypes DEF StageOfObject, Writing, ThemeTypes, Request, ConnInv, ConnTypes
<1>6. ReadAgrees'
  <2>1. SUFFICES ASSUME NEW k \in Handlers, request'[k].at = "loaded", alone'[k]
                 PROVE  heap'[k] = ThemeOf(committed[ThemeRow])
    BY DEF ReadAgrees
  <2>2. CASE k = h
    <3>1. InFlight \subseteq {h} /\ OthersClosed(h)
      BY <2>1, <2>2 DEF ConnInv, ConnTypes, InFlight, OthersClosed, AloneIsAlone
    <3>2. view[ThemeRow] = committed[ThemeRow]
      BY <3>1, ThemeAssumption
         DEF ThemeAssumption, ConnInv, PendingOwned, WritesMarked, ThemeWrites, OthersClosed
    <3> QED BY <2>1, <2>2, <3>2 DEF ThemeTypes
  <2>3. CASE k # h
    <3>1. request[k].at = "loaded" /\ alone[k] /\ heap'[k] = heap[k]
      BY <2>1, <2>3 DEF ThemeTypes, ConnInv, ConnTypes
    <3> QED BY <3>1 DEF ReadAgrees
  <2> QED BY <2>2, <2>3
<1>7. CacheAgrees'
  BY RecordTypes DEF CacheAgrees, Writing, ThemeTypes, Request, ObjectsOwned
<1> QED BY <1>1, <1>2, <1>3, <1>4, <1>5, <1>6, <1>7

\* A theme that reading refuses ends the request; another is cached, and then
\* either the request ends or its object becomes h, changed.
LEMMA LoadedKeeps ==
    ASSUME CacheInv, ConnInv', ThemeAssumption, NEW h \in Handlers, Loaded(h)
    PROVE  CacheInv'
<1> DEFINE u == [Idle EXCEPT !.op = request[h].op, !.obj = h, !.at = "save"]
<1> USE DEF CacheInv
<1>u. request[h].at = "loaded" /\ request[h] \in Request
  BY DEF Loaded, Is, ThemeTypes
<1>v. u \in Request /\ u.obj = h /\ u.at = "save"
  BY <1>u DEF Idle, Request, Nothing, Change
<1>r. Return(h)
  BY DEF Loaded
<1>c. \/ /\ request' = [request EXCEPT ![h] = Over] /\ UNCHANGED <<cache, age, heap, suspect>>
      \/ /\ cache' = h /\ age' = 0 /\ suspect' = ~ alone[h] /\ Readable(heap[h])
         /\ request' = [request EXCEPT ![h] = Over] /\ heap' = heap
      \/ /\ cache' = h /\ age' = 0 /\ suspect' = ~ alone[h]
         /\ request' = [request EXCEPT ![h] = u]
         /\ Wellformed(request[h].change)
         /\ heap' = [heap EXCEPT ![h] = Merged(@, request[h].change)]
  BY DEF Loaded, End, Proceed, FitForCache, theme
<1> HIDE DEF u
<1>m. Wellformed(request[h].change) => Merged(heap[h], request[h].change) \in Themes
  BY <1>u, MergedTypes DEF Request, ThemeTypes
<1>1. ThemeTypes'
  <2>1. cache' \in Handlers \cup {NoObject} /\ age' \in 0 .. TTL
    BY <1>c, ThemeAssumption DEF ThemeTypes, ThemeAssumption
  <2>2. heap' \in [Handlers -> Themes]
    BY <1>c, <1>m DEF ThemeTypes
  <2>3. request' \in [Handlers -> Request]
    BY <1>c, <1>v, RecordTypes DEF ThemeTypes
  <2>4. suspect' \in BOOLEAN
    BY <1>c DEF ThemeTypes, ConnInv, ConnTypes
  <2> QED BY <2>1, <2>2, <2>3, <2>4 DEF ThemeTypes
<1>2. ThemeRowHolds'
  BY <1>r DEF ThemeRowHolds, Return
<1>3. ObjectsOwned'
  <2>1. request'[h] \in {Over, u} /\ \A k \in Handlers \ {h} : request'[k] = request[k]
    BY <1>c DEF ThemeTypes
  <2>2. cache' \in {cache, h}
    BY <1>c
  <2> QED BY <2>1, <2>2, <1>u, <1>v, RecordTypes, ThemeAssumption DEF ObjectsOwned, ThemeTypes, ThemeAssumption
<1>4. ThemeWrites'
  BY <1>c, <1>u, <1>v, <1>r, RecordTypes, ThemeAssumption
     DEF ThemeWrites, Writing, ThemeTypes, ConnInv, ConnTypes, Return, ThemeAssumption
<1>5. StageOfObject'
  BY <1>c, <1>v, <1>r, RecordTypes, ThemeAssumption
     DEF StageOfObject, Writing, ThemeTypes, ConnInv, ConnTypes, Return, ThemeAssumption
<1>6. ReadAgrees'
  BY <1>c, <1>v, <1>r, RecordTypes DEF ReadAgrees, ThemeTypes, ConnInv, ConnTypes, AloneIsAlone,
     OthersClosed, Return
<1>7. CacheAgrees'
  <2>1. CASE request' = [request EXCEPT ![h] = u]
    BY <2>1, <1>v, ThemeAssumption DEF CacheAgrees, Writing, ThemeTypes, ThemeAssumption
  <2>2. CASE request' = [request EXCEPT ![h] = Over] /\ cache' = h /\ suspect' = ~ alone[h]
             /\ Readable(heap[h]) /\ heap' = heap
    BY <2>2, <1>u, <1>r DEF CacheAgrees, ReadAgrees, Return
  <2>3. CASE request' = [request EXCEPT ![h] = Over] /\ UNCHANGED <<cache, age, heap, suspect>>
    BY <2>3, <1>u, <1>r, RecordTypes DEF CacheAgrees, Writing, StageOfObject, ThemeTypes, Return
  <2> QED BY <1>c, <2>1, <2>2, <2>3
<1> QED BY <1>1, <1>2, <1>3, <1>4, <1>5, <1>6, <1>7

LEMMA SaveSelectKeeps ==
    ASSUME CacheInv, ConnInv', ThemeAssumption, NEW h \in Handlers, SaveSelect(h)
    PROVE  CacheInv'
<1> USE DEF CacheInv, SaveSelect, Is, Select, Running, theme
<1>1. ThemeTypes'
  <2> DEFINE e == view[ThemeRow] # Absent
  <2>1. e \in BOOLEAN
    OBVIOUS
  <2> DEFINE q == [request[h] EXCEPT !.at = "write", !.exists = e]
  <2>2. request' = [request EXCEPT ![h] = q]
    BY DEF ThemeTypes
  <2> HIDE DEF e
  <2>3. q \in Request
    BY <2>1 DEF ThemeTypes, Request
  <2> HIDE DEF q
  <2>4. request' \in [Handlers -> Request]
    BY <2>2, <2>3 DEF ThemeTypes
  <2> QED BY <2>4 DEF ThemeTypes
<1>2. ThemeRowHolds'
  BY DEF ThemeRowHolds
<1>3. ObjectsOwned'
  BY RecordTypes, ThemeAssumption DEF ObjectsOwned, ThemeTypes, Request, ThemeAssumption
<1>4. ThemeWrites'
  BY RecordTypes, ThemeAssumption
     DEF ThemeWrites, Writing, ThemeTypes, Request, ConnInv, ConnTypes, WritesMarked, ThemeAssumption
<1>5. StageOfObject'
  BY RecordTypes DEF StageOfObject, Writing, ThemeTypes, Request, ConnInv, ConnTypes
<1>6. ReadAgrees'
  BY DEF ReadAgrees, ThemeTypes, Request, ObjectsOwned, ConnInv, ConnTypes, AloneIsAlone, OthersClosed
<1>7. CacheAgrees'
  BY RecordTypes DEF CacheAgrees, Writing, ThemeTypes, Request, ObjectsOwned
<1> QED BY <1>1, <1>2, <1>3, <1>4, <1>5, <1>6, <1>7

LEMMA SaveWriteKeeps ==
    ASSUME CacheInv, ConnInv', ThemeAssumption, NEW h \in Handlers, SaveWrite(h)
    PROVE  CacheInv'
<1> USE DEF CacheInv, SaveWrite, Is, Goto, Put, Select, Running, theme
<1>1. ThemeTypes'
  BY RecordTypes, ThemeAssumption DEF ThemeTypes, Request, ThemeRowHolds, ThemeAssumption
<1>2. ThemeRowHolds'
  BY ThemeAssumption DEF ThemeAssumption, ThemeRowHolds, ConnInv, ConnTypes, StageOfObject, Writing, ThemeTypes, Request
<1>3. ObjectsOwned'
  BY RecordTypes, ThemeAssumption DEF ObjectsOwned, ThemeTypes, Request, ThemeAssumption
<1>4. ThemeWrites'
  BY RecordTypes, ThemeAssumption
     DEF ThemeWrites, Writing, ThemeTypes, Request, ConnInv, ConnTypes, WritesMarked, ThemeAssumption,
         StageOfObject
<1>5. StageOfObject'
  BY RecordTypes DEF StageOfObject, Writing, ThemeTypes, Request, ConnInv, ConnTypes
<1>6. ReadAgrees'
  BY DEF ReadAgrees, ThemeTypes, Request, ObjectsOwned, ConnInv, ConnTypes, AloneIsAlone, OthersClosed
<1>7. CacheAgrees'
  BY RecordTypes DEF CacheAgrees, Writing, ThemeTypes, Request, ObjectsOwned
<1> QED BY <1>1, <1>2, <1>3, <1>4, <1>5, <1>6, <1>7

LEMMA SavedKeeps ==
    ASSUME CacheInv, ConnInv', ThemeAssumption, NEW h \in Handlers, Saved(h)
    PROVE  CacheInv'
<1> USE DEF CacheInv, Saved, Is, End, Return, AfterSave, theme
<1>1. ThemeTypes'
  <2>0. cache' = NoObject /\ age' = 0 /\ heap' = heap /\ suspect' = FALSE
    OBVIOUS
  <2>1. age' \in 0 .. TTL
    BY <2>0, ZeroAge
  <2>2. request' \in [Handlers -> Request]
    BY RecordTypes DEF ThemeTypes
  <2>3. suspect' \in BOOLEAN
    BY <2>0, Zenon
  <2> QED BY <2>0, <2>1, <2>2, <2>3 DEF ThemeTypes
<1>2. ThemeRowHolds'
  BY DEF ThemeRowHolds
<1>3. ObjectsOwned'
  BY RecordTypes, ThemeAssumption DEF ObjectsOwned, ThemeTypes, Request, ThemeAssumption
<1>4. ThemeWrites'
  BY RecordTypes, ThemeAssumption
     DEF ThemeWrites, Writing, ThemeTypes, Request, ConnInv, ConnTypes, WritesMarked, ThemeAssumption
<1>5. StageOfObject'
  BY RecordTypes DEF StageOfObject, Writing, ThemeTypes, Request, ConnInv, ConnTypes
<1>6. ReadAgrees'
  BY DEF ReadAgrees, ThemeTypes, Request, ObjectsOwned, ConnInv, ConnTypes, AloneIsAlone, OthersClosed
<1>7. CacheAgrees'
  BY RecordTypes DEF CacheAgrees, Writing, ThemeTypes, Request, ObjectsOwned
<1> QED BY <1>1, <1>2, <1>3, <1>4, <1>5, <1>6, <1>7

LEMMA StatementKeeps ==
    ASSUME CacheInv, ConnInv', ThemeAssumption, NEW h \in Handlers, Statement(h)
    PROVE  CacheInv'
<1> USE DEF CacheInv, Statement, Is, Goto, Put, Select, Running, theme
<1>1. ThemeTypes'
  BY RecordTypes, ThemeAssumption DEF ThemeTypes, Request, ThemeRowHolds, ThemeAssumption
<1>2. ThemeRowHolds'
  BY ThemeAssumption DEF ThemeAssumption, ThemeRowHolds, ConnInv, ConnTypes
<1>3. ObjectsOwned'
  BY RecordTypes, ThemeAssumption DEF ObjectsOwned, ThemeTypes, Request, ThemeAssumption
<1>4. ThemeWrites'
  BY RecordTypes, ThemeAssumption
     DEF ThemeWrites, Writing, ThemeTypes, Request, ConnInv, ConnTypes, WritesMarked, ThemeAssumption
<1>5. StageOfObject'
  BY RecordTypes DEF StageOfObject, Writing, ThemeTypes, Request, ConnInv, ConnTypes
<1>6. ReadAgrees'
  BY DEF ReadAgrees, ThemeTypes, Request, ObjectsOwned, ConnInv, ConnTypes, AloneIsAlone, OthersClosed
<1>7. CacheAgrees'
  BY RecordTypes DEF CacheAgrees, Writing, ThemeTypes, Request, ObjectsOwned
<1> QED BY <1>1, <1>2, <1>3, <1>4, <1>5, <1>6, <1>7

LEMMA EndedKeeps ==
    ASSUME CacheInv, ConnInv', ThemeAssumption, NEW h \in Handlers, Ended(h)
    PROVE  CacheInv'
<1> USE DEF CacheInv, Ended, Is, End, Return, theme
<1>1. ThemeTypes'
  BY RecordTypes, ThemeAssumption DEF ThemeTypes, Request, ThemeRowHolds, ThemeAssumption
<1>2. ThemeRowHolds'
  BY DEF ThemeRowHolds
<1>3. ObjectsOwned'
  BY RecordTypes, ThemeAssumption DEF ObjectsOwned, ThemeTypes, Request, ThemeAssumption
<1>4. ThemeWrites'
  BY RecordTypes, ThemeAssumption
     DEF ThemeWrites, Writing, ThemeTypes, Request, ConnInv, ConnTypes, WritesMarked, ThemeAssumption
<1>5. StageOfObject'
  BY RecordTypes DEF StageOfObject, Writing, ThemeTypes, Request, ConnInv, ConnTypes
<1>6. ReadAgrees'
  BY DEF ReadAgrees, ThemeTypes, Request, ObjectsOwned, ConnInv, ConnTypes, AloneIsAlone, OthersClosed
<1>7. CacheAgrees'
  BY DEF CacheAgrees, Writing, ThemeTypes, Request, StageOfObject
<1> QED BY <1>1, <1>2, <1>3, <1>4, <1>5, <1>6, <1>7

LEMMA CommitsKeeps ==
    ASSUME CacheInv, ConnInv', ThemeAssumption, NEW h \in Handlers, Commits(h)
    PROVE  CacheInv'
<1> USE DEF CacheInv, Commits, Commit, Settle, AfterCommit, theme
<1>1. ThemeTypes'
  BY RecordTypes, ThemeAssumption DEF ThemeTypes, Request, ThemeRowHolds, ThemeAssumption
<1>2. ThemeRowHolds'
  BY DEF ThemeRowHolds
<1>3. ObjectsOwned'
  BY RecordTypes, ThemeAssumption DEF ObjectsOwned, ThemeTypes, Request, ThemeAssumption
<1>4. ThemeWrites'
  BY RecordTypes, ThemeAssumption
     DEF ThemeWrites, Writing, ThemeTypes, Request, ConnInv, ConnTypes, WritesMarked, ThemeAssumption
<1>5. StageOfObject'
  BY RecordTypes DEF StageOfObject, Writing, ThemeTypes, Request, ConnInv, ConnTypes
<1>6. ReadAgrees'
  BY ThemeAssumption DEF ReadAgrees, ThemeTypes, Request, PendingOwned, WritesMarked, ThemeWrites, ThemeAssumption, ConnInv, ConnTypes, AloneIsAlone, OthersClosed
<1>7. CacheAgrees'
  BY ThemeAssumption DEF CacheAgrees, Writing, ThemeAssumption, ConnInv, PendingOwned, ThemeWrites
<1> QED BY <1>1, <1>2, <1>3, <1>4, <1>5, <1>6, <1>7

LEMMA FailsKeeps ==
    ASSUME CacheInv, ConnInv', ThemeAssumption, NEW h \in Handlers, Fails(h)
    PROVE  CacheInv'
<1> USE DEF CacheInv, Fails, Goto, Rollback, Settle, theme
<1>1. ThemeTypes'
  BY RecordTypes, ThemeAssumption DEF ThemeTypes, Request, ThemeRowHolds, ThemeAssumption
<1>2. ThemeRowHolds'
  BY DEF ThemeRowHolds
<1>3. ObjectsOwned'
  BY RecordTypes, ThemeAssumption DEF ObjectsOwned, ThemeTypes, Request, ThemeAssumption
<1>4. ThemeWrites'
  BY RecordTypes, ThemeAssumption
     DEF ThemeWrites, Writing, ThemeTypes, Request, ConnInv, ConnTypes, WritesMarked, ThemeAssumption
<1>5. StageOfObject'
  BY RecordTypes DEF StageOfObject, Writing, ThemeTypes, Request, ConnInv, ConnTypes
<1>6. ReadAgrees'
  BY DEF ReadAgrees, ThemeTypes, Request, ObjectsOwned, ConnInv, ConnTypes, AloneIsAlone, OthersClosed
<1>7. CacheAgrees'
  BY RecordTypes DEF CacheAgrees, Writing, ThemeTypes, Request, ObjectsOwned
<1> QED BY <1>1, <1>2, <1>3, <1>4, <1>5, <1>6, <1>7

LEMMA FailedKeeps ==
    ASSUME CacheInv, ConnInv', ThemeAssumption, NEW h \in Handlers, Failed(h)
    PROVE  CacheInv'
<1> USE DEF CacheInv, Failed, Is, End, Return, theme
<1>1. ThemeTypes'
  BY RecordTypes, ThemeAssumption DEF ThemeTypes, Request, ThemeRowHolds, ThemeAssumption
<1>2. ThemeRowHolds'
  BY DEF ThemeRowHolds
<1>3. ObjectsOwned'
  BY RecordTypes, ThemeAssumption DEF ObjectsOwned, ThemeTypes, Request, ThemeAssumption
<1>4. ThemeWrites'
  BY RecordTypes, ThemeAssumption
     DEF ThemeWrites, Writing, ThemeTypes, Request, ConnInv, ConnTypes, WritesMarked, ThemeAssumption
<1>5. StageOfObject'
  BY RecordTypes DEF StageOfObject, Writing, ThemeTypes, Request, ConnInv, ConnTypes
<1>6. ReadAgrees'
  BY DEF ReadAgrees, ThemeTypes, Request, ObjectsOwned, ConnInv, ConnTypes, AloneIsAlone, OthersClosed
<1>7. CacheAgrees'
  BY RecordTypes DEF CacheAgrees, Writing, ThemeTypes, Request, ObjectsOwned
<1> QED BY <1>1, <1>2, <1>3, <1>4, <1>5, <1>6, <1>7

LEMMA ResetThemeKeeps ==
    ASSUME CacheInv, ConnInv', ThemeAssumption, NEW h \in Handlers, ResetTheme(h)
    PROVE  CacheInv'
<1> USE DEF CacheInv, ResetTheme, Is, theme
<1>1. ThemeTypes'
  BY RecordTypes, ThemeAssumption DEF ThemeTypes, Request, ThemeAssumption
<1>2. ThemeRowHolds'
  BY DEF ThemeRowHolds, conn, store
<1>3. ObjectsOwned'
  BY RecordTypes, ThemeAssumption DEF ObjectsOwned, ThemeTypes, Request, ThemeAssumption
<1>4. ThemeWrites'
  BY RecordTypes DEF ThemeWrites, StageOfObject, WritesMarked, Writing, ThemeTypes, Request, ConnInv, conn
<1>5. StageOfObject'
  BY RecordTypes, ThemeAssumption DEF StageOfObject, Writing, ThemeTypes, Request, ThemeAssumption, conn
<1>6. ReadAgrees'
  BY RecordTypes DEF ReadAgrees, ThemeTypes, Request, ObjectsOwned, conn, store
<1>7. CacheAgrees'
  BY RecordTypes, ThemeAssumption DEF CacheAgrees, Writing, ThemeTypes, Request, ObjectsOwned, StageOfObject,
     ThemeAssumption, conn, store
<1> QED BY <1>1, <1>2, <1>3, <1>4, <1>5, <1>6, <1>7

LEMMA MissKeeps ==
    ASSUME CacheInv, ConnInv', ThemeAssumption, NEW h \in Handlers,
           NEW op \in {"show", "update"}, NEW u \in Change, Miss(h, op, u)
    PROVE  CacheInv'
<1> USE DEF CacheInv, Miss, Is, theme
<1>1. ThemeTypes'
  BY RecordTypes, ThemeAssumption DEF ThemeTypes, Request, ThemeAssumption
<1>2. ThemeRowHolds'
  BY DEF ThemeRowHolds, conn, store
<1>3. ObjectsOwned'
  BY RecordTypes, ThemeAssumption DEF ObjectsOwned, ThemeTypes, Request, ThemeAssumption
<1>4. ThemeWrites'
  BY RecordTypes DEF ThemeWrites, StageOfObject, WritesMarked, Writing, ThemeTypes, Request, ConnInv, conn
<1>5. StageOfObject'
  BY RecordTypes, ThemeAssumption DEF StageOfObject, Writing, ThemeTypes, Request, ThemeAssumption, conn
<1>6. ReadAgrees'
  BY RecordTypes DEF ReadAgrees, ThemeTypes, Request, ObjectsOwned, conn, store
<1>7. CacheAgrees'
  BY RecordTypes, ThemeAssumption DEF CacheAgrees, Writing, ThemeTypes, Request, ObjectsOwned, StageOfObject,
     ThemeAssumption, conn, store
<1> QED BY <1>1, <1>2, <1>3, <1>4, <1>5, <1>6, <1>7

LEMMA CachedKeeps ==
    ASSUME CacheInv, ConnInv', ThemeAssumption, ServeCached \/ Tick
    PROVE  CacheInv'
<1> USE DEF CacheInv, ServeCached, Tick, CacheValid, AgeAfterHit, theme
<1>1. ThemeTypes'
  BY RecordTypes, ThemeAssumption DEF ThemeTypes, Request, ThemeAssumption
<1>2. ThemeRowHolds'
  BY DEF ThemeRowHolds, conn, store
<1>3. ObjectsOwned'
  BY RecordTypes, ThemeAssumption DEF ObjectsOwned, ThemeTypes, Request, ThemeAssumption
<1>4. ThemeWrites'
  BY RecordTypes DEF ThemeWrites, StageOfObject, WritesMarked, Writing, ThemeTypes, Request, ConnInv, conn
<1>5. StageOfObject'
  BY RecordTypes, ThemeAssumption DEF StageOfObject, Writing, ThemeTypes, Request, ThemeAssumption, conn
<1>6. ReadAgrees'
  BY RecordTypes DEF ReadAgrees, ThemeTypes, Request, ObjectsOwned, conn, store
<1>7. CacheAgrees'
  BY RecordTypes, ThemeAssumption DEF CacheAgrees, Writing, ThemeTypes, Request, ObjectsOwned, StageOfObject,
     ThemeAssumption, conn, store
<1> QED BY <1>1, <1>2, <1>3, <1>4, <1>5, <1>6, <1>7

\* An update that finds the cache valid: refused, or applied to the cached object.
LEMMA UpdateCachedKeeps ==
    ASSUME CacheInv, ConnInv', ThemeAssumption, NEW h \in Handlers, NEW c \in Change,
           UpdateCached(h, c)
    PROVE  CacheInv'
<1> DEFINE u == [Idle EXCEPT !.op = "update", !.obj = cache, !.at = "save"]
<1> USE DEF CacheInv
<1>u. request[h].at = "idle" /\ cache \in Handlers
  BY DEF UpdateCached, Is, CacheValid, ThemeTypes
<1>v. u \in Request /\ u.obj = cache /\ u.at = "save"
  BY <1>u DEF Idle, Request, Nothing, Change
<1>c. /\ UNCHANGED <<conn, cache, age, suspect>>
      /\ \/ request' = [request EXCEPT ![h] = Over] /\ heap' = heap
         \/ /\ request' = [request EXCEPT ![h] = u]
            /\ Wellformed(c) /\ heap' = [heap EXCEPT ![cache] = Merged(@, c)]
  BY DEF UpdateCached, End, Proceed, AgeAfterHit
<1> HIDE DEF u
<1>m. Wellformed(c) => Merged(heap[cache], c) \in Themes
  BY <1>u, MergedTypes DEF ThemeTypes
<1>1. ThemeTypes'
  BY <1>c, <1>v, <1>m, RecordTypes DEF ThemeTypes
<1>2. ThemeRowHolds'
  BY <1>c DEF ThemeRowHolds, conn, store
<1>3. ObjectsOwned'
  BY <1>c, <1>u, <1>v, RecordTypes, ThemeAssumption DEF ObjectsOwned, ThemeTypes, ThemeAssumption
<1>4. ThemeWrites'
  BY <1>c, <1>u, <1>v, RecordTypes DEF ThemeWrites, StageOfObject, Writing, ThemeTypes, conn
<1>5. StageOfObject'
  BY <1>c, <1>u, <1>v, RecordTypes, ThemeAssumption
     DEF StageOfObject, Writing, ThemeTypes, ThemeAssumption, conn
<1>6. ReadAgrees'
  BY <1>c, <1>u, <1>v, RecordTypes DEF ReadAgrees, ThemeTypes, ObjectsOwned, conn, store
<1>7. CacheAgrees'
  <2>1. CASE request' = [request EXCEPT ![h] = u]
    BY <2>1, <1>u, <1>v, ThemeAssumption DEF CacheAgrees, Writing, ThemeTypes, ThemeAssumption
  <2>2. CASE request' = [request EXCEPT ![h] = Over] /\ heap' = heap
    BY <2>2, <1>c, <1>u, RecordTypes
       DEF CacheAgrees, Writing, StageOfObject, ThemeTypes, conn, store
  <2> QED BY <1>c, <2>1, <2>2
<1> QED BY <1>1, <1>2, <1>3, <1>4, <1>5, <1>6, <1>7

LEMMA RestartKeeps ==
    ASSUME CacheInv, ConnInv', ThemeAssumption, Restart
    PROVE  CacheInv'
<1> USE DEF CacheInv, Restart, Disconnect, Is
<1>a. \A h \in Handlers : request'[h] \in {Idle, Over} /\ request'[h].obj = NoObject
  BY RecordTypes
<1>1. ThemeTypes'
  <2>1. suspect' \in BOOLEAN
    BY Zenon
  <2>2. age' \in 0 .. TTL /\ cache' = NoObject
    BY ZeroAge
  <2>3. request' \in [Handlers -> Request] /\ heap' \in [Handlers -> Themes]
    BY RecordTypes
  <2> QED BY <2>1, <2>2, <2>3 DEF ThemeTypes
<1>2. ThemeRowHolds'
  BY DEF ThemeRowHolds
<1>3. ObjectsOwned'
  BY <1>a, ThemeAssumption DEF ObjectsOwned, ThemeAssumption
<1>4. ThemeWrites'
  BY <1>a DEF ThemeWrites, Writing
<1>5. StageOfObject'
  BY <1>a DEF StageOfObject, Writing, Idle, Over
<1>6. ReadAgrees'
  BY DEF ReadAgrees
<1>7. CacheAgrees'
  BY DEF CacheAgrees
<1> QED BY <1>1, <1>2, <1>3, <1>4, <1>5, <1>6, <1>7

LEMMA CacheInvKept ==
    ASSUME CacheInv, ThemeAssumption, ConnectionAssumption, [Next]_vars
    PROVE  CacheInv'
<1>1. ConnInv'
  BY StepOnConnection, ConnectionKeeps DEF CacheInv
<1>2. CASE UNCHANGED vars
  BY <1>1, <1>2 DEF vars, conn, store, theme, CacheInv, ThemeTypes, ThemeRowHolds, ObjectsOwned,
     ThemeWrites, StageOfObject, ReadAgrees, CacheAgrees, Writing
<1>3. ASSUME NEW h \in Handlers, SessionStep(h) PROVE CacheInv'
  BY <1>1, <1>3, LoadKeeps, LoadedKeeps, SaveSelectKeeps, SaveWriteKeeps, SavedKeeps,
     StatementKeeps, EndedKeeps, CommitsKeeps, FailsKeeps, FailedKeeps DEF SessionStep
<1>4. CASE Next
  <2>1. Requests \subseteq Handlers /\ Updates \subseteq Change /\ Nothing \in Change
    BY ThemeAssumption DEF ThemeAssumption, Nothing, Change
  <2>2. ASSUME NEW h \in Requests, ResetTheme(h) \/ Miss(h, "show", Nothing) PROVE CacheInv'
    BY <1>1, <2>1, <2>2, ResetThemeKeeps, MissKeeps
  <2>3. ASSUME NEW h \in Requests, NEW u \in Updates, UpdateCached(h, u) \/ Miss(h, "update", u)
        PROVE CacheInv'
    BY <1>1, <2>1, <2>3, UpdateCachedKeeps, MissKeeps
  <2>4. CASE ServeCached \/ Tick \/ Restart
    BY <1>1, <2>4, CachedKeeps, RestartKeeps
  <2> QED BY <1>3, <1>4, <2>2, <2>3, <2>4 DEF Next
<1> QED BY <1>2, <1>4

LEMMA CacheInvStarts ==
    ASSUME ThemeAssumption, ConnectionAssumption, Init
    PROVE  CacheInv
<1>1. ConnInv
  BY ConnectionStarts DEF Init
<1>2. ThemeTypes
  <2>1. suspect \in BOOLEAN
    BY Zenon DEF Init
  <2>2. age \in 0 .. TTL /\ cache = NoObject
    BY ZeroAge DEF Init
  <2>3. request \in [Handlers -> Request] /\ heap \in [Handlers -> Themes]
    BY RecordTypes DEF Init
  <2> QED BY <2>1, <2>2, <2>3 DEF ThemeTypes
<1>3. ThemeRowHolds
  BY ThemeAssumption DEF Init, ConnInit, ThemeRowHolds, ThemeAssumption
<1>4. ObjectsOwned /\ ThemeWrites /\ StageOfObject /\ ReadAgrees /\ CacheAgrees
  BY ThemeAssumption DEF Init, ConnInit, Idle, ObjectsOwned, ThemeWrites, StageOfObject, ReadAgrees,
     CacheAgrees, Writing, ThemeAssumption
<1> QED BY <1>1, <1>2, <1>3, <1>4 DEF CacheInv

LEMMA Invariance == Spec => []CacheInv
<1>1. Init => CacheInv
  BY CacheInvStarts, ThemeAssumption, ConnectionAssumption
<1>2. CacheInv /\ [Next]_vars => CacheInv'
  BY CacheInvKept, ThemeAssumption, ConnectionAssumption
<1> QED BY <1>1, <1>2, PTL DEF Spec

-----------------------------------------------------------------------------
\* Every behaviour of the theme manager and of the sessions next to it keeps
\* every variable in its type.
THEOREM TypeCorrect == Spec => []TypeOK
<1>1. CacheInv => TypeOK
  BY DEF CacheInv, ConnInv, ConnTypes, ThemeTypes, TypeOK
<1> QED BY <1>1, Invariance, PTL

\* What the theme manager and the other components do to the database is what
\* sessions on one connection can do: the detailed specification implements
\* SharedConnection.
THEOREM ImplementsConnection == Spec => ConnSpec
<1>1. Init => ConnInit
  BY DEF Init
<1>2. CacheInv /\ [Next]_vars => [ConnNext]_conn
  BY StepOnConnection, ThemeAssumption, ConnectionAssumption
<1> QED BY <1>1, <1>2, Invariance, PTL DEF Spec, ConnSpec

\* A session that has the shared connection to itself (get_session,
\* database.py:62) keeps its promise, for any numbers of handlers and rows.
THEOREM AloneAlwaysKept == Spec => []AloneMeansKept
<1>1. CacheInv => AloneMeansKept
  BY DEF CacheInv, ConnInv
<1> QED BY <1>1, Invariance, PTL

\* The cached theme is the saved one whenever nobody saves, no save has failed
\* since it was cached (update_theme, theme_manager.py:107) and nothing ran next
\* to the read.
THEOREM CacheAlwaysAgrees == Spec => []CacheAgrees
<1>1. CacheInv => CacheAgrees
  BY DEF CacheInv
<1> QED BY <1>1, Invariance, PTL
================================================================================
