-------------------------- MODULE EntryConfigProofs --------------------------
(***************************************************************************)
(* Proofs about EntryConfig, for all endpoints, families and placements of *)
(* devices.  What a setup, a button or a transport works with is right for *)
(* its own endpoint (Right), and as long as it is calm that endpoint is    *)
(* the one the entry has.                                                  *)
(***************************************************************************)
EXTENDS EntryConfig, TLAPS

Right(r) == r.family \in {None, familyAt[r.endpoint]}

(* Who is at work knows what it works with.                                *)
WorkersOK ==
  /\ familyAt \in [Endpoints -> Families]
  /\ state # "not_loaded" => run \in Data
  /\ polling \/ button = "current" => state = "loaded"
  /\ oldPolling \/ button = "old" => old \in Data

FamiliesRight ==
  calm => /\ ~Stale
          /\ Right(data)
          /\ run \in Data => Right(run)
          /\ old \in Data => Right(old)

Decided == state \in {"first_refresh", "loaded"} => run.family # None

ConfigInv == TypeOK /\ WorkersOK /\ FamiliesRight /\ Decided /\ OwnMode

-----------------------------------------------------------------------------
(* What is chosen was stored or detected, and never made up.               *)
LEMMA ChosenFromBoth ==
  ASSUME NEW stored, NEW detected, NEW hint
  PROVE  Choose(stored, detected, hint) \in {stored, detected, None}
BY DEF Choose

LEMMA NoRunIsNoData == NoRun \notin Data
BY ConfigAssumption DEF NoRun, Data

LEMMA DetectionsTyped ==
  ASSUME WorkersOK, NEW r \in Data
  PROVE  Detections(r.endpoint) \subseteq Families \cup {None}
BY DEF WorkersOK, Data, Detections

LEMMA ClassifiedIsData ==
  ASSUME data \in Data, NEW family \in Families \cup {None}
  PROVE  /\ Classified(family) \in Data
         /\ Classified(family).endpoint = data.endpoint
         /\ Classified(family).family = family
         /\ Classified(family).oneRequest = data.oneRequest
BY DEF Classified, Data

(* Nothing is at work at first.                                            *)
LEMMA ConfigAtFirst == Init => ConfigInv
<1> SUFFICES ASSUME Init PROVE ConfigInv
  OBVIOUS
<1>1. data \in Data /\ run = NoRun /\ old = NoRun /\ state = "not_loaded"
      /\ familyAt \in [Endpoints -> Families] /\ ~data.oneRequest
      /\ Right(data)
  BY DEF Init, Right
<1>2. polling = FALSE /\ oldPolling = FALSE /\ button = "none"
      /\ reload = FALSE /\ calm = TRUE
  BY DEF Init
<1>3. TypeOK
  BY <1>1, <1>2 DEF TypeOK
<1>4. WorkersOK
  BY <1>1, <1>2 DEF WorkersOK
<1>5. FamiliesRight
  BY <1>1, <1>2, NoRunIsNoData DEF FamiliesRight, Stale, Busy
<1>6. Decided /\ OwnMode
  BY <1>1 DEF Decided, OwnMode
<1>7. QED
  BY <1>3, <1>4, <1>5, <1>6 DEF ConfigInv

-----------------------------------------------------------------------------
(* The steps that leave the data and their readers as they are.            *)
LEMMA QuietPreserves ==
  ASSUME ConfigInv, calm' = (calm /\ ~Stale'),
         BeginSetup \/ FirstRefresh \/ Press \/ BeginPoll \/ EndPoll
  PROVE  ConfigInv'
<1>1. TypeOK /\ WorkersOK /\ FamiliesRight /\ Decided /\ OwnMode
  BY DEF ConfigInv
<1>2. UNCHANGED <<familyAt, data, old, oldPolling, reload, promotedAt>>
  BY DEF BeginSetup, FirstRefresh, Press, BeginPoll, EndPoll, tasks
<1>3. run' = run \/ (state = "not_loaded" /\ state' = "setup" /\ run' = data)
  BY DEF BeginSetup, FirstRefresh, Press, BeginPoll, EndPoll
<1>4. TypeOK'
  BY <1>1, <1>2, <1>3
     DEF TypeOK, BeginSetup, FirstRefresh, Press, BeginPoll, EndPoll, tasks
<1>5. WorkersOK'
  BY <1>1, <1>2, <1>3
     DEF TypeOK, WorkersOK, BeginSetup, FirstRefresh, Press, BeginPoll,
         EndPoll, tasks
<1>6. FamiliesRight'
  BY <1>1, <1>2, <1>3 DEF FamiliesRight, Right
<1>7. Decided'
  BY <1>1, <1>3 DEF Decided, BeginSetup, FirstRefresh, Press, BeginPoll, EndPoll
<1>8. OwnMode'
  BY <1>1, <1>2 DEF OwnMode
<1>9. QED
  BY <1>4, <1>5, <1>6, <1>7, <1>8 DEF ConfigInv

LEMMA ConfigureReloadPreserve ==
  ASSUME ConfigInv, calm' = (calm /\ ~Stale'),
         \/ \E endpoint \in Endpoints : Configure(endpoint)
         \/ Reload \/ EndOldPoll
  PROVE  ConfigInv'
<1>1. TypeOK /\ WorkersOK /\ FamiliesRight /\ Decided /\ OwnMode
  BY DEF ConfigInv
<1>2. CASE \E endpoint \in Endpoints : Configure(endpoint)
  <2>1. PICK endpoint \in Endpoints : Configure(endpoint)
    BY <1>2
  <2>2. UNCHANGED <<familyAt, state, run, polling, old, oldPolling, button>>
    BY <2>1 DEF Configure, tasks
  <2>3. \/ data' = data /\ promotedAt' = promotedAt
        \/ /\ data' \in Data /\ data'.endpoint = endpoint /\ data'.family = None
           /\ data'.oneRequest = FALSE
    <3>1. CASE endpoint = data.endpoint
      BY <2>1, <3>1 DEF Configure
    <3>2. CASE endpoint # data.endpoint
      <4>1. data' = Moved(endpoint)
        BY <2>1, <3>2 DEF Configure
      <4>2. Moved(endpoint) \in Data
        BY DEF Moved, Data
      <4>3. QED
        BY <4>1, <4>2 DEF Moved
    <3>3. QED
      BY <3>1, <3>2
  <2>4. TypeOK'
    <3>1. reload' \in BOOLEAN /\ calm' \in BOOLEAN /\ data' \in Data
      BY <1>1, <2>1, <2>3 DEF TypeOK, Configure
    <3>2. QED
      BY <1>1, <2>2, <3>1 DEF TypeOK
  <2>5. WorkersOK' /\ Decided'
    BY <1>1, <2>2 DEF WorkersOK, Decided
  <2>6. FamiliesRight'
    BY <1>1, <2>2, <2>3 DEF FamiliesRight, Right
  <2>7. OwnMode'
    BY <1>1, <2>3 DEF OwnMode
  <2>8. QED
    BY <2>4, <2>5, <2>6, <2>7 DEF ConfigInv
<1>3. CASE Reload
  <2>1. /\ UNCHANGED <<familyAt, data, run, promotedAt>>
        /\ state' = "not_loaded" /\ polling' = FALSE /\ reload' = FALSE
    BY <1>3 DEF Reload
  <2>2. \/ /\ state = "loaded" /\ old' = run /\ oldPolling' = polling
           /\ button' = IF button = "current" THEN "old" ELSE button
        \/ /\ state # "loaded" \/ ~Busy
           /\ UNCHANGED <<old, oldPolling, button>>
    BY <1>3 DEF Reload
  <2>3. button' # "current"
    BY <1>1, <2>2 DEF WorkersOK, Busy
  <2>4. TypeOK'
    BY <1>1, <2>1, <2>2 DEF TypeOK
  <2>5. WorkersOK'
    BY <1>1, <2>1, <2>2, <2>3 DEF WorkersOK
  <2>6. FamiliesRight'
    BY <1>1, <2>1, <2>2 DEF FamiliesRight, Right, WorkersOK
  <2>7. Decided' /\ OwnMode'
    BY <1>1, <2>1 DEF Decided, OwnMode
  <2>8. QED
    BY <2>4, <2>5, <2>6, <2>7 DEF ConfigInv
<1>4. CASE EndOldPoll
  <2>1. /\ oldPolling /\ oldPolling' = FALSE
        /\ UNCHANGED <<familyAt, data, state, run, polling, button, reload,
                       promotedAt>>
        /\ old' = IF button = "old" THEN old ELSE NoRun
    BY <1>4 DEF EndOldPoll, OldWhile
  <2>2. TypeOK'
    BY <1>1, <2>1 DEF TypeOK
  <2>3. WorkersOK' /\ Decided' /\ OwnMode'
    BY <1>1, <2>1 DEF WorkersOK, Decided, OwnMode
  <2>4. FamiliesRight'
    BY <1>1, <2>1, NoRunIsNoData DEF FamiliesRight, Right
  <2>5. QED
    BY <2>2, <2>3, <2>4 DEF ConfigInv
<1>5. QED
  BY <1>2, <1>3, <1>4

(* A setup decides on the family, of its own endpoint.                     *)
LEMMA DecidePreserves ==
  ASSUME ConfigInv, calm' = (calm /\ ~Stale'), Decide
  PROVE  ConfigInv'
<1>1. TypeOK /\ WorkersOK /\ FamiliesRight /\ Decided /\ OwnMode
  BY DEF ConfigInv
<1>2. state = "setup" /\ run \in Data
  BY <1>1 DEF Decide, WorkersOK
<1>3. UNCHANGED <<familyAt, polling, old, oldPolling, button, reload,
                  promotedAt>>
  BY DEF Decide, tasks
<1>4. PICK hint \in Families \cup {None},
           detected \in Detections(run.endpoint) :
        LET selected == Choose(run.family, detected, hint)
        IN  IF selected = None
            THEN state' = "not_loaded" /\ UNCHANGED <<data, run>>
            ELSE /\ state' = "first_refresh"
                 /\ run' = [run EXCEPT !.family = selected]
                 /\ data' \in {Classified(selected), data}
  BY DEF Decide, Detections
<1> DEFINE selected == Choose(run.family, detected, hint)
<1>5. selected \in {run.family, detected, None}
  BY ChosenFromBoth
<1>6. selected \in Families \cup {None}
  BY <1>1, <1>2, <1>4, <1>5, DetectionsTyped DEF Data
<1>7. calm => selected \in {None, familyAt[run.endpoint]}
  BY <1>1, <1>2, <1>5 DEF FamiliesRight, Right, Detections
<1>8. ASSUME selected = None PROVE ConfigInv'
  <2>1. state' = "not_loaded" /\ UNCHANGED <<data, run>>
    BY <1>4, <1>8
  <2>2. TypeOK'
    BY <1>1, <1>3, <2>1 DEF TypeOK
  <2>3. WorkersOK'
    BY <1>1, <1>2, <1>3, <2>1 DEF WorkersOK
  <2>4. FamiliesRight' /\ Decided' /\ OwnMode'
    BY <1>1, <1>3, <2>1 DEF FamiliesRight, Right, Decided, OwnMode
  <2>5. QED
    BY <2>2, <2>3, <2>4 DEF ConfigInv
<1>9. ASSUME selected # None PROVE ConfigInv'
  <2>1. /\ state' = "first_refresh"
        /\ run' = [run EXCEPT !.family = selected]
        /\ data' \in {Classified(selected), data}
    BY <1>4, <1>9
  <2> HIDE DEF selected
  <2>2. /\ run' \in Data /\ run'.family = selected
        /\ run'.endpoint = run.endpoint
    BY <1>2, <1>6, <2>1 DEF Data
  <2>3. /\ data' \in Data /\ data'.endpoint = data.endpoint
        /\ data'.family \in {selected, data.family}
        /\ data'.oneRequest = data.oneRequest
    BY <1>1, <1>6, <2>1, ClassifiedIsData DEF TypeOK
  <2>4. TypeOK'
    BY <1>1, <1>3, <2>1, <2>2, <2>3 DEF TypeOK
  <2>5. WorkersOK'
    BY <1>1, <1>2, <1>3, <2>1, <2>2 DEF WorkersOK
  <2>6. FamiliesRight'
    <3>1. calm => run.endpoint = data.endpoint
      BY <1>1, <1>2 DEF FamiliesRight, Stale
    <3>2. QED
      BY <1>1, <1>3, <1>7, <2>2, <2>3, <3>1 DEF FamiliesRight, Right
  <2>7. Decided' /\ OwnMode'
    BY <1>1, <1>3, <1>9, <2>2, <2>3 DEF Decided, OwnMode
  <2>8. QED
    BY <2>4, <2>5, <2>6, <2>7 DEF ConfigInv
<1>10. QED
  BY <1>8, <1>9

(* A redetection stores what it finds at the endpoint it was begun for.    *)
LEMMA RedetectPreserves ==
  ASSUME ConfigInv, calm' = (calm /\ ~Stale'), Redetect
  PROVE  ConfigInv'
<1>1. TypeOK /\ WorkersOK /\ FamiliesRight /\ Decided /\ OwnMode
  BY DEF ConfigInv
<1>2. Pressed \in Data /\ (calm => Right(Pressed))
  BY <1>1 DEF Redetect, Pressed, WorkersOK, TypeOK, FamiliesRight
<1>3. calm => Pressed.endpoint = data.endpoint
  BY <1>1, NoRunIsNoData
     DEF Redetect, Pressed, WorkersOK, TypeOK, FamiliesRight, Stale, Busy
<1>4. PICK found \in Detections(Pressed.endpoint) :
        \/ /\ data' = Classified(Choose(Pressed.family, found, None))
           /\ reload' = TRUE
        \/ UNCHANGED <<data, reload>>
  BY DEF Redetect
<1> DEFINE selected == Choose(Pressed.family, found, None)
<1>5. selected \in {Pressed.family, found, None}
  BY ChosenFromBoth
<1>6. selected \in Families \cup {None}
  BY <1>1, <1>2, <1>5, DetectionsTyped DEF Data
<1>7. calm => selected \in {None, familyAt[data.endpoint]}
  BY <1>2, <1>3, <1>5 DEF Right, Detections
<1>8. /\ data' \in Data /\ data'.endpoint = data.endpoint
      /\ data'.family \in {selected, data.family}
      /\ data'.oneRequest = data.oneRequest /\ reload' \in BOOLEAN
  <2> HIDE DEF selected
  <2>1. (data' = Classified(selected) /\ reload' = TRUE)
        \/ UNCHANGED <<data, reload>>
    BY <1>4 DEF selected
  <2>2. data \in Data /\ reload \in BOOLEAN
    BY <1>1 DEF TypeOK
  <2>3. CASE data' = Classified(selected) /\ reload' = TRUE
    BY <1>6, <2>2, <2>3, ClassifiedIsData
  <2>4. CASE UNCHANGED <<data, reload>>
    BY <2>2, <2>4
  <2>5. QED
    BY <2>1, <2>3, <2>4
<1>9. /\ button' = "none" /\ old' = IF oldPolling THEN old ELSE NoRun
      /\ UNCHANGED <<familyAt, state, run, polling, oldPolling, promotedAt>>
  BY DEF Redetect, OldWhile
<1>10. TypeOK'
  BY <1>1, <1>8, <1>9 DEF TypeOK
<1>11. WorkersOK' /\ Decided' /\ OwnMode'
  BY <1>1, <1>8, <1>9 DEF WorkersOK, Decided, OwnMode
<1>12. FamiliesRight'
  BY <1>1, <1>7, <1>8, <1>9, NoRunIsNoData DEF FamiliesRight, Right
<1>13. QED
  BY <1>10, <1>11, <1>12 DEF ConfigInv

(* A promotion stores the mode, and nothing else.                          *)
LEMMA PromotePreserves ==
  ASSUME ConfigInv, calm' = (calm /\ ~Stale'), Promote
  PROVE  ConfigInv'
<1>1. TypeOK /\ WorkersOK /\ FamiliesRight /\ Decided /\ OwnMode
  BY DEF ConfigInv
<1>2. state # "not_loaded" /\ run \in Data
  BY <1>1 DEF Promote, WorkersOK
<1>3. /\ data' \in Data /\ data'.endpoint = data.endpoint
      /\ data'.family = data.family
  BY <1>1 DEF Promote, Stores, TypeOK, Data
<1>4. /\ run' \in Data /\ run'.endpoint = run.endpoint
      /\ run'.family = run.family
  BY <1>2 DEF Promote, Data
<1>5. /\ promotedAt' = run.endpoint
      /\ UNCHANGED <<familyAt, state, polling, old, oldPolling, button, reload>>
  BY DEF Promote, Stores, tasks
<1>6. TypeOK'
  BY <1>1, <1>3, <1>4, <1>5 DEF TypeOK
<1>7. WorkersOK' /\ Decided'
  BY <1>1, <1>4, <1>5 DEF WorkersOK, Decided
<1>8. FamiliesRight'
  BY <1>1, <1>2, <1>3, <1>4, <1>5 DEF FamiliesRight, Right
<1>9. OwnMode'
  BY <1>1, <1>3, <1>5 DEF OwnMode, FamiliesRight, Stale, Busy, Promote
<1>10. QED
  BY <1>6, <1>7, <1>8, <1>9 DEF ConfigInv

LEMMA PromoteOldPreserves ==
  ASSUME ConfigInv, calm' = (calm /\ ~Stale'), PromoteOld
  PROVE  ConfigInv'
<1>1. TypeOK /\ WorkersOK /\ FamiliesRight /\ Decided /\ OwnMode
  BY DEF ConfigInv
<1>2. old # NoRun /\ old \in Data
  BY <1>1 DEF PromoteOld, TypeOK
<1>3. /\ data' \in Data /\ data'.endpoint = data.endpoint
      /\ data'.family = data.family
  BY <1>1 DEF PromoteOld, Stores, TypeOK, Data
<1>4. /\ old' \in Data /\ old'.endpoint = old.endpoint
      /\ old'.family = old.family
  BY <1>2 DEF PromoteOld, Data
<1>5. /\ promotedAt' = old.endpoint
      /\ UNCHANGED <<familyAt, state, run, polling, oldPolling, button, reload>>
  BY DEF PromoteOld, Stores
<1>6. TypeOK'
  BY <1>1, <1>3, <1>4, <1>5 DEF TypeOK
<1>7. WorkersOK' /\ Decided'
  BY <1>1, <1>4, <1>5 DEF WorkersOK, Decided
<1>8. FamiliesRight'
  BY <1>1, <1>2, <1>3, <1>4, <1>5 DEF FamiliesRight, Right
<1>9. OwnMode'
  BY <1>1, <1>2, <1>3, <1>5 DEF OwnMode, FamiliesRight, Stale
<1>10. QED
  BY <1>6, <1>7, <1>8, <1>9 DEF ConfigInv

-----------------------------------------------------------------------------
LEMMA ConfigPreserved == ConfigInv /\ [Next]_vars => ConfigInv'
<1>1. ConfigInv /\ Next => ConfigInv'
  BY QuietPreserves, ConfigureReloadPreserve, DecidePreserves,
     RedetectPreserves, PromotePreserves, PromoteOldPreserves DEF Next, Step
<1>2. ConfigInv /\ UNCHANGED vars => ConfigInv'
  BY DEF ConfigInv, TypeOK, WorkersOK, FamiliesRight, Right, Decided, OwnMode,
         Stale, Busy, vars, tasks
<1>3. QED
  BY <1>1, <1>2

LEMMA ConfigAlways == Spec => []ConfigInv
BY ConfigAtFirst, ConfigPreserved, PTL DEF Spec

(* Every variable keeps its type.                                          *)
THEOREM ConfigTypeCorrect == Spec => []TypeOK
<1>1. ConfigInv => TypeOK
  BY DEF ConfigInv
<1>2. QED
  BY <1>1, ConfigAlways, PTL

(* As long as nobody works on for an endpoint that is not configured any   *)
(* more, the loaded coordinator has the family of the device it polls      *)
(* (README.md:176-177).                                                    *)
THEOREM FamilyBelongsToEndpoint == Spec => []OwnFamily
<1>1. ConfigInv => OwnFamily
  BY DEF ConfigInv, OwnFamily, FreshDetection, FamiliesRight, Right, Decided,
         WorkersOK
<1>2. QED
  BY <1>1, ConfigAlways, PTL

(* Under the same condition a stored one-request mode was found out at the *)
(* entry's own endpoint.                                                   *)
THEOREM ModeBelongsToEndpoint == Spec => []OwnMode
<1>1. ConfigInv => OwnMode
  BY DEF ConfigInv
<1>2. QED
  BY <1>1, ConfigAlways, PTL
=============================================================================
