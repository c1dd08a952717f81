------------------------- MODULE DirectNrPassProofs -------------------------
(***************************************************************************)
(* The features of the vendor runtime are used only while they exist, and  *)
(* none is forgotten, for every number of passes, setups, features and     *)
(* refusals, whatever is requested and whatever fails.                     *)
(***************************************************************************)
EXTENDS DirectNrPass, TLAPS

-------------------------------------------------------------------------------
(* What the variables may hold.                                            *)

\* Building a generation and releasing one keep its type.
LEMMA GenerationTypes ==
  /\ \A s \in [setup : 0 .. MaxSetups, passes : 0 .. kMaxPasses] : Build(s) \in Generation
  /\ \A g \in Generation : Released(g) \in Generation
  /\ NoSetup \in [setup : 0 .. MaxSetups, passes : 0 .. kMaxPasses]
  <1>1. NoHandles \in [Passes -> Handles \union {NoHandle}]
    BY DEF NoHandles
  <1>2. NoSetup \in [setup : 0 .. MaxSetups, passes : 0 .. kMaxPasses]
    BY PassAssumption DEF NoSetup
  <1>3. ASSUME NEW s \in [setup : 0 .. MaxSetups, passes : 0 .. kMaxPasses]
        PROVE  Build(s) \in Generation
    BY <1>1 DEF Build, Generation
  <1>4. ASSUME NEW g \in Generation PROVE Released(g) \in Generation
    BY <1>1 DEF Released, Generation
  <1> QED BY <1>2, <1>3, <1>4

LEMMA TypeInit == Init => TypeOK
  <1> SUFFICES ASSUME Init PROVE TypeOK
    OBVIOUS
  <1> USE PassAssumption DEF Init
  <1>1. current \in Generation
    <2>1. PICK n \in Passes : current = Build([setup |-> 1, passes |-> n])
      OBVIOUS
    <2>2. [setup |-> 1, passes |-> n] \in [setup : 0 .. MaxSetups, passes : 0 .. kMaxPasses]
      BY DEF Passes
    <2> QED BY <2>1, <2>2, GenerationTypes
  <1>2. next \in Generation /\ pending \in [setup : 0 .. MaxSetups, passes : 0 .. kMaxPasses]
    BY GenerationTypes DEF NoGeneration
  <1>3. live \in SUBSET Handles /\ fresh \in SUBSET Handles
    OBVIOUS
  <1>4. /\ requested \in 1 .. MaxSetups /\ pass \in 1 .. kMaxPasses + 1
        /\ frames \in 0 .. kCreateAtFrame /\ consecutiveFailures \in Nat
        /\ shown \in 0 .. MaxSetups /\ dropped \in 0 .. MaxSetups
    OBVIOUS
  <1> QED BY <1>1, <1>2, <1>3, <1>4 DEF TypeOK

LEMMA TypeStep == TypeOK /\ [Next]_vars => TypeOK'
  <1> SUFFICES ASSUME TypeOK, [Next]_vars PROVE TypeOK'
    OBVIOUS
  <1> USE PassAssumption DEF TypeOK, generationVars, requestVars, featureVars, historyVars
  <1>1. ASSUME NEW n \in Passes, RequestPassSetup(n) PROVE TypeOK'
    BY <1>1 DEF RequestPassSetup, Passes
  <1>2. CASE TakePending
    <2>1. next' \in Generation /\ dropped' \in 0 .. MaxSetups
      BY <1>2, GenerationTypes DEF TakePending
    <2>2. frames' \in 0 .. kCreateAtFrame /\ live' \in SUBSET Handles
      BY <1>2 DEF TakePending
    <2> QED BY <1>2, <2>1, <2>2, GenerationTypes DEF TakePending
  <1>3. CASE KeepGeneration
    BY <1>3 DEF KeepGeneration
  <1>4. CASE RestartFailed
    BY <1>4, GenerationTypes DEF RestartFailed, NoGeneration
  <1>5. CASE BeginCreateNext
    BY <1>5 DEF BeginCreateNext
  <1>6. CASE SwapNext
    BY <1>6, GenerationTypes DEF SwapNext, NoGeneration
  <1>7. ASSUME NEW h \in Handles, CreateFeature(h) PROVE TypeOK'
    <2>1. pass \in Passes /\ pass' \in 1 .. kMaxPasses + 1
      <3>1. Target \in Generation
        BY DEF Target
      <3>2. pass <= Target.passes /\ Target.passes \in 0 .. kMaxPasses /\ pass' = pass + 1
        BY <1>7, <3>1 DEF CreateFeature, Generation
      <3> QED BY <3>2 DEF Passes
    <2>2. /\ [next EXCEPT !.handles[pass] = h] \in Generation
          /\ [current EXCEPT !.handles[pass] = h] \in Generation
      BY <2>1 DEF Generation
    <2>3. next' \in Generation /\ current' \in Generation
      BY <1>7, <2>2 DEF CreateFeature
    <2>4. live' \in SUBSET Handles /\ fresh' \in SUBSET Handles /\ recreated' \in BOOLEAN
      BY <1>7 DEF CreateFeature
    <2> QED BY <1>7, <2>1, <2>3, <2>4 DEF CreateFeature
  <1>8. CASE CreateFails
    <2>1. next.setup \in 0 .. MaxSetups
      BY DEF Generation
    <2>2. next' \in Generation /\ current' \in Generation
      BY <1>8, GenerationTypes DEF CreateFails, NoGeneration
    <2>3. live' \in SUBSET Handles /\ dropped' \in 0 .. MaxSetups
      BY <1>8, <2>1 DEF CreateFails
    <2>4. /\ pc' \in {"switch", "idle"} /\ shown' \in 0 .. MaxSetups
          /\ state' \in {"WaitingToCreate", "CreatedNotYetRun", "Running", "Failed"}
      BY <1>8 DEF CreateFails, CopyThrough
    <2>5. UNCHANGED <<requested, pending, pass, frames, reset,
                      consecutiveFailures, fresh, recreated>>
      BY <1>8 DEF CreateFails
    <2> QED BY <2>2, <2>3, <2>4, <2>5
  <1>9. CASE FeaturesCreated
    <2>1. /\ [next EXCEPT !.featuresCreated = TRUE] \in Generation
          /\ [current EXCEPT !.featuresCreated = TRUE] \in Generation
      BY DEF Generation
    <2>2. next' \in Generation /\ current' \in Generation
      BY <1>9, <2>1 DEF FeaturesCreated
    <2>3. /\ pc' \in {"switch", "idle"} /\ shown' \in 0 .. MaxSetups
          /\ state' \in {"WaitingToCreate", "CreatedNotYetRun", "Running", "Failed"}
      BY <1>9 DEF FeaturesCreated, CopyThrough
    <2>4. UNCHANGED <<requested, pending, pass, frames, reset, live, fresh,
                      consecutiveFailures, dropped, recreated>>
      BY <1>9 DEF FeaturesCreated
    <2> QED BY <2>2, <2>3, <2>4
  <1>10. CASE WaitToCreate
    BY <1>10 DEF WaitToCreate, CopyThrough
  <1>11. CASE BeginCreateCurrent
    BY <1>11 DEF BeginCreateCurrent
  <1>12. CASE PassThroughFailed
    BY <1>12 DEF PassThroughFailed, CopyThrough
  <1>13. CASE FirstRun
    BY <1>13 DEF FirstRun
  <1>14. CASE KeepRunning
    BY <1>14 DEF KeepRunning
  <1>15. CASE NoMotion
    BY <1>15 DEF NoMotion, CopyThrough
  <1>16. CASE EvaluatePasses
    BY <1>16 DEF EvaluatePasses, Generation
  <1>17. CASE Refuse
    BY <1>17, GenerationTypes DEF Refuse, CopyThrough
  <1>18. CASE Fault
    BY <1>18, GenerationTypes DEF Fault
  <1>19. CASE Destroy
    BY <1>19, GenerationTypes DEF Destroy
  <1>20. CASE UNCHANGED vars
    BY <1>20 DEF vars
  <1> QED
    BY <1>1, <1>2, <1>3, <1>4, <1>5, <1>6, <1>7, <1>8, <1>9, <1>10, <1>11,
       <1>12, <1>13, <1>14, <1>15, <1>16, <1>17, <1>18, <1>19, <1>20
       DEF Next, Evaluate

\* The variables of the pass keep their types.
THEOREM TypeCorrect == Spec => []TypeOK
  BY TypeInit, TypeStep, PTL DEF Spec

-------------------------------------------------------------------------------
(* The model's history.                                                    *)

Alive == pc \notin {"rejected", "destroyed"}

\* Before its first run the model has no history; while it has one, the last
\* frame showed the current setup.
HistoryInv ==
  /\ pc = "createCurrent" => state = "WaitingToCreate"
  /\ pc = "run" => state = "Running"
  /\ (Alive /\ ~reset) => (state = "Running" /\ shown = current.setup)

LEMMA HistoryStep == TypeOK /\ HistoryInv /\ [Next]_vars => HistoryInv'
  <1> SUFFICES ASSUME TypeOK, HistoryInv, [Next]_vars PROVE HistoryInv'
    OBVIOUS
  <1> USE PassAssumption
      DEF HistoryInv, Alive, generationVars, requestVars, featureVars, historyVars
  <1>1. ASSUME NEW n \in Passes, RequestPassSetup(n) PROVE HistoryInv'
    BY <1>1 DEF RequestPassSetup
  <1>2. CASE TakePending
    BY <1>2 DEF TakePending
  <1>3. CASE KeepGeneration \/ RestartFailed \/ BeginCreateNext \/ SwapNext
    BY <1>3 DEF KeepGeneration, RestartFailed, BeginCreateNext, SwapNext
  <1>4. ASSUME NEW h \in Handles, CreateFeature(h) PROVE HistoryInv'
    <2>1. current'.setup = current.setup
      BY <1>4 DEF CreateFeature, TypeOK, Generation
    <2> QED BY <1>4, <2>1 DEF CreateFeature
  <1>5. CASE CreateFails
    BY <1>5 DEF CreateFails, CopyThrough, Creating
  <1>6. CASE FeaturesCreated
    BY <1>6 DEF FeaturesCreated, CopyThrough, Creating
  <1>7. CASE WaitToCreate \/ BeginCreateCurrent \/ PassThroughFailed
    BY <1>7 DEF WaitToCreate, BeginCreateCurrent, PassThroughFailed, CopyThrough
  <1>8. CASE FirstRun \/ KeepRunning
    BY <1>8 DEF FirstRun, KeepRunning
  <1>9. CASE NoMotion \/ EvaluatePasses \/ Refuse
    BY <1>9 DEF NoMotion, EvaluatePasses, Refuse, CopyThrough
  <1>10. CASE Fault \/ Destroy
    BY <1>10 DEF Fault, Destroy
  <1>11. CASE UNCHANGED vars
    BY <1>11 DEF vars
  <1> QED
    BY <1>1, <1>2, <1>3, <1>4, <1>5, <1>6, <1>7, <1>8, <1>9, <1>10, <1>11
       DEF Next, Evaluate

\* The model keeps its history only over a frame that continues it.
THEOREM HistoryKept == Spec => []HistoryIsContinuous
  <1>1. Init => HistoryInv
    BY DEF Init, HistoryInv, Alive
  <1>2. HistoryInv => HistoryIsContinuous
    BY DEF HistoryInv, HistoryIsContinuous, Alive
  <1> QED BY <1>1, <1>2, HistoryStep, TypeCorrect, PTL DEF Spec
-------------------------------------------------------------------------------
(* The features.                                                           *)

\* A generation holds its features, each once; when they are created it has
\* one for every pass.
Whole(gen) ==
  /\ \A i, j \in Passes :
       gen.handles[i] # NoHandle /\ gen.handles[i] = gen.handles[j] => i = j
  /\ gen.featuresCreated => \A i \in 1 .. gen.passes : gen.handles[i] # NoHandle

\* Both generations hold features that exist and share none; together they
\* hold all there are, unless some were forgotten.
OwnershipInv ==
  /\ Held(current) \subseteq live /\ Held(next) \subseteq live
  /\ Held(current) \intersect Held(next) = {}
  /\ ~recreated => live = Held(current) \union Held(next)

\* The current generation has its features from the creation on, and they are
\* older than the command list once the generations are settled.
CreatedInv ==
  /\ Whole(current) /\ Whole(next)
  /\ Creating => \A i \in 1 .. pass - 1 : Target.handles[i] # NoHandle
  /\ (pc # "destroyed" /\ state \in {"CreatedNotYetRun", "Running"})
       => current.featuresCreated
  /\ pc = "generation" => fresh = {}
  /\ pc \in {"createNext", "switch", "run"} => Held(current) \intersect fresh = {}

\* What a generation holds once built, released, or given one more feature.
LEMMA HeldOf ==
  ASSUME NEW g \in Generation
  PROVE  /\ Held(Released(g)) = {}
         /\ Held(g) \subseteq Handles
         /\ Held([g EXCEPT !.featuresCreated = TRUE]) = Held(g)
  BY DEF Held, Released, Generation, NoHandles

LEMMA HeldOfBuilt ==
  ASSUME NEW s \in [setup : 0 .. MaxSetups, passes : 0 .. kMaxPasses]
  PROVE  Held(Build(s)) = {}
  BY DEF Held, Build, NoHandles

LEMMA HeldWithOneMore ==
  ASSUME NEW g \in Generation, NEW p \in Passes, NEW h \in Handles
  PROVE  LET more == [g EXCEPT !.handles[p] = h]
         IN  /\ Held(more) \subseteq Held(g) \union {h}
             /\ h \in Held(more)
             /\ g.handles[p] = NoHandle => Held(more) = Held(g) \union {h}
  <1> DEFINE more == [g EXCEPT !.handles[p] = h]
  <1>1. more.handles = [g.handles EXCEPT ![p] = h]
    BY DEF Generation
  <1>2. \A i \in Passes : more.handles[i] = IF i = p THEN h ELSE g.handles[i]
    BY <1>1 DEF Generation
  <1>3. h # NoHandle
    BY PassAssumption
  <1> HIDE DEF more
  <1>4. Held(more) \subseteq Held(g) \union {h}
    BY <1>2 DEF Held
  <1>5. h \in Held(more)
    BY <1>2, <1>3 DEF Held
  <1>6. g.handles[p] = NoHandle => Held(g) \subseteq Held(more)
    BY <1>2 DEF Held
  <1> QED BY <1>4, <1>5, <1>6 DEF more

LEMMA OwnershipStep == TypeOK /\ OwnershipInv /\ [Next]_vars => OwnershipInv'
  <1> SUFFICES ASSUME TypeOK, OwnershipInv, [Next]_vars PROVE OwnershipInv'
    OBVIOUS
  <1> USE DEF OwnershipInv, generationVars, requestVars, featureVars, historyVars
  <1>0. /\ current \in Generation /\ next \in Generation
        /\ pending \in [setup : 0 .. MaxSetups, passes : 0 .. kMaxPasses]
    BY DEF TypeOK
  <1>a. Held(NoGeneration) = {}
    BY HeldOfBuilt, GenerationTypes DEF NoGeneration
  <1>1. ASSUME NEW n \in Passes, RequestPassSetup(n) PROVE OwnershipInv'
    BY <1>1 DEF RequestPassSetup, Held
  <1>2. CASE TakePending
    <2>1. CASE pending = NoSetup
      BY <1>2, <2>1 DEF TakePending
    <2>2. CASE pending # NoSetup
      <3>1. Held(next') = {}
        BY <1>0, <1>2, <2>2, HeldOf, HeldOfBuilt DEF TakePending
      <3>2. live' = live \ Held(next) /\ current' = current /\ recreated' = recreated
        BY <1>2, <2>2 DEF TakePending
      <3> QED BY <3>1, <3>2
    <2> QED BY <2>1, <2>2
  <1>3. CASE RestartFailed \/ SwapNext
    <2>1. /\ live' = live \ Held(current) /\ current' = next
          /\ next' = NoGeneration /\ recreated' = recreated
      BY <1>3 DEF RestartFailed, SwapNext
    <2> QED BY <1>a, <2>1
  <1>4. ASSUME NEW h \in Handles, CreateFeature(h) PROVE OwnershipInv'
    <2>1. Target \in Generation /\ pass \in Passes
      <3>1. Target \in Generation
        BY <1>0 DEF Target
      <3>2. pass <= Target.passes /\ Target.passes \in 0 .. kMaxPasses /\ pass \in 1 .. kMaxPasses + 1
        BY <1>4, <3>1 DEF CreateFeature, Generation, TypeOK
      <3> QED BY <3>1, <3>2, PassAssumption DEF Passes
    <2>2. /\ h \notin live /\ live' = live \union {h}
          /\ ~recreated' => ~recreated /\ Target.handles[pass] = NoHandle
      BY <1>4 DEF CreateFeature
    <2>3. CASE pc = "createNext"
      <3>1. next' = [next EXCEPT !.handles[pass] = h] /\ current' = current /\ Target = next
        BY <1>4, <2>3 DEF CreateFeature, Target
      <3>2. /\ Held(next') \subseteq Held(next) \union {h} /\ h \in Held(next')
            /\ next.handles[pass] = NoHandle => Held(next') = Held(next) \union {h}
        BY <1>0, <2>1, <3>1, HeldWithOneMore
      <3> QED BY <2>2, <3>1, <3>2
    <2>4. CASE pc # "createNext"
      <3>1. current' = [current EXCEPT !.handles[pass] = h] /\ next' = next /\ Target = current
        BY <1>4, <2>4 DEF CreateFeature, Target
      <3>2. /\ Held(current') \subseteq Held(current) \union {h} /\ h \in Held(current')
            /\ current.handles[pass] = NoHandle => Held(current') = Held(current) \union {h}
        BY <1>0, <2>1, <3>1, HeldWithOneMore
      <3> QED BY <2>2, <3>1, <3>2
    <2> QED BY <2>3, <2>4
  <1>5. CASE CreateFails
    <2>1. CASE pc = "createNext"
      BY <1>a, <1>5, <2>1 DEF CreateFails, Target
    <2>2. CASE pc # "createNext"
      <3>1. Held(current') = {} /\ live' = live \ Held(current) /\ next' = next
        BY <1>0, <1>5, <2>2, HeldOf DEF CreateFails, Target
      <3> QED BY <1>5, <3>1 DEF CreateFails
    <2> QED BY <2>1, <2>2
  <1>6. CASE FeaturesCreated
    <2>1. Held(current') = Held(current) /\ Held(next') = Held(next)
      BY <1>0, <1>6, HeldOf DEF FeaturesCreated
    <2> QED BY <1>6, <2>1 DEF FeaturesCreated
  <1>7. CASE Refuse \/ Fault
    <2>1. CASE UNCHANGED <<live, current>>
      BY <1>7, <2>1 DEF Refuse, Fault
    <2>2. CASE live' = live \ Held(current) /\ current' = Released(current)
      <3>1. Held(current') = {}
        BY <1>0, <2>2, HeldOf
      <3> QED BY <1>7, <2>2, <3>1 DEF Refuse, Fault
    <2> QED BY <1>7, <2>1, <2>2 DEF Refuse, Fault
  <1>8. CASE Destroy
    <2>1. Held(current') = {} /\ Held(next') = {}
      BY <1>0, <1>8, HeldOf DEF Destroy
    <2> QED BY <1>8, <2>1 DEF Destroy
  <1>9. CASE UNCHANGED <<current, next, live, recreated>>
    BY <1>9
  <1> QED
    BY <1>1, <1>2, <1>3, <1>4, <1>5, <1>6, <1>7, <1>8, <1>9
       DEF Next, Evaluate, vars, KeepGeneration, BeginCreateNext, WaitToCreate,
           BeginCreateCurrent, PassThroughFailed, FirstRun, KeepRunning,
           NoMotion, EvaluatePasses

\* No feature of the runtime is forgotten, as long as CreateFeatures never
\* runs over features that exist.
THEOREM FeaturesOwned == Spec => []NoFeatureForgotten
  <1>1. Init => OwnershipInv
    <2> SUFFICES ASSUME Init PROVE OwnershipInv
      OBVIOUS
    <2>1. Held(next) = {}
      BY HeldOfBuilt, GenerationTypes DEF Init, NoGeneration
    <2>2. Held(current) = {}
      <3>1. PICK n \in Passes : current = Build([setup |-> 1, passes |-> n])
        BY DEF Init
      <3> QED BY <3>1 DEF Held, Build, NoHandles
    <2> QED BY <2>1, <2>2 DEF Init, OwnershipInv
  <1>2. OwnershipInv => NoFeatureForgotten
    BY DEF OwnershipInv, NoFeatureForgotten
  <1> QED BY <1>1, <1>2, OwnershipStep, TypeCorrect, PTL DEF Spec
-------------------------------------------------------------------------------
(* The model is evaluated through features that exist.                     *)

LEMMA WholeOf ==
  /\ \A s \in [setup : 0 .. MaxSetups, passes : 0 .. kMaxPasses] : Whole(Build(s))
  /\ \A g \in Generation : Whole(Released(g))
  BY DEF Whole, Build, Released, Generation, NoHandles

LEMMA WholeWithOneMore ==
  ASSUME NEW g \in Generation, NEW p \in Passes, NEW h \in Handles,
         Whole(g), h \notin Held(g)
  PROVE  Whole([g EXCEPT !.handles[p] = h])
  <1> DEFINE more == [g EXCEPT !.handles[p] = h]
  <1>1. /\ more.handles = [g.handles EXCEPT ![p] = h]
        /\ more.passes = g.passes /\ more.featuresCreated = g.featuresCreated
    BY DEF Generation
  <1>2. \A i \in Passes : more.handles[i] = IF i = p THEN h ELSE g.handles[i]
    BY <1>1 DEF Generation
  <1>3. h # NoHandle /\ \A i \in Passes : g.handles[i] # h
    BY PassAssumption DEF Held
  <1>4. \A i \in 1 .. g.passes : i \in Passes
    BY PassAssumption DEF Generation, Passes
  <1> HIDE DEF more
  <1>5. \A i, j \in Passes :
          more.handles[i] # NoHandle /\ more.handles[i] = more.handles[j] => i = j
    BY <1>2, <1>3 DEF Whole
  <1>6. more.featuresCreated => \A i \in 1 .. more.passes : more.handles[i] # NoHandle
    BY <1>1, <1>2, <1>3, <1>4 DEF Whole
  <1> QED BY <1>5, <1>6 DEF Whole, more

LEMMA CreatedStep ==
  TypeOK /\ HistoryInv /\ OwnershipInv /\ CreatedInv /\ [Next]_vars => CreatedInv'
  <1> SUFFICES ASSUME TypeOK, HistoryInv, OwnershipInv, CreatedInv, [Next]_vars
               PROVE  CreatedInv'
    OBVIOUS
  <1> USE DEF CreatedInv, Creating, generationVars, requestVars, featureVars, historyVars
  <1>0. /\ current \in Generation /\ next \in Generation
        /\ pending \in [setup : 0 .. MaxSetups, passes : 0 .. kMaxPasses]
    BY DEF TypeOK
  <1>1. ASSUME NEW n \in Passes, RequestPassSetup(n) PROVE CreatedInv'
    BY <1>1 DEF RequestPassSetup, Target, Whole, Held
  <1>2. CASE TakePending
    <2>1. Whole(next')
      BY <1>0, <1>2, WholeOf DEF TakePending
    <2> QED BY <1>2, <2>1 DEF TakePending
  <1>3. CASE KeepGeneration
    BY <1>3 DEF KeepGeneration
  <1>4. CASE RestartFailed \/ SwapNext
    <2>1. Whole(next')
      BY <1>4, WholeOf, GenerationTypes DEF RestartFailed, SwapNext, NoGeneration
    <2> QED BY <1>4, <2>1 DEF RestartFailed, SwapNext
  <1>5. CASE BeginCreateNext
    <2>1. pass' = 1 /\ pc' = "createNext"
      BY <1>5 DEF BeginCreateNext
    <2> QED BY <1>5, <2>1 DEF BeginCreateNext
  <1>6. ASSUME NEW h \in Handles, CreateFeature(h) PROVE CreatedInv'
    <2>1. Target \in Generation /\ pass \in Passes
      <3>1. Target \in Generation
        BY <1>0 DEF Target
      <3>2. pass <= Target.passes /\ Target.passes \in 0 .. kMaxPasses /\ pass \in 1 .. kMaxPasses + 1
        BY <1>6, <3>1 DEF CreateFeature, Generation, TypeOK
      <3> QED BY <3>1, <3>2, PassAssumption DEF Passes
    <2>2. h \notin live /\ fresh' = fresh \union {h} /\ pc' = pc /\ state' = state
          /\ pass' = pass + 1 /\ pass \in Nat /\ pass <= kMaxPasses /\ h # NoHandle
      BY <1>6, <2>1, PassAssumption DEF CreateFeature, Passes
    <2>3. Target' = [Target EXCEPT !.handles[pass] = h]
      BY <1>6 DEF CreateFeature, Target
    <2>4. Whole(Target)' /\ Target'.featuresCreated = Target.featuresCreated
      <3>1. Whole(Target) /\ h \notin Held(Target)
        BY <2>2 DEF Target, OwnershipInv
      <3>2. Whole([Target EXCEPT !.handles[pass] = h])
        BY <2>1, <3>1, WholeWithOneMore
      <3> QED BY <2>1, <2>3, <3>2 DEF Generation
    <2>5. \A i \in 1 .. pass : Target'.handles[i] # NoHandle
      <3>1. Target'.handles = [Target.handles EXCEPT ![pass] = h]
        BY <2>1, <2>3 DEF Generation
      <3>2. \A i \in 1 .. pass : i \in Passes /\ (i = pass \/ i \in 1 .. pass - 1)
        BY <2>2, PassAssumption DEF Passes
      <3> QED BY <1>6, <2>1, <2>2, <3>1, <3>2 DEF CreateFeature, Generation
    <2>6. (pass + 1) - 1 = pass
      BY <2>2
    <2>7. CASE pc = "createNext"
      <3>1. Target = next /\ Target' = next' /\ current' = current
        BY <1>6, <2>2, <2>7 DEF CreateFeature, Target
      <3>2. h \notin Held(current)
        BY <2>2 DEF OwnershipInv
      <3> QED BY <2>2, <2>4, <2>5, <2>6, <2>7, <3>1, <3>2
    <2>8. CASE pc = "createCurrent"
      <3>1. Target = current /\ Target' = current' /\ next' = next
        BY <1>6, <2>2, <2>8 DEF CreateFeature, Target
      <3>2. state = "WaitingToCreate"
        BY <2>8 DEF HistoryInv
      <3> QED BY <2>2, <2>4, <2>5, <2>6, <2>8, <3>1, <3>2
    <2> QED BY <1>6, <2>7, <2>8 DEF CreateFeature
  <1>7. CASE CreateFails
    <2>1. CASE pc = "createNext"
      <3>1. Whole(next')
        BY <1>7, <2>1, WholeOf, GenerationTypes DEF CreateFails, NoGeneration
      <3> QED BY <1>7, <2>1, <3>1 DEF CreateFails
    <2>2. CASE pc # "createNext"
      <3>1. Whole(current')
        BY <1>0, <1>7, <2>2, WholeOf DEF CreateFails
      <3> QED BY <1>7, <2>2, <3>1 DEF CreateFails, CopyThrough
    <2> QED BY <2>1, <2>2
  <1>8. CASE FeaturesCreated
    <2>1. Target.passes \in Int /\ pass \in Int /\ pass > Target.passes
      BY <1>0, <1>8 DEF FeaturesCreated, Target, Generation, TypeOK
    <2>2. \A i \in 1 .. Target.passes : i \in 1 .. pass - 1
      BY <2>1
    <2>3. \A i \in 1 .. Target.passes : Target.handles[i] # NoHandle
      BY <1>8, <2>2 DEF FeaturesCreated
    <2>4. CASE pc = "createNext"
      <3>1. next' = [next EXCEPT !.featuresCreated = TRUE] /\ current' = current
            /\ pc' = "switch" /\ state' = state /\ fresh' = fresh
        BY <1>8, <2>4 DEF FeaturesCreated
      <3>2. Whole(next')
        BY <1>0, <2>3, <2>4, <3>1 DEF Whole, Target, Generation
      <3> QED BY <2>4, <3>1, <3>2
    <2>5. CASE pc # "createNext"
      <3>1. current' = [current EXCEPT !.featuresCreated = TRUE] /\ next' = next
            /\ pc' = "idle"
        BY <1>8, <2>5 DEF FeaturesCreated, CopyThrough
      <3>2. Whole(current') /\ current'.featuresCreated
        BY <1>0, <2>3, <2>5, <3>1 DEF Whole, Target, Generation
      <3> QED BY <3>1, <3>2
    <2> QED BY <2>4, <2>5
  <1>9. CASE WaitToCreate \/ PassThroughFailed \/ NoMotion \/ EvaluatePasses
    BY <1>9 DEF WaitToCreate, PassThroughFailed, NoMotion, EvaluatePasses, CopyThrough
  <1>10. CASE BeginCreateCurrent
    <2>1. pass' = 1 /\ pc' = "createCurrent"
      BY <1>10 DEF BeginCreateCurrent
    <2> QED BY <1>10, <2>1 DEF BeginCreateCurrent
  <1>11. CASE FirstRun \/ KeepRunning
    BY <1>11 DEF FirstRun, KeepRunning
  <1>12. CASE Refuse
    <2>1. CASE UNCHANGED <<current, state>>
      BY <1>12, <2>1 DEF Refuse, CopyThrough
    <2>2. CASE current' = Released(current) /\ state' = "Failed"
      <3>1. Whole(current')
        BY <1>0, <2>2, WholeOf
      <3> QED BY <1>12, <2>2, <3>1 DEF Refuse, CopyThrough
    <2> QED BY <1>12, <2>1, <2>2 DEF Refuse
  <1>13. CASE Fault
    <2>1. Whole(current')
      BY <1>0, <1>13, WholeOf DEF Fault
    <2> QED BY <1>13, <2>1 DEF Fault
  <1>14. CASE Destroy
    <2>1. Whole(current') /\ Whole(next')
      BY <1>0, <1>14, WholeOf DEF Destroy
    <2> QED BY <1>14, <2>1 DEF Destroy
  <1>15. CASE UNCHANGED vars
    BY <1>15 DEF vars, Target
  <1> QED
    BY <1>1, <1>2, <1>3, <1>4, <1>5, <1>6, <1>7, <1>8, <1>9, <1>10, <1>11,
       <1>12, <1>13, <1>14, <1>15 DEF Next, Evaluate

\* Every evaluate goes through features that exist since an earlier command
\* list, one of its own for every pass.
THEOREM OlderFeaturesEvaluated == Spec => []EvaluatesOlderFeatures
  <1> DEFINE Inv == HistoryInv /\ OwnershipInv /\ CreatedInv
  <1>1. Init => Inv
    <2> SUFFICES ASSUME Init PROVE Inv
      OBVIOUS
    <2>1. PICK n \in Passes : current = Build([setup |-> 1, passes |-> n])
      BY DEF Init
    <2>2. /\ Held(next) = {} /\ Held(current) = {}
          /\ Whole(next) /\ Whole(current)
      BY <2>1 DEF Init, NoGeneration, Held, Whole, Build, NoHandles
    <2> QED BY <2>2 DEF Init, HistoryInv, OwnershipInv, CreatedInv, Creating, Alive
  <1>2. TypeOK /\ Inv => EvaluatesOlderFeatures
    <2> SUFFICES ASSUME TypeOK, Inv, pc = "run" PROVE EvaluatesOlderFeatures
      BY DEF EvaluatesOlderFeatures
    <2>1. current.featuresCreated
      BY DEF HistoryInv, CreatedInv
    <2>2. \A i \in 1 .. current.passes : i \in Passes
      BY PassAssumption DEF TypeOK, Generation, Passes
    <2>3. \A i \in 1 .. current.passes : current.handles[i] # NoHandle
      BY <2>1 DEF CreatedInv, Whole
    <2>4. \A i \in 1 .. current.passes : current.handles[i] \in Held(current)
      BY <2>2, <2>3 DEF Held
    <2>5. \A i \in 1 .. current.passes : current.handles[i] \in live \ fresh
      BY <2>4 DEF OwnershipInv, CreatedInv
    <2>6. \A i, j \in 1 .. current.passes :
            current.handles[i] = current.handles[j] => i = j
      BY <2>2, <2>3 DEF CreatedInv, Whole
    <2> QED BY <2>5, <2>6 DEF EvaluatesOlderFeatures
  <1>3. TypeOK /\ Inv /\ [Next]_vars => Inv'
    BY HistoryStep, OwnershipStep, CreatedStep
  <1> QED BY <1>1, <1>2, <1>3, TypeCorrect, PTL DEF Spec
===============================================================================
