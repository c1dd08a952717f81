------------------------- MODULE DeviceSessionProofs -------------------------
(***************************************************************************)
(* For every machine, number of tries, devices and flow executions: the    *)
(* parts of a device go in an order their users survive, nothing the GPU   *)
(* or the flow engine reads goes before a wait for it, and the direct pass *)
(* never meets a device it was not made for.                               *)
(***************************************************************************)
EXTENDS DeviceSession, TLAPS

-------------------------------------------------------------------------------
(* The parts.                                                              *)

\* What Create makes before it can fail no more.
Core == {"bridge", "source", "overlay", "pass", "flow", "lumas"}

\* Which parts exist follows from where the owner thread is; while they are
\* taken apart, what a part points into is still there.
PartsInv ==
  /\ opc \in {"create", "exited"} => alive = {}
  /\ opc = "pass" => alive = {"bridge", "overlay", "flow", "lumas"}
  /\ opc = "source" => alive = {"bridge", "overlay", "flow", "lumas", "pass"}
  /\ opc \in {"start", "pump", "join", "revoke", "drain", "rebuild"} =>
       Core \subseteq alive
  /\ "source" \in alive \/ "overlay" \in alive => "bridge" \in alive
  /\ "tracker" \in alive => "overlay" \in alive

LEMMA PartsInit == Init => PartsInv
  BY DEF Init, PartsInv


LEMMA PartsStep == PartsInv /\ [Next]_vars => PartsInv'
  <1> SUFFICES ASSUME PartsInv, [Next]_vars PROVE PartsInv'
    OBVIOUS
  <1> USE DEF Core, PartsInv, ownerVars, loopVars, configVars, deviceVars,
              passVars, flowVars, captureVars, placeVars, historyVars
  <1>1. CASE CreateDevice
    BY <1>1 DEF CreateDevice, NewSession, InitialBounds
  <1>2. CASE CreatePass
    BY <1>2 DEF CreatePass, MakeNeuralPass, CreateDirectPass,
                DirectPassRefused, CoreInitialised, RuntimeInitialised
  <1>3. CASE CreateSource
    BY <1>3 DEF CreateSource, NewCapture, NewTracker
  <1>4. CASE CreateFails
    BY <1>4 DEF CreateFails
  <1>5. CASE Start \/ LaunchRefused \/ FollowWindow
    BY <1>5 DEF Start, LaunchRefused, FollowWindow
  <1>6. CASE PumpActs \/ Quit \/ Reload
    BY <1>6 DEF PumpActs, Quit, Reload, StopFor
  <1>7. CASE Join \/ StopSource
    BY <1>7 DEF Join, StopSource, Revoke
  <1>8. CASE Drain
    BY <1>8 DEF Drain, DrainGpu, WaitBounded
  <1>9. CASE Rebuild
    BY <1>9 DEF Rebuild, DrainGpu, WaitBounded, Carried
  <1>10. CASE Destroyed
    BY <1>10 DEF Destroyed
  <1>11. CASE RenderLeaves \/ RenderFrame \/ RejectFrame
    BY <1>11 DEF RenderLeaves, RenderFrame, RejectFrame, renderRest,
                 FrameBegins, Execute
  <1>12. CASE EngineFinishes \/ QueueFinishes \/ LoseDevice
    BY <1>12 DEF EngineFinishes, QueueFinishes, LoseDevice
  <1>13. CASE FrameArrives \/ CallbackReturns \/ MoveWindow \/ CloseWindow
    BY <1>13 DEF FrameArrives, CallbackReturns, MoveWindow, CloseWindow
  <1>14. ASSUME NEW part \in Parts, DestroyPart(part) PROVE PartsInv'
    BY <1>14 DEF DestroyPart, DestroyPass, DestroyFlow, ReleaseFeatures,
                 WaitBounded, NextToGo, Rank
  <1>15. CASE UNCHANGED vars
    BY <1>15 DEF vars
  <1> QED
    BY <1>1, <1>2, <1>3, <1>4, <1>5, <1>6, <1>7, <1>8, <1>9, <1>10, <1>11,
       <1>12, <1>13, <1>14, <1>15
       DEF Next, Owner, Render, World


-------------------------------------------------------------------------------
(* The threads that use them.                                              *)

\* There is a render thread only between Start and the join, and capture runs
\* only until its handlers are revoked; a callback that is inside later was
\* inside then.
ThreadInv ==
  /\ opc \notin {"pump", "join"} => rpc = "none"
  /\ opc \in {"create", "pass", "source"} => capture = "none"
  /\ opc \in {"drain", "rebuild", "destroy", "exited"} => capture = "none"
  /\ capture = "running" => opc \in {"pump", "join", "revoke"}
  /\ inCallback /\ ~strayed => opc \in {"pump", "join", "revoke"}

LEMMA ThreadInit == Init => ThreadInv
  BY DEF Init, ThreadInv

LEMMA ThreadStep == ThreadInv /\ [Next]_vars => ThreadInv'
  <1> SUFFICES ASSUME ThreadInv, [Next]_vars PROVE ThreadInv'
    OBVIOUS
  <1> USE DEF ThreadInv, ownerVars, loopVars, configVars, deviceVars, passVars,
              flowVars, captureVars, placeVars, historyVars
  <1>1. CASE CreateDevice
    BY <1>1 DEF CreateDevice, NewSession, InitialBounds
  <1>2. CASE CreatePass \/ CreateSource \/ CreateFails
    BY <1>2 DEF CreatePass, CreateSource, NewCapture, NewTracker, CreateFails,
                MakeNeuralPass, CreateDirectPass, DirectPassRefused,
                CoreInitialised, RuntimeInitialised
  <1>3. CASE Start \/ LaunchRefused \/ FollowWindow
    BY <1>3 DEF Start, LaunchRefused, FollowWindow
  <1>4. CASE PumpActs \/ Quit \/ Reload
    BY <1>4 DEF PumpActs, Quit, Reload, StopFor
  <1>5. CASE Join \/ StopSource \/ Drain \/ Rebuild
    BY <1>5 DEF Join, StopSource, Drain, Rebuild, Revoke, DrainGpu,
                WaitBounded, Carried
  <1>6. CASE Destroyed
    BY <1>6 DEF Destroyed
  <1>7. CASE RenderLeaves \/ RenderFrame \/ RejectFrame
    BY <1>7 DEF RenderLeaves, RenderFrame, RejectFrame, renderRest,
                FrameBegins, Execute
  <1>8. CASE EngineFinishes \/ QueueFinishes \/ LoseDevice
    BY <1>8 DEF EngineFinishes, QueueFinishes, LoseDevice
  <1>9. CASE FrameArrives \/ CallbackReturns \/ MoveWindow \/ CloseWindow
    BY <1>9 DEF FrameArrives, CallbackReturns, MoveWindow, CloseWindow
  <1>10. ASSUME NEW part \in Parts, DestroyPart(part) PROVE ThreadInv'
    BY <1>10 DEF DestroyPart, DestroyPass, DestroyFlow, ReleaseFeatures,
                 WaitBounded
  <1>11. CASE UNCHANGED vars
    BY <1>11 DEF vars
  <1> QED
    BY <1>1, <1>2, <1>3, <1>4, <1>5, <1>6, <1>7, <1>8, <1>9, <1>10, <1>11
       DEF Next, Owner, Render, World


\* Every callback finds the bridge and the source, and every part those it
\* points into.
THEOREM CallbacksFind == Spec => []CallbacksFindTheirObjects
  <1>1. PartsInv /\ ThreadInv => CallbacksFindTheirObjects
    BY DEF PartsInv, ThreadInv, CallbacksFindTheirObjects, Core
  <1> QED BY <1>1, PartsInit, PartsStep, ThreadInit, ThreadStep, PTL DEF Spec

-------------------------------------------------------------------------------
(* The engine and the GPU.                                                 *)

\* What is in flight was issued and not signalled.
InFlight ==
  /\ issued \in 0 .. MaxExecutes /\ done \in 0 .. issued
  /\ working \subseteq (done + 1) .. issued

LEMMA FlightInit == Init => InFlight
  BY SessionAssumption DEF Init, InFlight

LEMMA FlightStep == InFlight /\ [Next]_vars => InFlight'
  <1> SUFFICES ASSUME InFlight, [Next]_vars PROVE InFlight'
    OBVIOUS
  <1>1. CASE CreateDevice
    BY <1>1, SessionAssumption DEF CreateDevice, NewSession, InFlight
  <1>2. CASE RenderFrame \/ RejectFrame
    <2>1. Execute
      BY <1>2 DEF RenderFrame, RejectFrame
    <2>2. CASE UNCHANGED <<issued, done, working>>
      BY <2>2 DEF InFlight
    <2>3. CASE /\ issued < MaxExecutes /\ issued' = issued + 1 /\ done' = done
               /\ working' \in {working, working \union {issued'}}
      <3>1. issued' \in 0 .. MaxExecutes /\ done' \in 0 .. issued'
        BY <2>3, SessionAssumption DEF InFlight
      <3>2. working \subseteq (done' + 1) .. issued'
        BY <2>3 DEF InFlight
      <3>3. issued' \in (done' + 1) .. issued'
        BY <2>3 DEF InFlight
      <3> QED BY <2>3, <3>1, <3>2, <3>3 DEF InFlight
    <2> QED BY <2>1, <2>2, <2>3 DEF Execute, flowVars
  <1>3. CASE EngineFinishes
    BY <1>3 DEF EngineFinishes, InFlight
  <1>4. CASE LoseDevice \/ CreateFails
    BY <1>4 DEF LoseDevice, CreateFails, InFlight
  <1>5. CASE UNCHANGED <<issued, done, working>>
    BY <1>5 DEF InFlight
  <1>6. CASE CreatePass \/ CreateSource \/ Start \/ LaunchRefused \/ FollowWindow
    BY <1>5, <1>6 DEF CreatePass, CreateSource, NewCapture, NewTracker, Start,
                      LaunchRefused, FollowWindow, flowVars
  <1>7. CASE PumpActs \/ Quit \/ Reload
    BY <1>5, <1>7 DEF PumpActs, Quit, Reload, StopFor, flowVars
  <1>8. CASE Join \/ StopSource \/ Drain \/ Rebuild \/ Destroyed
    BY <1>5, <1>8 DEF Join, StopSource, Drain, Rebuild, Destroyed, flowVars
  <1>9. ASSUME NEW part \in Parts, DestroyPart(part) PROVE InFlight'
    BY <1>5, <1>9 DEF DestroyPart, DestroyFlow, flowVars
  <1>10. CASE RenderLeaves \/ QueueFinishes
    BY <1>5, <1>10 DEF RenderLeaves, QueueFinishes, flowVars
  <1>11. CASE FrameArrives \/ CallbackReturns \/ MoveWindow \/ CloseWindow
    BY <1>5, <1>11 DEF FrameArrives, CallbackReturns, MoveWindow, CloseWindow, flowVars
  <1>12. CASE UNCHANGED vars
    BY <1>5, <1>12 DEF vars, flowVars
  <1> QED
    BY <1>1, <1>2, <1>3, <1>4, <1>6, <1>7, <1>8, <1>9, <1>10, <1>11, <1>12
       DEF Next, Owner, Render, World

\* A removed device has nothing in flight; and after the waits of DrainGpu
\* nothing is, unless one of them ran out.
WorkInv ==
  /\ removed => working = {} /\ ~queue
  /\ opc \notin {"pump", "join", "revoke", "drain"} /\ ~gaveUp =>
       working = {} /\ ~queue

\* A wait of DrainGpu that does not run out finds nothing in flight.
LEMMA Drained ==
  ASSUME InFlight, removed => working = {} /\ ~queue, DrainGpu, ~gaveUp'
  PROVE  working = {} /\ ~queue
  <1>1. ~FlowBusy /\ ~(queue /\ ~removed)
    BY DEF DrainGpu, WaitBounded
  <1>2. ASSUME working # {}, ~removed PROVE FALSE
    <2>1. PICK value : value \in working
      BY <1>2
    <2>2. issued > 0 /\ done < issued
      BY <2>1 DEF InFlight
    <2> QED BY <1>1, <1>2, <2>2 DEF FlowBusy
  <1> QED BY <1>1, <1>2

LEMMA WorkInit == Init => WorkInv
  BY DEF Init, WorkInv

LEMMA WorkStep == WorkInv /\ ThreadInv /\ InFlight /\ [Next]_vars => WorkInv'
  <1> SUFFICES ASSUME WorkInv, ThreadInv, InFlight, [Next]_vars PROVE WorkInv'
    OBVIOUS
  <1> USE DEF WorkInv, ownerVars, loopVars, configVars, deviceVars, passVars,
              flowVars, captureVars, placeVars, historyVars
  <1>1. CASE CreateDevice
    BY <1>1 DEF CreateDevice, NewSession, InitialBounds
  <1>2. CASE CreatePass \/ CreateSource
    BY <1>2 DEF CreatePass, CreateSource, NewCapture, NewTracker,
                MakeNeuralPass, CreateDirectPass, DirectPassRefused,
                CoreInitialised, RuntimeInitialised
  <1>3. CASE CreateFails
    BY <1>3 DEF CreateFails
  <1>4. CASE Start \/ LaunchRefused \/ FollowWindow
    BY <1>4 DEF Start, LaunchRefused, FollowWindow
  <1>5. CASE PumpActs \/ Quit \/ Reload
    BY <1>5 DEF PumpActs, Quit, Reload, StopFor
  <1>6. CASE Join \/ StopSource
    BY <1>6 DEF Join, StopSource, Revoke
  <1>7. CASE Drain
    BY <1>7, Drained DEF Drain, DrainGpu, WaitBounded
  <1>8. CASE Rebuild
    BY <1>8, Drained DEF Rebuild, DrainGpu, WaitBounded, Carried
  <1>9. CASE Destroyed
    BY <1>9 DEF Destroyed
  <1>10. CASE RenderLeaves
    BY <1>10 DEF RenderLeaves, renderRest
  <1>11. CASE RenderFrame
    BY <1>11 DEF RenderFrame, renderRest, FrameBegins, Execute, ThreadInv
  <1>12. CASE RejectFrame
    BY <1>12 DEF RejectFrame, renderRest, FrameBegins, Execute, ThreadInv
  <1>13. CASE EngineFinishes
    BY <1>13 DEF EngineFinishes
  <1>14. CASE QueueFinishes \/ LoseDevice
    BY <1>14 DEF QueueFinishes, LoseDevice
  <1>15. CASE FrameArrives \/ CallbackReturns \/ MoveWindow \/ CloseWindow
    BY <1>15 DEF FrameArrives, CallbackReturns, MoveWindow, CloseWindow
  <1>16. ASSUME NEW part \in Parts, DestroyPart(part) PROVE WorkInv'
    BY <1>16 DEF DestroyPart, DestroyPass, DestroyFlow, ReleaseFeatures,
                 WaitBounded
  <1>17. CASE UNCHANGED vars
    BY <1>17 DEF vars
  <1> QED
    BY <1>1, <1>2, <1>3, <1>4, <1>5, <1>6, <1>7, <1>8, <1>9, <1>10, <1>11,
       <1>12, <1>13, <1>14, <1>15, <1>16, <1>17
       DEF Next, Owner, Render, World


-------------------------------------------------------------------------------
(* The pass.                                                               *)

\* A pass from the settings is not there when Create begins, one that was
\* supplied is, and is no direct pass; the direct pass, its features and the
\* NGX core are of the device that is there.
PassInv ==
  /\ opc \in {"create", "pass"} /\ passFromConfig => pass = "none"
  /\ opc = "destroy" /\ passFromConfig /\ pass # "none" => "pass" \in alive
  /\ opc \in {"create", "pass"} /\ ~passFromConfig /\ ~lost => pass # "none"
  /\ opc = "destroy" /\ after = "rebuild" /\ ~passFromConfig =>
       "pass" \notin alive /\ (~lost => pass # "none")
  /\ opc \in {"source", "start", "pump", "join", "revoke", "drain", "rebuild"} =>
       pass # "none"
  /\ ~lost => /\ pass = "direct" => passFromConfig /\ passOn = dev /\ runtimeOn
              /\ ngxOn = (IF pass = "direct" THEN dev ELSE 0)
              /\ features # 0 => pass = "direct" /\ features = dev

LEMMA PassInit == Init => PassInv
  BY DEF Init, PassInv

LEMMA PassStep == PassInv /\ PartsInv /\ ThreadInv /\ [Next]_vars => PassInv'
  <1> SUFFICES ASSUME PassInv, PartsInv, ThreadInv, [Next]_vars PROVE PassInv'
    OBVIOUS
  <1> USE DEF PassInv, ownerVars, loopVars, configVars, deviceVars, passVars,
              flowVars, captureVars, placeVars, historyVars
  <1>1. CASE CreateDevice
    BY <1>1 DEF CreateDevice, NewSession, InitialBounds
  <1>2. CASE CreatePass
    BY <1>2 DEF CreatePass, MakeNeuralPass, CreateDirectPass,
                DirectPassRefused, CoreInitialised, RuntimeInitialised
  <1>3. CASE CreateSource
    BY <1>3 DEF CreateSource, NewCapture, NewTracker
  <1>4. CASE CreateFails
    BY <1>4 DEF CreateFails
  <1>5. CASE Start \/ LaunchRefused \/ FollowWindow
    BY <1>5 DEF Start, LaunchRefused, FollowWindow
  <1>6. CASE PumpActs \/ Quit \/ Reload
    BY <1>6 DEF PumpActs, Quit, Reload, StopFor
  <1>7. CASE Join \/ StopSource
    BY <1>7 DEF Join, StopSource, Revoke
  <1>8. CASE Drain
    BY <1>8 DEF Drain, DrainGpu, WaitBounded, PartsInv, Core
  <1>9. CASE Rebuild
    BY <1>9 DEF Rebuild, DrainGpu, WaitBounded, Carried, PartsInv, Core
  <1>10. CASE Destroyed
    BY <1>10 DEF Destroyed, PartsInv
  <1>11. CASE RenderLeaves
    BY <1>11 DEF RenderLeaves, renderRest
  <1>12. CASE RenderFrame
    BY <1>12 DEF RenderFrame, renderRest, FrameBegins, Execute, ThreadInv
  <1>13. CASE RejectFrame
    BY <1>13 DEF RejectFrame, renderRest, FrameBegins, Execute, ThreadInv
  <1>14. CASE EngineFinishes \/ QueueFinishes \/ LoseDevice
    BY <1>14 DEF EngineFinishes, QueueFinishes, LoseDevice
  <1>15. CASE FrameArrives \/ CallbackReturns \/ MoveWindow \/ CloseWindow
    BY <1>15 DEF FrameArrives, CallbackReturns, MoveWindow, CloseWindow
  <1>16. ASSUME NEW part \in Parts, DestroyPart(part) PROVE PassInv'
    BY <1>16 DEF DestroyPart, DestroyPass, DestroyFlow, ReleaseFeatures,
                 WaitBounded, NextToGo
  <1>17. CASE UNCHANGED vars
    BY <1>17 DEF vars
  <1> QED
    BY <1>1, <1>2, <1>3, <1>4, <1>5, <1>6, <1>7, <1>8, <1>9, <1>10, <1>11,
       <1>12, <1>13, <1>14, <1>15, <1>16, <1>17
       DEF Next, Owner, Render, World


\* While the engine or the GPU is at work, what it reads is there.
THEOREM TexturesOutlive == Spec => []TexturesOutliveTheirReaders
  <1>1. PartsInv /\ WorkInv /\ PassInv => TexturesOutliveTheirReaders
    BY DEF PartsInv, WorkInv, PassInv, TexturesOutliveTheirReaders, Core
  <1> QED BY <1>1, PartsInit, PartsStep, ThreadInit, ThreadStep, FlightInit, FlightStep,
             WorkInit, WorkStep, PassInit, PassStep, PTL DEF Spec

\* The direct pass is backed by the device that is there.
THEOREM DirectIsBacked == Spec => []DirectPassIsBacked
  <1>1. PassInv => DirectPassIsBacked
    BY DEF PassInv, DirectPassIsBacked
  <1> QED BY <1>1, PartsInit, PartsStep, ThreadInit, ThreadStep, PassInit, PassStep,
             PTL DEF Spec

-------------------------------------------------------------------------------
(* The board.                                                              *)

\* A direct pass was made only where its files were accepted.
BoardInv == pass = "direct" => RuntimeAccepted /\ ForwarderLoads

LEMMA BoardStep == BoardInv /\ [Next]_vars => BoardInv'
  <1> SUFFICES ASSUME BoardInv, [Next]_vars PROVE BoardInv'
    OBVIOUS
  <1> USE DEF RuntimeAccepted, ForwarderLoads, BoardInv, ownerVars, loopVars,
              configVars, deviceVars, passVars, flowVars, captureVars,
              placeVars, historyVars
  <1>1. CASE CreateDevice
    BY <1>1 DEF CreateDevice, NewSession, InitialBounds
  <1>2. CASE CreatePass
    BY <1>2 DEF CreatePass, MakeNeuralPass, CreateDirectPass,
                DirectPassRefused, CoreInitialised, RuntimeInitialised
  <1>3. CASE CreateSource \/ CreateFails
    BY <1>3 DEF CreateSource, NewCapture, NewTracker, CreateFails
  <1>4. CASE Start \/ LaunchRefused \/ FollowWindow
    BY <1>4 DEF Start, LaunchRefused, FollowWindow
  <1>5. CASE PumpActs \/ Quit \/ Reload
    BY <1>5 DEF PumpActs, Quit, Reload, StopFor
  <1>6. CASE Join \/ StopSource \/ Drain \/ Rebuild \/ Destroyed
    BY <1>6 DEF Join, StopSource, Drain, Rebuild, Destroyed, Revoke, DrainGpu,
                WaitBounded, Carried
  <1>7. CASE RenderLeaves \/ RenderFrame \/ RejectFrame
    BY <1>7 DEF RenderLeaves, RenderFrame, RejectFrame, renderRest,
                FrameBegins, Execute
  <1>8. CASE EngineFinishes \/ QueueFinishes \/ LoseDevice
    BY <1>8 DEF EngineFinishes, QueueFinishes, LoseDevice
  <1>9. CASE FrameArrives \/ CallbackReturns \/ MoveWindow \/ CloseWindow
    BY <1>9 DEF FrameArrives, CallbackReturns, MoveWindow, CloseWindow
  <1>10. ASSUME NEW part \in Parts, DestroyPart(part) PROVE BoardInv'
    BY <1>10 DEF DestroyPart, DestroyPass, DestroyFlow, ReleaseFeatures,
                 WaitBounded
  <1>11. CASE UNCHANGED vars
    BY <1>11 DEF vars
  <1> QED
    BY <1>1, <1>2, <1>3, <1>4, <1>5, <1>6, <1>7, <1>8, <1>9, <1>10, <1>11
       DEF Next, Owner, Render, World


\* No direct pass is made where the board foretells the fallback.
THEOREM BoardForetells == Spec => []BoardIsRight
  <1>1. Init => BoardInv
    BY DEF Init, BoardInv
  <1>2. BoardInv => BoardIsRight
    BY DEF BoardInv, BoardIsRight, BoardForetellsFallback, RuntimeAccepted,
           ForwarderLoads
  <1> QED BY <1>1, <1>2, BoardStep, PTL DEF Spec

-------------------------------------------------------------------------------
(* The overlay over the window.                                            *)

\* From the overlay's bounds to the tracker's end, a window that left the
\* overlay has told the tracker or was missed.
PlaceInv ==
  /\ opc \in {"pass", "source"} /\ window /\ ~missed => over
  /\ "tracker" \in alive /\ window /\ ~moving /\ ~missed => over

LEMMA PlaceStep == PlaceInv /\ PartsInv /\ [Next]_vars => PlaceInv'
  <1> SUFFICES ASSUME PlaceInv, PartsInv, [Next]_vars PROVE PlaceInv'
    OBVIOUS
  <1> USE DEF PlaceInv, ownerVars, loopVars, configVars, deviceVars, passVars,
              flowVars, captureVars, placeVars, historyVars
  <1>1. CASE CreateDevice
    BY <1>1 DEF CreateDevice, NewSession, InitialBounds
  <1>2. CASE CreatePass
    BY <1>2 DEF CreatePass, MakeNeuralPass, CreateDirectPass,
                DirectPassRefused, CoreInitialised, RuntimeInitialised
  <1>3. CASE CreateSource
    BY <1>3 DEF CreateSource, NewCapture, NewTracker
  <1>4. CASE CreateFails
    BY <1>4 DEF CreateFails
  <1>5. CASE Start \/ LaunchRefused
    BY <1>5 DEF Start, LaunchRefused
  <1>6. CASE FollowWindow
    BY <1>6 DEF FollowWindow
  <1>7. CASE PumpActs \/ Quit \/ Reload
    BY <1>7 DEF PumpActs, Quit, Reload, StopFor
  <1>8. CASE Join \/ StopSource \/ Drain
    BY <1>8 DEF Join, StopSource, Drain, Revoke, DrainGpu, WaitBounded
  <1>9. CASE Rebuild
    BY <1>9 DEF Rebuild, DrainGpu, WaitBounded, Carried
  <1>10. CASE Destroyed
    BY <1>10 DEF Destroyed, PartsInv
  <1>11. CASE RenderLeaves \/ RenderFrame \/ RejectFrame
    BY <1>11 DEF RenderLeaves, RenderFrame, RejectFrame, renderRest,
                 FrameBegins, Execute
  <1>12. CASE EngineFinishes \/ QueueFinishes \/ LoseDevice
    BY <1>12 DEF EngineFinishes, QueueFinishes, LoseDevice
  <1>13. CASE FrameArrives \/ CallbackReturns
    BY <1>13 DEF FrameArrives, CallbackReturns
  <1>14. CASE MoveWindow \/ CloseWindow
    BY <1>14 DEF MoveWindow, CloseWindow
  <1>15. ASSUME NEW part \in Parts, DestroyPart(part) PROVE PlaceInv'
    BY <1>15 DEF DestroyPart, DestroyPass, DestroyFlow, ReleaseFeatures,
                 WaitBounded
  <1>16. CASE UNCHANGED vars
    BY <1>16 DEF vars
  <1> QED
    BY <1>1, <1>2, <1>3, <1>4, <1>5, <1>6, <1>7, <1>8, <1>9, <1>10, <1>11,
       <1>12, <1>13, <1>14, <1>15, <1>16
       DEF Next, Owner, Render, World


\* The overlay lies over the window whenever no move waits to be followed.
THEOREM OverlayFollows == Spec => []OverlayLiesOverWindow
  <1>1. Init => PlaceInv
    BY DEF Init, PlaceInv
  <1>2. PlaceInv => OverlayLiesOverWindow
    BY DEF PlaceInv, OverlayLiesOverWindow
  <1> QED BY <1>1, <1>2, PartsInit, PartsStep, PlaceStep, PTL DEF Spec

-------------------------------------------------------------------------------
(* Type correctness, in parts.                                             *)

FlagTypes ==
  rebuildRequested \in BOOLEAN /\ passFromConfig \in BOOLEAN /\ runtimeOn \in BOOLEAN

LEMMA FlagTypesStep == FlagTypes /\ [Next]_vars => FlagTypes'
  <1> SUFFICES ASSUME FlagTypes, [Next]_vars PROVE FlagTypes'
    OBVIOUS
  <1> USE DEF FlagTypes, ownerVars, loopVars, configVars, deviceVars, passVars,
              flowVars, captureVars, placeVars, historyVars
  <1>1. CASE CreateDevice \/ CreatePass
    BY <1>1 DEF CreateDevice, NewSession, CreatePass, InitialBounds,
                MakeNeuralPass, CreateDirectPass, DirectPassRefused,
                CoreInitialised, RuntimeInitialised
  <1>2. CASE CreateSource \/ CreateFails
    BY <1>2 DEF CreateSource, NewCapture, NewTracker, CreateFails
  <1>3. CASE Start \/ LaunchRefused \/ FollowWindow
    BY <1>3 DEF Start, LaunchRefused, FollowWindow
  <1>4. CASE PumpActs \/ Quit \/ Reload
    BY <1>4 DEF PumpActs, Quit, Reload, StopFor
  <1>5. CASE Join \/ StopSource
    BY <1>5 DEF Join, StopSource, Revoke
  <1>6. CASE Drain \/ Rebuild \/ Destroyed
    BY <1>6 DEF Drain, Rebuild, Destroyed, DrainGpu, WaitBounded, Carried
  <1>7. CASE RenderLeaves
    BY <1>7 DEF RenderLeaves, renderRest
  <1>8. CASE RenderFrame \/ RejectFrame
    BY <1>8 DEF RenderFrame, RejectFrame, renderRest, FrameBegins, Execute
  <1>9. CASE EngineFinishes \/ QueueFinishes \/ LoseDevice
    BY <1>9 DEF EngineFinishes, QueueFinishes, LoseDevice
  <1>10. CASE FrameArrives \/ CallbackReturns \/ MoveWindow \/ CloseWindow
    BY <1>10 DEF FrameArrives, CallbackReturns, MoveWindow, CloseWindow
  <1>11. ASSUME NEW part \in Parts, DestroyPart(part) PROVE FlagTypes'
    BY <1>11 DEF DestroyPart, DestroyPass, DestroyFlow, ReleaseFeatures,
                 WaitBounded
  <1>12. CASE UNCHANGED vars
    BY <1>12 DEF vars
  <1> QED
    BY <1>1, <1>2, <1>3, <1>4, <1>5, <1>6, <1>7, <1>8, <1>9, <1>10, <1>11,
       <1>12
       DEF Next, Owner, Render, World

GpuTypes ==
  removed \in BOOLEAN /\ session \in BOOLEAN /\ queue \in BOOLEAN /\ gaveUp \in BOOLEAN

LEMMA GpuTypesStep == GpuTypes /\ [Next]_vars => GpuTypes'
  <1> SUFFICES ASSUME GpuTypes, [Next]_vars PROVE GpuTypes'
    OBVIOUS
  <1> USE DEF GpuTypes, ownerVars, loopVars, configVars, deviceVars, passVars,
              flowVars, captureVars, placeVars, historyVars
  <1>1. CASE CreateDevice \/ CreatePass
    BY <1>1 DEF CreateDevice, NewSession, CreatePass, InitialBounds,
                MakeNeuralPass, CreateDirectPass, DirectPassRefused,
                CoreInitialised, RuntimeInitialised
  <1>2. CASE CreateSource \/ CreateFails
    BY <1>2 DEF CreateSource, NewCapture, NewTracker, CreateFails
  <1>3. CASE Start \/ LaunchRefused \/ FollowWindow
    BY <1>3 DEF Start, LaunchRefused, FollowWindow
  <1>4. CASE PumpActs \/ Quit \/ Reload
    BY <1>4 DEF PumpActs, Quit, Reload, StopFor
  <1>5. CASE Join \/ StopSource
    BY <1>5 DEF Join, StopSource, Revoke
  <1>6. CASE Drain \/ Rebuild \/ Destroyed
    BY <1>6 DEF Drain, Rebuild, Destroyed, DrainGpu, WaitBounded, Carried
  <1>7. CASE RenderLeaves
    BY <1>7 DEF RenderLeaves, renderRest
  <1>8. CASE RenderFrame \/ RejectFrame
    BY <1>8 DEF RenderFrame, RejectFrame, renderRest, FrameBegins, Execute
  <1>9. CASE EngineFinishes \/ QueueFinishes \/ LoseDevice
    BY <1>9 DEF EngineFinishes, QueueFinishes, LoseDevice
  <1>10. CASE FrameArrives \/ CallbackReturns \/ MoveWindow \/ CloseWindow
    BY <1>10 DEF FrameArrives, CallbackReturns, MoveWindow, CloseWindow
  <1>11. ASSUME NEW part \in Parts, DestroyPart(part) PROVE GpuTypes'
    BY <1>11 DEF DestroyPart, DestroyPass, DestroyFlow, ReleaseFeatures,
                 WaitBounded
  <1>12. CASE UNCHANGED vars
    BY <1>12 DEF vars
  <1> QED
    BY <1>1, <1>2, <1>3, <1>4, <1>5, <1>6, <1>7, <1>8, <1>9, <1>10, <1>11,
       <1>12
       DEF Next, Owner, Render, World

CaptureTypes ==
  inCallback \in BOOLEAN /\ strayed \in BOOLEAN /\ lost \in BOOLEAN

LEMMA CaptureTypesStep == CaptureTypes /\ [Next]_vars => CaptureTypes'
  <1> SUFFICES ASSUME CaptureTypes, [Next]_vars PROVE CaptureTypes'
    OBVIOUS
  <1> USE DEF CaptureTypes, ownerVars, loopVars, configVars, deviceVars,
              passVars, flowVars, captureVars, placeVars, historyVars
  <1>1. CASE CreateDevice \/ CreatePass
    BY <1>1 DEF CreateDevice, NewSession, CreatePass, InitialBounds,
                MakeNeuralPass, CreateDirectPass, DirectPassRefused,
                CoreInitialised, RuntimeInitialised
  <1>2. CASE CreateSource \/ CreateFails
    BY <1>2 DEF CreateSource, NewCapture, NewTracker, CreateFails
  <1>3. CASE Start \/ LaunchRefused \/ FollowWindow
    BY <1>3 DEF Start, LaunchRefused, FollowWindow
  <1>4. CASE PumpActs \/ Quit \/ Reload
    BY <1>4 DEF PumpActs, Quit, Reload, StopFor
  <1>5. CASE Join \/ StopSource
    BY <1>5 DEF Join, StopSource, Revoke
  <1>6. CASE Drain \/ Rebuild \/ Destroyed
    BY <1>6 DEF Drain, Rebuild, Destroyed, DrainGpu, WaitBounded, Carried
  <1>7. CASE RenderLeaves
    BY <1>7 DEF RenderLeaves, renderRest
  <1>8. CASE RenderFrame \/ RejectFrame
    BY <1>8 DEF RenderFrame, RejectFrame, renderRest, FrameBegins, Execute
  <1>9. CASE EngineFinishes \/ QueueFinishes \/ LoseDevice
    BY <1>9 DEF EngineFinishes, QueueFinishes, LoseDevice
  <1>10. CASE FrameArrives \/ CallbackReturns \/ MoveWindow \/ CloseWindow
    BY <1>10 DEF FrameArrives, CallbackReturns, MoveWindow, CloseWindow
  <1>11. ASSUME NEW part \in Parts, DestroyPart(part) PROVE CaptureTypes'
    BY <1>11 DEF DestroyPart, DestroyPass, DestroyFlow, ReleaseFeatures,
                 WaitBounded
  <1>12. CASE UNCHANGED vars
    BY <1>12 DEF vars
  <1> QED
    BY <1>1, <1>2, <1>3, <1>4, <1>5, <1>6, <1>7, <1>8, <1>9, <1>10, <1>11,
       <1>12
       DEF Next, Owner, Render, World

PlaceTypes ==
  window \in BOOLEAN /\ over \in BOOLEAN /\ moving \in BOOLEAN /\ missed \in BOOLEAN

LEMMA PlaceTypesStep == PlaceTypes /\ [Next]_vars => PlaceTypes'
  <1> SUFFICES ASSUME PlaceTypes, [Next]_vars PROVE PlaceTypes'
    OBVIOUS
  <1> USE DEF PlaceTypes, ownerVars, loopVars, configVars, deviceVars,
              passVars, flowVars, captureVars, placeVars, historyVars
  <1>1. CASE CreateDevice \/ CreatePass
    BY <1>1 DEF CreateDevice, NewSession, CreatePass, InitialBounds,
                MakeNeuralPass, CreateDirectPass, DirectPassRefused,
                CoreInitialised, RuntimeInitialised
  <1>2. CASE CreateSource \/ CreateFails
    BY <1>2 DEF CreateSource, NewCapture, NewTracker, CreateFails
  <1>3. CASE Start \/ LaunchRefused \/ FollowWindow
    BY <1>3 DEF Start, LaunchRefused, FollowWindow
  <1>4. CASE PumpActs \/ Quit \/ Reload
    BY <1>4 DEF PumpActs, Quit, Reload, StopFor
  <1>5. CASE Join \/ StopSource
    BY <1>5 DEF Join, StopSource, Revoke
  <1>6. CASE Drain \/ Rebuild \/ Destroyed
    BY <1>6 DEF Drain, Rebuild, Destroyed, DrainGpu, WaitBounded, Carried
  <1>7. CASE RenderLeaves
    BY <1>7 DEF RenderLeaves, renderRest
  <1>8. CASE RenderFrame \/ RejectFrame
    BY <1>8 DEF RenderFrame, RejectFrame, renderRest, FrameBegins, Execute
  <1>9. CASE EngineFinishes \/ QueueFinishes \/ LoseDevice
    BY <1>9 DEF EngineFinishes, QueueFinishes, LoseDevice
  <1>10. CASE FrameArrives \/ CallbackReturns \/ MoveWindow \/ CloseWindow
    BY <1>10 DEF FrameArrives, CallbackReturns, MoveWindow, CloseWindow
  <1>11. ASSUME NEW part \in Parts, DestroyPart(part) PROVE PlaceTypes'
    BY <1>11 DEF DestroyPart, DestroyPass, DestroyFlow, ReleaseFeatures,
                 WaitBounded
  <1>12. CASE UNCHANGED vars
    BY <1>12 DEF vars
  <1> QED
    BY <1>1, <1>2, <1>3, <1>4, <1>5, <1>6, <1>7, <1>8, <1>9, <1>10, <1>11,
       <1>12
       DEF Next, Owner, Render, World

ControlTypes ==
  /\ equipment \in Equipments
  /\ opc \in {"create", "pass", "source", "start", "pump", "join", "revoke",
              "drain", "rebuild", "destroy", "exited"}
  /\ after \in {"none", "launch", "rebuild", "exit"}
  /\ rpc \in {"none", "loop", "left"}
  /\ config \in {"direct", "passthrough"}
  /\ pass \in {"none", "passthrough", "direct"}
  /\ capture \in {"none", "made", "running"}

LEMMA ControlTypesStep == ControlTypes /\ [Next]_vars => ControlTypes'
  <1> SUFFICES ASSUME ControlTypes, [Next]_vars PROVE ControlTypes'
    OBVIOUS
  <1> USE DEF ControlTypes, ownerVars, loopVars, configVars, deviceVars,
              passVars, flowVars, captureVars, placeVars, historyVars
  <1>1. CASE CreateDevice \/ CreatePass
    BY <1>1 DEF CreateDevice, NewSession, CreatePass, InitialBounds,
                MakeNeuralPass, CreateDirectPass, DirectPassRefused,
                CoreInitialised, RuntimeInitialised
  <1>2. CASE CreateSource \/ CreateFails
    BY <1>2 DEF CreateSource, NewCapture, NewTracker, CreateFails
  <1>3. CASE Start \/ LaunchRefused \/ FollowWindow
    BY <1>3 DEF Start, LaunchRefused, FollowWindow
  <1>4. CASE PumpActs \/ Quit \/ Reload
    BY <1>4 DEF PumpActs, Quit, Reload, StopFor
  <1>5. CASE Join \/ StopSource
    BY <1>5 DEF Join, StopSource, Revoke
  <1>6. CASE Drain \/ Rebuild \/ Destroyed
    BY <1>6 DEF Drain, Rebuild, Destroyed, DrainGpu, WaitBounded, Carried
  <1>7. CASE RenderLeaves
    BY <1>7 DEF RenderLeaves, renderRest
  <1>8. CASE RenderFrame \/ RejectFrame
    BY <1>8 DEF RenderFrame, RejectFrame, renderRest, FrameBegins, Execute
  <1>9. CASE EngineFinishes \/ QueueFinishes \/ LoseDevice
    BY <1>9 DEF EngineFinishes, QueueFinishes, LoseDevice
  <1>10. CASE FrameArrives \/ CallbackReturns \/ MoveWindow \/ CloseWindow
    BY <1>10 DEF FrameArrives, CallbackReturns, MoveWindow, CloseWindow
  <1>11. ASSUME NEW part \in Parts, DestroyPart(part) PROVE ControlTypes'
    BY <1>11 DEF DestroyPart, DestroyPass, DestroyFlow, ReleaseFeatures,
                 WaitBounded
  <1>12. CASE UNCHANGED vars
    BY <1>12 DEF vars
  <1> QED
    BY <1>1, <1>2, <1>3, <1>4, <1>5, <1>6, <1>7, <1>8, <1>9, <1>10, <1>11,
       <1>12
       DEF Next, Owner, Render, World

PartTypes == alive \in SUBSET Parts

LEMMA PartTypesStep == PartTypes /\ [Next]_vars => PartTypes'
  <1> SUFFICES ASSUME PartTypes, [Next]_vars PROVE PartTypes'
    OBVIOUS
  <1> USE DEF Parts, PartTypes, ownerVars, loopVars, configVars, deviceVars,
              passVars, flowVars, captureVars, placeVars, historyVars
  <1>1. CASE CreateDevice \/ CreatePass
    BY <1>1 DEF CreateDevice, NewSession, CreatePass, InitialBounds,
                MakeNeuralPass, CreateDirectPass, DirectPassRefused,
                CoreInitialised, RuntimeInitialised
  <1>2. CASE CreateSource \/ CreateFails
    BY <1>2 DEF CreateSource, NewCapture, NewTracker, CreateFails
  <1>3. CASE Start \/ LaunchRefused \/ FollowWindow
    BY <1>3 DEF Start, LaunchRefused, FollowWindow
  <1>4. CASE PumpActs \/ Quit \/ Reload
    BY <1>4 DEF PumpActs, Quit, Reload, StopFor
  <1>5. CASE Join \/ StopSource
    BY <1>5 DEF Join, StopSource, Revoke
  <1>6. CASE Drain \/ Rebuild \/ Destroyed
    BY <1>6 DEF Drain, Rebuild, Destroyed, DrainGpu, WaitBounded, Carried
  <1>7. CASE RenderLeaves
    BY <1>7 DEF RenderLeaves, renderRest
  <1>8. CASE RenderFrame \/ RejectFrame
    BY <1>8 DEF RenderFrame, RejectFrame, renderRest, FrameBegins, Execute
  <1>9. CASE EngineFinishes \/ QueueFinishes \/ LoseDevice
    BY <1>9 DEF EngineFinishes, QueueFinishes, LoseDevice
  <1>10. CASE FrameArrives \/ CallbackReturns \/ MoveWindow \/ CloseWindow
    BY <1>10 DEF FrameArrives, CallbackReturns, MoveWindow, CloseWindow
  <1>11. ASSUME NEW part \in Parts, DestroyPart(part) PROVE PartTypes'
    BY <1>11 DEF DestroyPart, DestroyPass, DestroyFlow, ReleaseFeatures,
                 WaitBounded
  <1>12. CASE UNCHANGED vars
    BY <1>12 DEF vars
  <1> QED
    BY <1>1, <1>2, <1>3, <1>4, <1>5, <1>6, <1>7, <1>8, <1>9, <1>10, <1>11,
       <1>12
       DEF Next, Owner, Render, World

TryTypes ==
  /\ tries \in 0 .. kAttempts
  /\ opc # "exited" => tries < kAttempts

LEMMA TryTypesStep == TryTypes /\ [Next]_vars => TryTypes'
  <1> SUFFICES ASSUME TryTypes, [Next]_vars PROVE TryTypes'
    OBVIOUS
  <1> USE DEF TryTypes, ownerVars, loopVars, configVars, deviceVars, passVars,
              flowVars, captureVars, placeVars, historyVars
  <1>1. CASE CreateDevice \/ CreatePass
    BY <1>1, SessionAssumption
       DEF CreateDevice, NewSession, CreatePass, InitialBounds,
           MakeNeuralPass, CreateDirectPass, DirectPassRefused,
           CoreInitialised, RuntimeInitialised
  <1>2. CASE CreateSource \/ CreateFails
    BY <1>2, SessionAssumption
       DEF CreateSource, NewCapture, NewTracker, CreateFails
  <1>3. CASE Start \/ LaunchRefused \/ FollowWindow
    BY <1>3, SessionAssumption DEF Start, LaunchRefused, FollowWindow
  <1>4. CASE PumpActs \/ Quit \/ Reload
    BY <1>4 DEF PumpActs, Quit, Reload, StopFor
  <1>5. CASE Join \/ StopSource
    BY <1>5 DEF Join, StopSource, Revoke
  <1>6. CASE Drain \/ Rebuild \/ Destroyed
    BY <1>6 DEF Drain, Rebuild, Destroyed, DrainGpu, WaitBounded, Carried
  <1>7. CASE RenderLeaves
    BY <1>7 DEF RenderLeaves, renderRest
  <1>8. CASE RenderFrame \/ RejectFrame
    BY <1>8, SessionAssumption DEF RenderFrame, RejectFrame, renderRest,
                                   FrameBegins, Execute
  <1>9. CASE EngineFinishes \/ QueueFinishes \/ LoseDevice
    BY <1>9 DEF EngineFinishes, QueueFinishes, LoseDevice
  <1>10. CASE FrameArrives \/ CallbackReturns \/ MoveWindow \/ CloseWindow
    BY <1>10 DEF FrameArrives, CallbackReturns, MoveWindow, CloseWindow
  <1>11. ASSUME NEW part \in Parts, DestroyPart(part) PROVE TryTypes'
    BY <1>11 DEF DestroyPart, DestroyPass, DestroyFlow, ReleaseFeatures,
                 WaitBounded
  <1>12. CASE UNCHANGED vars
    BY <1>12 DEF vars
  <1> QED
    BY <1>1, <1>2, <1>3, <1>4, <1>5, <1>6, <1>7, <1>8, <1>9, <1>10, <1>11,
       <1>12
       DEF Next, Owner, Render, World

DeviceTypes ==
  /\ dev \in 0 .. MaxDevices
  /\ passOn \in 0 .. MaxDevices /\ features \in 0 .. MaxDevices
  /\ ngxOn \in 0 .. MaxDevices

LEMMA DeviceTypesStep == DeviceTypes /\ [Next]_vars => DeviceTypes'
  <1> SUFFICES ASSUME DeviceTypes, [Next]_vars PROVE DeviceTypes'
    OBVIOUS
  <1> USE DEF DeviceTypes, ownerVars, loopVars, configVars, deviceVars,
              passVars, flowVars, captureVars, placeVars, historyVars
  <1>1. CASE CreateDevice \/ CreatePass
    BY <1>1, SessionAssumption
       DEF CreateDevice, NewSession, CreatePass, InitialBounds,
           MakeNeuralPass, CreateDirectPass, DirectPassRefused,
           CoreInitialised, RuntimeInitialised
  <1>2. CASE CreateSource \/ CreateFails
    BY <1>2, SessionAssumption
       DEF CreateSource, NewCapture, NewTracker, CreateFails
  <1>3. CASE Start \/ LaunchRefused \/ FollowWindow
    BY <1>3, SessionAssumption DEF Start, LaunchRefused, FollowWindow
  <1>4. CASE PumpActs \/ Quit \/ Reload
    BY <1>4 DEF PumpActs, Quit, Reload, StopFor
  <1>5. CASE Join \/ StopSource
    BY <1>5 DEF Join, StopSource, Revoke
  <1>6. CASE Drain \/ Rebuild \/ Destroyed
    BY <1>6 DEF Drain, Rebuild, Destroyed, DrainGpu, WaitBounded, Carried
  <1>7. CASE RenderLeaves
    BY <1>7 DEF RenderLeaves, renderRest
  <1>8. CASE RenderFrame \/ RejectFrame
    BY <1>8, SessionAssumption DEF RenderFrame, RejectFrame, renderRest,
                                   FrameBegins, Execute
  <1>9. CASE EngineFinishes \/ QueueFinishes \/ LoseDevice
    BY <1>9 DEF EngineFinishes, QueueFinishes, LoseDevice
  <1>10. CASE FrameArrives \/ CallbackReturns \/ MoveWindow \/ CloseWindow
    BY <1>10 DEF FrameArrives, CallbackReturns, MoveWindow, CloseWindow
  <1>11. ASSUME NEW part \in Parts, DestroyPart(part) PROVE DeviceTypes'
    BY <1>11, SessionAssumption DEF DestroyPart, DestroyPass, DestroyFlow, ReleaseFeatures,
                 WaitBounded
  <1>12. CASE UNCHANGED vars
    BY <1>12 DEF vars
  <1> QED
    BY <1>1, <1>2, <1>3, <1>4, <1>5, <1>6, <1>7, <1>8, <1>9, <1>10, <1>11,
       <1>12
       DEF Next, Owner, Render, World

AllTypes ==
  /\ FlagTypes /\ GpuTypes /\ CaptureTypes /\ PlaceTypes /\ ControlTypes
  /\ PartTypes /\ TryTypes /\ DeviceTypes

LEMMA AllTypesInit == Init => AllTypes
  <1> SUFFICES ASSUME Init PROVE AllTypes
    OBVIOUS
  <1>1. FlagTypes /\ GpuTypes /\ CaptureTypes /\ PlaceTypes
    BY DEF Init, FlagTypes, GpuTypes, CaptureTypes, PlaceTypes
  <1>2. ControlTypes /\ PartTypes /\ TryTypes /\ DeviceTypes
    BY SessionAssumption DEF Init, ControlTypes, PartTypes, TryTypes, DeviceTypes
  <1> QED BY <1>1, <1>2 DEF AllTypes

\* The machine, the threads, the parts and the counters keep the code's types.
THEOREM TypeCorrect == Spec => []TypeOK
  <1>1. AllTypes /\ InFlight => TypeOK
    <2> SUFFICES ASSUME AllTypes, InFlight PROVE TypeOK
      OBVIOUS
    <2>1. done \in 0 .. MaxExecutes
      BY SessionAssumption DEF InFlight
    <2>2. \A value \in working : value \in 1 .. MaxExecutes
      BY SessionAssumption DEF InFlight
    <2>3. FlagTypes /\ GpuTypes /\ CaptureTypes /\ PlaceTypes
      BY DEF AllTypes
    <2>4. ControlTypes /\ PartTypes /\ TryTypes /\ DeviceTypes
      BY DEF AllTypes
    <2> QED BY <2>1, <2>2, <2>3, <2>4 DEF TypeOK, InFlight,
               FlagTypes, GpuTypes, CaptureTypes, PlaceTypes, ControlTypes,
               PartTypes, TryTypes, DeviceTypes
  <1>2. AllTypes /\ [Next]_vars => AllTypes'
    BY FlagTypesStep, GpuTypesStep, CaptureTypesStep, PlaceTypesStep,
       ControlTypesStep, PartTypesStep, TryTypesStep, DeviceTypesStep
       DEF AllTypes
  <1> QED BY <1>1, <1>2, AllTypesInit, FlightInit, FlightStep, PTL DEF Spec
===============================================================================
