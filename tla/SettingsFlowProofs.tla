-------------------------- MODULE SettingsFlowProofs --------------------------
(***************************************************************************)
(* Safety of SettingsFlow for every set of presets and window classes and  *)
(* any number of edits, hotkeys, restarts and refused writes.              *)
(***************************************************************************)
EXTENDS SettingsFlow, SequenceTheorems, WellFoundedInduction, TLAPS

\* Outside a write, what is not marked is in the file; and save() is entered
\* with the mark set, so that a refused write leaves it.
CleanInv ==
  /\ mpc \notin {"open", "write"} /\ noticeAcknowledged /\ ~dirty /\ ~unkept
       => fileState = "whole" /\ file = config
  /\ mpc = "open" /\ Saving => dirty

\* CleanInv after each step of the manager.
LEMMA CleanManager == CleanInv /\ (ManagerStep \/ LiveApply) => CleanInv'
<1> SUFFICES ASSUME CleanInv, ManagerStep \/ LiveApply
             PROVE  CleanInv'
    OBVIOUS
<1> USE DEF CleanInv, Saving
<1>1. CASE Poll
      BY <1>1 DEF Poll, fileVars, historyVars
<1>2. CASE EndFrame
      BY <1>2 DEF EndFrame, Idle, managerVars, fileVars, historyVars
<1>3. CASE OpenFile
      BY <1>3 DEF OpenFile, managerVars
<1>4. CASE RefuseFile
      BY <1>4 DEF RefuseFile, Resume, fileVars
<1>5. CASE WriteFile
      BY <1>5 DEF WriteFile, Resume
<1>6. CASE SendReload
      BY <1>6 DEF SendReload, Resume, managerVars, fileVars, historyVars
<1>7. CASE Acknowledged
      BY <1>7 DEF Acknowledged, Resume, managerVars, fileVars
<1>8. CASE GiveUp
      BY <1>8 DEF GiveUp, Resume, managerVars, fileVars, historyVars
<1>9. CASE Launch
      BY <1>9 DEF Launch, managerVars, fileVars, historyVars
<1>10. CASE LiveApply
      BY <1>10 DEF LiveApply, fileVars, historyVars
<1> QED BY <1>1, <1>2, <1>3, <1>4, <1>5, <1>6, <1>7, <1>8, <1>9, <1>10 DEF ManagerStep

\* CleanInv after each thing the operator does.
LEMMA CleanOperator == CleanInv /\ OperatorStep => CleanInv'
<1> SUFFICES ASSUME CleanInv, OperatorStep
             PROVE  CleanInv'
    OBVIOUS
<1> USE DEF CleanInv, Saving
<1>1. CASE EditLook \/ EditRest \/ ChoosePreset \/ SavePreset
      BY <1>1 DEF EditLook, EditRest, ChoosePreset, SavePreset, Marks
<1>2. CASE DeletePreset \/ ToggleLiveApply
      BY <1>2 DEF DeletePreset, ToggleLiveApply, Operate, Idle, fileVars, historyVars
<1>3. CASE SlideSplit \/ PressSave
      BY <1>3 DEF SlideSplit, PressSave
<1>4. CASE ChooseTarget \/ ToggleLogging \/ ToggleAdvanced
      BY <1>4 DEF ChooseTarget, ToggleLogging, ToggleAdvanced
<1>5. CASE StartOverlay
      BY <1>5 DEF StartOverlay, Operate, Idle, fileVars, historyVars
<1>6. CASE AcknowledgeNotice
      BY <1>6 DEF AcknowledgeNotice
<1>7. CASE Reopen
      BY <1>7 DEF Reopen, fileVars
<1> QED BY <1>1, <1>2, <1>3, <1>4, <1>5, <1>6, <1>7 DEF OperatorStep

\* The runtime touches nothing CleanInv speaks of.
LEMMA CleanRuntime == CleanInv /\ (RuntimeStep \/ UNCHANGED vars) => CleanInv'
<1> SUFFICES ASSUME CleanInv, RuntimeStep \/ UNCHANGED vars
             PROVE  CleanInv'
    OBVIOUS
<1>1. /\ UNCHANGED <<mpc, why, managerVars, fileVars>>
      /\ UNCHANGED unkept
      BY DEF RuntimeStep, Settle, LoadSettings, OpenChannel, HandleReload, PublishStatus,
             StepPreset, FinishRebuild, Exit, vars, historyVars
<1> QED BY <1>1 DEF CleanInv, Saving, managerVars, fileVars

\* The manager never shows settings as saved that its file does not hold, save
\* where a write it does not check has failed.
THEOREM CleanIsSaved == Spec => []CleanMeansSaved
<1>1. Init => CleanInv
      BY DEF Init, CleanInv, Saving
<1>2. CleanInv /\ [Next]_vars => CleanInv'
      BY CleanManager, CleanOperator, CleanRuntime DEF Next
<1>3. CleanInv => CleanMeansSaved
      BY DEF CleanInv, CleanMeansSaved, Idle
<1> QED BY <1>1, <1>2, <1>3, PTL DEF Spec

-------------------------------------------------------------------------------

\* A command is sent for a whole file, and waited for while its runtime lives;
\* once it is handled the runtime runs on that file.
AnswerInv ==
  /\ queued \in Nat
  /\ agreed => fileState = "whole" /\ HasWindow /\ mpc # "write"
  /\ agreed /\ ~stepped => settings = Used(file)
  /\ mpc \in {"send", "wait"} => fileState = "whole"
  /\ mpc = "wait" => phase \notin {"launched", "loaded"}
  /\ mpc = "wait" /\ queued = 0 /\ HasWindow /\ ~stepped => settings = Used(file)

\* AnswerInv after each step of the manager.
LEMMA AnswerManager == AnswerInv /\ (ManagerStep \/ LiveApply) => AnswerInv'
<1> SUFFICES ASSUME AnswerInv, ManagerStep \/ LiveApply
             PROVE  AnswerInv'
    OBVIOUS
<1> USE DEF AnswerInv, HasWindow, runtimeVars, fileVars, historyVars
<1>1. CASE Poll
      BY <1>1 DEF Poll
<1>2. CASE EndFrame
      BY <1>2 DEF EndFrame, Idle
<1>3. CASE OpenFile
      BY <1>3 DEF OpenFile
<1>4. CASE RefuseFile
      BY <1>4 DEF RefuseFile, Resume
<1>5. CASE WriteFile
      BY <1>5 DEF WriteFile, Resume
<1>6. CASE SendReload
      BY <1>6 DEF SendReload, Resume
<1>7. CASE Acknowledged
      BY <1>7 DEF Acknowledged, Resume
<1>8. CASE GiveUp
      BY <1>8 DEF GiveUp, Resume
<1>9. CASE Launch
      BY <1>9 DEF Launch
<1>10. CASE LiveApply
      BY <1>10 DEF LiveApply
<1> QED BY <1>1, <1>2, <1>3, <1>4, <1>5, <1>6, <1>7, <1>8, <1>9, <1>10 DEF ManagerStep

\* Nothing the operator does changes the file or the runtime in the same step.
LEMMA AnswerOperator == AnswerInv /\ OperatorStep => AnswerInv'
<1> SUFFICES ASSUME AnswerInv, OperatorStep
             PROVE  AnswerInv'
    OBVIOUS
<1>1. /\ UNCHANGED <<fileVars, runtimeVars>>
      /\ UNCHANGED <<agreed, stepped>>
      BY DEF OperatorStep, EditLook, EditRest, ChoosePreset, SavePreset, DeletePreset,
             ToggleLiveApply, SlideSplit, PressSave, ChooseTarget, ToggleLogging,
             ToggleAdvanced, StartOverlay, AcknowledgeNotice, Reopen, Operate, historyVars
<1>2. mpc' \in {"top", "open", "launch"}
      BY DEF OperatorStep, EditLook, EditRest, ChoosePreset, SavePreset, DeletePreset,
             ToggleLiveApply, SlideSplit, PressSave, ChooseTarget, ToggleLogging,
             ToggleAdvanced, StartOverlay, AcknowledgeNotice, Reopen, Marks
<1> QED BY <1>1, <1>2 DEF AnswerInv, HasWindow, Used, fileVars, runtimeVars

\* AnswerInv after each step of the runtime.
LEMMA AnswerRuntime == AnswerInv /\ (RuntimeStep \/ UNCHANGED vars) => AnswerInv'
<1> SUFFICES ASSUME AnswerInv, RuntimeStep \/ UNCHANGED vars
             PROVE  AnswerInv'
    OBVIOUS
<1> USE DEF AnswerInv, HasWindow, fileVars, historyVars
<1>1. CASE LoadSettings
      BY <1>1 DEF LoadSettings
<1>2. CASE OpenChannel
      BY <1>2 DEF OpenChannel
<1>3. CASE HandleReload
  <2>1. PICK c \in LoadConfig : ApplyConfig(c, TRUE)
        BY <1>3 DEF HandleReload
  <2>2. settings' = Used(c) /\ phase' \in {"serving", "rebuilding"}
        BY <1>3, <2>1 DEF HandleReload, ApplyConfig, UsesOf
  <2>3. fileState = "whole" => c = file
        BY <2>1 DEF LoadConfig
  <2> QED BY <1>3, <2>2, <2>3 DEF HandleReload
<1>4. CASE PublishStatus
      BY <1>4 DEF PublishStatus
<1>5. CASE StepPreset
  <2>1. phase' \in {"serving", "rebuilding"}
        BY <1>5 DEF StepPreset, ApplyConfig
  <2> QED BY <1>5, <2>1 DEF StepPreset
<1>6. CASE FinishRebuild
      BY <1>6 DEF FinishRebuild
<1>7. CASE Exit
      BY <1>7 DEF Exit
<1>8. CASE UNCHANGED vars
      BY <1>8 DEF vars, runtimeVars
<1> QED BY <1>1, <1>2, <1>3, <1>4, <1>5, <1>6, <1>7, <1>8 DEF RuntimeStep, Settle

\* "Settings sent to the running overlay" are the settings it runs on.
THEOREM AcknowledgedIsApplied == Spec => []AcknowledgedMeansApplied
<1>1. Init => AnswerInv
      BY DEF Init, AnswerInv, HasWindow
<1>2. AnswerInv /\ [Next]_vars => AnswerInv'
      BY AnswerManager, AnswerOperator, AnswerRuntime DEF Next
<1>3. AnswerInv => AcknowledgedMeansApplied
      BY DEF AnswerInv, AcknowledgedMeansApplied
<1> QED BY <1>1, <1>2, <1>3, PTL DEF Spec

-------------------------------------------------------------------------------

\* Every set of positions has a first one.
LEMMA FirstPosition ==
  ASSUME NEW I, I \subseteq Nat, I # {}
  PROVE  Min(I) \in I
<1>1. ASSUME NEW x \in Nat, NEW y \in Nat, y < x
      PROVE  <<y, x>> \in OpToRel(<, Nat)
  <2> DEFINE ss == <<y, x>>
  <2>1. ss \in Nat \X Nat /\ ss[1] < ss[2]
        BY <1>1
  <2> HIDE DEF ss
  <2>2. ss \in OpToRel(<, Nat)
        BY <2>1, Zenon DEF OpToRel
  <2> QED BY <2>2 DEF ss
<1> DEFINE R == OpToRel(<, Nat)
<1> HIDE DEF R
<1>2. IsWellFoundedOn(R, Nat)
      BY NatLessThanWellFounded, Zenon DEF R
<1>3. PICK x \in I : \A y \in I : ~ (<<y, x>> \in R)
      BY <1>2, WFMin
<1>4. \A y, z \in Nat : y < z => <<y, z>> \in R
      BY <1>1, Zenon DEF R
<1>5. ASSUME NEW y \in I PROVE x <= y
  <2>1. x \in Nat /\ y \in Nat
        OBVIOUS
  <2>2. ~ (y < x)
        BY <2>1, <1>3, <1>4
  <2> QED BY <2>1, <2>2
<1> QED BY <1>5 DEF Min

\* What a search by name returns.
LEMMA FirstNamed ==
  ASSUME NEW s \in Seq(Presets), NEW n
  PROVE  /\ Named(s, n) \in 0 .. Len(s)
         /\ Named(s, n) # 0 => s[Named(s, n)].name = n
         /\ Named(s, n) = 0 => \A i \in 1 .. Len(s) : s[i].name # n
<1> DEFINE I == {i \in 1 .. Len(s) : s[i].name = n}
<1>1. Named(s, n) = IF I # {} THEN Min(I) ELSE 0
      BY DEF Named, SelectInSeq
<1>2. CASE I = {}
      BY <1>1, <1>2
<1>3. CASE I # {}
  <2>0. I \subseteq Nat
        OBVIOUS
  <2> HIDE DEF I
  <2>1. Min(I) \in I
        BY <2>0, <1>3, FirstPosition
  <2>2. Named(s, n) \in I
        BY <1>1, <1>3, <2>1
  <2>3. Len(s) \in Nat
        OBVIOUS
  <2> QED BY <2>2, <2>3 DEF I
<1> QED BY <1>2, <1>3

\* The custom presets have custom names, one each.
UniqueInv ==
  /\ customs \in Seq(Presets)
  /\ \A i \in 1 .. Len(customs) : customs[i].name \in Customs
  /\ \A i, j \in 1 .. Len(customs) : customs[i].name = customs[j].name => i = j
  /\ config \in Configs /\ file \in Configs

\* Any preset of the list, and any look saved as one, is a preset.
LEMMA PresetsAreTyped ==
  ASSUME UniqueInv
  PROVE  /\ AllPresets \in Seq(Presets)
         /\ Len(customs) \in Nat
         /\ Len(AllPresets) = Len(customs) + 2
         /\ AllPresets[1] = BuiltinPresets[1] /\ AllPresets[2] = BuiltinPresets[2]
         /\ \A i \in 1 .. Len(customs) : AllPresets[i + 2] = customs[i]
<1>1. BuiltinPresets[1] \in Presets /\ BuiltinPresets[2] \in Presets
      BY DEF BuiltinPresets, BareLook, Presets, Names, Looks
<1>2. BuiltinPresets \in Seq(Presets) /\ Len(BuiltinPresets) = 2
  <2> DEFINE b1 == BuiltinPresets[1]
             b2 == BuiltinPresets[2]
  <2>1. BuiltinPresets = << b1, b2 >>
        BY DEF BuiltinPresets
  <2> HIDE DEF b1, b2
  <2>2. b1 \in Presets /\ b2 \in Presets
        BY <1>1 DEF b1, b2
  <2> QED BY <2>1, <2>2
<1>3. customs \in Seq(Presets) /\ Len(customs) \in Nat
      BY DEF UniqueInv
<1>4. /\ AllPresets \in Seq(Presets)
      /\ Len(AllPresets) = 2 + Len(customs)
      /\ \A i \in 1 .. 2 + Len(customs) :
           AllPresets[i] = IF i <= 2 THEN BuiltinPresets[i] ELSE customs[i - 2]
  <2> DEFINE b == BuiltinPresets
  <2>1. b \in Seq(Presets) /\ Len(b) = 2
        BY <1>2
  <2> HIDE DEF b
  <2>2. /\ b \o customs \in Seq(Presets)
        /\ Len(b \o customs) = Len(b) + Len(customs)
        /\ \A i \in 1 .. Len(b) + Len(customs) :
             (b \o customs)[i] = IF i <= Len(b) THEN b[i] ELSE customs[i - Len(b)]
        BY <2>1, <1>3, ConcatProperties
  <2>3. AllPresets = b \o customs
        BY DEF AllPresets, b
  <2> QED BY <2>1, <2>2, <2>3 DEF b
<1>5. \A i \in 1 .. Len(customs) : AllPresets[i + 2] = customs[i]
  <2> SUFFICES ASSUME NEW i \in 1 .. Len(customs)
               PROVE  AllPresets[i + 2] = customs[i]
      OBVIOUS
  <2>1. i + 2 \in 1 .. 2 + Len(customs) /\ ~(i + 2 <= 2) /\ (i + 2) - 2 = i
        BY <1>3
  <2> QED BY <2>1, <1>4
<1> QED BY <1>3, <1>4, <1>5

\* No two names are equal in the whole list when none are among the customs.
LEMMA UniqueInList == UniqueInv => NamesAreUnique
<1> SUFFICES ASSUME UniqueInv,
                    NEW i \in 1 .. Len(AllPresets), NEW j \in 1 .. Len(AllPresets),
                    AllPresets[i].name = AllPresets[j].name
             PROVE  i = j
    BY DEF NamesAreUnique
<1>1. /\ AllPresets[1].name = "Recommended" /\ AllPresets[2].name = "Off"
      /\ Len(AllPresets) = Len(customs) + 2
      BY PresetsAreTyped DEF BuiltinPresets
<1>2. ASSUME NEW k \in 1 .. Len(AllPresets), k > 2
      PROVE  /\ k - 2 \in 1 .. Len(customs) /\ AllPresets[k] = customs[k - 2]
             /\ AllPresets[k].name \in Customs
  <2>1. Len(customs) \in Nat
        BY DEF UniqueInv
  <2>2. k - 2 \in 1 .. Len(customs) /\ (k - 2) + 2 = k
        BY <2>1, <1>1, <1>2
  <2>3. AllPresets[(k - 2) + 2] = customs[k - 2]
        BY <2>2, PresetsAreTyped
  <2>4. customs[k - 2].name \in Customs
        BY <2>2 DEF UniqueInv
  <2> QED BY <2>2, <2>3, <2>4, Zenon
<1>3. "Recommended" \notin Customs /\ "Off" \notin Customs
      BY SettingsAssumption
<1>4. Len(customs) \in Nat
      BY DEF UniqueInv
<1>5. CASE i > 2 /\ j > 2
  <2>1. i - 2 = j - 2
        BY <1>2, <1>5 DEF UniqueInv
  <2> QED BY <2>1, <1>4, <1>1
<1>6. CASE ~(i > 2 /\ j > 2)
  <2>1. i \in Int /\ j \in Int /\ i >= 1 /\ j >= 1
        BY <1>1, <1>4
  <2>2. (i > 2 \/ i = 1 \/ i = 2) /\ (j > 2 \/ j = 1 \/ j = 2)
        BY <2>1
  <2> QED BY <1>1, <1>2, <1>3, <1>6, <2>2
<1> QED BY <1>5, <1>6

\* The current look becomes a custom preset.
LEMMA UniqueSave == UniqueInv /\ SavePreset => UniqueInv'
<1> SUFFICES ASSUME UniqueInv, SavePreset
             PROVE  UniqueInv'
    OBVIOUS
<1>1. PICK n \in Customs :
        LET i == Named(customs, n)
            saved == [name |-> n, look |-> config.look]
        IN /\ customs' = IF i = 0 THEN Append(customs, saved) ELSE ReplaceAt(customs, i, saved)
           /\ config' = [config EXCEPT !.name = n]
      BY DEF SavePreset
<1> DEFINE k == Named(customs, n)
           saved == [name |-> n, look |-> config.look]
<1>2. saved \in Presets /\ customs \in Seq(Presets) /\ Len(customs) \in Nat
      BY DEF UniqueInv, Presets, Names, Configs
<1>3. /\ k \in 0 .. Len(customs)
      /\ k # 0 => customs[k].name = n
      /\ k = 0 => \A i \in 1 .. Len(customs) : customs[i].name # n
      BY <1>2, FirstNamed
<1>4. config' \in Configs /\ file' \in Configs
      BY <1>1 DEF SavePreset, Operate, fileVars, UniqueInv, Configs, Names
<1> HIDE DEF k
<1>5. CASE k = 0
  <2>1. customs' = Append(customs, saved)
        BY <1>1, <1>5 DEF k
  <2>2. /\ customs' \in Seq(Presets) /\ Len(customs') = Len(customs) + 1
        /\ \A i \in 1 .. Len(customs) : customs'[i] = customs[i]
        /\ customs'[Len(customs) + 1] = saved
        BY <2>1, <1>2, AppendProperties
  <2> QED BY <2>2, <1>2, <1>3, <1>4, <1>5 DEF UniqueInv
<1>6. CASE k # 0
  <2>1. customs' = [customs EXCEPT ![k] = saved]
        BY <1>1, <1>6 DEF k, ReplaceAt
  <2>2. k \in 1 .. Len(customs)
        BY <1>2, <1>3, <1>6
  <2> HIDE DEF saved
  <2>3. /\ customs' \in Seq(Presets) /\ Len(customs') = Len(customs)
        /\ \A i \in 1 .. Len(customs) : customs'[i] = IF i = k THEN saved ELSE customs[i]
        BY <2>1, <2>2, <1>2, ExceptSeq
  <2>4. saved.name = n
        BY DEF saved
  <2> QED BY <2>2, <2>3, <2>4, <1>2, <1>3, <1>4, <1>6 DEF UniqueInv
<1> QED BY <1>5, <1>6

\* A custom preset is deleted: those after it move up.
LEMMA UniqueDelete == UniqueInv /\ DeletePreset => UniqueInv'
<1> SUFFICES ASSUME UniqueInv, DeletePreset
             PROVE  UniqueInv'
    OBVIOUS
<1>1. PICK d \in 1 .. Len(customs) : customs' = RemoveAt(customs, d)
      BY DEF DeletePreset
<1> DEFINE n == Len(customs)
           a == SubSeq(customs, 1, d - 1)
           b == SubSeq(customs, d + 1, n)
<1>2. /\ customs \in Seq(Presets) /\ n \in Nat /\ d \in 1 .. n
      /\ \A i \in 1 .. n : customs[i] \in Presets
      BY DEF UniqueInv
<1> HIDE DEF n
<1>3. /\ a \in Seq(Presets) /\ Len(a) = d - 1
      /\ \A i \in 1 .. d - 1 : a[i] = customs[i]
  <2>1. /\ 1 \in Int /\ d - 1 \in Int
        /\ \A i \in 1 .. d - 1 : customs[i] \in Presets
        BY <1>2
  <2>2. /\ a \in Seq(Presets)
        /\ Len(a) = IF 1 <= d - 1 THEN (d - 1) - 1 + 1 ELSE 0
        /\ \A i \in 1 .. (d - 1) - 1 + 1 : a[i] = customs[1 + i - 1]
        BY <2>1, SubSeqProperties
  <2> HIDE DEF a
  <2> QED BY <2>2, <1>2
<1>4. /\ b \in Seq(Presets) /\ Len(b) = n - d
      /\ \A i \in 1 .. n - d : b[i] = customs[d + i]
  <2>1. /\ d + 1 \in Int /\ n \in Int
        /\ \A i \in d + 1 .. n : customs[i] \in Presets
        BY <1>2
  <2>2. /\ b \in Seq(Presets)
        /\ Len(b) = IF d + 1 <= n THEN n - (d + 1) + 1 ELSE 0
        /\ \A i \in 1 .. n - (d + 1) + 1 : b[i] = customs[(d + 1) + i - 1]
        BY <2>1, SubSeqProperties
  <2> HIDE DEF b
  <2> QED BY <2>2, <1>2
<1>5. customs' = a \o b
      BY <1>1 DEF RemoveAt, n
<1> HIDE DEF a, b
<1>6. /\ a \o b \in Seq(Presets) /\ Len(a \o b) = Len(a) + Len(b)
      /\ \A i \in 1 .. Len(a) + Len(b) :
           (a \o b)[i] = IF i <= Len(a) THEN a[i] ELSE b[i - Len(a)]
      BY <1>3, <1>4, ConcatProperties
<1> DEFINE at(i) == IF i < d THEN i ELSE i + 1
<1>7. /\ customs' \in Seq(Presets) /\ Len(customs') = n - 1
      BY <1>2, <1>3, <1>4, <1>5, <1>6
<1>8. ASSUME NEW i \in 1 .. n - 1
      PROVE  at(i) \in 1 .. n /\ customs'[i] = customs[at(i)]
  <2>1. i \in 1 .. Len(a) + Len(b)
        BY <1>2, <1>3, <1>4
  <2>2. CASE i < d
        BY <2>1, <2>2, <1>2, <1>3, <1>5, <1>6
  <2>3. CASE ~(i < d)
    <3>1. i - (d - 1) \in 1 .. n - d /\ d + (i - (d - 1)) = i + 1 /\ ~(i <= d - 1)
          BY <2>3, <1>2
    <3> QED BY <2>1, <2>3, <3>1, <1>2, <1>3, <1>4, <1>5, <1>6
  <2> QED BY <2>2, <2>3
<1>9. ASSUME NEW i \in 1 .. n - 1, NEW j \in 1 .. n - 1, at(i) = at(j)
      PROVE  i = j
      BY <1>2, <1>9
<1> HIDE DEF at
<1>10. UNCHANGED <<config, file>>
      BY DEF DeletePreset, Operate, fileVars
<1>11. \A i \in 1 .. n - 1 : customs'[i].name \in Customs
      BY <1>8 DEF UniqueInv, n
<1>12. ASSUME NEW i \in 1 .. n - 1, NEW j \in 1 .. n - 1,
              customs'[i].name = customs'[j].name
       PROVE  i = j
  <2>1. at(i) = at(j)
        BY <1>8, <1>12 DEF UniqueInv, n
  <2> QED BY <2>1, <1>9
<1> QED BY <1>7, <1>10, <1>11, <1>12 DEF UniqueInv

\* A configuration a preset is applied to is one again.
LEMMA AppliedIsConfig ==
  ASSUME NEW p \in Presets, NEW c \in Configs
  PROVE  ApplyPreset(p, c) \in Configs
  BY DEF ApplyPreset, Presets, Configs

\* So is one that remembers its look for its window.
LEMMA RememberedIsConfig ==
  ASSUME NEW c \in Configs
  PROVE  RememberLookForApp(c) \in Configs
  BY DEF RememberLookForApp, Configs

\* And the builtin presets and the custom ones are presets.
LEMMA ListedIsPreset ==
  ASSUME UniqueInv, NEW i \in 1 .. Len(AllPresets)
  PROVE  AllPresets[i] \in Presets
  BY PresetsAreTyped

\* UniqueInv after each step of the manager.
LEMMA UniqueManager == UniqueInv /\ (ManagerStep \/ LiveApply) => UniqueInv'
<1> SUFFICES ASSUME UniqueInv, ManagerStep \/ LiveApply
             PROVE  config' \in Configs /\ file' \in Configs /\ customs' = customs
    BY DEF UniqueInv
<1>0. config \in Configs /\ file \in Configs
      BY DEF UniqueInv
<1>1. CASE Poll
  <2>1. CASE Mirrors(Polled.preset)
    <3> DEFINE k == Named(AllPresets, Polled.preset)
    <3>1. AllPresets \in Seq(Presets) /\ Len(AllPresets) \in Nat
          BY PresetsAreTyped
    <3>2. k \in 0 .. Len(AllPresets) /\ k # 0
          BY <2>1, <3>1, FirstNamed DEF Mirrors
    <3> HIDE DEF k
    <3>3. AllPresets[k] \in Presets
          BY <3>1, <3>2, ListedIsPreset
    <3>4. config' = ApplyPreset(AllPresets[k], config) /\ UNCHANGED <<customs, file>>
          BY <1>1, <2>1 DEF Poll, fileVars, k
    <3> QED BY <3>3, <3>4, <1>0, AppliedIsConfig
  <2>2. CASE ~Mirrors(Polled.preset)
        BY <1>0, <1>1, <2>2 DEF Poll, fileVars
  <2> QED BY <2>1, <2>2
<1>2. CASE WriteFile
      BY <1>0, <1>2 DEF WriteFile
<1>3. CASE LiveApply
      BY <1>0, <1>3, RememberedIsConfig DEF LiveApply, fileVars
<1>4. CASE EndFrame \/ OpenFile \/ RefuseFile \/ SendReload \/ Acknowledged \/ GiveUp \/ Launch
      BY <1>0, <1>4 DEF EndFrame, OpenFile, RefuseFile, SendReload, Acknowledged, GiveUp,
         Launch, managerVars, fileVars
<1> QED BY <1>1, <1>2, <1>3, <1>4 DEF ManagerStep

\* UniqueInv after each thing the operator does.
LEMMA UniqueOperator == UniqueInv /\ OperatorStep => UniqueInv'
<1> SUFFICES ASSUME UniqueInv, OperatorStep
             PROVE  UniqueInv'
    OBVIOUS
<1>0. config \in Configs /\ file \in Configs
      BY DEF UniqueInv
<1>1. CASE SavePreset
      BY <1>1, UniqueSave
<1>2. CASE DeletePreset
      BY <1>2, UniqueDelete
<1>3. CASE ~ SavePreset /\ ~ DeletePreset
  <2> SUFFICES config' \in Configs /\ file' \in Configs /\ customs' = customs
      BY DEF UniqueInv
  <2>1. CASE EditLook \/ EditRest
    <3>1. UNCHANGED <<file, customs>>
          BY <2>1 DEF EditLook, EditRest, Operate, fileVars
    <3>2. \A b \in {"direct", "passthrough"}, t \in {"bare", "tuned"} :
            [config EXCEPT !.look.build = b, !.look.tune = t] \in Configs
          BY <1>0 DEF Configs, Looks
    <3>3. [config EXCEPT !.rest = ~ @] \in Configs
          BY <1>0 DEF Configs
    <3> QED BY <1>0, <2>1, <3>1, <3>2, <3>3 DEF EditLook, EditRest
  <2>2. CASE ChoosePreset
    <3>1. PICK i \in 1 .. Len(AllPresets) : config' = ApplyPreset(AllPresets[i], config)
          BY <2>2 DEF ChoosePreset
    <3> QED BY <1>0, <2>2, <3>1, ListedIsPreset, AppliedIsConfig
         DEF ChoosePreset, Operate, fileVars
  <2>3. CASE SlideSplit
    <3>1. [config EXCEPT !.look.split = ~ @] \in Configs
          BY <1>0 DEF Configs, Looks
    <3> QED BY <1>0, <2>3, <3>1, RememberedIsConfig DEF SlideSplit, Operate, fileVars
  <2>4. CASE PressSave
        BY <1>0, <2>4, RememberedIsConfig DEF PressSave, Operate, fileVars
  <2>5. CASE ChooseTarget
    <3>1. PICK a \in Apps :
            LET chosen == [config EXCEPT !.app = a]
                i == Named(AllPresets, chosen.appLooks[a])
            IN config' = IF i # 0 /\ chosen.appLooks[a] # config.name
                         THEN ApplyPreset(AllPresets[i], chosen)
                         ELSE chosen
          BY <2>5 DEF ChooseTarget
    <3> DEFINE chosen == [config EXCEPT !.app = a]
               i == Named(AllPresets, chosen.appLooks[a])
    <3>2. chosen \in Configs
          BY <1>0 DEF Configs
    <3>3. AllPresets \in Seq(Presets) /\ Len(AllPresets) \in Nat
          BY PresetsAreTyped
    <3>4. i \in 0 .. Len(AllPresets)
          BY <3>3, FirstNamed
    <3>5. (i # 0 /\ config' = ApplyPreset(AllPresets[i], chosen)) \/ config' = chosen
          BY <3>1
    <3>6. UNCHANGED <<file, customs>>
          BY <2>5 DEF ChooseTarget, Operate, fileVars
    <3> HIDE DEF chosen, i
    <3> QED BY <1>0, <3>2, <3>3, <3>4, <3>5, <3>6, ListedIsPreset, AppliedIsConfig
  <2>6. CASE ToggleLogging
        BY <1>0, <2>6 DEF ToggleLogging, Operate, fileVars, Configs
  <2>7. CASE StartOverlay
        BY <1>0, <2>7, RememberedIsConfig DEF StartOverlay, Operate, fileVars
  <2>8. CASE ToggleLiveApply \/ ToggleAdvanced \/ AcknowledgeNotice \/ Reopen
        BY <1>0, <2>8 DEF ToggleLiveApply, ToggleAdvanced, AcknowledgeNotice, Reopen,
           Operate, fileVars
  <2> QED BY <1>3, <2>1, <2>2, <2>3, <2>4, <2>5, <2>6, <2>7, <2>8 DEF OperatorStep
<1> QED BY <1>1, <1>2, <1>3

\* The runtime reads the presets and writes nothing.
LEMMA UniqueRuntime == UniqueInv /\ (RuntimeStep \/ UNCHANGED vars) => UniqueInv'
<1> SUFFICES ASSUME UniqueInv, RuntimeStep \/ UNCHANGED vars
             PROVE  UniqueInv'
    OBVIOUS
<1>1. UNCHANGED <<customs, config, file>>
      BY DEF RuntimeStep, Settle, LoadSettings, OpenChannel, HandleReload, PublishStatus,
             StepPreset, FinishRebuild, Exit, vars, managerVars, fileVars
<1> QED BY <1>1 DEF UniqueInv

\* UniqueInv at the start.
LEMMA UniqueInit == Init => UniqueInv
<1> SUFFICES ASSUME Init
             PROVE  UniqueInv
    OBVIOUS
<1>1. Defaults \in Configs /\ FirstRun \in Configs
      BY DEF Defaults, FirstRun, ApplyPreset, BuiltinPresets, BareLook, Configs, Looks, Names
<1>2. \A a \in Apps : [FirstRun EXCEPT !.app = a] \in Configs
      BY <1>1 DEF Configs
<1>3. config \in Configs /\ file \in Configs /\ customs = << >>
      BY <1>1, <1>2 DEF Init
<1> QED BY <1>3 DEF UniqueInv

LEMMA UniqueStep == UniqueInv /\ [Next]_vars => UniqueInv'
  BY UniqueManager, UniqueOperator, UniqueRuntime DEF Next

\* However presets are saved, overwritten and deleted, a name means one look.
THEOREM NamesUnique == Spec => []NamesAreUnique
<1>1. UniqueInv => NamesAreUnique
      BY UniqueInList
<1> QED BY <1>1, UniqueInit, UniqueStep, PTL DEF Spec

-------------------------------------------------------------------------------

\* What a search by look returns.
LEMMA FirstMatching ==
  ASSUME NEW s \in Seq(Presets), NEW look
  PROVE  Matching(s, look) \in 0 .. Len(s)
<1> DEFINE I == {i \in 1 .. Len(s) : PresetMatches(s[i], look)}
<1>1. Matching(s, look) = IF I # {} THEN Min(I) ELSE 0
      BY DEF Matching, SelectInSeq
<1>2. Len(s) \in Nat /\ I \subseteq 1 .. Len(s) /\ I \subseteq Nat
      OBVIOUS
<1> HIDE DEF I
<1>3. CASE I = {}
      BY <1>1, <1>2, <1>3
<1>4. CASE I # {}
  <2>1. Min(I) \in I
        BY <1>2, <1>4, FirstPosition
  <2>2. Min(I) \in 1 .. Len(s)
        BY <1>2, <2>1
  <2>3. Matching(s, look) = Min(I)
        BY <1>1, <1>4
  <2> QED BY <1>2, <2>2, <2>3
<1> QED BY <1>3, <1>4

\* Stepping around a ring of n, counted from one.
LEMMA Around ==
  ASSUME NEW n \in Nat, NEW k \in 1 .. n
  PROVE  /\ k % n = IF k = n THEN 0 ELSE k
         /\ n >= 2 => (k + n - 2) % n = IF k = 1 THEN n - 1 ELSE k - 2
<1>1. \A m \in 0 .. n - 1 : m % n = m
      OBVIOUS
<1>2. ASSUME NEW m \in 0 .. n - 1 PROVE (m + n) % n = m
      OBVIOUS
<1>3. k % n = IF k = n THEN 0 ELSE k
  <2>1. CASE k = n
    <3>1. 0 \in 0 .. n - 1 /\ 0 + n = k
          BY <2>1
    <3> QED BY <3>1, <1>2, <2>1
  <2>2. CASE k # n
        BY <1>1, <2>2
  <2> QED BY <2>1, <2>2
<1>4. ASSUME n >= 2
      PROVE  (k + n - 2) % n = IF k = 1 THEN n - 1 ELSE k - 2
  <2>1. CASE k = 1
    <3>1. n - 1 \in 0 .. n - 1 /\ k + n - 2 = n - 1
          BY <1>4, <2>1
    <3> QED BY <3>1, <1>1, <2>1
  <2>2. CASE k # 1
    <3>1. k - 2 \in 0 .. n - 1 /\ k + n - 2 = (k - 2) + n
          BY <1>4, <2>2
    <3> QED BY <3>1, <1>2, <2>2
  <2> QED BY <2>1, <2>2
<1> QED BY <1>3, <1>4

\* The places the two hotkeys step to from place k of n.
LEMMA Onward ==
  \A n \in Nat : \A k \in 1 .. n :
    n >= 2 => /\ (k % n) + 1 = IF k = n THEN 1 ELSE k + 1
              /\ ((k + n - 2) % n) + 1 = IF k = 1 THEN n ELSE k - 1
<1> SUFFICES ASSUME NEW n \in Nat, NEW k \in 1 .. n, n >= 2
             PROVE  /\ (k % n) + 1 = IF k = n THEN 1 ELSE k + 1
                    /\ ((k + n - 2) % n) + 1 = IF k = 1 THEN n ELSE k - 1
    OBVIOUS
<1> DEFINE a == k % n
           b == (k + n - 2) % n
<1>1. a = (IF k = n THEN 0 ELSE k) /\ b = (IF k = 1 THEN n - 1 ELSE k - 2)
      BY Around
<1> HIDE DEF a, b
<1>2. a + 1 = (IF k = n THEN 1 ELSE k + 1) /\ b + 1 = (IF k = 1 THEN n ELSE k - 1)
      BY <1>1
<1> QED BY <1>2 DEF a, b

\* The opposite of the one direction is the other.
LEMMA Opposite == \A d \in Int : d + 1 = 0 => -d = 1
  OBVIOUS

SettingsType == [look : Looks, name : Names, rest : BOOLEAN]

\* A step of either hotkey, from a look whose name is known, goes to a
\* neighbour in the ring of presets.
LEMMA Neighbour ==
  ASSUME UniqueInv, NEW used \in SettingsType, NEW k, k = Named(AllPresets, used.name), k # 0
  PROVE  LET n == Len(AllPresets)
         IN /\ k \in 1 .. n /\ n \in Nat /\ n >= 2
            /\ PresetAfter(AllPresets, used, 1) = AllPresets[IF k = n THEN 1 ELSE k + 1]
            /\ PresetAfter(AllPresets, used, -1) = AllPresets[IF k = 1 THEN n ELSE k - 1]
<1> DEFINE n == Len(AllPresets)
<1>1. AllPresets \in Seq(Presets) /\ n \in Nat /\ n >= 2
      BY PresetsAreTyped
<1>2. k \in 1 .. n
      BY <1>1, FirstNamed
<1>3. /\ PresetAfter(AllPresets, used, 1) = AllPresets[(k % n) + 1]
      /\ PresetAfter(AllPresets, used, -1) = AllPresets[((k + n - 2) % n) + 1]
      BY <1>2 DEF PresetAfter
<1> HIDE DEF n
<1>4. n \in Nat /\ n >= 2
      BY <1>1
<1>5. /\ (k % n) + 1 = IF k = n THEN 1 ELSE k + 1
      /\ ((k + n - 2) % n) + 1 = IF k = 1 THEN n ELSE k - 1
      BY <1>2, <1>4, Onward, Zenon
<1> QED BY <1>1, <1>2, <1>3, <1>5 DEF n

\* A step of either hotkey goes to a preset of the list.
LEMMA SteppedIsPreset ==
  ASSUME UniqueInv, NEW used \in SettingsType, NEW direction \in {1, -1}
  PROVE  PresetAfter(AllPresets, used, direction) \in Presets
<1> DEFINE n == Len(AllPresets)
           k == Named(AllPresets, used.name)
           c == IF k # 0 THEN k ELSE Matching(AllPresets, used.look)
<1>1. AllPresets \in Seq(Presets) /\ n \in Nat /\ n >= 2
      BY PresetsAreTyped
<1>2. c \in 0 .. n
      BY <1>1, FirstNamed, FirstMatching
<1>3. /\ c = 0 => PresetAfter(AllPresets, used, direction) = AllPresets[1]
      /\ c # 0 => PresetAfter(AllPresets, used, direction)
                    \in {AllPresets[(c % n) + 1], AllPresets[((c + n - 2) % n) + 1]}
      BY DEF PresetAfter
<1>4. \A i \in 1 .. n : AllPresets[i] \in Presets
      BY ListedIsPreset
<1> HIDE DEF n, c
<1>5. CASE c = 0
  <2>1. 1 \in 1 .. n
        BY <1>1
  <2> QED BY <1>3, <1>4, <1>5, <2>1
<1>6. CASE c # 0
  <2>1. c \in 1 .. n
        BY <1>1, <1>2, <1>6
  <2>2. /\ c % n = IF c = n THEN 0 ELSE c
        /\ (c + n - 2) % n = IF c = 1 THEN n - 1 ELSE c - 2
        BY <1>1, <2>1, Around
  <2>3. (c % n) + 1 \in 1 .. n /\ ((c + n - 2) % n) + 1 \in 1 .. n
        BY <1>1, <2>1, <2>2
  <2> QED BY <1>3, <1>4, <1>6, <2>3
<1> QED BY <1>5, <1>6

\* Two steps in opposite directions lead back.
LEMMA BackAgain == UniqueInv /\ settings \in SettingsType => StepsAreUndone
<1> SUFFICES ASSUME UniqueInv, settings \in SettingsType, NEW d \in {1, -1},
                    Named(AllPresets, settings.name) # 0
             PROVE  LET there == PresetAfter(AllPresets, settings, d)
                        back == PresetAfter(AllPresets, Used(ApplyPreset(there, settings)), -d)
                    IN back.name = settings.name
    BY DEF StepsAreUndone
<1> DEFINE n == Len(AllPresets)
           k == Named(AllPresets, settings.name)
           there == PresetAfter(AllPresets, settings, d)
           j == IF d = 1 THEN (IF k = n THEN 1 ELSE k + 1)
                         ELSE (IF k = 1 THEN n ELSE k - 1)
           used == Used(ApplyPreset(there, settings))
<1>1. /\ k \in 1 .. n /\ n \in Nat /\ n >= 2
      /\ PresetAfter(AllPresets, settings, 1) = AllPresets[IF k = n THEN 1 ELSE k + 1]
      /\ PresetAfter(AllPresets, settings, -1) = AllPresets[IF k = 1 THEN n ELSE k - 1]
      BY Neighbour
<1>2. there = AllPresets[j] /\ j \in 1 .. n
      BY <1>1
<1>3. AllPresets[k].name = settings.name
      BY PresetsAreTyped, FirstNamed
<1>4. there \in Presets
      BY SteppedIsPreset
<1>5. used \in SettingsType /\ used.name = there.name
  <2> HIDE DEF there
  <2> QED BY <1>4 DEF Used, ApplyPreset, SettingsType, Presets
<1>6. Named(AllPresets, used.name) = j
  <2>1. NamesAreUnique
        BY UniqueInList
  <2> DEFINE i == Named(AllPresets, used.name)
  <2>2. /\ i \in 0 .. n
        /\ i # 0 => AllPresets[i].name = used.name
        /\ i = 0 => \A x \in 1 .. n : AllPresets[x].name # used.name
        BY PresetsAreTyped, FirstNamed
  <2>3. used.name = AllPresets[j].name
        BY <1>2, <1>5
  <2> HIDE DEF i, used, j
  <2>4. i # 0
        BY <1>2, <2>2, <2>3
  <2>5. i \in 1 .. n /\ AllPresets[i].name = AllPresets[j].name
        BY <1>1, <2>2, <2>3, <2>4
  <2>6. i = j
        BY <1>2, <2>1, <2>5 DEF NamesAreUnique
  <2> QED BY <2>6 DEF i
<1>7. /\ PresetAfter(AllPresets, used, 1) = AllPresets[IF j = n THEN 1 ELSE j + 1]
      /\ PresetAfter(AllPresets, used, -1) = AllPresets[IF j = 1 THEN n ELSE j - 1]
  <2>1. j # 0
        BY <1>1, <1>2
  <2> HIDE DEF used, j
  <2> QED BY <1>5, <1>6, <2>1, Neighbour
<1>8. PresetAfter(AllPresets, used, -d) = AllPresets[k]
  <2> HIDE DEF used
  <2>1. CASE d = 1
    <3>1. (IF j = 1 THEN n ELSE j - 1) = k /\ -d = -1
          BY <1>1, <2>1
    <3> QED BY <3>1, <1>7
  <2>2. CASE d = -1
    <3>1. -d = 1 /\ d # 1
      <4>1. d \in Int /\ d + 1 = 0 /\ d # 1
            BY <2>2
      <4> QED BY <4>1, Opposite, Zenon
    <3>2. j = IF k = 1 THEN n ELSE k - 1
          BY <3>1
    <3>3. k \in 1 .. n /\ n \in Nat /\ n >= 2
          BY <1>1
    <3> HIDE DEF j, n, k
    <3>4. CASE k = 1
          BY <3>1, <3>2, <3>4, <1>7
    <3>5. CASE k # 1
      <4>1. j = k - 1 /\ j # n /\ j + 1 = k
            BY <3>2, <3>3, <3>5
      <4> QED BY <3>1, <4>1, <1>7
    <3> QED BY <3>4, <3>5
  <2> QED BY <2>1, <2>2
<1> QED BY <1>3, <1>8

\* TypeOK without the configurations and the presets, of which UniqueInv says
\* more, in three parts: the manager's, the runtime's, and the rest.
ManagerTyped ==
  /\ mpc \in {"top", "draw", "ui", "open", "write", "send", "wait", "launch"}
  /\ why \in {"mirror", "live", "save", "launch", "keep"}
  /\ dirty \in BOOLEAN /\ liveApply \in BOOLEAN /\ noticeAcknowledged \in BOOLEAN
  /\ lastMirroredPreset \in Names
  /\ live \in [running : BOOLEAN, preset : Names \cup {None}]
RuntimeTyped ==
  /\ phase \in {"off", "launched", "loaded", "serving", "rebuilding"}
  /\ settings \in SettingsType
  /\ activePreset \in Names /\ status \in Names \cup {None}
  /\ queued \in Nat /\ answering \in BOOLEAN
FileTyped ==
  /\ fileState \in {"absent", "torn", "whole"}
  /\ acts \in 0 .. MaxActs /\ refusals \in 0 .. MaxRefusals
  /\ agreed \in BOOLEAN /\ stepped \in BOOLEAN /\ unkept \in BOOLEAN
RestTyped == ManagerTyped /\ RuntimeTyped /\ FileTyped

\* A part none of whose variables changes keeps its types.
LEMMA PartsKept ==
  /\ ManagerTyped /\ UNCHANGED <<mpc, why, managerVars>> => ManagerTyped'
  /\ RuntimeTyped /\ UNCHANGED runtimeVars => RuntimeTyped'
  /\ FileTyped /\ UNCHANGED <<fileVars, boundVars, historyVars>> => FileTyped'
<1>1. ManagerTyped /\ UNCHANGED <<mpc, why, managerVars>> => ManagerTyped'
      BY DEF ManagerTyped, managerVars
<1>2. RuntimeTyped /\ UNCHANGED runtimeVars => RuntimeTyped'
      BY DEF RuntimeTyped, runtimeVars
<1>3. FileTyped /\ UNCHANGED <<fileVars, boundVars, historyVars>> => FileTyped'
      BY DEF FileTyped, fileVars, boundVars, historyVars
<1> QED BY <1>1, <1>2, <1>3

\* Where the manager goes on.
LEMMA ResumesTyped == Resume \in {"draw", "ui", "launch", "top"}
      BY DEF Resume

\* The manager's types after each of its steps.
LEMMA TypeManagerOfManager ==
  UniqueInv /\ RestTyped /\ (ManagerStep \/ LiveApply) => ManagerTyped'
<1> SUFFICES ASSUME UniqueInv, ManagerTyped, RuntimeTyped, ManagerStep \/ LiveApply
             PROVE  ManagerTyped'
    BY DEF RestTyped
<1>1. CASE Poll
  <2>1. Polled \in [running : BOOLEAN, preset : Names \cup {None}]
        BY DEF Polled, HasWindow, RuntimeTyped
  <2>2. Polled.preset = None \/ Polled.preset \in Names
        BY <2>1
  <2>3. lastMirroredPreset' \in Names
        BY <1>1, <2>2 DEF Poll, ManagerTyped
  <2>4. mpc' \in {"open", "draw"} /\ why' \in {"mirror", why} /\ live' = Polled
        BY <1>1 DEF Poll
  <2>5. UNCHANGED <<dirty, liveApply, noticeAcknowledged>>
        BY <1>1 DEF Poll
  <2> QED BY <2>1, <2>3, <2>4, <2>5 DEF ManagerTyped
<1>2. CASE EndFrame
      BY <1>2 DEF EndFrame, ManagerTyped, managerVars
<1>3. CASE OpenFile
      BY <1>3 DEF OpenFile, ManagerTyped, managerVars
<1>4. CASE RefuseFile
  <2>1. /\ dirty' \in BOOLEAN /\ mpc' = Resume
        /\ UNCHANGED <<why, liveApply, noticeAcknowledged, lastMirroredPreset, live>>
        BY <1>4 DEF RefuseFile
  <2> QED BY <2>1, ResumesTyped DEF ManagerTyped
<1>5. CASE WriteFile
  <2>1. /\ dirty' \in BOOLEAN /\ mpc' \in {"send", Resume}
        /\ UNCHANGED <<why, liveApply, noticeAcknowledged, lastMirroredPreset, live>>
        BY <1>5 DEF WriteFile
  <2> QED BY <2>1, ResumesTyped DEF ManagerTyped
<1>6. CASE SendReload \/ Acknowledged \/ GiveUp
  <2>1. mpc' \in {"wait", Resume} /\ UNCHANGED <<why, managerVars>>
        BY <1>6 DEF SendReload, Acknowledged, GiveUp
  <2> QED BY <2>1, ResumesTyped DEF ManagerTyped, managerVars
<1>7. CASE Launch
      BY <1>7 DEF Launch, ManagerTyped, managerVars
<1>8. CASE LiveApply
      BY <1>8 DEF LiveApply, ManagerTyped
<1> QED BY <1>1, <1>2, <1>3, <1>4, <1>5, <1>6, <1>7, <1>8 DEF ManagerStep

\* The types after each step of the manager.
LEMMA TypeManager == UniqueInv /\ RestTyped /\ (ManagerStep \/ LiveApply) => RestTyped'
<1> SUFFICES ASSUME RuntimeTyped, FileTyped, ManagerStep \/ LiveApply
             PROVE  RuntimeTyped' /\ FileTyped'
    BY TypeManagerOfManager DEF RestTyped
<1>1. RuntimeTyped'
  <2>1. CASE SendReload
    <3>1. /\ queued' \in Nat
          /\ UNCHANGED <<phase, settings, activePreset, status, answering>>
          BY <2>1 DEF SendReload, RuntimeTyped
    <3> QED BY <3>1 DEF RuntimeTyped
  <2>2. CASE Launch
    <3>1. /\ phase' \in {phase, "launched"}
          /\ UNCHANGED <<settings, activePreset, status, queued, answering>>
          BY <2>2 DEF Launch
    <3> QED BY <3>1 DEF RuntimeTyped
  <2>3. CASE Poll \/ EndFrame \/ OpenFile \/ RefuseFile \/ WriteFile \/ Acknowledged
             \/ GiveUp \/ LiveApply
    <3>1. UNCHANGED runtimeVars
          BY <2>3 DEF Poll, EndFrame, OpenFile, RefuseFile, WriteFile, Acknowledged,
             GiveUp, LiveApply
    <3> QED BY <3>1, PartsKept
  <2> QED BY <2>1, <2>2, <2>3 DEF ManagerStep
<1>2. FileTyped'
  <2>1. CASE OpenFile
    <3>1. fileState' = "torn" /\ agreed' = FALSE
          /\ UNCHANGED <<acts, refusals, stepped, unkept>>
          BY <2>1 DEF OpenFile, boundVars
    <3> QED BY <3>1 DEF FileTyped
  <2>2. CASE RefuseFile
    <3>1. /\ refusals' \in 0 .. MaxRefusals /\ unkept' \in BOOLEAN
          /\ UNCHANGED <<fileState, acts, agreed, stepped>>
          BY <2>2, SettingsAssumption DEF RefuseFile, FileTyped, fileVars
    <3> QED BY <3>1 DEF FileTyped
  <2>3. CASE WriteFile
    <3>1. /\ fileState' = "whole" /\ unkept' = FALSE
          /\ UNCHANGED <<acts, refusals, agreed, stepped>>
          BY <2>3 DEF WriteFile, boundVars
    <3> QED BY <3>1 DEF FileTyped
  <2>4. CASE Acknowledged
    <3>1. agreed' = TRUE /\ UNCHANGED <<fileState, acts, refusals, stepped, unkept>>
          BY <2>4 DEF Acknowledged, boundVars, fileVars
    <3> QED BY <3>1 DEF FileTyped
  <2>5. CASE Poll \/ EndFrame \/ SendReload \/ GiveUp \/ Launch \/ LiveApply
    <3>1. UNCHANGED <<fileVars, boundVars, historyVars>>
          BY <2>5 DEF Poll, EndFrame, SendReload, GiveUp, Launch, LiveApply
    <3> QED BY <3>1, PartsKept
  <2> QED BY <2>1, <2>2, <2>3, <2>4, <2>5 DEF ManagerStep
<1> QED BY <1>1, <1>2

\* The types after each thing the operator does.
LEMMA TypeOperator == UniqueInv /\ RestTyped /\ OperatorStep => RestTyped'
<1> SUFFICES ASSUME UniqueInv, ManagerTyped, RuntimeTyped, FileTyped, OperatorStep
             PROVE  ManagerTyped' /\ RuntimeTyped' /\ FileTyped'
    BY DEF RestTyped
<1>0. ASSUME Act
      PROVE  acts' \in 0 .. MaxActs
      BY <1>0, SettingsAssumption DEF Act, FileTyped
<1>1. CASE Operate
  <2>1. UNCHANGED <<lastMirroredPreset, noticeAcknowledged, live, runtimeVars>>
        BY <1>1 DEF Operate
  <2>2. acts' \in 0 .. MaxActs /\ UNCHANGED <<fileState, refusals, agreed, stepped, unkept>>
        BY <1>0, <1>1 DEF Operate, fileVars, historyVars
  <2>3. /\ mpc' \in {"top", "open", "launch"}
        /\ why' \in {why, "save", "keep", "launch"}
        /\ dirty' \in {dirty, TRUE, FALSE} /\ liveApply' \in {liveApply, ~ liveApply, TRUE}
    <3>1. CASE EditLook \/ EditRest \/ ChoosePreset \/ SavePreset
          BY <3>1 DEF EditLook, EditRest, ChoosePreset, SavePreset, Marks
    <3>2. CASE DeletePreset \/ ToggleLiveApply \/ SlideSplit \/ PressSave
          BY <3>2 DEF DeletePreset, ToggleLiveApply, SlideSplit, PressSave
    <3>3. CASE ChooseTarget \/ ToggleLogging \/ ToggleAdvanced \/ StartOverlay
          BY <3>3 DEF ChooseTarget, ToggleLogging, ToggleAdvanced, StartOverlay
    <3>4. CASE AcknowledgeNotice
          BY <1>1, <3>4 DEF AcknowledgeNotice, Operate
    <3>5. CASE Reopen
          BY <3>5 DEF Reopen
    <3> QED BY <3>1, <3>2, <3>3, <3>4, <3>5 DEF OperatorStep
  <2>4. ManagerTyped'
    <3>1. /\ mpc' \in {"top", "draw", "ui", "open", "write", "send", "wait", "launch"}
          /\ why' \in {"mirror", "live", "save", "launch", "keep"}
          BY <2>3 DEF ManagerTyped
    <3>2. dirty' \in BOOLEAN /\ liveApply' \in BOOLEAN
          BY <2>3 DEF ManagerTyped
    <3> QED BY <2>1, <3>1, <3>2 DEF ManagerTyped
  <2>5. RuntimeTyped'
        BY <2>1, PartsKept
  <2>6. FileTyped'
        BY <2>2 DEF FileTyped
  <2> QED BY <2>4, <2>5, <2>6
<1>2. CASE AcknowledgeNotice
  <2>1. /\ mpc' = "open" /\ why' = "keep" /\ noticeAcknowledged' = TRUE
        /\ UNCHANGED <<dirty, liveApply, lastMirroredPreset, live>>
        BY <1>2 DEF AcknowledgeNotice
  <2>2. UNCHANGED runtimeVars /\ UNCHANGED <<fileVars, boundVars, historyVars>>
        BY <1>2 DEF AcknowledgeNotice
  <2>3. ManagerTyped'
        BY <2>1 DEF ManagerTyped
  <2> QED BY <2>2, <2>3, PartsKept
<1>3. CASE Reopen
  <2>1. file.name \in Names
        BY DEF UniqueInv, Configs
  <2>2. /\ lastMirroredPreset' \in Names /\ dirty' = FALSE /\ liveApply' = TRUE
        /\ mpc' = "top" /\ noticeAcknowledged' = TRUE /\ UNCHANGED why
        /\ live' = [running |-> FALSE, preset |-> None]
        BY <1>3, <2>1 DEF Reopen
  <2>3. /\ acts' \in 0 .. MaxActs /\ unkept' = FALSE
        /\ UNCHANGED <<fileState, refusals, agreed, stepped>>
        BY <1>0, <1>3 DEF Reopen, fileVars
  <2>4. UNCHANGED runtimeVars
        BY <1>3 DEF Reopen
  <2>5. ManagerTyped'
        BY <2>2 DEF ManagerTyped
  <2>6. FileTyped'
        BY <2>3 DEF FileTyped
  <2> QED BY <2>4, <2>5, <2>6, PartsKept
<1>4. Operate \/ AcknowledgeNotice \/ Reopen
      BY DEF OperatorStep, EditLook, EditRest, ChoosePreset, SavePreset, DeletePreset,
         ToggleLiveApply, SlideSplit, PressSave, ChooseTarget, ToggleLogging,
         ToggleAdvanced, StartOverlay
<1> QED BY <1>1, <1>2, <1>3, <1>4

\* Whatever LoadConfig finds is a configuration.
LEMMA LoadedIsConfig ==
  ASSUME UniqueInv, NEW c \in LoadConfig
  PROVE  c \in Configs
<1>1. file \in Configs /\ config \in Configs
      BY DEF UniqueInv
<1>2. Defaults \in Configs
      BY DEF Defaults, BareLook, Configs, Looks, Names
<1>3. Beginning(config) \in Configs
      BY <1>1, <1>2 DEF Beginning, Configs, Looks
<1>4. c = file \/ c = Defaults \/ c = Beginning(config)
      BY DEF LoadConfig
<1> QED BY <1>1, <1>2, <1>3, <1>4

\* The runtime's types after settings are applied.
LEMMA ApplyTyped ==
  ASSUME RuntimeTyped, NEW next, Used(next) \in SettingsType,
         NEW reload \in BOOLEAN, ApplyConfig(next, reload)
  PROVE  /\ settings' \in SettingsType
         /\ activePreset' \in Names
         /\ phase' \in {phase, "rebuilding"}
         /\ answering' \in BOOLEAN
<1>1. next.name \in Names
      BY DEF Used, SettingsType
<1>2. settings' \in SettingsType
      BY DEF ApplyConfig, UsesOf
<1> QED BY <1>1, <1>2 DEF ApplyConfig, RuntimeTyped

\* What the runtime uses of a configuration is what its settings hold.
LEMMA UsedTyped ==
  ASSUME NEW c \in Configs
  PROVE  Used(c) \in SettingsType /\ c.name \in Names
      BY DEF Used, SettingsType, Configs

\* The runtime's types after each of its steps.
LEMMA TypeRuntimeOfRuntime == UniqueInv /\ RuntimeTyped /\ RuntimeStep => RuntimeTyped'
<1> SUFFICES ASSUME UniqueInv, RuntimeTyped, RuntimeStep
             PROVE  RuntimeTyped'
    OBVIOUS
<1>1. CASE LoadSettings
  <2>1. PICK c \in LoadConfig :
          IF c.app = None
          THEN phase' = "off" /\ UNCHANGED <<settings, activePreset>>
          ELSE phase' = "loaded" /\ UsesOf(c) /\ activePreset' = c.name
        BY <1>1 DEF LoadSettings
  <2>2. c.name \in Names /\ Used(c) \in SettingsType
        BY LoadedIsConfig, UsedTyped
  <2>3. settings' \in SettingsType /\ activePreset' \in Names /\ phase' \in {"off", "loaded"}
        BY <2>1, <2>2 DEF UsesOf, RuntimeTyped
  <2>4. UNCHANGED <<status, queued, answering>>
        BY <1>1 DEF LoadSettings
  <2> QED BY <2>3, <2>4 DEF RuntimeTyped
<1>2. CASE OpenChannel
      BY <1>2 DEF RuntimeTyped, OpenChannel
<1>3. CASE HandleReload
  <2>1. PICK c \in LoadConfig : ApplyConfig(c, TRUE)
        BY <1>3 DEF HandleReload
  <2>2. Used(c) \in SettingsType
        BY LoadedIsConfig, UsedTyped
  <2>3. /\ settings' \in SettingsType /\ activePreset' \in Names
        /\ phase' \in {phase, "rebuilding"} /\ answering' \in BOOLEAN
        BY <2>1, <2>2, ApplyTyped
  <2>4. queued' \in Nat /\ status' = status
        BY <1>3 DEF HandleReload, RuntimeTyped
  <2> QED BY <2>3, <2>4 DEF RuntimeTyped
<1>4. CASE PublishStatus
      BY <1>4 DEF RuntimeTyped, PublishStatus
<1>5. CASE StepPreset
  <2>1. PICK direction \in {1, -1} :
          ApplyConfig(ApplyPreset(PresetAfter(AllPresets, settings, direction), settings), FALSE)
        BY <1>5 DEF StepPreset
  <2> DEFINE p == PresetAfter(AllPresets, settings, direction)
  <2>2. p \in Presets /\ settings \in SettingsType
        BY SteppedIsPreset DEF RuntimeTyped
  <2>3. ApplyConfig(ApplyPreset(p, settings), FALSE)
        BY <2>1
  <2> HIDE DEF p
  <2>4. Used(ApplyPreset(p, settings)) \in SettingsType
        BY <2>2 DEF Used, ApplyPreset, SettingsType, Presets
  <2>5. /\ settings' \in SettingsType /\ activePreset' \in Names
        /\ phase' \in {phase, "rebuilding"} /\ answering' \in BOOLEAN
        BY <2>3, <2>4, ApplyTyped
  <2>6. UNCHANGED <<status, queued>>
        BY <1>5 DEF StepPreset
  <2> QED BY <2>5, <2>6 DEF RuntimeTyped
<1>6. CASE FinishRebuild
      BY <1>6 DEF RuntimeTyped, FinishRebuild
<1>7. CASE Exit
      BY <1>7 DEF RuntimeTyped, Exit
<1> QED BY <1>1, <1>2, <1>3, <1>4, <1>5, <1>6, <1>7 DEF RuntimeStep, Settle

\* The types after each step of the runtime.
LEMMA TypeRuntime == UniqueInv /\ RestTyped /\ RuntimeStep => RestTyped'
<1> SUFFICES ASSUME ManagerTyped, FileTyped, RuntimeStep
             PROVE  ManagerTyped' /\ FileTyped'
    BY TypeRuntimeOfRuntime DEF RestTyped
<1>1. UNCHANGED <<mpc, why, managerVars>>
      BY DEF RuntimeStep, Settle, LoadSettings, OpenChannel, HandleReload, PublishStatus,
         StepPreset, FinishRebuild, Exit
<1>2. acts' \in 0 .. MaxActs /\ UNCHANGED refusals
  <2>1. Act \/ acts' = acts
        BY DEF RuntimeStep, Settle, LoadSettings, OpenChannel, HandleReload,
           PublishStatus, StepPreset, FinishRebuild, Exit, boundVars
  <2>2. UNCHANGED refusals
        BY DEF RuntimeStep, Settle, LoadSettings, OpenChannel, HandleReload,
           PublishStatus, StepPreset, FinishRebuild, Exit, boundVars
  <2> QED BY <2>1, <2>2, SettingsAssumption DEF Act, FileTyped
<1>3. agreed' \in BOOLEAN /\ stepped' \in BOOLEAN /\ unkept' \in BOOLEAN
      BY DEF RuntimeStep, Settle, LoadSettings, OpenChannel, HandleReload, PublishStatus,
         StepPreset, FinishRebuild, Exit, historyVars, FileTyped
<1>4. UNCHANGED fileState
      BY DEF RuntimeStep, Settle, LoadSettings, OpenChannel, HandleReload, PublishStatus,
         StepPreset, FinishRebuild, Exit, fileVars
<1>5. FileTyped'
      BY <1>2, <1>3, <1>4 DEF FileTyped
<1> QED BY <1>1, <1>5, PartsKept

\* The two files and the two processes hold what the code's types allow, for
\* every set of presets and windows.
THEOREM TypeCorrect == Spec => []TypeOK
<1>1. Init => RestTyped
  <2> SUFFICES ASSUME Init
               PROVE  ManagerTyped /\ RuntimeTyped /\ FileTyped
      BY DEF RestTyped
  <2>1. config.name \in Names
        BY UniqueInit DEF UniqueInv, Configs
  <2>2. Used(Defaults) \in SettingsType
        BY DEF Used, Defaults, BareLook, SettingsType, Looks, Names
  <2>3. ManagerTyped
    <3>1. noticeAcknowledged \in BOOLEAN
          BY DEF Init
    <3> QED BY <2>1, <3>1 DEF Init, ManagerTyped
  <2>4. RuntimeTyped
        BY <2>2 DEF Init, RuntimeTyped, Names
  <2>5. FileTyped
    <3>1. fileState \in {"absent", "torn", "whole"}
          BY DEF Init
    <3>2. acts \in 0 .. MaxActs /\ refusals \in 0 .. MaxRefusals
          BY SettingsAssumption DEF Init
    <3>3. agreed \in BOOLEAN /\ stepped \in BOOLEAN /\ unkept \in BOOLEAN
          BY DEF Init
    <3> QED BY <3>1, <3>2, <3>3 DEF FileTyped
  <2> QED BY <2>3, <2>4, <2>5
<1>2. UniqueInv /\ RestTyped /\ [Next]_vars => RestTyped'
  <2>1. RestTyped /\ UNCHANGED vars => RestTyped'
        BY PartsKept DEF RestTyped, vars
  <2> QED BY <2>1, TypeManager, TypeOperator, TypeRuntime DEF Next
<1>3. UniqueInv /\ RestTyped => TypeOK
      BY DEF UniqueInv, RestTyped, ManagerTyped, RuntimeTyped, FileTyped, TypeOK,
         SettingsType
<1> QED BY <1>1, <1>2, <1>3, UniqueInit, UniqueStep, PTL DEF Spec

\* A hotkey step is undone by the other hotkey, in every list of presets.
THEOREM StepsUndone == Spec => []StepsAreUndone
<1>1. TypeOK /\ UniqueInv => StepsAreUndone
      BY BackAgain DEF TypeOK, SettingsType
<1> QED BY <1>1, TypeCorrect, UniqueInit, UniqueStep, PTL DEF Spec

===============================================================================
