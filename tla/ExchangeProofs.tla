--------------------------- MODULE ExchangeProofs ---------------------------
(***************************************************************************)
(* What the manager and the runtime hand each other arrives as it was      *)
(* meant: the status block is read whole and has one writer, for every     *)
(* number of runtimes, words, tries, publishes and launches; and the       *)
(* settings' two files are read within the model's ranges and give back    *)
(* what was written, whatever hands have edited, and a look keeps its      *)
(* preset's name through them, for every set of strings, numbers, sections *)
(* and edits.                                                              *)
(***************************************************************************)
EXTENDS ControlChannel, SettingsCodec, TLAPS, SequenceTheorems, NaturalsInduction,
        WellFoundedInduction

-------------------------------------------------------------------------------
(* What the variables may hold.                                            *)

\* TypeOK, and there is a try left while Read is at one.
TypeInv == TypeOK /\ (mpc \in {"before", "copy"} => attempt < kAttempts)

LEMMA TypeInit == Init => TypeInv
  <1> SUFFICES ASSUME Init PROVE TypeInv
    OBVIOUS
  <1> USE ChannelAssumption DEF Init
  <1>1. out \in [Words -> Nat \cup {-1}]
    BY DEF NoStatus
  <1>2. /\ block \in [Words -> Nat] /\ copy \in [Words -> Nat]
        /\ left \in [Runtimes -> SUBSET Words]
    BY DEF Blank
  <1>3. /\ attempt \in 0 .. kAttempts
        /\ publishes \in 0 .. MaxPublishes /\ launches \in 0 .. MaxLaunches
    OBVIOUS
  <1> QED BY <1>1, <1>2, <1>3 DEF TypeInv, TypeOK

LEMMA TypeStep == TypeInv /\ [Next]_vars => TypeInv'
  <1> SUFFICES ASSUME TypeInv, [Next]_vars PROVE TypeInv'
    OBVIOUS
  <1> USE ChannelAssumption DEF TypeInv, TypeOK, Holding, Mapped, Viewing, blockVars,
          readVars, runtimeVars, boundVars
  <1>1. ASSUME NEW r \in Runtimes, FindControlWindow(r) PROVE TypeInv'
    BY <1>1 DEF FindControlWindow
  <1>2. ASSUME NEW r \in Runtimes, CreateControlWindow(r) PROVE TypeInv'
    BY <1>2 DEF CreateControlWindow
  <1>3. ASSUME NEW r \in Runtimes, MapBlock(r) PROVE TypeInv'
    BY <1>3 DEF MapBlock
  <1>4. ASSUME NEW r \in Runtimes, FinishInit(r) PROVE TypeInv'
    BY <1>4 DEF FinishInit
  <1>5. ASSUME NEW r \in Runtimes, BeginPublish(r) PROVE TypeInv'
    BY <1>5 DEF BeginPublish
  <1>6. ASSUME NEW r \in Runtimes, FinishPublish(r) PROVE TypeInv'
    BY <1>6 DEF FinishPublish
  <1>7. ASSUME NEW r \in Runtimes, MapFails(r) PROVE TypeInv'
    BY <1>7 DEF MapFails
  <1>8. ASSUME NEW r \in Runtimes, CloseMapping(r) PROVE TypeInv'
    BY <1>8 DEF CloseMapping, BlockAfterClosing, Blank
  <1>9. ASSUME NEW r \in Runtimes, DestroyControlWindow(r) PROVE TypeInv'
    BY <1>9 DEF DestroyControlWindow
  <1>10. ASSUME NEW r \in Runtimes, Kill(r) PROVE TypeInv'
    BY <1>10 DEF Kill
  <1>11. ASSUME NEW r \in Runtimes, CloseKilled(r) PROVE TypeInv'
    BY <1>11 DEF CloseKilled, BlockAfterClosing, Blank
  <1>12. ASSUME NEW r \in Runtimes, NEW w \in Words, StoreWord(r, w) PROVE TypeInv'
    BY <1>12 DEF StoreWord
  <1>13. CASE OpenView
    BY <1>13 DEF OpenView, NoStatus
  <1>14. CASE LoadBefore
    BY <1>14 DEF LoadBefore, Retry
  <1>15. CASE Recheck
    <2>1. whole' \in BOOLEAN /\ out' \in [Words -> Nat \cup {-1}]
      BY <1>15 DEF Recheck
    <2>2. /\ attempt' \in 0 .. kAttempts
          /\ mpc' \in {"closed", "before", "copy", "done"}
          /\ mpc' \in {"before", "copy"} => attempt' < kAttempts
      BY <1>15 DEF Recheck, Retry
    <2> QED BY <1>15, <2>1, <2>2 DEF Recheck
  <1>16. CASE CloseView
    BY <1>16 DEF CloseView, BlockAfterClosing, Blank
  <1>17. ASSUME NEW w \in Words, LoadWord(w) PROVE TypeInv'
    BY <1>17 DEF LoadWord
  <1>18. CASE UNCHANGED vars
    BY <1>18 DEF vars
  <1> QED BY <1>1, <1>2, <1>3, <1>4, <1>5, <1>6, <1>7, <1>8, <1>9, <1>10, <1>11, <1>12, <1>13, <1>14, <1>15, <1>16, <1>17, <1>18 DEF Next

\* The variables of the channel keep their types.
THEOREM TypeCorrect == Spec => []TypeOK
  <1>1. TypeInv => TypeOK
    BY DEF TypeInv
  <1> QED BY <1>1, TypeInit, TypeStep, PTL DEF Spec

-------------------------------------------------------------------------------
(* One runtime has the channel.                                            *)

Active(r) == spc[r] \notin {"absent", "dying"}
Owning == {"window", "init", "idle", "copy", "blockless"}

\* The runtimes with a window are those between its creation and its end, and
\* without a race there is one runtime at most that is neither gone nor dying.
OwnerInv ==
  /\ \A r \in Runtimes : r \in owners <=> spc[r] \in Owning
  /\ ~raced => \A r, other \in Runtimes : Active(r) /\ Active(other) => r = other

LEMMA OwnerInit == Init => OwnerInv
  BY DEF Init, OwnerInv, Active, Owning

LEMMA OwnerStep == TypeInv /\ OwnerInv /\ [Next]_vars => OwnerInv'
  <1> SUFFICES ASSUME TypeInv, OwnerInv, [Next]_vars PROVE OwnerInv'
    OBVIOUS
  <1> USE DEF TypeInv, TypeOK, OwnerInv, Active, Owning, Mapped, blockVars,
          readVars, runtimeVars, boundVars
  <1>1. ASSUME NEW r \in Runtimes, FindControlWindow(r) PROVE OwnerInv'
    BY <1>1 DEF FindControlWindow
  <1>2. ASSUME NEW r \in Runtimes, CreateControlWindow(r) PROVE OwnerInv'
    BY <1>2 DEF CreateControlWindow
  <1>3. ASSUME NEW r \in Runtimes, MapBlock(r) PROVE OwnerInv'
    BY <1>3 DEF MapBlock
  <1>4. ASSUME NEW r \in Runtimes, FinishInit(r) PROVE OwnerInv'
    BY <1>4 DEF FinishInit
  <1>5. ASSUME NEW r \in Runtimes, BeginPublish(r) PROVE OwnerInv'
    BY <1>5 DEF BeginPublish
  <1>6. ASSUME NEW r \in Runtimes, FinishPublish(r) PROVE OwnerInv'
    BY <1>6 DEF FinishPublish
  <1>7. ASSUME NEW r \in Runtimes, MapFails(r) PROVE OwnerInv'
    BY <1>7 DEF MapFails
  <1>8. ASSUME NEW r \in Runtimes, CloseMapping(r) PROVE OwnerInv'
    BY <1>8 DEF CloseMapping
  <1>9. ASSUME NEW r \in Runtimes, DestroyControlWindow(r) PROVE OwnerInv'
    BY <1>9 DEF DestroyControlWindow
  <1>10. ASSUME NEW r \in Runtimes, Kill(r) PROVE OwnerInv'
    BY <1>10 DEF Kill
  <1>11. ASSUME NEW r \in Runtimes, CloseKilled(r) PROVE OwnerInv'
    BY <1>11 DEF CloseKilled
  <1>12. ASSUME NEW r \in Runtimes, NEW w \in Words, StoreWord(r, w) PROVE OwnerInv'
    BY <1>12 DEF StoreWord
  <1>13. CASE OpenView
    BY <1>13 DEF OpenView
  <1>14. CASE LoadBefore
    BY <1>14 DEF LoadBefore, Retry
  <1>15. CASE Recheck
    BY <1>15 DEF Recheck, Retry
  <1>16. CASE CloseView
    BY <1>16 DEF CloseView
  <1>17. ASSUME NEW w \in Words, LoadWord(w) PROVE OwnerInv'
    BY <1>17 DEF LoadWord
  <1>18. CASE UNCHANGED vars
    BY <1>18 DEF vars
  <1> QED BY <1>1, <1>2, <1>3, <1>4, <1>5, <1>6, <1>7, <1>8, <1>9, <1>10, <1>11, <1>12, <1>13, <1>14, <1>15, <1>16, <1>17, <1>18 DEF Next

LEMMA OwnerImplies == TypeInv /\ OwnerInv => OneRuntimeUnlessRaced
  BY DEF OneRuntimeUnlessRaced, OwnerInv, Active, Owning, Mapped

\* Without a race for the control window, one runtime at most has the window
\* or the block of the channel.
THEOREM OneRuntimeHasChannel == Spec => []OneRuntimeUnlessRaced
  BY TypeInit, TypeStep, OwnerInit, OwnerStep, OwnerImplies, PTL DEF Spec

-------------------------------------------------------------------------------
(* The status is read whole.                                               *)

\* The block belongs to one runtime, and is blank when it belongs to nobody.
\* While the counter is even the words are those of the current publish;
\* while it is odd the words already written are those of the next one.
BlockInv ==
  /\ \A r, other \in Runtimes :
       spc[r] \in Holding /\ spc[other] \in Holding => r = other
  /\ (mpc = "closed" /\ \A r \in Runtimes : spc[r] \notin Holding) =>
       sequence = 0 /\ current = 0 /\ \A w \in Words : block[w] = 0
  /\ \A r \in Runtimes :
       /\ spc[r] = "copy" =>
            /\ sequence % 2 = 1 /\ next[r] = sequence
            /\ \A w \in Words \ left[r] : block[w] = writing[r]
       /\ spc[r] \in {"init", "idle"} => sequence % 2 = 0
       /\ spc[r] = "init" => writing[r] = 0 /\ current = 0
  /\ sequence % 2 = 0 => \A w \in Words : block[w] = current

\* The words Read copied so far are current unless the counter moved since.
ReadInv ==
  /\ mpc = "copy" =>
       /\ before % 2 = 0 /\ before <= sequence
       /\ sequence = before => \A w \in Words \ unread : copy[w] = current
  /\ whole

SeqlockInv == ~shared => BlockInv /\ ReadInv

LEMMA Parity ==
  \A n \in Nat :
    /\ n % 2 \in {0, 1}
    /\ n % 2 = 0 => (n + 1) % 2 = 1
    /\ n % 2 = 1 => (n + 1) % 2 = 0
  OBVIOUS

LEMMA SeqlockInit == Init => SeqlockInv
  BY DEF Init, SeqlockInv, BlockInv, ReadInv, Holding, Mapped, Blank

\* Read accepts its copy: the counter has not moved, so that it is current.
LEMMA RecheckKeeps ==
  ASSUME TypeInv, BlockInv, ReadInv, Recheck
  PROVE  BlockInv' /\ ReadInv'
  <1>1. /\ mpc = "copy" /\ unread = {}
        /\ UNCHANGED <<sequence, block, current, spc, next, left, writing>>
    BY DEF Recheck, blockVars, runtimeVars
  <1>2. mpc' \in {"before", "done"} /\ mpc' # "closed" /\ mpc' # "copy"
    BY DEF Recheck, Retry
  <1>3. ASSUME sequence # before PROVE whole'
    BY <1>3 DEF Recheck, ReadInv
  <1>4. ASSUME sequence = before PROVE whole'
    <2>1. \A w \in Words : copy[w] = current
      BY <1>1, <1>4 DEF ReadInv
    <2>2. copy = [w \in Words |-> current]
      BY <2>1 DEF TypeInv, TypeOK
    <2> QED BY <1>4, <2>2 DEF Recheck
  <1>5. whole'
    BY <1>3, <1>4
  <1>6. BlockInv'
    BY <1>1, <1>2 DEF BlockInv, Holding, Mapped
  <1> QED BY <1>2, <1>5, <1>6 DEF ReadInv

LEMMA SeqlockStep == TypeInv /\ SeqlockInv /\ [Next]_vars => SeqlockInv'
  <1> SUFFICES ASSUME TypeInv, SeqlockInv, [Next]_vars, ~shared'
               PROVE  BlockInv' /\ ReadInv'
    BY DEF SeqlockInv
  <1>0. ~shared /\ BlockInv /\ ReadInv
    BY DEF SeqlockInv, TypeInv, TypeOK, Next, vars, FindControlWindow,
       CreateControlWindow, MapBlock, FinishInit, BeginPublish, FinishPublish,
       MapFails, CloseMapping, DestroyControlWindow, Kill, CloseKilled,
       StoreWord, OpenView, LoadBefore, Recheck, CloseView, LoadWord
  <1> USE <1>0 DEF TypeInv, TypeOK, BlockInv, ReadInv, Holding, Mapped, Viewing,
          KeptByOther, BlockAfterClosing, Blank, blockVars, readVars,
          runtimeVars, boundVars
  <1>1. ASSUME NEW r \in Runtimes, FindControlWindow(r) PROVE BlockInv' /\ ReadInv'
    BY <1>1 DEF FindControlWindow
  <1>2. ASSUME NEW r \in Runtimes, CreateControlWindow(r) PROVE BlockInv' /\ ReadInv'
    BY <1>2 DEF CreateControlWindow
  <1>3. ASSUME NEW r \in Runtimes, MapBlock(r) PROVE BlockInv' /\ ReadInv'
    <2>1. mpc = "closed" /\ \A other \in Runtimes : spc[other] \notin Holding
      BY <1>3 DEF MapBlock
    <2>2. /\ sequence' = 0 /\ current' = 0 /\ block' = block
          /\ \A w \in Words : block[w] = 0
      BY <1>3, <2>1 DEF MapBlock
    <2>3. spc' = [spc EXCEPT ![r] = "init"] /\ writing'[r] = 0
      BY <1>3 DEF MapBlock
    <2>4. 0 % 2 = 0
      OBVIOUS
    <2>5. BlockInv'
      BY <2>1, <2>2, <2>3, <2>4
    <2>6. ReadInv'
      BY <1>3, <2>1 DEF MapBlock
    <2> QED BY <2>5, <2>6
  <1>4. ASSUME NEW r \in Runtimes, FinishInit(r) PROVE BlockInv' /\ ReadInv'
    BY <1>4 DEF FinishInit
  <1>5. ASSUME NEW r \in Runtimes, BeginPublish(r) PROVE BlockInv' /\ ReadInv'
    <2>1. /\ sequence % 2 = 0 /\ sequence' = sequence + 1
          /\ sequence' % 2 = 1 /\ sequence' % 2 # 0
      BY <1>5, Parity DEF BeginPublish
    <2>2. BlockInv'
      BY <1>5, <2>1 DEF BeginPublish
    <2>3. ReadInv'
      BY <1>5, <2>1 DEF BeginPublish
    <2> QED BY <2>2, <2>3
  <1>6. ASSUME NEW r \in Runtimes, FinishPublish(r) PROVE BlockInv' /\ ReadInv'
    <2>1. /\ sequence % 2 = 1 /\ sequence' = sequence + 1 /\ sequence' % 2 = 0
          /\ \A w \in Words : block[w] = writing[r]
      BY <1>6, Parity DEF FinishPublish
    <2>2. BlockInv'
      BY <1>6, <2>1 DEF FinishPublish
    <2>3. ReadInv'
      BY <1>6, <2>1 DEF FinishPublish
    <2> QED BY <2>2, <2>3
  <1>7. ASSUME NEW r \in Runtimes, MapFails(r) PROVE BlockInv' /\ ReadInv'
    BY <1>7 DEF MapFails
  <1>8. ASSUME NEW r \in Runtimes, CloseMapping(r) PROVE BlockInv' /\ ReadInv'
    BY <1>8 DEF CloseMapping
  <1>9. ASSUME NEW r \in Runtimes, DestroyControlWindow(r) PROVE BlockInv' /\ ReadInv'
    BY <1>9 DEF DestroyControlWindow
  <1>10. ASSUME NEW r \in Runtimes, Kill(r) PROVE BlockInv' /\ ReadInv'
    BY <1>10 DEF Kill
  <1>11. ASSUME NEW r \in Runtimes, CloseKilled(r) PROVE BlockInv' /\ ReadInv'
    BY <1>11 DEF CloseKilled
  <1>12. ASSUME NEW r \in Runtimes, NEW w \in Words, StoreWord(r, w) PROVE BlockInv' /\ ReadInv'
    BY <1>12 DEF StoreWord
  <1>13. CASE OpenView
    BY <1>13 DEF OpenView
  <1>14. CASE LoadBefore
    BY <1>14 DEF LoadBefore, Retry
  <1>15. CASE Recheck
    BY <1>15, RecheckKeeps
  <1>16. CASE CloseView
    BY <1>16 DEF CloseView
  <1>17. ASSUME NEW w \in Words, LoadWord(w) PROVE BlockInv' /\ ReadInv'
    BY <1>17 DEF LoadWord
  <1>18. CASE UNCHANGED vars
    BY <1>18 DEF vars
  <1> QED BY <1>1, <1>2, <1>3, <1>4, <1>5, <1>6, <1>7, <1>8, <1>9, <1>10, <1>11, <1>12, <1>13, <1>14, <1>15, <1>16, <1>17, <1>18 DEF Next

\* A status Read returns is one publish, whole, and the current one, unless
\* a block still held was initialised again.
THEOREM StatusReadWhole == Spec => []StatusIsWhole
  <1>1. TypeInv /\ SeqlockInv => StatusIsWhole
    BY DEF SeqlockInv, ReadInv, StatusIsWhole
  <1> QED
    BY <1>1, TypeInit, TypeStep, SeqlockInit, SeqlockStep, PTL DEF Spec

-------------------------------------------------------------------------------
(* Sequences and folds.                                                     *)

IsSeq(s) == s \in Seq(ToSet(s))

LEMMA SeqHas ==
  ASSUME NEW s, IsSeq(s)
  PROVE  Len(s) \in Nat /\ DOMAIN s = 1 .. Len(s)
BY DEF IsSeq

LEMMA ElementOf ==
  ASSUME NEW s, NEW i \in DOMAIN s
  PROVE  s[i] \in ToSet(s)
BY DEF ToSet

LEMMA SeqIs ==
  ASSUME NEW S, NEW s \in Seq(S)
  PROVE  IsSeq(s) /\ \A i \in DOMAIN s : s[i] \in S
<1>1. Len(s) \in Nat /\ DOMAIN s = 1 .. Len(s) /\ s \in [1 .. Len(s) -> S]
      BY LenProperties
<1>2. \A i \in 1 .. Len(s) : s[i] \in ToSet(s)
      BY <1>1, ElementOf
<1>3. s \in [1 .. Len(s) -> ToSet(s)]
      BY <1>1, <1>2
<1>4. s \in Seq(ToSet(s))
      BY <1>1, <1>3, SeqDef
<1> QED BY <1>1, <1>4 DEF IsSeq

\* A sequence is one of whatever holds its elements.
LEMMA SeqIn ==
  ASSUME NEW S, NEW s, IsSeq(s), \A i \in DOMAIN s : s[i] \in S
  PROVE  s \in Seq(S)
<1>1. Len(s) \in Nat /\ DOMAIN s = 1 .. Len(s) /\ s \in [1 .. Len(s) -> ToSet(s)]
      BY LenProperties DEF IsSeq
<1>2. s \in [1 .. Len(s) -> S]
      BY <1>1
<1> QED BY <1>1, <1>2, SeqDef

LEMMA BuiltSeq ==
  ASSUME NEW n \in Nat, NEW s, s = [i \in 1 .. n |-> s[i]]
  PROVE  IsSeq(s) /\ Len(s) = n /\ DOMAIN s = 1 .. n
<1>1. DOMAIN s = 1 .. n
      <2> DEFINE t == s
      <2>1. DOMAIN [i \in 1 .. n |-> s[i]] = 1 .. n
            OBVIOUS
      <2> QED BY <2>1, Zenon
<1>2. \A i \in 1 .. n : s[i] \in ToSet(s)
      BY <1>1, ElementOf
<1>3. s \in [1 .. n -> ToSet(s)]
      BY <1>2
<1>4. s \in Seq(ToSet(s))
      BY <1>3, SeqDef
<1>5. Len(s) = n
  <2>1. Len(s) \in Nat /\ DOMAIN s = 1 .. Len(s)
        BY <1>4, LenProperties
  <2> QED BY <2>1, <1>1
<1> QED BY <1>1, <1>4, <1>5 DEF IsSeq

\* Sequences that are the same are those that have the same elements.
LEMMA SameSeq ==
  ASSUME NEW s, NEW t, IsSeq(s), IsSeq(t), Len(s) = Len(t),
         \A i \in 1 .. Len(s) : s[i] = t[i]
  PROVE  s = t
<1> DEFINE S == ToSet(s) \cup ToSet(t)
<1>1. s \in Seq(S)
      BY SeqIn, ElementOf
<1>2. t \in Seq(S)
      BY SeqIn, ElementOf
<1> HIDE DEF S
<1> QED BY <1>1, <1>2, SeqEqual

LEMMA AppendedSeq ==
  ASSUME NEW s, NEW x, IsSeq(s)
  PROVE  /\ IsSeq(Append(s, x)) /\ Len(Append(s, x)) = Len(s) + 1
         /\ \A i \in 1 .. Len(s) : Append(s, x)[i] = s[i]
         /\ Append(s, x)[Len(s) + 1] = x
<1> DEFINE S == ToSet(s) \cup {x}
<1>1. s \in Seq(S) /\ x \in S
      BY SeqIn, ElementOf
<1> HIDE DEF S
<1>2. /\ Append(s, x) \in Seq(S) /\ Len(Append(s, x)) = Len(s) + 1
      /\ \A i \in 1 .. Len(s) : Append(s, x)[i] = s[i]
      /\ Append(s, x)[Len(s) + 1] = x
      BY <1>1, AppendProperties
<1> QED BY <1>2, SeqIs

LEMMA JoinedSeq ==
  ASSUME NEW s, NEW t, IsSeq(s), IsSeq(t)
  PROVE  /\ IsSeq(s \o t) /\ Len(s \o t) = Len(s) + Len(t)
         /\ \A i \in 1 .. Len(s) : (s \o t)[i] = s[i]
         /\ \A i \in 1 .. Len(t) : (s \o t)[Len(s) + i] = t[i]
<1> DEFINE S == ToSet(s) \cup ToSet(t)
<1>1. s \in Seq(S) /\ t \in Seq(S)
      BY SeqIn, ElementOf
<1> HIDE DEF S
<1>2. /\ s \o t \in Seq(S) /\ Len(s \o t) = Len(s) + Len(t)
      /\ \A i \in 1 .. Len(s) : (s \o t)[i] = s[i]
      /\ \A i \in 1 .. Len(t) : (s \o t)[Len(s) + i] = t[i]
      BY <1>1
<1> QED BY <1>2, SeqIs

-------------------------------------------------------------------------------
(* Folds.  A file is read by folding over its sections in three ways, which *)
(* have one recurrence; that it has a solution is an induction over the     *)
(* number of sections, from the least element of a set of numbers.          *)

\* A set of naturals that is not empty has a least one.
LEMMA LeastOne ==
  ASSUME NEW I, I \subseteq Nat, I # {}
  PROVE  \E x \in I : \A y \in I : x <= y
<1>1. ASSUME NEW x \in Nat, NEW y \in Nat, y < x
      PROVE  <<y, x>> \in OpToRel(<, Nat)
  <2> DEFINE ss == <<y, x>>
  <2>1. ss \in Nat \X Nat /\ ss[1] < ss[2]
        BY <1>1
  <2> HIDE DEF ss
  <2>2. ss \in OpToRel(<, Nat)
        BY <2>1, Zenon DEF OpToRel
  <2> QED BY <2>2 DEF ss
<1> DEFINE R == OpToRel(<, Nat)
<1> HIDE DEF R
<1>2. IsWellFoundedOn(R, Nat)
      BY NatLessThanWellFounded, Zenon DEF R
<1>3. PICK x \in I : \A y \in I : ~ (<<y, x>> \in R)
      BY <1>2, WFMin
<1>4. \A y, z \in Nat : y < z => <<y, z>> \in R
      BY <1>1, Zenon DEF R
<1>5. ASSUME NEW y \in I PROVE x <= y
  <2>1. x \in Nat /\ y \in Nat
        OBVIOUS
  <2>2. ~ (y < x)
        BY <2>1, <1>3, <1>4
  <2> QED BY <2>1, <2>2
<1> QED BY <1>5

\* A set of naturals that has 0, and with each of its numbers the next one, has
\* them all.
LEMMA Induction ==
  ASSUME NEW I, 0 \in I, \A n \in Nat : n \in I => n + 1 \in I
  PROVE  Nat \subseteq I
  <1> SUFFICES ASSUME Nat \ I # {} PROVE FALSE
    OBVIOUS
  <1>1. PICK least \in Nat \ I : \A y \in Nat \ I : least <= y
    <2> DEFINE M == Nat \ I
    <2>1. M \subseteq Nat /\ M # {}
      OBVIOUS
    <2> HIDE DEF M
    <2>2. \E x \in M : \A y \in M : x <= y
      BY <2>1, LeastOne
    <2> QED BY <2>2 DEF M
  <1>2. least - 1 \in Nat /\ (least - 1) + 1 = least
    OBVIOUS
  <1>3. least - 1 \in I
    BY <1>1, <1>2
  <1> QED BY <1>2, <1>3


\* What one section, the i-th, adds to what was read before it.
Takes(what, file, header, read, i) ==
  IF what = 0 THEN Collect(read, file[i], header)
  ELSE IF what = 1 THEN AddLook(read, file[i])
  ELSE AddPreset(file, read, i)

\* What is read of each set of sections.
Reads(f, what, file, header, base, D) ==
  f = [S \in SUBSET D |->
         IF S = {} THEN base ELSE Takes(what, file, header, f[S \ {Max(S)}], Max(S))]

LEMMA MaxOfPrefix ==
  ASSUME NEW n \in Nat, NEW S \in SUBSET (1 .. (n + 1)), n + 1 \in S
  PROVE  Max(S) = n + 1
<1>1. \A y \in S : n + 1 >= y
      OBVIOUS
<1>2. \A x \in S : (\A y \in S : x >= y) => x = n + 1
      OBVIOUS
<1> QED BY <1>1, <1>2 DEF Max

\* The greatest element of a set of numbers with a bound.
LEMMA MaxIsIn ==
  ASSUME NEW n \in Nat, NEW S \in SUBSET (1 .. n), S # {}
  PROVE  Max(S) \in S
<1> DEFINE I == {n - x : x \in S}
<1>1. I \subseteq Nat /\ I # {}
      OBVIOUS
<1> HIDE DEF I
<1>2. PICK m \in I : \A y \in I : m <= y
      BY <1>1, LeastOne
<1> USE DEF I
<1>3. PICK x \in S : m = n - x
      OBVIOUS
<1>4. ASSUME NEW y \in S PROVE x >= y
  <2>1. n - y \in I
        OBVIOUS
  <2>2. n - x <= n - y
        BY <1>2, <1>3, <2>1
  <2> QED BY <2>2
<1>5. \E z \in S : \A y \in S : z >= y
      BY <1>4
<1> QED BY <1>5 DEF Max

LEMMA ReadsExists ==
  ASSUME NEW what, NEW file, NEW header, NEW base, NEW k \in Nat
  PROVE  \E f : Reads(f, what, file, header, base, 1 .. k)
<1> DEFINE I == {n \in Nat : \E f : Reads(f, what, file, header, base, 1 .. n)}
<1>1. 0 \in I
  <2> DEFINE f == [S \in SUBSET (1 .. 0) |-> base]
  <2>1. \A S \in SUBSET (1 .. 0) : S = {}
        OBVIOUS
  <2>2. Reads(f, what, file, header, base, 1 .. 0)
        BY <2>1, Zenon DEF Reads
  <2> QED BY <2>2
<1>2. ASSUME NEW n \in Nat, n \in I PROVE n + 1 \in I
  <2>1. PICK f : Reads(f, what, file, header, base, 1 .. n)
        BY <1>2
  <2> DEFINE h == [S \in SUBSET (1 .. (n + 1)) |->
                     IF n + 1 \in S THEN Takes(what, file, header, f[S \ {n + 1}], n + 1)
                     ELSE f[S]]
  <2>2. ASSUME NEW S \in SUBSET (1 .. (n + 1))
        PROVE  h[S] = IF S = {} THEN base
                      ELSE Takes(what, file, header, h[S \ {Max(S)}], Max(S))
    <3>1. CASE n + 1 \in S
      <4>1. Max(S) = n + 1
            BY <3>1, MaxOfPrefix
      <4>2. S \ {n + 1} \in SUBSET (1 .. (n + 1)) /\ n + 1 \notin S \ {n + 1}
            OBVIOUS
      <4>3. h[S \ {n + 1}] = f[S \ {n + 1}]
            BY <4>2
      <4> QED BY <3>1, <4>1, <4>3
    <3>2. CASE n + 1 \notin S
      <4>1. S \in SUBSET (1 .. n)
            BY <3>2
      <4>2. h[S] = f[S]
            BY <3>2
      <4>3. f[S] = IF S = {} THEN base
                   ELSE Takes(what, file, header, f[S \ {Max(S)}], Max(S))
            BY <2>1, <4>1 DEF Reads
      <4>4. /\ S \ {Max(S)} \in SUBSET (1 .. (n + 1))
            /\ n + 1 \notin S \ {Max(S)}
            BY <3>2
      <4>5. h[S \ {Max(S)}] = f[S \ {Max(S)}]
            BY <4>4
      <4> QED BY <4>2, <4>3, <4>5
    <3> QED BY <3>1, <3>2
  <2>3. h = [S \in SUBSET (1 .. (n + 1)) |-> h[S]]
        OBVIOUS
  <2> HIDE DEF h
  <2>4. Reads(h, what, file, header, base, 1 .. (n + 1))
        BY <2>2, <2>3, Zenon DEF Reads
  <2> QED BY <2>4
<1> HIDE DEF I
<1>3. k \in I
      BY <1>1, <1>2, Induction
<1> QED BY <1>3 DEF I

\* What is read of the sections up to each one.
Steps(r, what, file, header, base, n) ==
  /\ r[0] = base
  /\ \A i \in 1 .. n : r[i] = Takes(what, file, header, r[i - 1], i)

LEMMA ReadsSteps ==
  ASSUME NEW what, NEW file, NEW header, NEW base, NEW n \in Nat, NEW f,
         Reads(f, what, file, header, base, 1 .. n)
  PROVE  \E r : Steps(r, what, file, header, base, n) /\ r[n] = f[1 .. n]
<1>1. \A S \in SUBSET (1 .. n) :
        f[S] = IF S = {} THEN base ELSE Takes(what, file, header, f[S \ {Max(S)}], Max(S))
      BY Zenon DEF Reads
<1>2. 1 .. 0 = {} /\ {} \in SUBSET (1 .. n)
      OBVIOUS
<1>3. f[1 .. 0] = base
      BY <1>1, <1>2, Zenon
<1>4. ASSUME NEW i \in 1 .. n
      PROVE  f[1 .. i] = Takes(what, file, header, f[1 .. (i - 1)], i)
  <2> DEFINE S == 1 .. i
  <2>1. i - 1 \in Nat /\ (i - 1) + 1 = i
        OBVIOUS
  <2>2. S \in SUBSET (1 .. n) /\ i \in S
        OBVIOUS
  <2>3. Max(S) = i
        BY <2>1, <2>2, MaxOfPrefix
  <2>4. S \ {i} = 1 .. (i - 1)
        OBVIOUS
  <2> HIDE DEF S
  <2>5. f[S] = Takes(what, file, header, f[S \ {Max(S)}], Max(S))
        BY <1>1, <2>2, Zenon
  <2> QED BY <2>3, <2>4, <2>5 DEF S
<1> DEFINE r == [i \in 0 .. n |-> f[1 .. i]]
<1>5. \A i \in 1 .. n : i \in 0 .. n /\ i - 1 \in 0 .. n
      OBVIOUS
<1>6. \A i \in 0 .. n : r[i] = f[1 .. i]
      OBVIOUS
<1>7. 0 \in 0 .. n /\ n \in 0 .. n
      OBVIOUS
<1> HIDE DEF r
<1>8. Steps(r, what, file, header, base, n)
      BY <1>3, <1>4, <1>5, <1>6, <1>7, Zenon DEF Steps
<1> QED BY <1>6, <1>7, <1>8

\* The folds as such.
Sectioned(f, file, header, D) ==
  f = [S \in SUBSET D |->
         IF S = {} THEN <<>> ELSE Collect(f[S \ {Max(S)}], file[Max(S)], header)]
Looked(f, of, D) ==
  f = [S \in SUBSET D |-> IF S = {} THEN <<>> ELSE AddLook(f[S \ {Max(S)}], of[Max(S)])]
Listed(f, file, places, D) ==
  f = [S \in SUBSET D |->
         IF S = {} THEN BuiltinPresets ELSE AddPreset(file, f[S \ {Max(S)}], places[Max(S)])]

SectionsOf(file, header) == CHOOSE f : Sectioned(f, file, header, DOMAIN file)
LooksOf(of) == CHOOSE f : Looked(f, of, DOMAIN of)
ListOf(file, places) == CHOOSE f : Listed(f, file, places, DOMAIN places)

LEMMA SectionsIs == \A file, header : Sections(file, header) = SectionsOf(file, header)[DOMAIN file]
BY Zenon DEF Sections, FoldLeft, MapThenFoldSet, SectionsOf, Sectioned

LEMMA LooksIs == \A file : ReadLooks(file) = LooksOf(Sections(file, "app_look"))[DOMAIN Sections(file, "app_look")]
BY Zenon DEF ReadLooks, FoldLeft, MapThenFoldSet, LooksOf, Looked

LEMMA ListIs ==
  \A file : file # Unreadable =>
    AllPresets(file) = LET places == [i \in DOMAIN file |-> i]
                       IN ListOf(file, places)[DOMAIN places]
BY Zenon DEF AllPresets, FoldLeft, MapThenFoldSet, ListOf, Listed

LEMMA SectionsSteps ==
  ASSUME NEW file, IsSeq(file), NEW header
  PROVE  \E r : /\ r[0] = <<>>
                /\ \A i \in 1 .. Len(file) : r[i] = Collect(r[i - 1], file[i], header)
                /\ Sections(file, header) = r[Len(file)]
<1> DEFINE n == Len(file)
<1>1. n \in Nat /\ DOMAIN file = 1 .. n
      BY SeqHas
<1> HIDE DEF n
<1>2. \A f : Sectioned(f, file, header, 1 .. n) <=> Reads(f, 0, file, header, <<>>, 1 .. n)
      BY Zenon DEF Sectioned, Reads, Takes
<1>3. \E f : Sectioned(f, file, header, 1 .. n)
      BY <1>1, <1>2, ReadsExists
<1>4. Sectioned(SectionsOf(file, header), file, header, 1 .. n)
      BY <1>1, <1>3, Zenon DEF SectionsOf
<1>5. \E r : Steps(r, 0, file, header, <<>>, n) /\ r[n] = SectionsOf(file, header)[1 .. n]
      BY <1>1, <1>2, <1>4, ReadsSteps
<1>6. PICK r : Steps(r, 0, file, header, <<>>, n) /\ r[n] = SectionsOf(file, header)[1 .. n]
      BY <1>5
<1>7. /\ r[0] = <<>>
      /\ \A i \in 1 .. n : r[i] = Collect(r[i - 1], file[i], header)
      BY <1>6, Zenon DEF Steps, Takes
<1>8. Sections(file, header) = r[n]
      BY <1>1, <1>6, SectionsIs
<1> QED BY <1>7, <1>8 DEF n

LEMMA LooksSteps ==
  ASSUME NEW file, IsSeq(Sections(file, "app_look"))
  PROVE  LET of == Sections(file, "app_look")
         IN \E r : /\ r[0] = <<>>
                   /\ \A i \in 1 .. Len(of) : r[i] = AddLook(r[i - 1], of[i])
                   /\ ReadLooks(file) = r[Len(of)]
<1> DEFINE of == Sections(file, "app_look")
           n == Len(of)
<1>0. ReadLooks(file) = LooksOf(of)[DOMAIN of]
      BY LooksIs
<1>1. n \in Nat /\ DOMAIN of = 1 .. n
      BY SeqHas
<1> SUFFICES \E r : /\ r[0] = <<>>
                    /\ \A i \in 1 .. n : r[i] = AddLook(r[i - 1], of[i])
                    /\ ReadLooks(file) = r[n]
    OBVIOUS
<1> HIDE DEF n, of
<1>2. \A f : Looked(f, of, 1 .. n) <=> Reads(f, 1, of, 0, <<>>, 1 .. n)
  <2>1. 1 # 0
        OBVIOUS
  <2> QED BY <2>1, Zenon DEF Looked, Reads, Takes
<1>3. \E f : Looked(f, of, 1 .. n)
      BY <1>1, <1>2, ReadsExists
<1>4. Looked(LooksOf(of), of, 1 .. n)
      BY <1>1, <1>3, Zenon DEF LooksOf
<1>5. \E r : Steps(r, 1, of, 0, <<>>, n) /\ r[n] = LooksOf(of)[1 .. n]
      BY <1>1, <1>2, <1>4, ReadsSteps
<1>6. PICK r : Steps(r, 1, of, 0, <<>>, n) /\ r[n] = LooksOf(of)[1 .. n]
      BY <1>5
<1>7. /\ r[0] = <<>>
      /\ \A i \in 1 .. n : r[i] = AddLook(r[i - 1], of[i])
  <2>1. 1 # 0
        OBVIOUS
  <2> QED BY <1>6, <2>1, Zenon DEF Steps, Takes
<1> QED BY <1>0, <1>1, <1>6, <1>7

LEMMA ListSteps ==
  ASSUME NEW file, IsSeq(file), file # Unreadable
  PROVE  \E r : /\ r[0] = BuiltinPresets
                /\ \A i \in 1 .. Len(file) : r[i] = AddPreset(file, r[i - 1], i)
                /\ AllPresets(file) = r[Len(file)]
<1> DEFINE n == Len(file)
           places == [i \in DOMAIN file |-> i]
<1>0. AllPresets(file) = ListOf(file, places)[DOMAIN places]
      BY ListIs, Zenon
<1>1. n \in Nat /\ DOMAIN file = 1 .. n
      BY SeqHas
<1>p. DOMAIN places = 1 .. n /\ \A i \in 1 .. n : places[i] = i
      BY <1>1
<1> HIDE DEF n, places
<1>2. ASSUME NEW f
      PROVE  Listed(f, file, places, 1 .. n) <=> Reads(f, 2, file, 0, BuiltinPresets, 1 .. n)
  <2>1. 2 # 0 /\ 2 # 1
        OBVIOUS
  <2>2. ASSUME NEW S \in SUBSET (1 .. n), S # {} PROVE places[Max(S)] = Max(S)
    <3>1. Max(S) \in S
          BY <1>1, <2>2, MaxIsIn
    <3> QED BY <3>1, <1>p
  <2>3. ASSUME NEW S \in SUBSET (1 .. n)
        PROVE  (IF S = {} THEN BuiltinPresets
                ELSE AddPreset(file, f[S \ {Max(S)}], places[Max(S)]))
               = (IF S = {} THEN BuiltinPresets ELSE Takes(2, file, 0, f[S \ {Max(S)}], Max(S)))
        BY <2>1, <2>2, Zenon DEF Takes
  <2>4. [S \in SUBSET (1 .. n) |-> IF S = {} THEN BuiltinPresets
                ELSE AddPreset(file, f[S \ {Max(S)}], places[Max(S)])]
        = [S \in SUBSET (1 .. n) |-> IF S = {} THEN BuiltinPresets
                ELSE Takes(2, file, 0, f[S \ {Max(S)}], Max(S))]
        BY <2>3, Zenon
  <2> QED BY <2>4, Zenon DEF Listed, Reads
<1>3. \E f : Listed(f, file, places, 1 .. n)
      BY <1>1, <1>2, ReadsExists
<1>4. Listed(ListOf(file, places), file, places, 1 .. n)
      BY <1>p, <1>3, Zenon DEF ListOf
<1>5. \E r : Steps(r, 2, file, 0, BuiltinPresets, n) /\ r[n] = ListOf(file, places)[1 .. n]
      BY <1>1, <1>2, <1>4, ReadsSteps
<1>6. PICK r : Steps(r, 2, file, 0, BuiltinPresets, n) /\ r[n] = ListOf(file, places)[1 .. n]
      BY <1>5
<1>7. /\ r[0] = BuiltinPresets
      /\ \A i \in 1 .. n : r[i] = AddPreset(file, r[i - 1], i)
  <2>1. 2 # 0 /\ 2 # 1
        OBVIOUS
  <2> QED BY <1>6, <2>1, Zenon DEF Steps, Takes
<1>8. AllPresets(file) = r[n]
      BY <1>0, <1>p, <1>6
<1> QED BY <1>7, <1>8 DEF n

-------------------------------------------------------------------------------
(* The sections of one name.                                                *)

\* They are sections of the file, and have that name.
LEMMA SectionsAre ==
  ASSUME NEW file, IsSeq(file), NEW header
  PROVE  /\ IsSeq(Sections(file, header))
         /\ \A i \in DOMAIN Sections(file, header) :
              /\ Sections(file, header)[i] \in ToSet(file)
              /\ Sections(file, header)[i].header = header
<1> DEFINE n == Len(file)
           T == {x \in ToSet(file) : x.header = header}
<1>1. n \in Nat /\ DOMAIN file = 1 .. n
      BY SeqHas
<1>2. PICK r : /\ r[0] = <<>>
               /\ \A i \in 1 .. n : r[i] = Collect(r[i - 1], file[i], header)
               /\ Sections(file, header) = r[n]
      BY SectionsSteps
<1>3. \A i \in 1 .. n : file[i] \in ToSet(file)
      BY <1>1, ElementOf
<1>4. \A x \in ToSet(file) : x.header = header => x \in T
      OBVIOUS
<1> HIDE DEF n, T
<1> DEFINE I == {i \in Nat : i <= n => r[i] \in Seq(T)}
<1>5. 0 \in I
  <2>1. <<>> \in Seq(T)
        BY EmptySeq
  <2> QED BY <1>2, <2>1
<1>6. ASSUME NEW i \in Nat, i \in I PROVE i + 1 \in I
  <2> SUFFICES ASSUME i + 1 <= n PROVE r[i + 1] \in Seq(T)
      OBVIOUS
  <2>1. i + 1 \in 1 .. n /\ (i + 1) - 1 = i /\ r[i] \in Seq(T)
        BY <1>1, <1>6
  <2>2. r[i + 1] = Collect(r[i], file[i + 1], header)
        BY <1>2, <2>1
  <2>3. CASE file[i + 1].header = header
    <3>1. file[i + 1] \in T
          BY <1>3, <1>4, <2>1, <2>3
    <3> QED BY <2>1, <2>2, <2>3, <3>1 DEF Collect
  <2>4. CASE file[i + 1].header # header
        BY <2>1, <2>2, <2>4 DEF Collect
  <2> QED BY <2>3, <2>4
<1> HIDE DEF I
<1>7. n \in I
      BY <1>1, <1>5, <1>6, Induction
<1>8. Sections(file, header) \in Seq(T)
      BY <1>1, <1>2, <1>7 DEF I
<1>9. /\ IsSeq(Sections(file, header))
      /\ \A i \in DOMAIN Sections(file, header) : Sections(file, header)[i] \in T
      BY <1>8, SeqIs
<1> QED BY <1>9 DEF T

\* A file without sections of the name.
LEMMA SectionsNone ==
  ASSUME NEW file, IsSeq(file), NEW header,
         \A i \in 1 .. Len(file) : file[i].header # header
  PROVE  Sections(file, header) = <<>>
<1> DEFINE n == Len(file)
<1>1. n \in Nat
      BY SeqHas
<1>2. PICK r : /\ r[0] = <<>>
               /\ \A i \in 1 .. n : r[i] = Collect(r[i - 1], file[i], header)
               /\ Sections(file, header) = r[n]
      BY SectionsSteps
<1>3. \A i \in 1 .. n : file[i].header # header
      OBVIOUS
<1> HIDE DEF n
<1> DEFINE I == {i \in Nat : i <= n => r[i] = <<>>}
<1>5. 0 \in I
      BY <1>2
<1>6. ASSUME NEW i \in Nat, i \in I PROVE i + 1 \in I
  <2> SUFFICES ASSUME i + 1 <= n PROVE r[i + 1] = <<>>
      OBVIOUS
  <2>1. i + 1 \in 1 .. n /\ (i + 1) - 1 = i /\ r[i] = <<>>
        BY <1>1, <1>6
  <2>2. r[i + 1] = Collect(r[i], file[i + 1], header)
        BY <1>2, <2>1
  <2> QED BY <1>3, <2>1, <2>2 DEF Collect
<1> HIDE DEF I
<1>7. n \in I
      BY <1>1, <1>5, <1>6, Induction
<1> QED BY <1>1, <1>2, <1>7 DEF I

\* A file of such sections only.
LEMMA SectionsAll ==
  ASSUME NEW file, IsSeq(file), NEW header,
         \A i \in 1 .. Len(file) : file[i].header = header
  PROVE  Sections(file, header) = file
<1> DEFINE n == Len(file)
<1>1. n \in Nat
      BY SeqHas
<1>2. PICK r : /\ r[0] = <<>>
               /\ \A i \in 1 .. n : r[i] = Collect(r[i - 1], file[i], header)
               /\ Sections(file, header) = r[n]
      BY SectionsSteps
<1>3. \A i \in 1 .. n : file[i].header = header
      OBVIOUS
<1>4. n = Len(file)
      OBVIOUS
<1> HIDE DEF n
<1> DEFINE Upto(i) == IsSeq(r[i]) /\ Len(r[i]) = i /\ \A j \in 1 .. i : r[i][j] = file[j]
           I == {i \in Nat : i <= n => Upto(i)}
<1>5. 0 \in I
  <2>1. r[0] \in Seq({}) /\ Len(r[0]) = 0
        BY <1>2
  <2> QED BY <2>1, SeqIs
<1>6. ASSUME NEW i \in Nat, i \in I PROVE i + 1 \in I
  <2> SUFFICES ASSUME i + 1 <= n PROVE Upto(i + 1)
      OBVIOUS
  <2>1. i + 1 \in 1 .. n /\ (i + 1) - 1 = i /\ Upto(i)
        BY <1>1, <1>6
  <2> DEFINE s == r[i]
             x == file[i + 1]
  <2>2. r[i + 1] = Append(s, x)
        BY <1>2, <1>3, <2>1 DEF Collect
  <2>3. IsSeq(s) /\ Len(s) = i /\ \A j \in 1 .. i : s[j] = file[j]
        BY <2>1
  <2> HIDE DEF s, x
  <2>4. /\ IsSeq(Append(s, x)) /\ Len(Append(s, x)) = Len(s) + 1
        /\ \A j \in 1 .. Len(s) : Append(s, x)[j] = s[j]
        /\ Append(s, x)[Len(s) + 1] = x
        BY <2>3, AppendedSeq
  <2>5. \A j \in 1 .. i + 1 : r[i + 1][j] = file[j]
        BY <2>2, <2>3, <2>4 DEF x
  <2> QED BY <2>2, <2>3, <2>4, <2>5
<1> HIDE DEF I
<1>7. n \in I
      BY <1>1, <1>5, <1>6, Induction
<1>8. Upto(n)
      BY <1>1, <1>7 DEF I
<1> QED BY <1>2, <1>4, <1>8, SameSeq

LEMMA AppendAfter ==
  ASSUME NEW s, NEW t, NEW x, IsSeq(s), IsSeq(t)
  PROVE  Append(s \o t, x) = s \o Append(t, x)
<1> DEFINE S == ToSet(s) \cup ToSet(t) \cup {x}
<1>1. s \in Seq(S) /\ t \in Seq(S) /\ x \in S
      BY SeqIn, ElementOf
<1> HIDE DEF S
<1> QED BY <1>1

\* The sections of one file and then of the next.
LEMMA SectionsConcat ==
  ASSUME NEW a, NEW b, IsSeq(a), IsSeq(b), NEW header
  PROVE  Sections(a \o b, header) = Sections(a, header) \o Sections(b, header)
<1> DEFINE ab == a \o b
           m == Len(a)
           n == Len(b)
<1>1. m \in Nat /\ n \in Nat
      BY SeqHas
<1>2. /\ IsSeq(ab) /\ Len(ab) = m + n
      /\ \A i \in 1 .. m : ab[i] = a[i]
      /\ \A i \in 1 .. n : ab[m + i] = b[i]
      BY JoinedSeq
<1>3. PICK p : /\ p[0] = <<>>
               /\ \A i \in 1 .. m : p[i] = Collect(p[i - 1], a[i], header)
               /\ Sections(a, header) = p[m]
      BY SectionsSteps
<1>4. PICK q : /\ q[0] = <<>>
               /\ \A i \in 1 .. n : q[i] = Collect(q[i - 1], b[i], header)
               /\ Sections(b, header) = q[n]
      BY SectionsSteps
<1> HIDE DEF ab, m, n
<1>5. PICK r : /\ r[0] = <<>>
               /\ \A i \in 1 .. m + n : r[i] = Collect(r[i - 1], ab[i], header)
               /\ Sections(ab, header) = r[m + n]
  <2>1. \E r : /\ r[0] = <<>>
               /\ \A i \in 1 .. Len(ab) : r[i] = Collect(r[i - 1], ab[i], header)
               /\ Sections(ab, header) = r[Len(ab)]
        BY <1>2, SectionsSteps
  <2> QED BY <1>2, <2>1, Zenon
<1> DEFINE I == {i \in Nat : i <= m => r[i] = p[i]}
<1>6. 0 \in I
      BY <1>3, <1>5
<1>7. ASSUME NEW i \in Nat, i \in I PROVE i + 1 \in I
  <2> SUFFICES ASSUME i + 1 <= m PROVE r[i + 1] = p[i + 1]
      OBVIOUS
  <2>1. i + 1 \in 1 .. m /\ i + 1 \in 1 .. m + n /\ (i + 1) - 1 = i /\ r[i] = p[i]
        BY <1>1, <1>7
  <2> QED BY <1>2, <1>3, <1>5, <2>1
<1> HIDE DEF I
<1>8. r[m] = p[m]
  <2>1. m \in I
        BY <1>1, <1>6, <1>7, Induction
  <2> QED BY <1>1, <2>1 DEF I
<1>9. IsSeq(p[m])
      BY <1>3, SectionsAre
<1> DEFINE Alike(i) == IsSeq(q[i]) /\ r[m + i] = p[m] \o q[i]
           J == {i \in Nat : i <= n => Alike(i)}
<1>10. Alike(0)
  <2>1. q[0] \in Seq({}) /\ q[0] = <<>>
        BY <1>4
  <2>2. IsSeq(q[0])
        BY <2>1, SeqIs
  <2>3. p[m] \o <<>> = p[m]
    <3>1. p[m] \in Seq(ToSet(p[m]))
          BY <1>9 DEF IsSeq
    <3> QED BY <3>1
  <2> QED BY <1>1, <1>8, <2>1, <2>2, <2>3
<1>11. ASSUME NEW i \in Nat, i + 1 <= n, Alike(i) PROVE Alike(i + 1)
  <2>1. /\ i + 1 \in 1 .. n /\ m + (i + 1) \in 1 .. m + n /\ (i + 1) - 1 = i
        /\ (m + (i + 1)) - 1 = m + i
    <3> HIDE DEF Alike
    <3> QED BY <1>1, <1>11
  <2> DEFINE x == b[i + 1]
             s == p[m]
             t == q[i]
  <2>2. q[i + 1] = Collect(t, x, header)
        BY <1>4, <2>1
  <2>3. ab[m + (i + 1)] = x
        BY <1>2, <2>1
  <2>4. r[m + (i + 1)] = Collect(r[m + i], ab[m + (i + 1)], header)
        BY <1>5, <2>1
  <2>5. r[m + (i + 1)] = Collect(s \o t, x, header)
        BY <1>11, <2>3, <2>4, Zenon
  <2>6. IsSeq(s) /\ IsSeq(t)
        BY <1>9, <1>11
  <2> HIDE DEF x, s, t
  <2>7. Append(s \o t, x) = s \o Append(t, x) /\ IsSeq(Append(t, x))
        BY <2>6, AppendAfter, AppendedSeq
  <2>8. Collect(s \o t, x, header) = s \o Collect(t, x, header) /\ IsSeq(Collect(t, x, header))
        BY <2>6, <2>7 DEF Collect
  <2> QED BY <2>2, <2>5, <2>8 DEF s
<1> HIDE DEF Alike
<1>12. Alike(n)
  <2>1. 0 \in J
        BY <1>10
  <2>2. ASSUME NEW i \in Nat, i \in J PROVE i + 1 \in J
    <3>1. i + 1 <= n => i <= n
          BY <1>1
    <3>2. i + 1 <= n => Alike(i + 1)
          BY <1>11, <2>2, <3>1
    <3> QED BY <3>2
  <2> HIDE DEF J
  <2>3. n \in J
        BY <1>1, <2>1, <2>2, Induction
  <2> QED BY <1>1, <2>3 DEF J
<1>13. r[m + n] = p[m] \o q[n]
      BY <1>12, Zenon DEF Alike
<1> QED BY <1>3, <1>4, <1>5, <1>13, Zenon DEF ab

-------------------------------------------------------------------------------
(* Values and tables.                                                       *)

\* A table has the keys of another, each with a value of its type.
TypedTable(t, like) ==
  /\ t = [k \in DOMAIN like |-> t[k]]
  /\ \A k \in DOMAIN like : t[k] # Wrong /\ IsTyped(k, t[k])
TypedKeys(keys) == \A k \in DOMAIN keys : keys[k] # Wrong => IsTyped(k, keys[k])

LEMMA Ranges ==
  /\ Floats = {"intensity", "local_structure", "local_tone", "skin_structure",
               "paper_white_nits", "colour_preserve", "highlight_protect", "split_view",
               "model_scale", "synthetic_depth"}
  /\ Ints = {"preset", "style", "ui_mask_feather"}
  /\ DOMAIN NoRect = {"left", "top", "right", "bottom"}
  /\ \A k \in Floats : /\ FloatRange[k][1] \in Int /\ FloatRange[k][2] \in Int
                       /\ FloatRange[k][1] <= FloatRange[k][2]
  /\ \A k \in Ints : /\ IntRange[k][1] \in Int /\ IntRange[k][2] \in Int
                     /\ 0 <= IntRange[k][1] /\ IntRange[k][1] <= IntRange[k][2]
                     /\ IntRange[k][2] <= 256
<1>1. Floats = {"intensity", "local_structure", "local_tone", "skin_structure",
               "paper_white_nits", "colour_preserve", "highlight_protect", "split_view",
               "model_scale", "synthetic_depth"}
      BY DEF Floats, FloatRange
<1>2. Ints = {"preset", "style", "ui_mask_feather"}
      BY DEF Ints, IntRange
<1>3. DOMAIN NoRect = {"left", "top", "right", "bottom"}
      BY DEF NoRect
<1>4. ASSUME NEW k \in Floats
      PROVE  /\ FloatRange[k][1] \in Int /\ FloatRange[k][2] \in Int
             /\ FloatRange[k][1] <= FloatRange[k][2]
      BY <1>1 DEF FloatRange
<1>5. ASSUME NEW k \in Ints
      PROVE  /\ IntRange[k][1] \in Int /\ IntRange[k][2] \in Int
             /\ 0 <= IntRange[k][1] /\ IntRange[k][1] <= IntRange[k][2]
             /\ IntRange[k][2] <= 256
      BY <1>2 DEF IntRange
<1> QED BY <1>1, <1>2, <1>3, <1>4, <1>5

LEMMA ClampIn ==
  ASSUME NEW v \in Int, NEW range, range[1] \in Int, range[2] \in Int, range[1] <= range[2]
  PROVE  /\ Clamp(v, range) \in Int
         /\ range[1] <= Clamp(v, range) /\ Clamp(v, range) <= range[2]
         /\ range[1] <= v /\ v <= range[2] => Clamp(v, range) = v
BY DEF Clamp

\* What is cut fits the width, and what fits is not cut.
LEMMA WrappedIn ==
  ASSUME NEW v \in Int
  PROVE  /\ Wrapped(v) \in Int
         /\ -(IntModulus \div 2) - 1 <= Wrapped(v) /\ Wrapped(v) < IntModulus \div 2
<1> DEFINE m == IntModulus
           h == m \div 2
           r == v % m
<1>1. m \in Nat /\ h > 256
      BY CodecAssumption
<1>2. h \in Int /\ 2 * h <= m /\ m <= 2 * h + 1
      BY <1>1
<1>3. r \in 0 .. m - 1
      BY <1>1, <1>2
<1>4. Wrapped(v) = IF r < h THEN r ELSE r - m
      BY DEF Wrapped
<1> HIDE DEF m, h, r
<1>5. Wrapped(v) \in Int /\ -h - 1 <= Wrapped(v) /\ Wrapped(v) < h
      BY <1>1, <1>2, <1>3, <1>4
<1> QED BY <1>5 DEF h, m

LEMMA WrappedStays ==
  /\ \A v \in Int : 0 <= v /\ v <= 256 => Wrapped(v) = v
  /\ \A v \in Int : Wrapped(Wrapped(v)) = Wrapped(v)
<1> DEFINE m == IntModulus
           h == m \div 2
<1>1. m \in Nat /\ h > 256
      BY CodecAssumption
<1>2. h \in Int /\ 2 * h <= m /\ m <= 2 * h + 1
      BY <1>1
<1>3. \A v \in Int : Wrapped(v) = IF v % m < h THEN v % m ELSE (v % m) - m
      BY DEF Wrapped
<1> HIDE DEF h
<1> SUFFICES ASSUME NEW v \in Int
             PROVE  /\ 0 <= v /\ v <= 256 => Wrapped(v) = v
                    /\ Wrapped(Wrapped(v)) = Wrapped(v)
    OBVIOUS
<1> HIDE DEF m
<1>4. \A x \in 0 .. m - 1 : x % m = x
      BY <1>1, <1>2
<1>5. \A x \in 0 .. m - 1 : (x - m) % m = x
      BY <1>1, <1>2
<1>6. ASSUME 0 <= v, v <= 256 PROVE Wrapped(v) = v
      BY <1>1, <1>2, <1>3, <1>4, <1>6
<1> DEFINE r == v % m
<1>7. r \in 0 .. m - 1
      BY <1>1, <1>2
<1>8. Wrapped(v) = IF r < h THEN r ELSE r - m
      BY <1>3
<1> HIDE DEF r
<1>9. CASE r < h
  <2>1. Wrapped(v) = r /\ r \in Int /\ r % m = r
        BY <1>4, <1>7, <1>8, <1>9
  <2> QED BY <1>3, <1>6, <1>9, <2>1
<1>10. CASE ~ (r < h)
  <2>1. Wrapped(v) = r - m /\ r - m \in Int /\ (r - m) % m = r
        BY <1>1, <1>5, <1>7, <1>8, <1>10
  <2>2. Wrapped(r - m) = r - m
        BY <1>3, <1>10, <2>1
  <2> QED BY <1>6, <2>1, <2>2
<1> QED BY <1>6, <1>9, <1>10

\* A value of the key's type is made legal, unless the key has a gap in its range.
LEMMA LegalValue ==
  ASSUME NEW k, NEW v, v # Wrong, IsTyped(k, v)
  PROVE  /\ Legal(k, v) # Wrong /\ IsTyped(k, Legal(k, v))
         /\ k # "flow_grid_size" => IsLegal(k, Legal(k, v))
         /\ k \notin Floats \cup Ints => Legal(k, v) = v
<1>1. Wrong \notin Int /\ Wrong # NaN
      BY CodecAssumption
<1>2. CASE k \in Floats
  <2>0. k \notin Ints /\ k \notin DOMAIN NoRect
        BY <1>2, Ranges
  <2>1. Legal(k, v) = IF v = NaN THEN NaN ELSE Clamp(v, FloatRange[k])
        BY <1>2, <2>0 DEF Legal
  <2>2. v \in Int \cup {NaN}
        BY <1>2 DEF IsTyped
  <2>3. CASE v = NaN
        BY <1>1, <1>2, <2>0, <2>1, <2>3 DEF IsLegal, IsTyped
  <2>4. CASE v # NaN
    <3>1. v \in Int /\ Legal(k, v) = Clamp(v, FloatRange[k])
          BY <2>1, <2>2, <2>4
    <3>2. /\ FloatRange[k][1] \in Int /\ FloatRange[k][2] \in Int
          /\ FloatRange[k][1] <= FloatRange[k][2]
          BY <1>2, Ranges
    <3>3. /\ Legal(k, v) \in Int
          /\ FloatRange[k][1] <= Legal(k, v) /\ Legal(k, v) <= FloatRange[k][2]
          BY <3>1, <3>2, ClampIn
    <3> HIDE DEF Legal
    <3> QED BY <1>1, <1>2, <2>0, <3>3 DEF IsLegal, IsTyped
  <2> QED BY <2>3, <2>4
<1>3. CASE k \in Ints
  <2>0. k \notin Floats /\ k \notin DOMAIN NoRect
        BY <1>3, Ranges
  <2>1. Legal(k, v) = Clamp(Wrapped(v), IntRange[k])
        BY <1>3, <2>0 DEF Legal
  <2>2. v \in Int
        BY <1>3 DEF IsTyped
  <2>3. Wrapped(v) \in Int
        BY <2>2, WrappedIn
  <2>4. IntRange[k][1] \in Int /\ IntRange[k][2] \in Int /\ IntRange[k][1] <= IntRange[k][2]
        BY <1>3, Ranges
  <2>5. /\ Legal(k, v) \in Int
        /\ IntRange[k][1] <= Legal(k, v) /\ Legal(k, v) <= IntRange[k][2]
        BY <2>1, <2>3, <2>4, ClampIn
  <2> HIDE DEF Legal
  <2> QED BY <1>1, <1>3, <2>0, <2>5 DEF IsLegal, IsTyped
<1>4. CASE k \notin Floats \cup Ints
  <2>1. Legal(k, v) = v
        BY <1>4 DEF Legal
  <2> QED BY <1>4, <2>1 DEF IsLegal
<1> QED BY <1>2, <1>3, <1>4

\* A table that is read has the inherited one's keys, each with a value of its type.
LEMMA ReadIsTyped ==
  ASSUME NEW keys, TypedKeys(keys), NEW t, NEW like, TypedTable(t, like)
  PROVE  /\ TypedTable(ReadTable(keys, t), like)
         /\ \A k \in DOMAIN like :
              /\ ReadTable(keys, t)[k] = IF Says(keys, k) THEN Legal(k, keys[k]) ELSE t[k]
              /\ k # "flow_grid_size" /\ IsLegal(k, t[k]) => IsLegal(k, ReadTable(keys, t)[k])
<1>1. DOMAIN t = DOMAIN like
      BY Zenon DEF TypedTable
<1> DEFINE u == ReadTable(keys, t)
<1>2. u = [k \in DOMAIN like |-> IF Says(keys, k) THEN Legal(k, keys[k]) ELSE t[k]]
      BY <1>1, Zenon DEF ReadTable
<1>3. \A k \in DOMAIN like : u[k] = IF Says(keys, k) THEN Legal(k, keys[k]) ELSE t[k]
      BY <1>2, Zenon
<1>4. u = [k \in DOMAIN like |-> u[k]]
      BY <1>2, <1>3, Zenon
<1> HIDE DEF u
<1>5. ASSUME NEW k \in DOMAIN like
      PROVE  /\ u[k] # Wrong /\ IsTyped(k, u[k])
             /\ k # "flow_grid_size" /\ IsLegal(k, t[k]) => IsLegal(k, u[k])
  <2>1. CASE Says(keys, k)
    <3>1. u[k] = Legal(k, keys[k])
          BY <1>3, <2>1
    <3>2. keys[k] # Wrong /\ IsTyped(k, keys[k])
          BY <2>1 DEF Says, TypedKeys
    <3> QED BY <3>1, <3>2, LegalValue
  <2>2. CASE ~ Says(keys, k)
    <3>1. u[k] = t[k]
          BY <1>3, <2>2
    <3> QED BY <3>1 DEF TypedTable
  <2> QED BY <2>1, <2>2
<1> QED BY <1>3, <1>4, <1>5 DEF u, TypedTable

\* The tables that files begin from.
Fits(k, v) == v # Wrong /\ IsTyped(k, v) /\ IsLegal(k, v)

LEMMA OtherValue ==
  ASSUME NEW k, k \notin Floats \cup Ints \cup DOMAIN NoRect \cup {"flow_grid_size"},
         NEW v, v # Wrong
  PROVE  Fits(k, v)
BY DEF Fits, IsTyped, IsLegal

LEMMA BaseValues ==
  /\ \A k \in {"intensity", "local_structure", "local_tone", "colour_preserve", "model_scale"} :
       Fits(k, 1000)
  /\ \A k \in {"paper_white_nits", "split_view", "synthetic_depth", "preset", "style"} : Fits(k, 0)
  /\ Fits("highlight_protect", 600) /\ Fits("skin_structure", -1000)
  /\ Fits("ui_mask_feather", 24) /\ Fits("flow_grid_size", 4)
<1>1. \A k \in Floats : k \notin Ints \cup DOMAIN NoRect /\ k # "flow_grid_size"
      BY Ranges
<1>2. \A k \in Ints : k \notin Floats \cup DOMAIN NoRect /\ k # "flow_grid_size"
      BY Ranges
<1>w. Wrong \notin Int
      BY CodecAssumption
<1>3. ASSUME NEW k \in Floats, NEW v \in Int, FloatRange[k][1] <= v, v <= FloatRange[k][2]
      PROVE  Fits(k, v)
      BY <1>1, <1>3, <1>w DEF Fits, IsTyped, IsLegal
<1>4. ASSUME NEW k \in Ints, NEW v \in Int, IntRange[k][1] <= v, v <= IntRange[k][2]
      PROVE  Fits(k, v)
      BY <1>2, <1>4, <1>w DEF Fits, IsTyped, IsLegal
<1>5. ASSUME NEW k \in {"intensity", "local_structure", "local_tone"} PROVE Fits(k, 1000)
  <2>1. k \in Floats /\ FloatRange[k][1] <= 1000 /\ 1000 <= FloatRange[k][2]
        BY Ranges, SMT DEF FloatRange
  <2> QED BY <2>1, <1>3
<1>6. ASSUME NEW k \in {"colour_preserve", "model_scale"} PROVE Fits(k, 1000)
  <2>1. k \in Floats /\ FloatRange[k][1] <= 1000 /\ 1000 <= FloatRange[k][2]
        BY Ranges, SMT DEF FloatRange
  <2> QED BY <2>1, <1>3
<1>7. ASSUME NEW k \in {"paper_white_nits", "split_view", "synthetic_depth"} PROVE Fits(k, 0)
  <2>1. k \in Floats /\ FloatRange[k][1] <= 0 /\ 0 <= FloatRange[k][2]
        BY Ranges, SMT DEF FloatRange
  <2> QED BY <2>1, <1>3
<1>8. ASSUME NEW k \in {"preset", "style"} PROVE Fits(k, 0)
  <2>1. k \in Ints /\ IntRange[k][1] <= 0 /\ 0 <= IntRange[k][2]
        BY Ranges, SMT DEF IntRange
  <2> QED BY <2>1, <1>4
<1>9. Fits("highlight_protect", 600)
  <2>1. /\ "highlight_protect" \in Floats
        /\ FloatRange["highlight_protect"][1] <= 600 /\ 600 <= FloatRange["highlight_protect"][2]
        BY Ranges, SMT DEF FloatRange
  <2> QED BY <2>1, <1>3
<1>10. Fits("skin_structure", -1000)
  <2>1. /\ "skin_structure" \in Floats /\ -1000 \in Int
        /\ FloatRange["skin_structure"][1] <= -1000 /\ -1000 <= FloatRange["skin_structure"][2]
        BY Ranges, SMT DEF FloatRange
  <2> QED BY <2>1, <1>3, SMT
<1>11. Fits("ui_mask_feather", 24)
  <2>1. /\ "ui_mask_feather" \in Ints
        /\ IntRange["ui_mask_feather"][1] <= 24 /\ 24 <= IntRange["ui_mask_feather"][2]
        BY Ranges, SMT DEF IntRange
  <2> QED BY <2>1, <1>4
<1>12. Fits("flow_grid_size", 4)
       BY <1>w, Ranges DEF Fits, IsTyped, IsLegal
<1>14. \A k \in {"intensity", "local_structure", "local_tone", "colour_preserve", "model_scale"} :
         Fits(k, 1000)
       BY <1>5, <1>6
<1>15. \A k \in {"paper_white_nits", "split_view", "synthetic_depth", "preset", "style"} : Fits(k, 0)
       BY <1>7, <1>8
<1> QED BY <1>9, <1>10, <1>11, <1>12, <1>14, <1>15, SMT

LEMMA FitTable ==
  ASSUME NEW t, t = [k \in DOMAIN t |-> t[k]], \A k \in DOMAIN t : Fits(k, t[k])
  PROVE  TypedTable(t, t) /\ LegalTable(t)
BY Zenon DEF TypedTable, LegalTable, Fits

LEMMA BaseTables ==
  /\ TypedTable(BasePass, BasePass) /\ LegalTable(BasePass)
  /\ TypedTable(BaseFrame, BaseFrame) /\ LegalTable(BaseFrame)
  /\ TypedTable(LookTop, LookTop) /\ LegalTable(LookTop)
  /\ TypedTable(BaseTop, BaseTop) /\ LegalTable(BaseTop)
  /\ TypedTable(NoApp, NoApp)
<1>1. /\ \A b \in BOOLEAN : b # Wrong
      /\ Empty # Wrong /\ "direct" # Wrong /\ "flat" # Wrong /\ "Recommended" # Wrong
      BY CodecAssumption
<1>2. ASSUME NEW k \in {"auto_mask", "ui_correction", "bridge", "final_pass_full", "per_pass_tuning",
                        "chain_composed", "show_hud", "show_overlay", "depth_inverted",
                        "advanced_tuning", "neural_pass", "depth_mode", "active_preset",
                        "name", "window_class", "title"}
      PROVE  k \notin Floats \cup Ints \cup DOMAIN NoRect \cup {"flow_grid_size"}
      BY Ranges
<1>a. ASSUME NEW k \in {"auto_mask", "ui_correction", "bridge", "final_pass_full", "per_pass_tuning",
                        "chain_composed", "show_hud", "show_overlay", "depth_inverted",
                        "advanced_tuning"},
             NEW v \in BOOLEAN
      PROVE  Fits(k, v)
  <2>1. v # Wrong /\ k \notin Floats \cup Ints \cup DOMAIN NoRect \cup {"flow_grid_size"}
        BY <1>1, <1>2
  <2> QED BY <2>1, OtherValue
<1>b. ASSUME NEW k \in {"neural_pass", "depth_mode", "active_preset", "name", "window_class", "title"},
             NEW v, v # Wrong
      PROVE  Fits(k, v)
  <2>1. k \notin Floats \cup Ints \cup DOMAIN NoRect \cup {"flow_grid_size"}
        BY <1>2
  <2> QED BY <1>b, <2>1, OtherValue
<1>3. \A k \in {"auto_mask", "ui_correction", "bridge", "final_pass_full", "per_pass_tuning",
                "chain_composed", "show_hud", "show_overlay", "depth_inverted", "advanced_tuning"},
          v \in BOOLEAN : Fits(k, v)
      BY <1>a, Zenon
<1>5. TypedTable(BasePass, BasePass) /\ LegalTable(BasePass)
  <2> DEFINE t == BasePass
  <2>1. /\ t = [k \in DOMAIN t |-> t[k]]
        /\ DOMAIN t = {"preset", "style", "intensity", "local_structure", "local_tone",
                       "skin_structure", "auto_mask", "ui_correction"}
        /\ t["preset"] = 0 /\ t["style"] = 0 /\ t["intensity"] = 1000
        /\ t["local_structure"] = 1000 /\ t["local_tone"] = 1000
        /\ t["skin_structure"] = -1000 /\ t["auto_mask"] \in BOOLEAN /\ t["ui_correction"] \in BOOLEAN
        BY SMT DEF BasePass
  <2> HIDE DEF t
  <2>2. /\ Fits("preset", t["preset"]) /\ Fits("style", t["style"])
        /\ Fits("intensity", t["intensity"]) /\ Fits("local_structure", t["local_structure"])
        /\ Fits("local_tone", t["local_tone"]) /\ Fits("skin_structure", t["skin_structure"])
        BY <2>1, BaseValues, SMT
  <2>3. /\ Fits("auto_mask", t["auto_mask"]) /\ Fits("ui_correction", t["ui_correction"])
        BY <2>1, <1>3, SMT
  <2>4. \A k \in DOMAIN t : Fits(k, t[k])
        BY <2>1, <2>2, <2>3, SMT
  <2>5. t = [k \in DOMAIN t |-> t[k]]
        BY <2>1, SMT
  <2> QED BY <2>4, <2>5, FitTable DEF t
<1>6. TypedTable(BaseFrame, BaseFrame) /\ LegalTable(BaseFrame)
  <2> DEFINE t == BaseFrame
  <2>1. /\ t = [k \in DOMAIN t |-> t[k]]
        /\ DOMAIN t = {"bridge", "paper_white_nits", "colour_preserve", "highlight_protect",
                       "split_view", "model_scale", "final_pass_full", "per_pass_tuning",
                       "chain_composed"}
        /\ t["bridge"] \in BOOLEAN /\ t["paper_white_nits"] = 0 /\ t["colour_preserve"] = 1000
        /\ t["highlight_protect"] = 600 /\ t["split_view"] = 0 /\ t["model_scale"] = 1000
        /\ t["final_pass_full"] \in BOOLEAN /\ t["per_pass_tuning"] \in BOOLEAN
        /\ t["chain_composed"] \in BOOLEAN
        BY SMT DEF BaseFrame
  <2> HIDE DEF t
  <2>2. /\ Fits("paper_white_nits", t["paper_white_nits"]) /\ Fits("split_view", t["split_view"])
        /\ Fits("colour_preserve", t["colour_preserve"]) /\ Fits("model_scale", t["model_scale"])
        /\ Fits("highlight_protect", t["highlight_protect"])
        BY <2>1, BaseValues, SMT
  <2>3. /\ Fits("bridge", t["bridge"]) /\ Fits("final_pass_full", t["final_pass_full"])
        /\ Fits("per_pass_tuning", t["per_pass_tuning"])
        /\ Fits("chain_composed", t["chain_composed"])
        BY <2>1, <1>3, SMT
  <2>4. \A k \in DOMAIN t : Fits(k, t[k])
        BY <2>1, <2>2, <2>3, SMT
  <2> QED BY <2>1, <2>4, FitTable DEF t
<1>7. TypedTable(LookTop, LookTop) /\ LegalTable(LookTop)
  <2> DEFINE t == LookTop
  <2>1. /\ t = [k \in DOMAIN t |-> t[k]]
        /\ DOMAIN t = {"neural_pass", "flow_grid_size", "synthetic_depth"}
        /\ t["neural_pass"] = "direct" /\ t["flow_grid_size"] = 4 /\ t["synthetic_depth"] = 0
        BY SMT DEF LookTop
  <2> HIDE DEF t
  <2>2. /\ Fits("flow_grid_size", t["flow_grid_size"])
        /\ Fits("synthetic_depth", t["synthetic_depth"])
        BY <2>1, BaseValues, SMT
  <2>3. Fits("neural_pass", t["neural_pass"])
    <3>1. t["neural_pass"] # Wrong
          BY <1>1, <2>1, Zenon
    <3> QED BY <1>b, <3>1
  <2>4. \A k \in DOMAIN t : Fits(k, t[k])
        BY <2>1, <2>2, <2>3, SMT
  <2> QED BY <2>1, <2>4, FitTable DEF t
<1>8. TypedTable(BaseTop, BaseTop) /\ LegalTable(BaseTop)
  <2> DEFINE t == BaseTop
  <2>1. /\ t = [k \in DOMAIN t |-> t[k]]
        /\ DOMAIN t = {"neural_pass", "flow_grid_size", "synthetic_depth", "show_hud",
                       "show_overlay", "depth_mode", "depth_inverted", "active_preset",
                       "advanced_tuning", "ui_mask_feather"}
        /\ t["neural_pass"] = "direct" /\ t["flow_grid_size"] = 4 /\ t["synthetic_depth"] = 0
        /\ t["show_hud"] \in BOOLEAN /\ t["show_overlay"] \in BOOLEAN /\ t["depth_mode"] = "flat"
        /\ t["depth_inverted"] \in BOOLEAN /\ t["active_preset"] = "Recommended"
        /\ t["advanced_tuning"] \in BOOLEAN /\ t["ui_mask_feather"] = 24
        BY SMT DEF BaseTop, NoApp
  <2> HIDE DEF t
  <2>2. /\ Fits("flow_grid_size", t["flow_grid_size"])
        /\ Fits("synthetic_depth", t["synthetic_depth"])
        /\ Fits("ui_mask_feather", t["ui_mask_feather"])
        BY <2>1, BaseValues, SMT
  <2>5. /\ Fits("neural_pass", t["neural_pass"]) /\ Fits("depth_mode", t["depth_mode"])
        /\ Fits("active_preset", t["active_preset"])
    <3>1. t["neural_pass"] # Wrong /\ t["depth_mode"] # Wrong /\ t["active_preset"] # Wrong
          BY <1>1, <2>1, Zenon
    <3> QED BY <1>b, <3>1
  <2>3. /\ Fits("show_hud", t["show_hud"]) /\ Fits("show_overlay", t["show_overlay"])
        /\ Fits("depth_inverted", t["depth_inverted"])
        /\ Fits("advanced_tuning", t["advanced_tuning"])
        BY <2>1, <1>3, SMT
  <2>4. \A k \in DOMAIN t : Fits(k, t[k])
        BY <2>1, <2>2, <2>3, <2>5, SMT
  <2> QED BY <2>1, <2>4, FitTable DEF t
<1>9. TypedTable(NoApp, NoApp)
  <2> DEFINE t == NoApp
  <2>1. /\ t = [k \in DOMAIN t |-> t[k]]
        /\ DOMAIN t = {"name", "window_class", "title"}
        BY Zenon DEF BaseTop, NoApp
  <2>2. t["name"] = Empty /\ t["window_class"] = Empty /\ t["title"] = Empty
        BY Zenon DEF BaseTop, NoApp
  <2> HIDE DEF t
  <2>3. t["name"] # Wrong /\ t["window_class"] # Wrong /\ t["title"] # Wrong
        BY <1>1, <2>2, Zenon
  <2>4. \A k \in DOMAIN t : Fits(k, t[k])
        BY <2>1, <2>3, <1>b
  <2> QED BY <2>1, <2>4, FitTable DEF t
<1> QED BY <1>5, <1>6, <1>7, <1>8, <1>9, Zenon

-------------------------------------------------------------------------------
(* What is read of any file whose values have the keys' types.              *)

TypedFile(file) == IsSeq(file) /\ \A i \in DOMAIN file : TypedSection(file[i])
TypedTop(t, like) == TypedTable(t, like) /\ t.neural_pass \notin {"reshade", "ngx"}
TypedNr(nr) ==
  /\ nr = [base |-> nr.base, frame |-> nr.frame, passes |-> nr.passes]
  /\ TypedTable(nr.base, BasePass) /\ TypedTable(nr.frame, BaseFrame)
  /\ IsSeq(nr.passes) /\ \A i \in DOMAIN nr.passes : TypedTable(nr.passes[i], BasePass)

LEMMA SectionsTyped ==
  ASSUME NEW file, TypedFile(file), NEW header, header # "app_look"
  PROVE  /\ IsSeq(Sections(file, header))
         /\ \A i \in DOMAIN Sections(file, header) : TypedKeys(Sections(file, header)[i].keys)
         /\ TypedKeys(Table(file, header))
<1> DEFINE of == Sections(file, header)
<1>1. IsSeq(file)
      BY DEF TypedFile
<1>2. /\ IsSeq(of)
      /\ \A i \in DOMAIN of : of[i] \in ToSet(file) /\ of[i].header = header
      BY <1>1, SectionsAre
<1>3. Table(file, header) = IF of = <<>> THEN <<>> ELSE of[1].keys
      BY DEF Table
<1> HIDE DEF of
<1>4. \A x \in ToSet(file) : TypedSection(x)
      BY DEF TypedFile, ToSet
<1>5. \A i \in DOMAIN of : TypedKeys(of[i].keys)
      BY <1>2, <1>4 DEF TypedSection, TypedKeys
<1>6. TypedKeys(<<>>)
      BY DEF TypedKeys
<1>7. ASSUME of # <<>> PROVE 1 \in DOMAIN of
  <2>1. of \in Seq(ToSet(of))
        BY <1>2 DEF IsSeq
  <2> QED BY <1>7, <2>1
<1> QED BY <1>2, <1>3, <1>5, <1>6, <1>7 DEF of

LEMMA ReadTopIs ==
  ASSUME NEW keys, TypedKeys(keys), NEW t, NEW like, TypedTop(t, like), LegalTable(t),
         {"neural_pass", "flow_grid_size"} \subseteq DOMAIN like
  PROVE  /\ TypedTop(ReadTop(keys, t), like) /\ LegalTable(ReadTop(keys, t))
         /\ \A k \in DOMAIN like \ {"neural_pass", "flow_grid_size"} :
              ReadTop(keys, t)[k] = ReadTable(keys, t)[k]
         /\ ReadTop(keys, t).neural_pass =
              LET pass == ReadTable(keys, t).neural_pass
              IN IF pass \in {"reshade", "ngx"} THEN "direct" ELSE pass
         /\ ReadTop(keys, t).flow_grid_size =
              LET grid == ReadTable(keys, t).flow_grid_size
              IN IF grid \in {1, 2, 4} THEN grid ELSE t.flow_grid_size
<1> DEFINE u == ReadTable(keys, t)
           w == ReadTop(keys, t)
           pass == IF u.neural_pass \in {"reshade", "ngx"} THEN "direct" ELSE u.neural_pass
           grid == IF u.flow_grid_size \in {1, 2, 4} THEN u.flow_grid_size ELSE t.flow_grid_size
<1>1. /\ TypedTable(t, like)
      /\ TypedTable(u, like)
      /\ \A k \in DOMAIN like : k # "flow_grid_size" /\ IsLegal(k, t[k]) => IsLegal(k, u[k])
      BY ReadIsTyped DEF TypedTop
<1>2. w = [u EXCEPT !.neural_pass = pass, !.flow_grid_size = grid]
      BY DEF ReadTop
<1>3. DOMAIN u = DOMAIN like /\ DOMAIN t = DOMAIN like /\ u = [k \in DOMAIN like |-> u[k]]
      BY <1>1, Zenon DEF TypedTable
<1>4. /\ u.neural_pass # Wrong /\ IsTyped("neural_pass", u.neural_pass)
      /\ u.flow_grid_size # Wrong /\ IsTyped("flow_grid_size", u.flow_grid_size)
      /\ IsTyped("flow_grid_size", t.flow_grid_size) /\ IsLegal("flow_grid_size", t.flow_grid_size)
      /\ t.flow_grid_size # Wrong
      BY <1>1, <1>3 DEF TypedTable, LegalTable
<1>5. Wrong # "direct" /\ Wrong \notin Int
      BY CodecAssumption
<1>6. "neural_pass" \notin Floats \cup Ints \cup DOMAIN NoRect
      BY Ranges
<1>7. "flow_grid_size" \notin Floats \cup Ints \cup DOMAIN NoRect
      BY Ranges
<1>8. pass # Wrong /\ pass \notin {"reshade", "ngx"} /\ IsTyped("neural_pass", pass)
      BY <1>4, <1>5, <1>6 DEF IsTyped
<1>9. grid \in {1, 2, 4} /\ grid # Wrong /\ IsTyped("flow_grid_size", grid)
      BY <1>4, <1>5, <1>7 DEF IsTyped, IsLegal
<1> HIDE DEF u, w, pass, grid
<1>10. /\ DOMAIN w = DOMAIN like /\ w = [k \in DOMAIN like |-> w[k]]
       /\ w["neural_pass"] = pass /\ w["flow_grid_size"] = grid
       /\ \A k \in DOMAIN like \ {"neural_pass", "flow_grid_size"} : w[k] = u[k]
       BY <1>2, <1>3
<1>11. TypedTop(w, like)
       BY <1>1, <1>8, <1>9, <1>10 DEF TypedTop, TypedTable
<1>12. ASSUME NEW k \in DOMAIN w PROVE IsLegal(k, w[k])
  <2>1. CASE k = "neural_pass"
        BY <1>6, <1>8, <1>10, <2>1 DEF IsLegal
  <2>2. CASE k = "flow_grid_size"
        BY <1>7, <1>9, <1>10, <2>2 DEF IsLegal
  <2>3. CASE k \notin {"neural_pass", "flow_grid_size"}
    <3>1. IsLegal(k, t[k])
          BY <1>3, <1>10 DEF LegalTable
    <3> QED BY <1>1, <1>10, <2>3, <3>1
  <2> QED BY <2>1, <2>2, <2>3
<1>13. LegalTable(w)
       BY <1>12 DEF LegalTable
<1> QED BY <1>10, <1>11, <1>13 DEF u, w, pass, grid

LEMMA ReadNrIs ==
  ASSUME NEW file, TypedFile(file), NEW prefix \in {"nr", "preset.nr"}
  PROVE  TypedNr(ReadNr(file, prefix)) /\ LegalNr(ReadNr(file, prefix))
<1> DEFINE keys == Table(file, prefix)
           of == Sections(file, PassHeader(prefix))
           base == ReadTable(keys, BasePass)
           read == ReadTable(keys, BaseFrame)
           frame == [read EXCEPT !.paper_white_nits = Paper(@)]
           passes == [i \in DOMAIN of \cap 1 .. 4 |-> ReadTable(of[i].keys, base)]
           nr == ReadNr(file, prefix)
<1>1. /\ PassHeader(prefix) # "app_look" /\ prefix # "app_look"
      BY DEF PassHeader
<1>2. /\ TypedKeys(keys) /\ IsSeq(of)
      /\ \A i \in DOMAIN of : TypedKeys(of[i].keys)
      BY <1>1, SectionsTyped
<1>3. nr = [base |-> base, frame |-> frame, passes |-> passes]
      BY DEF ReadNr
<1>4. "flow_grid_size" \notin DOMAIN BasePass /\ "flow_grid_size" \notin DOMAIN BaseFrame
      BY DEF BasePass, BaseFrame
<1>5. ASSUME NEW ks, TypedKeys(ks), NEW t, NEW like, TypedTable(t, like), LegalTable(t),
             "flow_grid_size" \notin DOMAIN like
      PROVE  TypedTable(ReadTable(ks, t), like) /\ LegalTable(ReadTable(ks, t))
  <2>1. DOMAIN t = DOMAIN like
        BY <1>5, Zenon DEF TypedTable
  <2>2. /\ TypedTable(ReadTable(ks, t), like)
        /\ \A k \in DOMAIN like :
             k # "flow_grid_size" /\ IsLegal(k, t[k]) => IsLegal(k, ReadTable(ks, t)[k])
        BY <1>5, ReadIsTyped
  <2>3. DOMAIN ReadTable(ks, t) = DOMAIN like
        BY <2>2, Zenon DEF TypedTable
  <2>4. \A k \in DOMAIN like : k # "flow_grid_size" /\ IsLegal(k, t[k])
        BY <1>5, <2>1 DEF LegalTable
  <2>5. \A k \in DOMAIN like : IsLegal(k, ReadTable(ks, t)[k])
        BY <2>2, <2>4
  <2> QED BY <2>2, <2>3, <2>5 DEF LegalTable
<1>6. TypedTable(base, BasePass) /\ LegalTable(base)
      BY <1>2, <1>4, <1>5, BaseTables
<1>7. TypedTable(read, BaseFrame) /\ LegalTable(read)
      BY <1>2, <1>4, <1>5, BaseTables
<1>8. \A i \in DOMAIN of : /\ TypedTable(ReadTable(of[i].keys, base), BasePass)
                           /\ LegalTable(ReadTable(of[i].keys, base))
      BY <1>2, <1>4, <1>5, <1>6
<1>9. DOMAIN of = 1 .. Len(of) /\ Len(of) \in Nat
      BY <1>2, SeqHas
<1> HIDE DEF keys, of, base, read, nr
<1>10. PICK n \in 0 .. 4 : DOMAIN of \cap 1 .. 4 = 1 .. n
  <2>1. CASE Len(of) <= 4
        BY <1>9, <2>1
  <2>2. CASE Len(of) > 4
        BY <1>9, <2>2
  <2> QED BY <1>9, <2>1, <2>2
<1>11. passes = [i \in 1 .. n |-> passes[i]]
       BY <1>10
<1>12. \A i \in 1 .. n : passes[i] = ReadTable(of[i].keys, base) /\ i \in DOMAIN of
       BY <1>10
<1> HIDE DEF passes
<1>13. IsSeq(passes) /\ Len(passes) = n /\ DOMAIN passes = 1 .. n
       BY <1>11, BuiltSeq
<1>14. Len(passes) <= 4
       BY <1>13
<1>15. \A i \in DOMAIN passes : TypedTable(passes[i], BasePass) /\ LegalTable(passes[i])
       BY <1>8, <1>12, <1>13
<1>16. /\ TypedTable(frame, BaseFrame) /\ LegalTable(frame)
       /\ frame.paper_white_nits \in {NaN, 0} \/ frame.paper_white_nits >= 80000
  <2> DEFINE p == "paper_white_nits"
             v == read[p]
  <2>1. DOMAIN read = DOMAIN BaseFrame /\ read = [k \in DOMAIN BaseFrame |-> read[k]]
        BY <1>7, Zenon DEF TypedTable
  <2>2. p \in DOMAIN BaseFrame
        BY DEF BaseFrame
  <2>3. v # Wrong /\ IsTyped(p, v) /\ IsLegal(p, v)
        BY <1>7, <2>1, <2>2 DEF TypedTable, LegalTable
  <2>4. v \in Int \cup {NaN}
        BY <2>3, Ranges DEF IsTyped
  <2>5. FloatRange[p][1] = 0 /\ FloatRange[p][2] = 1000000
        BY DEF FloatRange
  <2>6. v = NaN \/ (0 <= v /\ v <= 1000000)
        BY <2>3, <2>5, Ranges DEF IsLegal
  <2>7. Wrong # NaN /\ Wrong \notin Int
        BY CodecAssumption
  <2> DEFINE w == Paper(v)
  <2>8. w \in Int \cup {NaN} /\ (w = NaN \/ (0 <= w /\ w <= 1000000))
        BY <2>4, <2>6 DEF Paper
  <2>9. w \in {NaN, 0} \/ w >= 80000
        BY <2>4 DEF Paper
  <2>10. w # Wrong /\ IsTyped(p, w) /\ IsLegal(p, w)
    <3> HIDE DEF w
    <3> QED BY <2>5, <2>7, <2>8, Ranges DEF IsTyped, IsLegal
  <2>11. /\ frame = [k \in DOMAIN BaseFrame |-> frame[k]] /\ DOMAIN frame = DOMAIN BaseFrame
         /\ frame[p] = w /\ \A k \in DOMAIN BaseFrame \ {p} : frame[k] = read[k]
         BY <2>1, <2>2
  <2> HIDE DEF w, frame
  <2>12. \A k \in DOMAIN BaseFrame : frame[k] # Wrong /\ IsTyped(k, frame[k]) /\ IsLegal(k, frame[k])
         BY <1>7, <2>1, <2>10, <2>11 DEF TypedTable, LegalTable
  <2> QED BY <2>9, <2>11, <2>12 DEF TypedTable, LegalTable
<1> HIDE DEF frame
<1>17. nr.base = base /\ nr.frame = frame /\ nr.passes = passes
       BY <1>3
<1>18. TypedNr(nr)
       BY <1>3, <1>6, <1>13, <1>15, <1>16, <1>17 DEF TypedNr
<1>19. LegalNr(nr)
       BY <1>6, <1>14, <1>15, <1>16, <1>17 DEF LegalNr
<1> QED BY <1>18, <1>19 DEF nr

\* The first of some numbers is one of them.
LEMMA MinIsIn ==
  ASSUME NEW S, S \subseteq Nat, S # {}
  PROVE  Min(S) \in S /\ \A y \in S : Min(S) <= y
<1>1. PICK x \in S : \A y \in S : x <= y
      BY LeastOne
<1> QED BY <1>1 DEF Min

\* Looks have a class and a preset, and classes of their own.
TypedLook(l) ==
  /\ l = [window_class |-> l.window_class, preset |-> l.preset]
  /\ l.window_class \notin {Empty, Wrong} /\ l.preset \notin {Empty, Wrong}
TypedLooks(looks) ==
  /\ IsSeq(looks) /\ \A i \in DOMAIN looks : TypedLook(looks[i])
  /\ \A i, j \in DOMAIN looks : looks[i].window_class = looks[j].window_class => i = j

ClassAt(looks, cls) == SelectInSeq(looks, LAMBDA l : l.window_class = cls)

LEMMA ClassIsAt ==
  ASSUME NEW looks, IsSeq(looks), NEW cls
  PROVE  \/ /\ ClassAt(looks, cls) = 0
            /\ \A i \in DOMAIN looks : looks[i].window_class # cls
         \/ /\ ClassAt(looks, cls) \in DOMAIN looks /\ ClassAt(looks, cls) # 0
            /\ looks[ClassAt(looks, cls)].window_class = cls
<1> DEFINE I == {i \in 1 .. Len(looks) : looks[i].window_class = cls}
<1>1. ClassAt(looks, cls) = IF I # {} THEN Min(I) ELSE 0
      BY Zenon DEF ClassAt, SelectInSeq
<1>2. Len(looks) \in Nat /\ DOMAIN looks = 1 .. Len(looks)
      BY SeqHas
<1>3. CASE I = {}
      BY <1>1, <1>2, <1>3
<1>4. CASE I # {}
  <2>1. I \subseteq Nat
        BY <1>2
  <2> HIDE DEF I
  <2>2. Min(I) \in I
        BY <1>4, <2>1, MinIsIn
  <2>3. ClassAt(looks, cls) \in I
        BY <1>1, <1>4, <2>2
  <2> QED BY <1>2, <2>3 DEF I
<1> QED BY <1>3, <1>4

LEMMA RememberIs ==
  ASSUME NEW looks, TypedLooks(looks), NEW cls, cls # Wrong, NEW look, look # Wrong
  PROVE  /\ TypedLooks(Remember(looks, cls, look))
         /\ /\ cls # Empty /\ look # Empty
            /\ \A i \in DOMAIN looks : looks[i].window_class # cls
            => Remember(looks, cls, look) = Append(looks, [window_class |-> cls, preset |-> look])
<1> DEFINE at == ClassAt(looks, cls)
           new == [window_class |-> cls, preset |-> look]
           appended == Append(looks, new)
           changed == [looks EXCEPT ![at].preset = look]
<1>1. Remember(looks, cls, look) =
        IF cls = Empty \/ look = Empty THEN looks ELSE IF at = 0 THEN appended ELSE changed
      BY Zenon DEF Remember, ClassAt
<1>2. IsSeq(looks) /\ Len(looks) \in Nat /\ DOMAIN looks = 1 .. Len(looks)
      BY SeqHas DEF TypedLooks
<1>3. \/ at = 0 /\ \A i \in DOMAIN looks : looks[i].window_class # cls
      \/ at \in DOMAIN looks /\ at # 0 /\ looks[at].window_class = cls
      BY <1>2, ClassIsAt
<1>4. new = [window_class |-> new.window_class, preset |-> new.preset]
      /\ new.window_class = cls /\ new.preset = look
      OBVIOUS
<1> HIDE DEF at, new
<1>5. ASSUME cls # Empty, look # Empty, at = 0 PROVE TypedLooks(appended)
  <2>1. TypedLook(new)
        BY <1>4, <1>5 DEF TypedLook
  <2>2. /\ IsSeq(appended) /\ Len(appended) = Len(looks) + 1
        /\ \A i \in 1 .. Len(looks) : appended[i] = looks[i]
        /\ appended[Len(looks) + 1] = new
        BY <1>2, AppendedSeq
  <2> HIDE DEF appended
  <2>3. DOMAIN appended = 1 .. Len(looks) + 1
        BY <2>2, SeqHas
  <2>4. \A i \in DOMAIN appended : TypedLook(appended[i])
        BY <1>2, <2>1, <2>2, <2>3 DEF TypedLooks
  <2>5. \A i, j \in DOMAIN appended :
           appended[i].window_class = appended[j].window_class => i = j
        BY <1>2, <1>3, <1>4, <1>5, <2>2, <2>3 DEF TypedLooks
  <2> QED BY <2>2, <2>4, <2>5 DEF TypedLooks
<1>6. ASSUME cls # Empty, look # Empty, at # 0 PROVE TypedLooks(changed)
  <2> DEFINE n == Len(looks)
  <2>1. at \in 1 .. n /\ TypedLook(looks[at])
        BY <1>2, <1>3, <1>6 DEF TypedLooks
  <2>2. /\ changed = [i \in 1 .. n |-> changed[i]]
        /\ \A i \in 1 .. n : i # at => changed[i] = looks[i]
        /\ changed[at] = [looks[at] EXCEPT !.preset = look]
    <3>1. looks = [i \in 1 .. n |-> looks[i]]
          BY <1>2 DEF IsSeq
    <3> QED BY <1>2, <2>1, <3>1
  <2> HIDE DEF changed
  <2>3. IsSeq(changed) /\ DOMAIN changed = 1 .. n
        BY <1>2, <2>2, BuiltSeq
  <2>4. /\ TypedLook(changed[at]) /\ changed[at].window_class = looks[at].window_class
        BY <1>6, <2>1, <2>2 DEF TypedLook
  <2>5. \A i \in 1 .. n : /\ TypedLook(changed[i])
                          /\ changed[i].window_class = looks[i].window_class
        BY <1>2, <2>2, <2>4 DEF TypedLooks
  <2> QED BY <1>2, <2>3, <2>5 DEF TypedLooks
<1>7. TypedLooks(Remember(looks, cls, look))
      BY <1>1, <1>5, <1>6
<1>8. ASSUME cls # Empty, look # Empty, \A i \in DOMAIN looks : looks[i].window_class # cls
      PROVE  Remember(looks, cls, look) = appended
      BY <1>1, <1>3, <1>8
<1> QED BY <1>7, <1>8 DEF new

LEMMA EmptyIs ==
  Empty # Wrong
BY CodecAssumption DEF Empty

\* What AddLook takes from a section.
LEMMA AddLookIs ==
  ASSUME NEW looks, TypedLooks(looks), NEW s
  PROVE  /\ TypedLooks(AddLook(looks, s))
         /\ \A l : TypedLook(l) /\ s.keys = l /\ (\A i \in DOMAIN looks : looks[i].window_class # l.window_class)
              => AddLook(looks, s) = Append(looks, l)
<1> DEFINE keys == s.keys
           l == ReadString(keys, NoLook)
<1>1. AddLook(looks, s) = Remember(looks, l.window_class, l.preset)
      BY Zenon DEF AddLook
<1>2. /\ l.window_class = IF Says(keys, "window_class") THEN keys["window_class"] ELSE Empty
      /\ l.preset = IF Says(keys, "preset") THEN keys["preset"] ELSE Empty
      BY DEF ReadString, NoLook
<1> HIDE DEF l
<1>3. l.window_class # Wrong /\ l.preset # Wrong
      BY <1>2, EmptyIs DEF Says
<1>4. TypedLooks(AddLook(looks, s))
      BY <1>1, <1>3, RememberIs
<1>5. ASSUME NEW m, TypedLook(m), keys = m,
             \A i \in DOMAIN looks : looks[i].window_class # m.window_class
      PROVE  AddLook(looks, s) = Append(looks, m)
  <2>1. Says(keys, "window_class") /\ Says(keys, "preset")
        BY <1>5 DEF TypedLook, Says
  <2>2. l.window_class = m.window_class /\ l.preset = m.preset
        BY <1>2, <1>5, <2>1
  <2>3. m.window_class # Empty /\ m.preset # Empty
        BY <1>5 DEF TypedLook
  <2>4. AddLook(looks, s) = Append(looks, [window_class |-> m.window_class, preset |-> m.preset])
        BY <1>1, <1>3, <1>5, <2>2, <2>3, RememberIs
  <2> QED BY <1>5, <2>4 DEF TypedLook
<1> QED BY <1>4, <1>5 DEF keys

LEMMA NoLooks == TypedLooks(<<>>)
<1> DEFINE s == <<>>
<1>1. s \in Seq({}) /\ DOMAIN s = {}
      BY EmptySeq
<1> HIDE DEF s
<1>2. IsSeq(s)
      BY <1>1, SeqIs
<1>3. TypedLooks(s)
      BY <1>1, <1>2 DEF TypedLooks
<1> QED BY <1>3 DEF s

LEMMA ReadLooksIs ==
  ASSUME NEW file, IsSeq(file)
  PROVE  TypedLooks(ReadLooks(file))
<1> DEFINE of == Sections(file, "app_look")
           n == Len(of)
<1>1. IsSeq(of) /\ n \in Nat
      BY SectionsAre, SeqHas
<1>2. PICK r : /\ r[0] = <<>>
               /\ \A i \in 1 .. n : r[i] = AddLook(r[i - 1], of[i])
               /\ ReadLooks(file) = r[n]
      BY <1>1, LooksSteps
<1> HIDE DEF of, n
<1> DEFINE I == {i \in Nat : i <= n => TypedLooks(r[i])}
<1>3. 0 \in I
      BY <1>2, NoLooks
<1>4. ASSUME NEW i \in Nat, i \in I PROVE i + 1 \in I
  <2> SUFFICES ASSUME i + 1 <= n PROVE TypedLooks(r[i + 1])
      OBVIOUS
  <2>1. i + 1 \in 1 .. n /\ (i + 1) - 1 = i /\ TypedLooks(r[i])
        BY <1>1, <1>4
  <2>2. r[i + 1] = AddLook(r[i], of[i + 1])
        BY <1>2, <2>1
  <2> QED BY <2>1, <2>2, AddLookIs
<1> HIDE DEF I
<1>5. n \in I
      BY <1>1, <1>3, <1>4, Induction
<1> QED BY <1>1, <1>2, <1>5 DEF I

\* Rectangles have four edges, which fit their width.
TypedRects(rects) ==
  /\ IsSeq(rects)
  /\ \A i \in DOMAIN rects :
       /\ rects[i] = [e \in DOMAIN NoRect |-> rects[i][e]]
       /\ \A e \in DOMAIN NoRect : rects[i][e] \in Int /\ Wrapped(rects[i][e]) = rects[i][e]

LEMMA ReadRectsIs ==
  ASSUME NEW file, TypedFile(file)
  PROVE  TypedRects(ReadRects(file))
<1> DEFINE of == Sections(file, "ui_mask")
           edge(i, e) == IF Says(of[i].keys, e) THEN Wrapped(of[i].keys[e]) ELSE 0
           rects == [i \in DOMAIN of |-> [e \in DOMAIN NoRect |-> edge(i, e)]]
<1>1. ReadRects(file) = rects
      BY DEF ReadRects
<1>2. IsSeq(of) /\ \A i \in DOMAIN of : TypedKeys(of[i].keys)
      BY SectionsTyped
<1>3. Len(of) \in Nat /\ DOMAIN of = 1 .. Len(of)
      BY <1>2, SeqHas
<1>4. ASSUME NEW i \in DOMAIN of, NEW e \in DOMAIN NoRect
      PROVE  edge(i, e) \in Int /\ Wrapped(edge(i, e)) = edge(i, e)
  <2>1. CASE Says(of[i].keys, e)
    <3>1. of[i].keys[e] \in Int
          BY <1>2, <2>1 DEF Says, TypedKeys, IsTyped
    <3> QED BY <2>1, <3>1, WrappedIn, WrappedStays
  <2>2. CASE ~ Says(of[i].keys, e)
    <3>1. 0 \in Int /\ 0 <= 0 /\ 0 <= 256
          OBVIOUS
    <3>2. Wrapped(0) = 0
          BY <3>1, WrappedStays
    <3> QED BY <2>2, <3>2
  <2> QED BY <2>1, <2>2
<1> HIDE DEF of, edge
<1>5. rects = [i \in 1 .. Len(of) |-> rects[i]]
      BY <1>3
<1>6. \A i \in DOMAIN of : rects[i] = [e \in DOMAIN NoRect |-> edge(i, e)]
      OBVIOUS
<1> HIDE DEF rects
<1>7. IsSeq(rects) /\ DOMAIN rects = DOMAIN of
      BY <1>3, <1>5, BuiltSeq
<1>8. \A i \in DOMAIN of : /\ rects[i] = [e \in DOMAIN NoRect |-> rects[i][e]]
                           /\ \A e \in DOMAIN NoRect : rects[i][e] = edge(i, e)
      BY <1>6
<1> QED BY <1>1, <1>4, <1>7, <1>8 DEF TypedRects

\* A configuration as the manager can hold one.
TypedConfig(c) ==
  /\ c = [top |-> c.top, app |-> c.app, nr |-> c.nr, looks |-> c.looks, rects |-> c.rects]
  /\ TypedTop(c.top, BaseTop) /\ c.top.depth_mode \in {"flat", "gradient"}
  /\ TypedTable(c.app, NoApp) /\ TypedNr(c.nr)
  /\ TypedLooks(c.looks) /\ TypedRects(c.rects)

LEMMA DefaultsTyped ==
  TypedConfig(Defaults) /\ LegalTable(Defaults.top) /\ LegalNr(Defaults.nr)
<1>1. /\ Defaults.top = BaseTop /\ Defaults.app = NoApp /\ Defaults.nr = NrSettings
      /\ Defaults.looks = <<>> /\ Defaults.rects = <<>>
      /\ Defaults = [top |-> Defaults.top, app |-> Defaults.app, nr |-> Defaults.nr,
                     looks |-> Defaults.looks, rects |-> Defaults.rects]
      BY DEF Defaults
<1>2. /\ BaseTop.neural_pass \notin {"reshade", "ngx"}
      /\ BaseTop.depth_mode \in {"flat", "gradient"}
      BY SMT DEF BaseTop
<1>3. /\ NrSettings.base = BasePass /\ NrSettings.frame = BaseFrame /\ NrSettings.passes = <<>>
      /\ NrSettings = [base |-> NrSettings.base, frame |-> NrSettings.frame,
                       passes |-> NrSettings.passes]
      BY DEF NrSettings
<1>4. <<>> \in Seq({}) /\ Len(<<>>) = 0 /\ DOMAIN <<>> = {}
      BY EmptySeq
<1>5. IsSeq(<<>>)
      BY <1>4, SeqIs
<1>6. TypedNr(NrSettings)
      BY <1>3, <1>4, <1>5, BaseTables DEF TypedNr
<1>7. BaseFrame.paper_white_nits = 0
      BY SMT DEF BaseFrame
<1>8. LegalNr(NrSettings)
      BY <1>3, <1>4, <1>7, BaseTables DEF LegalNr
<1>9. TypedRects(<<>>)
      BY <1>4, <1>5 DEF TypedRects
<1>10. TypedTop(BaseTop, BaseTop)
      BY <1>2, BaseTables DEF TypedTop
<1>11. TypedConfig(Defaults)
      BY <1>1, <1>2, <1>6, <1>9, <1>10, BaseTables, NoLooks DEF TypedConfig
<1> QED BY <1>1, <1>8, <1>11, BaseTables

LEMMA ReadStringIs ==
  ASSUME NEW keys, TypedKeys(keys), NEW t, NEW like, TypedTable(t, like)
  PROVE  TypedTable(ReadString(keys, t), like)
<1>1. DOMAIN t = DOMAIN like
      BY Zenon DEF TypedTable
<1> DEFINE u == ReadString(keys, t)
<1>2. u = [k \in DOMAIN like |-> IF Says(keys, k) THEN keys[k] ELSE t[k]]
      BY <1>1, Zenon DEF ReadString
<1>3. \A k \in DOMAIN like : u[k] = IF Says(keys, k) THEN keys[k] ELSE t[k]
      BY <1>2, Zenon
<1>4. u = [k \in DOMAIN like |-> u[k]]
      BY <1>2, <1>3, Zenon
<1> HIDE DEF u
<1>5. \A k \in DOMAIN like : u[k] # Wrong /\ IsTyped(k, u[k])
      BY <1>3 DEF Says, TypedKeys, TypedTable
<1> QED BY <1>4, <1>5 DEF u, TypedTable

LEMMA ParseIsTyped ==
  ASSUME NEW file, file # Unreadable => TypedFile(file)
  PROVE  /\ TypedConfig(ParseConfig(file))
         /\ LegalTable(ParseConfig(file).top) /\ LegalNr(ParseConfig(file).nr)
<1>1. CASE file = Unreadable
  <2>1. ParseConfig(file) = Defaults
        BY <1>1, Zenon DEF ParseConfig
  <2> QED BY <2>1, DefaultsTyped
<1>2. CASE file # Unreadable
  <2> DEFINE read == ReadTop(Table(file, "top"), BaseTop)
             mode == IF read.depth_mode \in {"flat", "gradient"} THEN read.depth_mode ELSE "flat"
             top == [read EXCEPT !.depth_mode = mode]
             app == ReadString(Table(file, "app"), NoApp)
             nr == ReadNr(file, "nr")
             looks == ReadLooks(file)
             rects == ReadRects(file)
             c == ParseConfig(file)
  <2>1. c = [top |-> top, app |-> app, nr |-> nr, looks |-> looks, rects |-> rects]
    <3>1. Defaults.top = BaseTop /\ Defaults.app = NoApp
          BY DEF Defaults
    <3> QED BY <1>2, <3>1 DEF ParseConfig
  <2>2. TypedFile(file) /\ IsSeq(file)
        BY <1>2 DEF TypedFile
  <2>3. TypedKeys(Table(file, "top")) /\ TypedKeys(Table(file, "app"))
        BY <2>2, SectionsTyped
  <2>4. TypedTop(read, BaseTop) /\ LegalTable(read)
    <3>1. {"neural_pass", "flow_grid_size"} \subseteq DOMAIN BaseTop
          BY SMT DEF BaseTop
    <3>2. TypedTop(BaseTop, BaseTop)
      <4>1. BaseTop.neural_pass \notin {"reshade", "ngx"}
            BY SMT DEF BaseTop
      <4> QED BY <4>1, BaseTables DEF TypedTop
    <3> QED BY <2>3, <3>1, <3>2, BaseTables, ReadTopIs
  <2>5. TypedTable(app, NoApp)
        BY <2>3, BaseTables, ReadStringIs
  <2>6. TypedNr(nr) /\ LegalNr(nr)
        BY <2>2, ReadNrIs
  <2>7. TypedLooks(looks) /\ TypedRects(rects)
        BY <2>2, ReadLooksIs, ReadRectsIs
  <2>8. /\ TypedTop(top, BaseTop) /\ top.depth_mode \in {"flat", "gradient"}
        /\ LegalTable(top)
    <3>1. "depth_mode" \in DOMAIN BaseTop /\ "neural_pass" \in DOMAIN BaseTop
          BY SMT DEF BaseTop
    <3>2. DOMAIN read = DOMAIN BaseTop /\ read = [k \in DOMAIN BaseTop |-> read[k]]
          BY <2>4, Zenon DEF TypedTop, TypedTable
    <3>3. mode \in {"flat", "gradient"}
          OBVIOUS
    <3>4. mode # Wrong
          BY <3>3, CodecAssumption
    <3>5. Fits("depth_mode", mode)
      <4>1. "depth_mode" \notin Floats \cup Ints \cup DOMAIN NoRect \cup {"flow_grid_size"}
            BY Ranges
      <4> HIDE DEF mode
      <4> QED BY <3>4, <4>1, OtherValue
    <3> HIDE DEF mode, read
    <3>6. /\ top = [k \in DOMAIN BaseTop |-> top[k]] /\ DOMAIN top = DOMAIN BaseTop
          /\ top["depth_mode"] = mode
          /\ \A k \in DOMAIN BaseTop : k # "depth_mode" => top[k] = read[k]
          BY <3>1, <3>2
    <3> HIDE DEF top
    <3>7. \A k \in DOMAIN BaseTop : Fits(k, top[k])
          BY <2>4, <3>2, <3>5, <3>6 DEF Fits, TypedTop, TypedTable, LegalTable
    <3>8. TypedTable(top, BaseTop) /\ LegalTable(top)
          BY <3>6, <3>7, Zenon DEF Fits, TypedTable, LegalTable
    <3>9. top.neural_pass \notin {"reshade", "ngx"}
          BY <2>4, <3>1, <3>6 DEF TypedTop
    <3> QED BY <3>3, <3>6, <3>8, <3>9 DEF TypedTop
  <2> HIDE DEF read, mode, top, app, nr, looks, rects, c
  <2>9. /\ c.top = top /\ c.app = app /\ c.nr = nr /\ c.looks = looks /\ c.rects = rects
        BY <2>1
  <2>10. TypedConfig(c)
        BY <2>1, <2>5, <2>6, <2>7, <2>8, <2>9 DEF TypedConfig
  <2> QED BY <2>6, <2>8, <2>9, <2>10 DEF c
<1> QED BY <1>1, <1>2

-------------------------------------------------------------------------------
(* Presets, as they ship and as they are read.                              *)

LEMMA ChangedTable ==
  ASSUME NEW t, NEW like, TypedTable(t, like), NEW k \in DOMAIN like,
         NEW v, v # Wrong, IsTyped(k, v)
  PROVE  /\ TypedTable([t EXCEPT ![k] = v], like)
         /\ LegalTable(t) /\ IsLegal(k, v) => LegalTable([t EXCEPT ![k] = v])
<1> DEFINE u == [t EXCEPT ![k] = v]
<1>1. DOMAIN t = DOMAIN like /\ t = [j \in DOMAIN like |-> t[j]]
      BY Zenon DEF TypedTable
<1>2. /\ u = [j \in DOMAIN like |-> u[j]] /\ DOMAIN u = DOMAIN like
      /\ u[k] = v /\ \A j \in DOMAIN like : j # k => u[j] = t[j]
      BY <1>1
<1> HIDE DEF u
<1>3. \A j \in DOMAIN like : u[j] # Wrong /\ IsTyped(j, u[j])
      BY <1>2 DEF TypedTable
<1>4. TypedTable(u, like)
      BY <1>2, <1>3, Zenon DEF TypedTable
<1>5. ASSUME LegalTable(t), IsLegal(k, v) PROVE LegalTable(u)
      BY <1>1, <1>2, <1>5 DEF LegalTable
<1> QED BY <1>4, <1>5 DEF u

TypedPreset(p) ==
  /\ p = [name |-> p.name, builtin |-> p.builtin, top |-> p.top, nr |-> p.nr]
  /\ p.name # Wrong /\ p.builtin \in BOOLEAN
  /\ TypedTop(p.top, LookTop) /\ TypedNr(p.nr)
LegalPreset(p) == LegalTable(p.top) /\ LegalNr(p.nr)
GoodPresets(all) ==
  IsSeq(all) /\ \A i \in DOMAIN all : TypedPreset(all[i]) /\ LegalPreset(all[i])

\* Changes at once are changes one by one.
LEMMA TwoChanges ==
  ASSUME NEW f, f = [k \in DOMAIN f |-> f[k]], NEW i, NEW j, NEW v, NEW w
  PROVE  [f EXCEPT ![i] = v, ![j] = w] = [[f EXCEPT ![i] = v] EXCEPT ![j] = w]
BY SMT

LEMMA FourChanges ==
  ASSUME NEW f, f = [k \in DOMAIN f |-> f[k]], NEW i, NEW j, NEW m, NEW n, NEW v, NEW w, NEW x, NEW y
  PROVE  [f EXCEPT ![i] = v, ![j] = w, ![m] = x, ![n] = y]
           = [[[[f EXCEPT ![i] = v] EXCEPT ![j] = w] EXCEPT ![m] = x] EXCEPT ![n] = y]
<1> DEFINE g == [f EXCEPT ![i] = v, ![j] = w]
<1>1. g = [[f EXCEPT ![i] = v] EXCEPT ![j] = w]
      BY TwoChanges
<1>2. [f EXCEPT ![i] = v, ![j] = w, ![m] = x, ![n] = y] = [g EXCEPT ![m] = x, ![n] = y]
      BY SMTT(30)
<1>3. g = [k \in DOMAIN g |-> g[k]]
      OBVIOUS
<1> HIDE DEF g
<1>4. [g EXCEPT ![m] = x, ![n] = y] = [[g EXCEPT ![m] = x] EXCEPT ![n] = y]
      BY <1>3, TwoChanges
<1> QED BY <1>1, <1>2, <1>4, Zenon

LEMMA CinematicFits ==
  TypedTable(Cinematic, BasePass) /\ LegalTable(Cinematic)
<1>1. /\ FloatRange["local_structure"] = <<0, 2000>> /\ FloatRange["local_tone"] = <<0, 2000>>
      /\ FloatRange["skin_structure"][1] <= 400 /\ 400 <= FloatRange["skin_structure"][2]
      /\ IntRange["style"] = <<0, 2>>
      BY SMT DEF FloatRange, IntRange
<1>2. \A n \in Int : n # Wrong
      BY CodecAssumption
<1>3. Fits("style", 2)
      BY <1>1, <1>2, Ranges, SMT DEF Fits, IsTyped, IsLegal
<1>4. Fits("local_structure", 950) /\ Fits("local_tone", 650)
      BY <1>1, <1>2, Ranges, SMT DEF Fits, IsTyped, IsLegal
<1>5. Fits("skin_structure", 400)
      BY <1>1, <1>2, Ranges, SMT DEF Fits, IsTyped, IsLegal
<1>6. {"style", "local_structure", "local_tone", "skin_structure"} \subseteq DOMAIN BasePass
      BY SMT DEF BasePass
<1> DEFINE a == [BasePass EXCEPT !["style"] = 2]
           b == [a EXCEPT !["local_structure"] = 950]
           c == [b EXCEPT !["local_tone"] = 650]
           d == [c EXCEPT !["skin_structure"] = 400]
<1>7. Cinematic = d
  <2>1. BasePass = [k \in DOMAIN BasePass |-> BasePass[k]]
        BY BaseTables, Zenon DEF TypedTable
  <2> QED BY <2>1, FourChanges, Zenon DEF Cinematic
<1>8. TypedTable(a, BasePass) /\ LegalTable(a)
      BY <1>3, <1>6, BaseTables, ChangedTable, SMT DEF Fits
<1> HIDE DEF a
<1>9. TypedTable(b, BasePass) /\ LegalTable(b)
      BY <1>4, <1>6, <1>8, ChangedTable, SMT DEF Fits
<1> HIDE DEF b
<1>10. TypedTable(c, BasePass) /\ LegalTable(c)
      BY <1>4, <1>6, <1>9, ChangedTable, SMT DEF Fits
<1> HIDE DEF c
<1>11. TypedTable(d, BasePass) /\ LegalTable(d)
      BY <1>5, <1>6, <1>10, ChangedTable, SMT DEF Fits
<1> QED BY <1>7, <1>11, Zenon

LEMMA BuiltinsFit ==
  GoodPresets(BuiltinPresets) /\ Len(BuiltinPresets) = 2
<1> DEFINE frame == [BaseFrame EXCEPT !.colour_preserve = 900, !.highlight_protect = 600,
                                      !.model_scale = 500, !.final_pass_full = TRUE]
           nr == [base |-> Cinematic, passes |-> <<Cinematic, Cinematic>>, frame |-> frame]
           top == [LookTop EXCEPT !["neural_pass"] = "passthrough"]
           p == [name |-> "Recommended", builtin |-> TRUE, top |-> LookTop, nr |-> nr]
           q == [name |-> "Off", builtin |-> TRUE, nr |-> NrSettings, top |-> top]
<1>1. BuiltinPresets = <<p, q>>
      BY Zenon DEF BuiltinPresets
<1>2. TypedTable(frame, BaseFrame) /\ LegalTable(frame) /\ frame.paper_white_nits = 0
  <2>1. /\ FloatRange["colour_preserve"] = <<0, 1000>> /\ FloatRange["model_scale"] = <<500, 1000>>
        BY SMT DEF FloatRange
  <2>2. /\ \A n \in Int : n # Wrong
        /\ \A v \in BOOLEAN : v # Wrong
        BY CodecAssumption
  <2>3. Fits("colour_preserve", 900) /\ Fits("model_scale", 500)
        BY <2>1, <2>2, Ranges, SMT DEF Fits, IsTyped, IsLegal
  <2>4. Fits("highlight_protect", 600)
        BY BaseValues
  <2>5. \A v \in BOOLEAN : Fits("final_pass_full", v)
    <3>1. "final_pass_full" \notin Floats \cup Ints \cup DOMAIN NoRect \cup {"flow_grid_size"}
          BY Ranges
    <3> QED BY <2>2, <3>1, OtherValue
  <2>6. {"colour_preserve", "highlight_protect", "model_scale", "final_pass_full",
         "paper_white_nits"} \subseteq DOMAIN BaseFrame
        BY SMT DEF BaseFrame
  <2> DEFINE a == [BaseFrame EXCEPT !["colour_preserve"] = 900]
             b == [a EXCEPT !["highlight_protect"] = 600]
             c == [b EXCEPT !["model_scale"] = 500]
             d == [c EXCEPT !["final_pass_full"] = TRUE]
  <2>7. frame = d
    <3>1. BaseFrame = [k \in DOMAIN BaseFrame |-> BaseFrame[k]]
          BY BaseTables, Zenon DEF TypedTable
    <3> QED BY <3>1, FourChanges, Zenon
  <2>8. TypedTable(a, BaseFrame) /\ LegalTable(a)
        BY <2>3, <2>6, BaseTables, ChangedTable, SMT DEF Fits
  <2>p. frame.paper_white_nits = 0
        BY SMT DEF BaseFrame
  <2> HIDE DEF a
  <2>9. TypedTable(b, BaseFrame) /\ LegalTable(b)
        BY <2>4, <2>6, <2>8, ChangedTable, SMT DEF Fits
  <2> HIDE DEF b
  <2>10. TypedTable(c, BaseFrame) /\ LegalTable(c)
        BY <2>3, <2>6, <2>9, ChangedTable, SMT DEF Fits
  <2> HIDE DEF c
  <2>11. TypedTable(d, BaseFrame) /\ LegalTable(d)
    <3> DEFINE v == TRUE
    <3>1. v \in BOOLEAN
          OBVIOUS
    <3>2. v # Wrong
          BY <2>2, <3>1
    <3> HIDE DEF v
    <3>3. Fits("final_pass_full", v)
          BY <2>5, <3>1
    <3>4. /\ TypedTable([c EXCEPT !["final_pass_full"] = v], BaseFrame)
          /\ LegalTable([c EXCEPT !["final_pass_full"] = v])
          BY <2>6, <2>10, <3>2, <3>3, ChangedTable, SMT DEF Fits
    <3> QED BY <3>4, Zenon DEF v
  <2> HIDE DEF d, frame
  <2> QED BY <2>7, <2>11, <2>p
<1>3. TypedTop(top, LookTop) /\ LegalTable(top)
  <2>1. "neural_pass" \in DOMAIN LookTop
        BY SMT DEF LookTop
  <2>2. "neural_pass" \notin Floats \cup Ints \cup DOMAIN NoRect \cup {"flow_grid_size"}
        BY Ranges
  <2>3. "passthrough" # Wrong
        BY CodecAssumption
  <2>4. Fits("neural_pass", "passthrough")
        BY <2>2, <2>3, OtherValue
  <2>5. TypedTable(top, LookTop) /\ LegalTable(top)
        BY <2>1, <2>3, <2>4, BaseTables, ChangedTable, SMT DEF Fits
  <2>6. top.neural_pass = "passthrough"
        BY SMT DEF LookTop
  <2> HIDE DEF top
  <2> QED BY <2>5, <2>6 DEF TypedTop
<1>4. TypedTop(LookTop, LookTop) /\ LegalTable(LookTop)
  <2>1. LookTop.neural_pass \notin {"reshade", "ngx"}
        BY SMT DEF LookTop
  <2> QED BY <2>1, BaseTables DEF TypedTop
<1>5. TypedNr(nr) /\ LegalNr(nr)
  <2> DEFINE ps == <<Cinematic, Cinematic>>
  <2> HIDE DEF frame
  <2>1. nr = [base |-> nr.base, frame |-> nr.frame, passes |-> nr.passes]
        /\ nr.base = Cinematic /\ nr.frame = frame /\ nr.passes = ps
        OBVIOUS
  <2>2. /\ ps \in Seq({Cinematic}) /\ Len(ps) = 2
        OBVIOUS
  <2> HIDE DEF ps
  <2>3. IsSeq(ps) /\ \A i \in DOMAIN ps : ps[i] \in {Cinematic}
        BY <2>2, SeqIs
  <2> HIDE DEF nr
  <2> QED BY <1>2, <2>1, <2>2, <2>3, CinematicFits DEF TypedNr, LegalNr
<1>6. TypedNr(NrSettings) /\ LegalNr(NrSettings)
  <2>1. Defaults.nr = NrSettings
        BY DEF Defaults
  <2> QED BY <2>1, DefaultsTyped DEF TypedConfig
<1>7. "Recommended" # Wrong /\ "Off" # Wrong
      BY CodecAssumption
<1> HIDE DEF nr, top
<1>8. TypedPreset(p) /\ LegalPreset(p)
  <2>1. /\ p = [name |-> p.name, builtin |-> p.builtin, top |-> p.top, nr |-> p.nr]
        /\ p.name = "Recommended" /\ p.builtin \in BOOLEAN /\ p.top = LookTop /\ p.nr = nr
        OBVIOUS
  <2> HIDE DEF p
  <2> QED BY <1>4, <1>5, <1>7, <2>1 DEF TypedPreset, LegalPreset
<1>9. TypedPreset(q) /\ LegalPreset(q)
  <2>1. /\ q = [name |-> q.name, builtin |-> q.builtin, top |-> q.top, nr |-> q.nr]
        /\ q.name = "Off" /\ q.builtin \in BOOLEAN /\ q.top = top /\ q.nr = NrSettings
        OBVIOUS
  <2> HIDE DEF q
  <2> QED BY <1>3, <1>6, <1>7, <2>1 DEF TypedPreset, LegalPreset
<1> HIDE DEF p, q
<1> DEFINE s == <<p, q>>
<1>10. s \in Seq({p, q}) /\ Len(s) = 2
       OBVIOUS
<1> HIDE DEF s
<1>11. IsSeq(s) /\ \A i \in DOMAIN s : s[i] \in {p, q}
       BY <1>10, SeqIs
<1>12. GoodPresets(s)
       BY <1>8, <1>9, <1>11 DEF GoodPresets
<1> QED BY <1>1, <1>10, <1>12 DEF s

\* Where the preset that begins at i ends.
LastOf(file, i) ==
  LET following == {j \in i + 1 .. Len(file) : file[j].header = "preset"}
  IN IF following = {} THEN Len(file) ELSE Min(following) - 1
PartOf(file, i) == SubSeq(file, i, LastOf(file, i))

LEMMA PartIs ==
  ASSUME NEW file, IsSeq(file), NEW i \in 1 .. Len(file)
  PROVE  /\ LastOf(file, i) \in i .. Len(file)
         /\ \A j \in i + 1 .. LastOf(file, i) : file[j].header # "preset"
         /\ LastOf(file, i) < Len(file) => file[LastOf(file, i) + 1].header = "preset"
         /\ IsSeq(PartOf(file, i)) /\ Len(PartOf(file, i)) = LastOf(file, i) - i + 1
         /\ \A j \in 1 .. LastOf(file, i) - i + 1 : PartOf(file, i)[j] = file[i + j - 1]
<1> DEFINE n == Len(file)
           following == {j \in i + 1 .. n : file[j].header = "preset"}
           last == LastOf(file, i)
<1>1. last = IF following = {} THEN n ELSE Min(following) - 1
      BY DEF LastOf
<1>2. n \in Nat /\ DOMAIN file = 1 .. n
      BY SeqHas
<1>3. /\ last \in i .. n
      /\ \A j \in i + 1 .. last : file[j].header # "preset"
      /\ last < n => file[last + 1].header = "preset"
  <2>1. CASE following = {}
        BY <1>1, <1>2, <2>1
  <2>2. CASE following # {}
    <3>1. following \subseteq Nat
          BY <1>2
    <3>2. \A j \in following : j \in i + 1 .. n /\ file[j].header = "preset"
          OBVIOUS
    <3>3. \A j \in i + 1 .. n : file[j].header = "preset" => j \in following
          OBVIOUS
    <3> HIDE DEF following
    <3>4. Min(following) \in following /\ \A y \in following : Min(following) <= y
          BY <2>2, <3>1, MinIsIn
    <3> DEFINE m == Min(following)
    <3>5. m \in i + 1 .. n /\ file[m].header = "preset" /\ last = m - 1
          BY <1>1, <2>2, <3>2, <3>4
    <3> HIDE DEF m, last, n
    <3>6. last \in i .. n /\ last + 1 = m
          BY <1>2, <3>5
    <3>7. ASSUME NEW j \in i + 1 .. last, file[j].header = "preset" PROVE FALSE
      <4>1. j \in i + 1 .. n
            BY <1>2, <3>6
      <4>2. j \in following
            BY <3>3, <3>7, <4>1
      <4>3. m <= j
            BY <3>4, <4>2 DEF m
      <4> QED BY <1>2, <3>6, <4>3
    <3> QED BY <3>5, <3>6, <3>7
  <2> QED BY <2>1, <2>2
<1> HIDE DEF last, following
<1>4. \A j \in i .. last : file[j] \in ToSet(file)
      BY <1>2, <1>3, ElementOf
<1>5. /\ SubSeq(file, i, last) \in Seq(ToSet(file))
      /\ Len(SubSeq(file, i, last)) = last - i + 1
      /\ \A j \in 1 .. last - i + 1 : SubSeq(file, i, last)[j] = file[i + j - 1]
  <2>1. i \in Int /\ last \in Int /\ i <= last
        BY <1>2, <1>3
  <2> QED BY <1>4, <2>1, SubSeqProperties
<1>6. PartOf(file, i) = SubSeq(file, i, last)
      BY DEF PartOf, last
<1>7. IsSeq(PartOf(file, i))
      BY <1>5, <1>6, SeqIs
<1> QED BY <1>3, <1>5, <1>6, <1>7 DEF last, n

LEMMA PresetAtIs ==
  ASSUME NEW file, TypedFile(file), NEW i \in 1 .. Len(file), file[i].header = "preset"
  PROVE  /\ TypedPreset(PresetAt(file, i)) /\ LegalPreset(PresetAt(file, i))
         /\ PresetAt(file, i) =
              [name |-> ReadString(file[i].keys, [name |-> Empty]).name, builtin |-> FALSE,
               top |-> ReadTop(file[i].keys, LookTop),
               nr |-> ReadNr(PartOf(file, i), "preset.nr")]
<1> DEFINE part == PartOf(file, i)
           keys == file[i].keys
           p == [name |-> ReadString(keys, [name |-> Empty]).name, builtin |-> FALSE,
                 top |-> ReadTop(keys, LookTop), nr |-> ReadNr(part, "preset.nr")]
<1>1. IsSeq(file) /\ Len(file) \in Nat /\ DOMAIN file = 1 .. Len(file)
      BY SeqHas DEF TypedFile
<1>2. /\ IsSeq(part) /\ LastOf(file, i) \in i .. Len(file)
      /\ Len(part) = LastOf(file, i) - i + 1
      /\ \A j \in 1 .. LastOf(file, i) - i + 1 : part[j] = file[i + j - 1]
      BY <1>1, PartIs
<1>3. part[1] = file[i]
      BY <1>1, <1>2
<1>4. TypedFile(part)
  <2>1. \A j \in 1 .. Len(part) : i + j - 1 \in 1 .. Len(file)
        BY <1>1, <1>2
  <2>2. DOMAIN part = 1 .. Len(part)
        BY <1>2, SeqHas
  <2> QED BY <1>1, <1>2, <2>1, <2>2 DEF TypedFile
<1>5. PresetAt(file, i) = p
  <2>1. PresetAt(file, i) =
          [name |-> ReadString(part[1].keys, [name |-> Empty]).name, builtin |-> FALSE,
           top |-> ReadTop(part[1].keys, LookTop), nr |-> ReadNr(part, "preset.nr")]
        BY Zenon DEF PresetAt, PartOf, LastOf
  <2> QED BY <1>3, <2>1, Zenon
<1>6. TypedKeys(keys)
  <2>1. TypedSection(file[i]) /\ file[i].header # "app_look"
        BY <1>1 DEF TypedFile
  <2> QED BY <2>1 DEF TypedSection, TypedKeys
<1> DEFINE name == ReadString(keys, [name |-> Empty]).name
           top == ReadTop(keys, LookTop)
           nr == ReadNr(part, "preset.nr")
<1>7. name # Wrong
  <2>1. name = IF Says(keys, "name") THEN keys["name"] ELSE Empty
        BY DEF ReadString
  <2> QED BY <2>1, EmptyIs DEF Says
<1>8. TypedTop(top, LookTop) /\ LegalTable(top)
  <2>1. {"neural_pass", "flow_grid_size"} \subseteq DOMAIN LookTop
        BY SMT DEF LookTop
  <2>2. TypedTop(LookTop, LookTop)
    <3>1. LookTop.neural_pass \notin {"reshade", "ngx"}
          BY SMT DEF LookTop
    <3> QED BY <3>1, BaseTables DEF TypedTop
  <2> QED BY <1>6, <2>1, <2>2, BaseTables, ReadTopIs
<1>9. TypedNr(nr) /\ LegalNr(nr)
      BY <1>4, ReadNrIs
<1> HIDE DEF part, keys, name, top, nr
<1>10. p = [name |-> name, builtin |-> FALSE, top |-> top, nr |-> nr]
       BY Zenon DEF name, top, nr
<1>11. /\ p = [name |-> p.name, builtin |-> p.builtin, top |-> p.top, nr |-> p.nr]
       /\ p.name = name /\ p.builtin \in BOOLEAN /\ p.top = top /\ p.nr = nr
       BY <1>10
<1> HIDE DEF p
<1>12. TypedPreset(p) /\ LegalPreset(p)
       BY <1>7, <1>8, <1>9, <1>11 DEF TypedPreset, LegalPreset
<1> QED BY <1>5, <1>12, Zenon DEF p, part, keys

LEMMA AllPresetsAre ==
  ASSUME NEW file, file # Unreadable => TypedFile(file)
  PROVE  GoodPresets(AllPresets(file))
<1>1. CASE file = Unreadable
  <2>1. AllPresets(file) = BuiltinPresets
        BY <1>1, Zenon DEF AllPresets
  <2> QED BY <2>1, BuiltinsFit
<1>2. CASE file # Unreadable
  <2> DEFINE n == Len(file)
  <2>1. TypedFile(file) /\ IsSeq(file) /\ n \in Nat
        BY <1>2, SeqHas DEF TypedFile
  <2>2. PICK r : /\ r[0] = BuiltinPresets
                 /\ \A i \in 1 .. n : r[i] = AddPreset(file, r[i - 1], i)
                 /\ AllPresets(file) = r[n]
        BY <1>2, <2>1, ListSteps
  <2> DEFINE I == {i \in Nat : i <= n => GoodPresets(r[i])}
  <2>3. 0 \in I
        BY <2>2, BuiltinsFit
  <2>4. ASSUME NEW i \in Nat, i \in I PROVE i + 1 \in I
    <3> SUFFICES ASSUME i + 1 <= n PROVE GoodPresets(r[i + 1])
        OBVIOUS
    <3>1. i + 1 \in 1 .. n /\ (i + 1) - 1 = i /\ GoodPresets(r[i])
          BY <2>1, <2>4
    <3> DEFINE all == r[i]
               p == PresetAt(file, i + 1)
    <3>2. r[i + 1] = AddPreset(file, all, i + 1)
          BY <2>2, <3>1
    <3>3. /\ AddPreset(file, all, i + 1) \in {all, Append(all, p)}
          /\ AddPreset(file, all, i + 1) # all => file[i + 1].header = "preset"
          BY DEF AddPreset
    <3>4. GoodPresets(all)
          BY <3>1
    <3> HIDE DEF all
    <3>5. ASSUME file[i + 1].header = "preset" PROVE GoodPresets(Append(all, p))
      <4>1. TypedPreset(p) /\ LegalPreset(p)
            BY <2>1, <3>1, <3>5, PresetAtIs
      <4> HIDE DEF p
      <4> DEFINE more == Append(all, p)
      <4>2. /\ IsSeq(more) /\ Len(more) = Len(all) + 1
            /\ \A j \in 1 .. Len(all) : more[j] = all[j]
            /\ more[Len(all) + 1] = p
            BY <3>4, AppendedSeq DEF GoodPresets
      <4> HIDE DEF more
      <4>3. DOMAIN more = 1 .. Len(all) + 1 /\ Len(all) \in Nat /\ DOMAIN all = 1 .. Len(all)
            BY <3>4, <4>2, SeqHas DEF GoodPresets
      <4>4. GoodPresets(more)
            BY <3>4, <4>1, <4>2, <4>3 DEF GoodPresets
      <4> QED BY <4>4 DEF more
    <3> HIDE DEF p
    <3> QED BY <3>2, <3>3, <3>4, <3>5
  <2> HIDE DEF I
  <2>5. n \in I
        BY <2>1, <2>3, <2>4, Induction
  <2> QED BY <2>1, <2>2, <2>5 DEF I
<1> QED BY <1>1, <1>2

-------------------------------------------------------------------------------
(* What is written is typed.                                                *)

\* A number is written to the nearest ten, and no further than a range's end.
LEMMA NumberIs ==
  ASSUME NEW v \in Int \cup {NaN}
  PROVE  /\ Number(v) \in Int \cup {NaN} /\ (Number(v) = NaN <=> v = NaN)
         /\ v # NaN => v \in Int /\ Number(v) - v \in -5 .. 5
         /\ v # NaN => \A n \in Int : /\ 10 * n <= v => 10 * n <= Number(v)
                                      /\ v <= 10 * n => Number(v) <= 10 * n
<1>1. CASE v = NaN
      BY <1>1 DEF Number
<1>2. CASE v # NaN
  <2>1. v \in Int /\ Number(v) = ((v + 5) \div 10) * 10
        BY <1>2 DEF Number
  <2> DEFINE q == (v + 5) \div 10
  <2>2. q \in Int /\ 10 * q <= v + 5 /\ v + 5 <= 10 * q + 9
        BY <2>1
  <2>3. Number(v) = 10 * q
        BY <2>1, <2>2
  <2> HIDE DEF q
  <2>4. Number(v) \in Int /\ Number(v) # NaN
        BY <2>2, <2>3, CodecAssumption
  <2>5. Number(v) - v \in -5 .. 5
        BY <2>1, <2>2, <2>3
  <2>6. ASSUME NEW n \in Int
        PROVE  /\ 10 * n <= v => 10 * n <= Number(v)
               /\ v <= 10 * n => Number(v) <= 10 * n
        BY <2>1, <2>2, <2>3
  <2> QED BY <1>2, <2>1, <2>4, <2>5, <2>6
<1> QED BY <1>1, <1>2

LEMMA TypedIsKeys ==
  ASSUME NEW t, NEW like, TypedTable(t, like)
  PROVE  TypedTable(t, t) /\ TypedKeys(t) /\ DOMAIN t = DOMAIN like
<1>1. DOMAIN t = DOMAIN like
      BY Zenon DEF TypedTable
<1> QED BY <1>1 DEF TypedTable, TypedKeys

LEMMA WriteTableIs ==
  ASSUME NEW header, NEW t, TypedTable(t, t)
  PROVE  /\ TypedSection(WriteTable(header, t)) /\ WriteTable(header, t).header = header
         /\ DOMAIN WriteTable(header, t).keys = DOMAIN t
         /\ \A k \in DOMAIN t :
              WriteTable(header, t).keys[k] = IF k \in Floats THEN Number(t[k]) ELSE t[k]
<1> DEFINE s == WriteTable(header, t)
           keys == [k \in DOMAIN t |-> IF k \in Floats THEN Number(t[k]) ELSE t[k]]
<1>1. s = [header |-> header, keys |-> keys]
      BY Zenon DEF WriteTable
<1>2. /\ DOMAIN keys = DOMAIN t
      /\ \A k \in DOMAIN t : keys[k] = IF k \in Floats THEN Number(t[k]) ELSE t[k]
      OBVIOUS
<1> HIDE DEF keys
<1>3. s.header = header /\ s.keys = keys /\ s = [header |-> s.header, keys |-> s.keys]
      BY <1>1
<1> HIDE DEF s
<1>4. ASSUME NEW k \in DOMAIN keys PROVE IsTyped(k, keys[k])
  <2> DEFINE v == t[k]
  <2>1. v # Wrong /\ IsTyped(k, v) /\ keys[k] = IF k \in Floats THEN Number(v) ELSE v
        BY <1>2 DEF TypedTable
  <2> HIDE DEF v
  <2>2. CASE k \in Floats
    <3>1. k \notin Ints \cup DOMAIN NoRect
          BY <2>2, Ranges
    <3>2. v \in Int \cup {NaN}
          BY <2>1, <2>2 DEF IsTyped
    <3>3. Number(v) \in Int \cup {NaN}
          BY <3>2, NumberIs
    <3> QED BY <2>1, <2>2, <3>1, <3>3 DEF IsTyped
  <2>3. CASE k \notin Floats
        BY <2>1, <2>3
  <2> QED BY <2>2, <2>3
<1>5. TypedSection(s)
      BY <1>3, <1>4 DEF TypedSection
<1> QED BY <1>2, <1>3, <1>5 DEF s

LEMMA BothTyped ==
  ASSUME NEW t, NEW u, TypedTable(t, t), TypedTable(u, u)
  PROVE  /\ TypedTable(Both(t, u), Both(t, u)) /\ DOMAIN Both(t, u) = DOMAIN t \cup DOMAIN u
         /\ \A k \in DOMAIN t : Both(t, u)[k] = t[k]
         /\ \A k \in DOMAIN u \ DOMAIN t : Both(t, u)[k] = u[k]
<1> DEFINE b == Both(t, u)
<1>1. b = [k \in DOMAIN t \cup DOMAIN u |-> IF k \in DOMAIN t THEN t[k] ELSE u[k]]
      BY Zenon DEF Both
<1>2. /\ DOMAIN b = DOMAIN t \cup DOMAIN u /\ b = [k \in DOMAIN b |-> b[k]]
      /\ \A k \in DOMAIN t : b[k] = t[k]
      /\ \A k \in DOMAIN u \ DOMAIN t : b[k] = u[k]
      BY <1>1
<1> HIDE DEF b
<1>3. \A k \in DOMAIN b : b[k] # Wrong /\ IsTyped(k, b[k])
      BY <1>2 DEF TypedTable
<1>4. TypedTable(b, b)
      BY <1>2, <1>3, Zenon DEF TypedTable
<1> QED BY <1>2, <1>4 DEF b

\* A file of one section, of two, and one behind the other.
LEMMA OneSection ==
  ASSUME NEW s, TypedSection(s)
  PROVE  TypedFile(<<s>>) /\ Len(<<s>>) = 1 /\ <<s>>[1] = s
<1> DEFINE f == <<s>>
<1>1. f \in Seq({s}) /\ Len(f) = 1 /\ f[1] = s
      OBVIOUS
<1> HIDE DEF f
<1>2. IsSeq(f) /\ \A i \in DOMAIN f : f[i] \in {s}
      BY <1>1, SeqIs
<1>3. TypedFile(f)
      BY <1>2 DEF TypedFile
<1> QED BY <1>1, <1>3 DEF f

LEMMA JoinedFile ==
  ASSUME NEW a, NEW b, TypedFile(a), TypedFile(b)
  PROVE  TypedFile(a \o b)
<1> DEFINE f == a \o b
<1>1. /\ IsSeq(a) /\ IsSeq(b) /\ Len(a) \in Nat /\ Len(b) \in Nat
      /\ DOMAIN a = 1 .. Len(a) /\ DOMAIN b = 1 .. Len(b)
      BY SeqHas DEF TypedFile
<1>2. /\ IsSeq(f) /\ Len(f) = Len(a) + Len(b)
      /\ \A i \in 1 .. Len(a) : f[i] = a[i]
      /\ \A i \in 1 .. Len(b) : f[Len(a) + i] = b[i]
      BY <1>1, JoinedSeq
<1> HIDE DEF f
<1>3. ASSUME NEW i \in DOMAIN f PROVE TypedSection(f[i])
  <2>1. i \in 1 .. Len(a) + Len(b)
        BY <1>2, SeqHas
  <2>2. CASE i <= Len(a)
        BY <1>1, <1>2, <2>1, <2>2 DEF TypedFile
  <2>3. CASE i > Len(a)
    <3>1. i - Len(a) \in 1 .. Len(b) /\ i = Len(a) + (i - Len(a))
          BY <1>1, <2>1, <2>3
    <3> QED BY <1>1, <1>2, <3>1 DEF TypedFile
  <2> QED BY <1>1, <2>1, <2>2, <2>3
<1>4. TypedFile(f)
      BY <1>2, <1>3 DEF TypedFile
<1> QED BY <1>4 DEF f

\* Tables of one kind under one header.
LEMMA WriteAllIs ==
  ASSUME NEW header, NEW tables, IsSeq(tables),
         \A i \in DOMAIN tables : TypedTable(tables[i], tables[i])
  PROVE  /\ TypedFile(WriteAll(header, tables)) /\ Len(WriteAll(header, tables)) = Len(tables)
         /\ \A i \in 1 .. Len(tables) :
              WriteAll(header, tables)[i] = WriteTable(header, tables[i])
<1> DEFINE f == WriteAll(header, tables)
<1>1. Len(tables) \in Nat /\ DOMAIN tables = 1 .. Len(tables)
      BY SeqHas
<1>2. f = [i \in 1 .. Len(tables) |-> WriteTable(header, tables[i])]
      BY <1>1, Zenon DEF WriteAll
<1>3. /\ f = [i \in 1 .. Len(tables) |-> f[i]]
      /\ \A i \in 1 .. Len(tables) : f[i] = WriteTable(header, tables[i])
      BY <1>2
<1> HIDE DEF f
<1>4. IsSeq(f) /\ Len(f) = Len(tables) /\ DOMAIN f = 1 .. Len(tables)
      BY <1>1, <1>3, BuiltSeq
<1>5. ASSUME NEW i \in DOMAIN f PROVE TypedSection(f[i])
      BY <1>1, <1>3, <1>4, WriteTableIs
<1>6. TypedFile(f)
      BY <1>4, <1>5 DEF TypedFile
<1> QED BY <1>3, <1>4, <1>6 DEF f

LEMMA WriteStringsIs ==
  ASSUME NEW header, NEW tables, IsSeq(tables),
         header # "app_look" => \A i \in DOMAIN tables : TypedKeys(tables[i])
  PROVE  /\ TypedFile(WriteStrings(header, tables))
         /\ Len(WriteStrings(header, tables)) = Len(tables)
         /\ \A i \in 1 .. Len(tables) :
              WriteStrings(header, tables)[i] = [header |-> header, keys |-> tables[i]]
<1> DEFINE f == WriteStrings(header, tables)
<1>1. Len(tables) \in Nat /\ DOMAIN tables = 1 .. Len(tables)
      BY SeqHas
<1>2. f = [i \in 1 .. Len(tables) |-> [header |-> header, keys |-> tables[i]]]
      BY <1>1, Zenon DEF WriteStrings
<1>3. /\ f = [i \in 1 .. Len(tables) |-> f[i]]
      /\ \A i \in 1 .. Len(tables) : f[i] = [header |-> header, keys |-> tables[i]]
      BY <1>2
<1> HIDE DEF f
<1>4. IsSeq(f) /\ Len(f) = Len(tables) /\ DOMAIN f = 1 .. Len(tables)
      BY <1>1, <1>3, BuiltSeq
<1>5. ASSUME NEW i \in DOMAIN f PROVE TypedSection(f[i])
  <2>1. f[i] = [header |-> header, keys |-> tables[i]] /\ i \in DOMAIN tables
        BY <1>1, <1>3, <1>4
  <2>2. f[i].header = header /\ f[i].keys = tables[i] /\ f[i] = [header |-> f[i].header, keys |-> f[i].keys]
        BY <2>1
  <2> QED BY <2>1, <2>2 DEF TypedSection, TypedKeys
<1>6. TypedFile(f)
      BY <1>4, <1>5 DEF TypedFile
<1> QED BY <1>3, <1>4, <1>6 DEF f

LEMMA WriteNrIs ==
  ASSUME NEW nr, TypedNr(nr), NEW prefix
  PROVE  /\ TypedFile(WriteNr(nr, prefix)) /\ Len(WriteNr(nr, prefix)) = Len(nr.passes) + 1
         /\ WriteNr(nr, prefix)[1] = WriteTable(prefix, Both(nr.frame, nr.base))
         /\ \A i \in 1 .. Len(nr.passes) :
              WriteNr(nr, prefix)[i + 1] = WriteTable(PassHeader(prefix), nr.passes[i])
<1> DEFINE s == WriteTable(prefix, Both(nr.frame, nr.base))
           rest == WriteAll(PassHeader(prefix), nr.passes)
<1>1. TypedSection(s)
  <2>1. TypedTable(nr.frame, nr.frame) /\ TypedTable(nr.base, nr.base)
        BY TypedIsKeys DEF TypedNr
  <2> QED BY <2>1, BothTyped, WriteTableIs
<1>2. /\ IsSeq(nr.passes) /\ Len(nr.passes) \in Nat
      /\ \A i \in DOMAIN nr.passes : TypedTable(nr.passes[i], nr.passes[i])
      BY SeqHas, TypedIsKeys DEF TypedNr
<1>3. /\ TypedFile(rest) /\ Len(rest) = Len(nr.passes)
      /\ \A i \in 1 .. Len(nr.passes) : rest[i] = WriteTable(PassHeader(prefix), nr.passes[i])
      BY <1>2, WriteAllIs
<1>4. WriteNr(nr, prefix) = <<s>> \o rest
      BY Zenon DEF WriteNr
<1> HIDE DEF s, rest
<1> DEFINE one == <<s>>
<1>5. TypedFile(one) /\ Len(one) = 1 /\ one[1] = s
      BY <1>1, OneSection
<1> HIDE DEF one
<1>6. TypedFile(one \o rest)
      BY <1>3, <1>5, JoinedFile
<1>7. /\ Len(one \o rest) = 1 + Len(rest)
      /\ \A i \in 1 .. Len(one) : (one \o rest)[i] = one[i]
      /\ \A i \in 1 .. Len(rest) : (one \o rest)[1 + i] = rest[i]
  <2>1. IsSeq(one) /\ IsSeq(rest)
        BY <1>3, <1>5 DEF TypedFile
  <2>2. /\ Len(one \o rest) = Len(one) + Len(rest)
        /\ \A i \in 1 .. Len(one) : (one \o rest)[i] = one[i]
        /\ \A i \in 1 .. Len(rest) : (one \o rest)[Len(one) + i] = rest[i]
        BY <2>1, JoinedSeq
  <2> DEFINE f == one \o rest
  <2> HIDE DEF f
  <2> QED BY <1>5, <2>2 DEF f
<1>8. WriteNr(nr, prefix) = one \o rest
      BY <1>4 DEF one
<1>9. (one \o rest)[1] = s
      BY <1>5, <1>7
<1>10. \A i \in 1 .. Len(nr.passes) : (one \o rest)[i + 1] = rest[i]
       BY <1>2, <1>3, <1>7
<1> QED BY <1>2, <1>3, <1>6, <1>7, <1>8, <1>9, <1>10 DEF s

\* The file of a configuration that can be written.
FileOf(c) ==
  <<WriteTable("top", c.top), WriteTable("app", c.app)>> \o WriteNr(c.nr, "nr")
  \o WriteStrings("app_look", c.looks) \o WriteStrings("ui_mask", c.rects)

LEMMA TwoSections ==
  ASSUME NEW s, NEW u, TypedSection(s), TypedSection(u)
  PROVE  TypedFile(<<s, u>>) /\ Len(<<s, u>>) = 2 /\ <<s, u>>[1] = s /\ <<s, u>>[2] = u
<1> DEFINE f == <<s, u>>
<1>1. f \in Seq({s, u}) /\ Len(f) = 2 /\ f[1] = s /\ f[2] = u
      OBVIOUS
<1> HIDE DEF f
<1>2. IsSeq(f) /\ \A i \in DOMAIN f : f[i] \in {s, u}
      BY <1>1, SeqIs
<1>3. TypedFile(f)
      BY <1>2 DEF TypedFile
<1> QED BY <1>1, <1>3 DEF f

LEMMA RectsWritten ==
  ASSUME NEW rects, TypedRects(rects)
  PROVE  IsSeq(rects) /\ \A i \in DOMAIN rects : TypedKeys(rects[i])
<1>1. ASSUME NEW i \in DOMAIN rects PROVE TypedKeys(rects[i])
  <2> DEFINE r == rects[i]
  <2>1. /\ r = [e \in DOMAIN NoRect |-> r[e]]
        /\ \A e \in DOMAIN NoRect : r[e] \in Int
        BY DEF TypedRects
  <2> HIDE DEF r
  <2>2. DOMAIN r = DOMAIN NoRect
        BY <2>1, Zenon
  <2>3. TypedKeys(r)
        BY <2>1, <2>2 DEF TypedKeys, IsTyped
  <2> QED BY <2>3 DEF r
<1> QED BY <1>1 DEF TypedRects

LEMMA FileIsTyped ==
  ASSUME NEW c, TypedConfig(c)
  PROVE  /\ TypedFile(<<WriteTable("top", c.top), WriteTable("app", c.app)>>)
         /\ TypedFile(WriteNr(c.nr, "nr")) /\ TypedFile(WriteStrings("app_look", c.looks))
         /\ TypedFile(WriteStrings("ui_mask", c.rects))
         /\ TypedFile(FileOf(c))
<1> DEFINE a == <<WriteTable("top", c.top), WriteTable("app", c.app)>>
           b == WriteNr(c.nr, "nr")
           d == WriteStrings("app_look", c.looks)
           e == WriteStrings("ui_mask", c.rects)
<1>1. TypedFile(a)
  <2>1. TypedTable(c.top, c.top) /\ TypedTable(c.app, c.app)
        BY TypedIsKeys DEF TypedConfig, TypedTop
  <2>2. TypedSection(WriteTable("top", c.top)) /\ TypedSection(WriteTable("app", c.app))
        BY <2>1, WriteTableIs
  <2> QED BY <2>2, TwoSections
<1>2. TypedFile(b)
      BY WriteNrIs DEF TypedConfig
<1>3. TypedFile(d)
  <2>1. IsSeq(c.looks)
        BY DEF TypedConfig, TypedLooks
  <2> QED BY <2>1, WriteStringsIs
<1>4. TypedFile(e)
  <2>1. IsSeq(c.rects) /\ \A i \in DOMAIN c.rects : TypedKeys(c.rects[i])
        BY RectsWritten DEF TypedConfig
  <2> QED BY <2>1, WriteStringsIs
<1>5. FileOf(c) = a \o b \o d \o e
      BY Zenon DEF FileOf
<1> HIDE DEF a, b, d, e
<1>6. TypedFile(a \o b \o d \o e)
  <2>1. TypedFile(a \o b)
        BY <1>1, <1>2, JoinedFile
  <2>2. TypedFile((a \o b) \o d)
        BY <1>3, <2>1, JoinedFile
  <2> QED BY <1>4, <2>2, JoinedFile
<1> QED BY <1>1, <1>2, <1>3, <1>4, <1>5, <1>6 DEF a, b, d, e

LEMMA SerializeIs ==
  ASSUME NEW c, TypedConfig(c)
  PROVE  /\ SerializeConfig(c) \in {Unreadable, FileOf(c)}
         /\ SerializeConfig(c) # Unreadable => SerializeConfig(c) = FileOf(c) /\ TypedFile(SerializeConfig(c))
<1>1. SerializeConfig(c) \in {Unreadable, FileOf(c)}
  <2> DEFINE b == Writable({c.top.active_preset} \cup {c.app[k] : k \in DOMAIN c.app}
                    \cup UNION {{l.window_class, l.preset} : l \in ToSet(c.looks)}, c.top.neural_pass)
  <2>1. SerializeConfig(c) = IF ~ b THEN Unreadable ELSE FileOf(c)
        BY Zenon DEF SerializeConfig, FileOf
  <2> HIDE DEF b
  <2> QED BY <2>1
<1> QED BY <1>1, FileIsTyped

\* What FlattenSeq builds, one file at a time.
Flattens(f, files, n) ==
  f = [i \in 1 .. n |-> IF i = 1 THEN files[i] ELSE f[i - 1] \o files[i]]
Flat(files) == CHOOSE f : Flattens(f, files, Len(files))

LEMMA FlatExists ==
  ASSUME NEW files, NEW k \in Nat
  PROVE  \E f : Flattens(f, files, k)
<1> DEFINE I == {n \in Nat : \E f : Flattens(f, files, n)}
<1>1. 0 \in I
  <2> DEFINE f == [i \in 1 .. 0 |-> <<>>]
  <2>1. \A i \in 1 .. 0 : FALSE
        OBVIOUS
  <2>2. Flattens(f, files, 0)
        BY <2>1, Zenon DEF Flattens
  <2> QED BY <2>2
<1>2. ASSUME NEW n \in Nat, n \in I PROVE n + 1 \in I
  <2>1. PICK f : Flattens(f, files, n)
        BY <1>2
  <2> DEFINE latest == IF n = 0 THEN files[1] ELSE f[n] \o files[n + 1]
             h == [i \in 1 .. (n + 1) |-> IF i = n + 1 THEN latest ELSE f[i]]
  <2>2. ASSUME NEW i \in 1 .. (n + 1)
        PROVE  h[i] = IF i = 1 THEN files[i] ELSE h[i - 1] \o files[i]
    <3>1. CASE i = n + 1 /\ n = 0
          BY <3>1
    <3>2. CASE i = n + 1 /\ n # 0
      <4>1. i - 1 = n /\ n \in 1 .. (n + 1) /\ n # n + 1 /\ i # 1
            BY <3>2
      <4>2. h[i - 1] = f[n] /\ h[i] = latest
            BY <3>2, <4>1
      <4>3. latest = f[n] \o files[n + 1]
            BY <3>2
      <4> HIDE DEF h, latest
      <4> QED BY <3>2, <4>1, <4>2, <4>3
    <3>3. CASE i # n + 1
      <4>1. i \in 1 .. n
            BY <3>3
      <4>2. f[i] = IF i = 1 THEN files[i] ELSE f[i - 1] \o files[i]
            BY <2>1, <4>1 DEF Flattens
      <4>3. h[i] = f[i]
            BY <3>3
      <4>4. i # 1 => h[i - 1] = f[i - 1]
            BY <4>1
      <4> HIDE DEF h
      <4> QED BY <4>2, <4>3, <4>4
    <3> QED BY <3>1, <3>2, <3>3
  <2>3. h = [i \in 1 .. (n + 1) |-> h[i]]
        OBVIOUS
  <2> HIDE DEF h
  <2>4. Flattens(h, files, n + 1)
        BY <2>2, <2>3, Zenon DEF Flattens
  <2> QED BY <2>4
<1> HIDE DEF I
<1>3. k \in I
      BY <1>1, <1>2, Induction
<1> QED BY <1>3 DEF I

LEMMA FlattenIsFlat ==
  \A files : FlattenSeq(files) = IF Len(files) = 0 THEN files ELSE Flat(files)[Len(files)]
BY Zenon DEF FlattenSeq, Flat, Flattens

\* The files, one behind the other.
LEMMA FlattenSteps ==
  ASSUME NEW files, IsSeq(files), Len(files) # 0
  PROVE  \E r : /\ r[1] = files[1]
                /\ \A i \in 2 .. Len(files) : r[i] = r[i - 1] \o files[i]
                /\ FlattenSeq(files) = r[Len(files)]
<1> DEFINE n == Len(files)
           r == Flat(files)
<1>1. n \in Nat /\ n # 0
      BY SeqHas
<1>2. Flattens(r, files, n)
      BY <1>1, FlatExists, Zenon DEF Flat
<1>3. FlattenSeq(files) = r[n]
      BY <1>1, FlattenIsFlat
<1> HIDE DEF r, n
<1>4. \A i \in 1 .. n : r[i] = IF i = 1 THEN files[i] ELSE r[i - 1] \o files[i]
      BY <1>2 DEF Flattens
<1>5. r[1] = files[1]
      BY <1>1, <1>4
<1>6. ASSUME NEW i \in 2 .. n PROVE r[i] = r[i - 1] \o files[i]
  <2>1. i \in 1 .. n /\ i # 1
        BY <1>1
  <2> QED BY <1>4, <2>1
<1> QED BY <1>3, <1>5, <1>6 DEF n

LEMMA FlattenTyped ==
  ASSUME NEW files, IsSeq(files), \A i \in DOMAIN files : TypedFile(files[i])
  PROVE  TypedFile(FlattenSeq(files))
<1> DEFINE n == Len(files)
<1>1. n \in Nat /\ DOMAIN files = 1 .. n
      BY SeqHas
<1>2. CASE n = 0
  <2>1. FlattenSeq(files) = files
        BY <1>2, FlattenIsFlat
  <2>2. TypedFile(files)
        BY <1>1, <1>2 DEF TypedFile
  <2> QED BY <2>1, <2>2
<1>3. CASE n # 0
  <2>1. PICK r : /\ r[1] = files[1]
                 /\ \A i \in 2 .. n : r[i] = r[i - 1] \o files[i]
                 /\ FlattenSeq(files) = r[n]
        BY <1>3, FlattenSteps
  <2> HIDE DEF n
  <2> DEFINE I == {i \in Nat : i + 1 <= n => TypedFile(r[i + 1])}
  <2>2. 0 \in I
        BY <1>1, <1>3, <2>1
  <2>3. ASSUME NEW i \in Nat, i \in I PROVE i + 1 \in I
    <3> SUFFICES ASSUME (i + 1) + 1 <= n PROVE TypedFile(r[(i + 1) + 1])
        OBVIOUS
    <3>1. /\ (i + 1) + 1 \in 2 .. n /\ ((i + 1) + 1) - 1 = i + 1 /\ (i + 1) + 1 \in 1 .. n
          /\ TypedFile(r[i + 1])
          BY <1>1, <2>3
    <3>2. r[(i + 1) + 1] = r[i + 1] \o files[(i + 1) + 1]
          BY <2>1, <3>1
    <3>3. TypedFile(files[(i + 1) + 1])
          BY <1>1, <3>1
    <3> QED BY <3>1, <3>2, <3>3, JoinedFile
  <2> HIDE DEF I
  <2>4. n - 1 \in Nat /\ (n - 1) + 1 = n
        BY <1>1, <1>3
  <2>5. n - 1 \in I
        BY <2>2, <2>3, <2>4, Induction
  <2>6. TypedFile(r[n])
        BY <2>4, <2>5 DEF I
  <2> QED BY <2>1, <2>6
<1> QED BY <1>2, <1>3

LEMMA WritePresetIs ==
  ASSUME NEW p, TypedPreset(p)
  PROVE  /\ TypedFile(WritePreset(p)) /\ Len(WritePreset(p)) = Len(p.nr.passes) + 2
         /\ WritePreset(p)[1] = WriteTable("preset", Both([name |-> p.name], p.top))
         /\ WritePreset(p) = <<WriteTable("preset", Both([name |-> p.name], p.top))>>
                             \o WriteNr(p.nr, "preset.nr")
<1> DEFINE name == [name |-> p.name]
           s == WriteTable("preset", Both(name, p.top))
           b == WriteNr(p.nr, "preset.nr")
           one == <<s>>
<1>1. TypedTable(name, name)
  <2>1. DOMAIN name = {"name"} /\ name = [k \in DOMAIN name |-> name[k]]
        /\ name["name"] = p.name
        OBVIOUS
  <2>2. "name" \notin Floats \cup Ints \cup DOMAIN NoRect
        BY Ranges
  <2> HIDE DEF name
  <2>3. \A k \in DOMAIN name : name[k] # Wrong /\ IsTyped(k, name[k])
        BY <2>1, <2>2 DEF TypedPreset, IsTyped
  <2> QED BY <2>1, <2>3, Zenon DEF TypedTable
<1>2. TypedTable(p.top, p.top) /\ TypedNr(p.nr)
      BY TypedIsKeys DEF TypedPreset, TypedTop
<1> HIDE DEF name
<1>3. TypedSection(s)
      BY <1>1, <1>2, BothTyped, WriteTableIs
<1>4. TypedFile(b) /\ Len(b) = Len(p.nr.passes) + 1
      BY <1>2, WriteNrIs
<1>5. WritePreset(p) = one \o b
      BY Zenon DEF WritePreset, name
<1> HIDE DEF s, b
<1>6. TypedFile(one) /\ Len(one) = 1 /\ one[1] = s
      BY <1>3, OneSection
<1> HIDE DEF one
<1>7. TypedFile(one \o b)
      BY <1>4, <1>6, JoinedFile
<1>8. Len(one \o b) = 1 + Len(b) /\ (one \o b)[1] = s
  <2>1. IsSeq(one) /\ IsSeq(b)
        BY <1>4, <1>6 DEF TypedFile
  <2>2. Len(one \o b) = Len(one) + Len(b) /\ \A i \in 1 .. Len(one) : (one \o b)[i] = one[i]
        BY <2>1, JoinedSeq
  <2> QED BY <1>6, <2>2
<1>9. Len(p.nr.passes) \in Nat
      BY <1>2, SeqHas DEF TypedNr
<1> QED BY <1>4, <1>5, <1>7, <1>8, <1>9 DEF s, b, one, name

TypedPresets(all) == IsSeq(all) /\ \A i \in DOMAIN all : TypedPreset(all[i])
\* The file of presets that can be written.
PresetFiles(all) == [i \in DOMAIN all |-> IF all[i].builtin THEN <<>> ELSE WritePreset(all[i])]

LEMMA PresetsWritten ==
  ASSUME NEW all, TypedPresets(all)
  PROVE  /\ SerializePresets(all) \in {Unreadable, FlattenSeq(PresetFiles(all))}
         /\ IsSeq(PresetFiles(all)) /\ Len(PresetFiles(all)) = Len(all)
         /\ \A i \in DOMAIN all : /\ TypedFile(PresetFiles(all)[i])
                                  /\ PresetFiles(all)[i] = IF all[i].builtin THEN <<>> ELSE WritePreset(all[i])
         /\ TypedFile(FlattenSeq(PresetFiles(all)))
<1> DEFINE files == PresetFiles(all)
           b == \E p \in ToSet(all) : ~ p.builtin /\ ~ Writable({p.name}, p.top.neural_pass)
<1>1. SerializePresets(all) = IF b THEN Unreadable ELSE FlattenSeq(files)
      BY Zenon DEF SerializePresets, PresetFiles
<1> HIDE DEF b
<1>2. SerializePresets(all) \in {Unreadable, FlattenSeq(files)}
      BY <1>1
<1>3. Len(all) \in Nat /\ DOMAIN all = 1 .. Len(all)
      BY SeqHas DEF TypedPresets
<1>4. /\ files = [i \in 1 .. Len(all) |-> files[i]]
      /\ \A i \in DOMAIN all : files[i] = IF all[i].builtin THEN <<>> ELSE WritePreset(all[i])
      BY <1>3 DEF PresetFiles
<1> HIDE DEF files
<1>5. IsSeq(files) /\ Len(files) = Len(all) /\ DOMAIN files = 1 .. Len(all)
      BY <1>3, <1>4, BuiltSeq
<1>6. TypedFile(<<>>)
  <2> DEFINE none == <<>>
  <2>1. none \in Seq({}) /\ DOMAIN none = {}
        OBVIOUS
  <2> HIDE DEF none
  <2>2. IsSeq(none)
        BY <2>1, SeqIs
  <2>3. TypedFile(none)
        BY <2>1, <2>2 DEF TypedFile
  <2> QED BY <2>3 DEF none
<1>7. ASSUME NEW i \in DOMAIN all PROVE TypedFile(files[i])
  <2>1. TypedFile(WritePreset(all[i]))
        BY WritePresetIs DEF TypedPresets
  <2> QED BY <1>4, <1>6, <2>1
<1>8. TypedFile(FlattenSeq(files))
      BY <1>3, <1>5, <1>7, FlattenTyped
<1> QED BY <1>2, <1>4, <1>5, <1>7, <1>8 DEF files
-------------------------------------------------------------------------------
(* What the manager does to a configuration.                                *)

LEMMA NotWrong ==
  /\ \A n \in Int : n # Wrong
  /\ \A v \in BOOLEAN : v # Wrong
  /\ \A s \in Strings : s # Wrong
  /\ NaN # Wrong
BY CodecAssumption

LEMMA OrIsBoolean == \A a, b : (a \/ b) \in BOOLEAN
BY Zenon

LEMMA NotIsBoolean == \A a : (~ a) \in BOOLEAN
BY Zenon

LEMMA FramedNr ==
  ASSUME NEW nr, TypedNr(nr), NEW frame, TypedTable(frame, BaseFrame)
  PROVE  TypedNr([nr EXCEPT !.frame = frame])
<1> DEFINE n == [nr EXCEPT !.frame = frame]
<1>1. nr = [base |-> nr.base, frame |-> nr.frame, passes |-> nr.passes]
      BY DEF TypedNr
<1>2. /\ n = [base |-> n.base, frame |-> n.frame, passes |-> n.passes]
      /\ n.base = nr.base /\ n.frame = frame /\ n.passes = nr.passes
      BY <1>1
<1> HIDE DEF n
<1>3. TypedNr(n)
      BY <1>2 DEF TypedNr
<1> QED BY <1>3 DEF n

\* The frame's tick is another one, and the rest is as it was.
Ticked(nr, tick) == [nr EXCEPT !.frame.per_pass_tuning = tick]

LEMMA TickedIs ==
  ASSUME NEW nr, TypedNr(nr), NEW tick \in BOOLEAN
  PROVE  /\ TypedNr(Ticked(nr, tick))
         /\ Ticked(nr, tick).base = nr.base /\ Ticked(nr, tick).passes = nr.passes
         /\ Ticked(nr, tick).frame = [nr.frame EXCEPT !["per_pass_tuning"] = tick]
<1> DEFINE frame == [nr.frame EXCEPT !["per_pass_tuning"] = tick]
<1>1. TypedTable(frame, BaseFrame)
  <2>1. "per_pass_tuning" \in DOMAIN BaseFrame
        BY SMT DEF BaseFrame
  <2>2. "per_pass_tuning" \notin Floats \cup Ints \cup DOMAIN NoRect
        BY Ranges
  <2>3. tick # Wrong /\ IsTyped("per_pass_tuning", tick)
        BY <2>2, NotWrong DEF IsTyped
  <2> QED BY <2>1, <2>3, ChangedTable DEF TypedNr
<1>2. nr = [base |-> nr.base, frame |-> nr.frame, passes |-> nr.passes]
      BY DEF TypedNr
<1>3. Ticked(nr, tick) = [nr EXCEPT !.frame = frame]
      BY <1>2 DEF Ticked
<1>4. TypedNr(Ticked(nr, tick))
      BY <1>1, <1>3, FramedNr
<1> HIDE DEF frame
<1>5. /\ [nr EXCEPT !.frame = frame].base = nr.base
      /\ [nr EXCEPT !.frame = frame].passes = nr.passes
      /\ [nr EXCEPT !.frame = frame].frame = frame
      BY <1>2
<1> QED BY <1>3, <1>4, <1>5 DEF frame

LEMMA ShownIs ==
  ASSUME NEW nr
  PROVE  \E tick \in BOOLEAN : Shown(nr) = Ticked(nr, tick)
<1> DEFINE b == nr.frame.per_pass_tuning \/ \E i \in DOMAIN nr.passes \ {1} : ~ Same(nr.passes[i], nr.passes[1])
<1>1. b \in BOOLEAN
      BY OrIsBoolean, Zenon
<1>2. Shown(nr) = Ticked(nr, b)
      BY Zenon DEF Shown, Ticked
<1> QED BY <1>1, <1>2, Zenon

LEMMA PropagatedIs ==
  ASSUME NEW nr, TypedNr(nr)
  PROVE  TypedNr(Propagated(nr))
<1> DEFINE n == Len(nr.passes)
           pass == nr.passes[1]
           passes == [i \in 1 .. n |-> pass]
           other == [base |-> pass, frame |-> nr.frame, passes |-> passes]
<1>1. n \in Nat /\ DOMAIN nr.passes = 1 .. n
      BY SeqHas DEF TypedNr
<1>2. nr = [base |-> nr.base, frame |-> nr.frame, passes |-> nr.passes]
      BY DEF TypedNr
<1>3. nr.passes = <<>> \/ nr.passes # <<>>
      OBVIOUS
<1>4. CASE nr.passes = <<>> \/ nr.frame.per_pass_tuning
  <2>1. Propagated(nr) = nr
        BY <1>4, Zenon DEF Propagated
  <2> QED BY <2>1
<1>5. CASE ~ (nr.passes = <<>> \/ nr.frame.per_pass_tuning)
  <2>1. n # 0
    <3>1. nr.passes \in Seq(ToSet(nr.passes))
          BY DEF TypedNr, IsSeq
    <3> QED BY <1>5, <3>1, EmptySeq
  <2>2. TypedTable(pass, BasePass)
    <3>1. 1 \in DOMAIN nr.passes
          BY <1>1, <2>1
    <3> QED BY <3>1 DEF TypedNr
  <2>3. Propagated(nr) = [nr EXCEPT !.base = pass, !.passes = [i \in DOMAIN nr.passes |-> pass]]
    <3>1. Propagated(nr) = [nr EXCEPT !.base = nr.passes[1], !.passes = [i \in DOMAIN @ |-> nr.passes[1]]]
          BY <1>5, Zenon DEF Propagated
    <3> QED BY <3>1
  <2>4. Propagated(nr) = other
    <3>1. Propagated(nr) = [nr EXCEPT !.base = pass, !.passes = passes]
          BY <1>1, <2>3, Zenon
    <3> HIDE DEF pass, passes
    <3>2. [nr EXCEPT !.base = pass, !.passes = passes] = other
      <4> DEFINE m == [nr EXCEPT !.base = pass]
      <4>1. /\ m = [base |-> m.base, frame |-> m.frame, passes |-> m.passes]
            /\ m.base = pass /\ m.frame = nr.frame
            BY <1>2
      <4>2. nr = [k \in DOMAIN nr |-> nr[k]]
            BY <1>2
      <4>3. [nr EXCEPT !.base = pass, !.passes = passes] = [m EXCEPT !.passes = passes]
            BY <4>2, TwoChanges, Zenon
      <4> HIDE DEF m
      <4>4. [m EXCEPT !.passes = passes] = other
            BY <4>1
      <4> QED BY <4>3, <4>4
    <3> QED BY <3>1, <3>2
  <2>5. passes = [i \in 1 .. n |-> passes[i]] /\ \A i \in 1 .. n : passes[i] = pass
        OBVIOUS
  <2> HIDE DEF passes, pass
  <2>6. /\ other = [base |-> other.base, frame |-> other.frame, passes |-> other.passes]
        /\ other.base = pass /\ other.frame = nr.frame /\ other.passes = passes
        OBVIOUS
  <2> HIDE DEF other, n
  <2>7. IsSeq(passes) /\ DOMAIN passes = 1 .. n
        BY <1>1, <2>5, BuiltSeq
  <2>8. TypedNr(other)
        BY <2>2, <2>5, <2>6, <2>7 DEF TypedNr
  <2> QED BY <2>4, <2>8
<1> QED BY <1>4, <1>5

LEMMA DrawnIs ==
  ASSUME NEW nr, TypedNr(nr)
  PROVE  TypedNr(Shown(nr)) /\ Shown(nr).passes = nr.passes /\ TypedNr(Drawn(nr))
<1>1. PICK tick \in BOOLEAN : Shown(nr) = Ticked(nr, tick)
      BY ShownIs
<1>2. TypedNr(Shown(nr)) /\ Shown(nr).passes = nr.passes
      BY <1>1, TickedIs
<1> QED BY <1>2, PropagatedIs DEF Drawn

LEMMA TunedIs ==
  ASSUME NEW nr, TypedNr(nr), NEW i \in DOMAIN Effective(nr), NEW k \in DOMAIN BasePass,
         NEW v, v # Wrong, IsTyped(k, v)
  PROVE  TypedNr(Tuned(nr, i, k, v))
<1> DEFINE s == Shown(nr)
<1>1. TypedNr(s) /\ s.passes = nr.passes
      BY DrawnIs
<1>2. s = [base |-> s.base, frame |-> s.frame, passes |-> s.passes]
      BY <1>1 DEF TypedNr
<1>3. Tuned(nr, i, k, v) = IF s.passes = <<>> THEN [s EXCEPT !.base[k] = v]
                           ELSE Propagated([s EXCEPT !.passes[i][k] = v])
      BY Zenon DEF Tuned
<1> HIDE DEF s
<1>4. CASE s.passes = <<>>
  <2> DEFINE base == [s.base EXCEPT ![k] = v]
             n == [s EXCEPT !.base = base]
  <2>1. TypedTable(base, BasePass)
        BY <1>1, ChangedTable DEF TypedNr
  <2>2. [s EXCEPT !.base[k] = v] = n
        BY <1>2
  <2> HIDE DEF base
  <2>3. /\ n = [base |-> n.base, frame |-> n.frame, passes |-> n.passes]
        /\ n.base = base /\ n.frame = s.frame /\ n.passes = s.passes
        BY <1>2
  <2> HIDE DEF n
  <2>4. TypedNr(n)
        BY <1>1, <2>1, <2>3 DEF TypedNr
  <2> QED BY <1>3, <1>4, <2>2, <2>4
<1>5. CASE s.passes # <<>>
  <2>1. i \in DOMAIN s.passes
        BY <1>1, <1>5 DEF Effective
  <2> DEFINE pass == [s.passes[i] EXCEPT ![k] = v]
             passes == [s.passes EXCEPT ![i] = pass]
             n == [s EXCEPT !.passes = passes]
  <2>2. TypedTable(pass, BasePass)
        BY <1>1, <2>1, ChangedTable DEF TypedNr
  <2>3. [s EXCEPT !.passes[i][k] = v] = n
        BY <1>2
  <2> HIDE DEF pass
  <2>4. /\ DOMAIN passes = DOMAIN s.passes /\ passes = [j \in DOMAIN passes |-> passes[j]]
        /\ passes[i] = pass /\ \A j \in DOMAIN s.passes : j # i => passes[j] = s.passes[j]
        BY <2>1
  <2> HIDE DEF passes
  <2>5. DOMAIN s.passes = 1 .. Len(s.passes) /\ Len(s.passes) \in Nat
        BY <1>1, SeqHas DEF TypedNr
  <2>6. IsSeq(passes)
    <3>1. passes = [j \in 1 .. Len(s.passes) |-> passes[j]]
          BY <2>4, <2>5, Zenon
    <3> QED BY <2>5, <3>1, BuiltSeq
  <2>7. /\ n = [base |-> n.base, frame |-> n.frame, passes |-> n.passes]
        /\ n.base = s.base /\ n.frame = s.frame /\ n.passes = passes
        BY <1>2
  <2> HIDE DEF n
  <2>8. TypedNr(n)
        BY <1>1, <2>2, <2>4, <2>6, <2>7 DEF TypedNr
  <2>9. TypedNr(Propagated(n))
        BY <2>8, PropagatedIs
  <2> QED BY <1>3, <1>5, <2>3, <2>9
<1> QED BY <1>4, <1>5

\* A configuration with another part.
LEMMA OtherNr ==
  ASSUME NEW c, TypedConfig(c), NEW nr, TypedNr(nr)
  PROVE  TypedConfig([c EXCEPT !.nr = nr])
<1> DEFINE d == [c EXCEPT !.nr = nr]
<1>1. c = [top |-> c.top, app |-> c.app, nr |-> c.nr, looks |-> c.looks, rects |-> c.rects]
      BY DEF TypedConfig
<1>2. /\ d = [top |-> d.top, app |-> d.app, nr |-> d.nr, looks |-> d.looks, rects |-> d.rects]
      /\ d.top = c.top /\ d.app = c.app /\ d.nr = nr /\ d.looks = c.looks /\ d.rects = c.rects
      BY <1>1
<1> HIDE DEF d
<1>3. TypedConfig(d)
      BY <1>2 DEF TypedConfig
<1> QED BY <1>3 DEF d

LEMMA OtherTop ==
  ASSUME NEW c, TypedConfig(c), NEW top, TypedTop(top, BaseTop),
         top.depth_mode = c.top.depth_mode
  PROVE  /\ TypedConfig([c EXCEPT !.top = top])
         /\ [c EXCEPT !.top = top].app = c.app
<1> DEFINE d == [c EXCEPT !.top = top]
<1>1. c = [top |-> c.top, app |-> c.app, nr |-> c.nr, looks |-> c.looks, rects |-> c.rects]
      BY DEF TypedConfig
<1>2. /\ d = [top |-> d.top, app |-> d.app, nr |-> d.nr, looks |-> d.looks, rects |-> d.rects]
      /\ d.top = top /\ d.app = c.app /\ d.nr = c.nr /\ d.looks = c.looks /\ d.rects = c.rects
      BY <1>1
<1> HIDE DEF d
<1>3. TypedConfig(d)
      BY <1>2 DEF TypedConfig
<1> QED BY <1>2, <1>3 DEF d

LEMMA OtherApp ==
  ASSUME NEW c, TypedConfig(c), NEW app, TypedTable(app, NoApp)
  PROVE  TypedConfig([c EXCEPT !.app = app])
<1> DEFINE d == [c EXCEPT !.app = app]
<1>1. c = [top |-> c.top, app |-> c.app, nr |-> c.nr, looks |-> c.looks, rects |-> c.rects]
      BY DEF TypedConfig
<1>2. /\ d = [top |-> d.top, app |-> d.app, nr |-> d.nr, looks |-> d.looks, rects |-> d.rects]
      /\ d.top = c.top /\ d.app = app /\ d.nr = c.nr /\ d.looks = c.looks /\ d.rects = c.rects
      BY <1>1
<1> HIDE DEF d
<1>3. TypedConfig(d)
      BY <1>2 DEF TypedConfig
<1> QED BY <1>3 DEF d

LEMMA OtherLooks ==
  ASSUME NEW c, TypedConfig(c), NEW looks, TypedLooks(looks)
  PROVE  TypedConfig([c EXCEPT !.looks = looks])
<1> DEFINE d == [c EXCEPT !.looks = looks]
<1>1. c = [top |-> c.top, app |-> c.app, nr |-> c.nr, looks |-> c.looks, rects |-> c.rects]
      BY DEF TypedConfig
<1>2. /\ d = [top |-> d.top, app |-> d.app, nr |-> d.nr, looks |-> d.looks, rects |-> d.rects]
      /\ d.top = c.top /\ d.app = c.app /\ d.nr = c.nr /\ d.looks = looks /\ d.rects = c.rects
      BY <1>1
<1> HIDE DEF d
<1>3. TypedConfig(d)
      BY <1>2 DEF TypedConfig
<1> QED BY <1>3 DEF d

\* One of the keys of the first table that has no range, and is not the pass.
LEMMA ChangedTop ==
  ASSUME NEW t, TypedTop(t, BaseTop),
         NEW k \in {"active_preset", "advanced_tuning"}, NEW v, v # Wrong
  PROVE  /\ TypedTop([t EXCEPT ![k] = v], BaseTop)
         /\ [t EXCEPT ![k] = v].depth_mode = t.depth_mode
<1>1. k \in DOMAIN BaseTop /\ {"neural_pass", "depth_mode"} \subseteq DOMAIN BaseTop
      BY SMT DEF BaseTop
<1>2. k \notin Floats \cup Ints \cup DOMAIN NoRect
      BY Ranges
<1>3. IsTyped(k, v)
      BY <1>2 DEF IsTyped
<1>4. TypedTable(t, BaseTop) /\ DOMAIN t = DOMAIN BaseTop
      BY TypedIsKeys DEF TypedTop
<1>5. TypedTable([t EXCEPT ![k] = v], BaseTop)
      BY <1>1, <1>3, <1>4, ChangedTable
<1>6. /\ [t EXCEPT ![k] = v].depth_mode = t.depth_mode
      /\ [t EXCEPT ![k] = v].neural_pass = t.neural_pass
      BY <1>1, <1>4
<1> QED BY <1>5, <1>6 DEF TypedTop

LEMMA PresetOfIs ==
  ASSUME NEW c, TypedConfig(c), NEW name, name # Wrong
  PROVE  TypedPreset(PresetOf(name, c))
<1> DEFINE top == [k \in DOMAIN LookTop |-> c.top[k]]
           p == PresetOf(name, c)
<1>1. p = [name |-> name, builtin |-> FALSE, top |-> top, nr |-> c.nr]
      BY Zenon DEF PresetOf
<1>2. TypedTop(top, LookTop)
  <2>1. DOMAIN LookTop \subseteq DOMAIN BaseTop /\ "neural_pass" \in DOMAIN LookTop
        BY SMT DEF LookTop, BaseTop
  <2>2. top = [k \in DOMAIN LookTop |-> top[k]] /\ \A k \in DOMAIN LookTop : top[k] = c.top[k]
        OBVIOUS
  <2> HIDE DEF top
  <2>3. \A k \in DOMAIN BaseTop : c.top[k] # Wrong /\ IsTyped(k, c.top[k])
        BY DEF TypedConfig, TypedTop, TypedTable
  <2>4. TypedTable(top, LookTop)
        BY <2>1, <2>2, <2>3, Zenon DEF TypedTable
  <2>5. top.neural_pass = c.top.neural_pass
        BY <2>1, <2>2
  <2> QED BY <2>4, <2>5 DEF TypedConfig, TypedTop
<1> HIDE DEF top
<1>3. /\ p = [name |-> p.name, builtin |-> p.builtin, top |-> p.top, nr |-> p.nr]
      /\ p.name = name /\ p.builtin \in BOOLEAN /\ p.top = top /\ p.nr = c.nr
      BY <1>1
<1> HIDE DEF p
<1>4. TypedPreset(p)
      BY <1>2, <1>3 DEF TypedPreset, TypedConfig
<1> QED BY <1>4 DEF p

LEMMA ApplyIs ==
  ASSUME NEW c, TypedConfig(c), NEW p, TypedPreset(p)
  PROVE  TypedConfig(ApplyPreset(p, c))
<1> DEFINE named == [c.top EXCEPT !["active_preset"] = p.name]
           top == Both(p.top, named)
           d == [c EXCEPT !.top = top]
<1>1. TypedTop(named, BaseTop) /\ named.depth_mode = c.top.depth_mode
      BY ChangedTop DEF TypedConfig, TypedPreset
<1>2. TypedTop(p.top, LookTop) /\ TypedNr(p.nr)
      BY DEF TypedPreset
<1>3. c = [top |-> c.top, app |-> c.app, nr |-> c.nr, looks |-> c.looks, rects |-> c.rects]
      BY DEF TypedConfig
<1>4. ApplyPreset(p, c) = [d EXCEPT !.nr = p.nr]
  <2>1. ApplyPreset(p, c) = [c EXCEPT !.top = Both(p.top, [@ EXCEPT !.active_preset = p.name]), !.nr = p.nr]
        BY Zenon DEF ApplyPreset
  <2>2. ApplyPreset(p, c) = [c EXCEPT !.top = top, !.nr = p.nr]
        BY <2>1
  <2> HIDE DEF top
  <2> QED BY <1>3, <2>2
<1> HIDE DEF named
<1>5. TypedTop(top, BaseTop) /\ top.depth_mode = named.depth_mode
  <2>1. DOMAIN LookTop \subseteq DOMAIN BaseTop /\ "neural_pass" \in DOMAIN LookTop
        /\ "depth_mode" \in DOMAIN BaseTop \ DOMAIN LookTop
        BY SMT DEF LookTop, BaseTop
  <2>2. /\ TypedTable(p.top, p.top) /\ DOMAIN p.top = DOMAIN LookTop
        /\ TypedTable(named, named) /\ DOMAIN named = DOMAIN BaseTop
        BY <1>1, <1>2, TypedIsKeys DEF TypedTop
  <2>3. /\ TypedTable(top, top) /\ DOMAIN top = DOMAIN p.top \cup DOMAIN named
        /\ \A k \in DOMAIN p.top : top[k] = p.top[k]
        /\ \A k \in DOMAIN named \ DOMAIN p.top : top[k] = named[k]
        BY <2>2, BothTyped
  <2> HIDE DEF top
  <2>4. DOMAIN top = DOMAIN BaseTop
        BY <2>1, <2>2, <2>3
  <2>5. TypedTable(top, BaseTop)
        BY <2>3, <2>4, Zenon DEF TypedTable
  <2>6. top.neural_pass = p.top.neural_pass /\ top.depth_mode = named.depth_mode
        BY <2>1, <2>2, <2>3
  <2> QED BY <1>2, <2>5, <2>6 DEF TypedTop
<1> HIDE DEF top
<1>6. TypedConfig(d)
      BY <1>1, <1>5, OtherTop
<1> HIDE DEF d
<1>7. TypedConfig([d EXCEPT !.nr = p.nr])
      BY <1>2, <1>6, OtherNr
<1> QED BY <1>4, <1>7
-------------------------------------------------------------------------------
(* The invariant: what the manager holds has the keys it should, each with a *)
(* value of its type, and so has what is in the files, as far as TOML reads  *)
(* them; and a file that was written is the text of what it was written from.*)

Readable(file) == file \notin {None, Unreadable} => TypedFile(file)
Listable(file) == file # Unreadable => TypedFile(file)
CodecInv ==
  /\ TypedConfig(config) /\ TypedPresets(presets)
  /\ Readable(text) /\ Listable(presetText)
  /\ saved # None => TypedConfig(saved) /\ text = SerializeConfig(saved)

LEMMA LoadedIs ==
  ASSUME NEW file, Readable(file)
  PROVE  TypedConfig(Loaded(file))
<1>1. CASE file = None
  <2>1. 1 \in DOMAIN BuiltinPresets
        BY BuiltinsFit, SeqHas DEF GoodPresets
  <2>2. TypedPreset(BuiltinPresets[1])
        BY <2>1, BuiltinsFit DEF GoodPresets
  <2>3. Loaded(file) = ApplyPreset(BuiltinPresets[1], Defaults)
        BY <1>1, Zenon DEF Loaded
  <2> QED BY <2>2, <2>3, DefaultsTyped, ApplyIs
<1>2. CASE file # None
  <2>1. Loaded(file) = ParseConfig(file)
        BY <1>2, Zenon DEF Loaded
  <2> QED BY <1>2, <2>1, ParseIsTyped DEF Readable
<1> QED BY <1>1, <1>2

LEMMA NoFile == TypedFile(<<>>)
<1> DEFINE none == <<>>
<1>1. none \in Seq({}) /\ DOMAIN none = {}
      OBVIOUS
<1> HIDE DEF none
<1>2. TypedFile(none)
      BY <1>1, SeqIs DEF TypedFile
<1> QED BY <1>2 DEF none

LEMMA ListedIs ==
  ASSUME NEW file, Listable(file)
  PROVE  TypedPresets(AllPresets(file))
BY AllPresetsAre DEF Listable, GoodPresets, TypedPresets

LEMMA WrittenIs ==
  /\ \A c : TypedConfig(c) => Readable(SerializeConfig(c))
  /\ \A all : TypedPresets(all) => Listable(SerializePresets(all))
BY SerializeIs, PresetsWritten DEF Readable, Listable

LEMMA InitIsTyped ==
  CodecInit => CodecInv
<1> SUFFICES ASSUME CodecInit PROVE CodecInv
    OBVIOUS
<1>1. Readable(None)
      BY DEF Readable
<1>2. Listable(presetText)
  <2> DEFINE p == PresetOf("plain", Defaults)
  <2>1. TypedPreset(p)
    <3>1. "plain" # Wrong
          BY CodecAssumption
    <3> QED BY <3>1, DefaultsTyped, PresetOfIs
  <2>2. presetText \in {<<>>, SerializePresets(<<p>>)}
        BY DEF CodecInit
  <2> HIDE DEF p
  <2> DEFINE all == <<p>>
  <2>3. all \in Seq({p})
        OBVIOUS
  <2> HIDE DEF all
  <2>4. IsSeq(all) /\ \A i \in DOMAIN all : all[i] \in {p}
        BY <2>3, SeqIs
  <2>5. TypedPresets(all)
        BY <2>1, <2>4 DEF TypedPresets
  <2>6. Listable(SerializePresets(all))
        BY <2>5, WrittenIs
  <2>7. Listable(<<>>)
        BY NoFile DEF Listable
  <2> QED BY <2>2, <2>6, <2>7 DEF all
<1>3. text = None /\ config = Loaded(None) /\ presets = AllPresets(presetText) /\ saved = None
      BY DEF CodecInit
<1>4. TypedConfig(config) /\ TypedPresets(presets)
      BY <1>1, <1>2, <1>3, LoadedIs, ListedIs
<1> QED BY <1>1, <1>2, <1>3, <1>4 DEF CodecInv

\* Steps that change only the configuration, and those that write it.
LEMMA SetIs ==
  ASSUME CodecInv, NEW c, TypedConfig(c), SetConfig(c)
  PROVE  CodecInv'
BY DEF CodecInv, SetConfig

LEMMA WriteIs ==
  ASSUME CodecInv, NEW c, TypedConfig(c), WriteConfig(c)
  PROVE  CodecInv'
<1>1. Readable(SerializeConfig(c))
      BY WrittenIs
<1> QED BY <1>1 DEF CodecInv, WriteConfig

LEMMA DrawTuningIs == ASSUME CodecInv, DrawTuning PROVE CodecInv'
<1> DEFINE c == [config EXCEPT !.nr = Drawn(config.nr)]
<1>1. SetConfig(c)
      BY DEF DrawTuning
<1>2. TypedConfig(c)
  <2>1. TypedConfig(config) /\ TypedNr(config.nr)
        BY DEF CodecInv, TypedConfig
  <2> QED BY <2>1, DrawnIs, OtherNr
<1> HIDE DEF c
<1> QED BY <1>1, <1>2, SetIs

\* The value a slider or a box gives a knob is of its type.
LEMMA KnobIs ==
  ASSUME NEW k, NEW old,
         NEW v \in IF k \in Floats THEN Numbers
                   ELSE IF k \in Ints THEN IntRange[k][1] .. IntRange[k][2] ELSE {~ old},
         k \notin DOMAIN NoRect
  PROVE  v # Wrong /\ IsTyped(k, v)
<1>1. CASE k \in Floats
  <2>1. v \in Numbers /\ k \notin Ints
        BY <1>1, Ranges
  <2>2. v \in Int
        BY <2>1, CodecAssumption
  <2> QED BY <2>1, <2>2, NotWrong DEF IsTyped
<1>2. CASE k \in Ints
  <2>1. k \notin Floats
        BY <1>2, Ranges
  <2>2. v \in IntRange[k][1] .. IntRange[k][2] /\ IntRange[k][1] \in Int /\ IntRange[k][2] \in Int
        BY <1>2, <2>1, Ranges
  <2>3. v \in Int
        BY <2>2
  <2> QED BY <2>1, <2>3, NotWrong DEF IsTyped
<1>3. CASE k \notin Floats \cup Ints
  <2>1. v \in {~ old}
        BY <1>3, Zenon
  <2>2. v \in BOOLEAN
        BY <2>1, NotIsBoolean, Zenon
  <2> QED BY <1>3, <2>2, NotWrong DEF IsTyped
<1> QED BY <1>1, <1>2, <1>3

LEMMA SlidePassIs == ASSUME CodecInv, SlidePass PROVE CodecInv'
<1>1. PICK k \in Touched \cap DOMAIN BasePass, i \in DOMAIN Effective(config.nr) :
        \E v \in IF k \in Floats THEN Numbers
                 ELSE IF k \in Ints THEN IntRange[k][1] .. IntRange[k][2]
                 ELSE {~ Effective(config.nr)[i][k]} :
          SetConfig([config EXCEPT !.nr = Tuned(@, i, k, v)])
      BY Zenon DEF SlidePass
<1>2. PICK v \in IF k \in Floats THEN Numbers
                 ELSE IF k \in Ints THEN IntRange[k][1] .. IntRange[k][2]
                 ELSE {~ Effective(config.nr)[i][k]} :
          SetConfig([config EXCEPT !.nr = Tuned(@, i, k, v)])
      BY <1>1, Zenon
<1> DEFINE nr == Tuned(config.nr, i, k, v)
           c == [config EXCEPT !.nr = nr]
<1>3. SetConfig(c)
      BY <1>2
<1>4. k \in DOMAIN BasePass
      BY <1>1
<1>5. k \notin DOMAIN NoRect
  <2>1. DOMAIN BasePass \cap DOMAIN NoRect = {}
        BY SMT DEF BasePass, NoRect
  <2> QED BY <1>4, <2>1
<1>6. v # Wrong /\ IsTyped(k, v)
  <2> DEFINE old == Effective(config.nr)[i][k]
  <2>1. v \in IF k \in Floats THEN Numbers
              ELSE IF k \in Ints THEN IntRange[k][1] .. IntRange[k][2] ELSE {~ old}
        BY <1>2, Zenon
  <2> HIDE DEF old
  <2> QED BY <1>5, <2>1, KnobIs
<1>7. TypedConfig(config) /\ TypedNr(config.nr)
      BY DEF CodecInv, TypedConfig
<1>8. TypedNr(nr)
      BY <1>4, <1>6, <1>7, TunedIs
<1> HIDE DEF nr
<1>9. TypedConfig(c)
      BY <1>7, <1>8, OtherNr
<1> HIDE DEF c
<1> QED BY <1>3, <1>9, SetIs

LEMMA SlideFrameIs == ASSUME CodecInv, SlideFrame PROVE CodecInv'
<1>1. PICK k \in Touched \cap FrameSliders, v \in Numbers :
        SetConfig([config EXCEPT !.nr = Drawn([@ EXCEPT !.frame[k] = v])])
      BY Zenon DEF SlideFrame
<1> DEFINE nr == config.nr
           frame == [nr.frame EXCEPT ![k] = v]
           m == [nr EXCEPT !.frame = frame]
           c == [config EXCEPT !.nr = Drawn(m)]
<1>2. TypedConfig(config) /\ TypedNr(nr)
      BY DEF CodecInv, TypedConfig
<1>3. TypedTable(frame, BaseFrame)
  <2>1. k \in FrameSliders /\ FrameSliders \subseteq DOMAIN BaseFrame \cap Floats
        BY <1>1, Ranges, SMT DEF FrameSliders, BaseFrame
  <2>2. k \in DOMAIN BaseFrame /\ k \in Floats
        BY <2>1
  <2>3. k \notin Ints \cup DOMAIN NoRect
        BY <2>2, Ranges
  <2>4. v \in Int
        BY <1>1, CodecAssumption
  <2>5. v # Wrong /\ IsTyped(k, v)
        BY <2>3, <2>4, NotWrong DEF IsTyped
  <2> QED BY <1>2, <2>2, <2>5, ChangedTable DEF TypedNr
<1>4. [nr EXCEPT !.frame[k] = v] = m
  <2>1. nr = [base |-> nr.base, frame |-> nr.frame, passes |-> nr.passes]
        BY <1>2 DEF TypedNr
  <2> HIDE DEF nr
  <2> QED BY <2>1
<1>5. SetConfig(c)
      BY <1>1, <1>4, Zenon
<1> HIDE DEF frame
<1>6. TypedNr(m)
      BY <1>2, <1>3, FramedNr
<1> HIDE DEF m, nr
<1>7. TypedConfig(c)
      BY <1>2, <1>6, DrawnIs, OtherNr
<1> HIDE DEF c
<1> QED BY <1>5, <1>7, SetIs

\* Settings with other passes.
LEMMA PassesNr ==
  ASSUME NEW nr, TypedNr(nr), NEW passes, IsSeq(passes),
         \A i \in DOMAIN passes : TypedTable(passes[i], BasePass)
  PROVE  TypedNr([nr EXCEPT !.passes = passes])
<1> DEFINE n == [nr EXCEPT !.passes = passes]
<1>1. nr = [base |-> nr.base, frame |-> nr.frame, passes |-> nr.passes]
      BY DEF TypedNr
<1>2. /\ n = [base |-> n.base, frame |-> n.frame, passes |-> n.passes]
      /\ n.base = nr.base /\ n.frame = nr.frame /\ n.passes = passes
      BY <1>1
<1> HIDE DEF n
<1>3. TypedNr(n)
      BY <1>2 DEF TypedNr
<1> QED BY <1>3 DEF n

LEMMA EffectiveIs ==
  ASSUME NEW nr, TypedNr(nr)
  PROVE  /\ IsSeq(Effective(nr)) /\ Len(Effective(nr)) \in Nat \ {0}
         /\ DOMAIN Effective(nr) = 1 .. Len(Effective(nr))
         /\ \A i \in DOMAIN Effective(nr) : TypedTable(Effective(nr)[i], BasePass)
<1> DEFINE one == <<nr.base>>
<1>1. one \in Seq({nr.base}) /\ Len(one) = 1
      OBVIOUS
<1>2. Effective(nr) = IF nr.passes = <<>> THEN one ELSE nr.passes
      BY DEF Effective
<1> HIDE DEF one
<1>3. IsSeq(one) /\ \A i \in DOMAIN one : one[i] \in {nr.base}
      BY <1>1, SeqIs
<1>4. \A i \in DOMAIN one : TypedTable(one[i], BasePass)
      BY <1>3 DEF TypedNr
<1>5. DOMAIN one = 1 .. 1
      BY <1>1, <1>3, SeqHas
<1>6. CASE nr.passes = <<>>
  <2>1. Effective(nr) = one
        BY <1>2, <1>6
  <2>2. Len(one) \in Nat \ {0} /\ DOMAIN one = 1 .. Len(one) /\ IsSeq(one)
        BY <1>1, <1>3, <1>5
  <2> QED BY <1>4, <2>1, <2>2, Zenon
<1>7. CASE nr.passes # <<>>
  <2>1. Effective(nr) = nr.passes
        BY <1>2, <1>7
  <2>2. Len(nr.passes) \in Nat /\ DOMAIN nr.passes = 1 .. Len(nr.passes)
        BY SeqHas DEF TypedNr
  <2>3. Len(nr.passes) # 0
    <3>1. nr.passes \in Seq(ToSet(nr.passes))
          BY DEF TypedNr, IsSeq
    <3> QED BY <1>7, <3>1, EmptySeq
  <2> QED BY <2>1, <2>2, <2>3 DEF TypedNr
<1> QED BY <1>6, <1>7

LEMMA SlidePassesIs == ASSUME CodecInv, SlidePasses PROVE CodecInv'
<1> DEFINE nr == config.nr
           effective == Effective(nr)
           len == Len(effective)
           built(n) == [i \in 1 .. n |-> effective[IF i \in DOMAIN effective THEN i ELSE len]]
           fewer == [nr EXCEPT !.base = effective[1], !.passes = <<>>]
           more(n) == [nr EXCEPT !.passes = built(n)]
<1>1. PICK n \in 1 .. MaxPassCount :
        SetConfig([config EXCEPT !.nr = Drawn(IF n = 1 THEN fewer ELSE more(n))])
      BY DEF SlidePasses
<1>2. TypedConfig(config) /\ TypedNr(nr)
      BY DEF CodecInv, TypedConfig
<1>3. /\ len \in Nat \ {0} /\ DOMAIN effective = 1 .. len
      /\ \A i \in DOMAIN effective : TypedTable(effective[i], BasePass)
      BY <1>2, EffectiveIs
<1>4. n \in Nat
      BY <1>1, CodecAssumption
<1>5. TypedNr(fewer)
  <2> DEFINE base == effective[1]
             none == <<>>
             m == [nr EXCEPT !.base = base]
  <2>1. TypedTable(base, BasePass)
        BY <1>3
  <2>2. nr = [base |-> nr.base, frame |-> nr.frame, passes |-> nr.passes]
        /\ nr = [k \in DOMAIN nr |-> nr[k]]
        BY <1>2 DEF TypedNr
  <2>3. none \in Seq({}) /\ DOMAIN none = {}
        OBVIOUS
  <2> HIDE DEF none, base, effective, nr
  <2>4. fewer = [m EXCEPT !.passes = none]
        BY <2>2, TwoChanges, Zenon DEF none, base
  <2>5. /\ m = [base |-> m.base, frame |-> m.frame, passes |-> m.passes]
        /\ m.base = base /\ m.frame = nr.frame /\ m.passes = nr.passes
        BY <2>2
  <2> HIDE DEF m
  <2>6. TypedNr(m)
        BY <1>2, <2>1, <2>5 DEF TypedNr
  <2>7. IsSeq(none) /\ \A i \in DOMAIN none : TypedTable(none[i], BasePass)
        BY <2>3, SeqIs
  <2>8. TypedNr([m EXCEPT !.passes = none])
        BY <2>6, <2>7, PassesNr
  <2> QED BY <2>4, <2>8
<1>6. TypedNr(more(n))
  <2> DEFINE passes == built(n)
  <2>1. /\ passes = [i \in 1 .. n |-> passes[i]]
        /\ \A i \in 1 .. n : passes[i] = effective[IF i \in DOMAIN effective THEN i ELSE len]
        OBVIOUS
  <2> HIDE DEF passes
  <2>2. IsSeq(passes) /\ DOMAIN passes = 1 .. n
        BY <1>4, <2>1, BuiltSeq
  <2>3. ASSUME NEW i \in DOMAIN passes PROVE TypedTable(passes[i], BasePass)
    <3> DEFINE j == IF i \in DOMAIN effective THEN i ELSE len
    <3>1. j \in DOMAIN effective
          BY <1>3
    <3>2. passes[i] = effective[j]
          BY <2>1, <2>2
    <3> HIDE DEF j
    <3> QED BY <1>3, <3>1, <3>2
  <2>4. TypedNr([nr EXCEPT !.passes = passes])
        BY <1>2, <2>2, <2>3, PassesNr
  <2> QED BY <2>4 DEF passes
<1> DEFINE m == IF n = 1 THEN fewer ELSE more(n)
           c == [config EXCEPT !.nr = Drawn(m)]
<1>7. SetConfig(c)
      BY <1>1
<1> HIDE DEF fewer, more
<1>8. TypedNr(m)
      BY <1>5, <1>6
<1> HIDE DEF m, nr
<1>9. TypedConfig(c)
      BY <1>2, <1>8, DrawnIs, OtherNr
<1> HIDE DEF c
<1> QED BY <1>7, <1>9, SetIs

LEMMA TuneSeparatelyIs == ASSUME CodecInv, TuneSeparately PROVE CodecInv'
<1> DEFINE nr == config.nr
           s == Shown(nr)
           tick == ~ s.frame.per_pass_tuning
           m == Ticked(s, tick)
           c == [config EXCEPT !.nr = Propagated(m)]
<1>1. TypedConfig(config) /\ TypedNr(nr)
      BY DEF CodecInv, TypedConfig
<1>2. TypedNr(s)
      BY <1>1, DrawnIs
<1>3. SetConfig([config EXCEPT !.nr = Propagated([s EXCEPT !.frame.per_pass_tuning = ~ @])])
      BY Zenon DEF TuneSeparately
<1>4. [s EXCEPT !.frame.per_pass_tuning = ~ @] = m
      BY Zenon DEF Ticked
<1>5. SetConfig(c)
      BY <1>3, <1>4, Zenon
<1>6. tick \in BOOLEAN
      BY NotIsBoolean, Zenon
<1> HIDE DEF tick, s
<1>7. TypedNr(m)
      BY <1>2, <1>6, TickedIs
<1> HIDE DEF m, nr
<1>8. TypedConfig(c)
      BY <1>1, <1>7, PropagatedIs, OtherNr
<1> HIDE DEF c
<1> QED BY <1>5, <1>8, SetIs

LEMMA ChoosePipelineIs == ASSUME CodecInv, ChoosePipeline PROVE CodecInv'
<1>1. PICK pass \in {"direct", "passthrough"}, grid \in {1, 2, 4} :
        SetConfig([config EXCEPT !.top.neural_pass = pass, !.top.flow_grid_size = grid])
      BY Zenon DEF ChoosePipeline
<1> DEFINE top == config.top
           passed == [top EXCEPT !["neural_pass"] = pass]
           u == [passed EXCEPT !["flow_grid_size"] = grid]
           c == [config EXCEPT !.top = u]
<1>2. TypedConfig(config) /\ TypedTop(top, BaseTop)
      BY DEF CodecInv, TypedConfig
<1>3. TypedTable(top, BaseTop) /\ DOMAIN top = DOMAIN BaseTop /\ top = [k \in DOMAIN top |-> top[k]]
      BY <1>2, TypedIsKeys DEF TypedTop, TypedTable
<1>4. config = [top |-> config.top, app |-> config.app, nr |-> config.nr, looks |-> config.looks,
                rects |-> config.rects]
      BY <1>2 DEF TypedConfig
<1>5. [config EXCEPT !.top.neural_pass = pass, !.top.flow_grid_size = grid] = c
  <2> DEFINE one == [config EXCEPT !.top.neural_pass = pass]
  <2>1. [config EXCEPT !.top.neural_pass = pass, !.top.flow_grid_size = grid]
          = [one EXCEPT !.top.flow_grid_size = grid]
        BY <1>4
  <2>2. one = [config EXCEPT !.top = passed]
        BY <1>4
  <2>3. [one EXCEPT !.top.flow_grid_size = grid] = [one EXCEPT !.top = [one.top EXCEPT !["flow_grid_size"] = grid]]
        BY <2>2, <1>4
  <2> HIDE DEF passed
  <2>4. one.top = passed
        BY <2>2, <1>4
  <2>5. [one EXCEPT !.top = u] = c
        BY <2>2, <1>4
  <2> HIDE DEF one, c
  <2> QED BY <2>1, <2>3, <2>4, <2>5
<1>6. SetConfig(c)
      BY <1>1, <1>5, Zenon
<1>7. {"neural_pass", "flow_grid_size", "depth_mode"} \subseteq DOMAIN BaseTop
      BY SMT DEF BaseTop
<1>8. pass # Wrong /\ IsTyped("neural_pass", pass) /\ pass \notin {"reshade", "ngx"}
  <2>1. "neural_pass" \notin Floats \cup Ints \cup DOMAIN NoRect
        BY Ranges
  <2>2. pass \in Strings
        BY <1>1, CodecAssumption
  <2>3. pass \notin {"reshade", "ngx"}
        BY <1>1
  <2> QED BY <2>1, <2>2, <2>3, NotWrong DEF IsTyped
<1>9. grid # Wrong /\ IsTyped("flow_grid_size", grid)
  <2>1. "flow_grid_size" \notin Floats \cup Ints \cup DOMAIN NoRect
        BY Ranges
  <2>2. grid \in Int
        BY <1>1
  <2> QED BY <2>1, <2>2, NotWrong DEF IsTyped
<1>10. TypedTable(passed, BaseTop)
       BY <1>3, <1>7, <1>8, ChangedTable
<1>11. passed.neural_pass = pass /\ passed.depth_mode = top.depth_mode
       BY <1>3, <1>7
<1> HIDE DEF passed
<1>12. TypedTable(u, BaseTop)
       BY <1>7, <1>9, <1>10, ChangedTable
<1>13. DOMAIN passed = DOMAIN BaseTop
       BY <1>10, TypedIsKeys
<1>14. u.neural_pass = pass /\ u.depth_mode = top.depth_mode
       BY <1>7, <1>11, <1>13
<1> HIDE DEF u
<1>15. TypedConfig(c)
       BY <1>2, <1>8, <1>12, <1>14, OtherTop DEF TypedTop
<1> HIDE DEF c
<1> QED BY <1>6, <1>15, SetIs

\* The configuration with one of its other keys changed.
LEMMA TopChanged ==
  ASSUME NEW c, TypedConfig(c), NEW v, v # Wrong
  PROVE  /\ TypedConfig([c EXCEPT !.top.active_preset = v])
         /\ TypedConfig([c EXCEPT !.top.advanced_tuning = v])
<1>1. c = [top |-> c.top, app |-> c.app, nr |-> c.nr, looks |-> c.looks, rects |-> c.rects]
      BY DEF TypedConfig
<1>2. TypedTop(c.top, BaseTop)
      BY DEF TypedConfig
<1>3. [c EXCEPT !.top.active_preset = v] = [c EXCEPT !.top = [c.top EXCEPT !["active_preset"] = v]]
      BY <1>1
<1>4. [c EXCEPT !.top.advanced_tuning = v] = [c EXCEPT !.top = [c.top EXCEPT !["advanced_tuning"] = v]]
      BY <1>1
<1>5. /\ TypedConfig([c EXCEPT !.top = [c.top EXCEPT !["active_preset"] = v]])
      /\ TypedConfig([c EXCEPT !.top = [c.top EXCEPT !["advanced_tuning"] = v]])
      BY <1>2, ChangedTop, OtherTop
<1> QED BY <1>3, <1>4, <1>5

LEMMA ToggleAdvancedIs == ASSUME CodecInv, ToggleAdvanced PROVE CodecInv'
<1> DEFINE v == ~ config.top.advanced_tuning
           c == [config EXCEPT !.top.advanced_tuning = v]
<1>1. WriteConfig(c)
      BY Zenon DEF ToggleAdvanced
<1>2. v # Wrong
      BY NotIsBoolean, NotWrong, Zenon
<1> HIDE DEF v
<1>3. TypedConfig(c)
      BY <1>2, TopChanged DEF CodecInv
<1> HIDE DEF c
<1> QED BY <1>1, <1>3, WriteIs

LEMMA ChoosePresetIs == ASSUME CodecInv, ChoosePreset PROVE CodecInv'
<1>1. PICK p \in ToSet(presets) : SetConfig(ApplyPreset(p, config))
      BY DEF ChoosePreset
<1>2. PICK i \in DOMAIN presets : p = presets[i]
      BY DEF ToSet
<1>3. TypedPreset(p)
      BY <1>2 DEF CodecInv, TypedPresets
<1>4. TypedConfig(ApplyPreset(p, config))
      BY <1>3, ApplyIs DEF CodecInv
<1> QED BY <1>1, <1>4, SetIs

\* The first preset of those names, and of that name.
NameIn(all, names) == SelectInSeq(all, LAMBDA p : p.name \in names)
NameAt(all, name) == SelectInSeq(all, LAMBDA p : p.name = name)

LEMMA NamesAre ==
  ASSUME NEW all, IsSeq(all), NEW names, NEW name
  PROVE  NameIn(all, names) \in {0} \cup DOMAIN all /\ NameAt(all, name) \in {0} \cup DOMAIN all
<1> DEFINE I == {i \in 1 .. Len(all) : all[i].name \in names}
           J == {i \in 1 .. Len(all) : all[i].name = name}
<1>1. /\ NameIn(all, names) = IF I # {} THEN Min(I) ELSE 0
      /\ NameAt(all, name) = IF J # {} THEN Min(J) ELSE 0
      BY Zenon DEF NameIn, NameAt, SelectInSeq
<1>2. Len(all) \in Nat /\ DOMAIN all = 1 .. Len(all)
      BY SeqHas
<1>3. I \subseteq Nat /\ J \subseteq Nat /\ I \subseteq DOMAIN all /\ J \subseteq DOMAIN all
      BY <1>2
<1> HIDE DEF I, J
<1>4. I # {} => Min(I) \in I
      BY <1>3, MinIsIn
<1>5. J # {} => Min(J) \in J
      BY <1>3, MinIsIn
<1> QED BY <1>1, <1>3, <1>4, <1>5

LEMMA ChooseTargetIs == ASSUME CodecInv, ChooseTarget PROVE CodecInv'
<1>1. PICK title \in Strings \ {Empty} :
        LET cls == "window"
            known == {l.preset : l \in {m \in ToSet(config.looks) : m.window_class = cls}}
            at == NameIn(presets, known)
            c == [config EXCEPT !.app = [name |-> title, window_class |-> cls, title |-> title]]
        IN WriteConfig(IF at = 0 \/ config.top.active_preset \in known THEN c
                       ELSE ApplyPreset(presets[at], c))
      BY Zenon DEF ChooseTarget, NameIn
<1> DEFINE cls == "window"
           known == {l.preset : l \in {m \in ToSet(config.looks) : m.window_class = cls}}
           at == NameIn(presets, known)
           app == [name |-> title, window_class |-> cls, title |-> title]
           c == [config EXCEPT !.app = app]
           other == ApplyPreset(presets[at], c)
           b == at = 0 \/ config.top.active_preset \in known
           d == IF b THEN c ELSE other
<1>2. WriteConfig(d)
      BY <1>1, Zenon
<1>3. at \in {0} \cup DOMAIN presets
      BY NamesAre DEF CodecInv, TypedPresets
<1>4. TypedTable(app, NoApp)
  <2>1. title \in Strings /\ cls \in Strings
        BY <1>1, CodecAssumption
  <2>2. title # Wrong /\ cls # Wrong
        BY <2>1, NotWrong
  <2>3. DOMAIN app = {"name", "window_class", "title"} /\ DOMAIN NoApp = {"name", "window_class", "title"}
        BY SMT DEF NoApp
  <2>4. app = [k \in DOMAIN app |-> app[k]] /\ app["name"] = title /\ app["window_class"] = cls
        /\ app["title"] = title
        OBVIOUS
  <2> HIDE DEF app, cls
  <2>5. \A k \in DOMAIN app : k \notin Floats \cup Ints \cup DOMAIN NoRect
        BY <2>3, Ranges
  <2>6. \A k \in DOMAIN app : app[k] # Wrong /\ IsTyped(k, app[k])
        BY <2>2, <2>3, <2>4, <2>5 DEF IsTyped
  <2> QED BY <2>3, <2>4, <2>6, Zenon DEF TypedTable
<1> HIDE DEF app
<1>5. TypedConfig(c)
      BY <1>4, OtherApp DEF CodecInv
<1> HIDE DEF c
<1>6. ASSUME ~ b PROVE TypedConfig(other)
  <2>1. at \in DOMAIN presets
        BY <1>3, <1>6
  <2>2. TypedPreset(presets[at])
        BY <2>1 DEF CodecInv, TypedPresets
  <2> QED BY <1>5, <2>2, ApplyIs
<1> HIDE DEF other, b
<1>7. TypedConfig(d)
      BY <1>5, <1>6
<1> HIDE DEF d
<1> QED BY <1>2, <1>7, WriteIs

LEMMA SaveSettingsIs == ASSUME CodecInv, SaveSettings PROVE CodecInv'
<1> DEFINE looks == Remember(config.looks, config.app.window_class, config.top.active_preset)
           c == [config EXCEPT !.looks = looks]
<1>1. WriteConfig(c)
      BY Zenon DEF SaveSettings
<1>2. TypedConfig(config)
      BY DEF CodecInv
<1>3. "window_class" \in DOMAIN NoApp /\ "active_preset" \in DOMAIN BaseTop
      BY SMT DEF NoApp, BaseTop
<1>4. config.app.window_class # Wrong /\ config.top.active_preset # Wrong
      BY <1>2, <1>3 DEF TypedConfig, TypedTop, TypedTable
<1>5. TypedLooks(looks)
      BY <1>2, <1>4, RememberIs DEF TypedConfig
<1> HIDE DEF looks
<1>6. TypedConfig(c)
      BY <1>2, <1>5, OtherLooks
<1> HIDE DEF c
<1> QED BY <1>1, <1>6, WriteIs

\* The presets with one more, or with one in another's place.
LEMMA MorePresets ==
  ASSUME NEW all, TypedPresets(all), NEW p, TypedPreset(p)
  PROVE  /\ TypedPresets(Append(all, p))
         /\ \A at \in DOMAIN all : TypedPresets([all EXCEPT ![at] = p])
<1>1. IsSeq(all) /\ Len(all) \in Nat /\ DOMAIN all = 1 .. Len(all)
      BY SeqHas DEF TypedPresets
<1>2. TypedPresets(Append(all, p))
  <2> DEFINE more == Append(all, p)
  <2>1. /\ IsSeq(more) /\ Len(more) = Len(all) + 1
        /\ \A i \in 1 .. Len(all) : more[i] = all[i]
        /\ more[Len(all) + 1] = p
        BY <1>1, AppendedSeq
  <2> HIDE DEF more
  <2>2. DOMAIN more = 1 .. Len(all) + 1
        BY <2>1, SeqHas
  <2>3. TypedPresets(more)
        BY <1>1, <2>1, <2>2 DEF TypedPresets
  <2> QED BY <2>3 DEF more
<1>3. ASSUME NEW at \in DOMAIN all PROVE TypedPresets([all EXCEPT ![at] = p])
  <2> DEFINE u == [all EXCEPT ![at] = p]
  <2>1. /\ u = [i \in DOMAIN all |-> u[i]] /\ u[at] = p
        /\ \A i \in DOMAIN all : i # at => u[i] = all[i]
        OBVIOUS
  <2> HIDE DEF u
  <2>2. IsSeq(u) /\ DOMAIN u = 1 .. Len(all)
    <3>1. u = [i \in 1 .. Len(all) |-> u[i]]
          BY <1>1, <2>1, Zenon
    <3> QED BY <1>1, <3>1, BuiltSeq
  <2>3. TypedPresets(u)
        BY <1>1, <2>1, <2>2 DEF TypedPresets
  <2> QED BY <2>3 DEF u
<1> QED BY <1>2, <1>3

LEMMA SavePresetIs == ASSUME CodecInv, SavePreset PROVE CodecInv'
<1>1. PICK name \in Strings \ (Control \cup {Empty, "Recommended", "Off"}) :
        LET p == PresetOf(name, config)
            at == NameAt(presets, name)
            all == IF at = 0 THEN Append(presets, p) ELSE [presets EXCEPT ![at] = p]
        IN /\ presets' = all
           /\ presetText' = SerializePresets(all)
           /\ config' = [config EXCEPT !.top.active_preset = name]
           /\ UNCHANGED <<text, saved>>
      BY Zenon DEF SavePreset, NameAt
<1> DEFINE p == PresetOf(name, config)
           at == NameAt(presets, name)
           all == IF at = 0 THEN Append(presets, p) ELSE [presets EXCEPT ![at] = p]
           c == [config EXCEPT !.top.active_preset = name]
<1>2. presets' = all /\ presetText' = SerializePresets(all) /\ config' = c /\ UNCHANGED <<text, saved>>
      BY <1>1, Zenon
<1>3. name # Wrong
      BY <1>1, NotWrong
<1>4. TypedPreset(p)
      BY <1>3, PresetOfIs DEF CodecInv
<1>5. TypedConfig(c)
      BY <1>3, TopChanged DEF CodecInv
<1>6. at \in {0} \cup DOMAIN presets
      BY NamesAre DEF CodecInv, TypedPresets
<1> HIDE DEF p, at, c
<1>7. TypedPresets(all)
      BY <1>4, <1>6, MorePresets DEF CodecInv
<1> HIDE DEF all
<1>8. Listable(SerializePresets(all))
      BY <1>7, WrittenIs
<1> QED BY <1>2, <1>5, <1>7, <1>8 DEF CodecInv

LEMMA ReopenIs == ASSUME CodecInv, Reopen PROVE CodecInv'
<1>1. TypedConfig(Loaded(text)) /\ TypedPresets(AllPresets(presetText))
      BY LoadedIs, ListedIs DEF CodecInv
<1> QED BY <1>1 DEF CodecInv, Reopen

\* A section a hand has changed.
LEMMA SectionChanged ==
  ASSUME NEW s, TypedSection(s), NEW keys,
         \A k \in DOMAIN keys : \/ k \in DOMAIN s.keys /\ keys[k] = s.keys[k]
                                \/ keys[k] # Wrong => IsTyped(k, keys[k])
  PROVE  TypedSection([s EXCEPT !.keys = keys])
<1> DEFINE u == [s EXCEPT !.keys = keys]
<1>1. /\ u.header = s.header /\ u.keys = keys
      /\ u = [header |-> u.header, keys |-> u.keys]
      BY DEF TypedSection
<1> HIDE DEF u
<1>2. TypedSection(u)
      BY <1>1 DEF TypedSection
<1> QED BY <1>2 DEF u

LEMMA FileChanged ==
  ASSUME NEW file, TypedFile(file), NEW i \in DOMAIN file, NEW s, TypedSection(s)
  PROVE  TypedFile([file EXCEPT ![i] = s])
<1> DEFINE u == [file EXCEPT ![i] = s]
<1>1. IsSeq(file) /\ Len(file) \in Nat /\ DOMAIN file = 1 .. Len(file)
      BY SeqHas DEF TypedFile
<1>2. /\ u = [j \in DOMAIN file |-> u[j]] /\ u[i] = s
      /\ \A j \in DOMAIN file : j # i => u[j] = file[j]
      OBVIOUS
<1> HIDE DEF u
<1>3. IsSeq(u) /\ DOMAIN u = 1 .. Len(file)
  <2>1. u = [j \in 1 .. Len(file) |-> u[j]]
        BY <1>1, <1>2, Zenon
  <2> QED BY <1>1, <2>1, BuiltSeq
<1>4. TypedFile(u)
      BY <1>1, <1>2, <1>3 DEF TypedFile
<1> QED BY <1>4 DEF u

\* What a hand writes for a key.
Values(k) ==
  {Wrong} \cup (IF k \in Floats THEN Numbers \cup {NaN}
                ELSE IF k \in Ints \cup DOMAIN NoRect \cup {"flow_grid_size"} THEN Integrals
                ELSE IF k = "neural_pass" THEN Strings ELSE BOOLEAN)
Change(file, i, k) ==
  {[file EXCEPT ![i].keys[k] = v] : v \in Values(k)}
  \cup {[file EXCEPT ![i].keys = [j \in DOMAIN @ \ {k} |-> @[j]]]}

LEMMA ByHandIs ==
  ASSUME NEW file, TypedFile(file), NEW f \in ByHand(file)
  PROVE  TypedFile(f)
<1>1. ByHand(file) =
        (UNION {UNION {Change(file, i, k) : k \in Touched \cap DOMAIN file[i].keys} : i \in DOMAIN file})
        \cup {Append(file, s) : s \in Additions}
      BY Zenon DEF ByHand, Change, Values
<1>2. CASE \E s \in Additions : f = Append(file, s)
  <2>1. PICK s \in Additions : f = Append(file, s)
        BY <1>2
  <2>2. TypedSection(s)
        BY <2>1, AdditionsAssumption
  <2>3. IsSeq(file) /\ Len(file) \in Nat /\ DOMAIN file = 1 .. Len(file)
        BY SeqHas DEF TypedFile
  <2>4. /\ IsSeq(f) /\ Len(f) = Len(file) + 1
        /\ \A i \in 1 .. Len(file) : f[i] = file[i]
        /\ f[Len(file) + 1] = s
        BY <2>1, <2>3, AppendedSeq
  <2>5. DOMAIN f = 1 .. Len(file) + 1
        BY <2>4, SeqHas
  <2> QED BY <2>2, <2>3, <2>4, <2>5 DEF TypedFile
<1>3. CASE \E i \in DOMAIN file : \E k \in Touched \cap DOMAIN file[i].keys : f \in Change(file, i, k)
  <2>i. PICK i \in DOMAIN file : \E k \in Touched \cap DOMAIN file[i].keys : f \in Change(file, i, k)
        BY <1>3
  <2>1. PICK k \in Touched \cap DOMAIN file[i].keys : f \in Change(file, i, k)
        BY <2>i
  <2> DEFINE s == file[i]
             old == s.keys
  <2>2. TypedSection(s)
        BY DEF TypedFile
  <2>3. s = [header |-> s.header, keys |-> s.keys]
        BY <2>2 DEF TypedSection
  <2>4. CASE \E v \in Values(k) : f = [file EXCEPT ![i].keys[k] = v]
    <3>1. PICK v \in Values(k) : f = [file EXCEPT ![i].keys[k] = v]
          BY <2>4
    <3> DEFINE keys == [old EXCEPT ![k] = v]
               u == [s EXCEPT !.keys = keys]
    <3>2. f = [file EXCEPT ![i] = u]
          BY <2>3, <3>1
    <3>3. v # Wrong => IsTyped(k, v)
      <4>1. k \in Floats => k \notin Ints \cup DOMAIN NoRect
            BY Ranges
      <4>2. Numbers \subseteq Int /\ Integrals \subseteq Int
            BY CodecAssumption
      <4> QED BY <4>1, <4>2 DEF Values, IsTyped
    <3>4. DOMAIN keys = DOMAIN old /\ \A j \in DOMAIN keys : j # k => keys[j] = old[j]
          OBVIOUS
    <3>5. k \in DOMAIN old => keys[k] = v
          OBVIOUS
    <3> HIDE DEF keys
    <3>6. \A j \in DOMAIN keys : \/ j \in DOMAIN s.keys /\ keys[j] = s.keys[j]
                                 \/ keys[j] # Wrong => IsTyped(j, keys[j])
          BY <3>3, <3>4, <3>5
    <3>7. TypedSection(u)
          BY <2>2, <3>6, SectionChanged
    <3> HIDE DEF u
    <3> QED BY <3>2, <3>7, FileChanged
  <2>5. CASE f = [file EXCEPT ![i].keys = [j \in DOMAIN @ \ {k} |-> @[j]]]
    <3> DEFINE keys == [j \in DOMAIN old \ {k} |-> old[j]]
               u == [s EXCEPT !.keys = keys]
    <3>1. f = [file EXCEPT ![i] = u]
          BY <2>3, <2>5
    <3>2. \A j \in DOMAIN keys : j \in DOMAIN s.keys /\ keys[j] = s.keys[j]
          OBVIOUS
    <3> HIDE DEF keys
    <3>3. TypedSection(u)
          BY <2>2, <3>2, SectionChanged
    <3> HIDE DEF u
    <3> QED BY <3>1, <3>3, FileChanged
  <2> QED BY <2>1, <2>4, <2>5 DEF Change
<1> DEFINE changes(i) == UNION {Change(file, i, k) : k \in Touched \cap DOMAIN file[i].keys}
<1>4. f \in UNION {changes(i) : i \in DOMAIN file} \/ f \in {Append(file, s) : s \in Additions}
      BY <1>1, Zenon
<1>5. ASSUME f \in UNION {changes(i) : i \in DOMAIN file} PROVE TypedFile(f)
  <2> HIDE DEF changes
  <2>1. PICK i \in DOMAIN file : f \in changes(i)
        BY <1>5, Zenon
  <2>2. f \in UNION {Change(file, i, k) : k \in Touched \cap DOMAIN file[i].keys}
        BY <2>1, Zenon DEF changes
  <2>3. \E k \in Touched \cap DOMAIN file[i].keys : f \in Change(file, i, k)
        BY <2>2, Zenon
  <2> QED BY <1>3, <2>3, Zenon
<1>6. ASSUME f \in {Append(file, s) : s \in Additions} PROVE TypedFile(f)
      BY <1>2, <1>6, Zenon
<1> QED BY <1>4, <1>5, <1>6

LEMMA EditTextIs == ASSUME CodecInv, EditText PROVE CodecInv'
<1>1. Readable(text')
      BY ByHandIs DEF CodecInv, EditText, Readable
<1> QED BY <1>1 DEF CodecInv, EditText

LEMMA EditPresetTextIs == ASSUME CodecInv, EditPresetText PROVE CodecInv'
<1>1. Listable(presetText')
      BY ByHandIs DEF CodecInv, EditPresetText, Listable
<1> QED BY <1>1 DEF CodecInv, EditPresetText

LEMMA CodecStep ==
  ASSUME CodecInv, [CodecNext]_codecVars
  PROVE  CodecInv'
<1>1. CASE Manager
      BY <1>1, DrawTuningIs, SlidePassIs, SlideFrameIs, SlidePassesIs, TuneSeparatelyIs,
         ChoosePipelineIs, ToggleAdvancedIs, ChoosePresetIs, ChooseTargetIs, SaveSettingsIs,
         SavePresetIs, ReopenIs, Zenon DEF Manager
<1>2. CASE UNCHANGED codecVars
      BY <1>2 DEF CodecInv, codecVars
<1> QED BY <1>1, <1>2, EditTextIs, EditPresetTextIs DEF CodecNext

\* What the manager and the files hold has the keys and the types it should.
THEOREM CodecTyped == CodecSpec => []CodecInv
<1>1. CodecInit => CodecInv
      BY InitIsTyped
<1>2. CodecInv /\ [CodecNext]_codecVars => CodecInv'
      BY CodecStep
<1> QED BY <1>1, <1>2, PTL DEF CodecSpec

\* Whatever a hand writes and an operator types, what is read of either file is in
\* range (ParseConfig, ParsePresets, Config.cpp).
THEOREM ReadLegal == CodecSpec => []ReadIsLegal
<1>1. CodecInv => ReadIsLegal
  <2> SUFFICES ASSUME CodecInv PROVE ReadIsLegal
      OBVIOUS
  <2> DEFINE file == IF text = None THEN <<>> ELSE text
             c == ParseConfig(file)
  <2>1. file # Unreadable => TypedFile(file)
    <3>1. TypedFile(<<>>)
          BY NoFile
    <3>2. CASE text = None
          BY <3>1, <3>2, Zenon
    <3>3. CASE text # None
          BY <3>3 DEF CodecInv, Readable
    <3> QED BY <3>2, <3>3
  <2> HIDE DEF file
  <2>2. LegalTable(c.top) /\ LegalNr(c.nr)
        BY <2>1, ParseIsTyped
  <2>3. GoodPresets(AllPresets(presetText))
        BY AllPresetsAre DEF CodecInv, Listable
  <2>4. \A p \in ToSet(AllPresets(presetText)) : LegalTable(p.top) /\ LegalNr(p.nr)
    <3> DEFINE all == AllPresets(presetText)
    <3> HIDE DEF all
    <3>1. GoodPresets(all)
          BY <2>3 DEF all
    <3>2. \A p \in ToSet(all) : LegalTable(p.top) /\ LegalNr(p.nr)
          BY <3>1 DEF GoodPresets, LegalPreset, ToSet
    <3> QED BY <3>2 DEF all
  <2> HIDE DEF c
  <2> QED BY <2>2, <2>4, Zenon DEF ReadIsLegal, file, c
<1> QED BY <1>1, CodecTyped, PTL
-------------------------------------------------------------------------------
(* What is written, read back.                                              *)

\* The ends of the numbers' ranges are numbers the text can hold.
Tens(range) == \E n, m \in Int : range[1] = 10 * n /\ range[2] = 10 * m

LEMMA TensAre ==
  ASSUME NEW n \in Int, NEW m \in Int, NEW range, range[1] = 10 * n, range[2] = 10 * m
  PROVE  Tens(range)
BY DEF Tens

LEMMA TensOfRanges ==
  \A k \in Floats : Tens(FloatRange[k])
<1>1. Tens(FloatRange["intensity"])
  <2>1. FloatRange["intensity"][1] = 10 * 0 /\ FloatRange["intensity"][2] = 10 * 200
        BY SMT DEF FloatRange
  <2> QED BY <2>1, TensAre
<1>2. Tens(FloatRange["local_structure"])
  <2>1. FloatRange["local_structure"][1] = 10 * 0 /\ FloatRange["local_structure"][2] = 10 * 200
        BY SMT DEF FloatRange
  <2> QED BY <2>1, TensAre
<1>3. Tens(FloatRange["local_tone"])
  <2>1. FloatRange["local_tone"][1] = 10 * 0 /\ FloatRange["local_tone"][2] = 10 * 200
        BY SMT DEF FloatRange
  <2> QED BY <2>1, TensAre
<1>4. Tens(FloatRange["paper_white_nits"])
  <2>1. FloatRange["paper_white_nits"][1] = 10 * 0 /\ FloatRange["paper_white_nits"][2] = 10 * 100000
        BY SMT DEF FloatRange
  <2> QED BY <2>1, TensAre
<1>5. Tens(FloatRange["colour_preserve"])
  <2>1. FloatRange["colour_preserve"][1] = 10 * 0 /\ FloatRange["colour_preserve"][2] = 10 * 100
        BY SMT DEF FloatRange
  <2> QED BY <2>1, TensAre
<1>6. Tens(FloatRange["highlight_protect"])
  <2>1. FloatRange["highlight_protect"][1] = 10 * 0 /\ FloatRange["highlight_protect"][2] = 10 * 100
        BY SMT DEF FloatRange
  <2> QED BY <2>1, TensAre
<1>7. Tens(FloatRange["split_view"])
  <2>1. FloatRange["split_view"][1] = 10 * 0 /\ FloatRange["split_view"][2] = 10 * 100
        BY SMT DEF FloatRange
  <2> QED BY <2>1, TensAre
<1>8. Tens(FloatRange["model_scale"])
  <2>1. FloatRange["model_scale"][1] = 10 * 50 /\ FloatRange["model_scale"][2] = 10 * 100
        BY SMT DEF FloatRange
  <2> QED BY <2>1, TensAre
<1>9. Tens(FloatRange["synthetic_depth"])
  <2>1. FloatRange["synthetic_depth"][1] = 10 * 0 /\ FloatRange["synthetic_depth"][2] = 10 * 100
        BY SMT DEF FloatRange
  <2> QED BY <2>1, TensAre
<1>10. Tens(FloatRange["skin_structure"])
  <2> DEFINE low == -100
  <2>1. /\ low \in Int /\ FloatRange["skin_structure"][1] = 10 * low
        /\ FloatRange["skin_structure"][2] = 10 * 200
        BY SMT DEF FloatRange
  <2> HIDE DEF low
  <2> DEFINE range == FloatRange["skin_structure"]
  <2>2. low \in Int /\ 200 \in Int /\ range[1] = 10 * low /\ range[2] = 10 * 200
        BY <2>1
  <2> HIDE DEF range
  <2>3. Tens(range)
        BY <2>2, TensAre
  <2> QED BY <2>3, Zenon DEF range
<1> QED BY <1>1, <1>2, <1>3, <1>4, <1>5, <1>6, <1>7, <1>8, <1>9, <1>10, Ranges

\* A value that is legal is the same when it is read again, a number to half a unit
\* of the last digit written.
LEMMA ValueBack ==
  ASSUME NEW k, NEW v, v # Wrong, IsTyped(k, v), IsLegal(k, v),
         NEW w, w = IF k \in Floats THEN Number(v) ELSE v
  PROVE  /\ w # Wrong /\ IsTyped(k, w)
         /\ k \notin Floats \/ v = NaN => Legal(k, w) = v
         /\ k \in Floats /\ v # NaN => /\ w \in Int /\ w # NaN /\ Legal(k, w) = w /\ w - v \in -5 .. 5
<1>1. CASE k \in Floats /\ v = NaN
  <2>1. w = NaN /\ k \notin Ints
        BY <1>1, Ranges DEF Number
  <2>2. Legal(k, w) = IF w = NaN THEN NaN ELSE Clamp(w, FloatRange[k])
        BY <1>1, <2>1 DEF Legal
  <2> QED BY <1>1, <2>1, <2>2
<1>2. CASE k \in Floats /\ v # NaN
  <2>1. v \in Int /\ w = Number(v) /\ k \notin Ints \cup DOMAIN NoRect
        BY <1>2, Ranges DEF IsTyped
  <2>2. w \in Int /\ w # NaN /\ w - v \in -5 .. 5
        BY <1>2, <2>1, NumberIs
  <2> DEFINE range == FloatRange[k]
  <2>3. range[1] <= v /\ v <= range[2] /\ range[1] \in Int /\ range[2] \in Int /\ range[1] <= range[2]
        BY <1>2, Ranges DEF IsLegal
  <2>4. PICK n \in Int, m \in Int : range[1] = 10 * n /\ range[2] = 10 * m
        BY <1>2, TensOfRanges DEF Tens
  <2>5. range[1] <= w /\ w <= range[2]
        BY <1>2, <2>1, <2>3, <2>4, NumberIs
  <2>6. Legal(k, w) = Clamp(w, range)
    <3>1. Legal(k, w) = IF w = NaN THEN NaN ELSE Clamp(w, FloatRange[k])
          BY <1>2, <2>1 DEF Legal
    <3> QED BY <2>2, <3>1
  <2> HIDE DEF range
  <2>7. Clamp(w, range) = w
        BY <2>2, <2>3, <2>5, ClampIn
  <2>8. w # Wrong /\ IsTyped(k, w)
        BY <2>1, <2>2, NotWrong DEF IsTyped
  <2> QED BY <1>2, <2>2, <2>6, <2>7, <2>8
<1>3. CASE k \in Ints
  <2>1. k \notin Floats /\ w = v /\ v \in Int
        BY <1>3, Ranges DEF IsTyped
  <2> DEFINE range == IntRange[k]
  <2>2. /\ range[1] <= v /\ v <= range[2] /\ range[1] \in Int /\ range[2] \in Int
        /\ range[1] <= range[2] /\ 0 <= range[1] /\ range[2] <= 256
        BY <1>3, Ranges DEF IsLegal
  <2>3. Legal(k, w) = Clamp(Wrapped(w), range)
        BY <1>3, <2>1 DEF Legal
  <2> HIDE DEF range
  <2>4. 0 <= v /\ v <= 256
        BY <2>1, <2>2
  <2>5. Wrapped(w) = v
        BY <2>1, <2>4, WrappedStays
  <2>6. Clamp(v, range) = v
        BY <2>1, <2>2, ClampIn
  <2> QED BY <2>1, <2>3, <2>5, <2>6
<1>4. CASE k \notin Floats \cup Ints
  <2>1. w = v
        BY <1>4
  <2> QED BY <1>4, <2>1, LegalValue
<1> QED BY <1>1, <1>2, <1>3, <1>4

\* A table of legal values, written among others, reads back near itself.
LEMMA TableBack ==
  ASSUME NEW t, NEW like, TypedTable(t, like), LegalTable(t), NEW base, TypedTable(base, like),
         NEW keys, DOMAIN like \subseteq DOMAIN keys,
         \A k \in DOMAIN like : keys[k] = IF k \in Floats THEN Number(t[k]) ELSE t[k]
  PROVE  /\ DOMAIN ReadTable(keys, base) = DOMAIN like
         /\ \A k \in DOMAIN like :
              LET r == ReadTable(keys, base)[k]
              IN /\ r = Legal(k, keys[k])
                 /\ k \notin Floats \/ t[k] = NaN => r = t[k]
                 /\ k \in Floats /\ t[k] # NaN =>
                      r # NaN /\ r \in Int /\ r = Number(t[k]) /\ r - t[k] \in -5 .. 5
         /\ Near(ReadTable(keys, base), t)
<1> DEFINE read == ReadTable(keys, base)
<1>1. DOMAIN base = DOMAIN like /\ DOMAIN t = DOMAIN like
      BY Zenon DEF TypedTable
<1>2. read = [k \in DOMAIN like |-> IF Says(keys, k) THEN Legal(k, keys[k]) ELSE base[k]]
      BY <1>1, Zenon DEF ReadTable
<1>3. /\ DOMAIN read = DOMAIN like
      /\ \A k \in DOMAIN like : read[k] = IF Says(keys, k) THEN Legal(k, keys[k]) ELSE base[k]
      BY <1>2
<1> HIDE DEF read
<1>4. ASSUME NEW k \in DOMAIN like
      PROVE  /\ read[k] = Legal(k, keys[k])
             /\ k \notin Floats \/ t[k] = NaN => read[k] = t[k]
             /\ k \in Floats /\ t[k] # NaN =>
                  read[k] # NaN /\ read[k] \in Int /\ read[k] = Number(t[k]) /\ read[k] - t[k] \in -5 .. 5
  <2> DEFINE v == t[k]
             w == keys[k]
  <2>1. v # Wrong /\ IsTyped(k, v) /\ IsLegal(k, v)
        BY <1>1 DEF TypedTable, LegalTable
  <2>2. w = IF k \in Floats THEN Number(v) ELSE v
        OBVIOUS
  <2>3. k \in DOMAIN keys
        OBVIOUS
  <2> HIDE DEF v, w
  <2>4. /\ w # Wrong
        /\ k \notin Floats \/ v = NaN => Legal(k, w) = v
        /\ k \in Floats /\ v # NaN => w \in Int /\ w # NaN /\ Legal(k, w) = w /\ w - v \in -5 .. 5
        BY <2>1, <2>2, ValueBack
  <2>5. read[k] = Legal(k, w)
        BY <1>3, <2>3, <2>4 DEF Says, w
  <2> QED BY <2>2, <2>4, <2>5 DEF v, w
<1>5. Near(read, t)
  <2>1. ASSUME NEW k \in DOMAIN read
        PROVE IF k \in Floats /\ read[k] # NaN /\ t[k] # NaN THEN read[k] - t[k] \in -5 .. 5
              ELSE read[k] = t[k]
        BY <1>3, <1>4
  <2> QED BY <1>1, <1>3, <2>1, Zenon DEF Near
<1> QED BY <1>3, <1>4, <1>5, Zenon DEF read

\* A text that is joined to nothing.
LEMMA JoinedEmpty ==
  ASSUME NEW s, IsSeq(s)
  PROVE  s \o <<>> = s /\ <<>> \o s = s
<1>1. s \in Seq(ToSet(s))
      BY DEF IsSeq
<1> QED BY <1>1, ConcatEmptySeq

\* A file of sections of one name has these, and no others.
LEMMA OneName ==
  ASSUME NEW file, TypedFile(file), NEW of, \A i \in 1 .. Len(file) : file[i].header = of, NEW header
  PROVE  Sections(file, header) = IF header = of THEN file ELSE <<>>
BY SectionsNone, SectionsAll DEF TypedFile

\* What the six parts of a file are, and which sections each name finds.
LEMMA PartsOfFile ==
  ASSUME NEW c, TypedConfig(c), NEW header
  PROVE  Sections(FileOf(c), header) =
           CASE header = "top" -> <<WriteTable("top", c.top)>>
             [] header = "app" -> <<WriteTable("app", c.app)>>
             [] header = "nr" -> <<WriteTable("nr", Both(c.nr.frame, c.nr.base))>>
             [] header = "nr.pass" -> WriteAll("nr.pass", c.nr.passes)
             [] header = "app_look" -> WriteStrings("app_look", c.looks)
             [] header = "ui_mask" -> WriteStrings("ui_mask", c.rects)
             [] OTHER -> <<>>
<1> DEFINE p1 == <<WriteTable("top", c.top)>>
           p2 == <<WriteTable("app", c.app)>>
           p3 == <<WriteTable("nr", Both(c.nr.frame, c.nr.base))>>
           p4 == WriteAll("nr.pass", c.nr.passes)
           p5 == WriteStrings("app_look", c.looks)
           p6 == WriteStrings("ui_mask", c.rects)
<1>1. TypedTable(c.top, c.top) /\ TypedTable(c.app, c.app) /\ TypedNr(c.nr)
      BY TypedIsKeys DEF TypedConfig, TypedTop
<1>2. TypedFile(p1) /\ (\A i \in 1 .. Len(p1) : p1[i].header = "top")
  <2> DEFINE s == WriteTable("top", c.top)
  <2>1. TypedSection(s) /\ s.header = "top"
        BY <1>1, WriteTableIs
  <2> HIDE DEF s
  <2> QED BY <2>1, OneSection DEF s
<1>3. TypedFile(p2) /\ (\A i \in 1 .. Len(p2) : p2[i].header = "app")
  <2> DEFINE s == WriteTable("app", c.app)
  <2>1. TypedSection(s) /\ s.header = "app"
        BY <1>1, WriteTableIs
  <2> QED BY <2>1, OneSection
<1>4. TypedFile(p3) /\ (\A i \in 1 .. Len(p3) : p3[i].header = "nr")
  <2> DEFINE t == Both(c.nr.frame, c.nr.base)
             s == WriteTable("nr", t)
  <2>1. TypedTable(c.nr.frame, c.nr.frame) /\ TypedTable(c.nr.base, c.nr.base)
        BY <1>1, TypedIsKeys DEF TypedNr
  <2>2. TypedTable(t, t)
        BY <2>1, BothTyped
  <2> HIDE DEF t
  <2>3. TypedSection(s) /\ s.header = "nr"
        BY <2>2, WriteTableIs
  <2> QED BY <2>3, OneSection DEF t
<1>5. TypedFile(p4) /\ (\A i \in 1 .. Len(p4) : p4[i].header = "nr.pass")
  <2>1. IsSeq(c.nr.passes) /\ DOMAIN c.nr.passes = 1 .. Len(c.nr.passes)
        BY <1>1, SeqHas DEF TypedNr
  <2>2. \A i \in DOMAIN c.nr.passes : TypedTable(c.nr.passes[i], c.nr.passes[i])
        BY <1>1, TypedIsKeys DEF TypedNr
  <2>3. /\ TypedFile(p4) /\ Len(p4) = Len(c.nr.passes)
        /\ \A i \in 1 .. Len(c.nr.passes) : p4[i] = WriteTable("nr.pass", c.nr.passes[i])
        BY <2>1, <2>2, WriteAllIs
  <2> HIDE DEF p4
  <2> QED BY <2>1, <2>2, <2>3, WriteTableIs
<1>6. TypedFile(p5) /\ (\A i \in 1 .. Len(p5) : p5[i].header = "app_look")
  <2>1. IsSeq(c.looks)
        BY DEF TypedConfig, TypedLooks
  <2>2. /\ TypedFile(p5) /\ Len(p5) = Len(c.looks)
        /\ \A i \in 1 .. Len(c.looks) : p5[i] = [header |-> "app_look", keys |-> c.looks[i]]
        BY <2>1, WriteStringsIs
  <2> HIDE DEF p5
  <2>3. ASSUME NEW i \in 1 .. Len(p5) PROVE p5[i].header = "app_look"
    <3>1. p5[i] = [header |-> "app_look", keys |-> c.looks[i]]
          BY <2>2
    <3> QED BY <3>1
  <2> QED BY <2>2, <2>3
<1>7. TypedFile(p6) /\ (\A i \in 1 .. Len(p6) : p6[i].header = "ui_mask")
  <2>1. IsSeq(c.rects) /\ \A i \in DOMAIN c.rects : TypedKeys(c.rects[i])
        BY RectsWritten DEF TypedConfig
  <2>2. /\ TypedFile(p6) /\ Len(p6) = Len(c.rects)
        /\ \A i \in 1 .. Len(c.rects) : p6[i] = [header |-> "ui_mask", keys |-> c.rects[i]]
        BY <2>1, WriteStringsIs
  <2> HIDE DEF p6
  <2>3. ASSUME NEW i \in 1 .. Len(p6) PROVE p6[i].header = "ui_mask"
    <3>1. p6[i] = [header |-> "ui_mask", keys |-> c.rects[i]]
          BY <2>2
    <3> QED BY <3>1
  <2> QED BY <2>2, <2>3
<1>8. FileOf(c) = ((p1 \o p2) \o (p3 \o p4)) \o p5 \o p6
  <2>1. WriteNr(c.nr, "nr") = p3 \o p4
    <3>1. PassHeader("nr") = "nr.pass"
          BY DEF PassHeader
    <3> QED BY <3>1, Zenon DEF WriteNr
  <2>2. <<WriteTable("top", c.top), WriteTable("app", c.app)>> = p1 \o p2
        OBVIOUS
  <2> QED BY <2>1, <2>2, Zenon DEF FileOf
<1> HIDE DEF p1, p2, p3, p4, p5, p6
<1> DEFINE a == p1 \o p2
           b == p3 \o p4
           d == a \o b
           e == d \o p5
           S(p) == Sections(p, header)
<1>9. /\ TypedFile(a) /\ TypedFile(b) /\ TypedFile(d) /\ TypedFile(e)
      BY <1>2, <1>3, <1>4, <1>5, <1>6, JoinedFile
<1>10. S(a) = S(p1) \o S(p2) /\ S(b) = S(p3) \o S(p4)
       BY <1>2, <1>3, <1>4, <1>5, SectionsConcat DEF TypedFile
<1>11. S(d) = S(a) \o S(b) /\ S(e) = S(d) \o S(p5) /\ S(e \o p6) = S(e) \o S(p6)
  <2> HIDE DEF a, b
  <2>1. S(d) = S(a) \o S(b)
        BY <1>9, SectionsConcat DEF TypedFile
  <2> HIDE DEF d
  <2>2. S(e) = S(d) \o S(p5)
        BY <1>6, <1>9, SectionsConcat DEF TypedFile
  <2> HIDE DEF e
  <2>3. S(e \o p6) = S(e) \o S(p6)
        BY <1>7, <1>9, SectionsConcat DEF TypedFile
  <2> QED BY <2>1, <2>2, <2>3
<1>12. FileOf(c) = e \o p6
       BY <1>8
<1> HIDE DEF a, b, d, e, S
<1>13. S(FileOf(c)) = (((S(p1) \o S(p2)) \o (S(p3) \o S(p4))) \o S(p5)) \o S(p6)
       BY <1>10, <1>11, <1>12, Zenon
<1>14. /\ S(p1) = (IF header = "top" THEN p1 ELSE <<>>)
       /\ S(p2) = (IF header = "app" THEN p2 ELSE <<>>)
       /\ S(p3) = (IF header = "nr" THEN p3 ELSE <<>>)
       /\ S(p4) = (IF header = "nr.pass" THEN p4 ELSE <<>>)
       /\ S(p5) = (IF header = "app_look" THEN p5 ELSE <<>>)
       /\ S(p6) = (IF header = "ui_mask" THEN p6 ELSE <<>>)
  <2>1. S(p1) = IF header = "top" THEN p1 ELSE <<>>
        BY <1>2, OneName DEF S
  <2>2. S(p2) = IF header = "app" THEN p2 ELSE <<>>
        BY <1>3, OneName DEF S
  <2>3. S(p3) = IF header = "nr" THEN p3 ELSE <<>>
        BY <1>4, OneName DEF S
  <2>4. S(p4) = IF header = "nr.pass" THEN p4 ELSE <<>>
        BY <1>5, OneName DEF S
  <2>5. S(p5) = IF header = "app_look" THEN p5 ELSE <<>>
        BY <1>6, OneName DEF S
  <2>6. S(p6) = IF header = "ui_mask" THEN p6 ELSE <<>>
        BY <1>7, OneName DEF S
  <2> QED BY <2>1, <2>2, <2>3, <2>4, <2>5, <2>6, Zenon
<1> DEFINE none == <<>>
<1>15. /\ none \o none = none
       /\ \A p \in {p1, p2, p3, p4, p5, p6} : p \o none = p /\ none \o p = p
  <2>1. IsSeq(none)
    <3>1. none \in Seq({})
          OBVIOUS
    <3> HIDE DEF none
    <3> QED BY <3>1, SeqIs
  <2>2. none \o none = none
        BY <2>1, JoinedEmpty
  <2>3. \A p \in {p1, p2, p3, p4, p5, p6} : IsSeq(p)
        BY <1>2, <1>3, <1>4, <1>5, <1>6, <1>7 DEF TypedFile
  <2> QED BY <2>2, <2>3, JoinedEmpty
<1>16. /\ S(p1) = (IF header = "top" THEN p1 ELSE none)
       /\ S(p2) = (IF header = "app" THEN p2 ELSE none)
       /\ S(p3) = (IF header = "nr" THEN p3 ELSE none)
       /\ S(p4) = (IF header = "nr.pass" THEN p4 ELSE none)
       /\ S(p5) = (IF header = "app_look" THEN p5 ELSE none)
       /\ S(p6) = (IF header = "ui_mask" THEN p6 ELSE none)
       BY <1>14
<1> HIDE DEF none
<1>17. S(FileOf(c)) =
         CASE header = "top" -> p1 [] header = "app" -> p2 [] header = "nr" -> p3
           [] header = "nr.pass" -> p4 [] header = "app_look" -> p5 [] header = "ui_mask" -> p6
           [] OTHER -> none
  <2>1. CASE header = "top"
        BY <1>13, <1>15, <1>16, <2>1
  <2>2. CASE header = "app"
        BY <1>13, <1>15, <1>16, <2>2
  <2>3. CASE header = "nr"
        BY <1>13, <1>15, <1>16, <2>3
  <2>4. CASE header = "nr.pass"
        BY <1>13, <1>15, <1>16, <2>4
  <2>5. CASE header = "app_look"
        BY <1>13, <1>15, <1>16, <2>5
  <2>6. CASE header = "ui_mask"
        BY <1>13, <1>15, <1>16, <2>6
  <2>7. CASE header \notin {"top", "app", "nr", "nr.pass", "app_look", "ui_mask"}
        BY <1>13, <1>15, <1>16, <2>7
  <2> QED BY <2>1, <2>2, <2>3, <2>4, <2>5, <2>6, <2>7
<1> QED BY <1>17, Zenon DEF p1, p2, p3, p4, p5, p6, none, S

\* The settings of a file that has them as they are written, and their passes.
LEMMA NrBack ==
  ASSUME NEW nr, TypedNr(nr), LegalNr(nr), NEW file, NEW prefix,
         Sections(file, prefix) = <<WriteTable(prefix, Both(nr.frame, nr.base))>>,
         Sections(file, PassHeader(prefix)) = WriteAll(PassHeader(prefix), nr.passes)
  PROVE  NearNr(ReadNr(file, prefix), nr)
<1> DEFINE both == Both(nr.frame, nr.base)
           keys == WriteTable(prefix, both).keys
           of == WriteAll(PassHeader(prefix), nr.passes)
           base == ReadTable(keys, BasePass)
           read == ReadTable(keys, BaseFrame)
           frame == [read EXCEPT !.paper_white_nits = Paper(@)]
           passes == [i \in DOMAIN of \cap 1 .. 4 |-> ReadTable(of[i].keys, base)]
           r == ReadNr(file, prefix)
<1>1. /\ TypedTable(nr.frame, BaseFrame) /\ TypedTable(nr.base, BasePass)
      /\ LegalTable(nr.frame) /\ LegalTable(nr.base)
      /\ TypedTable(nr.frame, nr.frame) /\ TypedTable(nr.base, nr.base)
      /\ DOMAIN nr.frame = DOMAIN BaseFrame /\ DOMAIN nr.base = DOMAIN BasePass
      BY TypedIsKeys DEF TypedNr, LegalNr
<1>2. DOMAIN BaseFrame \cap DOMAIN BasePass = {}
      BY SMT DEF BaseFrame, BasePass
<1>3. r = [base |-> base, frame |-> frame, passes |-> passes]
  <2> DEFINE first == WriteTable(prefix, both)
             one == <<first>>
  <2>1. one # <<>> /\ one[1] = first
        OBVIOUS
  <2>2. Sections(file, prefix) = one
        BY Zenon
  <2> HIDE DEF one
  <2>3. Table(file, prefix) = one[1].keys
        BY <2>1, <2>2, Zenon DEF Table
  <2>4. Table(file, prefix) = keys
        BY <2>1, <2>3, Zenon
  <2> HIDE DEF keys
  <2> QED BY <2>4 DEF ReadNr
<1>4. /\ TypedTable(both, both) /\ DOMAIN both = DOMAIN BaseFrame \cup DOMAIN BasePass
      /\ \A k \in DOMAIN BaseFrame : both[k] = nr.frame[k]
      /\ \A k \in DOMAIN BasePass : both[k] = nr.base[k]
  <2>1. /\ TypedTable(both, both) /\ DOMAIN both = DOMAIN nr.frame \cup DOMAIN nr.base
        /\ \A k \in DOMAIN nr.frame : both[k] = nr.frame[k]
        /\ \A k \in DOMAIN nr.base \ DOMAIN nr.frame : both[k] = nr.base[k]
        BY <1>1, BothTyped
  <2> HIDE DEF both
  <2> QED BY <1>1, <1>2, <2>1
<1> HIDE DEF both
<1>5. /\ DOMAIN keys = DOMAIN BaseFrame \cup DOMAIN BasePass
      /\ \A k \in DOMAIN keys : keys[k] = IF k \in Floats THEN Number(both[k]) ELSE both[k]
      BY <1>4, WriteTableIs
<1> HIDE DEF keys
<1>6. \A k \in DOMAIN BasePass : keys[k] = IF k \in Floats THEN Number(nr.base[k]) ELSE nr.base[k]
      BY <1>4, <1>5
<1>7. \A k \in DOMAIN BaseFrame : keys[k] = IF k \in Floats THEN Number(nr.frame[k]) ELSE nr.frame[k]
      BY <1>4, <1>5
<1>8. TypedTable(base, BasePass) /\ Near(base, nr.base)
  <2>1. Near(base, nr.base)
        BY <1>1, <1>5, <1>6, BaseTables, TableBack
  <2>2. TypedKeys(keys)
    <3>1. TypedSection(WriteTable(prefix, both)) /\ WriteTable(prefix, both).header = prefix
          BY <1>4, WriteTableIs
    <3>2. TypedSection(WriteTable("nr", both)) /\ WriteTable("nr", both).header = "nr"
          BY <1>4, WriteTableIs
    <3>3. WriteTable("nr", both).keys = WriteTable(prefix, both).keys
          BY DEF WriteTable
    <3> QED BY <3>2, <3>3 DEF TypedSection, TypedKeys, keys
  <2> QED BY <2>1, <2>2, BaseTables, ReadIsTyped
<1>9. Near(frame, nr.frame)
  <2> DEFINE p == "paper_white_nits"
             v == nr.frame[p]
  <2>1. /\ DOMAIN read = DOMAIN BaseFrame
        /\ \A k \in DOMAIN BaseFrame :
             /\ k \notin Floats \/ nr.frame[k] = NaN => read[k] = nr.frame[k]
             /\ k \in Floats /\ nr.frame[k] # NaN =>
                  /\ read[k] # NaN /\ read[k] \in Int /\ read[k] = Number(nr.frame[k])
                  /\ read[k] - nr.frame[k] \in -5 .. 5
        BY <1>1, <1>5, <1>7, BaseTables, TableBack
  <2>2. p \in DOMAIN BaseFrame /\ p \in Floats
        BY Ranges, SMT DEF BaseFrame
  <2>3. read[p] = Paper(read[p])
    <3>1. CASE v = NaN
      <4>1. read[p] = NaN
            BY <2>1, <2>2, <3>1
      <4> QED BY <4>1 DEF Paper
    <3>2. CASE v # NaN
      <4>1. v \in Int /\ read[p] \in Int /\ read[p] # NaN /\ read[p] = Number(v)
        <5>1. v \in Int \cup {NaN}
              BY <1>1, <2>2 DEF TypedTable, IsTyped
        <5> QED BY <2>1, <2>2, <3>2, <5>1
      <4>2. v = 0 \/ v >= 80000
            BY <3>2 DEF LegalNr
      <4>3. CASE v = 0
            BY <4>1, <4>3 DEF Paper, Number
      <4>4. CASE v >= 80000
        <5> DEFINE n == 8000
        <5> HIDE DEF v
        <5>1. n \in Int /\ 10 * n <= v /\ v \in Int \cup {NaN} /\ v # NaN
              BY <3>2, <4>1, <4>4
        <5> HIDE DEF n
        <5>2. 10 * n <= Number(v)
              BY <5>1, NumberIs
        <5>3. 80000 <= read[p]
              BY <4>1, <5>2 DEF n
        <5> QED BY <4>1, <5>3 DEF Paper
      <4> QED BY <4>2, <4>3, <4>4
    <3> QED BY <3>1, <3>2
  <2>4. DOMAIN frame = DOMAIN read /\ \A k \in DOMAIN read : frame[k] = read[k]
    <3>1. /\ DOMAIN frame = DOMAIN read
          /\ \A k \in DOMAIN read : frame[k] = IF k = p THEN Paper(read[p]) ELSE read[k]
          OBVIOUS
    <3> HIDE DEF frame, read
    <3> QED BY <2>3, <3>1
  <2> HIDE DEF frame, read, p
  <2>5. ASSUME NEW k \in DOMAIN frame
        PROVE IF k \in Floats /\ frame[k] # NaN /\ nr.frame[k] # NaN THEN frame[k] - nr.frame[k] \in -5 .. 5
              ELSE frame[k] = nr.frame[k]
        BY <2>1, <2>4
  <2> QED BY <1>1, <2>1, <2>4, <2>5, Zenon DEF Near
<1>10. /\ IsSeq(nr.passes) /\ Len(nr.passes) \in 0 .. 4 /\ DOMAIN nr.passes = 1 .. Len(nr.passes)
       /\ \A i \in DOMAIN nr.passes : /\ TypedTable(nr.passes[i], BasePass) /\ LegalTable(nr.passes[i])
                                      /\ TypedTable(nr.passes[i], nr.passes[i])
  <2>1. /\ IsSeq(nr.passes)
        /\ \A i \in DOMAIN nr.passes : TypedTable(nr.passes[i], BasePass)
        BY DEF TypedNr
  <2>2. Len(nr.passes) <= 4 /\ \A i \in DOMAIN nr.passes : LegalTable(nr.passes[i])
        BY DEF LegalNr
  <2>3. Len(nr.passes) \in Nat /\ DOMAIN nr.passes = 1 .. Len(nr.passes)
        BY <2>1, SeqHas
  <2>4. \A i \in DOMAIN nr.passes : TypedTable(nr.passes[i], nr.passes[i])
        BY <2>1, TypedIsKeys
  <2>5. Len(nr.passes) \in 0 .. 4
    <3> DEFINE n == Len(nr.passes)
    <3>1. n \in Nat /\ n <= 4
          BY <2>2, <2>3, Zenon
    <3> HIDE DEF n
    <3>2. n \in 0 .. 4
          BY <3>1
    <3> QED BY <3>2 DEF n
  <2> QED BY <2>1, <2>2, <2>3, <2>4, <2>5, Zenon
<1>11. /\ TypedFile(of) /\ Len(of) = Len(nr.passes)
       /\ \A i \in 1 .. Len(nr.passes) : of[i] = WriteTable(PassHeader(prefix), nr.passes[i])
       BY <1>10, WriteAllIs
<1> HIDE DEF of, base, frame
<1>12. DOMAIN of \cap 1 .. 4 = 1 .. Len(nr.passes)
  <2>1. DOMAIN of = 1 .. Len(nr.passes)
        BY <1>11, SeqHas DEF TypedFile
  <2> QED BY <1>10, <2>1
<1>13. /\ passes = [i \in 1 .. Len(nr.passes) |-> passes[i]]
       /\ \A i \in 1 .. Len(nr.passes) : passes[i] = ReadTable(of[i].keys, base)
       BY <1>12
<1> HIDE DEF passes
<1>14. Len(passes) = Len(nr.passes) /\ DOMAIN passes = 1 .. Len(nr.passes)
       BY <1>10, <1>13, BuiltSeq
<1>15. ASSUME NEW i \in DOMAIN passes PROVE Near(passes[i], nr.passes[i])
  <2> DEFINE t == nr.passes[i]
             ks == of[i].keys
  <2>1. TypedTable(t, BasePass) /\ LegalTable(t) /\ TypedTable(t, t) /\ DOMAIN t = DOMAIN BasePass
        BY <1>10, <1>14, TypedIsKeys
  <2>2. of[i] = WriteTable(PassHeader(prefix), t)
        BY <1>11, <1>14
  <2>3. passes[i] = ReadTable(ks, base)
        BY <1>13, <1>14
  <2> HIDE DEF t
  <2>4. /\ DOMAIN ks = DOMAIN BasePass
        /\ \A k \in DOMAIN BasePass : ks[k] = IF k \in Floats THEN Number(t[k]) ELSE t[k]
        BY <2>1, <2>2, WriteTableIs
  <2> HIDE DEF ks
  <2>5. Near(ReadTable(ks, base), t)
        BY <1>8, <2>1, <2>4, TableBack
  <2> QED BY <2>3, <2>5 DEF t
<1> HIDE DEF r
<1>16. r.base = base /\ r.frame = frame /\ r.passes = passes
       BY <1>3
<1>17. NearNr(r, nr)
       BY <1>8, <1>9, <1>14, <1>15, <1>16 DEF NearNr
<1> QED BY <1>17 DEF r

LEMMA LooksWritten ==
  ASSUME NEW looks, IsSeq(looks)
  PROVE  /\ TypedFile(WriteStrings("app_look", looks))
         /\ Len(WriteStrings("app_look", looks)) = Len(looks)
         /\ \A i \in 1 .. Len(looks) :
              WriteStrings("app_look", looks)[i] = [header |-> "app_look", keys |-> looks[i]]
BY WriteStringsIs

LEMMA LooksBack ==
  ASSUME NEW c, TypedConfig(c)
  PROVE  ReadLooks(FileOf(c)) = c.looks
<1> DEFINE file == FileOf(c)
           looks == c.looks
           of == WriteStrings("app_look", looks)
           n == Len(looks)
<1>1. TypedLooks(looks) /\ IsSeq(looks) /\ n \in Nat /\ DOMAIN looks = 1 .. n
      BY SeqHas DEF TypedConfig, TypedLooks
<1>2. Sections(file, "app_look") = of
      BY PartsOfFile
<1>3. /\ TypedFile(of) /\ Len(of) = n
      /\ \A i \in 1 .. n : of[i] = [header |-> "app_look", keys |-> looks[i]]
      BY <1>1, LooksWritten, Zenon
<1> HIDE DEF of
<1>4. PICK r : /\ r[0] = <<>>
               /\ \A i \in 1 .. Len(of) : r[i] = AddLook(r[i - 1], of[i])
               /\ ReadLooks(file) = r[Len(of)]
  <2>1. IsSeq(Sections(file, "app_look"))
        BY <1>2, <1>3 DEF TypedFile
  <2> HIDE DEF file
  <2> QED BY <1>2, <2>1, LooksSteps
<1> HIDE DEF file, n, looks
<1> DEFINE First(s, i) == /\ TypedLooks(s) /\ IsSeq(s) /\ Len(s) = i
                          /\ \A j \in 1 .. i : s[j] = looks[j]
           I == {i \in Nat : i <= n => First(r[i], i)}
<1>5. 0 \in I
  <2> DEFINE none == <<>>
  <2>1. IsSeq(none) /\ Len(none) = 0
    <3>1. none \in Seq({}) /\ Len(none) = 0
          OBVIOUS
    <3> HIDE DEF none
    <3> QED BY <3>1, SeqIs
  <2>2. TypedLooks(none)
        BY NoLooks
  <2> HIDE DEF none
  <2>3. First(none, 0)
        BY <2>1, <2>2
  <2>4. r[0] = none
        BY <1>4 DEF none
  <2> HIDE DEF First
  <2> QED BY <2>3, <2>4
<1>6. ASSUME NEW i \in Nat, i \in I PROVE i + 1 \in I
  <2> SUFFICES ASSUME i + 1 <= n PROVE First(r[i + 1], i + 1)
      OBVIOUS
  <2> DEFINE s == r[i]
             l == looks[i + 1]
  <2>1. i + 1 \in 1 .. n /\ (i + 1) - 1 = i /\ First(s, i)
        BY <1>1, <1>6
  <2>2. r[i + 1] = AddLook(s, of[i + 1])
        BY <1>3, <1>4, <2>1
  <2>3. of[i + 1].keys = l
        BY <1>3, <2>1
  <2>4. TypedLook(l)
        BY <1>1, <2>1 DEF TypedLooks
  <2>5. \A j \in DOMAIN s : s[j].window_class # l.window_class
    <3>1. DOMAIN s = 1 .. i
          BY <2>1, SeqHas
    <3>2. ASSUME NEW j \in 1 .. i PROVE s[j].window_class # l.window_class
      <4>1. j \in DOMAIN looks /\ i + 1 \in DOMAIN looks /\ j # i + 1 /\ s[j] = looks[j]
            BY <1>1, <2>1
      <4> QED BY <1>1, <4>1 DEF TypedLooks
    <3> QED BY <3>1, <3>2
  <2> HIDE DEF s, l
  <2>6. r[i + 1] = Append(s, l) /\ TypedLooks(r[i + 1])
        BY <2>1, <2>2, <2>3, <2>4, <2>5, AddLookIs
  <2>7. /\ IsSeq(Append(s, l)) /\ Len(Append(s, l)) = i + 1
        /\ \A j \in 1 .. i : Append(s, l)[j] = s[j]
        /\ Append(s, l)[i + 1] = l
        BY <2>1, AppendedSeq
  <2> DEFINE m == Append(s, l)
  <2> HIDE DEF m
  <2>8. /\ IsSeq(m) /\ Len(m) = i + 1 /\ m[i + 1] = looks[i + 1] /\ TypedLooks(m)
        /\ \A j \in 1 .. i : m[j] = looks[j]
        BY <2>1, <2>6, <2>7 DEF m, l
  <2>9. \A j \in 1 .. i + 1 : m[j] = looks[j]
    <3>1. \A j \in 1 .. i + 1 : j \in 1 .. i \/ j = i + 1
          OBVIOUS
    <3> QED BY <2>8, <3>1
  <2>10. r[i + 1] = m
        BY <2>6 DEF m
  <2> QED BY <2>8, <2>9, <2>10
<1> HIDE DEF I
<1>7. n \in I
      BY <1>1, <1>5, <1>6, Induction
<1>8. First(r[n], n)
      BY <1>1, <1>7 DEF I
<1>9. r[n] = looks
      BY <1>1, <1>8, SameSeq DEF n
<1> QED BY <1>3, <1>4, <1>9 DEF file, looks

LEMMA RectsBack ==
  ASSUME NEW c, TypedConfig(c)
  PROVE  ReadRects(FileOf(c)) = c.rects
<1> DEFINE rects == c.rects
           of == WriteStrings("ui_mask", rects)
           read == [i \in DOMAIN of |->
                     [e \in DOMAIN NoRect |-> IF Says(of[i].keys, e) THEN Wrapped(of[i].keys[e]) ELSE 0]]
<1>1. TypedRects(rects) /\ IsSeq(rects) /\ Len(rects) \in Nat /\ DOMAIN rects = 1 .. Len(rects)
      BY SeqHas DEF TypedConfig, TypedRects
<1>2. Sections(FileOf(c), "ui_mask") = of
      BY PartsOfFile
<1>3. ReadRects(FileOf(c)) = read
      BY <1>2, Zenon DEF ReadRects
<1>4. /\ TypedFile(of) /\ Len(of) = Len(rects)
      /\ \A i \in 1 .. Len(rects) : of[i] = [header |-> "ui_mask", keys |-> rects[i]]
  <2>1. \A i \in DOMAIN rects : TypedKeys(rects[i])
        BY RectsWritten DEF TypedConfig
  <2> QED BY <1>1, <2>1, WriteStringsIs
<1> HIDE DEF of
<1>5. DOMAIN of = DOMAIN rects
      BY <1>1, <1>4, SeqHas DEF TypedFile
<1>6. /\ read = [i \in DOMAIN rects |-> read[i]]
      /\ \A i \in DOMAIN rects :
           read[i] = [e \in DOMAIN NoRect |-> IF Says(of[i].keys, e) THEN Wrapped(of[i].keys[e]) ELSE 0]
      BY <1>5
<1> HIDE DEF read, rects
<1>7. ASSUME NEW i \in DOMAIN rects PROVE read[i] = rects[i]
  <2> DEFINE t == rects[i]
  <2>1. /\ t = [e \in DOMAIN NoRect |-> t[e]]
        /\ \A e \in DOMAIN NoRect : t[e] \in Int /\ Wrapped(t[e]) = t[e]
        BY <1>1 DEF TypedRects
  <2>2. of[i].keys = t
    <3>1. i \in 1 .. Len(rects)
          BY <1>1
    <3>2. of[i] = [header |-> "ui_mask", keys |-> t]
          BY <1>4, <3>1
    <3> HIDE DEF t
    <3> QED BY <3>2
  <2> HIDE DEF t
  <2>3. DOMAIN t = DOMAIN NoRect
        BY <2>1, Zenon
  <2>4. \A e \in DOMAIN NoRect : (IF Says(of[i].keys, e) THEN Wrapped(of[i].keys[e]) ELSE 0) = t[e]
        BY <2>1, <2>2, <2>3, NotWrong DEF Says
  <2>5. read[i] = [e \in DOMAIN NoRect |-> t[e]]
        BY <1>6, <2>4, Zenon
  <2> QED BY <2>1, <2>5, Zenon DEF t
<1>8. read = rects
  <2>1. IsSeq(read) /\ Len(read) = Len(rects)
    <3>1. read = [i \in 1 .. Len(rects) |-> read[i]]
          BY <1>1, <1>6, Zenon
    <3> QED BY <1>1, <3>1, BuiltSeq
  <2> QED BY <1>1, <1>7, <2>1, SameSeq
<1> QED BY <1>3, <1>8 DEF rects

\* The first section of a name, when it is the only one.
LEMMA OneTable ==
  ASSUME NEW file, NEW header, NEW s, Sections(file, header) = <<s>>
  PROVE  Table(file, header) = s.keys
<1> DEFINE one == <<s>>
<1>1. one # <<>> /\ one[1] = s
      OBVIOUS
<1>2. Sections(file, header) = one
      BY Zenon
<1> HIDE DEF one
<1>3. Table(file, header) = one[1].keys
      BY <1>1, <1>2, Zenon DEF Table
<1> QED BY <1>1, <1>3, Zenon

LEMMA AppBack ==
  ASSUME NEW c, TypedConfig(c)
  PROVE  ReadString(Table(FileOf(c), "app"), NoApp) = c.app
<1> DEFINE app == c.app
           keys == WriteTable("app", app).keys
<1>1. TypedTable(app, NoApp) /\ TypedTable(app, app) /\ DOMAIN app = DOMAIN NoApp
      BY TypedIsKeys DEF TypedConfig
<1>2. Table(FileOf(c), "app") = keys
  <2>1. Sections(FileOf(c), "app") = <<WriteTable("app", c.app)>>
        BY PartsOfFile
  <2> QED BY <2>1, OneTable
<1> HIDE DEF app
<1>3. /\ DOMAIN keys = DOMAIN NoApp
      /\ \A k \in DOMAIN NoApp : keys[k] = IF k \in Floats THEN Number(app[k]) ELSE app[k]
      BY <1>1, WriteTableIs
<1> HIDE DEF keys
<1>4. \A k \in DOMAIN NoApp : k \notin Floats
  <2>1. DOMAIN NoApp = {"name", "window_class", "title"}
        BY SMT DEF NoApp
  <2> QED BY <2>1, Ranges
<1>5. \A k \in DOMAIN NoApp : Says(keys, k) /\ keys[k] = app[k]
      BY <1>1, <1>3, <1>4 DEF Says, TypedTable
<1>6. ReadString(keys, NoApp) = [k \in DOMAIN NoApp |-> app[k]]
      BY <1>5, Zenon DEF ReadString
<1>7. ReadString(keys, NoApp) = app
      BY <1>1, <1>6, Zenon DEF TypedTable
<1> QED BY <1>2, <1>7 DEF app

LEMMA TopBack ==
  ASSUME NEW c, TypedConfig(c), LegalTable(c.top)
  PROVE  Near([ReadTop(Table(FileOf(c), "top"), BaseTop) EXCEPT
                 !.depth_mode = IF @ \in {"flat", "gradient"} THEN @ ELSE "flat"], c.top)
<1> DEFINE t == c.top
           keys == WriteTable("top", t).keys
           read == ReadTable(keys, BaseTop)
           top == ReadTop(keys, BaseTop)
           u == [top EXCEPT !.depth_mode = IF @ \in {"flat", "gradient"} THEN @ ELSE "flat"]
<1>1. /\ TypedTop(t, BaseTop) /\ TypedTable(t, BaseTop) /\ TypedTable(t, t)
      /\ DOMAIN t = DOMAIN BaseTop /\ t.depth_mode \in {"flat", "gradient"}
      BY TypedIsKeys DEF TypedConfig, TypedTop
<1>2. Table(FileOf(c), "top") = keys
  <2>1. Sections(FileOf(c), "top") = <<WriteTable("top", c.top)>>
        BY PartsOfFile
  <2> QED BY <2>1, OneTable
<1>3. LegalTable(t)
      OBVIOUS
<1> HIDE DEF t
<1>4. /\ DOMAIN keys = DOMAIN BaseTop
      /\ \A k \in DOMAIN BaseTop : keys[k] = IF k \in Floats THEN Number(t[k]) ELSE t[k]
      BY <1>1, WriteTableIs
<1>5. TypedKeys(keys)
  <2>1. TypedSection(WriteTable("top", t)) /\ WriteTable("top", t).header = "top"
        BY <1>1, WriteTableIs
  <2> QED BY <2>1 DEF TypedSection, TypedKeys
<1> HIDE DEF keys
<1>6. /\ DOMAIN read = DOMAIN BaseTop /\ Near(read, t)
      /\ \A k \in DOMAIN BaseTop : k \notin Floats => read[k] = t[k]
  <2>1. /\ DOMAIN read = DOMAIN BaseTop /\ Near(read, t)
        /\ \A k \in DOMAIN BaseTop : k \notin Floats \/ t[k] = NaN => read[k] = t[k]
        BY <1>1, <1>3, <1>4, BaseTables, TableBack
  <2> QED BY <2>1
<1>7. /\ {"neural_pass", "flow_grid_size", "depth_mode"} \subseteq DOMAIN BaseTop
      /\ BaseTop.neural_pass \notin {"reshade", "ngx"}
      BY SMT DEF BaseTop
<1>8. {"neural_pass", "flow_grid_size", "depth_mode"} \cap Floats = {}
      BY Ranges
<1>9. /\ TypedTop(top, BaseTop)
      /\ \A k \in DOMAIN BaseTop \ {"neural_pass", "flow_grid_size"} : top[k] = read[k]
      /\ top.neural_pass = IF read.neural_pass \in {"reshade", "ngx"} THEN "direct" ELSE read.neural_pass
      /\ top.flow_grid_size = IF read.flow_grid_size \in {1, 2, 4} THEN read.flow_grid_size
                              ELSE BaseTop.flow_grid_size
  <2>1. TypedTop(BaseTop, BaseTop)
        BY <1>7, BaseTables DEF TypedTop
  <2> HIDE DEF top, read
  <2> QED BY <1>5, <1>7, <2>1, BaseTables, ReadTopIs DEF top, read
<1>10. DOMAIN top = DOMAIN BaseTop
       BY <1>9, TypedIsKeys DEF TypedTop
<1> HIDE DEF read, top
<1>11. top.neural_pass = t.neural_pass
  <2>1. read.neural_pass = t.neural_pass
        BY <1>6, <1>7, <1>8
  <2> QED BY <1>1, <1>9, <2>1 DEF TypedTop
<1>12. top.flow_grid_size = t.flow_grid_size
  <2>1. read.flow_grid_size = t.flow_grid_size
        BY <1>6, <1>7, <1>8
  <2>2. t.flow_grid_size \in {1, 2, 4}
        BY <1>1, <1>3, <1>7 DEF LegalTable, IsLegal
  <2> QED BY <1>9, <2>1, <2>2
<1>13. top.depth_mode = t.depth_mode
  <2>1. read.depth_mode = t.depth_mode
        BY <1>6, <1>7, <1>8
  <2> QED BY <1>7, <1>9, <2>1
<1>14. DOMAIN u = DOMAIN BaseTop /\ \A k \in DOMAIN BaseTop : u[k] = top[k]
  <2>1. /\ DOMAIN u = DOMAIN top
        /\ \A k \in DOMAIN top : k # "depth_mode" => u[k] = top[k]
        /\ "depth_mode" \in DOMAIN top =>
             u["depth_mode"] = IF top.depth_mode \in {"flat", "gradient"} THEN top.depth_mode ELSE "flat"
        OBVIOUS
  <2>2. u["depth_mode"] = top.depth_mode
        BY <1>1, <1>7, <1>10, <1>13, <2>1
  <2> HIDE DEF u
  <2> QED BY <1>10, <2>1, <2>2
<1> HIDE DEF u
<1>15. ASSUME NEW k \in DOMAIN u
       PROVE IF k \in Floats /\ u[k] # NaN /\ t[k] # NaN THEN u[k] - t[k] \in -5 .. 5 ELSE u[k] = t[k]
  <2>1. IF k \in Floats /\ read[k] # NaN /\ t[k] # NaN THEN read[k] - t[k] \in -5 .. 5
        ELSE read[k] = t[k]
        BY <1>6, <1>14 DEF Near
  <2>2. CASE k \in {"neural_pass", "flow_grid_size"}
    <3>1. u[k] = t[k] /\ k \notin Floats
          BY <1>8, <1>11, <1>12, <1>14, <2>2
    <3> QED BY <3>1
  <2>3. CASE k \notin {"neural_pass", "flow_grid_size"}
    <3>1. u[k] = read[k]
          BY <1>9, <1>14, <2>3
    <3> QED BY <2>1, <3>1
  <2> QED BY <2>2, <2>3
<1>16. Near(u, t)
       BY <1>1, <1>14, <1>15, Zenon DEF Near
<1> QED BY <1>2, <1>16 DEF u, t, top

\* A configuration that is written reads back as itself, to the digits of the text
\* (SerializeConfig and ParseConfig, Config.cpp; test_config.cpp).
THEOREM WrittenBack == CodecSpec => []WrittenReadsBack
<1>1. CodecInv => WrittenReadsBack
  <2> SUFFICES ASSUME CodecInv, saved # None, ~ NotWritten(saved), LegalTable(saved.top), LegalNr(saved.nr)
               PROVE  LET read == ParseConfig(text)
                      IN /\ Near(read.top, saved.top) /\ NearNr(read.nr, saved.nr)
                         /\ read.app = saved.app /\ read.looks = saved.looks
                         /\ read.rects = saved.rects
      BY DEF WrittenReadsBack
  <2> DEFINE c == saved
             file == FileOf(c)
             read == ParseConfig(file)
             top == [ReadTop(Table(file, "top"), BaseTop) EXCEPT
                       !.depth_mode = IF @ \in {"flat", "gradient"} THEN @ ELSE "flat"]
             app == ReadString(Table(file, "app"), NoApp)
             nr == ReadNr(file, "nr")
             looks == ReadLooks(file)
             rects == ReadRects(file)
  <2>1. TypedConfig(c) /\ text = file /\ file # Unreadable
        BY SerializeIs DEF CodecInv, NotWritten
  <2>2. read = [top |-> top, app |-> app, nr |-> nr, looks |-> looks, rects |-> rects]
    <3>1. Defaults.top = BaseTop /\ Defaults.app = NoApp
          BY DEF Defaults
    <3> HIDE DEF file
    <3> QED BY <2>1, <3>1 DEF ParseConfig
  <2>3. Near(top, c.top)
        BY <2>1, TopBack
  <2>4. app = c.app /\ looks = c.looks /\ rects = c.rects
        BY <2>1, AppBack, LooksBack, RectsBack
  <2>5. NearNr(nr, c.nr)
    <3>1. TypedNr(c.nr) /\ LegalNr(c.nr)
          BY <2>1 DEF TypedConfig
    <3>2. Sections(file, "nr") = <<WriteTable("nr", Both(c.nr.frame, c.nr.base))>>
          BY <2>1, PartsOfFile
    <3>3. Sections(file, "nr.pass") = WriteAll("nr.pass", c.nr.passes)
          BY <2>1, PartsOfFile
    <3>4. PassHeader("nr") = "nr.pass"
          BY DEF PassHeader
    <3> HIDE DEF file, c
    <3> QED BY <3>1, <3>2, <3>3, <3>4, NrBack
  <2> HIDE DEF top, app, nr, looks, rects, read
  <2>6. read.top = top /\ read.app = app /\ read.nr = nr /\ read.looks = looks /\ read.rects = rects
        BY <2>2
  <2>7. /\ Near(read.top, c.top) /\ NearNr(read.nr, c.nr)
        /\ read.app = c.app /\ read.looks = c.looks /\ read.rects = c.rects
        BY <2>3, <2>4, <2>5, <2>6
  <2> QED BY <2>1, <2>7 DEF read
<1> QED BY <1>1, CodecTyped, PTL

-------------------------------------------------------------------------------
(* What is read of any value that was written, legal or not.               *)

Rounded(k, v) == IF k \in Floats THEN Number(v) ELSE v
Reread(k, v) == Legal(k, Rounded(k, v))
RereadTable(t) == [k \in DOMAIN t |-> Reread(k, t[k])]
RereadNr(nr) ==
  [base |-> RereadTable(nr.base),
   frame |-> [RereadTable(nr.frame) EXCEPT !.paper_white_nits = Paper(@)],
   passes |-> [i \in DOMAIN nr.passes \cap 1 .. 4 |-> RereadTable(nr.passes[i])]]
RereadTop(k, v) ==
  IF k = "flow_grid_size" THEN IF v \in {1, 2, 4} THEN v ELSE 4 ELSE Reread(k, v)

\* A number is still one, and nothing becomes of another type.
LEMMA RereadIs ==
  ASSUME NEW k, NEW v, v # Wrong, IsTyped(k, v)
  PROVE  /\ Rounded(k, v) # Wrong /\ IsTyped(k, Rounded(k, v))
         /\ v # NaN => Reread(k, v) # NaN
<1> DEFINE w == Rounded(k, v)
<1>1. w # Wrong /\ IsTyped(k, w) /\ (v # NaN => w # NaN)
  <2>1. CASE k \in Floats
    <3>1. v \in Int \cup {NaN} /\ k \notin Ints \cup DOMAIN NoRect /\ w = Number(v)
          BY <2>1, Ranges DEF IsTyped, Rounded
    <3>2. w \in Int \cup {NaN} /\ (v # NaN => w # NaN)
          BY <3>1, NumberIs
    <3> QED BY <3>1, <3>2, NotWrong DEF IsTyped
  <2>2. CASE k \notin Floats
    <3>1. w = v
          BY <2>2 DEF Rounded
    <3> QED BY <3>1
  <2> QED BY <2>1, <2>2
<1>2. Reread(k, v) = Legal(k, w)
      BY DEF Reread
<1> HIDE DEF w
<1>3. ASSUME w # NaN PROVE Legal(k, w) # NaN
  <2>1. CASE k \in Floats
    <3>1. w \in Int /\ Legal(k, w) = Clamp(w, FloatRange[k])
      <4>1. w \in Int \cup {NaN} /\ k \notin Ints
            BY <1>1, <2>1, Ranges DEF IsTyped
      <4>2. Legal(k, w) = IF w = NaN THEN NaN ELSE Clamp(w, FloatRange[k])
            BY <2>1, <4>1 DEF Legal
      <4> QED BY <1>3, <4>1, <4>2
    <3>2. Legal(k, w) \in Int
          BY <2>1, <3>1, Ranges, ClampIn
    <3> QED BY <3>2, CodecAssumption
  <2>2. CASE k \in Ints
    <3>1. w \in Int /\ k \notin Floats
          BY <1>1, <2>2, Ranges DEF IsTyped
    <3>2. Wrapped(w) \in Int /\ Legal(k, w) = Clamp(Wrapped(w), IntRange[k])
          BY <2>2, <3>1, WrappedIn DEF Legal
    <3>3. Legal(k, w) \in Int
          BY <2>2, <3>2, Ranges, ClampIn
    <3> QED BY <3>3, CodecAssumption
  <2>3. CASE k \notin Floats \cup Ints
    <3>1. Legal(k, w) = w
          BY <1>1, <2>3, LegalValue
    <3> QED BY <1>3, <3>1
  <2> QED BY <2>1, <2>2, <2>3
<1> QED BY <1>1, <1>2, <1>3 DEF w

LEMMA TableReread ==
  ASSUME NEW t, NEW like, TypedTable(t, like), NEW inherited, DOMAIN inherited = DOMAIN like,
         NEW keys, DOMAIN like \subseteq DOMAIN keys,
         \A k \in DOMAIN like : keys[k] = Rounded(k, t[k])
  PROVE  ReadTable(keys, inherited) = RereadTable(t)
<1>1. DOMAIN t = DOMAIN like
      BY Zenon DEF TypedTable
<1>2. ASSUME NEW k \in DOMAIN like
      PROVE  (IF Says(keys, k) THEN Legal(k, keys[k]) ELSE inherited[k]) = Reread(k, t[k])
  <2>1. t[k] # Wrong /\ IsTyped(k, t[k])
        BY DEF TypedTable
  <2>2. Rounded(k, t[k]) # Wrong
        BY <2>1, RereadIs
  <2>3. Says(keys, k) /\ keys[k] = Rounded(k, t[k])
        BY <2>2 DEF Says
  <2> QED BY <2>3 DEF Reread
<1>3. ReadTable(keys, inherited)
        = [k \in DOMAIN like |-> IF Says(keys, k) THEN Legal(k, keys[k]) ELSE inherited[k]]
      BY Zenon DEF ReadTable
<1>4. RereadTable(t) = [k \in DOMAIN like |-> Reread(k, t[k])]
      BY <1>1, Zenon DEF RereadTable
<1> QED BY <1>2, <1>3, <1>4, Zenon

\* Tables that are the same and free of numbers that are none stay so.
LEMMA SameReread ==
  ASSUME NEW t, NEW like, TypedTable(t, like), NEW u, Same(t, u)
  PROVE  Same(RereadTable(t), RereadTable(u))
<1>1. t = u /\ DOMAIN t = DOMAIN like /\ \A k \in DOMAIN t : t[k] # NaN
      BY Zenon DEF TypedTable, Same
<1>2. \A k \in DOMAIN t : Reread(k, t[k]) # NaN
  <2>1. \A k \in DOMAIN t : t[k] # Wrong /\ IsTyped(k, t[k])
        BY <1>1 DEF TypedTable
  <2> QED BY <1>1, <2>1, RereadIs
<1>3. \A k \in DOMAIN RereadTable(t) : RereadTable(t)[k] # NaN
      BY <1>2 DEF RereadTable
<1> QED BY <1>1, <1>3 DEF Same

\* A table of legal values with no digit after the second is as it was.
LEMMA TableStays ==
  ASSUME NEW t, NEW like, TypedTable(t, like), LegalTable(t),
         \A k \in DOMAIN t \cap Floats : t[k] = Number(t[k])
  PROVE  RereadTable(t) = t /\ \A k \in DOMAIN t : Reread(k, t[k]) = t[k]
<1>1. DOMAIN t = DOMAIN like /\ t = [k \in DOMAIN like |-> t[k]]
      BY Zenon DEF TypedTable
<1>2. ASSUME NEW k \in DOMAIN t PROVE Reread(k, t[k]) = t[k]
  <2> DEFINE v == t[k]
             w == Rounded(k, v)
  <2>1. v # Wrong /\ IsTyped(k, v) /\ IsLegal(k, v)
        BY <1>1 DEF TypedTable, LegalTable
  <2>2. w = IF k \in Floats THEN Number(v) ELSE v
        BY DEF Rounded
  <2>3. k \in Floats => Number(v) = v
        BY <1>2
  <2>4. Reread(k, t[k]) = Legal(k, w)
        BY DEF Reread
  <2> HIDE DEF v, w
  <2>5. /\ k \notin Floats \/ v = NaN => Legal(k, w) = v
        /\ k \in Floats /\ v # NaN => Legal(k, w) = w
        BY <2>1, <2>2, ValueBack
  <2>6. Legal(k, w) = v
        BY <2>2, <2>3, <2>5
  <2> QED BY <2>4, <2>6 DEF v
<1>3. RereadTable(t) = [k \in DOMAIN like |-> t[k]]
      BY <1>1, <1>2, Zenon DEF RereadTable
<1> QED BY <1>1, <1>2, <1>3

LEMMA RereadTableIs ==
  ASSUME NEW t
  PROVE  /\ DOMAIN RereadTable(t) = DOMAIN t
         /\ \A k \in DOMAIN t : RereadTable(t)[k] = Reread(k, t[k])
BY DEF RereadTable

LEMMA NrReread ==
  ASSUME NEW nr, TypedNr(nr), NEW file, NEW prefix,
         Sections(file, prefix) = <<WriteTable(prefix, Both(nr.frame, nr.base))>>,
         Sections(file, PassHeader(prefix)) = WriteAll(PassHeader(prefix), nr.passes)
  PROVE  ReadNr(file, prefix) = RereadNr(nr)
<1> DEFINE both == Both(nr.frame, nr.base)
           keys == WriteTable(prefix, both).keys
           of == WriteAll(PassHeader(prefix), nr.passes)
           base == ReadTable(keys, BasePass)
           read == ReadTable(keys, BaseFrame)
           passes == [i \in DOMAIN of \cap 1 .. 4 |-> ReadTable(of[i].keys, base)]
<1>1. /\ TypedTable(nr.frame, BaseFrame) /\ TypedTable(nr.base, BasePass)
      /\ TypedTable(nr.frame, nr.frame) /\ TypedTable(nr.base, nr.base)
      /\ DOMAIN nr.frame = DOMAIN BaseFrame /\ DOMAIN nr.base = DOMAIN BasePass
      BY TypedIsKeys DEF TypedNr
<1>2. DOMAIN BaseFrame \cap DOMAIN BasePass = {}
      BY SMT DEF BaseFrame, BasePass
<1>3. ReadNr(file, prefix)
        = [base |-> base, frame |-> [read EXCEPT !.paper_white_nits = Paper(@)], passes |-> passes]
  <2>1. Table(file, prefix) = keys
        BY OneTable
  <2> HIDE DEF keys
  <2> QED BY <2>1 DEF ReadNr
<1>4. /\ TypedTable(both, both) /\ DOMAIN both = DOMAIN BaseFrame \cup DOMAIN BasePass
      /\ \A k \in DOMAIN BaseFrame : both[k] = nr.frame[k]
      /\ \A k \in DOMAIN BasePass : both[k] = nr.base[k]
  <2>1. /\ TypedTable(both, both) /\ DOMAIN both = DOMAIN nr.frame \cup DOMAIN nr.base
        /\ \A k \in DOMAIN nr.frame : both[k] = nr.frame[k]
        /\ \A k \in DOMAIN nr.base \ DOMAIN nr.frame : both[k] = nr.base[k]
        BY <1>1, BothTyped
  <2> HIDE DEF both
  <2> QED BY <1>1, <1>2, <2>1
<1> HIDE DEF both
<1>5. /\ DOMAIN keys = DOMAIN BaseFrame \cup DOMAIN BasePass
      /\ \A k \in DOMAIN keys : keys[k] = Rounded(k, both[k])
      BY <1>4, WriteTableIs DEF Rounded
<1> HIDE DEF keys
<1>6. /\ \A k \in DOMAIN BasePass : keys[k] = Rounded(k, nr.base[k])
      /\ \A k \in DOMAIN BaseFrame : keys[k] = Rounded(k, nr.frame[k])
      BY <1>4, <1>5
<1>7. base = RereadTable(nr.base)
      BY <1>1, <1>5, <1>6, TableReread
<1>8. read = RereadTable(nr.frame)
      BY <1>1, <1>5, <1>6, TableReread
<1>9. DOMAIN base = DOMAIN BasePass
      BY <1>1, <1>7, RereadTableIs
<1>10. /\ IsSeq(nr.passes) /\ DOMAIN nr.passes = 1 .. Len(nr.passes)
       /\ \A i \in DOMAIN nr.passes : /\ TypedTable(nr.passes[i], BasePass)
                                      /\ TypedTable(nr.passes[i], nr.passes[i])
                                      /\ DOMAIN nr.passes[i] = DOMAIN BasePass
  <2>1. IsSeq(nr.passes) /\ \A i \in DOMAIN nr.passes : TypedTable(nr.passes[i], BasePass)
        BY DEF TypedNr
  <2>2. DOMAIN nr.passes = 1 .. Len(nr.passes)
        BY <2>1, SeqHas
  <2>3. \A i \in DOMAIN nr.passes : TypedTable(nr.passes[i], nr.passes[i])
                                    /\ DOMAIN nr.passes[i] = DOMAIN BasePass
        BY <2>1, TypedIsKeys
  <2> QED BY <2>1, <2>2, <2>3, Zenon
<1>11. /\ TypedFile(of) /\ Len(of) = Len(nr.passes)
       /\ \A i \in 1 .. Len(nr.passes) : of[i] = WriteTable(PassHeader(prefix), nr.passes[i])
       BY <1>10, WriteAllIs
<1>12. DOMAIN of = DOMAIN nr.passes
  <2>1. DOMAIN of = 1 .. Len(of)
        BY <1>11, SeqHas DEF TypedFile
  <2> QED BY <1>10, <1>11, <2>1, Zenon
<1> HIDE DEF of, base, read
<1>13. ASSUME NEW i \in DOMAIN nr.passes
       PROVE  ReadTable(of[i].keys, base) = RereadTable(nr.passes[i])
  <2> DEFINE t == nr.passes[i]
             ks == of[i].keys
  <2>1. TypedTable(t, BasePass) /\ TypedTable(t, t) /\ DOMAIN t = DOMAIN BasePass
        BY <1>10
  <2>2. of[i] = WriteTable(PassHeader(prefix), t)
        BY <1>10, <1>11
  <2> HIDE DEF t
  <2>3. DOMAIN ks = DOMAIN BasePass /\ \A k \in DOMAIN BasePass : ks[k] = Rounded(k, t[k])
        BY <2>1, <2>2, WriteTableIs DEF Rounded
  <2> HIDE DEF ks
  <2>4. ReadTable(ks, base) = RereadTable(t)
        BY <1>9, <2>1, <2>3, TableReread
  <2> QED BY <2>4 DEF t, ks
<1>14. passes = [i \in DOMAIN nr.passes \cap 1 .. 4 |-> RereadTable(nr.passes[i])]
       BY <1>12, <1>13
<1> HIDE DEF passes
<1> QED BY <1>3, <1>7, <1>8, <1>14, Zenon DEF RereadNr

LEMMA TopReread ==
  ASSUME NEW like \in {LookTop, BaseTop}, NEW t, TypedTop(t, like), NEW keys, TypedKeys(keys),
         DOMAIN like \subseteq DOMAIN keys,
         \A k \in DOMAIN like : keys[k] = Rounded(k, t[k])
  PROVE  \A k \in DOMAIN like : ReadTop(keys, like)[k] = RereadTop(k, t[k])
<1> DEFINE read == ReadTable(keys, like)
           top == ReadTop(keys, like)
<1>1. /\ TypedTable(like, like) /\ LegalTable(like)
      /\ {"neural_pass", "flow_grid_size"} \subseteq DOMAIN like
      /\ like.flow_grid_size = 4 /\ like.neural_pass = "direct"
  <2>1. {"neural_pass", "flow_grid_size"} \subseteq DOMAIN LookTop
        /\ LookTop.flow_grid_size = 4 /\ LookTop.neural_pass = "direct"
        BY SMT DEF LookTop
  <2>2. {"neural_pass", "flow_grid_size"} \subseteq DOMAIN BaseTop
        /\ BaseTop.flow_grid_size = 4 /\ BaseTop.neural_pass = "direct"
        BY SMT DEF BaseTop
  <2> QED BY <2>1, <2>2, BaseTables
<1>2. TypedTop(like, like)
      BY <1>1 DEF TypedTop
<1>3. /\ \A k \in DOMAIN like \ {"neural_pass", "flow_grid_size"} : top[k] = read[k]
      /\ top.neural_pass = IF read.neural_pass \in {"reshade", "ngx"} THEN "direct" ELSE read.neural_pass
      /\ top.flow_grid_size = IF read.flow_grid_size \in {1, 2, 4} THEN read.flow_grid_size
                              ELSE like.flow_grid_size
  <2> DEFINE l == like
  <2>1. /\ TypedTop(l, l) /\ LegalTable(l) /\ {"neural_pass", "flow_grid_size"} \subseteq DOMAIN l
        BY <1>1, <1>2
  <2> HIDE DEF l
  <2>2. /\ \A k \in DOMAIN l \ {"neural_pass", "flow_grid_size"} :
              ReadTop(keys, l)[k] = ReadTable(keys, l)[k]
        /\ ReadTop(keys, l).neural_pass =
              LET pass == ReadTable(keys, l).neural_pass
              IN IF pass \in {"reshade", "ngx"} THEN "direct" ELSE pass
        /\ ReadTop(keys, l).flow_grid_size =
              LET grid == ReadTable(keys, l).flow_grid_size
              IN IF grid \in {1, 2, 4} THEN grid ELSE l.flow_grid_size
        BY <2>1, ReadTopIs
  <2> QED BY <2>2, Zenon DEF l
<1>4. TypedTable(t, like) /\ t.neural_pass \notin {"reshade", "ngx"} /\ DOMAIN t = DOMAIN like
      BY TypedIsKeys DEF TypedTop
<1>5. read = RereadTable(t)
      BY <1>4, TableReread
<1>6. \A k \in DOMAIN like : read[k] = Reread(k, t[k])
      BY <1>4, <1>5, RereadTableIs
<1>7. \A k \in {"neural_pass", "flow_grid_size"} : Reread(k, t[k]) = t[k]
  <2> SUFFICES ASSUME NEW k \in {"neural_pass", "flow_grid_size"} PROVE Reread(k, t[k]) = t[k]
      OBVIOUS
  <2>1. k \notin Floats \cup Ints
        BY Ranges
  <2>2. t[k] # Wrong /\ IsTyped(k, t[k])
        BY <1>1, <1>4 DEF TypedTable
  <2>3. Reread(k, t[k]) = Legal(k, t[k])
        BY <2>1 DEF Reread, Rounded
  <2> QED BY <2>1, <2>2, <2>3, LegalValue
<1> HIDE DEF read, top
<1>8. ASSUME NEW k \in DOMAIN like PROVE top[k] = RereadTop(k, t[k])
  <2>1. CASE k = "neural_pass"
    <3>1. read.neural_pass = t.neural_pass
          BY <1>1, <1>6, <1>7
    <3>2. top[k] = t[k] /\ k # "flow_grid_size"
          BY <1>3, <1>4, <2>1, <3>1
    <3> QED BY <1>7, <2>1, <3>2 DEF RereadTop
  <2>2. CASE k = "flow_grid_size"
    <3>1. read.flow_grid_size = t.flow_grid_size
          BY <1>1, <1>6, <1>7
    <3> QED BY <1>1, <1>3, <2>2, <3>1 DEF RereadTop
  <2>3. CASE k \notin {"neural_pass", "flow_grid_size"}
        BY <1>3, <1>6, <2>3 DEF RereadTop
  <2> QED BY <2>1, <2>2, <2>3
<1> QED BY <1>8 DEF top

\* The configuration written, as the runtime reads it.
LEMMA ConfigReread ==
  ASSUME NEW c, TypedConfig(c), FileOf(c) # Unreadable
  PROVE  /\ ParseConfig(FileOf(c)).nr = RereadNr(c.nr)
         /\ \A k \in DOMAIN LookTop : ParseConfig(FileOf(c)).top[k] = RereadTop(k, c.top[k])
<1> DEFINE file == FileOf(c)
           read == ParseConfig(file)
           nr == ReadNr(file, "nr")
           first == ReadTop(Table(file, "top"), BaseTop)
           top == [first EXCEPT !.depth_mode = IF @ \in {"flat", "gradient"} THEN @ ELSE "flat"]
<1>1. read.nr = nr /\ read.top = top
  <2>1. Defaults.top = BaseTop
        BY DEF Defaults
  <2> HIDE DEF file
  <2> QED BY <2>1 DEF ParseConfig, file
<1>2. nr = RereadNr(c.nr)
  <2>1. TypedNr(c.nr)
        BY DEF TypedConfig
  <2>2. Sections(file, "nr") = <<WriteTable("nr", Both(c.nr.frame, c.nr.base))>>
        BY PartsOfFile
  <2>3. Sections(file, "nr.pass") = WriteAll("nr.pass", c.nr.passes)
        BY PartsOfFile
  <2>4. PassHeader("nr") = "nr.pass"
        BY DEF PassHeader
  <2> HIDE DEF file
  <2> QED BY <2>1, <2>2, <2>3, <2>4, NrReread
<1>3. \A k \in DOMAIN BaseTop : first[k] = RereadTop(k, c.top[k])
  <2> DEFINE keys == WriteTable("top", c.top).keys
  <2>1. TypedTop(c.top, BaseTop) /\ TypedTable(c.top, c.top) /\ DOMAIN c.top = DOMAIN BaseTop
        BY TypedIsKeys DEF TypedConfig, TypedTop
  <2>2. Table(file, "top") = keys
    <3>1. Sections(file, "top") = <<WriteTable("top", c.top)>>
          BY PartsOfFile
    <3> QED BY <3>1, OneTable
  <2>3. /\ TypedSection(WriteTable("top", c.top)) /\ WriteTable("top", c.top).header = "top"
        /\ DOMAIN keys = DOMAIN BaseTop /\ \A k \in DOMAIN BaseTop : keys[k] = Rounded(k, c.top[k])
        BY <2>1, WriteTableIs DEF Rounded
  <2>4. TypedKeys(keys)
        BY <2>3 DEF TypedSection, TypedKeys
  <2> HIDE DEF keys
  <2>5. \A k \in DOMAIN BaseTop : ReadTop(keys, BaseTop)[k] = RereadTop(k, c.top[k])
        BY <2>1, <2>3, <2>4, TopReread
  <2> QED BY <2>2, <2>5
<1>4. DOMAIN LookTop \subseteq DOMAIN BaseTop /\ "depth_mode" \notin DOMAIN LookTop
      BY SMT DEF LookTop, BaseTop
<1> HIDE DEF first
<1>5. ASSUME NEW k \in DOMAIN LookTop PROVE top[k] = RereadTop(k, c.top[k])
  <2>1. top[k] = first[k]
    <3>1. k # "depth_mode"
          BY <1>4
    <3>2. CASE k \in DOMAIN first
          BY <3>1, <3>2
    <3>3. DOMAIN first = DOMAIN BaseTop
      <4>1. first = ReadTop(Table(file, "top"), BaseTop)
            BY DEF first
      <4>2. DOMAIN ReadTable(Table(file, "top"), BaseTop) = DOMAIN BaseTop
            BY DEF ReadTable
      <4> HIDE DEF file
      <4> QED BY <4>1, <4>2 DEF ReadTop
    <3> QED BY <1>4, <3>2, <3>3
  <2> QED BY <1>3, <1>4, <2>1
<1> QED BY <1>1, <1>2, <1>5

\* The passes a model runs, before and after.
LEMMA EffectiveReread ==
  ASSUME NEW nr, TypedNr(nr)
  PROVE  LET was == Effective(nr)
             now == Effective(RereadNr(nr))
         IN /\ Len(now) = IF Len(was) <= 4 THEN Len(was) ELSE 4
            /\ DOMAIN now = DOMAIN was \cap 1 .. 4
            /\ \A i \in DOMAIN now : now[i] = RereadTable(was[i])
<1> DEFINE was == Effective(nr)
           now == Effective(RereadNr(nr))
           passes == RereadNr(nr).passes
           n == IF Len(nr.passes) <= 4 THEN Len(nr.passes) ELSE 4
<1>1. IsSeq(nr.passes) /\ Len(nr.passes) \in Nat /\ DOMAIN nr.passes = 1 .. Len(nr.passes)
  <2>1. IsSeq(nr.passes)
        BY DEF TypedNr
  <2> QED BY <2>1, SeqHas
<1>2. n \in Nat /\ DOMAIN nr.passes \cap 1 .. 4 = 1 .. n
      BY <1>1
<1>3. passes = [i \in DOMAIN nr.passes \cap 1 .. 4 |-> RereadTable(nr.passes[i])]
      BY DEF RereadNr
<1>4. /\ passes = [i \in 1 .. n |-> passes[i]]
      /\ \A i \in 1 .. n : passes[i] = RereadTable(nr.passes[i])
      BY <1>2, <1>3
<1>5. RereadNr(nr).base = RereadTable(nr.base)
      BY DEF RereadNr
<1> HIDE DEF passes, n
<1>6. IsSeq(passes) /\ Len(passes) = n /\ DOMAIN passes = 1 .. n
      BY <1>2, <1>4, BuiltSeq
<1>7. /\ was = IF nr.passes = <<>> THEN <<nr.base>> ELSE nr.passes
      /\ now = IF passes = <<>> THEN <<RereadNr(nr).base>> ELSE passes
      BY Zenon DEF Effective, passes
<1>8. (nr.passes = <<>> <=> n = 0) /\ (passes = <<>> <=> n = 0)
  <2> DEFINE none == <<>>
  <2>1. IsSeq(none) /\ Len(none) = 0
        BY NoFile, SeqHas DEF TypedFile
  <2> HIDE DEF none
  <2>2. ASSUME NEW s, IsSeq(s) PROVE s = none <=> Len(s) = 0
    <3>1. ASSUME Len(s) = 0 PROVE s = none
          BY <2>1, <2>2, <3>1, SameSeq
    <3> QED BY <2>1, <3>1
  <2>3. nr.passes = none <=> Len(nr.passes) = 0
        BY <1>1, <2>2
  <2>4. Len(nr.passes) = 0 <=> n = 0
        BY <1>1 DEF n
  <2>5. passes = none <=> n = 0
        BY <1>6, <2>2
  <2> QED BY <2>3, <2>4, <2>5 DEF none
<1> HIDE DEF was, now
<1>9. CASE n = 0
  <2> DEFINE one == <<nr.base>>
             other == <<RereadNr(nr).base>>
  <2>1. was = one /\ now = other
        BY <1>7, <1>8, <1>9
  <2>2. /\ Len(one) = 1 /\ DOMAIN one = 1 .. 1 /\ one[1] = nr.base
        /\ Len(other) = 1 /\ DOMAIN other = 1 .. 1 /\ other[1] = RereadNr(nr).base
        OBVIOUS
  <2> HIDE DEF one, other
  <2>3. Len(was) = 1 /\ Len(now) = 1 /\ DOMAIN was = 1 .. 1 /\ DOMAIN now = 1 .. 1
        BY <2>1, <2>2
  <2>4. now[1] = RereadTable(was[1])
        BY <1>5, <2>1, <2>2
  <2>5. \A i \in 1 .. 1 : i = 1
        OBVIOUS
  <2>6. 1 .. 1 \cap 1 .. 4 = 1 .. 1
        OBVIOUS
  <2> QED BY <2>3, <2>4, <2>5, <2>6 DEF was, now
<1>10. CASE n # 0
  <2>1. was = nr.passes /\ now = passes
        BY <1>7, <1>8, <1>10
  <2>2. Len(now) = IF Len(was) <= 4 THEN Len(was) ELSE 4
        BY <1>6, <2>1 DEF n
  <2>3. DOMAIN now = DOMAIN was \cap 1 .. 4
        BY <1>2, <1>6, <2>1
  <2>4. \A i \in DOMAIN now : now[i] = RereadTable(was[i])
        BY <1>4, <1>6, <2>1
  <2> QED BY <2>2, <2>3, <2>4, Zenon DEF was, now
<1> QED BY <1>9, <1>10

Compared(nr) == [k \in DOMAIN BaseFrame \ {"split_view", "per_pass_tuning"} |-> nr.frame[k]]

LEMMA SameNrIs ==
  ASSUME NEW a, NEW b
  PROVE  SameNr(a, b) <=>
           /\ Same(Compared(a), Compared(b))
           /\ Len(Effective(a)) = Len(Effective(b))
           /\ \A i \in DOMAIN Effective(a) : Same(Effective(a)[i], Effective(b)[i])
BY Zenon DEF SameNr, Compared

LEMMA ComparedReread ==
  ASSUME NEW a, TypedNr(a), NEW b, TypedNr(b), Same(Compared(a), Compared(b))
  PROVE  Same(Compared(RereadNr(a)), Compared(RereadNr(b)))
<1> DEFINE K == DOMAIN BaseFrame \ {"split_view", "per_pass_tuning"}
           New(k, v) == IF k = "paper_white_nits" THEN Paper(Reread(k, v)) ELSE Reread(k, v)
<1>1. \A k \in K : a.frame[k] = b.frame[k] /\ a.frame[k] # NaN
  <2>1. Compared(a) = Compared(b) /\ \A k \in DOMAIN Compared(a) : Compared(a)[k] # NaN
        BY DEF Same
  <2>2. /\ \A k \in K : Compared(a)[k] = a.frame[k] /\ Compared(b)[k] = b.frame[k]
        /\ DOMAIN Compared(a) = K
        BY DEF Compared
  <2> QED BY <2>1, <2>2
<1>2. ASSUME NEW nr, TypedNr(nr)
      PROVE  Compared(RereadNr(nr)) = [k \in K |-> New(k, nr.frame[k])]
  <2> DEFINE read == RereadTable(nr.frame)
             f == [read EXCEPT !.paper_white_nits = Paper(@)]
  <2>1. DOMAIN nr.frame = DOMAIN BaseFrame
        BY <1>2, TypedIsKeys DEF TypedNr
  <2>2. DOMAIN read = DOMAIN BaseFrame /\ \A k \in DOMAIN BaseFrame : read[k] = Reread(k, nr.frame[k])
        BY <2>1, RereadTableIs
  <2>3. RereadNr(nr).frame = f
        BY DEF RereadNr
  <2> HIDE DEF read
  <2>4. \A k \in DOMAIN read : f[k] = IF k = "paper_white_nits" THEN Paper(read[k]) ELSE read[k]
        OBVIOUS
  <2> HIDE DEF f
  <2>5. \A k \in K : RereadNr(nr).frame[k] = New(k, nr.frame[k])
        BY <2>2, <2>3, <2>4
  <2> HIDE DEF New
  <2> QED BY <2>5, Zenon DEF Compared
<1>3. ASSUME NEW k \in K PROVE New(k, a.frame[k]) = New(k, b.frame[k]) /\ New(k, a.frame[k]) # NaN
  <2> DEFINE v == a.frame[k]
  <2>1. v # Wrong /\ IsTyped(k, v) /\ v # NaN
        BY <1>1 DEF TypedNr, TypedTable
  <2> HIDE DEF v
  <2>2. Reread(k, v) # NaN
        BY <2>1, RereadIs
  <2>3. Paper(Reread(k, v)) # NaN
    <3>1. 0 # NaN
          BY CodecAssumption
    <3> QED BY <2>2, <3>1 DEF Paper
  <2>4. New(k, v) # NaN
        BY <2>2, <2>3
  <2> QED BY <1>1, <2>4 DEF v
<1> HIDE DEF New
<1>4. Compared(RereadNr(a)) = Compared(RereadNr(b))
      BY <1>2, <1>3
<1>5. \A k \in DOMAIN Compared(RereadNr(a)) : Compared(RereadNr(a))[k] # NaN
      BY <1>2, <1>3
<1> QED BY <1>4, <1>5 DEF Same

LEMMA NrMatchKept ==
  ASSUME NEW a, TypedNr(a), NEW b, TypedNr(b), SameNr(a, b)
  PROVE  SameNr(RereadNr(a), RereadNr(b))
<1> DEFINE x == Effective(RereadNr(a))
           y == Effective(RereadNr(b))
           s == Effective(a)
           t == Effective(b)
<1>1. /\ Same(Compared(a), Compared(b)) /\ Len(s) = Len(t)
      /\ \A i \in DOMAIN s : Same(s[i], t[i])
      BY SameNrIs, Zenon
<1>2. Same(Compared(RereadNr(a)), Compared(RereadNr(b)))
      BY <1>1, ComparedReread
<1>3. /\ Len(x) = IF Len(s) <= 4 THEN Len(s) ELSE 4
      /\ DOMAIN x = DOMAIN s \cap 1 .. 4
      /\ \A i \in DOMAIN x : x[i] = RereadTable(s[i])
      BY EffectiveReread, Zenon
<1>4. /\ Len(y) = IF Len(t) <= 4 THEN Len(t) ELSE 4
      /\ DOMAIN y = DOMAIN t \cap 1 .. 4
      /\ \A i \in DOMAIN y : y[i] = RereadTable(t[i])
      BY EffectiveReread, Zenon
<1>5. DOMAIN s = DOMAIN t /\ \A i \in DOMAIN s : TypedTable(s[i], BasePass)
  <2>1. DOMAIN s = 1 .. Len(s) /\ \A i \in DOMAIN s : TypedTable(s[i], BasePass)
        BY EffectiveIs
  <2>2. DOMAIN t = 1 .. Len(t)
        BY EffectiveIs
  <2> QED BY <1>1, <2>1, <2>2, Zenon
<1> HIDE DEF x, y, s, t
<1>6. \A i \in DOMAIN x : Same(x[i], y[i])
  <2> SUFFICES ASSUME NEW i \in DOMAIN x PROVE Same(x[i], y[i])
      OBVIOUS
  <2>1. i \in DOMAIN s /\ i \in DOMAIN y /\ x[i] = RereadTable(s[i]) /\ y[i] = RereadTable(t[i])
        BY <1>3, <1>4, <1>5
  <2>2. Same(s[i], t[i]) /\ TypedTable(s[i], BasePass)
        BY <1>1, <1>5, <2>1
  <2>3. Same(RereadTable(s[i]), RereadTable(t[i]))
        BY <2>2, SameReread
  <2> QED BY <2>1, <2>3
<1>7. Len(x) = Len(y)
      BY <1>1, <1>3, <1>4
<1> QED BY <1>2, <1>6, <1>7, SameNrIs, Zenon DEF x, y

\* A preset that matches a configuration, read again, matches it read again.
LEMMA MatchKept ==
  ASSUME NEW p, TypedPreset(p), NEW c, TypedConfig(c), PresetMatches(p, c),
         NEW q, NEW d, q.nr = RereadNr(p.nr), d.nr = RereadNr(c.nr),
         q.top = [k \in DOMAIN LookTop |-> q.top[k]],
         \A k \in DOMAIN LookTop : /\ q.top[k] = RereadTop(k, p.top[k])
                                   /\ d.top[k] = RereadTop(k, c.top[k])
  PROVE  PresetMatches(q, d)
<1> DEFINE K == DOMAIN LookTop
           u == [k \in K |-> c.top[k]]
           w == [k \in K |-> d.top[k]]
<1>1. "neural_pass" \in K
      BY SMT DEF LookTop
<1>2. /\ TypedTop(p.top, LookTop) /\ TypedTable(p.top, LookTop) /\ DOMAIN p.top = K
      /\ TypedNr(p.nr) /\ TypedTop(c.top, BaseTop) /\ TypedNr(c.nr)
      BY TypedIsKeys DEF TypedPreset, TypedConfig, TypedTop
<1>3. /\ p.top.neural_pass = c.top.neural_pass
      /\ p.top.neural_pass = "passthrough" \/ (Same(p.top, u) /\ SameNr(p.nr, c.nr))
      BY Zenon DEF PresetMatches
<1>4. q.top.neural_pass = p.top.neural_pass /\ d.top.neural_pass = p.top.neural_pass
  <2>1. "neural_pass" \notin Floats \cup Ints
        BY Ranges
  <2>2. p.top["neural_pass"] # Wrong /\ IsTyped("neural_pass", p.top["neural_pass"])
        BY <1>1, <1>2 DEF TypedTable
  <2>3. RereadTop("neural_pass", p.top["neural_pass"]) = p.top["neural_pass"]
    <3>1. RereadTop("neural_pass", p.top["neural_pass"]) = Legal("neural_pass", p.top["neural_pass"])
          BY <2>1 DEF RereadTop, Reread, Rounded
    <3> QED BY <2>1, <2>2, <3>1, LegalValue
  <2> QED BY <1>1, <1>3, <2>3
<1>5. ASSUME Same(p.top, u) PROVE Same(q.top, w)
  <2>1. \A k \in K : p.top[k] = c.top[k] /\ p.top[k] # NaN
    <3>1. p.top = u /\ \A k \in DOMAIN p.top : p.top[k] # NaN
          BY <1>5 DEF Same
    <3> QED BY <1>2, <3>1
  <2>2. ASSUME NEW k \in K PROVE q.top[k] = d.top[k] /\ q.top[k] # NaN
    <3> DEFINE v == p.top[k]
    <3>1. v # Wrong /\ IsTyped(k, v) /\ v # NaN
          BY <1>2, <2>1 DEF TypedTable
    <3> HIDE DEF v
    <3>2. Reread(k, v) # NaN
          BY <3>1, RereadIs
    <3>3. 4 # NaN
          BY CodecAssumption
    <3>4. RereadTop(k, v) # NaN
          BY <3>1, <3>2, <3>3 DEF RereadTop
    <3>5. q.top[k] = RereadTop(k, v)
          BY DEF v
    <3>6. d.top[k] = RereadTop(k, v)
          BY <2>1 DEF v
    <3> QED BY <3>4, <3>5, <3>6
  <2>3. q.top = w
        BY <2>2
  <2>4. DOMAIN q.top = K
        BY Zenon
  <2> QED BY <2>2, <2>3, <2>4 DEF Same
<1>6. ASSUME SameNr(p.nr, c.nr) PROVE SameNr(q.nr, d.nr)
      BY <1>2, <1>6, NrMatchKept
<1> QED BY <1>3, <1>4, <1>5, <1>6, Zenon DEF PresetMatches

\* A preset a hand left legal and in the digits of the text is read back as it is.
LEMMA NotFiner ==
  ASSUME NEW p, ~ FinerThanText(p)
  PROVE  /\ \A k \in DOMAIN p.top \cap Floats : p.top[k] = Number(p.top[k])
         /\ \A k \in DOMAIN p.nr.base \cap Floats : p.nr.base[k] = Number(p.nr.base[k])
         /\ \A k \in DOMAIN p.nr.frame \cap Floats : p.nr.frame[k] = Number(p.nr.frame[k])
         /\ \A i \in DOMAIN p.nr.passes : \A k \in DOMAIN p.nr.passes[i] \cap Floats :
              p.nr.passes[i][k] = Number(p.nr.passes[i][k])
<1> DEFINE T == {p.top, p.nr.base, p.nr.frame} \cup ToSet(p.nr.passes)
<1>1. \A t \in T : \A k \in DOMAIN t \cap Floats : t[k] = Number(t[k])
      BY Zenon DEF FinerThanText
<1>2. p.top \in T /\ p.nr.base \in T /\ p.nr.frame \in T
      OBVIOUS
<1>3. \A i \in DOMAIN p.nr.passes : p.nr.passes[i] \in T
      BY ElementOf
<1> HIDE DEF T
<1>4. \A i \in DOMAIN p.nr.passes : \A k \in DOMAIN p.nr.passes[i] \cap Floats :
        p.nr.passes[i][k] = Number(p.nr.passes[i][k])
      BY <1>1, <1>3, Zenon
<1> QED BY <1>1, <1>2, <1>4, Zenon

LEMMA PaperStays ==
  ASSUME NEW v \in Int \cup {NaN}, v \in {NaN, 0} \/ v >= 80000
  PROVE  Paper(v) = v
BY DEF Paper

LEMMA NrStays ==
  ASSUME NEW nr, TypedNr(nr), LegalNr(nr),
         \A k \in DOMAIN nr.base \cap Floats : nr.base[k] = Number(nr.base[k]),
         \A k \in DOMAIN nr.frame \cap Floats : nr.frame[k] = Number(nr.frame[k]),
         \A i \in DOMAIN nr.passes : \A k \in DOMAIN nr.passes[i] \cap Floats :
           nr.passes[i][k] = Number(nr.passes[i][k])
  PROVE  RereadNr(nr) = nr
<1>1. RereadTable(nr.base) = nr.base
      BY TableStays DEF TypedNr, LegalNr
<1>2. RereadTable(nr.frame) = nr.frame
      BY TableStays DEF TypedNr, LegalNr
<1>3. \A i \in DOMAIN nr.passes : RereadTable(nr.passes[i]) = nr.passes[i]
      BY TableStays DEF TypedNr, LegalNr
<1>4. IsSeq(nr.passes) /\ DOMAIN nr.passes = 1 .. Len(nr.passes) /\ Len(nr.passes) \in Nat
  <2>1. IsSeq(nr.passes)
        BY DEF TypedNr
  <2> QED BY <2>1, SeqHas
<1>5. DOMAIN nr.passes \cap 1 .. 4 = DOMAIN nr.passes
  <2>1. Len(nr.passes) <= 4
        BY DEF LegalNr
  <2> QED BY <1>4, <2>1
<1> DEFINE f == nr.frame
<1>6. [f EXCEPT !.paper_white_nits = Paper(@)] = f
  <2>1. Paper(f.paper_white_nits) = f.paper_white_nits
    <3>1. f.paper_white_nits \in {NaN, 0} \/ f.paper_white_nits >= 80000
          BY DEF LegalNr
    <3>2. f.paper_white_nits \in Int \cup {NaN}
      <4>1. "paper_white_nits" \in DOMAIN BaseFrame /\ "paper_white_nits" \in Floats
            BY Ranges, SMT DEF BaseFrame
      <4> QED BY <4>1 DEF TypedNr, TypedTable, IsTyped
    <3> DEFINE v == f.paper_white_nits
    <3>3. v \in Int \cup {NaN} /\ (v \in {NaN, 0} \/ v >= 80000)
          BY <3>1, <3>2
    <3> HIDE DEF v
    <3>4. Paper(v) = v
          BY <3>3, PaperStays
    <3> QED BY <3>4 DEF v
  <2>2. f = [k \in DOMAIN BaseFrame |-> f[k]]
        BY DEF TypedNr, TypedTable
  <2> HIDE DEF f
  <2> QED BY <2>1, <2>2
<1> DEFINE s == nr.passes
<1>7. s = [i \in DOMAIN s |-> s[i]]
  <2> HIDE DEF s
  <2>1. s \in Seq(ToSet(s))
        BY <1>4 DEF IsSeq, s
  <2> QED BY <2>1
<1>8. [i \in DOMAIN s \cap 1 .. 4 |-> RereadTable(s[i])] = s
      BY <1>3, <1>5, <1>7
<1>9. nr = [base |-> nr.base, frame |-> nr.frame, passes |-> nr.passes]
      BY DEF TypedNr
<1>10. [RereadTable(nr.frame) EXCEPT !.paper_white_nits = Paper(@)] = nr.frame
       BY <1>2, <1>6
<1> HIDE DEF f, s
<1>11. [i \in DOMAIN nr.passes \cap 1 .. 4 |-> RereadTable(nr.passes[i])] = nr.passes
       BY <1>8 DEF s
<1>12. RereadNr(nr) = [base |-> nr.base, frame |-> nr.frame, passes |-> nr.passes]
       BY <1>1, <1>10, <1>11, Zenon DEF RereadNr
<1> QED BY <1>9, <1>12

LEMMA PresetStays ==
  ASSUME NEW p, TypedPreset(p), LegalPreset(p), ~ FinerThanText(p)
  PROVE  /\ RereadNr(p.nr) = p.nr
         /\ \A k \in DOMAIN LookTop : RereadTop(k, p.top[k]) = p.top[k]
<1>1. RereadNr(p.nr) = p.nr
  <2>1. TypedNr(p.nr) /\ LegalNr(p.nr)
        BY DEF TypedPreset, LegalPreset
  <2> QED BY <2>1, NotFiner, NrStays
<1>2. ASSUME NEW k \in DOMAIN LookTop PROVE RereadTop(k, p.top[k]) = p.top[k]
  <2>1. TypedTable(p.top, LookTop) /\ LegalTable(p.top) /\ DOMAIN p.top = DOMAIN LookTop
        BY TypedIsKeys DEF TypedPreset, LegalPreset, TypedTop
  <2>2. Reread(k, p.top[k]) = p.top[k]
        BY <2>1, NotFiner, TableStays
  <2>3. k = "flow_grid_size" => p.top[k] \in {1, 2, 4}
        BY <2>1 DEF LegalTable, IsLegal
  <2> QED BY <2>2, <2>3 DEF RereadTop
<1> QED BY <1>1, <1>2

-------------------------------------------------------------------------------
(* Presets, written and read back.                                          *)

RereadPreset(p) ==
  [name |-> p.name, builtin |-> FALSE, top |-> [k \in DOMAIN LookTop |-> RereadTop(k, p.top[k])],
   nr |-> RereadNr(p.nr)]

\* A preset's sections are its header, its settings and their passes.
LEMMA PresetParts ==
  ASSUME NEW p, TypedPreset(p)
  PROVE  /\ Sections(WritePreset(p), "preset.nr")
              = <<WriteTable("preset.nr", Both(p.nr.frame, p.nr.base))>>
         /\ Sections(WritePreset(p), "preset.nr.pass") = WriteAll("preset.nr.pass", p.nr.passes)
         /\ \A j \in 2 .. Len(WritePreset(p)) : WritePreset(p)[j].header # "preset"
<1> DEFINE name == [name |-> p.name]
           p1 == <<WriteTable("preset", Both(name, p.top))>>
           p2 == <<WriteTable("preset.nr", Both(p.nr.frame, p.nr.base))>>
           p3 == WriteAll("preset.nr.pass", p.nr.passes)
<1>1. TypedTable(p.top, p.top) /\ TypedNr(p.nr) /\ TypedTable(name, name)
  <2>1. TypedTable(p.top, p.top) /\ TypedNr(p.nr)
        BY TypedIsKeys DEF TypedPreset, TypedTop
  <2>2. DOMAIN name = {"name"} /\ name = [k \in DOMAIN name |-> name[k]] /\ name["name"] = p.name
        OBVIOUS
  <2>3. "name" \notin Floats \cup Ints \cup DOMAIN NoRect
        BY Ranges
  <2> HIDE DEF name
  <2>4. \A k \in DOMAIN name : name[k] # Wrong /\ IsTyped(k, name[k])
        BY <2>2, <2>3 DEF TypedPreset, IsTyped
  <2> QED BY <2>1, <2>2, <2>4, Zenon DEF TypedTable
<1> HIDE DEF name
<1>2. TypedFile(p1) /\ Len(p1) = 1 /\ (\A i \in 1 .. Len(p1) : p1[i].header = "preset")
  <2> DEFINE s == WriteTable("preset", Both(name, p.top))
  <2>1. TypedSection(s) /\ s.header = "preset"
        BY <1>1, BothTyped, WriteTableIs
  <2> HIDE DEF s
  <2> QED BY <2>1, OneSection DEF s
<1>3. TypedFile(p2) /\ (\A i \in 1 .. Len(p2) : p2[i].header = "preset.nr")
  <2> DEFINE t == Both(p.nr.frame, p.nr.base)
             s == WriteTable("preset.nr", t)
  <2>1. TypedTable(p.nr.frame, p.nr.frame) /\ TypedTable(p.nr.base, p.nr.base)
        BY <1>1, TypedIsKeys DEF TypedNr
  <2>2. TypedTable(t, t)
        BY <2>1, BothTyped
  <2> HIDE DEF t
  <2>3. TypedSection(s) /\ s.header = "preset.nr"
        BY <2>2, WriteTableIs
  <2> HIDE DEF s
  <2> QED BY <2>3, OneSection DEF s, t
<1>4. TypedFile(p3) /\ (\A i \in 1 .. Len(p3) : p3[i].header = "preset.nr.pass")
  <2>1. IsSeq(p.nr.passes) /\ DOMAIN p.nr.passes = 1 .. Len(p.nr.passes)
        BY <1>1, SeqHas DEF TypedNr
  <2>2. \A i \in DOMAIN p.nr.passes : TypedTable(p.nr.passes[i], p.nr.passes[i])
        BY <1>1, TypedIsKeys DEF TypedNr
  <2>3. /\ TypedFile(p3) /\ Len(p3) = Len(p.nr.passes)
        /\ \A i \in 1 .. Len(p.nr.passes) : p3[i] = WriteTable("preset.nr.pass", p.nr.passes[i])
        BY <2>1, <2>2, WriteAllIs
  <2> HIDE DEF p3
  <2> QED BY <2>1, <2>2, <2>3, WriteTableIs
<1>5. WritePreset(p) = p1 \o (p2 \o p3)
  <2>1. PassHeader("preset.nr") = "preset.nr.pass"
        BY DEF PassHeader
  <2>2. WriteNr(p.nr, "preset.nr") = p2 \o p3
        BY <2>1, Zenon DEF WriteNr
  <2> QED BY <2>2, Zenon DEF WritePreset, name
<1> HIDE DEF p1, p2, p3
<1> DEFINE b == p2 \o p3
<1>6. TypedFile(b)
      BY <1>3, <1>4, JoinedFile
<1>7. ASSUME NEW header
      PROVE  Sections(WritePreset(p), header)
               = Sections(p1, header) \o (Sections(p2, header) \o Sections(p3, header))
  <2>1. Sections(b, header) = Sections(p2, header) \o Sections(p3, header)
        BY <1>3, <1>4, SectionsConcat DEF TypedFile
  <2> HIDE DEF b
  <2>2. Sections(p1 \o b, header) = Sections(p1, header) \o Sections(b, header)
        BY <1>2, <1>6, SectionsConcat DEF TypedFile
  <2> QED BY <1>5, <2>1, <2>2 DEF b
<1>8. ASSUME NEW header
      PROVE  /\ Sections(p1, header) = IF header = "preset" THEN p1 ELSE <<>>
             /\ Sections(p2, header) = IF header = "preset.nr" THEN p2 ELSE <<>>
             /\ Sections(p3, header) = IF header = "preset.nr.pass" THEN p3 ELSE <<>>
  <2>1. Sections(p1, header) = IF header = "preset" THEN p1 ELSE <<>>
        BY <1>2, OneName
  <2>2. Sections(p2, header) = IF header = "preset.nr" THEN p2 ELSE <<>>
        BY <1>3, OneName
  <2>3. Sections(p3, header) = IF header = "preset.nr.pass" THEN p3 ELSE <<>>
        BY <1>4, OneName
  <2> QED BY <2>1, <2>2, <2>3
<1> DEFINE none == <<>>
<1>9. none \o none = none /\ p2 \o none = p2 /\ none \o p2 = p2 /\ none \o p3 = p3
  <2>1. IsSeq(none)
        BY NoFile DEF TypedFile
  <2>2. IsSeq(p2) /\ IsSeq(p3)
        BY <1>3, <1>4 DEF TypedFile
  <2> QED BY <2>1, <2>2, JoinedEmpty
<1>10. Sections(WritePreset(p), "preset.nr") = p2
  <2>1. /\ Sections(p1, "preset.nr") = none /\ Sections(p2, "preset.nr") = p2
        /\ Sections(p3, "preset.nr") = none
        BY <1>8
  <2> HIDE DEF none
  <2> QED BY <1>7, <1>9, <2>1
<1>11. Sections(WritePreset(p), "preset.nr.pass") = p3
  <2>1. /\ Sections(p1, "preset.nr.pass") = none /\ Sections(p2, "preset.nr.pass") = none
        /\ Sections(p3, "preset.nr.pass") = p3
        BY <1>8
  <2> HIDE DEF none
  <2> QED BY <1>7, <1>9, <2>1
<1>12. /\ IsSeq(p1) /\ IsSeq(p2) /\ IsSeq(p3) /\ IsSeq(b)
       /\ Len(p1) = 1 /\ Len(p2) \in Nat /\ Len(p3) \in Nat
  <2>1. IsSeq(p1) /\ IsSeq(p2) /\ IsSeq(p3) /\ IsSeq(b)
        BY <1>2, <1>3, <1>4, <1>6 DEF TypedFile
  <2> HIDE DEF b
  <2> QED BY <1>2, <2>1, SeqHas
<1>13. Len(b) = Len(p2) + Len(p3) /\ \A j \in 1 .. Len(b) : b[j].header # "preset"
  <2>1. /\ Len(b) = Len(p2) + Len(p3)
        /\ \A i \in 1 .. Len(p2) : b[i] = p2[i]
        /\ \A i \in 1 .. Len(p3) : b[Len(p2) + i] = p3[i]
        BY <1>12, JoinedSeq
  <2> HIDE DEF b
  <2> SUFFICES ASSUME NEW j \in 1 .. Len(b) PROVE b[j].header # "preset"
      BY <2>1
  <2>2. CASE j <= Len(p2)
    <3>1. j \in 1 .. Len(p2)
          BY <1>12, <2>1, <2>2
    <3> QED BY <1>3, <2>1, <3>1
  <2>3. CASE j > Len(p2)
    <3>1. j - Len(p2) \in 1 .. Len(p3) /\ j = Len(p2) + (j - Len(p2))
          BY <1>12, <2>1, <2>3
    <3> QED BY <1>4, <2>1, <3>1
  <2> QED BY <1>12, <2>1, <2>2, <2>3
<1> HIDE DEF b
<1>14. /\ Len(p1 \o b) = 1 + Len(b)
       /\ \A i \in 1 .. Len(b) : (p1 \o b)[1 + i] = b[i]
  <2>1. IsSeq(p1) /\ IsSeq(b)
        BY <1>12
  <2>2. /\ Len(p1 \o b) = Len(p1) + Len(b)
        /\ \A i \in 1 .. Len(b) : (p1 \o b)[Len(p1) + i] = b[i]
        BY <2>1, JoinedSeq
  <2> DEFINE f == p1 \o b
  <2>3. /\ Len(f) = Len(p1) + Len(b)
        /\ \A i \in 1 .. Len(b) : f[Len(p1) + i] = b[i]
        BY <2>2
  <2> HIDE DEF f
  <2>4. Len(f) = 1 + Len(b) /\ \A i \in 1 .. Len(b) : f[1 + i] = b[i]
        BY <1>12, <2>3
  <2> QED BY <2>4 DEF f
<1>15. WritePreset(p) = p1 \o b
       BY <1>5 DEF b
<1>16. \A j \in 2 .. Len(WritePreset(p)) : WritePreset(p)[j].header # "preset"
  <2> SUFFICES ASSUME NEW j \in 2 .. Len(WritePreset(p)) PROVE WritePreset(p)[j].header # "preset"
      OBVIOUS
  <2>1. Len(b) \in Nat
        BY <1>12, SeqHas
  <2>2. j - 1 \in 1 .. Len(b) /\ j = 1 + (j - 1)
        BY <1>14, <1>15, <2>1
  <2> QED BY <1>13, <1>14, <1>15, <2>2
<1> QED BY <1>10, <1>11, <1>16 DEF p2, p3

\* A preset whose part of a file is what was written.
LEMMA PresetBack ==
  ASSUME NEW p, TypedPreset(p), NEW file, TypedFile(file), NEW i \in 1 .. Len(file),
         file[i].header = "preset", PartOf(file, i) = WritePreset(p)
  PROVE  PresetAt(file, i) = RereadPreset(p)
<1> DEFINE name == [name |-> p.name]
           both == Both(name, p.top)
           keys == file[i].keys
           nr == ReadNr(PartOf(file, i), "preset.nr")
           top == ReadTop(keys, LookTop)
<1>1. file[i] = WriteTable("preset", both)
  <2>1. IsSeq(file) /\ Len(file) \in Nat
        BY SeqHas DEF TypedFile
  <2>2. /\ LastOf(file, i) \in i .. Len(file)
        /\ \A j \in 1 .. LastOf(file, i) - i + 1 : PartOf(file, i)[j] = file[i + j - 1]
        BY <2>1, PartIs
  <2>3. PartOf(file, i)[1] = file[i]
        BY <2>1, <2>2
  <2>4. WritePreset(p)[1] = WriteTable("preset", both)
        BY WritePresetIs
  <2> QED BY <2>3, <2>4
<1>2. /\ TypedTable(p.top, p.top) /\ TypedTop(p.top, LookTop) /\ TypedNr(p.nr)
      /\ DOMAIN p.top = DOMAIN LookTop /\ p.name # Wrong
      BY TypedIsKeys DEF TypedPreset, TypedTop
<1>3. "name" \notin Floats \cup Ints \cup DOMAIN NoRect /\ "name" \notin DOMAIN LookTop
  <2>1. "name" \notin DOMAIN LookTop
        BY SMT DEF LookTop
  <2> QED BY <2>1, Ranges
<1>4. DOMAIN name = {"name"} /\ name["name"] = p.name /\ TypedTable(name, name)
  <2>1. DOMAIN name = {"name"} /\ name = [k \in DOMAIN name |-> name[k]] /\ name["name"] = p.name
        OBVIOUS
  <2> HIDE DEF name
  <2>2. \A k \in DOMAIN name : name[k] # Wrong /\ IsTyped(k, name[k])
        BY <1>2, <1>3, <2>1 DEF IsTyped
  <2> QED BY <2>1, <2>2, Zenon DEF TypedTable
<1> HIDE DEF name
<1>5. /\ TypedTable(both, both) /\ DOMAIN both = {"name"} \cup DOMAIN LookTop
      /\ both["name"] = p.name /\ \A k \in DOMAIN LookTop : both[k] = p.top[k]
  <2> DEFINE u == p.top
  <2>1. TypedTable(name, name) /\ TypedTable(u, u)
        BY <1>2, <1>4
  <2>2. both = Both(name, u)
        OBVIOUS
  <2> HIDE DEF both, u
  <2>3. /\ TypedTable(Both(name, u), Both(name, u)) /\ DOMAIN Both(name, u) = DOMAIN name \cup DOMAIN u
        /\ \A k \in DOMAIN name : Both(name, u)[k] = name[k]
        /\ \A k \in DOMAIN u \ DOMAIN name : Both(name, u)[k] = u[k]
        BY <2>1, BothTyped, Zenon
  <2>4. /\ TypedTable(both, both) /\ DOMAIN both = DOMAIN name \cup DOMAIN u
        /\ \A k \in DOMAIN name : both[k] = name[k]
        /\ \A k \in DOMAIN u \ DOMAIN name : both[k] = u[k]
        BY <2>2, <2>3, Zenon
  <2> QED BY <1>2, <1>3, <1>4, <2>4 DEF u
<1> HIDE DEF both
<1>6. /\ DOMAIN keys = DOMAIN both
      /\ \A k \in DOMAIN both : keys[k] = Rounded(k, both[k])
      BY <1>1, <1>5, WriteTableIs DEF Rounded
<1>7. TypedKeys(keys)
  <2>1. TypedSection(file[i])
        BY <1>1, <1>5, WriteTableIs
  <2> QED BY <2>1 DEF TypedSection, TypedKeys
<1>8. PresetAt(file, i) =
        [name |-> ReadString(keys, [name |-> Empty]).name, builtin |-> FALSE, top |-> top, nr |-> nr]
      BY PresetAtIs
<1> HIDE DEF keys
<1>9. ReadString(keys, [name |-> Empty]).name = p.name
  <2>1. keys["name"] = p.name /\ "name" \in DOMAIN keys
        BY <1>3, <1>5, <1>6 DEF Rounded
  <2>2. ReadString(keys, [name |-> Empty]).name = IF Says(keys, "name") THEN keys["name"] ELSE Empty
        BY DEF ReadString
  <2> QED BY <1>2, <2>1, <2>2 DEF Says
<1>10. \A k \in DOMAIN LookTop : top[k] = RereadTop(k, p.top[k])
  <2>1. /\ DOMAIN LookTop \subseteq DOMAIN keys
        /\ \A k \in DOMAIN LookTop : keys[k] = Rounded(k, p.top[k])
        BY <1>5, <1>6
  <2> QED BY <1>2, <1>7, <2>1, TopReread
<1>11. top = [k \in DOMAIN LookTop |-> RereadTop(k, p.top[k])]
  <2>1. TypedPreset(PresetAt(file, i))
        BY PresetAtIs
  <2> HIDE DEF top, nr
  <2>2. PresetAt(file, i).top = top
        BY <1>8
  <2>3. top = [k \in DOMAIN LookTop |-> top[k]]
        BY <2>1, <2>2 DEF TypedPreset, TypedTop, TypedTable
  <2> QED BY <1>10, <2>3
<1>12. nr = RereadNr(p.nr)
  <2>1. PassHeader("preset.nr") = "preset.nr.pass"
        BY DEF PassHeader
  <2> DEFINE part == PartOf(file, i)
  <2>2. /\ Sections(part, "preset.nr") = <<WriteTable("preset.nr", Both(p.nr.frame, p.nr.base))>>
        /\ Sections(part, "preset.nr.pass") = WriteAll("preset.nr.pass", p.nr.passes)
        BY PresetParts
  <2> HIDE DEF part
  <2>3. ReadNr(part, "preset.nr") = RereadNr(p.nr)
        BY <1>2, <2>1, <2>2, NrReread
  <2> QED BY <2>3 DEF part
<1> HIDE DEF top, nr
<1> QED BY <1>8, <1>9, <1>11, <1>12, Zenon DEF RereadPreset

\* Files one behind the other, and where each of them lies.
Joined(r, files) == r[1] = files[1] /\ \A i \in 2 .. Len(files) : r[i] = r[i - 1] \o files[i]
Begins(t, s) == Len(s) <= Len(t) /\ \A i \in 1 .. Len(s) : t[i] = s[i]

LEMMA JoinedAre ==
  ASSUME NEW files, IsSeq(files), Len(files) # 0, \A i \in DOMAIN files : IsSeq(files[i]),
         NEW r, Joined(r, files)
  PROVE  /\ \A n \in 1 .. Len(files) : IsSeq(r[n]) /\ Len(r[n]) \in Nat
         /\ \A n \in 2 .. Len(files) :
              /\ Len(r[n]) = Len(r[n - 1]) + Len(files[n])
              /\ \A i \in 1 .. Len(r[n - 1]) : r[n][i] = r[n - 1][i]
              /\ \A i \in 1 .. Len(files[n]) : r[n][Len(r[n - 1]) + i] = files[n][i]
         /\ \A n \in 1 .. Len(files) : Begins(r[Len(files)], r[n])
<1> DEFINE m == Len(files)
<1>1. m \in Nat /\ m # 0 /\ DOMAIN files = 1 .. m
      BY SeqHas
<1>2. r[1] = files[1] /\ \A i \in 2 .. m : r[i] = r[i - 1] \o files[i]
      BY DEF Joined
<1> HIDE DEF m
<1> DEFINE I == {i \in Nat : i + 1 <= m => IsSeq(r[i + 1])}
<1>3. 0 \in I
      BY <1>1, <1>2
<1>4. ASSUME NEW i \in Nat, i \in I PROVE i + 1 \in I
  <2> SUFFICES ASSUME (i + 1) + 1 <= m PROVE IsSeq(r[(i + 1) + 1])
      OBVIOUS
  <2>1. /\ (i + 1) + 1 \in 2 .. m /\ ((i + 1) + 1) - 1 = i + 1 /\ (i + 1) + 1 \in 1 .. m
        /\ IsSeq(r[i + 1])
        BY <1>1, <1>4
  <2>2. r[(i + 1) + 1] = r[i + 1] \o files[(i + 1) + 1]
        BY <1>2, <2>1
  <2>3. IsSeq(files[(i + 1) + 1])
        BY <1>1, <2>1
  <2> QED BY <2>1, <2>2, <2>3, JoinedSeq
<1> HIDE DEF I
<1>5. ASSUME NEW n \in 1 .. m PROVE IsSeq(r[n]) /\ Len(r[n]) \in Nat
  <2>1. n - 1 \in Nat /\ (n - 1) + 1 = n /\ n <= m
        BY <1>1
  <2>2. n - 1 \in I
        BY <1>3, <1>4, <2>1, Induction
  <2>3. IsSeq(r[n])
        BY <2>1, <2>2 DEF I
  <2> QED BY <2>3, SeqHas
<1>6. ASSUME NEW n \in 2 .. m
      PROVE  /\ Len(r[n]) = Len(r[n - 1]) + Len(files[n])
             /\ \A i \in 1 .. Len(r[n - 1]) : r[n][i] = r[n - 1][i]
             /\ \A i \in 1 .. Len(files[n]) : r[n][Len(r[n - 1]) + i] = files[n][i]
  <2> DEFINE s == r[n - 1]
             t == files[n]
  <2>1. n - 1 \in 1 .. m /\ n \in 1 .. m
        BY <1>1
  <2>2. IsSeq(s) /\ IsSeq(t) /\ r[n] = s \o t
        BY <1>1, <1>2, <1>5, <2>1
  <2> HIDE DEF s, t
  <2>3. /\ Len(s \o t) = Len(s) + Len(t)
        /\ \A i \in 1 .. Len(s) : (s \o t)[i] = s[i]
        /\ \A i \in 1 .. Len(t) : (s \o t)[Len(s) + i] = t[i]
        BY <2>2, JoinedSeq
  <2> QED BY <2>2, <2>3, Zenon DEF s, t
<1> DEFINE J == {k \in Nat : k < m => Begins(r[m], r[m - k])}
<1>7. 0 \in J
  <2>1. Len(r[m]) \in Nat
        BY <1>1, <1>5
  <2>2. m - 0 = m
        BY <1>1
  <2> QED BY <2>1, <2>2 DEF Begins
<1>8. ASSUME NEW k \in Nat, k \in J PROVE k + 1 \in J
  <2> SUFFICES ASSUME k + 1 < m PROVE Begins(r[m], r[m - (k + 1)])
      OBVIOUS
  <2> DEFINE n == m - k
             s == r[n - 1]
             t == r[n]
  <2>1. n \in 2 .. m /\ n - 1 \in 1 .. m /\ n \in 1 .. m /\ m - (k + 1) = n - 1 /\ Begins(r[m], t)
        BY <1>1, <1>8
  <2> HIDE DEF n
  <2>2. Len(t) = Len(s) + Len(files[n]) /\ \A i \in 1 .. Len(s) : t[i] = s[i]
        BY <1>6, <2>1
  <2>3. Len(s) \in Nat /\ Len(t) \in Nat /\ Len(files[n]) \in Nat /\ Len(r[m]) \in Nat
    <3>1. IsSeq(files[n])
          BY <1>1, <2>1
    <3>2. m \in 1 .. m
          BY <1>1
    <3> QED BY <1>5, <2>1, <3>1, <3>2, SeqHas
  <2> HIDE DEF s, t
  <2>4. Begins(r[m], s)
        BY <2>1, <2>2, <2>3 DEF Begins
  <2> QED BY <2>1, <2>4 DEF s
<1> HIDE DEF J
<1>9. ASSUME NEW n \in 1 .. m PROVE Begins(r[m], r[n])
  <2>1. m - n \in Nat /\ m - n < m /\ m - (m - n) = n
        BY <1>1
  <2>2. m - n \in J
        BY <1>7, <1>8, <2>1, Induction
  <2> QED BY <2>1, <2>2 DEF J
<1> QED BY <1>5, <1>6, <1>9 DEF m

\* The presets are the built-in two and then others, each with a name of its own.
NamedPresets(all) ==
  /\ Len(all) >= 2 /\ \A i \in 1 .. 2 : all[i] = BuiltinPresets[i]
  /\ \A i \in 3 .. Len(all) : all[i].builtin = FALSE /\ all[i].name # Empty
  /\ \A i, j \in 1 .. Len(all) : all[i].name = all[j].name => i = j

LEMMA BuiltinsNamed ==
  /\ NamedPresets(BuiltinPresets)
  /\ \A i \in 1 .. 2 : BuiltinPresets[i].builtin = TRUE
                       /\ BuiltinPresets[i].name \in {"Recommended", "Off"}
<1> DEFINE p == [name |-> "Recommended", builtin |-> TRUE, top |-> LookTop,
                 nr |-> [base |-> Cinematic, passes |-> <<Cinematic, Cinematic>>,
                         frame |-> [BaseFrame EXCEPT !.colour_preserve = 900, !.highlight_protect = 600,
                                                     !.model_scale = 500, !.final_pass_full = TRUE]]]
           q == [name |-> "Off", builtin |-> TRUE, nr |-> NrSettings,
                 top |-> [LookTop EXCEPT !.neural_pass = "passthrough"]]
<1>1. BuiltinPresets = <<p, q>>
      BY Zenon DEF BuiltinPresets
<1>2. /\ p.name = "Recommended" /\ q.name = "Off" /\ p.builtin = TRUE /\ q.builtin = TRUE
      BY Zenon
<1> HIDE DEF p, q
<1>3. BuiltinPresets[1] = p /\ BuiltinPresets[2] = q /\ Len(BuiltinPresets) = 2
      BY <1>1
<1>4. p.name # q.name
      BY <1>2
<1>5. \A i \in 1 .. 2 : i = 1 \/ i = 2
      OBVIOUS
<1>6. /\ \A i \in 1 .. 2 : BuiltinPresets[i].builtin = TRUE
                           /\ BuiltinPresets[i].name \in {"Recommended", "Off"}
  <2>1. BuiltinPresets[1].builtin = TRUE /\ BuiltinPresets[1].name \in {"Recommended", "Off"}
        BY <1>2, <1>3, Zenon
  <2>2. BuiltinPresets[2].builtin = TRUE /\ BuiltinPresets[2].name \in {"Recommended", "Off"}
        BY <1>2, <1>3, Zenon
  <2> QED BY <1>5, <2>1, <2>2, Zenon
<1>7. \A i, j \in 1 .. 2 : BuiltinPresets[i].name = BuiltinPresets[j].name => i = j
  <2> SUFFICES ASSUME NEW i \in 1 .. 2, NEW j \in 1 .. 2, BuiltinPresets[i].name = BuiltinPresets[j].name, i # j
               PROVE  FALSE
      OBVIOUS
  <2>1. (i = 1 /\ j = 2) \/ (i = 2 /\ j = 1)
        BY <1>5
  <2> QED BY <1>3, <1>4, <2>1
<1>8. 3 .. 2 = {} /\ 2 >= 2
      OBVIOUS
<1> QED BY <1>3, <1>6, <1>7, <1>8 DEF NamedPresets

\* Where a written preset lies in the file, and that it ends where the next begins.
Placed(r, file, all, n) ==
  /\ Len(r[n - 1]) \in Nat /\ Len(r[n]) \in Len(r[n - 1]) + 2 .. Len(file)
  /\ file[Len(r[n - 1]) + 1].header = "preset"
  /\ \A j \in Len(r[n - 1]) + 2 .. Len(r[n]) : file[j].header # "preset"
  /\ PartOf(file, Len(r[n - 1]) + 1) = WritePreset(all[n])

LEMMA PresetPlaces ==
  ASSUME NEW all, TypedPresets(all), NamedPresets(all), NEW r, Joined(r, PresetFiles(all)),
         NEW file, file = r[Len(all)]
  PROVE  /\ IsSeq(file) /\ Len(file) \in Nat /\ Len(r[2]) = 0
         /\ \A n \in 3 .. Len(all) : Placed(r, file, all, n)
<1> DEFINE files == PresetFiles(all)
           m == Len(all)
<1>1. m \in Nat /\ m >= 2 /\ DOMAIN all = 1 .. m
      BY SeqHas DEF TypedPresets, NamedPresets
<1>2. /\ IsSeq(files) /\ Len(files) = m /\ DOMAIN files = 1 .. m
      /\ \A i \in 1 .. m : /\ IsSeq(files[i])
                           /\ files[i] = IF all[i].builtin THEN <<>> ELSE WritePreset(all[i])
  <2>1. /\ IsSeq(files) /\ Len(files) = m
        /\ \A i \in 1 .. m : /\ TypedFile(files[i])
                             /\ files[i] = IF all[i].builtin THEN <<>> ELSE WritePreset(all[i])
        BY <1>1, PresetsWritten
  <2> HIDE DEF files
  <2> QED BY <2>1, SeqHas DEF TypedFile
<1>3. Joined(r, files) /\ file = r[m]
      OBVIOUS
<1> DEFINE none == <<>>
<1>4. Len(none) = 0
      OBVIOUS
<1>5. files[1] = none /\ files[2] = none
  <2>1. 1 \in 1 .. m /\ 2 \in 1 .. m /\ 1 \in 1 .. 2 /\ 2 \in 1 .. 2
        BY <1>1
  <2>2. all[1].builtin = TRUE /\ all[2].builtin = TRUE
        BY <2>1, BuiltinsNamed DEF NamedPresets
  <2> HIDE DEF files, none
  <2> QED BY <1>2, <2>1, <2>2, Zenon DEF none
<1>6. \A n \in 3 .. m : files[n] = WritePreset(all[n]) /\ TypedPreset(all[n])
  <2> SUFFICES ASSUME NEW n \in 3 .. m PROVE files[n] = WritePreset(all[n]) /\ TypedPreset(all[n])
      OBVIOUS
  <2>1. n \in 1 .. m /\ all[n].builtin = FALSE
        BY <1>1 DEF NamedPresets
  <2>2. files[n] = WritePreset(all[n])
    <3> HIDE DEF files
    <3> QED BY <1>2, <2>1, Zenon
  <2>3. TypedPreset(all[n])
        BY <1>1, <2>1 DEF TypedPresets
  <2> QED BY <2>2, <2>3
<1>7. \A n \in 3 .. m : /\ IsSeq(files[n]) /\ Len(files[n]) \in Nat /\ Len(files[n]) >= 2
                        /\ files[n][1].header = "preset"
                        /\ \A j \in 2 .. Len(files[n]) : files[n][j].header # "preset"
  <2> SUFFICES ASSUME NEW n \in 3 .. m
               PROVE  /\ IsSeq(files[n]) /\ Len(files[n]) \in Nat /\ Len(files[n]) >= 2
                      /\ files[n][1].header = "preset"
                      /\ \A j \in 2 .. Len(files[n]) : files[n][j].header # "preset"
      OBVIOUS
  <2> DEFINE p == all[n]
             w == WritePreset(p)
  <2>1. files[n] = w /\ TypedPreset(p)
        BY <1>6
  <2> HIDE DEF p
  <2>2. /\ TypedFile(w) /\ Len(w) = Len(p.nr.passes) + 2
        /\ w[1] = WriteTable("preset", Both([name |-> p.name], p.top))
        /\ \A j \in 2 .. Len(w) : w[j].header # "preset"
        BY <2>1, WritePresetIs, PresetParts
  <2>3. w[1].header = "preset"
    <3> DEFINE s == WriteTable("preset", Both([name |-> p.name], p.top))
    <3>1. s.header = "preset"
          BY DEF WriteTable
    <3> HIDE DEF s
    <3> QED BY <2>2, <3>1 DEF s
  <2>4. IsSeq(p.nr.passes)
        BY <2>1 DEF TypedPreset, TypedNr
  <2>5. Len(p.nr.passes) \in Nat
        BY <2>4, SeqHas
  <2> HIDE DEF w, files
  <2> QED BY <2>1, <2>2, <2>3, <2>5 DEF TypedFile
<1> HIDE DEF files, none
<1>8. /\ \A n \in 1 .. m : IsSeq(r[n]) /\ Len(r[n]) \in Nat
      /\ \A n \in 2 .. m :
           /\ Len(r[n]) = Len(r[n - 1]) + Len(files[n])
           /\ \A i \in 1 .. Len(r[n - 1]) : r[n][i] = r[n - 1][i]
           /\ \A i \in 1 .. Len(files[n]) : r[n][Len(r[n - 1]) + i] = files[n][i]
      /\ \A n \in 1 .. m : Begins(file, r[n])
  <2>1. \A i \in DOMAIN files : IsSeq(files[i])
        BY <1>2
  <2>2. Len(files) # 0
        BY <1>1, <1>2
  <2>3. /\ \A n \in 1 .. Len(files) : IsSeq(r[n]) /\ Len(r[n]) \in Nat
        /\ \A n \in 2 .. Len(files) :
             /\ Len(r[n]) = Len(r[n - 1]) + Len(files[n])
             /\ \A i \in 1 .. Len(r[n - 1]) : r[n][i] = r[n - 1][i]
             /\ \A i \in 1 .. Len(files[n]) : r[n][Len(r[n - 1]) + i] = files[n][i]
        /\ \A n \in 1 .. Len(files) : Begins(r[Len(files)], r[n])
        BY <1>2, <1>3, <2>1, <2>2, JoinedAre
  <2>4. Len(files) = m /\ r[Len(files)] = file
        BY <1>2, <1>3
  <2> HIDE DEF m
  <2> QED BY <2>3, <2>4, Zenon
<1>9. IsSeq(file) /\ Len(file) \in Nat
  <2>1. m \in 1 .. m
        BY <1>1
  <2> QED BY <1>3, <1>8, <2>1
<1>10. Len(r[2]) = 0
  <2>1. r[1] = files[1]
        BY <1>3 DEF Joined
  <2>2. 2 \in 2 .. m /\ 2 - 1 = 1
        BY <1>1
  <2>3. Len(r[2]) = Len(r[1]) + Len(files[2])
        BY <1>8, <2>2
  <2> QED BY <1>4, <1>5, <2>1, <2>3
<1> HIDE DEF m
\* A preset's sections.
<1>11. ASSUME NEW n \in 3 .. m
       PROVE  /\ Len(r[n - 1]) \in Nat /\ Len(r[n]) \in Nat /\ Len(r[n]) = Len(r[n - 1]) + Len(files[n])
              /\ Len(r[n]) >= Len(r[n - 1]) + 2 /\ Len(r[n]) <= Len(file)
              /\ \A i \in 1 .. Len(files[n]) : file[Len(r[n - 1]) + i] = files[n][i]
              /\ file[Len(r[n - 1]) + 1].header = "preset"
              /\ \A j \in Len(r[n - 1]) + 2 .. Len(r[n]) : file[j].header # "preset"
  <2> DEFINE e == Len(r[n - 1])
             l == Len(r[n])
             w == files[n]
  <2>1. n - 1 \in 1 .. m /\ n \in 1 .. m /\ n \in 2 .. m
        BY <1>1
  <2>2. /\ e \in Nat /\ l \in Nat /\ l = e + Len(w)
        /\ \A i \in 1 .. Len(w) : r[n][e + i] = w[i]
        /\ l <= Len(file) /\ \A i \in 1 .. l : file[i] = r[n][i]
        BY <1>8, <2>1 DEF Begins
  <2>3. /\ Len(w) \in Nat /\ Len(w) >= 2 /\ w[1].header = "preset"
        /\ \A j \in 2 .. Len(w) : w[j].header # "preset"
        BY <1>7
  <2> HIDE DEF e, l, w
  <2>4. ASSUME NEW i \in 1 .. Len(w) PROVE file[e + i] = w[i]
    <3>1. e + i \in 1 .. l
          BY <2>2, <2>3
    <3> QED BY <2>2, <3>1
  <2>5. file[e + 1].header = "preset"
    <3>1. 1 \in 1 .. Len(w)
          BY <2>3
    <3> QED BY <2>3, <2>4, <3>1
  <2>6. ASSUME NEW j \in e + 2 .. l PROVE file[j].header # "preset"
    <3>1. j - e \in 2 .. Len(w) /\ j - e \in 1 .. Len(w) /\ j = e + (j - e)
          BY <2>2, <2>3
    <3>2. file[e + (j - e)] = w[j - e]
          BY <2>4, <3>1
    <3> QED BY <2>3, <3>1, <3>2
  <2>7. l >= e + 2
        BY <2>2, <2>3
  <2> QED BY <2>2, <2>4, <2>5, <2>6, <2>7, Zenon DEF e, l, w
\* Behind them, the next preset's.
<1>12. ASSUME NEW n \in 3 .. m, Len(r[n]) < Len(file)
       PROVE  file[Len(r[n]) + 1].header = "preset"
  <2>1. n # m
        BY <1>3, <1>9, <1>12
  <2>2. n + 1 \in 3 .. m /\ (n + 1) - 1 = n
        BY <1>1, <2>1
  <2>3. file[Len(r[(n + 1) - 1]) + 1].header = "preset"
        BY <1>11, <2>2
  <2> QED BY <2>2, <2>3
<1>13. ASSUME NEW n \in 3 .. m PROVE PartOf(file, Len(r[n - 1]) + 1) = WritePreset(all[n])
  <2> DEFINE e == Len(r[n - 1])
             l == Len(r[n])
             i == e + 1
             last == LastOf(file, i)
             part == PartOf(file, i)
             w == files[n]
  <2>1. /\ e \in Nat /\ l \in Nat /\ l = e + Len(w) /\ l >= e + 2 /\ l <= Len(file)
        /\ \A j \in 1 .. Len(w) : file[e + j] = w[j]
        /\ \A j \in e + 2 .. l : file[j].header # "preset"
        BY <1>11
  <2>2. l < Len(file) => file[l + 1].header = "preset"
        BY <1>12
  <2>3. IsSeq(w) /\ Len(w) \in Nat
        BY <1>7
  <2> HIDE DEF e, l, w
  <2>4. i \in 1 .. Len(file)
        BY <1>9, <2>1
  <2> HIDE DEF i
  <2>5. /\ last \in i .. Len(file)
        /\ \A j \in i + 1 .. last : file[j].header # "preset"
        /\ last < Len(file) => file[last + 1].header = "preset"
        /\ IsSeq(part) /\ Len(part) = last - i + 1
        /\ \A j \in 1 .. last - i + 1 : part[j] = file[i + j - 1]
        BY <1>9, <2>4, PartIs
  <2> HIDE DEF last, part
  <2>6. last = l
    <3>1. last \in Int /\ i = e + 1 /\ last >= i /\ last <= Len(file)
          BY <1>9, <2>1, <2>4, <2>5 DEF i
    <3>2. ASSUME last < l PROVE FALSE
      <4>1. last + 1 \in e + 2 .. l /\ last < Len(file)
            BY <1>9, <2>1, <3>1, <3>2
      <4> QED BY <2>1, <2>5, <4>1
    <3>3. ASSUME last > l PROVE FALSE
      <4>1. l + 1 \in i + 1 .. last /\ l < Len(file)
            BY <1>9, <2>1, <3>1, <3>3
      <4> QED BY <2>2, <2>5, <4>1
    <3> QED BY <2>1, <3>1, <3>2, <3>3
  <2>7. Len(part) = Len(w)
        BY <2>1, <2>3, <2>5, <2>6 DEF i
  <2>8. ASSUME NEW j \in 1 .. Len(part) PROVE part[j] = w[j]
    <3>1. j \in 1 .. last - i + 1 /\ i + j - 1 = e + j /\ j \in 1 .. Len(w)
          BY <2>1, <2>3, <2>5, <2>7 DEF i
    <3>2. part[j] = file[i + j - 1]
          BY <2>5, <3>1
    <3> QED BY <2>1, <3>1, <3>2
  <2>9. part = w
        BY <2>3, <2>5, <2>7, <2>8, SameSeq
  <2>10. w = WritePreset(all[n])
         BY <1>6 DEF w
  <2> QED BY <2>9, <2>10 DEF part, i, e
<1>14. ASSUME NEW n \in 3 .. m
       PROVE  /\ Len(r[n - 1]) \in Nat /\ Len(r[n]) \in Len(r[n - 1]) + 2 .. Len(file)
              /\ file[Len(r[n - 1]) + 1].header = "preset"
              /\ \A j \in Len(r[n - 1]) + 2 .. Len(r[n]) : file[j].header # "preset"
              /\ PartOf(file, Len(r[n - 1]) + 1) = WritePreset(all[n])
  <2> DEFINE e == Len(r[n - 1])
             l == Len(r[n])
  <2>0. e \in Nat /\ l \in Nat /\ l >= e + 2 /\ l <= Len(file)
        BY <1>11
  <2> HIDE DEF e, l
  <2>1. l \in e + 2 .. Len(file)
        BY <1>9, <2>0
  <2> USE DEF e, l
  <2> QED BY <1>11, <1>13, <2>1
<1>15. \A n \in 3 .. m : Placed(r, file, all, n)
       BY <1>14, Zenon DEF Placed
<1> QED BY <1>9, <1>10, <1>15 DEF m

\* A preset of its own name is added, and other sections add none.
LEMMA Adds ==
  ASSUME NEW file, NEW all, NEW i, file[i].header = "preset", NEW p, PresetAt(file, i) = p,
         p.name # Empty, \A q \in ToSet(all) : q.name # p.name
  PROVE  AddPreset(file, all, i) = Append(all, p)
BY Zenon DEF AddPreset

Adding(r, file) == \A i \in 1 .. Len(file) : r[i] = AddPreset(file, r[i - 1], i)
OtherSections(file, lo, hi) == \A j \in lo + 1 .. hi : file[j].header # "preset"

LEMMA AddsNone ==
  ASSUME NEW file, IsSeq(file), NEW r, Adding(r, file),
         NEW lo \in Nat, NEW hi \in Nat, lo <= hi, hi <= Len(file), OtherSections(file, lo, hi)
  PROVE  r[hi] = r[lo]
<1> DEFINE n == Len(file)
<1>0. n \in Nat /\ (\A i \in 1 .. n : r[i] = AddPreset(file, r[i - 1], i)) /\ hi <= n
      BY SeqHas DEF Adding
<1> HIDE DEF n
<1> DEFINE I == {k \in Nat : lo + k <= hi => r[lo + k] = r[lo]}
<1>1. 0 \in I
  <2>1. lo + 0 = lo
        OBVIOUS
  <2> QED BY <2>1
<1>2. ASSUME NEW k \in Nat, k \in I PROVE k + 1 \in I
  <2> SUFFICES ASSUME lo + (k + 1) <= hi PROVE r[lo + (k + 1)] = r[lo]
      OBVIOUS
  <2> DEFINE i == lo + (k + 1)
  <2>1. i \in 1 .. n /\ i - 1 = lo + k /\ i \in lo + 1 .. hi /\ r[lo + k] = r[lo]
        BY <1>0, <1>2
  <2> HIDE DEF i
  <2>2. r[i] = AddPreset(file, r[lo], i)
        BY <1>0, <2>1
  <2>3. file[i].header # "preset"
        BY <2>1 DEF OtherSections
  <2>4. AddPreset(file, r[lo], i) = r[lo]
        BY <2>3, Zenon DEF AddPreset
  <2> QED BY <2>2, <2>4 DEF i
<1> HIDE DEF I
<1>3. hi - lo \in Nat /\ lo + (hi - lo) = hi
      OBVIOUS
<1>4. hi - lo \in I
      BY <1>1, <1>2, <1>3, Induction
<1> QED BY <1>3, <1>4 DEF I

RereadList(s, all, n) ==
  /\ IsSeq(s) /\ Len(s) = n
  /\ \A i \in 1 .. 2 : s[i] = BuiltinPresets[i]
  /\ \A i \in 3 .. n : s[i] = RereadPreset(all[i])

\* The presets read of the file the presets were written to.
LEMMA ListBack ==
  ASSUME NEW all, TypedPresets(all), NamedPresets(all),
         FlattenSeq(PresetFiles(all)) # Unreadable
  PROVE  RereadList(AllPresets(FlattenSeq(PresetFiles(all))), all, Len(all))
<1> DEFINE files == PresetFiles(all)
           file == FlattenSeq(files)
           m == Len(all)
<1>1. m \in Nat /\ m >= 2 /\ DOMAIN all = 1 .. m
      BY SeqHas DEF TypedPresets, NamedPresets
<1>2. IsSeq(files) /\ Len(files) = m /\ TypedFile(file)
      BY PresetsWritten
<1>3. PICK r : Joined(r, files) /\ file = r[m]
  <2>1. Len(files) # 0
        BY <1>1, <1>2
  <2> HIDE DEF file, m
  <2>2. \E r : /\ r[1] = files[1]
               /\ \A i \in 2 .. Len(files) : r[i] = r[i - 1] \o files[i]
               /\ FlattenSeq(files) = r[Len(files)]
        BY <1>2, <2>1, FlattenSteps
  <2> QED BY <1>2, <2>2, Zenon DEF Joined, file
<1>4. file # Unreadable
      OBVIOUS
<1> HIDE DEF file
<1>5. /\ IsSeq(file) /\ Len(file) \in Nat /\ Len(r[2]) = 0
      /\ \A n \in 3 .. m : Placed(r, file, all, n)
      BY <1>3, PresetPlaces
<1>6. PICK a : /\ a[0] = BuiltinPresets
               /\ \A i \in 1 .. Len(file) : a[i] = AddPreset(file, a[i - 1], i)
               /\ AllPresets(file) = a[Len(file)]
      BY <1>4, <1>5, ListSteps
<1> HIDE DEF m, files
<1> DEFINE I == {k \in Nat : k + 2 <= m => RereadList(a[Len(r[k + 2])], all, k + 2)}
<1>7. 0 \in I
  <2>1. 0 + 2 = 2 /\ 3 .. 2 = {}
        OBVIOUS
  <2>2. RereadList(BuiltinPresets, all, 2)
        BY <2>1, BuiltinsFit DEF RereadList, GoodPresets
  <2>3. a[Len(r[0 + 2])] = BuiltinPresets
        BY <1>5, <1>6, <2>1
  <2> QED BY <2>1, <2>2, <2>3
<1>8. ASSUME NEW k \in Nat, k \in I PROVE k + 1 \in I
  <2> SUFFICES ASSUME (k + 1) + 2 <= m PROVE RereadList(a[Len(r[(k + 1) + 2])], all, (k + 1) + 2)
      OBVIOUS
  <2> DEFINE n == (k + 1) + 2
             e == Len(r[n - 1])
             l == Len(r[n])
             s == a[e]
             p == all[n]
             q == RereadPreset(p)
  <2>1. n \in 3 .. m /\ n \in Nat /\ n - 1 = k + 2 /\ n - 1 \in Nat /\ n - 1 >= 2 /\ n <= m /\ k + 2 <= m
        BY <1>1
  <2>2. RereadList(s, all, n - 1)
        BY <1>8, <2>1
  <2> HIDE DEF n
  <2>3. /\ e \in Nat /\ l \in e + 2 .. Len(file)
        /\ file[e + 1].header = "preset"
        /\ \A j \in e + 2 .. l : file[j].header # "preset"
        /\ PartOf(file, e + 1) = WritePreset(p)
    <3>1. Placed(r, file, all, n)
          BY <1>5, <2>1
    <3> QED BY <3>1, Zenon DEF Placed
  <2>4. TypedPreset(p) /\ p.name # Empty
    <3>1. n \in 1 .. m
          BY <1>1, <2>1
    <3>2. TypedPreset(p)
          BY <1>1, <3>1 DEF TypedPresets
    <3>3. p.name # Empty
          BY <2>1 DEF NamedPresets, m
    <3> QED BY <3>2, <3>3
  <2> HIDE DEF e, l, s, p
  <2>5. PresetAt(file, e + 1) = q
    <3>1. e + 1 \in 1 .. Len(file)
          BY <1>5, <2>3
    <3> HIDE DEF q
    <3>2. PresetAt(file, e + 1) = RereadPreset(p)
          BY <1>2, <2>3, <2>4, <3>1, PresetBack
    <3> QED BY <3>2 DEF q
  <2>6. q.name = p.name
        BY DEF RereadPreset
  <2> HIDE DEF q
  <2>7. ASSUME NEW x \in ToSet(s) PROVE x.name # q.name
    <3>1. PICK i \in DOMAIN s : x = s[i]
          BY DEF ToSet
    <3>2. DOMAIN s = 1 .. (n - 1)
          BY <2>2, SeqHas DEF RereadList
    <3>3. i \in 1 .. (n - 1) /\ i \in 1 .. m /\ n \in 1 .. m /\ i # n
          BY <1>1, <2>1, <3>2
    <3>4. s[i].name = all[i].name
      <4>1. CASE i \in 1 .. 2
        <5>1. all[i] = BuiltinPresets[i] /\ s[i] = BuiltinPresets[i]
              BY <2>2, <4>1 DEF NamedPresets, RereadList
        <5> QED BY <5>1
      <4>2. CASE i \notin 1 .. 2
        <5>1. i \in 3 .. (n - 1)
              BY <2>1, <3>3, <4>2
        <5>2. s[i] = RereadPreset(all[i])
              BY <2>2, <5>1 DEF RereadList
        <5>3. RereadPreset(all[i]).name = all[i].name
              BY DEF RereadPreset
        <5> QED BY <5>2, <5>3
      <4> QED BY <4>1, <4>2
    <3>5. all[i].name # all[n].name
          BY <3>3 DEF NamedPresets, m
    <3> QED BY <2>6, <3>1, <3>4, <3>5 DEF p
  <2>8. a[e + 1] = Append(s, q)
    <3>1. e + 1 \in 1 .. Len(file) /\ (e + 1) - 1 = e
          BY <1>5, <2>3
    <3>2. a[e + 1] = AddPreset(file, s, e + 1)
          BY <1>6, <3>1 DEF s
    <3>3. q.name # Empty
          BY <2>4, <2>6
    <3>4. AddPreset(file, s, e + 1) = Append(s, q)
          BY <2>3, <2>5, <2>7, <3>3, Adds
    <3> QED BY <3>2, <3>4
  <2>9. a[l] = a[e + 1]
    <3> DEFINE lo == e + 1
    <3>1. lo \in Nat /\ l \in Nat /\ lo <= l /\ l <= Len(file)
          BY <1>5, <2>3
    <3>2. OtherSections(file, lo, l)
          BY <2>3 DEF OtherSections
    <3>3. Adding(a, file)
          BY <1>6 DEF Adding
    <3>4. IsSeq(file)
          BY <1>5
    <3> HIDE DEF lo
    <3>5. a[l] = a[lo]
          BY <3>1, <3>2, <3>3, <3>4, AddsNone
    <3> QED BY <3>5 DEF lo
  <2>10. RereadList(Append(s, q), all, n)
    <3>1. IsSeq(s) /\ Len(s) = n - 1
          BY <2>2 DEF RereadList
    <3> DEFINE t == Append(s, q)
    <3>2. /\ IsSeq(t) /\ Len(t) = Len(s) + 1
          /\ \A i \in 1 .. Len(s) : t[i] = s[i]
          /\ t[Len(s) + 1] = q
          BY <3>1, AppendedSeq
    <3> HIDE DEF t
    <3>3. Len(t) = n /\ t[n] = q /\ \A i \in 1 .. (n - 1) : t[i] = s[i]
          BY <2>1, <3>1, <3>2
    <3>4. ASSUME NEW i \in 1 .. 2 PROVE t[i] = BuiltinPresets[i]
      <4>1. i \in 1 .. (n - 1)
            BY <2>1
      <4> QED BY <2>2, <3>3, <4>1 DEF RereadList
    <3>5. ASSUME NEW i \in 3 .. n PROVE t[i] = RereadPreset(all[i])
      <4>1. CASE i = n
            BY <3>3, <4>1 DEF q, p
      <4>2. CASE i # n
        <5>1. i \in 1 .. (n - 1) /\ i \in 3 .. (n - 1)
              BY <2>1, <4>2
        <5> QED BY <2>2, <3>3, <5>1 DEF RereadList
      <4> QED BY <4>1, <4>2
    <3> QED BY <3>2, <3>3, <3>4, <3>5 DEF RereadList, t
  <2>11. RereadList(a[l], all, n)
         BY <2>8, <2>9, <2>10
  <2> QED BY <2>11 DEF l, n
<1> HIDE DEF I
<1>9. m - 2 \in Nat /\ (m - 2) + 2 = m
      BY <1>1
<1>10. m - 2 \in I
       BY <1>7, <1>8, <1>9, Induction
<1>11. RereadList(a[Len(r[m])], all, m)
       BY <1>1, <1>9, <1>10 DEF I
<1> QED BY <1>3, <1>6, <1>11 DEF m, file, files

\* The presets with one more of a new name, or with another in the place of one.
LEMMA MoreNamed ==
  ASSUME NEW all, IsSeq(all), NamedPresets(all), NEW p, p.builtin = FALSE, p.name # Empty,
         \A i \in 1 .. Len(all) : all[i].name # p.name
  PROVE  NamedPresets(Append(all, p))
<1> DEFINE t == Append(all, p)
           n == Len(all)
<1>1. n \in Nat /\ n >= 2
      BY SeqHas DEF NamedPresets
<1>2. Len(t) = n + 1 /\ t[n + 1] = p /\ \A i \in 1 .. n : t[i] = all[i]
      BY AppendedSeq
<1>3. /\ \A i \in 1 .. 2 : all[i] = BuiltinPresets[i]
      /\ \A i \in 3 .. n : all[i].builtin = FALSE /\ all[i].name # Empty
      /\ \A i, j \in 1 .. n : all[i].name = all[j].name => i = j
      /\ \A i \in 1 .. n : all[i].name # p.name
      BY DEF NamedPresets
<1> HIDE DEF t, n
<1>4. ASSUME NEW i \in 1 .. 2 PROVE t[i] = BuiltinPresets[i]
  <2>1. i \in 1 .. n
        BY <1>1
  <2> QED BY <1>2, <1>3, <2>1
<1>5. ASSUME NEW i \in 3 .. n + 1 PROVE t[i].builtin = FALSE /\ t[i].name # Empty
  <2>1. CASE i = n + 1
        BY <1>2, <2>1, Zenon
  <2>2. CASE i # n + 1
    <3>1. i \in 3 .. n /\ i \in 1 .. n
          BY <1>1, <2>2
    <3> QED BY <1>2, <1>3, <3>1, Zenon
  <2> QED BY <2>1, <2>2
<1>6. ASSUME NEW i \in 1 .. n + 1, NEW j \in 1 .. n + 1, t[i].name = t[j].name PROVE i = j
  <2>1. \A k \in 1 .. n + 1 : k \in 1 .. n \/ k = n + 1
        BY <1>1
  <2> QED BY <1>2, <1>3, <1>6, <2>1
<1>7. n + 1 >= 2
      BY <1>1
<1>8. NamedPresets(t)
      BY <1>2, <1>4, <1>5, <1>6, <1>7, Zenon DEF NamedPresets
<1> QED BY <1>8 DEF t

LEMMA OtherNamed ==
  ASSUME NEW all, IsSeq(all), NamedPresets(all), NEW at \in 3 .. Len(all),
         NEW p, p.builtin = FALSE, p.name = all[at].name
  PROVE  NamedPresets([all EXCEPT ![at] = p])
<1> DEFINE t == [all EXCEPT ![at] = p]
           n == Len(all)
<1>1. n \in Nat /\ n >= 2 /\ DOMAIN all = 1 .. n
      BY SeqHas DEF NamedPresets
<1>2. at \in 3 .. n /\ at \in 1 .. n
      BY <1>1
<1>3. /\ \A i \in 1 .. 2 : all[i] = BuiltinPresets[i]
      /\ \A i \in 3 .. n : all[i].builtin = FALSE /\ all[i].name # Empty
      /\ \A i, j \in 1 .. n : all[i].name = all[j].name => i = j
      BY DEF NamedPresets
<1>4. /\ t = [i \in 1 .. n |-> t[i]] /\ t[at] = p /\ \A i \in 1 .. n : i # at => t[i] = all[i]
      BY <1>1, <1>2
<1> HIDE DEF t, n
<1>5. Len(t) = n
      BY <1>1, <1>4, BuiltSeq
<1>6. ASSUME NEW i \in 1 .. 2 PROVE t[i] = BuiltinPresets[i]
  <2>1. i \in 1 .. n /\ i # at
        BY <1>1, <1>2
  <2> QED BY <1>3, <1>4, <2>1
<1>7. \A i \in 1 .. n : t[i].name = all[i].name
      BY <1>4
<1>8. ASSUME NEW i \in 3 .. n PROVE t[i].builtin = FALSE /\ t[i].name # Empty
  <2>1. i \in 1 .. n
        BY <1>1
  <2>2. t[i].builtin = FALSE
        BY <1>3, <1>4, <2>1, Zenon
  <2> QED BY <1>3, <1>7, <2>1, <2>2, Zenon
<1>9. \A i, j \in 1 .. n : t[i].name = t[j].name => i = j
      BY <1>3, <1>7, Zenon
<1>10. NamedPresets(t)
       BY <1>1, <1>5, <1>6, <1>8, <1>9, Zenon DEF NamedPresets
<1> QED BY <1>10 DEF t

LEMMA NameIsAt ==
  ASSUME NEW all, IsSeq(all), NEW name
  PROVE  /\ NameAt(all, name) = 0 => \A i \in 1 .. Len(all) : all[i].name # name
         /\ NameAt(all, name) # 0 => /\ NameAt(all, name) \in 1 .. Len(all)
                                     /\ all[NameAt(all, name)].name = name
<1> DEFINE J == {i \in 1 .. Len(all) : all[i].name = name}
<1>1. NameAt(all, name) = IF J # {} THEN Min(J) ELSE 0
      BY Zenon DEF NameAt, SelectInSeq
<1>2. J \subseteq Nat /\ Len(all) \in Nat
      BY SeqHas
<1>3. \A i : i \in J <=> i \in 1 .. Len(all) /\ all[i].name = name
      OBVIOUS
<1> HIDE DEF J
<1>4. J # {} => Min(J) \in J
      BY <1>2, MinIsIn
<1>5. \A i \in 1 .. Len(all) : i # 0
      BY <1>2
<1> QED BY <1>1, <1>3, <1>4, <1>5

\* Whatever is in presets.toml.
LEMMA AllNamed ==
  ASSUME NEW file, Listable(file)
  PROVE  NamedPresets(AllPresets(file))
<1>1. CASE file = Unreadable
  <2>1. AllPresets(file) = BuiltinPresets
        BY <1>1, Zenon DEF AllPresets
  <2> QED BY <2>1, BuiltinsNamed
<1>2. CASE file # Unreadable
  <2> DEFINE n == Len(file)
  <2>1. TypedFile(file) /\ IsSeq(file) /\ n \in Nat
        BY <1>2, SeqHas DEF TypedFile, Listable
  <2>2. PICK r : /\ r[0] = BuiltinPresets
                 /\ \A i \in 1 .. n : r[i] = AddPreset(file, r[i - 1], i)
                 /\ AllPresets(file) = r[n]
        BY <1>2, <2>1, ListSteps
  <2> DEFINE Good(all) == IsSeq(all) /\ NamedPresets(all)
             I == {i \in Nat : i <= n => Good(r[i])}
  <2>3. 0 \in I
        BY <2>2, BuiltinsFit, BuiltinsNamed DEF GoodPresets
  <2>4. ASSUME NEW i \in Nat, i \in I PROVE i + 1 \in I
    <3> SUFFICES ASSUME i + 1 <= n PROVE Good(r[i + 1])
        OBVIOUS
    <3> DEFINE all == r[i]
               p == PresetAt(file, i + 1)
    <3>1. i + 1 \in 1 .. n /\ (i + 1) - 1 = i /\ Good(all)
          BY <2>1, <2>4
    <3>2. r[i + 1] = AddPreset(file, all, i + 1)
          BY <2>2, <3>1
    <3>3. \/ AddPreset(file, all, i + 1) = all
          \/ /\ AddPreset(file, all, i + 1) = Append(all, p)
             /\ file[i + 1].header = "preset" /\ p.name # Empty /\ \A q \in ToSet(all) : q.name # p.name
          BY Zenon DEF AddPreset
    <3>4. p.builtin = FALSE
          BY Zenon DEF PresetAt
    <3>5. \A j \in 1 .. Len(all) : all[j] \in ToSet(all)
          BY <3>1, SeqHas, ElementOf
    <3> HIDE DEF all, p
    <3>6. ASSUME p.name # Empty, \A q \in ToSet(all) : q.name # p.name PROVE Good(Append(all, p))
      <4>1. \A j \in 1 .. Len(all) : all[j].name # p.name
            BY <3>5, <3>6
      <4>2. NamedPresets(Append(all, p))
            BY <3>1, <3>4, <3>6, <4>1, MoreNamed
      <4> QED BY <3>1, <4>2, AppendedSeq
    <3> QED BY <3>1, <3>2, <3>3, <3>6
  <2> HIDE DEF I, Good
  <2>5. n \in I
        BY <2>1, <2>3, <2>4, Induction
  <2> QED BY <2>1, <2>2, <2>5 DEF I, Good
<1> QED BY <1>1, <1>2

\* What the manager holds is what it read or wrote last.
SeenInv ==
  /\ NamedPresets(presets)
  /\ presets = AllPresets(seen) \/ seen = SerializePresets(presets)

LEMMA SavePresetSeen ==
  ASSUME CodecInv, SeenInv, SavePreset
  PROVE  SeenInv'
<1>1. PICK name \in Strings \ (Control \cup {Empty, "Recommended", "Off"}) :
        LET p == PresetOf(name, config)
            at == NameAt(presets, name)
            all == IF at = 0 THEN Append(presets, p) ELSE [presets EXCEPT ![at] = p]
        IN presets' = all /\ presetText' = SerializePresets(all) /\ seen' = presetText'
      BY Zenon DEF SavePreset, NameAt
<1> DEFINE p == PresetOf(name, config)
           at == NameAt(presets, name)
           all == IF at = 0 THEN Append(presets, p) ELSE [presets EXCEPT ![at] = p]
<1>2. presets' = all /\ seen' = SerializePresets(all)
      BY <1>1, Zenon
<1>3. p.builtin = FALSE /\ p.name = name
      BY Zenon DEF PresetOf
<1>4. name # Empty /\ name # "Recommended" /\ name # "Off"
      BY <1>1, Zenon
<1>5. IsSeq(presets) /\ NamedPresets(presets)
      BY DEF CodecInv, TypedPresets, SeenInv
<1> HIDE DEF p
<1>6. CASE at = 0
  <2>1. \A i \in 1 .. Len(presets) : presets[i].name # name
        BY <1>5, <1>6, NameIsAt
  <2>2. NamedPresets(Append(presets, p))
        BY <1>3, <1>4, <1>5, <2>1, MoreNamed
  <2> QED BY <1>2, <1>6, <2>2 DEF SeenInv
<1>7. CASE at # 0
  <2>1. at \in 1 .. Len(presets) /\ presets[at].name = name
        BY <1>5, <1>7, NameIsAt
  <2> HIDE DEF at
  <2>2. at \notin 1 .. 2
    <3> SUFFICES ASSUME at \in 1 .. 2 PROVE FALSE
        OBVIOUS
    <3>1. presets[at] = BuiltinPresets[at]
          BY <1>5 DEF NamedPresets
    <3> QED BY <1>4, <2>1, <3>1, BuiltinsNamed, Zenon
  <2>3. at \in 3 .. Len(presets)
        BY <1>5, <2>1, <2>2, SeqHas
  <2>4. NamedPresets([presets EXCEPT ![at] = p])
        BY <1>3, <1>5, <2>1, <2>3, OtherNamed
  <2> QED BY <1>2, <1>7, <2>4 DEF SeenInv
<1> QED BY <1>6, <1>7

LEMMA SeenInit == CodecInit => SeenInv
<1> SUFFICES ASSUME CodecInit PROVE SeenInv
    OBVIOUS
<1>1. presets = AllPresets(presetText) /\ seen = presetText
      BY DEF CodecInit
<1>2. NamedPresets(AllPresets(presetText))
      BY InitIsTyped, AllNamed DEF CodecInv
<1> QED BY <1>1, <1>2 DEF SeenInv

LEMMA SeenStep ==
  ASSUME CodecInv, SeenInv, [CodecNext]_codecVars
  PROVE  SeenInv'
<1>1. ASSUME UNCHANGED <<presets, seen>> PROVE SeenInv'
      BY <1>1 DEF SeenInv
<1>2. ASSUME Reopen PROVE SeenInv'
  <2>1. presets' = AllPresets(presetText) /\ seen' = presetText
        BY <1>2 DEF Reopen
  <2>2. NamedPresets(AllPresets(presetText))
        BY AllNamed DEF CodecInv
  <2> QED BY <2>1, <2>2 DEF SeenInv
<1>3. \A c : SetConfig(c) => UNCHANGED <<presets, seen>>
      BY Zenon DEF SetConfig
<1>4. \A c : WriteConfig(c) => UNCHANGED <<presets, seen>>
      BY Zenon DEF WriteConfig
<1>5. CASE DrawTuning \/ SlidePass \/ SlideFrame \/ SlidePasses \/ TuneSeparately \/ ChoosePipeline
           \/ ChoosePreset
  <2>1. UNCHANGED <<presets, seen>>
        BY <1>3, <1>5, Zenon DEF DrawTuning, SlidePass, SlideFrame, SlidePasses, TuneSeparately,
           ChoosePipeline, ChoosePreset
  <2> QED BY <1>1, <2>1
<1>6. CASE ToggleAdvanced \/ ChooseTarget \/ SaveSettings
  <2>1. UNCHANGED <<presets, seen>>
        BY <1>4, <1>6, Zenon DEF ToggleAdvanced, ChooseTarget, SaveSettings
  <2> QED BY <1>1, <2>1
<1>7. CASE EditText \/ EditPresetText \/ UNCHANGED codecVars
  <2>1. UNCHANGED <<presets, seen>>
        BY <1>7, Zenon DEF EditText, EditPresetText, codecVars
  <2> QED BY <1>1, <2>1
<1> QED BY <1>2, <1>5, <1>6, <1>7, SavePresetSeen, Zenon DEF CodecNext, Manager

\* A preset as it is in the list read of presets.toml, against the configuration read
\* of sidecar.toml.
LEMMA StayingMatch ==
  ASSUME NEW p, TypedPreset(p), LegalPreset(p), ~ FinerThanText(p),
         NEW c, TypedConfig(c), FileOf(c) # Unreadable, PresetMatches(p, c)
  PROVE  PresetMatches(p, ParseConfig(FileOf(c)))
<1> DEFINE d == ParseConfig(FileOf(c))
<1>1. d.nr = RereadNr(c.nr) /\ \A k \in DOMAIN LookTop : d.top[k] = RereadTop(k, c.top[k])
      BY ConfigReread
<1>2. p.nr = RereadNr(p.nr) /\ \A k \in DOMAIN LookTop : p.top[k] = RereadTop(k, p.top[k])
      BY PresetStays
<1>3. p.top = [k \in DOMAIN LookTop |-> p.top[k]]
      BY DEF TypedPreset, TypedTop, TypedTable
<1> HIDE DEF d
<1>4. PresetMatches(p, d)
      BY <1>1, <1>2, <1>3, MatchKept
<1> QED BY <1>4 DEF d

LEMMA WrittenMatch ==
  ASSUME NEW p, TypedPreset(p), NEW c, TypedConfig(c), FileOf(c) # Unreadable, PresetMatches(p, c)
  PROVE  PresetMatches(RereadPreset(p), ParseConfig(FileOf(c)))
<1> DEFINE d == ParseConfig(FileOf(c))
           q == RereadPreset(p)
<1>1. d.nr = RereadNr(c.nr) /\ \A k \in DOMAIN LookTop : d.top[k] = RereadTop(k, c.top[k])
      BY ConfigReread
<1>2. q.nr = RereadNr(p.nr) /\ q.top = [k \in DOMAIN LookTop |-> RereadTop(k, p.top[k])]
      BY DEF RereadPreset
<1> HIDE DEF d, q
<1>3. /\ q.top = [k \in DOMAIN LookTop |-> q.top[k]]
      /\ \A k \in DOMAIN LookTop : q.top[k] = RereadTop(k, p.top[k])
      BY <1>2
<1>4. PresetMatches(q, d)
      BY <1>1, <1>2, <1>3, MatchKept
<1> QED BY <1>4 DEF d, q

\* A look that is a preset's by name and by value is still that preset's when both
\* files have been written and are read again (PresetMatches, SerializePresets and
\* ParsePresets, Config.cpp).
THEOREM LookKept == CodecSpec => []LookKeepsItsName
<1>1. CodecInv /\ SeenInv => LookKeepsItsName
  <2> SUFFICES ASSUME CodecInv, SeenInv, saved # None, saved = config, text # Unreadable,
                      seen = presetText, presetText # Unreadable,
                      NEW i \in DOMAIN presets, PresetMatches(presets[i], config),
                      ~ FinerThanText(AllPresets(presetText)[i])
               PROVE  PresetMatches(AllPresets(presetText)[i], ParseConfig(text))
      BY Zenon DEF LookKeepsItsName
  <2> DEFINE read == AllPresets(presetText)
             p == presets[i]
             c == config
  <2>1. TypedConfig(c) /\ text = FileOf(c) /\ FileOf(c) # Unreadable
        BY SerializeIs DEF CodecInv
  <2>2. /\ TypedPresets(presets) /\ IsSeq(presets) /\ NamedPresets(presets)
        /\ Len(presets) \in Nat /\ DOMAIN presets = 1 .. Len(presets) /\ TypedPreset(p)
        BY SeqHas DEF CodecInv, SeenInv, TypedPresets
  <2>3. GoodPresets(read)
        BY AllPresetsAre DEF CodecInv, Listable
  <2>4. CASE read[i] = p /\ i \in DOMAIN read
    <3>1. LegalPreset(p) /\ ~ FinerThanText(p)
          BY <2>3, <2>4 DEF GoodPresets
    <3> HIDE DEF p, c, read
    <3>2. PresetMatches(p, c)
          BY DEF p, c
    <3>3. PresetMatches(p, ParseConfig(FileOf(c)))
          BY <2>1, <2>2, <3>1, <3>2, StayingMatch
    <3> QED BY <2>1, <2>4, <3>3 DEF read
  <2>5. CASE presets = AllPresets(seen)
        BY <2>4, <2>5
  <2>6. CASE seen = SerializePresets(presets)
    <3>1. presetText = FlattenSeq(PresetFiles(presets)) /\ FlattenSeq(PresetFiles(presets)) # Unreadable
          BY <2>2, <2>6, PresetsWritten
    <3>2. RereadList(read, presets, Len(presets))
          BY <2>2, <3>1, ListBack
    <3>3. CASE i \in 1 .. 2
      <4>1. read[i] = p
            BY <2>2, <3>2, <3>3 DEF RereadList, NamedPresets
      <4>2. i \in DOMAIN read
        <5>1. IsSeq(read) /\ Len(read) = Len(presets)
              BY <3>2 DEF RereadList
        <5>2. DOMAIN read = DOMAIN presets
              BY <2>2, <5>1, SeqHas
        <5> QED BY <5>2
      <4> QED BY <2>4, <4>1, <4>2
    <3>4. CASE i \notin 1 .. 2
      <4>1. i \in 3 .. Len(presets)
            BY <2>2, <3>4
      <4>2. read[i] = RereadPreset(p)
            BY <3>2, <4>1 DEF RereadList
      <4> HIDE DEF p, c, read
      <4>3. PresetMatches(p, c)
            BY DEF p, c
      <4>4. PresetMatches(RereadPreset(p), ParseConfig(FileOf(c)))
            BY <2>1, <2>2, <4>3, WrittenMatch
      <4> QED BY <2>1, <4>2, <4>4 DEF read
    <3> QED BY <3>3, <3>4
  <2> QED BY <2>5, <2>6 DEF SeenInv
<1>2. CodecInit => CodecInv /\ SeenInv
      BY InitIsTyped, SeenInit
<1>3. CodecInv /\ SeenInv /\ [CodecNext]_codecVars => CodecInv' /\ SeenInv'
      BY CodecStep, SeenStep
<1> QED BY <1>1, <1>2, <1>3, PTL DEF CodecSpec

===============================================================================
