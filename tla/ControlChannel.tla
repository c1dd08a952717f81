--------------------------- MODULE ControlChannel ---------------------------
(***************************************************************************)
(* The runtime's end and the manager's end of the control channel          *)
(* (src/common/core/ControlChannel.{h,cpp}): the message-only window that  *)
(* lets at most one runtime own the channel, and the status block in a     *)
(* named file mapping, a seqlock the runtime writes and the manager reads. *)
(*                                                                         *)
(* The block is a set of words, copied one at a time in any order by       *)
(* memcpy on either side.  A word holds the number of the publish that     *)
(* wrote it, 0 for SidecarStatus{}.  A runtime may be killed between any   *)
(* two steps and started again; the mapping lives until its last handle    *)
(* is closed, the manager's included.                                      *)
(***************************************************************************)
EXTENDS Integers

CONSTANTS
  Runtimes,      \* the runtime processes that may be launched
  Words,         \* the words of SidecarStatus other than its sequence
  kAttempts,     \* tries of Read; 4 in the code
  MaxPublishes,  \* bound of the model: publishes of all runtimes together
  MaxLaunches    \* bound of the model: runtimes launched, relaunches included

ASSUME ChannelAssumption ==
  /\ kAttempts \in Nat \ {0}
  /\ MaxPublishes \in Nat
  /\ MaxLaunches \in Nat

VARIABLES
  sequence, block,   \* the status block: its counter and its words
  owners,            \* runtimes whose control window exists
  spc,               \* per runtime, what it does next
  next,              \* per runtime, its local of Publish
  writing,           \* per runtime, the publish being copied
  left,              \* per runtime, the words memcpy has still to write
  mpc,               \* what the manager's Read does next
  attempt, before, copy, unread,   \* its locals
  out,               \* what it returned: a copy of the words, or NoStatus
  publishes, launches,
  current,           \* history: the publish last completed, 0 after a reset
  whole,             \* history: at the return, out was the current publish
  shared,            \* history: a block in use was initialised a second time
  raced              \* history: two runtimes looked before either had a window

runtimeVars == <<spc, next, writing, left>>
readVars == <<mpc, attempt, before, copy, unread, out, whole>>
blockVars == <<sequence, block, current>>
boundVars == <<publishes, launches>>
vars == <<blockVars, owners, runtimeVars, readVars, boundVars, shared, raced>>

NoStatus == [w \in Words |-> -1]
Blank == [w \in Words |-> 0]

\* The states of a runtime that writes the block, and of one that holds it.
Mapped == {"init", "idle", "copy"}
Holding == Mapped \cup {"dying"}
Viewing == mpc # "closed"

\* A handle of the block is closed; the last one takes the block with it.
BlockAfterClosing(keptByOther) ==
  IF keptByOther
  THEN UNCHANGED blockVars
  ELSE sequence' = 0 /\ block' = Blank /\ current' = 0

Init ==
  /\ sequence = 0 /\ block = Blank /\ current = 0
  /\ owners = {}
  /\ spc = [r \in Runtimes |-> "absent"]
  /\ next = [r \in Runtimes |-> 0]
  /\ writing = [r \in Runtimes |-> 0]
  /\ left = [r \in Runtimes |-> {}]
  /\ mpc = "closed" /\ attempt = 0 /\ before = 0
  /\ copy = Blank /\ unread = {} /\ out = NoStatus /\ whole = TRUE
  /\ publishes = 0 /\ launches = 0 /\ shared = FALSE /\ raced = FALSE

-------------------------------------------------------------------------------
(* The runtime.                                                            *)

\* A launch reaches ControlServer::Create, which looks for a control window.
\* The runtime that finds one exits.
FindControlWindow(r) ==
  /\ spc[r] = "absent"
  /\ launches < MaxLaunches
  /\ launches' = launches + 1
  /\ spc' = [spc EXCEPT ![r] = IF owners = {} THEN "found" ELSE "absent"]
  /\ raced' = (raced \/ (owners = {} /\ \E other \in Runtimes : spc[other] = "found"))
  /\ UNCHANGED <<blockVars, owners, next, writing, left, readVars, publishes, shared>>

\* Otherwise it creates its own.
CreateControlWindow(r) ==
  /\ spc[r] = "found"
  /\ owners' = owners \cup {r}
  /\ spc' = [spc EXCEPT ![r] = "window"]
  /\ UNCHANGED <<blockVars, next, writing, left, readVars, boundVars,
                 shared, raced>>

\* The mapping is created, or opened when it still exists, and initialised:
\* the counter among the words.
MapBlock(r) ==
  /\ spc[r] = "window"
  /\ spc' = [spc EXCEPT ![r] = "init"]
  /\ sequence' = 0
  /\ writing' = [writing EXCEPT ![r] = 0]
  /\ left' = [left EXCEPT ![r] = Words]
  /\ current' = 0
  /\ shared' = (shared \/ Viewing \/ \E other \in Runtimes : spc[other] \in Holding)
  /\ UNCHANGED <<block, owners, next, readVars, boundVars, raced>>

\* One word of the struct is stored, by the initialisation or by a publish.
StoreWord(r, w) ==
  /\ spc[r] \in {"init", "copy"}
  /\ w \in left[r]
  /\ block' = [block EXCEPT ![w] = writing[r]]
  /\ left' = [left EXCEPT ![r] = left[r] \ {w}]
  /\ UNCHANGED <<sequence, current, owners, spc, next, writing, readVars,
                 boundVars, shared, raced>>

FinishInit(r) ==
  /\ spc[r] = "init"
  /\ left[r] = {}
  /\ spc' = [spc EXCEPT ![r] = "idle"]
  /\ UNCHANGED <<blockVars, owners, next, writing, left, readVars, boundVars,
                 shared, raced>>

\* Publish: the counter becomes odd, then the words are copied.  The copy
\* holds the same counter, so memcpy does not change it.
BeginPublish(r) ==
  /\ spc[r] = "idle"
  /\ publishes < MaxPublishes
  /\ publishes' = publishes + 1
  /\ next' = [next EXCEPT ![r] = sequence + 1]
  /\ sequence' = sequence + 1
  /\ writing' = [writing EXCEPT ![r] = publishes + 1]
  /\ left' = [left EXCEPT ![r] = Words]
  /\ spc' = [spc EXCEPT ![r] = "copy"]
  /\ UNCHANGED <<block, current, owners, readVars, launches, shared, raced>>

\* The counter becomes even: readable.
FinishPublish(r) ==
  /\ spc[r] = "copy"
  /\ left[r] = {}
  /\ sequence' = next[r] + 1
  /\ current' = writing[r]
  /\ spc' = [spc EXCEPT ![r] = "idle"]
  /\ UNCHANGED <<block, owners, next, writing, left, readVars, boundVars,
                 shared, raced>>

\* CreateFileMapping fails: the runtime has commands and no status block.
MapFails(r) ==
  /\ spc[r] = "window"
  /\ spc' = [spc EXCEPT ![r] = "blockless"]
  /\ UNCHANGED <<blockVars, owners, next, writing, left, readVars, boundVars,
                 shared, raced>>

KeptByOther(r) == Viewing \/ \E other \in Runtimes \ {r} : spc[other] \in Holding

\* Mutant: ~ControlServer destroys the window first and the block after it.
LeaveKeepingBlock(r) ==
  /\ spc[r] = "idle"
  /\ owners' = owners \ {r}
  /\ UNCHANGED <<blockVars, runtimeVars, readVars, boundVars, shared, raced>>

\* ~ControlServer: the block is unmapped and closed ...
CloseMapping(r) ==
  /\ spc[r] = "idle"
  /\ spc' = [spc EXCEPT ![r] = "blockless"]
  /\ BlockAfterClosing(KeptByOther(r))
  /\ UNCHANGED <<owners, next, writing, left, readVars, boundVars, shared, raced>>

\* ... and then the control window is destroyed.
DestroyControlWindow(r) ==
  /\ spc[r] = "blockless"
  /\ spc' = [spc EXCEPT ![r] = "absent"]
  /\ owners' = owners \ {r}
  /\ UNCHANGED <<blockVars, next, writing, left, readVars, boundVars, shared,
                 raced>>

\* The process is killed, wherever it is: its window goes ...
Kill(r) ==
  /\ spc[r] \notin {"absent", "dying"}
  /\ spc' = [spc EXCEPT ![r] = IF spc[r] \in Mapped THEN "dying" ELSE "absent"]
  /\ owners' = owners \ {r}
  /\ left' = [left EXCEPT ![r] = {}]
  /\ UNCHANGED <<blockVars, next, writing, readVars, boundVars, shared, raced>>

\* ... and then its handles.
CloseKilled(r) ==
  /\ spc[r] = "dying"
  /\ spc' = [spc EXCEPT ![r] = "absent"]
  /\ BlockAfterClosing(KeptByOther(r))
  /\ UNCHANGED <<owners, next, writing, left, readVars, boundVars, shared, raced>>

-------------------------------------------------------------------------------
(* The manager: Read.                                                      *)

\* The mapping is opened; without one, Read has nothing to return.
OpenView ==
  /\ mpc = "closed"
  /\ \E r \in Runtimes : spc[r] \in Holding
  /\ mpc' = "before"
  /\ attempt' = 0
  /\ out' = NoStatus
  /\ whole' = TRUE
  /\ UNCHANGED <<blockVars, owners, runtimeVars, before, copy, unread,
                 boundVars, shared, raced>>

\* The try is over without a copy: try again, or give up.
Retry ==
  /\ attempt' = attempt + 1
  /\ mpc' = IF attempt + 1 < kAttempts THEN "before" ELSE "done"

\* The counter is loaded; an odd one means a write in progress.
LoadBefore ==
  /\ mpc = "before"
  /\ before' = sequence
  /\ IF sequence % 2 # 0
     THEN Retry /\ UNCHANGED unread
     ELSE mpc' = "copy" /\ unread' = Words /\ UNCHANGED attempt
  /\ UNCHANGED <<blockVars, owners, runtimeVars, copy, out, whole, boundVars,
                 shared, raced>>

\* One word is copied out.
LoadWord(w) ==
  /\ mpc = "copy"
  /\ w \in unread
  /\ copy' = [copy EXCEPT ![w] = block[w]]
  /\ unread' = unread \ {w}
  /\ UNCHANGED <<blockVars, owners, runtimeVars, mpc, attempt, before, out,
                 whole, boundVars, shared, raced>>

\* Mutant: the counter is not looked at again.
AcceptUnchecked ==
  /\ mpc = "copy"
  /\ unread = {}
  /\ out' = copy
  /\ whole' = (copy = [w \in Words |-> current])
  /\ mpc' = "done"
  /\ UNCHANGED <<blockVars, owners, runtimeVars, attempt, before, copy, unread,
                 boundVars, shared, raced>>

\* The counter is loaded again: it moved, or the copy is returned.
Recheck ==
  /\ mpc = "copy"
  /\ unread = {}
  /\ IF sequence # before
     THEN Retry /\ UNCHANGED <<out, whole>>
     ELSE /\ out' = copy
          /\ whole' = (copy = [w \in Words |-> current])
          /\ mpc' = "done"
          /\ UNCHANGED attempt
  /\ UNCHANGED <<blockVars, owners, runtimeVars, before, copy, unread,
                 boundVars, shared, raced>>

\* The view and its handle are closed, with the block if nobody else has it.
CloseView ==
  /\ mpc = "done"
  /\ mpc' = "closed"
  /\ BlockAfterClosing(\E r \in Runtimes : spc[r] \in Holding)
  /\ UNCHANGED <<owners, runtimeVars, attempt, before, copy, unread, out, whole,
                 boundVars, shared, raced>>

-------------------------------------------------------------------------------
Next ==
  \/ \E r \in Runtimes :
       \/ FindControlWindow(r) \/ CreateControlWindow(r) \/ MapBlock(r)
       \/ FinishInit(r) \/ BeginPublish(r) \/ FinishPublish(r) \/ MapFails(r)
       \/ CloseMapping(r) \/ DestroyControlWindow(r) \/ Kill(r) \/ CloseKilled(r)
       \/ \E w \in Words : StoreWord(r, w)
  \/ OpenView \/ LoadBefore \/ Recheck \/ CloseView
  \/ \E w \in Words : LoadWord(w)

Spec == Init /\ [][Next]_vars

-------------------------------------------------------------------------------
(* Properties.                                                             *)

\* What the variables may hold.
TypeOK ==
  /\ sequence \in Nat /\ current \in Nat
  /\ block \in [Words -> Nat]
  /\ owners \subseteq Runtimes
  /\ spc \in [Runtimes -> {"absent", "found", "window", "init", "idle", "copy",
                          "blockless", "dying"}]
  /\ next \in [Runtimes -> Nat] /\ writing \in [Runtimes -> Nat]
  /\ left \in [Runtimes -> SUBSET Words]
  /\ mpc \in {"closed", "before", "copy", "done"}
  /\ attempt \in 0 .. kAttempts /\ before \in Nat
  /\ copy \in [Words -> Nat] /\ unread \in SUBSET Words
  /\ out \in [Words -> Nat \cup {-1}]
  /\ whole \in BOOLEAN /\ shared \in BOOLEAN /\ raced \in BOOLEAN
  /\ publishes \in 0 .. MaxPublishes /\ launches \in 0 .. MaxLaunches

\* What Read returns is one whole status, the one current when it returns:
\* no field of an older or of a half-written one.  Not promised once a block
\* that a process still held was initialised again by the next runtime.
StatusIsWhole == ~shared => whole

\* At most one runtime has the channel, its window or its block, through
\* exits, kills and relaunches; unless two looked for a window before either
\* had created one.
OneRuntimeUnlessRaced ==
  ~raced =>
    \A r, other \in Runtimes :
      (r \in owners \/ spc[r] \in Mapped) /\ (other \in owners \/ spc[other] \in Mapped)
        => r = other
===============================================================================
