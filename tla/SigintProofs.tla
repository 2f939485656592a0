---------------------------- MODULE SigintProofs ----------------------------
(***************************************************************************)
(* Proofs about SigintWatcher, for any holders, global objects, receivers  *)
(* and any number of SIGINTs and tokens: no signal that was accepted is    *)
(* stranded, no delivery is made for nothing, and the watcher's counter    *)
(* and lists follow its holders.                                           *)
(***************************************************************************)
EXTENDS SigintWatcher, FiniteSetTheorems, TLAPS

Uninstalling == {"restore", "post", "join"}
Awake == {"woken", "interrupted", "test", "hit"}

ScriptTyped ==
    /\ js \in [at : JsSteps, holder : Holders \cup {None}, left : SUBSET Receivers]
    /\ heldReceivers \in [Holders -> SUBSET Receivers]

SignalsTyped ==
    /\ tokens \in Nat /\ handler \in [HandlerSteps -> Nat]
    /\ waiting \in BOOLEAN /\ installed \in BOOLEAN
    /\ owed \in BOOLEAN /\ accepted \in BOOLEAN

\* The watcher's thread runs only between install() and the join of uninstall().
ThreadWhileInstalled ==
    /\ js.at \in Uninstalling => ~installed
    /\ ~installed /\ js.at \notin Uninstalling => thread = "none"

\* The flag is set for an accepted signal, except in the window in which the
\* watcher itself has set it and found nothing.
FlagMeansAccepted ==
    /\ waiting /\ thread # "miss" => accepted
    /\ thread = "miss" => waiting /\ ~accepted
    /\ thread = "hit" => accepted
    /\ accepted => waiting /\ owed

Posted == tokens + handler["post"]

\* What will wake the watcher for an accepted signal.  uninstall() posts a token of its
\* own, and a watcher that ends on it must leave another one behind.
Covered ==
    /\ thread = "wait" /\ js.at = "join" => tokens > 0
    /\ accepted /\ thread = "wait" => Posted > 0
    /\ accepted /\ thread = "wait" /\ js.at = "join" => Posted > 1
    /\ accepted /\ thread \notin {"test", "hit"} /\ js.at = "join" => Posted > 0
    /\ accepted /\ thread \notin Awake /\ js.at \notin {"restore", "post"} => Posted > 0

Signals == ThreadWhileInstalled /\ FlagMeansAccepted /\ Covered /\ NoForgedSignal
SInv == ScriptTyped /\ SignalsTyped /\ Signals

LEMMA SInvInit == Init => SInv
<1>. SUFFICES ASSUME Init PROVE SInv
  OBVIOUS
<1>. USE DEF Init, Idle
<1>1. ScriptTyped  BY DEF ScriptTyped, JsSteps
<1>2. SignalsTyped  BY DEF SignalsTyped, HandlerSteps, InitialTokens
<1>3. Signals
  BY DEF Signals, ThreadWhileInstalled, FlagMeansAccepted, Covered, NoForgedSignal, Posted,
         Uninstalling, Awake, InitialTokens, HandlerSteps
<1>. QED  BY <1>1, <1>2, <1>3 DEF SInv

-----------------------------------------------------------------------------
\* The JavaScript thread: its place and the holders stay well-typed.
LEMMA TypedScript == ASSUME ScriptTyped, Script PROVE ScriptTyped'
<1>1. ASSUME NEW h \in Holders, NEW g \in Globals \cup {None}, NEW rs \in SUBSET Receivers,
             Hold(h, g, rs)
      PROVE  ScriptTyped'
  BY <1>1 DEF ScriptTyped, Hold, Idle, JsSteps
<1>2. ASSUME NEW h \in Holders, Destroy(h) PROVE ScriptTyped'
  BY <1>2 DEF ScriptTyped, Destroy, JsSteps
<1>3. ASSUME NEW h \in Holders, NEW k \in Holders, Move(h, k) PROVE ScriptTyped'
  BY <1>3 DEF ScriptTyped, Move
<1>4. ASSUME Exit PROVE ScriptTyped'
  BY <1>4 DEF ScriptTyped, Exit, Goto, JsSteps, holderVars
<1>. QED  BY <1>1, <1>2, <1>3, <1>4 DEF Script

LEMMA TypedJsStep == ASSUME ScriptTyped, JsStep PROVE ScriptTyped'
<1>. USE DEF ScriptTyped, JsSteps, At, Goto, Continue, Finish, Return, Idle, holderVars
<1>1. CASE Ref  BY <1>1 DEF Ref
<1>2. CASE InstallSigaction  BY <1>2 DEF InstallSigaction
<1>3. CASE InstallThread  BY <1>3 DEF InstallThread
<1>4. CASE RegisterGlobalObject  BY <1>4 DEF RegisterGlobalObject
<1>5. CASE RegisterReceiver
  <2>1. PICK r \in js.left :
           /\ heldReceivers' = [heldReceivers EXCEPT ![js.holder] = @ \cup {r}]
           /\ Continue(js.left \ {r}, "registerReceiver")
    BY <1>5 DEF RegisterReceiver
  <2>2. heldReceivers' \in [Holders -> SUBSET Receivers]
    BY <2>1
  <2>. QED  BY <2>1, <2>2
<1>6. CASE UnregisterReceiver  BY <1>6 DEF UnregisterReceiver
<1>7. CASE UnregisterGlobalObject  BY <1>7 DEF UnregisterGlobalObject
<1>8. CASE Deref
  <2>1. js' \in [at : JsSteps, holder : Holders \cup {None}, left : SUBSET Receivers]
    BY <1>8 DEF Deref
  <2>2. heldReceivers' \in [Holders -> SUBSET Receivers]
    BY <1>8 DEF Deref
  <2>. QED  BY <2>1, <2>2
<1>9. CASE UninstallExchange  BY <1>9 DEF UninstallExchange
<1>10. CASE UninstallRestore  BY <1>10 DEF UninstallRestore
<1>11. CASE UninstallPost  BY <1>11 DEF UninstallPost
<1>12. CASE UninstallJoin  BY <1>12 DEF UninstallJoin
<1>. QED
  BY <1>1, <1>2, <1>3, <1>4, <1>5, <1>6, <1>7, <1>8, <1>9, <1>10, <1>11, <1>12 DEF JsStep

-----------------------------------------------------------------------------
\* What the signals' invariant speaks of, but for the JavaScript thread's place.
Seen == <<installed, waiting, tokens, thread, handler, owed, accepted, serving>>

\* Among the holders the JavaScript thread changes nothing that a signal sees.
LEMMA Elsewhere ==
  ASSUME Signals, SignalsTyped, UNCHANGED Seen,
         js'.at \notin Uninstalling, js.at \notin Uninstalling
  PROVE  Signals' /\ SignalsTyped'
  BY DEF Seen, Signals, SignalsTyped, ThreadWhileInstalled, FlagMeansAccepted, Covered,
         NoForgedSignal, Posted, Uninstalling, Awake

LEMMA SignalsScript == ASSUME SInv, Script PROVE Signals' /\ SignalsTyped'
<1>1. UNCHANGED Seen
  BY DEF Script, Hold, Destroy, Move, Exit, Seen, signalVars, installVars, flagVars,
         handlerVars, history
<1>2. js.at \notin Uninstalling
  BY DEF Script, Hold, Destroy, Move, Exit, At, Uninstalling
<1>3. js'.at \notin Uninstalling
  <2>. USE DEF SInv, ScriptTyped, Uninstalling, Idle
  <2>1. ASSUME NEW h \in Holders, NEW g \in Globals \cup {None}, NEW rs \in SUBSET Receivers,
               Hold(h, g, rs)
        PROVE  js'.at \notin Uninstalling
    BY <2>1 DEF Hold
  <2>2. ASSUME NEW h \in Holders, Destroy(h) PROVE js'.at \notin Uninstalling
    BY <2>2, <1>2 DEF Destroy
  <2>3. ASSUME NEW h \in Holders, NEW k \in Holders, Move(h, k)
        PROVE  js'.at \notin Uninstalling
    BY <2>3, <1>2 DEF Move
  <2>4. ASSUME Exit PROVE js'.at \notin Uninstalling
    BY <2>4 DEF Exit, Goto
  <2>. QED  BY <2>1, <2>2, <2>3, <2>4 DEF Script
<1>. QED  BY <1>1, <1>2, <1>3, Elsewhere DEF SInv

LEMMA SignalsJsStep == ASSUME SInv, JsStep PROVE Signals' /\ SignalsTyped'
<1>. USE DEF SInv, ScriptTyped, At, Goto, Idle
<1>1. ASSUME \/ Ref \/ InstallSigaction \/ RegisterGlobalObject \/ RegisterReceiver
             \/ UnregisterReceiver \/ UnregisterGlobalObject \/ Deref
      PROVE  Signals' /\ SignalsTyped'
  <2>1. UNCHANGED Seen
    BY <1>1 DEF Ref, InstallSigaction, RegisterGlobalObject, RegisterReceiver,
                UnregisterReceiver, UnregisterGlobalObject, Deref, Seen, signalVars,
                installVars, flagVars, handlerVars, history
  <2>2. js.at \notin Uninstalling
    BY <1>1 DEF Ref, InstallSigaction, RegisterGlobalObject, RegisterReceiver,
                UnregisterReceiver, UnregisterGlobalObject, Deref, Uninstalling
  <2>3. js'.at \notin Uninstalling
    <3>. USE DEF Uninstalling, Continue, Finish
    <3>1. CASE Ref \/ InstallSigaction  BY <3>1 DEF Ref, InstallSigaction
    <3>2. CASE RegisterGlobalObject  BY <3>2 DEF RegisterGlobalObject
    <3>3. CASE RegisterReceiver
      <4>1. PICK r \in js.left : Continue(js.left \ {r}, "registerReceiver")
        BY <3>3 DEF RegisterReceiver
      <4>. QED  BY <4>1
    <3>4. CASE UnregisterReceiver  BY <3>4 DEF UnregisterReceiver
    <3>5. CASE UnregisterGlobalObject \/ Deref  BY <3>5 DEF UnregisterGlobalObject, Deref
    <3>. QED  BY <1>1, <3>1, <3>2, <3>3, <3>4, <3>5
  <2>. QED  BY <2>1, <2>2, <2>3, Elsewhere
<1>. USE DEF Signals, SignalsTyped, ThreadWhileInstalled, FlagMeansAccepted, Covered,
             NoForgedSignal, Posted, Uninstalling, Awake, Return, Finish,
             signalVars, flagVars, handlerVars, history
<1>2. CASE InstallThread  BY <1>2 DEF InstallThread
<1>3. CASE UninstallExchange  BY <1>3 DEF UninstallExchange
<1>4. CASE UninstallRestore  BY <1>4 DEF UninstallRestore, installVars
<1>5. CASE UninstallPost  BY <1>5 DEF UninstallPost, installVars, SemaphoreSignal, HandlerSteps
<1>6. CASE UninstallJoin  BY <1>6 DEF UninstallJoin, installVars
<1>. QED  BY <1>1, <1>2, <1>3, <1>4, <1>5, <1>6 DEF JsStep

-----------------------------------------------------------------------------
\* Signals and the watcher leave the JavaScript thread where it is.
LEMMA SignalsHandler ==
  ASSUME SInv, Arrive \/ SignalTest \/ SignalPost PROVE SInv'
<1>. USE DEF SInv, ScriptTyped, Signals, SignalsTyped, ThreadWhileInstalled, FlagMeansAccepted,
             Covered, NoForgedSignal, Posted, Uninstalling, Awake, HandlerSteps,
             HandlerReturns, scriptVars, installVars, holderVars, flagVars, history
<1>1. CASE Arrive  BY <1>1 DEF Arrive
<1>2. CASE SignalTest
  <2>1. CASE waiting  BY <1>2, <2>1 DEF SignalTest
  <2>2. CASE ~waiting
    <3>1. /\ waiting' = TRUE /\ owed' = TRUE /\ accepted' = TRUE
          /\ UNCHANGED <<thread, tokens, serving>>
          /\ UNCHANGED <<js, installed, heldReceivers>>
      BY <1>2, <2>2 DEF SignalTest
    <3>2. handler' \in [HandlerSteps -> Nat] /\ handler'["post"] = handler["post"] + 1
      BY <1>2, <2>2 DEF SignalTest
    <3>. QED  BY <3>1, <3>2, <2>2
  <2>. QED  BY <2>1, <2>2
<1>3. CASE SignalPost  BY <1>3 DEF SignalPost, SemaphoreSignal
<1>. QED  BY <1>1, <1>2, <1>3

LEMMA SignalsWatcher == ASSUME SInv, WatcherStep PROVE SInv'
<1>. USE DEF SInv, ScriptTyped, Signals, SignalsTyped, ThreadWhileInstalled, FlagMeansAccepted,
             Covered, NoForgedSignal, Posted, Uninstalling, Awake, HandlerSteps, WatcherAt,
             scriptVars, installVars, holderVars, signalVars, flagVars, handlerVars, history
<1>1. CASE WatcherCheck  BY <1>1 DEF WatcherCheck
<1>2. CASE WatcherWait  BY <1>2 DEF WatcherWait, SemaphoreWait
<1>3. CASE WatcherWoken  BY <1>3 DEF WatcherWoken
<1>4. CASE WatcherTest  BY <1>4 DEF WatcherTest
<1>5. CASE WatcherHit  BY <1>5 DEF WatcherHit
<1>6. CASE WatcherMiss  BY <1>6 DEF WatcherMiss
<1>7. CASE SignalReceivers  BY <1>7 DEF SignalReceivers
<1>8. CASE SignalGlobals  BY <1>8 DEF SignalGlobals
<1>. QED  BY <1>1, <1>2, <1>3, <1>4, <1>5, <1>6, <1>7, <1>8 DEF WatcherStep

LEMMA SInvStep == ASSUME SInv, [Next]_vars PROVE SInv'
<1>1. CASE Script  BY <1>1, TypedScript, SignalsScript DEF SInv
<1>2. CASE JsStep  BY <1>2, TypedJsStep, SignalsJsStep DEF SInv
<1>3. CASE Arrive \/ SignalTest \/ SignalPost  BY <1>3, SignalsHandler
<1>4. CASE WatcherStep  BY <1>4, SignalsWatcher
<1>5. CASE UNCHANGED vars
  BY <1>5 DEF vars, scriptVars, installVars, holderVars, listVars, signalVars, flagVars,
              handlerVars, history, SInv, ScriptTyped, Signals, SignalsTyped,
              ThreadWhileInstalled, FlagMeansAccepted, Covered, NoForgedSignal, Posted
<1>. QED  BY <1>1, <1>2, <1>3, <1>4, <1>5 DEF Next

LEMMA SInvAlways == Spec => []SInv
  BY SInvInit, SInvStep, PTL DEF Spec

-----------------------------------------------------------------------------
\* However signals, holders, leftover tokens and interrupted waits interleave, a
\* SIGINT that signalReceived() accepted keeps the flag set and the watcher bound to look.
THEOREM SignalsNotStranded == Spec => []NothingStranded
<1>1. SInv => NothingStranded
  BY DEF SInv, Signals, SignalsTyped, FlagMeansAccepted, Covered, NothingStranded, Posted, Awake,
         HandlerSteps
<1>. QED  BY <1>1, SInvAlways, PTL

\* signalAll() is only ever reached for a SIGINT that was received and not answered yet.
THEOREM NothingForged == Spec => []NoForgedSignal
<1>1. SInv => NoForgedSignal
  BY DEF SInv, Signals
<1>. QED  BY <1>1, SInvAlways, PTL

-----------------------------------------------------------------------------
\* The holders and the lists.

HoldersTyped ==
    /\ refCount \in Nat /\ disposition \in {"watcher", "bun"} /\ thread \in ThreadSteps
    /\ globals \subseteq Globals /\ receivers \subseteq Receivers
    /\ notified \subseteq Globals \cup Receivers /\ live \subseteq Holders
    /\ heldGlobal \in [Holders -> Globals \cup {None}]
    /\ serving \in BOOLEAN /\ lapse \subseteq {"shared", "overwritten"}

\* Each SIGINT that came is in one place.
SignalsCounted == sigints \in Nat /\ sigints + handler["test"] + handler["post"] <= MaxSignals

\* The holder at work on, and what it has and has not got yet.
Referring == {"ref", "sigaction", "create", "register"}
Holding == Referring \cup {"registerReceiver"}
Leaving == {"exchangeOff", "restore", "post", "join", "exited"}

Placed ==
    /\ \A h \in Holders \ live : heldGlobal[h] = None /\ heldReceivers[h] = {}
    /\ At("idle") => js.holder = None
    /\ js.at \in Holding \cup {"release", "deref"} => js.holder \in live
    /\ js.at \in Leaving => js.holder \notin live
    /\ js.at \in Referring \cup {"deref"} => heldGlobal[js.holder] # None
    /\ js.at \in Referring => heldReceivers[js.holder] = {}
    /\ At("release") =>
         /\ js.left \subseteq heldReceivers[js.holder]
         /\ js.left # {} \/ heldGlobal[js.holder] # None

\* A reference for each holder with a global object, and those that were leaked.
Owners == {h \in live : heldGlobal[h] # None}
References == refCount + (IF At("ref") THEN 1 ELSE 0)
Counted ==
    /\ Cardinality(Owners) <= References
    /\ "overwritten" \notin lapse => References = Cardinality(Owners)

\* Between installations and removals, installed is what the counter says.
Settled ==
    /\ disposition = (IF installed THEN "watcher" ELSE "bun")
    /\ installed <=> thread # "none"
Installation ==
    /\ js.at \in {"idle", "ref", "register", "registerReceiver", "release", "deref"} =>
         Settled /\ (installed <=> refCount > 0)
    /\ At("exchangeOff") => Settled
    /\ js.at \in {"sigaction", "create"} => ~installed /\ thread = "none" /\ refCount > 0
    /\ At("create") => disposition = "watcher"
    /\ js.at \in {"restore", "post", "join"} => ~installed /\ thread # "none"
    /\ js.at \in {"post", "join"} => disposition = "bun"
    /\ js.at \in Leaving /\ js.holder # None => refCount = 0

\* Holders share nothing, unless two of them were made or moved so.
Apart ==
    lapse = {} =>
        /\ \A h, k \in live : h # k => Objects(h) \cap Objects(k) = {}
        /\ js.at \in Holding =>
             \A k \in live \ {js.holder} : Objects(k) \cap js.left = {}

\* The holder at work on: what it holds is on the lists once it is there, and what it
\* has released is not.
Halfway ==
    /\ At("registerReceiver") => Objects(js.holder) \subseteq globals \cup receivers
    /\ At("release") => (heldReceivers[js.holder] \ js.left) \cap receivers = {}
    /\ At("deref") => heldReceivers[js.holder] \cap receivers = {}
                     /\ heldGlobal[js.holder] \notin globals

Lists == Apart /\ Halfway /\ ListsFollowHolders

HInv == HoldersTyped /\ SignalsCounted /\ Placed /\ Counted /\ Installation /\ Lists

KInv == SInv /\ HInv

LEMMA HInvInit == Init => HInv
<1>. SUFFICES ASSUME Init PROVE HInv
  OBVIOUS
<1>. USE DEF Init, Idle, At
<1>1. HoldersTyped  BY DEF HoldersTyped, ThreadSteps
<1>2. SignalsCounted  BY SigintAssumption DEF SignalsCounted, HandlerSteps, SigintAssumption
<1>3. Placed  BY DEF Placed, Holding, Referring, Leaving
<1>4. Counted
  <2>1. Owners = {}
    BY DEF Owners
  <2>. QED  BY <2>1, FS_EmptySet DEF Counted, References
<1>5. Installation  BY DEF Installation, Settled, Leaving
<1>6. Lists
  BY DEF Lists, Apart, Halfway, ListsFollowHolders, RegisteredIsHeld, HeldIsRegistered,
         Holding, Referring
<1>. QED  BY <1>1, <1>2, <1>3, <1>4, <1>5, <1>6 DEF HInv

\* Where a step of the JavaScript thread leads, and with what.
LEMMA Going ==
  ASSUME ScriptTyped, NEW step, Goto(step)
  PROVE  js'.at = step /\ js'.holder = js.holder /\ js'.left = js.left
  BY DEF ScriptTyped, Goto

LEMMA Returning ==
  ASSUME ScriptTyped, Return
  PROVE  /\ js'.holder = None
         /\ js'.at = IF Exiting THEN "exited" ELSE "idle"
  BY DEF ScriptTyped, Return, Finish, Idle

-----------------------------------------------------------------------------
\* Steps that touch neither holders nor lists.
LEMMA ListsReferring ==
  ASSUME KInv, UNCHANGED <<holderVars, globals, receivers>>, js.at \in Referring,
         js'.at \in Referring, js'.holder = js.holder, js'.left = js.left
  PROVE  Lists'
<1>. USE DEF KInv, HInv, Lists, holderVars
<1>1. Apart'  BY DEF Apart, Objects, Holding
<1>2. Halfway'  BY DEF Halfway, Referring, At
<1>3. ListsFollowHolders'
  BY DEF ListsFollowHolders, RegisteredIsHeld, HeldIsRegistered, Objects
<1>. QED  BY <1>1, <1>2, <1>3

LEMMA ListsLeaving ==
  ASSUME KInv, UNCHANGED <<holderVars, globals, receivers>>, js'.at \in Leaving \cup {"idle"},
         js.holder \notin live, js'.holder \notin live
  PROVE  Lists'
<1>. USE DEF KInv, HInv, Lists, holderVars
<1>1. Apart'  BY DEF Apart, Objects, Holding, Referring, Leaving
<1>2. Halfway'  BY DEF Halfway, Leaving, At
<1>3. ListsFollowHolders'
  BY DEF ListsFollowHolders, RegisteredIsHeld, HeldIsRegistered, Objects
<1>. QED  BY <1>1, <1>2, <1>3

LEMMA CountedSame ==
  ASSUME Counted, UNCHANGED <<holderVars, refCount>>, ~At("ref"), ~At("ref")'
  PROVE  Counted'
  BY DEF Counted, References, Owners, holderVars

LEMMA HInvRef == ASSUME KInv, Ref PROVE HInv'
<1>. USE DEF KInv, SInv, HInv, At, holderVars, listVars, signalVars, handlerVars, history
<1>1. /\ js'.at = (IF refCount = 0 THEN "sigaction" ELSE "register") /\ js.at = "ref"
      /\ js'.holder = js.holder /\ js'.left = js.left
  BY Going DEF Ref
<1>2. refCount' = refCount + 1 /\ refCount \in Nat
  BY DEF Ref, HoldersTyped
<1>3. HoldersTyped'  BY DEF Ref, HoldersTyped
<1>4. SignalsCounted'  BY DEF Ref, SignalsCounted
<1>5. Placed'  BY <1>1 DEF Ref, Placed, Referring, Holding, Leaving
<1>6. Counted'
  <2>1. Owners' = Owners /\ lapse' = lapse
    BY DEF Ref, Owners
  <2>. QED  BY <1>1, <1>2, <2>1 DEF Counted, References
<1>7. Installation'  BY <1>1, <1>2 DEF Ref, Installation, Settled, Leaving
<1>8. Lists'  BY <1>1, ListsReferring DEF Ref, Referring
<1>. QED  BY <1>3, <1>4, <1>5, <1>6, <1>7, <1>8

LEMMA HInvInstall == ASSUME KInv, InstallSigaction \/ InstallThread PROVE HInv'
<1>. USE DEF KInv, SInv, HInv, At, holderVars, listVars, signalVars, handlerVars, history
<1>1. /\ js.at \in {"sigaction", "create"}
      /\ js'.at = (IF js.at = "sigaction" THEN "create" ELSE "register")
      /\ js'.holder = js.holder /\ js'.left = js.left
  BY Going DEF InstallSigaction, InstallThread
<1>2. UNCHANGED <<holderVars, globals, receivers, refCount, sigints, handler>>
  BY DEF InstallSigaction, InstallThread
<1>3. HoldersTyped'  BY DEF InstallSigaction, InstallThread, HoldersTyped, ThreadSteps
<1>4. SignalsCounted'  BY <1>2 DEF SignalsCounted
<1>5. Placed'  BY <1>1, <1>2 DEF Placed, Referring, Holding, Leaving
<1>6. Counted'  BY <1>1, <1>2, CountedSame
<1>7. Installation'
  BY <1>1, <1>2 DEF InstallSigaction, InstallThread, Installation, Settled, Leaving
<1>8. Lists'  BY <1>1, <1>2, ListsReferring DEF Referring
<1>. QED  BY <1>3, <1>4, <1>5, <1>6, <1>7, <1>8

\* uninstall(), from deref() or at exit.
LEMMA HInvUninstall ==
  ASSUME KInv,
         \/ UninstallExchange \/ UninstallRestore \/ UninstallPost \/ UninstallJoin
         \/ Exit
  PROVE  HInv'
<1>. USE DEF KInv, SInv, HInv, At, holderVars, listVars, signalVars, handlerVars, history,
             installVars
<1>. USE DEF UninstallExchange, UninstallRestore, UninstallPost, UninstallJoin, Exit
<1>1. js.at \in Leaving \cup {"idle"} /\ js.at # "exited"
  BY DEF Leaving
<1>2. js'.at \in Leaving \cup {"idle"}
  BY Going, Returning DEF Leaving
<1>3. js'.holder \in {js.holder, None}
  BY Going, Returning
<1>4. js'.at = "idle" => js'.holder = None
  BY Going, Returning
<1>5. None \notin live
  BY SigintAssumption DEF SigintAssumption, HoldersTyped
<1>6. js.holder \notin live /\ js'.holder \notin live
  BY <1>1, <1>3, <1>5 DEF Placed, Leaving
<1>7. UNCHANGED <<holderVars, globals, receivers, notified, refCount, sigints, handler>>
  OBVIOUS
<1>8. HoldersTyped'  BY <1>7 DEF HoldersTyped, ThreadSteps
<1>9. SignalsCounted'  BY <1>7 DEF SignalsCounted
<1>10. Placed'  BY <1>2, <1>4, <1>6, <1>7 DEF Placed, Referring, Holding, Leaving
<1>11. Counted'  BY <1>1, <1>2, <1>7, CountedSame DEF Leaving
<1>12. Lists'  BY <1>2, <1>6, <1>7, ListsLeaving
<1>13. Installation'
  <2>. USE DEF Installation, Settled, Leaving
  <2>1. CASE UninstallExchange
    <3>1. CASE installed
      BY <2>1, <3>1, Going DEF SignalsTyped
    <3>2. CASE ~installed
      <4>1. refCount = 0 \/ js.holder = None
        BY <2>1
      <4>2. js'.holder = None /\ js'.at = IF js.holder = None THEN "exited" ELSE "idle"
        BY <2>1, <3>2, Returning DEF Exiting
      <4>. QED  BY <2>1, <3>2, <4>1, <4>2 DEF HoldersTyped
    <3>. QED  BY <3>1, <3>2
  <2>2. CASE UninstallRestore  BY <2>2, Going
  <2>3. CASE UninstallPost  BY <2>3, Going
  <2>4. CASE UninstallJoin
    <3>1. js'.holder = None /\ js'.at = IF js.holder = None THEN "exited" ELSE "idle"
      BY <2>4, Returning DEF Exiting
    <3>. QED  BY <2>4, <3>1 DEF HoldersTyped
  <2>5. CASE Exit
    <3>1. js'.at = "exchangeOff" /\ js'.holder = None
      BY <2>5, Going DEF Placed
    <3>. QED  BY <2>5, <3>1
  <2>. QED  BY <2>1, <2>2, <2>3, <2>4, <2>5
<1>. QED  BY <1>8, <1>9, <1>10, <1>11, <1>12, <1>13

-----------------------------------------------------------------------------
\* Holders made, registered, released and moved.

LEMMA OwnersFinite ==
  ASSUME HoldersTyped
  PROVE  IsFiniteSet(Owners) /\ Cardinality(Owners) \in Nat
<1>1. Owners \subseteq Holders
  BY DEF Owners, HoldersTyped
<1>. QED  BY <1>1, SigintAssumption, FS_Subset, FS_CardinalityType DEF SigintAssumption

LEMMA HInvHold ==
  ASSUME KInv, NEW h \in Holders, NEW g \in Globals \cup {None}, NEW rs \in SUBSET Receivers,
         Hold(h, g, rs)
  PROVE  HInv'
<1>. USE DEF KInv, SInv, HInv, At, signalVars, handlerVars, history, installVars, listVars
<1>1. /\ js.at = "idle" /\ js.holder = None /\ h \notin live
      /\ heldGlobal[h] = None /\ heldReceivers[h] = {}
  BY DEF Hold, Placed
<1>2. /\ js'.at = IF g # None THEN "ref" ELSE IF rs # {} THEN "registerReceiver" ELSE "idle"
      /\ js'.holder = IF g = None /\ rs = {} THEN None ELSE h
      /\ js'.left = rs
  BY DEF Hold, Idle
<1>3. /\ heldGlobal' \in [Holders -> Globals \cup {None}] /\ heldGlobal'[h] = g
      /\ \A k \in Holders \ {h} : heldGlobal'[k] = heldGlobal[k]
      /\ heldReceivers' = heldReceivers /\ live' = live \cup {h}
      /\ UNCHANGED <<globals, receivers, notified, refCount, installed, disposition, thread>>
      /\ UNCHANGED <<sigints, handler, serving>>
  BY DEF Hold, HoldersTyped
<1>4. /\ lapse' \subseteq {"shared", "overwritten"}
      /\ lapse' = {} => lapse = {} /\ \A k \in live : Objects(k) \cap ({g} \cup rs) = {}
      /\ "overwritten" \notin lapse'
      /\ "overwritten" \notin lapse
  BY DEF Hold, HoldersTyped
<1>5. live \subseteq Holders /\ None \notin Holders /\ None \notin Globals \cup Receivers
  BY SigintAssumption DEF SigintAssumption, HoldersTyped
<1>6. HoldersTyped'  BY <1>3, <1>4 DEF HoldersTyped
<1>7. SignalsCounted'  BY <1>3 DEF SignalsCounted
<1>8. Placed'
  BY <1>1, <1>2, <1>3, <1>5 DEF Placed, Referring, Holding, Leaving
<1>9. Counted'
  <2>1. CASE g = None
    <3>1. Owners' = Owners
      BY <1>1, <1>3, <1>5, <2>1 DEF Owners
    <3>. QED  BY <1>1, <1>2, <1>3, <1>4, <2>1, <3>1 DEF Counted, References
  <2>2. CASE g # None
    <3>1. Owners' = Owners \cup {h} /\ h \notin Owners
      BY <1>1, <1>3, <1>5, <2>2 DEF Owners
    <3>2. Cardinality(Owners') = Cardinality(Owners) + 1
      BY <3>1, OwnersFinite, FS_AddElement
    <3>3. References' = References + 1
      BY <1>1, <1>2, <1>3, <2>2 DEF References, HoldersTyped
    <3>4. Cardinality(Owners) \in Nat /\ References \in Nat
      BY OwnersFinite DEF References, HoldersTyped
    <3>. QED  BY <1>4, <3>2, <3>3, <3>4 DEF Counted
  <2>. QED  BY <2>1, <2>2
<1>10. Installation'  BY <1>1, <1>2, <1>3 DEF Installation, Settled, Leaving
<1>11. \A k \in live : k # h /\ Objects(k)' = Objects(k)
  BY <1>1, <1>3, <1>5 DEF Objects
<1>12. Objects(h)' = {g} \ {None}
  BY <1>1, <1>3 DEF Objects
<1>13. Apart'
  <2>1. SUFFICES ASSUME lapse' = {} PROVE Apart'
    BY DEF Apart
  <2>2. \A k \in live : Objects(k)' \cap ({g} \cup rs) = {}
    BY <1>4, <1>11, <2>1
  <2>3. ASSUME NEW k \in live', NEW m \in live', k # m PROVE Objects(k)' \cap Objects(m)' = {}
    <3>1. CASE k = h
      BY <1>3, <1>12, <2>2, <2>3, <3>1
    <3>2. CASE m = h
      BY <1>3, <1>12, <2>2, <2>3, <3>2
    <3>3. CASE k # h /\ m # h
      BY <1>3, <1>4, <1>11, <2>1, <2>3, <3>3 DEF Lists, Apart
    <3>. QED  BY <3>1, <3>2, <3>3
  <2>4. js'.at \in Holding =>
          \A k \in live' \ {js'.holder} : Objects(k)' \cap js'.left = {}
    BY <1>2, <1>3, <2>2 DEF Holding, Referring
  <2>. QED  BY <2>3, <2>4 DEF Apart
<1>14. Halfway'
  <2>1. js'.at = "registerReceiver" => g = None
    BY <1>2
  <2>. QED  BY <1>2, <1>12, <2>1 DEF Halfway
<1>15. ListsFollowHolders'
  <2>1. RegisteredIsHeld'
    BY <1>1, <1>3, <1>4, <1>5 DEF Lists, ListsFollowHolders, RegisteredIsHeld
  <2>2. HeldIsRegistered'
    <3>1. \A k \in live : k # js.holder
      BY <1>1, <1>5
    <3>2. js'.holder # h => Objects(h)' = {}
      BY <1>2, <1>12
    <3>. QED
      BY <1>3, <1>4, <1>11, <3>1, <3>2 DEF Lists, ListsFollowHolders, HeldIsRegistered
  <2>. QED  BY <2>1, <2>2 DEF ListsFollowHolders
<1>. QED  BY <1>6, <1>7, <1>8, <1>9, <1>10, <1>13, <1>14, <1>15 DEF Lists

LEMMA HInvRegister == ASSUME KInv, RegisterGlobalObject PROVE HInv'
<1>. USE DEF KInv, SInv, HInv, At, signalVars, handlerVars, history, installVars, holderVars
<1>1. js.at = "register" /\ js.holder \in live /\ js.holder \in Holders
  BY DEF RegisterGlobalObject, Placed, Holding, Referring, HoldersTyped
<1>2. /\ js'.at = IF js.left = {} THEN "idle" ELSE "registerReceiver"
      /\ js'.holder = IF js.left = {} THEN None ELSE js.holder
      /\ js'.left = js.left
  BY DEF RegisterGlobalObject, Continue, Idle, ScriptTyped
<1>3. /\ globals' = globals \cup {heldGlobal[js.holder]}
      /\ UNCHANGED <<receivers, notified, refCount, installed, disposition, thread>>
      /\ UNCHANGED <<live, heldGlobal, heldReceivers, lapse>>
      /\ UNCHANGED <<sigints, handler, serving>>
  BY DEF RegisterGlobalObject
<1>4. heldGlobal[js.holder] \in Globals
  BY <1>1 DEF Placed, Referring, HoldersTyped
<1>5. HoldersTyped'  BY <1>3, <1>4 DEF HoldersTyped
<1>6. SignalsCounted'  BY <1>3 DEF SignalsCounted
<1>7. Placed'  BY <1>1, <1>2, <1>3 DEF Placed, Referring, Holding, Leaving
<1>8. Counted'  BY <1>1, <1>2, <1>3, CountedSame
<1>9. Installation'  BY <1>1, <1>2, <1>3 DEF Installation, Settled, Leaving
<1>10. \A k \in Holders : Objects(k)' = Objects(k)
  BY <1>3 DEF Objects
<1>11. Objects(js.holder) \subseteq globals' \cup receivers'
  BY <1>1, <1>3 DEF Objects, Placed, Referring
<1>12. Apart'
  BY <1>1, <1>2, <1>3, <1>10 DEF Lists, Apart, Holding, Referring, HoldersTyped
<1>13. Halfway'  BY <1>1, <1>2, <1>10, <1>11 DEF Halfway
<1>14. RegisteredIsHeld'
  BY <1>1, <1>3 DEF Lists, ListsFollowHolders, RegisteredIsHeld
<1>15. HeldIsRegistered'
  <2>1. ASSUME NEW k \in live, lapse = {} PROVE Objects(k) \subseteq globals' \cup receivers'
    BY <1>3, <1>11, <2>1 DEF Lists, ListsFollowHolders, HeldIsRegistered
  <2>. QED  BY <1>3, <1>10, <2>1 DEF HeldIsRegistered, HoldersTyped
<1>. QED
  BY <1>5, <1>6, <1>7, <1>8, <1>9, <1>12, <1>13, <1>14, <1>15 DEF Lists, ListsFollowHolders

LEMMA HInvRegisterReceiver == ASSUME KInv, RegisterReceiver PROVE HInv'
<1>. USE DEF KInv, SInv, HInv, At, signalVars, handlerVars, history, installVars
<1>1. js.at = "registerReceiver" /\ js.holder \in live /\ js.holder \in Holders
  BY DEF RegisterReceiver, Placed, Holding, HoldersTyped
<1>2. PICK r \in js.left :
         /\ heldReceivers' = [heldReceivers EXCEPT ![js.holder] = @ \cup {r}]
         /\ receivers' = receivers \cup {r}
         /\ Continue(js.left \ {r}, "registerReceiver")
  BY DEF RegisterReceiver
<1>3. r \in Receivers
  BY <1>2 DEF ScriptTyped
<1>4. /\ js'.at = IF js.left = {r} THEN "idle" ELSE "registerReceiver"
      /\ js'.holder = IF js.left = {r} THEN None ELSE js.holder
      /\ js'.left = js.left \ {r}
  BY <1>1, <1>2 DEF Continue, Idle, ScriptTyped
<1>5. /\ UNCHANGED <<globals, notified, refCount, installed, disposition, thread>>
      /\ UNCHANGED <<live, heldGlobal, lapse, sigints, handler, serving>>
      /\ receivers' = receivers \cup {r}
  BY <1>2 DEF RegisterReceiver
<1>6. /\ heldReceivers'[js.holder] = heldReceivers[js.holder] \cup {r}
      /\ \A k \in Holders \ {js.holder} : heldReceivers'[k] = heldReceivers[k]
  BY <1>1, <1>2 DEF ScriptTyped
<1>7. HoldersTyped'  BY <1>3, <1>5 DEF HoldersTyped
<1>8. SignalsCounted'  BY <1>5 DEF SignalsCounted
<1>9. Placed'  BY <1>1, <1>4, <1>5, <1>6 DEF Placed, Referring, Holding, Leaving
<1>10. Counted'
  <2>1. Owners' = Owners
    BY <1>5 DEF Owners
  <2>. QED  BY <1>1, <1>4, <1>5, <2>1 DEF Counted, References
<1>11. Installation'  BY <1>1, <1>4, <1>5 DEF Installation, Settled, Leaving
<1>12. PICK h \in live : h = js.holder
  BY <1>1
<1>13. /\ Objects(h)' = Objects(h) \cup {r}
       /\ \A k \in Holders \ {h} : Objects(k)' = Objects(k)
  BY <1>1, <1>5, <1>6, <1>12 DEF Objects
<1>14. Objects(h) \cup {r} \subseteq globals' \cup receivers'
  BY <1>1, <1>5, <1>12 DEF Lists, Halfway
<1>15. Apart'
  <2>1. SUFFICES ASSUME lapse = {} PROVE Apart'
    BY <1>5 DEF Apart
  <2>2. \A k \in live \ {js.holder} : Objects(k) \cap js.left = {}
    BY <1>1, <2>1 DEF Lists, Apart, Holding
  <2>3. live \subseteq Holders /\ live' = live
    BY <1>5 DEF HoldersTyped
  <2>4. ASSUME NEW k \in live, NEW m \in live, k # m PROVE Objects(k)' \cap Objects(m)' = {}
    <3>1. Objects(k) \cap Objects(m) = {}
      BY <2>1, <2>4 DEF Lists, Apart
    <3>2. CASE k = h
      BY <1>12, <1>13, <2>2, <2>3, <2>4, <3>1, <3>2, r \in js.left
    <3>3. CASE m = h
      BY <1>12, <1>13, <2>2, <2>3, <2>4, <3>1, <3>3, r \in js.left
    <3>4. CASE k # h /\ m # h
      BY <1>13, <2>3, <3>1, <3>4
    <3>. QED  BY <3>2, <3>3, <3>4
  <2>5. js'.at \in Holding =>
          \A k \in live \ {js'.holder} : Objects(k)' \cap js'.left = {}
    BY <1>4, <1>12, <1>13, <2>2, <2>3 DEF Holding, Referring
  <2>. QED  BY <2>3, <2>4, <2>5 DEF Apart
<1>16. Halfway'
  <2>1. js'.at = "registerReceiver" => js'.holder = h
    BY <1>4, <1>12
  <2>. QED  BY <1>4, <1>13, <1>14, <2>1 DEF Halfway
<1>17. RegisteredIsHeld'
  BY <1>1, <1>5, <1>6 DEF Lists, ListsFollowHolders, RegisteredIsHeld, HoldersTyped
<1>18. HeldIsRegistered'
  <2>1. ASSUME NEW k \in live, k # h, lapse = {}
        PROVE  Objects(k)' \subseteq globals' \cup receivers'
    <3>1. Objects(k) \subseteq globals \cup receivers /\ Objects(k)' = Objects(k)
      BY <1>12, <1>13, <2>1 DEF Lists, ListsFollowHolders, HeldIsRegistered, HoldersTyped
    <3>. QED  BY <1>5, <3>1
  <2>. QED  BY <1>5, <1>13, <1>14, <2>1 DEF HeldIsRegistered
<1>. QED
  BY <1>7, <1>8, <1>9, <1>10, <1>11, <1>15, <1>16, <1>17, <1>18
  DEF Lists, ListsFollowHolders

LEMMA HInvDestroy == ASSUME KInv, NEW h \in Holders, Destroy(h) PROVE HInv'
<1>. USE DEF KInv, SInv, HInv, At, signalVars, handlerVars, history, installVars, listVars
<1>1. /\ js.at = "idle" /\ js.holder = None /\ h \in live
      /\ UNCHANGED <<globals, receivers, notified, refCount, installed, disposition, thread>>
      /\ UNCHANGED <<heldGlobal, heldReceivers, lapse, sigints, handler, serving>>
  BY DEF Destroy, Placed
<1>2. None \notin Holders /\ live \subseteq Holders
  BY SigintAssumption DEF SigintAssumption, HoldersTyped
<1>3. \A k \in Holders : Objects(k)' = Objects(k)
  BY <1>1 DEF Objects
<1>4. SignalsCounted'  BY <1>1 DEF SignalsCounted
<1>5. CASE Objects(h) = {}
  <2>1. live' = live \ {h} /\ js' = js /\ heldGlobal[h] = None /\ heldReceivers[h] = {}
    BY <1>5 DEF Destroy, Objects
  <2>2. HoldersTyped'  BY <1>1, <2>1 DEF HoldersTyped
  <2>3. Placed'  BY <1>1, <1>2, <2>1 DEF Placed, Referring, Holding, Leaving
  <2>4. Counted'
    <3>1. Owners' = Owners
      BY <1>1, <2>1 DEF Owners
    <3>. QED  BY <1>1, <2>1, <3>1 DEF Counted, References
  <2>5. Installation'  BY <1>1, <2>1 DEF Installation, Settled, Leaving
  <2>6. Apart'
    BY <1>1, <1>2, <1>3, <2>1 DEF Lists, Apart, Holding, Referring
  <2>7. Halfway'  BY <1>1, <2>1 DEF Halfway
  <2>8. RegisteredIsHeld'
    <3>1. \A k \in live : k # h => k \in live'
      BY <2>1
    <3>2. \A g \in globals : g # None
      BY SigintAssumption DEF SigintAssumption, HoldersTyped
    <3>. QED  BY <1>1, <2>1, <3>1, <3>2 DEF Lists, ListsFollowHolders, RegisteredIsHeld
  <2>9. HeldIsRegistered'
    BY <1>1, <1>2, <1>3, <2>1 DEF Lists, ListsFollowHolders, HeldIsRegistered
  <2>. QED
    BY <1>4, <2>2, <2>3, <2>4, <2>5, <2>6, <2>7, <2>8, <2>9 DEF Lists, ListsFollowHolders
<1>6. CASE Objects(h) # {}
  <2>1. /\ js'.at = "release" /\ js'.holder = h /\ js'.left = heldReceivers[h] /\ live' = live
    BY <1>6 DEF Destroy
  <2>2. heldReceivers[h] # {} \/ heldGlobal[h] # None
    BY <1>6 DEF Objects
  <2>3. HoldersTyped'  BY <1>1, <2>1 DEF HoldersTyped
  <2>4. Placed'  BY <1>1, <2>1, <2>2 DEF Placed, Referring, Holding, Leaving
  <2>5. Counted'
    <3>1. Owners' = Owners
      BY <1>1, <2>1 DEF Owners
    <3>. QED  BY <1>1, <2>1, <3>1 DEF Counted, References
  <2>6. Installation'  BY <1>1, <2>1 DEF Installation, Settled, Leaving
  <2>7. Apart'
    BY <1>1, <1>2, <1>3, <2>1 DEF Lists, Apart, Holding, Referring
  <2>8. Halfway'  BY <1>1, <2>1 DEF Halfway
  <2>9. RegisteredIsHeld'
    BY <1>1, <2>1 DEF Lists, ListsFollowHolders, RegisteredIsHeld
  <2>10. HeldIsRegistered'
    BY <1>1, <1>2, <1>3, <2>1 DEF Lists, ListsFollowHolders, HeldIsRegistered
  <2>. QED
    BY <1>4, <2>3, <2>4, <2>5, <2>6, <2>7, <2>8, <2>9, <2>10 DEF Lists, ListsFollowHolders
<1>. QED  BY <1>5, <1>6

LEMMA HInvUnregisterReceiver == ASSUME KInv, UnregisterReceiver PROVE HInv'
<1>. USE DEF KInv, SInv, HInv, At, signalVars, handlerVars, history, installVars
<1>1. PICK h \in live : h = js.holder
  BY DEF UnregisterReceiver, Placed
<1>2. PICK r \in js.left :
         /\ receivers' = receivers \ {r} /\ notified' = notified \ {r}
         /\ IF js.left = {r} /\ heldGlobal[h] = None
            THEN /\ Finish /\ live' = live \ {h}
                 /\ heldReceivers' = [heldReceivers EXCEPT ![h] = {}]
            ELSE /\ js' = [js EXCEPT !.left = @ \ {r}]
                 /\ UNCHANGED <<live, heldReceivers>>
  BY <1>1 DEF UnregisterReceiver
<1>3. /\ UNCHANGED <<globals, refCount, installed, disposition, thread>>
      /\ UNCHANGED <<heldGlobal, lapse, sigints, handler, serving>>
      /\ receivers' = receivers \ {r} /\ notified' = notified \ {r}
  BY <1>2 DEF UnregisterReceiver
<1>4. live \subseteq Holders /\ None \notin Holders /\ None \notin Globals \cup Receivers
  BY SigintAssumption DEF SigintAssumption, HoldersTyped
<1>5. js.at = "release" /\ js.left \subseteq heldReceivers[h] /\ r \in heldReceivers[h]
  BY <1>1, <1>2 DEF UnregisterReceiver, Placed
<1>6. (heldReceivers[h] \ js.left) \cap receivers = {}
  BY <1>1, <1>5 DEF Lists, Halfway
<1>7. lapse = {} => \A k \in live \ {h} : r \notin Objects(k)
  BY <1>5 DEF Lists, Apart, Objects
<1>8. SignalsCounted'  BY <1>3 DEF SignalsCounted
<1>9. CASE js.left = {r} /\ heldGlobal[h] = None
  <2>1. /\ js'.at = "idle" /\ js'.holder = None /\ live' = live \ {h}
        /\ heldReceivers' = [heldReceivers EXCEPT ![h] = {}]
    BY <1>2, <1>9 DEF Finish, Idle
  <2>2. heldReceivers'[h] = {} /\ \A k \in Holders \ {h} : heldReceivers'[k] = heldReceivers[k]
    BY <1>4, <2>1 DEF ScriptTyped
  <2>3. HoldersTyped'  BY <1>3, <2>1 DEF HoldersTyped
  <2>4. Placed'  BY <1>3, <1>9, <2>1, <2>2 DEF Placed, Referring, Holding, Leaving
  <2>5. Counted'
    <3>1. Owners' = Owners
      BY <1>3, <1>9, <2>1 DEF Owners
    <3>. QED  BY <1>3, <1>5, <2>1, <3>1 DEF Counted, References
  <2>6. Installation'  BY <1>3, <1>5, <2>1 DEF Installation, Settled, Leaving
  <2>7. \A k \in Holders \ {h} : Objects(k)' = Objects(k)
    BY <1>3, <2>2 DEF Objects
  <2>8. Apart'
    BY <1>3, <1>4, <2>1, <2>7 DEF Lists, Apart, Holding, Referring
  <2>9. Halfway'  BY <2>1 DEF Halfway
  <2>10. RegisteredIsHeld'
    <3>1. receivers' \cap heldReceivers[h] = {}
      BY <1>3, <1>6, <1>9
    <3>2. \A g \in globals : g # None
      BY <1>4 DEF HoldersTyped
    <3>3. live' \subseteq Holders \ {h} /\ \A k \in live : k # h => k \in live'
      BY <1>4, <2>1
    <3>4. \A x \in receivers' : x \in receivers /\ x \notin heldReceivers[h]
      BY <1>3, <3>1
    <3>. QED
      BY <1>3, <1>9, <2>2, <3>2, <3>3, <3>4 DEF Lists, ListsFollowHolders, RegisteredIsHeld
  <2>11. HeldIsRegistered'
    <3>1. ASSUME NEW k \in live, k # h, lapse = {}
          PROVE  Objects(k)' \subseteq globals' \cup receivers'
      <4>1. Objects(k) \subseteq globals \cup receivers
        BY <1>1, <3>1 DEF Lists, ListsFollowHolders, HeldIsRegistered
      <4>. QED  BY <1>3, <1>4, <1>7, <2>7, <3>1, <4>1
    <3>. QED  BY <1>3, <2>1, <3>1 DEF HeldIsRegistered
  <2>. QED
    BY <1>8, <2>3, <2>4, <2>5, <2>6, <2>8, <2>9, <2>10, <2>11 DEF Lists, ListsFollowHolders
<1>10. CASE ~(js.left = {r} /\ heldGlobal[h] = None)
  <2>1. /\ js'.at = "release" /\ js'.holder = h /\ js'.left = js.left \ {r}
        /\ UNCHANGED <<live, heldReceivers>>
    BY <1>1, <1>2, <1>5, <1>10 DEF ScriptTyped
  <2>2. js.left \ {r} # {} \/ heldGlobal[h] # None
    BY <1>2, <1>10
  <2>3. HoldersTyped'  BY <1>3, <2>1 DEF HoldersTyped
  <2>4. Placed'  BY <1>3, <1>5, <2>1, <2>2 DEF Placed, Referring, Holding, Leaving
  <2>5. Counted'
    <3>1. Owners' = Owners
      BY <1>3, <2>1 DEF Owners
    <3>. QED  BY <1>3, <1>5, <2>1, <3>1 DEF Counted, References
  <2>6. Installation'  BY <1>3, <1>5, <2>1 DEF Installation, Settled, Leaving
  <2>7. \A k \in Holders : Objects(k)' = Objects(k)
    BY <1>3, <2>1 DEF Objects
  <2>8. Apart'
    BY <1>3, <1>4, <2>1, <2>7 DEF Lists, Apart, Holding, Referring
  <2>9. Halfway'
    <3>1. (heldReceivers[h] \ (js.left \ {r})) \cap (receivers \ {r}) = {}
      BY <1>6
    <3>. QED  BY <1>3, <2>1, <3>1 DEF Halfway
  <2>10. RegisteredIsHeld'
    BY <1>3, <2>1 DEF Lists, ListsFollowHolders, RegisteredIsHeld
  <2>11. HeldIsRegistered'
    <3>1. ASSUME NEW k \in live, k # h, lapse = {}
          PROVE  Objects(k)' \subseteq globals' \cup receivers'
      <4>1. Objects(k) \subseteq globals \cup receivers
        BY <1>1, <3>1 DEF Lists, ListsFollowHolders, HeldIsRegistered
      <4>. QED  BY <1>3, <1>4, <1>7, <2>7, <3>1, <4>1
    <3>. QED  BY <1>3, <2>1, <3>1 DEF HeldIsRegistered
  <2>. QED
    BY <1>8, <2>3, <2>4, <2>5, <2>6, <2>8, <2>9, <2>10, <2>11 DEF Lists, ListsFollowHolders
<1>. QED  BY <1>9, <1>10

LEMMA HInvUnregister == ASSUME KInv, UnregisterGlobalObject PROVE HInv'
<1>. USE DEF KInv, SInv, HInv, At, signalVars, handlerVars, history, installVars, holderVars
<1>1. PICK h \in live : h = js.holder
  BY DEF UnregisterGlobalObject, Placed
<1>2. /\ js.at = "release" /\ js.left = {} /\ heldGlobal[h] # None
      /\ js'.at = "deref" /\ js'.holder = h /\ js'.left = js.left
  BY <1>1, Going DEF UnregisterGlobalObject, Placed
<1>3. /\ globals' = globals \ {heldGlobal[h]} /\ notified' = notified \ {heldGlobal[h]}
      /\ UNCHANGED <<receivers, refCount, installed, disposition, thread>>
      /\ UNCHANGED <<live, heldGlobal, heldReceivers, lapse, sigints, handler, serving>>
  BY <1>1 DEF UnregisterGlobalObject
<1>4. live \subseteq Holders
  BY DEF HoldersTyped
<1>5. \A k \in Holders : Objects(k)' = Objects(k)
  BY <1>3 DEF Objects
<1>6. HoldersTyped'  BY <1>3 DEF HoldersTyped
<1>7. SignalsCounted'  BY <1>3 DEF SignalsCounted
<1>8. Placed'  BY <1>2, <1>3 DEF Placed, Referring, Holding, Leaving
<1>9. Counted'
  <2>1. Owners' = Owners
    BY <1>3 DEF Owners
  <2>. QED  BY <1>2, <1>3, <2>1 DEF Counted, References
<1>10. Installation'  BY <1>2, <1>3 DEF Installation, Settled, Leaving
<1>11. Apart'  BY <1>2, <1>3, <1>4, <1>5 DEF Lists, Apart, Holding, Referring
<1>12. Halfway'  BY <1>1, <1>2, <1>3 DEF Lists, Halfway
<1>13. RegisteredIsHeld'
  BY <1>3 DEF Lists, ListsFollowHolders, RegisteredIsHeld
<1>14. HeldIsRegistered'
  <2>1. ASSUME NEW k \in live, k # h, lapse = {}
        PROVE  Objects(k)' \subseteq globals' \cup receivers'
    <3>1. Objects(k) \subseteq globals \cup receivers
      BY <1>1, <2>1 DEF Lists, ListsFollowHolders, HeldIsRegistered
    <3>2. heldGlobal[h] \notin Objects(k)
      BY <1>2, <2>1 DEF Lists, Apart, Objects
    <3>. QED  BY <1>3, <1>4, <1>5, <2>1, <3>1, <3>2
  <2>. QED  BY <1>2, <1>3, <2>1 DEF HeldIsRegistered
<1>. QED
  BY <1>6, <1>7, <1>8, <1>9, <1>10, <1>11, <1>12, <1>13, <1>14 DEF Lists, ListsFollowHolders

LEMMA HInvDeref == ASSUME KInv, Deref PROVE HInv'
<1>. USE DEF KInv, SInv, HInv, At, signalVars, handlerVars, history, installVars, listVars
<1>1. PICK h \in live : h = js.holder
  BY DEF Deref, Placed
<1>2. live \subseteq Holders /\ None \notin Holders /\ None \notin Globals \cup Receivers
  BY SigintAssumption DEF SigintAssumption, HoldersTyped
<1>3. /\ js.at = "deref" /\ heldGlobal[h] # None /\ live' = live \ {h}
      /\ refCount' = refCount - 1
      /\ UNCHANGED <<globals, receivers, notified, installed, disposition, thread>>
      /\ UNCHANGED <<lapse, sigints, handler, serving>>
  BY <1>1 DEF Deref, Placed
<1>4. /\ heldGlobal' \in [Holders -> Globals \cup {None}]
      /\ heldGlobal'[h] = None /\ heldReceivers'[h] = {}
      /\ \A k \in Holders \ {h} : /\ heldGlobal'[k] = heldGlobal[k]
                                 /\ heldReceivers'[k] = heldReceivers[k]
  BY <1>1, <1>2 DEF Deref, HoldersTyped, ScriptTyped
<1>5. Owners' = Owners \ {h} /\ h \in Owners
  BY <1>2, <1>3, <1>4 DEF Owners
<1>6. /\ Cardinality(Owners') = Cardinality(Owners) - 1 /\ Cardinality(Owners) \in Nat
      /\ Cardinality(Owners') \in Nat
  <2>1. IsFiniteSet(Owners')
    BY <1>5, OwnersFinite, FS_RemoveElement
  <2>. QED  BY <1>5, <2>1, OwnersFinite, FS_RemoveElement, FS_CardinalityType
<1>7. refCount > 0 /\ refCount' \in Nat /\ refCount \in Nat
  BY <1>3, <1>6 DEF Counted, References, HoldersTyped
<1>8. /\ refCount = 1 => js'.at = "exchangeOff" /\ js'.holder = h
      /\ refCount # 1 => js'.at = "idle" /\ js'.holder = None
  BY <1>1, Going DEF Deref, Finish, Idle
<1>9. \A k \in Holders \ {h} : Objects(k)' = Objects(k)
  BY <1>4 DEF Objects
<1>10. HoldersTyped'  BY <1>3, <1>4, <1>7 DEF HoldersTyped
<1>11. SignalsCounted'  BY <1>3 DEF SignalsCounted
<1>12. Placed'
  BY <1>2, <1>3, <1>4, <1>7, <1>8 DEF Placed, Referring, Holding, Leaving
<1>13. Counted'
  <2>1. ~At("ref")'
    BY <1>8
  <2>. QED  BY <1>3, <1>6, <1>7, <2>1 DEF Counted, References
<1>14. Installation'
  BY <1>3, <1>7, <1>8 DEF Installation, Settled, Leaving
<1>15. Apart'
  BY <1>2, <1>3, <1>8, <1>9 DEF Lists, Apart, Holding, Referring
<1>16. Halfway'  BY <1>8 DEF Halfway
<1>17. RegisteredIsHeld'
  <2>1. /\ \A g \in globals : g # heldGlobal[h]
        /\ \A r \in receivers : r \notin heldReceivers[h]
    BY <1>1, <1>3 DEF Lists, Halfway
  <2>2. \A k \in live : k # h => k \in live'
    BY <1>3
  <2>. QED
    BY <1>2, <1>3, <1>4, <2>1, <2>2 DEF Lists, ListsFollowHolders, RegisteredIsHeld
<1>18. HeldIsRegistered'
  <2>1. ASSUME NEW k \in live, k # h, lapse = {}
        PROVE  Objects(k)' \subseteq globals' \cup receivers'
    BY <1>1, <1>2, <1>3, <1>9, <2>1 DEF Lists, ListsFollowHolders, HeldIsRegistered
  <2>. QED  BY <1>3, <2>1 DEF HeldIsRegistered
<1>. QED
  BY <1>10, <1>11, <1>12, <1>13, <1>14, <1>15, <1>16, <1>17, <1>18
  DEF Lists, ListsFollowHolders

\* A move hands one reference on; a target that had one leaks it, and is noted.
LEMMA OwnersMove ==
  ASSUME KInv, NEW h \in Holders, NEW k \in Holders, Move(h, k)
  PROVE  /\ Cardinality(Owners') <= Cardinality(Owners)
         /\ heldGlobal[k] = None => Cardinality(Owners') = Cardinality(Owners)
         /\ Cardinality(Owners') \in Nat
<1>. USE DEF KInv, SInv, HInv
<1>1. /\ h \in live /\ h # k /\ live' = live \cup {k}
      /\ heldGlobal'[k] = heldGlobal[h] /\ heldGlobal'[h] = None
      /\ \A m \in Holders \ {h, k} : heldGlobal'[m] = heldGlobal[m]
      /\ k \notin live => heldGlobal[k] = None
      /\ live \subseteq Holders
  BY DEF Move, HoldersTyped, Placed
<1>2. IsFiniteSet(Owners) /\ Cardinality(Owners) \in Nat
  BY OwnersFinite
<1>3. CASE heldGlobal[h] = None
  <2>1. Owners' = Owners \ {k}
    BY <1>1, <1>3 DEF Owners
  <2>2. heldGlobal[k] = None => k \notin Owners
    BY DEF Owners
  <2>3. /\ IsFiniteSet(Owners \ {k}) /\ Cardinality(Owners \ {k}) \in Nat
        /\ Cardinality(Owners \ {k})
             = IF k \in Owners THEN Cardinality(Owners) - 1 ELSE Cardinality(Owners)
    BY <1>2, FS_RemoveElement, FS_CardinalityType
  <2>4. Cardinality(Owners') = Cardinality(Owners \ {k})
    BY <2>1
  <2>. QED  BY <1>2, <2>2, <2>3, <2>4
<1>4. CASE heldGlobal[h] # None
  <2>. DEFINE Rest == Owners \ {h, k}
  <2>1. Owners' = Rest \cup {k} /\ h \in Owners /\ k \notin Rest
    BY <1>1, <1>4 DEF Owners
  <2>2. (heldGlobal[k] = None => k \notin Owners) /\ (k \in Owners => heldGlobal[k] # None)
    BY DEF Owners
  <2>3. /\ IsFiniteSet(Owners \ {h}) /\ Cardinality(Owners \ {h}) = Cardinality(Owners) - 1
    BY <1>2, <2>1, FS_RemoveElement
  <2>4. Rest = (Owners \ {h}) \ {k}
    OBVIOUS
  <2>5. /\ IsFiniteSet(Rest)
        /\ Cardinality(Rest) = IF k \in Owners \ {h} THEN Cardinality(Owners \ {h}) - 1
                              ELSE Cardinality(Owners \ {h})
    BY <2>3, <2>4, FS_RemoveElement
  <2>6. k \in Owners \ {h} <=> k \in Owners
    BY <1>1
  <2>7. IsFiniteSet(Owners') /\ Cardinality(Owners') = Cardinality(Rest) + 1
    BY <2>1, <2>5, FS_AddElement
  <2>8. Cardinality(Owners') \in Nat
    BY <2>7, FS_CardinalityType
  <2>. HIDE DEF Rest
  <2>. QED  BY <1>2, <2>2, <2>3, <2>5, <2>6, <2>7, <2>8
<1>. QED  BY <1>3, <1>4

LEMMA HInvMove ==
  ASSUME KInv, NEW h \in Holders, NEW k \in Holders, Move(h, k) PROVE HInv'
<1>. USE DEF KInv, SInv, HInv, At, signalVars, handlerVars, history, installVars, listVars
<1>1. /\ js.at = "idle" /\ js.holder = None /\ UNCHANGED js
      /\ h \in live /\ h # k /\ live' = live \cup {k}
      /\ UNCHANGED <<globals, receivers, notified, refCount, installed, disposition, thread>>
      /\ UNCHANGED <<sigints, handler, serving>>
      /\ lapse' = IF heldGlobal[k] # None THEN lapse \cup {"overwritten"} ELSE lapse
  BY DEF Move, Placed
<1>2. live \subseteq Holders /\ None \notin Holders /\ None \notin Globals \cup Receivers
  BY SigintAssumption DEF SigintAssumption, HoldersTyped
<1>3. /\ heldGlobal' \in [Holders -> Globals \cup {None}]
      /\ heldGlobal'[k] = heldGlobal[h] /\ heldGlobal'[h] = None
      /\ heldReceivers'[k] = heldReceivers[h] /\ heldReceivers'[h] = heldReceivers[k]
      /\ \A m \in Holders \ {h, k} : /\ heldGlobal'[m] = heldGlobal[m]
                                    /\ heldReceivers'[m] = heldReceivers[m]
  <2>1. heldGlobal' = [heldGlobal EXCEPT ![k] = heldGlobal[h], ![h] = None]
    BY DEF Move
  <2>2. heldReceivers' = [heldReceivers EXCEPT ![k] = heldReceivers[h],
                                               ![h] = heldReceivers[k]]
    BY DEF Move
  <2>3. heldGlobal \in [Holders -> Globals \cup {None}]
    BY DEF HoldersTyped
  <2>4. heldReceivers \in [Holders -> SUBSET Receivers]
    BY DEF ScriptTyped
  <2>5. heldGlobal' \in [Holders -> Globals \cup {None}]
    BY <2>1, <2>3
  <2>6. /\ heldGlobal'[k] = heldGlobal[h] /\ heldGlobal'[h] = None
        /\ \A m \in Holders \ {h, k} : heldGlobal'[m] = heldGlobal[m]
    BY <1>1, <2>1, <2>3
  <2>7. /\ heldReceivers'[k] = heldReceivers[h] /\ heldReceivers'[h] = heldReceivers[k]
        /\ \A m \in Holders \ {h, k} : heldReceivers'[m] = heldReceivers[m]
    BY <1>1, <2>2, <2>4
  <2>. QED  BY <2>5, <2>6, <2>7
<1>4. /\ lapse' \subseteq {"shared", "overwritten"}
      /\ lapse' = {} => lapse = {} /\ heldGlobal[k] = None
      /\ "overwritten" \notin lapse' => "overwritten" \notin lapse /\ heldGlobal[k] = None
  BY <1>1 DEF HoldersTyped
<1>5. k \notin live => heldGlobal[k] = None /\ heldReceivers[k] = {}
  BY DEF Placed
<1>6. HoldersTyped'  BY <1>1, <1>3, <1>4 DEF HoldersTyped
<1>7. SignalsCounted'  BY <1>1 DEF SignalsCounted
<1>8. Placed'  BY <1>1, <1>2, <1>3 DEF Placed, Referring, Holding, Leaving
<1>9. Counted'
  <2>1. References' = References /\ References \in Nat
    BY <1>1 DEF References, HoldersTyped
  <2>2. Cardinality(Owners) \in Nat
    BY OwnersFinite
  <2>. QED  BY <1>4, <2>1, <2>2, OwnersMove DEF Counted
<1>10. Installation'  BY <1>1 DEF Installation, Settled, Leaving
<1>11. /\ \A m \in Holders \ {h, k} : Objects(m)' = Objects(m)
       /\ heldGlobal[k] = None => Objects(h)' = Objects(k) /\ Objects(k)' = Objects(h)
       /\ k \notin live => Objects(k) = {}
  BY <1>3, <1>5 DEF Objects
<1>12. Apart'
  <2>1. SUFFICES ASSUME lapse' = {} PROVE Apart'
    BY DEF Apart
  <2>2. /\ Objects(h)' = Objects(k) /\ Objects(k)' = Objects(h)
        /\ \A m, n \in live : m # n => Objects(m) \cap Objects(n) = {}
    BY <1>4, <1>11, <2>1 DEF Lists, Apart
  <2>3. Objects(h) \cap Objects(k) = {}
    BY <1>1, <1>11, <2>2
  <2>4. \A m \in live \ {h, k} : Objects(m) \cap (Objects(h) \cup Objects(k)) = {}
    BY <1>1, <1>11, <2>2
  <2>5. ASSUME NEW m \in live', NEW n \in live', m # n PROVE Objects(m)' \cap Objects(n)' = {}
    <3>1. CASE {m, n} = {h, k}
      BY <2>2, <2>3, <3>1
    <3>2. CASE m \notin {h, k} /\ n \in {h, k}
      BY <1>1, <1>2, <1>11, <2>2, <2>4, <3>2
    <3>3. CASE m \in {h, k} /\ n \notin {h, k}
      BY <1>1, <1>2, <1>11, <2>2, <2>4, <3>3
    <3>4. CASE m \notin {h, k} /\ n \notin {h, k}
      BY <1>1, <1>2, <1>11, <2>2, <2>5, <3>4
    <3>. QED  BY <2>5, <3>1, <3>2, <3>3, <3>4
  <2>. QED  BY <1>1, <2>5 DEF Apart, Holding, Referring
<1>13. Halfway'  BY <1>1 DEF Halfway
<1>14. RegisteredIsHeld'
  <2>1. SUFFICES ASSUME "overwritten" \notin lapse'
                 PROVE  /\ \A g \in globals : \E m \in live' : heldGlobal'[m] = g
                        /\ \A r \in receivers : \E m \in live' : r \in heldReceivers'[m]
    BY <1>1 DEF RegisteredIsHeld
  <2>2. ASSUME NEW g \in globals PROVE \E m \in live' : heldGlobal'[m] = g
    <3>1. g # None
      BY <1>2 DEF HoldersTyped
    <3>2. PICK m \in live : heldGlobal[m] = g
      BY <1>4, <2>1 DEF Lists, ListsFollowHolders, RegisteredIsHeld
    <3>3. CASE m = h  BY <1>1, <1>3, <3>2, <3>3
    <3>4. CASE m # h  BY <1>1, <1>2, <1>3, <1>4, <2>1, <3>1, <3>2, <3>4
    <3>. QED  BY <3>3, <3>4
  <2>3. ASSUME NEW r \in receivers PROVE \E m \in live' : r \in heldReceivers'[m]
    <3>1. PICK m \in live : r \in heldReceivers[m]
      BY <1>4, <2>1 DEF Lists, ListsFollowHolders, RegisteredIsHeld
    <3>2. CASE m \in {h, k}  BY <1>1, <1>3, <3>1, <3>2
    <3>3. CASE m \notin {h, k}  BY <1>1, <1>2, <1>3, <3>1, <3>3
    <3>. QED  BY <3>2, <3>3
  <2>. QED  BY <2>2, <2>3
<1>15. HeldIsRegistered'
  <2>1. SUFFICES ASSUME lapse' = {}, NEW m \in live'
                 PROVE  Objects(m)' \subseteq globals \cup receivers
    BY <1>1 DEF HeldIsRegistered
  <2>2. \A n \in live : Objects(n) \subseteq globals \cup receivers
    BY <1>1, <1>2, <1>4, <2>1 DEF Lists, ListsFollowHolders, HeldIsRegistered
  <2>3. Objects(h)' = Objects(k) /\ Objects(k)' = Objects(h)
    BY <1>4, <1>11, <2>1
  <2>4. Objects(k) \subseteq globals \cup receivers
    BY <1>11, <2>2
  <2>5. CASE m = h  BY <2>3, <2>4, <2>5
  <2>6. CASE m = k  BY <1>1, <2>2, <2>3, <2>6
  <2>7. CASE m \notin {h, k}  BY <1>1, <1>2, <1>11, <2>2, <2>7
  <2>. QED  BY <2>5, <2>6, <2>7
<1>. QED
  BY <1>6, <1>7, <1>8, <1>9, <1>10, <1>12, <1>13, <1>14, <1>15 DEF Lists, ListsFollowHolders

-----------------------------------------------------------------------------
\* Handlers and the watcher leave holders, lists and the installation alone.
LEMMA HInvOthers ==
  ASSUME KInv, UNCHANGED <<scriptVars, globals, receivers>>,
         thread' \in ThreadSteps, thread' = "none" <=> thread = "none",
         notified' \subseteq Globals \cup Receivers, serving' \in BOOLEAN
  PROVE  HoldersTyped' /\ Placed' /\ Counted' /\ Installation' /\ Lists'
<1>. USE DEF KInv, HInv, scriptVars, installVars, holderVars, At
<1>1. HoldersTyped'  BY DEF HoldersTyped
<1>2. Placed'  BY DEF Placed
<1>3. Counted'  BY DEF Counted, References, Owners
<1>4. Installation'  BY DEF Installation, Settled
<1>5. Lists'
  BY DEF Lists, Apart, Halfway, ListsFollowHolders, RegisteredIsHeld, HeldIsRegistered, Objects
<1>. QED  BY <1>1, <1>2, <1>3, <1>4, <1>5

LEMMA HInvHandler == ASSUME KInv, Arrive \/ SignalTest \/ SignalPost PROVE HInv'
<1>. USE DEF KInv, HInv, Arrive, SignalTest, SignalPost, HandlerReturns, listVars, history
<1>1. UNCHANGED <<scriptVars, globals, receivers, notified, serving>>
  OBVIOUS
<1>2. thread' \in {thread, "interrupted"} /\ (thread' = "none" <=> thread = "none")
  OBVIOUS
<1>3. thread' \in ThreadSteps
  BY <1>2 DEF HoldersTyped, ThreadSteps
<1>4. SignalsCounted'
  <2>. USE DEF SignalsCounted, HandlerSteps
  <2>1. handler \in [HandlerSteps -> Nat] /\ MaxSignals \in Nat
    BY SigintAssumption DEF SInv, SignalsTyped, SigintAssumption
  <2>2. CASE Arrive  BY <2>1, <2>2
  <2>3. CASE SignalTest
    <3>1. CASE waiting  BY <2>1, <2>3, <3>1
    <3>2. CASE ~waiting  BY <2>1, <2>3, <3>2
    <3>. QED  BY <3>1, <3>2
  <2>4. CASE SignalPost  BY <2>1, <2>4
  <2>. QED  BY <2>2, <2>3, <2>4
<1>. QED  BY <1>1, <1>2, <1>3, <1>4, HInvOthers DEF HoldersTyped

LEMMA HInvWatcher == ASSUME KInv, WatcherStep PROVE HInv'
<1>. USE DEF KInv, HInv, WatcherStep, WatcherAt, listVars, signalVars, handlerVars, history
<1>. USE DEF WatcherCheck, WatcherWait, WatcherWoken, WatcherTest, WatcherHit, WatcherMiss,
             SignalReceivers, SignalGlobals
<1>1. UNCHANGED <<scriptVars, globals, receivers, sigints, handler>>
  OBVIOUS
<1>2. thread' \in ThreadSteps /\ (thread' = "none" <=> thread = "none")
  BY DEF ThreadSteps
<1>3. notified' \subseteq Globals \cup Receivers
  BY DEF HoldersTyped
<1>4. serving' \in BOOLEAN
  BY DEF HoldersTyped, SInv, SignalsTyped
<1>5. SignalsCounted'  BY <1>1 DEF SignalsCounted
<1>. QED  BY <1>1, <1>2, <1>3, <1>4, <1>5, HInvOthers

LEMMA KInvStep == ASSUME KInv, [Next]_vars PROVE KInv'
<1>1. SInv'  BY SInvStep DEF KInv
<1>2. HInv'
  <2>1. CASE Script
    BY <2>1, HInvHold, HInvDestroy, HInvMove, HInvUninstall DEF Script
  <2>2. CASE JsStep
    BY <2>2, HInvRef, HInvInstall, HInvRegister, HInvRegisterReceiver, HInvUnregisterReceiver,
       HInvUnregister, HInvDeref, HInvUninstall DEF JsStep
  <2>3. CASE Arrive \/ SignalTest \/ SignalPost  BY <2>3, HInvHandler
  <2>4. CASE WatcherStep  BY <2>4, HInvWatcher
  <2>5. CASE UNCHANGED vars
    <3>. USE DEF vars, listVars, signalVars, handlerVars, history
    <3>1. /\ UNCHANGED <<scriptVars, globals, receivers>> /\ UNCHANGED thread
          /\ UNCHANGED notified /\ UNCHANGED serving
      BY <2>5
    <3>2. SignalsCounted'  BY <2>5 DEF KInv, HInv, SignalsCounted
    <3>3. HoldersTyped  BY DEF KInv, HInv
    <3>. QED  BY <3>1, <3>2, <3>3, HInvOthers DEF HInv, HoldersTyped
  <2>. QED  BY <2>1, <2>2, <2>3, <2>4, <2>5 DEF Next
<1>. QED  BY <1>1, <1>2 DEF KInv

LEMMA KInvAlways == Spec => []KInv
<1>1. Init => KInv  BY SInvInit, HInvInit DEF KInv
<1>. QED  BY <1>1, KInvStep, PTL DEF Spec

-----------------------------------------------------------------------------
\* The state of the watcher stays of its type: the counter never falls below zero,
\* however holders are moved and overwritten, and no SIGINT is counted twice.
THEOREM TypeCorrect == Spec => []TypeOK
<1>1. ASSUME KInv PROVE TypeOK
  <2>. USE <1>1 DEF KInv, SInv, HInv
  <2>1. /\ handler["test"] \in 0..MaxSignals /\ handler["post"] \in 0..MaxSignals
        /\ sigints \in 0..MaxSignals
    BY SigintAssumption DEF SignalsCounted, SignalsTyped, HandlerSteps, SigintAssumption
  <2>2. handler \in [HandlerSteps -> 0..MaxSignals]
    BY <2>1 DEF SignalsTyped, HandlerSteps
  <2>. QED  BY <2>1, <2>2 DEF TypeOK, HoldersTyped, ScriptTyped, SignalsTyped
<1>. QED  BY <1>1, KInvAlways, PTL

\* The watcher is installed for as long as somebody holds a global object, and its lists
\* are what the holders hold: through moves, overlapping lifetimes, interrupted
\* releases and removals at exit, whatever signals come.
THEOREM HoldersFollowed == Spec => []WatcherFollowsHolders
<1>1. ASSUME KInv PROVE InstalledWhileHeld
  <2>. USE <1>1 DEF KInv, HInv
  <2>1. "overwritten" \notin lapse => References = Cardinality(Owners)
    BY DEF Counted
  <2>2. At("idle") => Settled /\ (installed <=> refCount > 0)
    BY DEF Installation, At
  <2>. QED  BY <2>1, <2>2 DEF InstalledWhileHeld, References, Owners, Settled
<1>2. KInv => WatcherFollowsHolders
  BY <1>1 DEF KInv, HInv, Lists, WatcherFollowsHolders
<1>. QED  BY <1>2, KInvAlways, PTL
=============================================================================
