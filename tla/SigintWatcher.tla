--------------------------- MODULE SigintWatcher ---------------------------
(***************************************************************************)
(* The SIGINT watcher (src/vm/SigintWatcher.cpp): while some script is     *)
(* held, a signal handler that may only do async-signal-safe work hands    *)
(* SIGINT over to a thread, through an atomic flag (m_waiting) and a       *)
(* semaphore, and the thread terminates the held global objects and marks  *)
(* the held receivers.                                                     *)
(*                                                                         *)
(* Three kinds of process: one JavaScript thread that constructs, moves    *)
(* and destroys holders; the watcher's thread; and the handler, which runs *)
(* on whatever thread the kernel picks, the watcher's included.  A step is *)
(* one atomic operation, one critical section or one system call.          *)
(***************************************************************************)
EXTENDS Naturals, FiniteSets

CONSTANTS Holders,      \* GlobalObjectHolder objects
          Globals,      \* JSGlobalObject*
          Receivers,    \* SigintReceiver*
          MaxSignals,   \* bound: how many SIGINTs come
          None,         \* nullptr
          MaxTokens     \* bound: no holder is made while so many tokens lie unused

ASSUME SigintAssumption ==
    /\ None \notin Globals \cup Receivers \cup Holders /\ IsFiniteSet(Holders)
    /\ MaxTokens \in Nat /\ MaxSignals \in Nat

VARIABLES
    refCount,        \* m_refCount
    installed,       \* m_installed
    disposition,     \* the SIGINT action: "watcher", or "bun" for Bun__onPosixSignal
    waiting,         \* m_waiting
    tokens,          \* the value of m_semaphore
    thread,          \* where the watcher's thread is; "none" before it is created
    globals,         \* m_globalObjects
    receivers,       \* m_receivers
    live,            \* holders that are constructed and not destroyed
    heldGlobal,      \* m_globalObject of each holder
    heldReceivers,   \* m_receivers of each holder
    js,              \* where the JavaScript thread is: at, for which holder, with what left
    sigints,         \* how many SIGINTs are still to come
    handler,         \* how many handlers are before their test, and before their post
    notified,        \* held objects with a termination, or m_sigintReceived, pending
    owed,            \* history: was a SIGINT received that no delivery answers yet
    accepted,        \* history: was one among them received while it could be counted
    serving,         \* history: does the delivery under way answer a signal
    lapse            \* history: did two holders share an object, was one overwritten

installVars == <<refCount, installed, disposition>>
holderVars == <<live, heldGlobal, heldReceivers, lapse>>
scriptVars == <<installVars, holderVars, js>>
listVars == <<globals, receivers, notified>>
flagVars == <<waiting, tokens>>
handlerVars == <<sigints, handler>>
history == <<owed, accepted, serving>>
signalVars == <<flagVars, handlerVars, history>>
vars == <<scriptVars, listVars, signalVars, thread>>

JsSteps == {"idle", "ref", "sigaction", "create", "register", "registerReceiver",
            "release", "deref", "exchangeOff", "restore", "post", "join", "exited"}
ThreadSteps == {"none", "check", "wait", "interrupted", "woken", "test", "hit", "miss",
                "signalReceivers", "signalGlobals", "ended"}
HandlerSteps == {"test", "post"}

Idle == [at |-> "idle", holder |-> None, left |-> {}]

TypeOK ==
    /\ refCount \in Nat /\ installed \in BOOLEAN
    /\ disposition \in {"watcher", "bun"} /\ waiting \in BOOLEAN /\ tokens \in Nat
    /\ thread \in ThreadSteps /\ globals \subseteq Globals
    /\ receivers \subseteq Receivers /\ live \subseteq Holders
    /\ heldGlobal \in [Holders -> Globals \cup {None}]
    /\ heldReceivers \in [Holders -> SUBSET Receivers]
    /\ js \in [at : JsSteps, holder : Holders \cup {None}, left : SUBSET Receivers]
    /\ sigints \in 0..MaxSignals /\ handler \in [HandlerSteps -> 0..MaxSignals]
    /\ notified \subseteq Globals \cup Receivers
    /\ owed \in BOOLEAN /\ accepted \in BOOLEAN /\ serving \in BOOLEAN
    /\ lapse \subseteq {"shared", "overwritten"}

\* The semaphore starts at 1: the watcher's first wait returns at once.
InitialTokens == 1

Init ==
    /\ refCount = 0 /\ installed = FALSE /\ disposition = "bun"
    /\ waiting = FALSE /\ tokens = InitialTokens /\ thread = "none"
    /\ globals = {} /\ receivers = {} /\ live = {}
    /\ heldGlobal = [h \in Holders |-> None]
    /\ heldReceivers = [h \in Holders |-> {}] /\ js = Idle /\ sigints = MaxSignals
    /\ handler = [step \in HandlerSteps |-> 0]
    /\ notified = {} /\ owed = FALSE /\ accepted = FALSE /\ serving = FALSE /\ lapse = {}

\* Semaphore::signal and Semaphore::wait.
SemaphoreSignal == tokens' = tokens + 1
SemaphoreWait == tokens > 0 /\ tokens' = tokens - 1

---------------------------------------------------------------------------
\* Holders: constructor, destructor and move of GlobalObjectHolder.

At(step) == js.at = step
Goto(step) == js' = [js EXCEPT !.at = step]
Finish == js' = Idle
Continue(left, step) == js' = IF left = {} THEN Idle ELSE [js EXCEPT !.at = step, !.left = left]
Objects(h) == ({heldGlobal[h]} \ {None}) \cup heldReceivers[h]

\* hold(global, receivers...): the fold of assign() over the arguments, the
\* global object first.  A null global object takes no reference.  (An overwritten
\* holder has leaked its reference: no more are made after it, a bound.)
Hold(h, g, rs) ==
    /\ At("idle") /\ h \notin live /\ tokens < MaxTokens /\ "overwritten" \notin lapse
    /\ live' = live \cup {h} /\ heldGlobal' = [heldGlobal EXCEPT ![h] = g]
    /\ lapse' = IF \E k \in live : Objects(k) \cap ({g} \cup rs) # {}
                THEN lapse \cup {"shared"} ELSE lapse
    /\ js' = IF g = None /\ rs = {} THEN Idle
             ELSE [at |-> IF g # None THEN "ref" ELSE "registerReceiver",
                   holder |-> h, left |-> rs]
    /\ UNCHANGED <<signalVars, installVars, listVars, thread, heldReceivers>>

\* ref(): only the first reference installs.
Ref ==
    /\ At("ref") /\ refCount' = refCount + 1
    /\ Goto(IF refCount = 0 THEN "sigaction" ELSE "register")
    /\ UNCHANGED <<signalVars, listVars, holderVars, installed, disposition, thread>>

\* install(): sigaction, then the exchange of m_installed with its early return
\* and the creation of the thread, which only that thread could tell apart.
InstallSigaction ==
    /\ At("sigaction") /\ disposition' = "watcher" /\ Goto("create")
    /\ UNCHANGED <<signalVars, listVars, holderVars, refCount, installed, thread>>

InstallThread ==
    /\ At("create") /\ installed' = TRUE
    /\ thread' = IF installed THEN thread ELSE "check"
    /\ Goto("register")
    /\ UNCHANGED <<signalVars, listVars, holderVars, refCount, disposition>>

\* registerGlobalObject, under m_globalObjectsMutex: the list holds no object twice.
RegisterGlobalObject ==
    /\ At("register") /\ globals' = globals \cup {heldGlobal[js.holder]}
    /\ Continue(js.left, "registerReceiver")
    /\ UNCHANGED <<signalVars, installVars, holderVars, thread, receivers, notified>>

\* assign(receiver): append to the holder, then registerReceiver under m_receiversMutex.
RegisterReceiver ==
    /\ At("registerReceiver")
    /\ \E r \in js.left :
         /\ heldReceivers' = [heldReceivers EXCEPT ![js.holder] = @ \cup {r}]
         /\ receivers' = receivers \cup {r}
         /\ Continue(js.left \ {r}, "registerReceiver")
    /\ UNCHANGED <<signalVars, installVars, thread, globals, live, heldGlobal, notified,
                   lapse>>

DestroyAlways(h) ==  \* mutant: the reference of a moved-from holder is given back too
    /\ At("idle") /\ h \in live
    /\ js' = [at |-> "release", holder |-> h, left |-> heldReceivers[h]]
    /\ UNCHANGED <<signalVars, installVars, listVars, holderVars, thread>>

\* ~GlobalObjectHolder(): receivers first, then the global object and its
\* reference.  A holder of nothing, as a move leaves it, does nothing.
Destroy(h) ==
    /\ At("idle") /\ h \in live
    /\ IF Objects(h) = {}
       THEN live' = live \ {h} /\ UNCHANGED js
       ELSE /\ js' = [at |-> "release", holder |-> h, left |-> heldReceivers[h]]
            /\ UNCHANGED live
    /\ UNCHANGED <<signalVars, installVars, listVars, thread, heldGlobal, heldReceivers,
                   lapse>>

UnregisterReceiver ==
    /\ At("release")
    /\ \E r \in js.left :
         /\ receivers' = receivers \ {r}
         /\ notified' = notified \ {r}
         /\ IF js.left = {r} /\ heldGlobal[js.holder] = None
            THEN /\ Finish
                 /\ live' = live \ {js.holder}
                 /\ heldReceivers' = [heldReceivers EXCEPT ![js.holder] = {}]
            ELSE /\ js' = [js EXCEPT !.left = @ \ {r}]
                 /\ UNCHANGED <<live, heldReceivers>>
    /\ UNCHANGED <<signalVars, installVars, thread, globals, heldGlobal, lapse>>

UnregisterSome ==  \* mutant: the last entry is removed, whatever it is
    /\ At("release") /\ js.left = {}
    /\ \E g \in globals : globals' = globals \ {g}
    /\ Goto("deref")
    /\ UNCHANGED <<signalVars, installVars, holderVars, thread, receivers, notified>>

UnregisterGlobalObject ==
    /\ At("release") /\ js.left = {} /\ globals' = globals \ {heldGlobal[js.holder]}
    /\ notified' = notified \ {heldGlobal[js.holder]} /\ Goto("deref")
    /\ UNCHANGED <<signalVars, installVars, holderVars, thread, receivers>>

\* deref(): the last reference uninstalls; the holder is gone.
Deref ==
    /\ At("deref") /\ refCount' = refCount - 1 /\ live' = live \ {js.holder}
    /\ heldGlobal' = [heldGlobal EXCEPT ![js.holder] = None]
    /\ heldReceivers' = [heldReceivers EXCEPT ![js.holder] = {}]
    /\ IF refCount = 1 THEN Goto("exchangeOff") ELSE Finish
    /\ UNCHANGED <<signalVars, listVars, installed, disposition, thread, lapse>>

\* Move construction and move assignment: the global object is exchanged with
\* null and the one the target held is forgotten; the vectors are swapped.
Move(h, k) ==
    /\ At("idle") /\ h \in live /\ k # h /\ live' = live \cup {k}
    /\ heldGlobal' = [heldGlobal EXCEPT ![k] = heldGlobal[h], ![h] = None]
    /\ heldReceivers' = [heldReceivers EXCEPT ![k] = heldReceivers[h],
                                              ![h] = heldReceivers[k]]
    /\ lapse' = IF heldGlobal[k] # None THEN lapse \cup {"overwritten"} ELSE lapse
    /\ UNCHANGED <<signalVars, installVars, listVars, thread, js>>

---------------------------------------------------------------------------
\* uninstall(), from the last deref() or from the static destructor at exit.

Exit ==
    /\ At("idle") /\ Goto("exchangeOff")
    /\ UNCHANGED <<signalVars, installVars, listVars, holderVars, thread>>

\* What follows uninstall(): the process ends, or the thread goes on.
Exiting == js.holder = None /\ ~At("idle")
Return == IF Exiting THEN js' = [Idle EXCEPT !.at = "exited"] ELSE Finish

UninstallExchange ==
    /\ At("exchangeOff") /\ installed' = FALSE
    /\ IF installed THEN Goto("restore") ELSE Return
    /\ UNCHANGED <<signalVars, listVars, holderVars, refCount, disposition, thread>>

UninstallRestore ==
    /\ At("restore") /\ disposition' = "bun" /\ Goto("post")
    /\ UNCHANGED <<signalVars, listVars, holderVars, refCount, installed, thread>>

UninstallPostNot ==  \* mutant: the watcher's thread is not woken
    At("post") /\ Goto("join")
    /\ UNCHANGED <<installVars, listVars, holderVars, signalVars, thread>>

UninstallPost ==
    /\ At("post") /\ SemaphoreSignal /\ Goto("join")
    /\ UNCHANGED <<installVars, listVars, holderVars, handlerVars, history, waiting,
                   thread>>

JoinDrains ==  \* mutant: the semaphore is reset, the flag is not
    /\ At("join") /\ thread = "ended" /\ thread' = "none" /\ tokens' = 0 /\ Return
    /\ UNCHANGED <<installVars, listVars, holderVars, handlerVars, history, waiting>>

\* m_thread->waitForCompletion()
UninstallJoin ==
    /\ At("join") /\ thread = "ended" /\ thread' = "none" /\ Return
    /\ UNCHANGED <<signalVars, installVars, listVars, holderVars>>

---------------------------------------------------------------------------
\* The handler: signalReceived() on some thread.

Arrive ==
    /\ sigints > 0 /\ disposition = "watcher" /\ sigints' = sigints - 1
    /\ handler' = [handler EXCEPT !["test"] = @ + 1]
    /\ UNCHANGED <<scriptVars, listVars, flagVars, history, thread>>

\* The handler's thread may be the watcher's own.  The action has no
\* SA_RESTART, so the handler's return then ends the semaphore wait, without a token.
HandlerReturns == thread' \in {thread} \cup (IF thread = "wait" THEN {"interrupted"} ELSE {})

\* A signal that finds the flag set posts nothing: it relies on whoever set it.
\* Between a look that finds nothing and the clearing after it (the watcher is at
\* "miss") that is the look itself, and the signal is owed but not accepted.
SignalTest ==
    /\ handler["test"] > 0 /\ waiting' = TRUE
    /\ owed' = TRUE /\ accepted' = (accepted \/ ~(waiting /\ thread = "miss"))
    /\ IF waiting
       THEN handler' = [handler EXCEPT !["test"] = @ - 1] /\ HandlerReturns
       ELSE /\ handler' = [handler EXCEPT !["test"] = @ - 1, !["post"] = @ + 1]
            /\ UNCHANGED thread
    /\ UNCHANGED <<scriptVars, listVars, tokens, sigints, serving>>

SignalPost ==
    /\ handler["post"] > 0 /\ SemaphoreSignal
    /\ handler' = [handler EXCEPT !["post"] = @ - 1] /\ HandlerReturns
    /\ UNCHANGED <<scriptVars, listVars, history, waiting, sigints>>

---------------------------------------------------------------------------
\* The watcher's thread.

WatcherAt(step) == thread = step

WatcherCheck ==
    /\ WatcherAt("check")
    /\ thread' = IF installed THEN "wait" ELSE "ended"
    /\ UNCHANGED <<scriptVars, signalVars, listVars>>

WatcherWait ==
    /\ WatcherAt("wait") /\ SemaphoreWait /\ thread' = "woken"
    /\ UNCHANGED <<scriptVars, listVars, handlerVars, history, waiting>>

\* The assertion that the wait succeeded stops a debug build only.
WatcherWoken ==
    /\ thread \in {"woken", "interrupted"}
    /\ thread' = IF installed THEN "test" ELSE "ended"
    /\ UNCHANGED <<scriptVars, signalVars, listVars>>

WatcherTestNot ==  \* mutant: every wake-up counts as a signal
    /\ WatcherAt("test") /\ waiting' = TRUE /\ thread' = "hit"
    /\ UNCHANGED <<scriptVars, listVars, handlerVars, history, tokens>>

WatcherTest ==
    /\ WatcherAt("test") /\ waiting' = TRUE
    /\ thread' = IF waiting THEN "hit" ELSE "miss"
    /\ UNCHANGED <<scriptVars, listVars, handlerVars, history, tokens>>

WatcherHit ==
    /\ WatcherAt("hit") /\ waiting' = FALSE /\ thread' = "signalReceivers"
    /\ serving' = owed /\ owed' = FALSE /\ accepted' = FALSE
    /\ UNCHANGED <<scriptVars, listVars, handlerVars, tokens>>

WatcherMiss ==
    /\ WatcherAt("miss") /\ waiting' = FALSE /\ thread' = "check"
    /\ UNCHANGED <<scriptVars, listVars, handlerVars, history, tokens>>

\* signalAll(), first half: the receivers, under m_receiversMutex.
SignalReceivers ==
    /\ WatcherAt("signalReceivers") /\ notified' = notified \cup receivers
    /\ thread' = "signalGlobals"
    /\ UNCHANGED <<scriptVars, signalVars, globals, receivers>>

SignalOneGlobal ==  \* mutant: the loop returns after its first object
    /\ WatcherAt("signalGlobals")
    /\ notified' = notified \cup (IF globals = {} THEN {} ELSE {CHOOSE g \in globals : TRUE})
    /\ serving' = FALSE /\ thread' = "check"
    /\ UNCHANGED <<scriptVars, flagVars, handlerVars, globals, receivers, owed, accepted>>

\* signalAll(), second half: terminate every registered global object, or, when
\* there is none, leave the signal to Bun__onPosixSignal.
SignalGlobals ==
    /\ WatcherAt("signalGlobals") /\ notified' = notified \cup globals
    /\ serving' = FALSE /\ thread' = "check"
    /\ UNCHANGED <<scriptVars, handlerVars, flagVars, globals, receivers, owed, accepted>>

---------------------------------------------------------------------------
JsStep ==
    \/ Ref \/ InstallSigaction \/ InstallThread
    \/ RegisterGlobalObject \/ RegisterReceiver
    \/ UnregisterReceiver \/ UnregisterGlobalObject \/ Deref
    \/ UninstallExchange \/ UninstallRestore \/ UninstallPost \/ UninstallJoin

Script ==
    \/ \E h \in Holders, g \in Globals \cup {None}, rs \in SUBSET Receivers : Hold(h, g, rs)
    \/ \E h \in Holders : Destroy(h)
    \/ \E h, k \in Holders : Move(h, k)
    \/ Exit

WatcherStep ==
    \/ WatcherCheck \/ WatcherWait \/ WatcherWoken \/ WatcherTest
    \/ WatcherHit \/ WatcherMiss \/ SignalReceivers \/ SignalGlobals

Next ==
    \/ JsStep
    \/ Script
    \/ Arrive \/ SignalTest \/ SignalPost
    \/ WatcherStep

\* Threads and handlers that can run are scheduled; scripts and signals come
\* when they come.
Fairness ==
    /\ WF_vars(JsStep) /\ WF_vars(SignalTest) /\ WF_vars(SignalPost)
    /\ WF_vars(WatcherStep)

Spec == Init /\ [][Next]_vars /\ Fairness

\* Bound: while receivers are held no more than one SIGINT has come.
ReceiverBound == (\E h \in live : heldReceivers[h] # {}) => sigints >= MaxSignals - 1

---------------------------------------------------------------------------
\* Properties

\* A SIGINT that was accepted is never stranded: until its delivery begins the
\* flag stays set, and a token, a post to come or a watcher that is already awake
\* will make the watcher look at it.  (Clearing the flag after the delivery
\* instead of before it strands the signal that arrives between.)  And a set flag
\* never stands for nothing, which would drop every SIGINT from then on: outside
\* the watcher's own look in vain it stands for an accepted signal.
NothingStranded ==
    /\ accepted =>
        /\ waiting
        /\ \/ tokens > 0
           \/ handler["post"] > 0
           \/ thread \in {"woken", "interrupted", "test", "hit"}
           \/ js.at \in {"restore", "post"}
    /\ waiting => accepted \/ thread = "miss"

\* Nobody is terminated without a SIGINT: each delivery answers a signal that
\* was received and not answered before, whatever tokens the first install,
\* an earlier uninstall or an interrupted wait left in the semaphore.
NoForgedSignal ==
    thread \in {"signalReceivers", "signalGlobals"} => serving

\* The counter, the holders and the installation agree: one reference for each
\* holder with a global object, and outside ref() and deref() the watcher is
\* installed, with its handler and its thread, exactly while there is one.
InstalledWhileHeld ==
    "overwritten" \notin lapse =>
        /\ refCount + (IF At("ref") THEN 1 ELSE 0) =
              Cardinality({h \in live : heldGlobal[h] # None})
        /\ At("idle") =>
             /\ installed <=> refCount > 0
             /\ disposition = (IF installed THEN "watcher" ELSE "bun")
             /\ installed <=> thread # "none"

\* What the watcher's thread may touch is held: an object on its lists belongs
\* to a live holder, so its owner has not freed it.
RegisteredIsHeld ==
    "overwritten" \notin lapse =>
        /\ \A g \in globals : \E h \in live : heldGlobal[h] = g
        /\ \A r \in receivers : \E h \in live : r \in heldReceivers[h]

\* What is held and not being registered or released is registered, so a SIGINT
\* finds it, unless two holders shared an object: the lists keep one entry
\* for it, and the first of the two holders to go removes it.
HeldIsRegistered ==
    lapse = {} => \A h \in live : h # js.holder => Objects(h) \subseteq globals \cup receivers

\* Both: the watcher's lists are what the holders hold, through moves, overlapping
\* lifetimes and interrupted releases.
ListsFollowHolders == RegisteredIsHeld /\ HeldIsRegistered

\* All of it: the watcher, installed or not, is what its holders ask for.
WatcherFollowsHolders == InstalledWhileHeld /\ ListsFollowHolders

\* A SIGINT accepted while a global object is registered terminates it, if it
\* stays registered.  (Accepted: not received between the two accesses of a look
\* in vain, see SigintReachesHolder.)
Registered(g) == g \in globals /\ ~Exiting
AcceptedReachesHolder ==
    \A g \in Globals : (accepted /\ Registered(g)) ~> (g \in notified \/ ~Registered(g))

\* What the handler and the watcher are for: every SIGINT that is received while
\* a global object is registered terminates it, if it stays registered.  Violated:
\* the watcher's test-and-set of a look in vain sets the flag, and until it clears
\* it again the handler takes a SIGINT for one that somebody else has posted.
SigintReachesHolder ==
    \A g \in Globals : (owed /\ Registered(g)) ~> (g \in notified \/ ~Registered(g))

\* uninstall() returns: the watcher's thread always comes to see that it is
\* no longer installed, and ends.
UninstallReturns == At("join") ~> ~At("join")
=============================================================================
