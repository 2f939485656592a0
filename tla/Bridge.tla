------------------------------- MODULE Bridge -------------------------------
(***************************************************************************)
(* The embedding bridge: bridge/src/runtime.zig (lifecycle flag, adopted   *)
(* handles, eval backend), bridge/src/hostfn.zig (the host-function        *)
(* registry) and bridge/src/api.zig (the public entry points).             *)
(*                                                                         *)
(* A VM stands for a JSC.VM with its global object.  A registration stands *)
(* for one StoredRegistration allocation together with the JS function     *)
(* whose data pointer refers to it.  A step is one atomic access, one      *)
(* section under registry_mutex, or one statement on the plain globals     *)
(* `state` and `eval_backend` (an early return's two stores count as one), *)
(* so two threads may race on the latter.                                  *)
(***************************************************************************)
EXTENDS Naturals, FiniteSets

CONSTANTS Threads, NoThread,
          VMs, NoVM,          \* JSC VMs the embedder has created
          Regs, NoReg,        \* bound: the registrations ever allocated
          Backends, NoBackend,\* eval handlers, and defaultEvaluator
          HandleArgs,         \* the Handles [vm, owns_vm] the embedder passes
          NoHandles,          \* Config.handles = null
          Ops,                \* the entry points the embedder calls
          AllocMayFail,       \* TRUE: allocations may return OutOfMemory
          Reentrant           \* TRUE: scripts may reach lifecycle calls

ASSUME BridgeAssumption ==
  /\ NoThread \notin Threads /\ NoVM \notin VMs
  /\ NoReg \notin Regs /\ NoBackend \notin Backends
  /\ HandleArgs \subseteq [vm : VMs, owns : BOOLEAN]
  /\ NoHandles \notin HandleArgs
  /\ AllocMayFail \in BOOLEAN /\ Reentrant \in BOOLEAN

VARIABLES
  initialized,          \* runtime.zig: the atomic flag
  vm, global, owns_vm,  \* runtime.zig: `state`
  backend,              \* runtime.zig: `eval_backend`
  registry,             \* hostfn.zig: the registrations in `registry`
  mutex,                \* hostfn.zig: who holds registry_mutex
  stored,               \* hostfn.zig: each StoredRegistration's memory
  fn,                   \* the VM whose global object got the JS function
  alive,                \* the VMs that have not been deinitialised
  given,                \* VMs whose ownership was handed to the bridge
  pc,                   \* where each thread is
  loc                   \* each thread's locals

runtimeVars == <<initialized, vm, global, owns_vm, backend, given>>
hostVars == <<registry, mutex, stored, fn>>
vars == <<runtimeVars, hostVars, alive, pc, loc>>

Locals == [arg : HandleArgs \cup {NoHandles},  \* the Handles passed in
           vm : VMs \cup {NoVM},               \* vm_ptr, or the global read
           global : VMs \cup {NoVM},           \* global_ptr
           owned : BOOLEAN,                    \* owned
           reg : Regs \cup {NoReg},            \* stored
           left : SUBSET Regs,                 \* items reset() has yet to free
           eval : VMs \cup {NoVM},             \* the VM a script is running in
           then : {"idle", "swap", "alloc", "handler", "store", "clear"}]

Places == {"idle", "engine", "check", "set_vm", "set_global", "set_owns",
           "flag", "read", "alloc", "install", "remember", "destroy", "call",
           "handler", "lock", "free", "swap", "rel_vm", "rel_global",
           "rel_clear", "rel_null_global", "rel_owned", "rel_null_owns",
           "rel_deinit", "rel_null_vm", "store", "clear", "clear_backend"}

NoLocals == [arg |-> NoHandles, vm |-> NoVM, global |-> NoVM, owned |-> FALSE,
             reg |-> NoReg, left |-> {}, eval |-> NoVM, then |-> "idle"]

Init == /\ initialized = FALSE /\ given = {}
        /\ vm = NoVM /\ global = NoVM /\ owns_vm = FALSE
        /\ backend = NoBackend
        /\ registry = {} /\ mutex = NoThread
        /\ stored = [r \in Regs |-> "unused"]
        /\ fn = [r \in Regs |-> NoVM]
        /\ alive = VMs
        /\ pc = [t \in Threads |-> "idle"]
        /\ loc = [t \in Threads |-> NoLocals]

\* The thread goes on at `to` with the locals l; returning to the caller ends
\* them, except that the script it runs in goes on.
Move(t, from, to, l) ==
  /\ pc[t] = from
  /\ pc' = [pc EXCEPT ![t] = to]
  /\ loc' = [loc EXCEPT ![t] =
               IF to = "idle" THEN [NoLocals EXCEPT !.eval = l.eval] ELSE l]
Goto(t, from, to) == Move(t, from, to, loc[t])

\* An entry point the embedder may call now; the ones that change the life
\* cycle may be out of reach of a running script.
Called(op) == op \in Ops
Lifecycle(t, op) == Called(op) /\ (Reentrant \/ loc[t].eval = NoVM)

-----------------------------------------------------------------------------
(* runtime.init and adoptHandles *)

\* The embedder passes the handles of a VM that exists, or none.
Passable == {h \in HandleArgs : h.vm \in alive}

InitAgain(t, h) ==  \* mutant: the flag is set but not looked at
  /\ Lifecycle(t, "init")
  /\ Move(t, "idle", "engine", [loc[t] EXCEPT !.arg = h])
  /\ initialized' = TRUE
  /\ UNCHANGED <<vm, global, owns_vm, backend, given, hostVars, alive>>

InitSwap(t, h) ==
  /\ Lifecycle(t, "init")
  /\ Move(t, "idle", IF initialized THEN "idle" ELSE "engine",
          [loc[t] EXCEPT !.arg = h])
  /\ initialized' = TRUE
  /\ UNCHANGED <<vm, global, owns_vm, backend, given, hostVars, alive>>

\* JSC.initialize (external), then the handles of the configuration.
InitEngine(t) ==
  /\ Goto(t, "engine", IF loc[t].arg = NoHandles THEN "idle" ELSE "check")
  /\ UNCHANGED <<runtimeVars, hostVars, alive>>

BeginAdopt(t, h) ==
  /\ Lifecycle(t, "adopt")
  /\ Move(t, "idle", "check", [loc[t] EXCEPT !.arg = h])
  /\ UNCHANGED <<runtimeVars, hostVars, alive>>

AdoptCheck(t) ==
  /\ Goto(t, "check", IF initialized THEN "set_vm" ELSE "idle")
  /\ UNCHANGED <<runtimeVars, hostVars, alive>>

AdoptVm(t) ==
  /\ Goto(t, "set_vm", "set_global")
  /\ vm' = loc[t].arg.vm
  /\ UNCHANGED <<initialized, global, owns_vm, backend, given,
                 hostVars, alive>>

AdoptGlobal(t) ==
  /\ Goto(t, "set_global", "set_owns")
  /\ global' = loc[t].arg.vm
  /\ UNCHANGED <<initialized, vm, owns_vm, backend, given, hostVars, alive>>

\* The caller may also take the ownership of the same VM back.
AdoptOwns(t) ==
  /\ Goto(t, "set_owns", "idle")
  /\ owns_vm' = loc[t].arg.owns
  /\ given' = IF loc[t].arg.owns THEN given \cup {loc[t].arg.vm}
              ELSE given \ {loc[t].arg.vm}
  /\ UNCHANGED <<initialized, vm, global, backend, hostVars, alive>>

-----------------------------------------------------------------------------
(* globalObject, for expose and for evalUtf8 *)

GlobalFlag(t) ==
  /\ Goto(t, "flag", IF initialized THEN "read" ELSE "idle")
  /\ UNCHANGED <<runtimeVars, hostVars, alive>>

GlobalRead(t) ==
  /\ Move(t, "read", IF global = NoVM THEN "idle" ELSE loc[t].then,
          [loc[t] EXCEPT !.global = global])
  /\ UNCHANGED <<runtimeVars, hostVars, alive>>

-----------------------------------------------------------------------------
(* hostfn.expose, callFromJS and reset *)

\* expose asks isInitialized() before globalObject() asks again.
BeginExpose(t) ==
  /\ Called("expose")
  /\ Move(t, "idle", IF initialized THEN "flag" ELSE "idle",
          [loc[t] EXCEPT !.then = "alloc"])
  /\ UNCHANGED <<runtimeVars, hostVars, alive>>

ExposeAllocRaw(t) ==  \* mutant: the allocation is not filled in
  /\ \E r \in Regs :
       /\ stored[r] = "unused"
       /\ Move(t, "alloc", "install", [loc[t] EXCEPT !.reg = r])
       /\ stored' = [stored EXCEPT ![r] = "undefined"]
  /\ UNCHANGED <<runtimeVars, registry, mutex, fn, alive>>

ExposeAlloc(t) ==
  /\ \/ /\ AllocMayFail
        /\ Goto(t, "alloc", "idle")
        /\ UNCHANGED stored
     \/ \E r \in Regs :
          /\ stored[r] = "unused"
          /\ Move(t, "alloc", "install", [loc[t] EXCEPT !.reg = r])
          /\ stored' = [stored EXCEPT ![r] = "live"]
  /\ UNCHANGED <<runtimeVars, registry, mutex, fn, alive>>

\* makeHostFunction and attachToGlobal; the engine may refuse.
ExposeInstall(t) ==
  /\ \/ /\ AllocMayFail
        /\ Goto(t, "install", "destroy")
        /\ UNCHANGED fn
     \/ /\ Goto(t, "install", "remember")
        /\ fn' = [fn EXCEPT ![loc[t].reg] = loc[t].global]
  /\ UNCHANGED <<runtimeVars, registry, mutex, stored, alive>>

RememberUnlocked(t) ==  \* mutant: registry_mutex is not taken
  /\ Goto(t, "remember", "idle")
  /\ registry' = registry \cup {loc[t].reg}
  /\ UNCHANGED <<runtimeVars, mutex, stored, fn, alive>>

ExposeRemember(t) ==
  /\ mutex = NoThread
  /\ \/ /\ AllocMayFail
        /\ Goto(t, "remember", "destroy")
        /\ UNCHANGED registry
     \/ /\ Goto(t, "remember", "idle")
        /\ registry' = registry \cup {loc[t].reg}
  /\ UNCHANGED <<runtimeVars, mutex, stored, fn, alive>>

\* expose's errdefer.
ExposeDestroy(t) ==
  /\ Goto(t, "destroy", "idle")
  /\ stored' = [stored EXCEPT ![loc[t].reg] = "freed"]
  /\ UNCHANGED <<runtimeVars, registry, mutex, fn, alive>>

\* A script of a living VM calls an installed function; the trampoline then
\* follows its data pointer (CallDeref) without taking registry_mutex.
JSCall(t) ==
  /\ Called("call")
  /\ \E r \in Regs : /\ fn[r] \in alive
                    /\ Move(t, "idle", "call", [loc[t] EXCEPT !.reg = r])
  /\ UNCHANGED <<runtimeVars, hostVars, alive>>

CallDeref(t) ==
  /\ Goto(t, "call", "idle")
  /\ UNCHANGED <<runtimeVars, hostVars, alive>>

BeginReset(t) ==
  /\ Lifecycle(t, "reset")
  /\ Move(t, "idle", "lock", [loc[t] EXCEPT !.then = "idle"])
  /\ UNCHANGED <<runtimeVars, hostVars, alive>>

ResetLock(t) ==
  /\ mutex = NoThread
  /\ Move(t, "lock", "free", [loc[t] EXCEPT !.left = registry])
  /\ mutex' = t
  /\ UNCHANGED <<runtimeVars, registry, stored, fn, alive>>

ResetFree(t) ==
  /\ \E r \in loc[t].left :
       /\ Move(t, "free", "free", [loc[t] EXCEPT !.left = @ \ {r}])
       /\ stored' = [stored EXCEPT ![r] = "freed"]
  /\ UNCHANGED <<runtimeVars, registry, mutex, fn, alive>>

ResetUnlock(t) ==
  /\ loc[t].left = {}
  /\ Goto(t, "free", loc[t].then)
  /\ registry' = {}
  /\ mutex' = NoThread
  /\ UNCHANGED <<runtimeVars, stored, fn, alive>>

-----------------------------------------------------------------------------
(* api.shutdown, runtime.shutdown, runtime.resetForTesting *)

\* api.shutdown resets the registry first, whatever the flag says.
BeginShutdown(t) ==
  /\ Lifecycle(t, "shutdown")
  /\ Move(t, "idle", "lock", [loc[t] EXCEPT !.then = "swap"])
  /\ UNCHANGED <<runtimeVars, hostVars, alive>>

BeginRuntimeShutdown(t) ==
  /\ Lifecycle(t, "runtimeShutdown")
  /\ Goto(t, "idle", "swap")
  /\ UNCHANGED <<runtimeVars, hostVars, alive>>

BeginResetForTesting(t) ==
  /\ Lifecycle(t, "resetForTesting")
  /\ Move(t, "idle", "rel_vm", [loc[t] EXCEPT !.then = "store"])
  /\ UNCHANGED <<runtimeVars, hostVars, alive>>

ShutdownSwap(t) ==
  /\ Move(t, "swap", IF initialized THEN "rel_vm" ELSE "idle",
          [loc[t] EXCEPT !.then = "clear"])
  /\ initialized' = FALSE
  /\ UNCHANGED <<vm, global, owns_vm, backend, given, hostVars, alive>>

\* releaseVmHandlesIfPresent, one statement at a time.
ReleaseVm(t) ==
  /\ Move(t, "rel_vm", IF vm = NoVM THEN "rel_clear" ELSE "rel_global",
          [loc[t] EXCEPT !.vm = vm])
  /\ UNCHANGED <<runtimeVars, hostVars, alive>>

ReleaseGlobal(t) ==
  /\ Move(t, "rel_global", IF global = NoVM THEN "rel_clear" ELSE "rel_null_global",
          [loc[t] EXCEPT !.global = global])
  /\ UNCHANGED <<runtimeVars, hostVars, alive>>

\* The two early returns: there was no VM, or no global object.
ReleaseClear(t) ==
  /\ Goto(t, "rel_clear", IF loc[t].vm = NoVM THEN loc[t].then ELSE "rel_null_vm")
  /\ global' = NoVM /\ owns_vm' = FALSE
  /\ UNCHANGED <<initialized, vm, backend, given, hostVars, alive>>

NullOwnsFirst(t) ==  \* mutant: owns_vm is cleared before it is read
  /\ Goto(t, "rel_null_global", "rel_owned")
  /\ global' = NoVM /\ owns_vm' = FALSE
  /\ UNCHANGED <<initialized, vm, backend, given, hostVars, alive>>

ReleaseNullGlobal(t) ==
  /\ Goto(t, "rel_null_global", "rel_owned")
  /\ global' = NoVM
  /\ UNCHANGED <<initialized, vm, owns_vm, backend, given, hostVars, alive>>

ReleaseOwned(t) ==
  /\ Move(t, "rel_owned", "rel_null_owns", [loc[t] EXCEPT !.owned = owns_vm])
  /\ UNCHANGED <<runtimeVars, hostVars, alive>>

AlwaysDeinit(t) ==  \* mutant: `owned` is not looked at
  /\ Goto(t, "rel_null_owns", "rel_deinit")
  /\ owns_vm' = FALSE
  /\ UNCHANGED <<initialized, vm, global, backend, given, hostVars, alive>>

ReleaseNullOwns(t) ==
  /\ Goto(t, "rel_null_owns", IF loc[t].owned THEN "rel_deinit" ELSE "rel_null_vm")
  /\ owns_vm' = FALSE
  /\ UNCHANGED <<initialized, vm, global, backend, given, hostVars, alive>>

ReleaseDeinit(t) ==
  /\ Goto(t, "rel_deinit", "rel_null_vm")
  /\ alive' = alive \ {loc[t].vm}
  /\ given' = given \ {loc[t].vm}
  /\ UNCHANGED <<initialized, vm, global, owns_vm, backend, hostVars>>

ReleaseNullVm(t) ==
  /\ Goto(t, "rel_null_vm", loc[t].then)
  /\ vm' = NoVM
  /\ UNCHANGED <<initialized, global, owns_vm, backend, given,
                 hostVars, alive>>

StoreFalse(t) ==
  /\ Goto(t, "store", "clear")
  /\ initialized' = FALSE
  /\ UNCHANGED <<vm, global, owns_vm, backend, given, hostVars, alive>>

\* resetState: `state = .{}`, then `eval_backend = .{}`.
ClearState(t) ==
  /\ Goto(t, "clear", "clear_backend")
  /\ vm' = NoVM /\ global' = NoVM /\ owns_vm' = FALSE
  /\ UNCHANGED <<initialized, backend, given, hostVars, alive>>

ClearBackend(t) ==
  /\ Goto(t, "clear_backend", "idle")
  /\ backend' = NoBackend
  /\ UNCHANGED <<initialized, vm, global, owns_vm, given, hostVars, alive>>

-----------------------------------------------------------------------------
(* evalUtf8 and installEvalHandler *)

ConfigureEval(t, b) ==
  /\ Called("configureEval")
  /\ pc[t] = "idle"
  /\ backend' = b
  /\ UNCHANGED <<initialized, vm, global, owns_vm, given, hostVars,
                 alive, pc, loc>>

BeginEval(t) ==
  /\ Called("eval") /\ loc[t].eval = NoVM
  /\ Move(t, "idle", "flag", [loc[t] EXCEPT !.then = "handler"])
  /\ UNCHANGED <<runtimeVars, hostVars, alive>>

\* The default evaluator refuses; another one runs the script, which may call
\* host functions and through them the bridge, until EvalReturn.
EvalHandler(t) ==
  /\ Move(t, "handler", "idle",
          [loc[t] EXCEPT !.eval = IF backend = NoBackend THEN @ ELSE loc[t].global])
  /\ UNCHANGED <<runtimeVars, hostVars, alive>>

EvalReturn(t) ==
  /\ pc[t] = "idle" /\ loc[t].eval # NoVM
  /\ loc' = [loc EXCEPT ![t].eval = NoVM]
  /\ UNCHANGED <<runtimeVars, hostVars, alive, pc>>

-----------------------------------------------------------------------------
\* What a thread does after it has entered the bridge.
Step(t) ==
  \/ InitEngine(t) \/ AdoptCheck(t) \/ AdoptVm(t) \/ AdoptGlobal(t)
  \/ AdoptOwns(t) \/ GlobalFlag(t) \/ GlobalRead(t) \/ ExposeAlloc(t)
  \/ ExposeInstall(t) \/ ExposeRemember(t) \/ ExposeDestroy(t) \/ CallDeref(t)
  \/ ResetLock(t) \/ ResetFree(t) \/ ResetUnlock(t) \/ ShutdownSwap(t)
  \/ ReleaseVm(t) \/ ReleaseGlobal(t) \/ ReleaseClear(t) \/ ReleaseNullGlobal(t)
  \/ ReleaseOwned(t) \/ ReleaseNullOwns(t) \/ ReleaseDeinit(t)
  \/ ReleaseNullVm(t) \/ StoreFalse(t) \/ ClearState(t) \/ ClearBackend(t)
  \/ EvalHandler(t) \/ EvalReturn(t)

Begin(t) ==
  \/ \E h \in Passable \cup {NoHandles} : InitSwap(t, h)
  \/ \E h \in Passable : BeginAdopt(t, h)
  \/ \E b \in Backends : ConfigureEval(t, b)
  \/ BeginExpose(t) \/ JSCall(t) \/ BeginReset(t) \/ BeginShutdown(t)
  \/ BeginRuntimeShutdown(t) \/ BeginResetForTesting(t) \/ BeginEval(t)

Next == \E t \in Threads : Begin(t) \/ Step(t)

Spec == Init /\ [][Next]_vars

-----------------------------------------------------------------------------
TypeOK ==
  /\ initialized \in BOOLEAN /\ owns_vm \in BOOLEAN
  /\ vm \in VMs \cup {NoVM} /\ global \in VMs \cup {NoVM}
  /\ backend \in Backends \cup {NoBackend}
  /\ registry \subseteq Regs /\ mutex \in Threads \cup {NoThread}
  /\ stored \in [Regs -> {"unused", "live", "freed"}]
  /\ fn \in [Regs -> VMs \cup {NoVM}]
  /\ alive \subseteq VMs /\ given \subseteq VMs
  /\ pc \in [Threads -> Places]
  /\ loc \in [Threads -> Locals]

\* A registration an expose has allocated and not yet handed to the registry.
Exposing(t) == pc[t] \in {"install", "remember", "destroy"}
\* What reset() has already freed while it still stands in `registry`.
Doomed == IF mutex = NoThread THEN {} ELSE registry \ loc[mutex].left

\* Every allocated registration has exactly one owner, the registry or the
\* one expose that is building it: none leaks, none is freed twice, and the
\* registry lists freed memory only behind the lock of the reset freeing it.
OneOwner ==
  /\ \A r \in registry : stored[r] = IF r \in Doomed THEN "freed" ELSE "live"
  /\ \A t \in Threads : Exposing(t) => /\ stored[loc[t].reg] = "live"
                                       /\ loc[t].reg \notin registry
  /\ \A t, u \in Threads :
       Exposing(t) /\ Exposing(u) /\ loc[t].reg = loc[u].reg => t = u
  /\ \A r \in Regs : stored[r] = "live" =>
       r \in registry \/ \E t \in Threads : Exposing(t) /\ loc[t].reg = r

Quiet == \A t \in Threads : pc[t] = "idle"

\* JSC.VM.deinit runs on a VM that is alive and that the bridge owns.
DeinitOwned == \A t \in Threads :
  pc[t] = "rel_deinit" => loc[t].vm \in alive /\ loc[t].vm \in given

\* A script never makes the trampoline follow a pointer to a freed
\* registration.
NoDanglingCall ==
  \A t \in Threads : pc[t] = "call" => stored[loc[t].reg] = "live"
=============================================================================
