----------------------------- MODULE BridgeUse ------------------------------
(***************************************************************************)
(* Bridge with history variables, for an embedder that is inside it from   *)
(* one thread at a time.  They record the choices of the embedder by which *)
(* a registration or a VM leaves the bridge's keeping; bridge/README.md    *)
(* rules none of them out, and recommends one (owns_vm = false).           *)
(***************************************************************************)
EXTENDS Bridge

VARIABLES
  raced,    \* a thread was in the bridge while another was, or ran a script
  orphans,  \* registrations whose function may be called after they are freed
  dropped,  \* VMs that adoptHandles has replaced
  spared    \* the registry that the last way down but api.shutdown passed by

histVars == <<raced, orphans, dropped, spared>>

UseInit == Init /\ raced = FALSE /\ orphans = {} /\ dropped = {} /\ spared = {}

Races(t) == \E u \in Threads \ {t} : pc[u] # "idle" \/ loc[u].eval # NoVM

\* The embedder calls adoptHandles over another VM.
Replaces(t) == /\ pc[t] = "idle" /\ pc'[t] = "check"
               /\ vm \notin {NoVM, loc'[t].arg.vm}

\* A function outlives its registration's keeping when its VM is let go while it is
\* not the bridge's, or replaced; when append fails behind its installation; and
\* when hostfn.reset is called by itself.
Orphaned(t) ==
  {r \in Regs : \/ pc[t] = "rel_null_vm" /\ fn[r] = vm /\ vm \notin given
                \/ Replaces(t) /\ fn[r] = vm
                \/ pc[t] = "destroy" /\ loc[t].reg = r
                \/ pc[t] = "lock" /\ loc[t].then = "idle" /\ r \in registry}

\* runtime.shutdown and runtime.resetForTesting do not reset the registry.
Spares(t) == pc[t] = "idle" /\ pc'[t] \in {"swap", "rel_vm"}

\* The histories of a race end with it: nothing is claimed afterwards.
Record(t) ==
  IF raced \/ Races(t)
  THEN raced' = TRUE /\ orphans' = {} /\ dropped' = {} /\ spared' = {}
  ELSE /\ raced' = FALSE
       /\ orphans' = orphans \cup Orphaned(t)
       /\ dropped' = IF Replaces(t) THEN dropped \cup {vm}
                     ELSE IF pc[t] = "set_owns" THEN dropped \ {loc[t].arg.vm}
                     ELSE dropped
       /\ spared' = IF Spares(t) THEN registry ELSE spared

Use(t) == (Begin(t) \/ Step(t)) /\ Record(t)

UseSpec == UseInit /\ [][\E t \in Threads : Use(t)]_<<vars, histVars>>

-----------------------------------------------------------------------------
\* Without races, and through every entry point, failure and call from a script: only
\* living VMs that the bridge owns are deinitialised, and a bridge that is down holds
\* no VM, and no registration but those that a way down other than api.shutdown left.
SafeShutdown ==
  ~raced => /\ DeinitOwned
            /\ Quiet /\ ~initialized => /\ registry \subseteq spared
                                       /\ vm = NoVM /\ global = NoVM /\ ~owns_vm

\* Without races a call follows a freed registration only if it was orphaned: as long as
\* the bridge owns the VM, shutdown takes the VM away with the registrations in it.
OnlyOrphansDangle ==
  ~raced => \A t \in Threads :
              pc[t] = "call" /\ stored[loc[t].reg] # "live" => loc[t].reg \in orphans

\* Without races the bridge still holds each VM handed over to it, until it has been
\* deinitialised, but for those that the embedder replaced with adoptHandles.
OwnedVmKept == ~raced /\ Quiet => \A v \in given \ dropped : vm = v /\ owns_vm
=============================================================================
