---------------------------- MODULE BridgeProofs ----------------------------
(***************************************************************************)
(* Proofs about Bridge and BridgeUse for any number of threads, VMs and    *)
(* registrations, every set of entry points and both failure settings.     *)
(***************************************************************************)
EXTENDS BridgeUse, TLAPS

\* Where a thread is tells what its locals hold and who has registry_mutex.
LocalsMatch ==
  \A t \in Threads :
    /\ Exposing(t) => loc[t].reg \in Regs
    /\ pc[t] = "free" <=> mutex = t
    /\ mutex = t => loc[t].left \subseteq registry
    /\ pc[t] \in {"check", "set_vm", "set_global", "set_owns"} =>
         loc[t].arg \in HandleArgs

IInv == TypeOK /\ LocalsMatch /\ OneOwner

Adopting == {"check", "set_vm", "set_global", "set_owns"}
\* The places of a thread that neither owns a registration nor resets.
Away == Places \ {"install", "remember", "destroy", "free"}

LEMMA NoLocalsTyped == NoLocals \in Locals
BY DEF NoLocals, Locals

\* A move keeps the types of pc and loc and touches no other thread.
LEMMA MoveEffect ==
  ASSUME pc \in [Threads -> Places], loc \in [Threads -> Locals],
         NEW t \in Threads, NEW from, NEW to \in Places, NEW l \in Locals,
         Move(t, from, to, l)
  PROVE /\ pc' \in [Threads -> Places] /\ loc' \in [Threads -> Locals]
        /\ pc[t] = from /\ pc'[t] = to
        /\ to # "idle" => loc'[t] = l
        /\ \A u \in Threads \ {t} : pc'[u] = pc[u] /\ loc'[u] = loc[u]
<1>1. [NoLocals EXCEPT !.eval = l.eval] \in Locals
  BY DEF Locals, NoLocals
<1> QED
  BY <1>1 DEF Move

\* Writing one field of well-typed locals keeps them well typed.
LEMMA LocalsExcept ==
  ASSUME NEW l \in Locals
  PROVE /\ \A h \in HandleArgs \cup {NoHandles} : [l EXCEPT !.arg = h] \in Locals
        /\ \A v \in VMs \cup {NoVM} : /\ [l EXCEPT !.vm = v] \in Locals
                                      /\ [l EXCEPT !.global = v] \in Locals
                                      /\ [l EXCEPT !.eval = v] \in Locals
        /\ \A b \in BOOLEAN : [l EXCEPT !.owned = b] \in Locals
        /\ \A r \in Regs \cup {NoReg} : [l EXCEPT !.reg = r] \in Locals
        /\ \A s \in SUBSET Regs : [l EXCEPT !.left = s] \in Locals
        /\ \A p \in {"idle", "swap", "alloc", "handler", "store", "clear"} :
             [l EXCEPT !.then = p] \in Locals
BY DEF Locals

\* A move between places that own nothing, with the registry, its lock and the
\* allocations unchanged, disturbs no ownership.
LEMMA Elsewhere ==
  ASSUME IInv, NEW t \in Threads, NEW from \in Away, NEW to \in Away,
         NEW l \in Locals, to \in Adopting => l.arg \in HandleArgs,
         Move(t, from, to, l), UNCHANGED <<registry, mutex, stored>>
  PROVE /\ pc' \in [Threads -> Places] /\ loc' \in [Threads -> Locals]
        /\ LocalsMatch' /\ OneOwner'
<1>1. /\ pc[t] = from /\ pc'[t] = to
      /\ to # "idle" => loc'[t] = l
      /\ \A u \in Threads \ {t} : pc'[u] = pc[u] /\ loc'[u] = loc[u]
  BY MoveEffect DEF IInv, TypeOK, Away
<1>2. ~Exposing(t) /\ ~Exposing(t)' /\ mutex # t
  BY <1>1 DEF Exposing, Away, IInv, LocalsMatch
<1>3. \A u \in Threads : Exposing(u)' = Exposing(u)
  BY <1>1, <1>2 DEF Exposing
<1>4. Doomed' = Doomed
  BY <1>1, <1>2 DEF Doomed, IInv, TypeOK
<1>5. OneOwner'
  BY <1>1, <1>2, <1>3, <1>4 DEF IInv, OneOwner
<1>6. LocalsMatch'
  BY <1>1, <1>2, <1>3 DEF IInv, LocalsMatch, Away, Adopting
<1> QED
  BY <1>5, <1>6, MoveEffect DEF IInv, TypeOK, Away

LEMMA InductiveStep == IInv /\ [Next]_vars => IInv'
<1> SUFFICES ASSUME IInv, [Next]_vars PROVE IInv'
  OBVIOUS
<1> USE BridgeAssumption
<1>0. pc \in [Threads -> Places] /\ loc \in [Threads -> Locals]
  BY DEF IInv, TypeOK
<1>1. ASSUME NEW t \in Threads, NEW h \in Passable \cup {NoHandles},
             InitSwap(t, h) PROVE IInv'
  <2>1. [loc[t] EXCEPT !.arg = h] \in Locals
    BY LocalsExcept DEF IInv, TypeOK, Passable
  <2>2. /\ "idle" \in Away
        /\ (IF initialized THEN "idle" ELSE "engine") \in Away \ Adopting
    BY DEF Away, Adopting, Places
  <2> QED
    BY <1>1, <2>1, <2>2, Elsewhere
    DEF InitSwap, IInv, TypeOK, runtimeVars, hostVars
<1>2. ASSUME NEW t \in Threads, InitEngine(t) PROVE IInv'
  <2>1. loc[t] \in Locals
    BY DEF IInv, TypeOK
  <2>2. /\ "engine" \in Away
        /\ (IF loc[t].arg = NoHandles THEN "idle" ELSE "check") \in Away
    BY DEF Away, Places
  <2>3. \/ loc[t].arg \in HandleArgs
        \/ (IF loc[t].arg = NoHandles THEN "idle" ELSE "check") \notin Adopting
    BY <1>2, <2>1 DEF InitEngine, Goto, Move, Adopting, IInv, LocalsMatch,
       Locals
  <2> QED
    BY <1>2, <2>1, <2>2, <2>3, Elsewhere
    DEF InitEngine, Goto, Locals, IInv, TypeOK, runtimeVars, hostVars
<1>3. ASSUME NEW t \in Threads, NEW h \in Passable,
             BeginAdopt(t, h) PROVE IInv'
  <2>1. [loc[t] EXCEPT !.arg = h] \in Locals
    BY LocalsExcept DEF IInv, TypeOK, Passable
  <2>2. "idle" \in Away /\ "check" \in Away
    BY DEF Away, Places
  <2>3. h \in HandleArgs \/ "check" \notin Adopting
    BY <1>3, <2>1 DEF BeginAdopt, Passable, Goto, Move, Adopting, IInv,
       LocalsMatch, Locals
  <2> QED
    BY <1>3, <2>1, <2>2, <2>3, Elsewhere
    DEF BeginAdopt, Locals, IInv, TypeOK, runtimeVars, hostVars
<1>4. ASSUME NEW t \in Threads, AdoptCheck(t) PROVE IInv'
  <2>1. loc[t] \in Locals
    BY DEF IInv, TypeOK
  <2>2. "check" \in Away /\ (IF initialized THEN "set_vm" ELSE "idle") \in Away
    BY DEF Away, Places
  <2>3. \/ loc[t].arg \in HandleArgs
        \/ (IF initialized THEN "set_vm" ELSE "idle") \notin Adopting
    BY <1>4, <2>1 DEF AdoptCheck, Goto, Move, Adopting, IInv, LocalsMatch,
       Locals
  <2> QED
    BY <1>4, <2>1, <2>2, <2>3, Elsewhere
    DEF AdoptCheck, Goto, Locals, IInv, TypeOK, runtimeVars, hostVars
<1>5. ASSUME NEW t \in Threads, AdoptVm(t) PROVE IInv'
  <2>1. loc[t] \in Locals
    BY DEF IInv, TypeOK
  <2>2. "set_vm" \in Away /\ "set_global" \in Away
    BY DEF Away, Places
  <2>3. loc[t].arg \in HandleArgs \/ "set_global" \notin Adopting
    BY <1>5, <2>1 DEF AdoptVm, Goto, Move, Adopting, IInv, LocalsMatch, Locals
  <2>4. loc[t].arg.vm \in VMs /\ loc[t].arg.owns \in BOOLEAN
    BY <1>5, <2>1, BridgeAssumption DEF AdoptVm, Goto, Move, IInv, LocalsMatch
  <2> QED
    BY <1>5, <2>1, <2>2, <2>3, <2>4, Elsewhere
    DEF AdoptVm, Goto, Locals, IInv, TypeOK, runtimeVars, hostVars
<1>6. ASSUME NEW t \in Threads, AdoptGlobal(t) PROVE IInv'
  <2>1. loc[t] \in Locals
    BY DEF IInv, TypeOK
  <2>2. "set_global" \in Away /\ "set_owns" \in Away
    BY DEF Away, Places
  <2>3. loc[t].arg \in HandleArgs \/ "set_owns" \notin Adopting
    BY <1>6, <2>1 DEF AdoptGlobal, Goto, Move, Adopting, IInv, LocalsMatch,
       Locals
  <2>4. loc[t].arg.vm \in VMs /\ loc[t].arg.owns \in BOOLEAN
    BY <1>6, <2>1, BridgeAssumption DEF AdoptGlobal, Goto, Move, IInv,
       LocalsMatch
  <2> QED
    BY <1>6, <2>1, <2>2, <2>3, <2>4, Elsewhere
    DEF AdoptGlobal, Goto, Locals, IInv, TypeOK, runtimeVars, hostVars
<1>7. ASSUME NEW t \in Threads, AdoptOwns(t) PROVE IInv'
  <2>1. loc[t] \in Locals
    BY DEF IInv, TypeOK
  <2>2. "set_owns" \in Away /\ "idle" \in Away
    BY DEF Away, Places
  <2>3. loc[t].arg \in HandleArgs \/ "idle" \notin Adopting
    BY <1>7, <2>1 DEF AdoptOwns, Goto, Move, Adopting, IInv, LocalsMatch,
       Locals
  <2>4. loc[t].arg.vm \in VMs /\ loc[t].arg.owns \in BOOLEAN
    BY <1>7, <2>1, BridgeAssumption DEF AdoptOwns, Goto, Move, IInv,
       LocalsMatch
  <2> QED
    BY <1>7, <2>1, <2>2, <2>3, <2>4, Elsewhere
    DEF AdoptOwns, Goto, Locals, IInv, TypeOK, runtimeVars, hostVars
<1>8. ASSUME NEW t \in Threads, GlobalFlag(t) PROVE IInv'
  <2>1. loc[t] \in Locals
    BY DEF IInv, TypeOK
  <2>2. /\ "flag" \in Away
        /\ (IF initialized THEN "read" ELSE "idle") \in Away \ Adopting
    BY DEF Away, Adopting, Places
  <2> QED
    BY <1>8, <2>1, <2>2, Elsewhere
    DEF GlobalFlag, Goto, IInv, TypeOK, runtimeVars, hostVars
<1>9. ASSUME NEW t \in Threads, GlobalRead(t) PROVE IInv'
  <2>1. [loc[t] EXCEPT !.global = global] \in Locals
    BY LocalsExcept DEF IInv, TypeOK
  <2>2. /\ "read" \in Away
        /\ (IF global = NoVM THEN "idle" ELSE loc[t].then) \in Away \ Adopting
    BY DEF Away, Adopting, Places, Locals, IInv, TypeOK
  <2> QED
    BY <1>9, <2>1, <2>2, Elsewhere
    DEF GlobalRead, IInv, TypeOK, runtimeVars, hostVars
<1>10. ASSUME NEW t \in Threads, BeginExpose(t) PROVE IInv'
  <2>1. [loc[t] EXCEPT !.then = "alloc"] \in Locals
    BY LocalsExcept DEF IInv, TypeOK
  <2>2. /\ "idle" \in Away
        /\ (IF initialized THEN "flag" ELSE "idle") \in Away \ Adopting
    BY DEF Away, Adopting, Places
  <2> QED
    BY <1>10, <2>1, <2>2, Elsewhere
    DEF BeginExpose, IInv, TypeOK, runtimeVars, hostVars
<1>11. ASSUME NEW t \in Threads, ExposeAlloc(t) PROVE IInv'
  <2>1. CASE UNCHANGED stored /\ Goto(t, "alloc", "idle")
    <3>1. loc[t] \in Locals /\ "alloc" \in Away /\ "idle" \in Away \ Adopting
      BY DEF IInv, TypeOK, Away, Adopting, Places
    <3> QED
      BY <1>11, <2>1, <3>1, Elsewhere
      DEF ExposeAlloc, Goto, IInv, TypeOK, runtimeVars
  <2>2. ASSUME NEW r \in Regs, stored[r] = "unused",
               Move(t, "alloc", "install", [loc[t] EXCEPT !.reg = r]),
               stored' = [stored EXCEPT ![r] = "live"]
        PROVE IInv'
    <3>1. PICK l \in Locals : l = [loc[t] EXCEPT !.reg = r]
      BY LocalsExcept DEF IInv, TypeOK
    <3>2. l.reg = r
      BY <3>1 DEF IInv, TypeOK, Locals
    <3>3. Move(t, "alloc", "install", l) /\ "install" \in Places
      BY <2>2, <3>1 DEF Places
    <3>4. /\ pc' \in [Threads -> Places] /\ loc' \in [Threads -> Locals]
          /\ pc[t] = "alloc" /\ pc'[t] = "install" /\ loc'[t].reg = r
          /\ \A u \in Threads \ {t} : pc'[u] = pc[u] /\ loc'[u] = loc[u]
      <4>1. pc' \in [Threads -> Places] /\ loc' \in [Threads -> Locals]
        BY <1>0, <3>3, MoveEffect
      <4>2. pc[t] = "alloc" /\ pc'[t] = "install"
        BY <1>0, <3>3, MoveEffect
      <4>3. loc'[t] = l
        BY <1>0, <3>3, MoveEffect
      <4>4. \A u \in Threads \ {t} : pc'[u] = pc[u] /\ loc'[u] = loc[u]
        BY <1>0, <3>3, MoveEffect
      <4> QED
        BY <3>2, <4>1, <4>2, <4>3, <4>4
    <3>5. mutex # t /\ Doomed' = Doomed /\ UNCHANGED <<registry, mutex>>
      BY <1>11, <3>4 DEF ExposeAlloc, IInv, TypeOK, LocalsMatch, Doomed
    <3>6. TypeOK'
      BY <1>11, <2>2, <3>4, <3>5 DEF ExposeAlloc, IInv, TypeOK, runtimeVars
    <3>7. LocalsMatch'
      BY <3>4, <3>5 DEF IInv, LocalsMatch, Exposing
    <3>8. stored[r] = "unused" /\ \A q \in Regs :
            stored'[q] = IF q = r THEN "live" ELSE stored[q]
      BY <2>2 DEF IInv, TypeOK
    <3>9. OneOwner'
      BY <3>4, <3>5, <3>8 DEF IInv, TypeOK, LocalsMatch, OneOwner, Exposing
    <3> QED
      BY <3>6, <3>7, <3>9 DEF IInv
  <2> QED
    BY <1>11, <2>1, <2>2 DEF ExposeAlloc
<1>12. ASSUME NEW t \in Threads, ExposeInstall(t) PROVE IInv'
  <2>1. PICK to \in {"remember", "destroy"} : Move(t, "install", to, loc[t])
    BY <1>12 DEF ExposeInstall, Goto
  <2>2. loc[t] \in Locals /\ to \in Places /\ to # "idle"
    BY DEF IInv, TypeOK, Places
  <2>3. /\ pc' \in [Threads -> Places] /\ loc' \in [Threads -> Locals]
        /\ pc[t] = "install" /\ pc'[t] \in {"remember", "destroy"}
        /\ loc'[t] = loc[t]
        /\ \A u \in Threads \ {t} : pc'[u] = pc[u] /\ loc'[u] = loc[u]
    BY <2>1, <2>2, MoveEffect DEF IInv, TypeOK
  <2>4. UNCHANGED <<registry, mutex, stored>> /\ mutex # t /\ Doomed' = Doomed
    BY <1>12, <2>3 DEF ExposeInstall, IInv, TypeOK, LocalsMatch, Doomed
  <2>5. TypeOK'
    BY <1>12, <2>2, <2>3, <2>4 DEF ExposeInstall, IInv, TypeOK, Locals,
       runtimeVars
  <2>6. LocalsMatch' /\ OneOwner'
    BY <2>3, <2>4 DEF IInv, LocalsMatch, OneOwner, Exposing
  <2> QED
    BY <2>5, <2>6 DEF IInv
<1>13. ASSUME NEW t \in Threads, ExposeRemember(t) PROVE IInv'
  <2>1. CASE Goto(t, "remember", "destroy") /\ UNCHANGED registry
    <3>1. loc[t] \in Locals /\ "destroy" \in Places
      BY DEF IInv, TypeOK, Places
    <3>2. /\ pc' \in [Threads -> Places] /\ loc' \in [Threads -> Locals]
          /\ pc[t] = "remember" /\ pc'[t] = "destroy" /\ loc'[t] = loc[t]
          /\ \A u \in Threads \ {t} : pc'[u] = pc[u] /\ loc'[u] = loc[u]
      BY <2>1, <3>1, MoveEffect DEF Goto, IInv, TypeOK
    <3>3. UNCHANGED <<mutex, stored>> /\ mutex # t /\ Doomed' = Doomed
      BY <1>13, <2>1, <3>2 DEF ExposeRemember, IInv, TypeOK, LocalsMatch,
         Doomed
    <3> QED
      BY <1>13, <2>1, <3>2, <3>3 DEF ExposeRemember, IInv, TypeOK, LocalsMatch,
         OneOwner, Exposing, runtimeVars
  <2>2. CASE Goto(t, "remember", "idle") /\ registry' = registry \cup {loc[t].reg}
    <3>1. loc[t] \in Locals /\ "idle" \in Places
      BY DEF IInv, TypeOK, Places
    <3>2. /\ pc' \in [Threads -> Places] /\ loc' \in [Threads -> Locals]
          /\ pc[t] = "remember" /\ pc'[t] = "idle"
          /\ \A u \in Threads \ {t} : pc'[u] = pc[u] /\ loc'[u] = loc[u]
      BY <2>2, <3>1, MoveEffect DEF Goto, IInv, TypeOK
    <3>3. UNCHANGED <<mutex, stored>> /\ mutex = NoThread /\ loc[t].reg \in Regs
      BY <1>13, <3>2 DEF ExposeRemember, IInv, LocalsMatch, Exposing
    <3>4. TypeOK' /\ LocalsMatch'
      BY <1>13, <2>2, <3>2, <3>3 DEF ExposeRemember, IInv, TypeOK, LocalsMatch,
         Exposing, runtimeVars
    <3>5. OneOwner'
      BY <2>2, <3>2, <3>3 DEF IInv, TypeOK, OneOwner, Exposing, Doomed
    <3> QED
      BY <3>4, <3>5 DEF IInv
  <2> QED
    BY <1>13, <2>1, <2>2 DEF ExposeRemember
<1>14. ASSUME NEW t \in Threads, ExposeDestroy(t) PROVE IInv'
  <2>1. loc[t] \in Locals /\ "idle" \in Places
    BY DEF IInv, TypeOK, Places
  <2>2. /\ pc' \in [Threads -> Places] /\ loc' \in [Threads -> Locals]
        /\ pc[t] = "destroy" /\ pc'[t] = "idle"
        /\ \A u \in Threads \ {t} : pc'[u] = pc[u] /\ loc'[u] = loc[u]
    BY <1>14, <2>1, MoveEffect DEF ExposeDestroy, Goto, IInv, TypeOK
  <2>3. /\ UNCHANGED <<registry, mutex>> /\ mutex # t /\ loc[t].reg \in Regs
        /\ Doomed' = Doomed
    BY <1>14, <2>2 DEF ExposeDestroy, IInv, TypeOK, LocalsMatch, Exposing,
       Doomed
  <2>4. TypeOK' /\ LocalsMatch'
    BY <1>14, <2>2, <2>3 DEF ExposeDestroy, IInv, TypeOK, LocalsMatch,
       Exposing,
       runtimeVars
  <2>5. OneOwner'
    BY <1>14, <2>2, <2>3 DEF ExposeDestroy, IInv, TypeOK, OneOwner, Exposing
  <2> QED
    BY <2>4, <2>5 DEF IInv
<1>15. ASSUME NEW t \in Threads, JSCall(t) PROVE IInv'
  <2>1. PICK r \in Regs : Move(t, "idle", "call", [loc[t] EXCEPT !.reg = r])
    BY <1>15 DEF JSCall
  <2>2. [loc[t] EXCEPT !.reg = r] \in Locals
    BY LocalsExcept DEF IInv, TypeOK
  <2>3. "idle" \in Away /\ "call" \in Away \ Adopting
    BY DEF Away, Adopting, Places
  <2> QED
    BY <1>15, <2>1, <2>2, <2>3, Elsewhere
    DEF JSCall, IInv, TypeOK, runtimeVars, hostVars
<1>16. ASSUME NEW t \in Threads, CallDeref(t) PROVE IInv'
  <2>1. loc[t] \in Locals
    BY DEF IInv, TypeOK
  <2>2. "call" \in Away /\ "idle" \in Away \ Adopting
    BY DEF Away, Adopting, Places
  <2> QED
    BY <1>16, <2>1, <2>2, Elsewhere
    DEF CallDeref, Goto, IInv, TypeOK, runtimeVars, hostVars
<1>17. ASSUME NEW t \in Threads, BeginReset(t) PROVE IInv'
  <2>1. [loc[t] EXCEPT !.then = "idle"] \in Locals
    BY LocalsExcept DEF IInv, TypeOK
  <2>2. "idle" \in Away /\ "lock" \in Away \ Adopting
    BY DEF Away, Adopting, Places
  <2> QED
    BY <1>17, <2>1, <2>2, Elsewhere
    DEF BeginReset, IInv, TypeOK, runtimeVars, hostVars
<1>18. ASSUME NEW t \in Threads, ResetLock(t) PROVE IInv'
  <2>1. [loc[t] EXCEPT !.left = registry] \in Locals /\ "free" \in Places
    BY LocalsExcept DEF IInv, TypeOK, Places
  <2>a. PICK l \in Locals : l = [loc[t] EXCEPT !.left = registry]
    BY <2>1
  <2>b. l.left = registry
    BY <1>0, <2>a DEF Locals
  <2>c. Move(t, "lock", "free", l)
    BY <1>18, <2>a DEF ResetLock
  <2>2. /\ pc' \in [Threads -> Places] /\ loc' \in [Threads -> Locals]
        /\ pc[t] = "lock" /\ pc'[t] = "free" /\ loc'[t] = l
        /\ \A u \in Threads \ {t} : pc'[u] = pc[u] /\ loc'[u] = loc[u]
    <3>1. pc' \in [Threads -> Places] /\ loc' \in [Threads -> Locals]
      BY <1>0, <2>1, <2>c, MoveEffect
    <3>2. pc[t] = "lock" /\ pc'[t] = "free" /\ loc'[t] = l
      BY <1>0, <2>1, <2>c, MoveEffect
    <3>3. \A u \in Threads \ {t} : pc'[u] = pc[u] /\ loc'[u] = loc[u]
      BY <1>0, <2>1, <2>c, MoveEffect
    <3> QED
      BY <3>1, <3>2, <3>3
  <2>3. loc'[t].left = registry
    BY <2>2, <2>b
  <2>4. /\ UNCHANGED <<registry, stored>> /\ mutex = NoThread /\ mutex' = t
        /\ Doomed = {} /\ Doomed' = {}
    BY <1>18, <2>2, <2>3 DEF ResetLock, Doomed
  <2>5. TypeOK'
    BY <1>18, <2>2, <2>4 DEF ResetLock, IInv, TypeOK, runtimeVars
  <2>6. LocalsMatch'
    BY <2>2, <2>3, <2>4 DEF IInv, TypeOK, LocalsMatch, Exposing
  <2>7. OneOwner'
    BY <2>2, <2>4 DEF IInv, OneOwner, Exposing
  <2> QED
    BY <2>5, <2>6, <2>7 DEF IInv
<1>19. ASSUME NEW t \in Threads, ResetFree(t) PROVE IInv'
  <2>1. PICK r \in loc[t].left :
          /\ Move(t, "free", "free", [loc[t] EXCEPT !.left = loc[t].left \ {r}])
          /\ stored' = [stored EXCEPT ![r] = "freed"]
    BY <1>19 DEF ResetFree
  <2>2. pc[t] = "free" /\ mutex = t /\ loc[t].left \subseteq registry
    BY <2>1 DEF Move, IInv, LocalsMatch
  <2>3. PICK l \in Locals : l = [loc[t] EXCEPT !.left = loc[t].left \ {r}]
    BY <1>0, <2>2, LocalsExcept DEF IInv, TypeOK
  <2>4. l.left = loc[t].left \ {r}
    BY <1>0, <2>3 DEF Locals
  <2>5. Move(t, "free", "free", l) /\ "free" \in Places
    BY <2>1, <2>3 DEF Places
  <2>6. /\ pc' \in [Threads -> Places] /\ loc' \in [Threads -> Locals]
        /\ pc'[t] = "free" /\ loc'[t].left = loc[t].left \ {r}
        /\ \A u \in Threads \ {t} : pc'[u] = pc[u] /\ loc'[u] = loc[u]
    BY <1>0, <2>4, <2>5, MoveEffect
  <2>7. /\ UNCHANGED <<registry, mutex>>
        /\ Doomed' = Doomed \cup {r} /\ r \in registry \ Doomed
    BY <1>19, <2>1, <2>2, <2>6 DEF ResetFree, Doomed, IInv, TypeOK
  <2>8. TypeOK'
    BY <1>19, <2>1, <2>2, <2>6, <2>7 DEF ResetFree, IInv, TypeOK, runtimeVars
  <2>9. LocalsMatch'
    BY <2>2, <2>6, <2>7 DEF IInv, LocalsMatch, Exposing
  <2>10. OneOwner'
    BY <2>1, <2>2, <2>6, <2>7 DEF IInv, TypeOK, OneOwner, Exposing
  <2> QED
    BY <2>8, <2>9, <2>10 DEF IInv
<1>20. ASSUME NEW t \in Threads, ResetUnlock(t) PROVE IInv'
  <2>1. loc[t].then \in Places /\ loc[t].then \in Away \ Adopting
    BY <1>0 DEF Locals, Places, Away, Adopting
  <2>2. Move(t, "free", loc[t].then, loc[t])
    BY <1>20 DEF ResetUnlock, Goto
  <2>3. /\ pc' \in [Threads -> Places] /\ loc' \in [Threads -> Locals]
        /\ pc[t] = "free" /\ pc'[t] = loc[t].then
        /\ \A u \in Threads \ {t} : pc'[u] = pc[u] /\ loc'[u] = loc[u]
    <3>0. PICK l \in Locals, p \in Places : l = loc[t] /\ p = loc[t].then
      BY <1>0, <2>1
    <3>1. Move(t, "free", p, l)
      BY <2>2, <3>0
    <3>2. pc' \in [Threads -> Places] /\ loc' \in [Threads -> Locals]
      BY <1>0, <3>1, MoveEffect
    <3>3. pc[t] = "free" /\ pc'[t] = p
      BY <1>0, <3>1, MoveEffect
    <3>4. \A u \in Threads \ {t} : pc'[u] = pc[u] /\ loc'[u] = loc[u]
      BY <1>0, <3>1, MoveEffect
    <3> QED
      BY <3>0, <3>2, <3>3, <3>4
  <2>4. /\ mutex = t /\ mutex' = NoThread /\ registry' = {} /\ UNCHANGED stored
        /\ Doomed = registry /\ Doomed' = {}
    BY <1>20, <2>3 DEF ResetUnlock, IInv, LocalsMatch, Doomed
  <2>5. TypeOK'
    BY <1>20, <2>3, <2>4 DEF ResetUnlock, IInv, TypeOK, runtimeVars
  <2>6. LocalsMatch'
    BY <2>1, <2>3, <2>4 DEF IInv, LocalsMatch, Exposing, Away, Adopting
  <2>7. OneOwner'
    BY <2>1, <2>3, <2>4 DEF IInv, TypeOK, OneOwner, Exposing, Away
  <2> QED
    BY <2>5, <2>6, <2>7 DEF IInv
<1>21. ASSUME NEW t \in Threads, BeginShutdown(t) PROVE IInv'
  <2>1. [loc[t] EXCEPT !.then = "swap"] \in Locals
    BY LocalsExcept DEF IInv, TypeOK
  <2>2. "idle" \in Away /\ "lock" \in Away \ Adopting
    BY DEF Away, Adopting, Places
  <2> QED
    BY <1>21, <2>1, <2>2, Elsewhere
    DEF BeginShutdown, IInv, TypeOK, runtimeVars, hostVars
<1>22. ASSUME NEW t \in Threads, BeginRuntimeShutdown(t) PROVE IInv'
  <2>1. loc[t] \in Locals
    BY DEF IInv, TypeOK
  <2>2. "idle" \in Away /\ "swap" \in Away \ Adopting
    BY DEF Away, Adopting, Places
  <2> QED
    BY <1>22, <2>1, <2>2, Elsewhere
    DEF BeginRuntimeShutdown, Goto, IInv, TypeOK, runtimeVars, hostVars
<1>23. ASSUME NEW t \in Threads, BeginResetForTesting(t) PROVE IInv'
  <2>1. [loc[t] EXCEPT !.then = "store"] \in Locals
    BY LocalsExcept DEF IInv, TypeOK
  <2>2. "idle" \in Away /\ "rel_vm" \in Away \ Adopting
    BY DEF Away, Adopting, Places
  <2> QED
    BY <1>23, <2>1, <2>2, Elsewhere
    DEF BeginResetForTesting, IInv, TypeOK, runtimeVars, hostVars
<1>24. ASSUME NEW t \in Threads, ShutdownSwap(t) PROVE IInv'
  <2>1. [loc[t] EXCEPT !.then = "clear"] \in Locals
    BY LocalsExcept DEF IInv, TypeOK
  <2>2. /\ "swap" \in Away
        /\ (IF initialized THEN "rel_vm" ELSE "idle") \in Away \ Adopting
    BY DEF Away, Adopting, Places
  <2> QED
    BY <1>24, <2>1, <2>2, Elsewhere
    DEF ShutdownSwap, IInv, TypeOK, runtimeVars, hostVars
<1>25. ASSUME NEW t \in Threads, ReleaseVm(t) PROVE IInv'
  <2>1. [loc[t] EXCEPT !.vm = vm] \in Locals
    BY LocalsExcept DEF IInv, TypeOK
  <2>2. /\ "rel_vm" \in Away
        /\ (IF vm = NoVM THEN "rel_clear"
            ELSE "rel_global") \in Away \ Adopting
    BY DEF Away, Adopting, Places
  <2> QED
    BY <1>25, <2>1, <2>2, Elsewhere
    DEF ReleaseVm, IInv, TypeOK, runtimeVars, hostVars
<1>26. ASSUME NEW t \in Threads, ReleaseGlobal(t) PROVE IInv'
  <2>1. [loc[t] EXCEPT !.global = global] \in Locals
    BY LocalsExcept DEF IInv, TypeOK
  <2>2. /\ "rel_global" \in Away
        /\ (IF global = NoVM THEN "rel_clear"
            ELSE "rel_null_global") \in Away \ Adopting
    BY DEF Away, Adopting, Places
  <2> QED
    BY <1>26, <2>1, <2>2, Elsewhere
    DEF ReleaseGlobal, IInv, TypeOK, runtimeVars, hostVars
<1>27. ASSUME NEW t \in Threads, ReleaseClear(t) PROVE IInv'
  <2>1. loc[t] \in Locals
    BY DEF IInv, TypeOK
  <2>2. /\ "rel_clear" \in Away
        /\ (IF loc[t].vm = NoVM THEN loc[t].then
            ELSE "rel_null_vm") \in Away \ Adopting
    BY <2>1 DEF Away, Adopting, Places, Locals
  <2> QED
    BY <1>27, <2>1, <2>2, Elsewhere
    DEF ReleaseClear, Goto, IInv, TypeOK, runtimeVars, hostVars
<1>28. ASSUME NEW t \in Threads, ReleaseNullGlobal(t) PROVE IInv'
  <2>1. loc[t] \in Locals
    BY DEF IInv, TypeOK
  <2>2. "rel_null_global" \in Away /\ "rel_owned" \in Away \ Adopting
    BY DEF Away, Adopting, Places
  <2> QED
    BY <1>28, <2>1, <2>2, Elsewhere
    DEF ReleaseNullGlobal, Goto, IInv, TypeOK, runtimeVars, hostVars
<1>29. ASSUME NEW t \in Threads, ReleaseOwned(t) PROVE IInv'
  <2>1. [loc[t] EXCEPT !.owned = owns_vm] \in Locals
    BY LocalsExcept DEF IInv, TypeOK
  <2>2. "rel_owned" \in Away /\ "rel_null_owns" \in Away \ Adopting
    BY DEF Away, Adopting, Places
  <2> QED
    BY <1>29, <2>1, <2>2, Elsewhere
    DEF ReleaseOwned, IInv, TypeOK, runtimeVars, hostVars
<1>30. ASSUME NEW t \in Threads, ReleaseNullOwns(t) PROVE IInv'
  <2>1. loc[t] \in Locals
    BY DEF IInv, TypeOK
  <2>2. /\ "rel_null_owns" \in Away
        /\ (IF loc[t].owned THEN "rel_deinit"
            ELSE "rel_null_vm") \in Away \ Adopting
    BY DEF Away, Adopting, Places
  <2> QED
    BY <1>30, <2>1, <2>2, Elsewhere
    DEF ReleaseNullOwns, Goto, IInv, TypeOK, runtimeVars, hostVars
<1>31. ASSUME NEW t \in Threads, ReleaseDeinit(t) PROVE IInv'
  <2>1. loc[t] \in Locals
    BY DEF IInv, TypeOK
  <2>2. "rel_deinit" \in Away /\ "rel_null_vm" \in Away \ Adopting
    BY DEF Away, Adopting, Places
  <2> QED
    BY <1>31, <2>1, <2>2, Elsewhere
    DEF ReleaseDeinit, Goto, IInv, TypeOK, runtimeVars, hostVars
<1>32. ASSUME NEW t \in Threads, ReleaseNullVm(t) PROVE IInv'
  <2>1. loc[t] \in Locals
    BY DEF IInv, TypeOK
  <2>2. "rel_null_vm" \in Away /\ loc[t].then \in Away \ Adopting
    BY <2>1 DEF Away, Adopting, Places, Locals
  <2> QED
    BY <1>32, <2>1, <2>2, Elsewhere
    DEF ReleaseNullVm, Goto, IInv, TypeOK, runtimeVars, hostVars
<1>33. ASSUME NEW t \in Threads, StoreFalse(t) PROVE IInv'
  <2>1. loc[t] \in Locals
    BY DEF IInv, TypeOK
  <2>2. "store" \in Away /\ "clear" \in Away \ Adopting
    BY DEF Away, Adopting, Places
  <2> QED
    BY <1>33, <2>1, <2>2, Elsewhere
    DEF StoreFalse, Goto, IInv, TypeOK, runtimeVars, hostVars
<1>34. ASSUME NEW t \in Threads, ClearState(t) PROVE IInv'
  <2>1. loc[t] \in Locals
    BY DEF IInv, TypeOK
  <2>2. "clear" \in Away /\ "clear_backend" \in Away \ Adopting
    BY DEF Away, Adopting, Places
  <2> QED
    BY <1>34, <2>1, <2>2, Elsewhere
    DEF ClearState, Goto, IInv, TypeOK, runtimeVars, hostVars
<1>35. ASSUME NEW t \in Threads, ClearBackend(t) PROVE IInv'
  <2>1. loc[t] \in Locals
    BY DEF IInv, TypeOK
  <2>2. "clear_backend" \in Away /\ "idle" \in Away \ Adopting
    BY DEF Away, Adopting, Places
  <2> QED
    BY <1>35, <2>1, <2>2, Elsewhere
    DEF ClearBackend, Goto, IInv, TypeOK, runtimeVars, hostVars
<1>36. ASSUME NEW t \in Threads, NEW b \in Backends,
              ConfigureEval(t, b) PROVE IInv'
  BY <1>36 DEF ConfigureEval, IInv, TypeOK, LocalsMatch, OneOwner, Exposing,
     Doomed, hostVars
<1>37. ASSUME NEW t \in Threads, BeginEval(t) PROVE IInv'
  <2>1. [loc[t] EXCEPT !.then = "handler"] \in Locals
    BY LocalsExcept DEF IInv, TypeOK
  <2>2. "idle" \in Away /\ "flag" \in Away \ Adopting
    BY DEF Away, Adopting, Places
  <2> QED
    BY <1>37, <2>1, <2>2, Elsewhere
    DEF BeginEval, IInv, TypeOK, runtimeVars, hostVars
<1>38. ASSUME NEW t \in Threads, EvalHandler(t) PROVE IInv'
  <2>1. loc[t] \in Locals
    BY DEF IInv, TypeOK
  <2>2. (IF backend = NoBackend THEN loc[t].eval ELSE loc[t].global) \in VMs \cup {NoVM}
    BY <2>1 DEF Locals
  <2>3. [loc[t] EXCEPT !.eval =
                IF backend = NoBackend THEN loc[t].eval ELSE loc[t].global] \in Locals
    BY <2>1, <2>2, LocalsExcept
  <2>4. "handler" \in Away /\ "idle" \in Away \ Adopting
    BY DEF Away, Adopting, Places
  <2> QED
    BY <1>38, <2>3, <2>4, Elsewhere DEF EvalHandler, IInv, TypeOK,
       runtimeVars, hostVars
<1>39. ASSUME NEW t \in Threads, EvalReturn(t) PROVE IInv'
  <2>1. [loc[t] EXCEPT !.eval = NoVM] \in Locals
    BY LocalsExcept DEF IInv, TypeOK
  <2>2. Doomed' = Doomed
    BY <1>39, <2>1 DEF EvalReturn, Doomed, IInv, TypeOK, Locals, hostVars
  <2> QED
    BY <1>39, <2>1, <2>2 DEF EvalReturn, IInv, TypeOK, LocalsMatch, OneOwner,
       Exposing, Locals, runtimeVars, hostVars
<1>40. CASE UNCHANGED vars
  BY <1>40 DEF vars, runtimeVars, hostVars, IInv, TypeOK, LocalsMatch,
     OneOwner,
     Exposing, Doomed
<1> QED
  BY <1>1, <1>2, <1>3, <1>4, <1>5, <1>6, <1>7, <1>8, <1>9, <1>10, <1>11,
     <1>12, <1>13, <1>14, <1>15, <1>16, <1>17, <1>18, <1>19, <1>20,
     <1>21, <1>22, <1>23, <1>24, <1>25, <1>26, <1>27, <1>28, <1>29, <1>30,
     <1>31, <1>32, <1>33, <1>34, <1>35, <1>36, <1>37, <1>38, <1>39, <1>40
  DEF Next, Begin, Step

LEMMA InitTyped == Init => IInv
<1> SUFFICES ASSUME Init PROVE IInv
  OBVIOUS
<1>1. TypeOK
  BY NoLocalsTyped DEF Init, TypeOK, Places
<1>2. LocalsMatch /\ OneOwner
  BY BridgeAssumption DEF Init, LocalsMatch, OneOwner, Exposing, Doomed
<1> QED
  BY <1>1, <1>2 DEF IInv

LEMMA Inductive == Spec => []IInv
  BY InitTyped, InductiveStep, PTL DEF Spec

\* A step of one thread leaves where the others are alone.
LEMMA OnlyMover ==
  ASSUME pc \in [Threads -> Places], loc \in [Threads -> Locals], NEW t \in Threads,
         Begin(t) \/ Step(t)
  PROVE  \A u \in Threads \ {t} : pc'[u] = pc[u] /\ loc'[u] = loc[u]
<1>1. ASSUME NEW from, NEW to, NEW l, Move(t, from, to, l)
      PROVE  \A u \in Threads \ {t} : pc'[u] = pc[u] /\ loc'[u] = loc[u]
  BY <1>1 DEF Move
<1>2. CASE Begin(t)
  BY <1>1, <1>2
  DEF Begin, InitSwap, BeginAdopt, ConfigureEval, BeginExpose, JSCall, BeginReset,
      BeginShutdown, BeginRuntimeShutdown, BeginResetForTesting, BeginEval, Goto
<1>3. CASE Step(t)
  BY <1>1, <1>3
  DEF Step, InitEngine, AdoptCheck, AdoptVm, AdoptGlobal, AdoptOwns, GlobalFlag, GlobalRead,
      ExposeAlloc, ExposeInstall, ExposeRemember, ExposeDestroy, CallDeref, ResetLock,
      ResetFree, ResetUnlock, ShutdownSwap, ReleaseVm, ReleaseGlobal, ReleaseClear,
      ReleaseNullGlobal, ReleaseOwned, ReleaseNullOwns, ReleaseDeinit, ReleaseNullVm,
      StoreFalse, ClearState, ClearBackend, EvalHandler, EvalReturn, Goto
<1>. QED  BY <1>2, <1>3

\* Every variable keeps its type, whatever races on the plain globals.
THEOREM TypeCorrect == Spec => []TypeOK
<1>1. IInv => TypeOK
  BY DEF IInv
<1> QED
  BY <1>1, Inductive, PTL

\* Whatever threads expose, reset, shut down and fail at once, every allocated
\* registration has exactly one owner.
THEOREM RegistrationsOwned == Spec => []OneOwner
<1>1. IInv => OneOwner
  BY DEF IInv
<1> QED
  BY <1>1, Inductive, PTL

-----------------------------------------------------------------------------
\* Where a thread may stand with the handles half released.
Releasing == {"rel_vm", "rel_global", "rel_clear", "rel_null_global", "rel_owned",
              "rel_null_owns", "rel_deinit", "rel_null_vm"}
\* Where the handles are changing.
Changing == {"set_global", "set_owns", "rel_owned", "rel_null_owns", "rel_deinit",
             "rel_null_vm"}
Cleared == {"store", "clear"}

\* Without races: what holds of the life cycle when the only thread in the bridge, with
\* the locals l, is at p.
Calm(p, l) ==
  /\ p \in {"swap"} \cup Releasing \cup Cleared \/ ~initialized => registry \subseteq spared
  /\ p \in {"set_vm", "set_global", "set_owns", "read", "alloc", "install", "remember"}
       => initialized
  /\ p \in {"lock", "free"} => l.then \in {"swap", "idle"}
  /\ p \in {"flag", "read"} => l.then \in {"alloc", "handler"}
  /\ p \in Releasing => l.then \in Cleared
  /\ p \in Cleared \/ (~initialized /\ p \notin Releasing)
       => vm = NoVM /\ global = NoVM /\ ~owns_vm
  /\ p = "engine" => vm = NoVM /\ (l.arg = NoHandles \/ l.arg.vm \in alive)
  /\ p \in Adopting => l.arg.vm \in alive
  /\ p \in {"set_global", "set_owns"} => vm = l.arg.vm
  /\ p = "rel_clear" => vm = NoVM /\ l.vm = NoVM
  /\ owns_vm /\ p \notin {"set_global", "set_owns"} => vm \in alive /\ vm \in given
  /\ p \in {"rel_global", "rel_null_global", "rel_owned", "rel_null_owns", "rel_deinit"}
       => l.vm = vm /\ vm # NoVM
  /\ p = "rel_null_owns" => l.owned = owns_vm
  /\ p = "rel_deinit" => vm \in alive /\ vm \in given
  /\ p \in {"rel_deinit", "rel_null_vm"} => ~owns_vm
  /\ p = "set_owns" => global = vm
  /\ p \in {"rel_owned", "rel_null_owns", "rel_deinit", "rel_null_vm"} => global = NoVM
  /\ p \notin Changing => global = vm

\* Where registrations are freed before their VM is let go.
Closing(p, l) ==
  \/ p \in {"swap"} \cup Releasing
  \/ p = "free" /\ l.then = "swap"

\* The VMs handed over and the registrations are where the bridge will release them
\* together, but for those the histories tell of.
Kept(p, l) ==
  /\ p \notin Adopting => vm \notin dropped
  /\ p \in {"check", "set_vm"} /\ vm \notin {NoVM, l.arg.vm}
       => vm \in dropped /\ \A r \in Regs : fn[r] = vm => r \in orphans
  /\ \A v \in given \ dropped :
       v = vm /\ (p \notin {"set_global", "set_owns", "rel_deinit"} => owns_vm)
  /\ p = "rel_null_vm" => vm \notin given
  /\ p \in {"alloc", "install", "remember"} => l.global = vm
  /\ \A r \in Regs : fn[r] \in alive =>
       r \in orphans \/ (fn[r] = vm /\ (~Closing(p, l) => stored[r] = "live"))
  /\ p = "free" /\ l.then = "idle" => registry \subseteq orphans
  /\ p = "call" => l.reg \in Regs /\ fn[l.reg] \in alive

OneInside == \A t, u \in Threads : t # u /\ pc[t] # "idle" => pc[u] = "idle"

Alone(p, l) == Calm(p, l) /\ Kept(p, l)
AloneInv == ~raced => /\ OneInside
                      /\ \A t \in Threads : pc[t] # "idle" => Alone(pc[t], loc[t])
                      /\ Quiet => Alone("idle", NoLocals)
HistInv == raced \in BOOLEAN /\ orphans \subseteq Regs /\ NoVM \notin dropped

LEMMA UseStep ==
  ASSUME IInv, HistInv, NEW t \in Threads, Begin(t) \/ Step(t), ~raced, ~Races(t),
         Record(t), Alone(pc[t], loc[t])
  PROVE  Alone(pc[t], loc[t])'
<1>. USE BridgeAssumption
<1>. DEFINE Goal == Calm(pc[t], loc[t])' /\ Kept(pc[t], loc[t])'
<1>0. /\ pc \in [Threads -> Places] /\ loc \in [Threads -> Locals] /\ loc[t] \in Locals
      /\ alive \subseteq VMs /\ given \subseteq VMs /\ vm \in VMs \cup {NoVM}
      /\ stored \in [Regs -> {"unused", "live", "freed"}] /\ fn \in [Regs -> VMs \cup {NoVM}]
      /\ owns_vm \in BOOLEAN /\ initialized \in BOOLEAN /\ registry \subseteq Regs
      /\ Calm(pc[t], loc[t]) /\ Kept(pc[t], loc[t]) /\ NoVM \notin dropped
  BY DEF IInv, TypeOK, HistInv, Alone
\* What the histories take down of a step.
<1>h. /\ orphans \subseteq orphans'
      /\ pc[t] = "rel_null_vm" /\ vm \notin given => \A r \in Regs : fn[r] = vm => r \in orphans'
      /\ Replaces(t) => \A r \in Regs : fn[r] = vm => r \in orphans'
      /\ pc[t] = "destroy" => \A r \in Regs : loc[t].reg = r => r \in orphans'
      /\ pc[t] = "lock" /\ loc[t].then = "idle" => registry \subseteq orphans'
      /\ dropped' = IF Replaces(t) THEN dropped \cup {vm}
                    ELSE IF pc[t] = "set_owns" THEN dropped \ {loc[t].arg.vm}
                    ELSE dropped
      /\ spared' = IF Spares(t) THEN registry ELSE spared
  <2>1. /\ orphans' = orphans \cup Orphaned(t)
        /\ dropped' = IF Replaces(t) THEN dropped \cup {vm}
                      ELSE IF pc[t] = "set_owns" THEN dropped \ {loc[t].arg.vm}
                      ELSE dropped
        /\ spared' = IF Spares(t) THEN registry ELSE spared
    BY DEF Record
  <2>. QED  BY <1>0, <2>1 DEF Orphaned
<1>1. ASSUME NEW h \in Passable \cup {NoHandles}, InitSwap(t, h) PROVE Goal
  <2>1. /\ pc[t] = "idle" /\ pc'[t] = (IF initialized THEN "idle" ELSE "engine")
        /\ pc'[t] # "idle" => loc'[t].arg = h
    BY <1>0, <1>1 DEF InitSwap, Goto, Move, Locals
  <2>2. Calm(pc[t], loc[t])'
    BY <1>0, <1>h, <1>1, <2>1
    DEF InitSwap, Calm, Changing, Releasing, Cleared, Adopting, Passable, Spares, runtimeVars,
        hostVars
  <2>3. Kept(pc[t], loc[t])'
    BY <1>0, <1>h, <1>1, <2>1
    DEF InitSwap, Calm, Kept, Changing, Closing, Releasing, Cleared, Adopting, Passable,
        Replaces, runtimeVars, hostVars
  <2>. QED  BY <2>2, <2>3
<1>2. ASSUME InitEngine(t) PROVE Goal
  <2>1. /\ pc[t] = "engine" /\ pc'[t] = (IF loc[t].arg = NoHandles THEN "idle" ELSE "check")
        /\ pc'[t] # "idle" => loc'[t].arg = loc[t].arg
    BY <1>0, <1>2 DEF InitEngine, Goto, Move, Locals
  <2>2. Calm(pc[t], loc[t])'
    BY <1>0, <1>h, <1>2, <2>1
    DEF InitEngine, Calm, Changing, Releasing, Cleared, Adopting, Spares, runtimeVars,
        hostVars
  <2>3. Kept(pc[t], loc[t])'
    BY <1>0, <1>h, <1>2, <2>1
    DEF InitEngine, Calm, Kept, Changing, Closing, Releasing, Cleared, Adopting, Replaces,
        runtimeVars, hostVars
  <2>. QED  BY <2>2, <2>3
<1>3. ASSUME NEW h \in Passable, BeginAdopt(t, h) PROVE Goal
  <2>1. /\ pc[t] = "idle" /\ pc'[t] = "check"
        /\ pc'[t] # "idle" => loc'[t].arg = h
    BY <1>0, <1>3 DEF BeginAdopt, Goto, Move, Locals
  <2>2. Calm(pc[t], loc[t])'
    BY <1>0, <1>h, <1>3, <2>1
    DEF BeginAdopt, Calm, Changing, Releasing, Cleared, Adopting, Passable, Spares,
        runtimeVars, hostVars
  <2>3. Kept(pc[t], loc[t])'
    BY <1>0, <1>h, <1>3, <2>1
    DEF BeginAdopt, Calm, Kept, Changing, Closing, Releasing, Cleared, Adopting, Passable,
        Replaces, runtimeVars, hostVars
  <2>. QED  BY <2>2, <2>3
<1>4. ASSUME AdoptCheck(t) PROVE Goal
  <2>1. /\ pc[t] = "check" /\ pc'[t] = (IF initialized THEN "set_vm" ELSE "idle")
        /\ pc'[t] # "idle" => loc'[t].arg = loc[t].arg
    BY <1>0, <1>4 DEF AdoptCheck, Goto, Move, Locals
  <2>2. Calm(pc[t], loc[t])'
    BY <1>0, <1>h, <1>4, <2>1
    DEF AdoptCheck, Calm, Changing, Releasing, Cleared, Adopting, Spares, runtimeVars,
        hostVars
  <2>3. Kept(pc[t], loc[t])'
    BY <1>0, <1>h, <1>4, <2>1
    DEF AdoptCheck, Calm, Kept, Changing, Closing, Releasing, Cleared, Adopting, Replaces,
        runtimeVars, hostVars
  <2>. QED  BY <2>2, <2>3
<1>5. ASSUME AdoptVm(t) PROVE Goal
  <2>1. /\ pc[t] = "set_vm" /\ pc'[t] = "set_global"
        /\ pc'[t] # "idle" => loc'[t].arg = loc[t].arg
    BY <1>0, <1>5 DEF AdoptVm, Goto, Move, Locals
  <2>2. Calm(pc[t], loc[t])'
    BY <1>0, <1>h, <1>5, <2>1
    DEF AdoptVm, Calm, Changing, Releasing, Cleared, Adopting, Spares, runtimeVars, hostVars
  <2>3. Kept(pc[t], loc[t])'
    BY <1>0, <1>h, <1>5, <2>1
    DEF AdoptVm, Calm, Kept, Changing, Closing, Releasing, Cleared, Adopting, Replaces,
        runtimeVars, hostVars
  <2>. QED  BY <2>2, <2>3
<1>6. ASSUME AdoptGlobal(t) PROVE Goal
  <2>1. /\ pc[t] = "set_global" /\ pc'[t] = "set_owns"
        /\ pc'[t] # "idle" => loc'[t].arg = loc[t].arg
    BY <1>0, <1>6 DEF AdoptGlobal, Goto, Move, Locals
  <2>2. Calm(pc[t], loc[t])'
    BY <1>0, <1>h, <1>6, <2>1
    DEF AdoptGlobal, Calm, Changing, Releasing, Cleared, Adopting, Spares, runtimeVars,
        hostVars
  <2>3. Kept(pc[t], loc[t])'
    BY <1>0, <1>h, <1>6, <2>1
    DEF AdoptGlobal, Calm, Kept, Changing, Closing, Releasing, Cleared, Adopting, Replaces,
        runtimeVars, hostVars
  <2>. QED  BY <2>2, <2>3
<1>7. ASSUME AdoptOwns(t) PROVE Goal
  <2>1. /\ pc[t] = "set_owns" /\ pc'[t] = "idle" /\ owns_vm' = loc[t].arg.owns
        /\ given' = IF loc[t].arg.owns THEN given \cup {loc[t].arg.vm}
                    ELSE given \ {loc[t].arg.vm}
        /\ UNCHANGED <<initialized, vm, global, hostVars, alive>>
    BY <1>0, <1>7 DEF AdoptOwns, Goto, Move
  <2>2. Calm(pc[t], loc[t])'
    BY <1>0, <1>h, <2>1 DEF Calm, Changing, Releasing, Cleared, Adopting, Spares, hostVars
  <2>3. loc[t].arg # NoHandles
    BY <2>1 DEF IInv, LocalsMatch
  <2>4. dropped' = dropped \ {loc[t].arg.vm}
    BY <1>h, <2>1 DEF Replaces
  <2>5. /\ vm = loc[t].arg.vm /\ vm' \notin dropped'
        /\ \A v \in given' \ dropped' : v = vm' /\ owns_vm'
    BY <1>0, <2>1, <2>3, <2>4 DEF Calm, Kept
  <2>6. \A r \in Regs : fn'[r] \in alive' =>
          r \in orphans' \/ (fn'[r] = vm' /\ stored'[r] = "live")
    BY <1>0, <1>h, <2>1 DEF Kept, Closing, Releasing, hostVars
  <2>7. Kept(pc[t], loc[t])'
    BY <2>1, <2>5, <2>6 DEF Kept
  <2>. QED  BY <2>2, <2>7
<1>8. ASSUME GlobalFlag(t) PROVE Goal
  <2>1. /\ pc[t] = "flag" /\ pc'[t] = (IF initialized THEN "read" ELSE "idle")
        /\ pc'[t] # "idle" => loc'[t].then = loc[t].then
    BY <1>0, <1>8 DEF GlobalFlag, Goto, Move, Locals
  <2>2. Calm(pc[t], loc[t])'
    BY <1>0, <1>h, <1>8, <2>1
    DEF GlobalFlag, Calm, Changing, Releasing, Cleared, Adopting, Spares, runtimeVars,
        hostVars
  <2>3. Kept(pc[t], loc[t])'
    BY <1>0, <1>h, <1>8, <2>1
    DEF GlobalFlag, Calm, Kept, Changing, Closing, Releasing, Cleared, Adopting, Replaces,
        runtimeVars, hostVars
  <2>. QED  BY <2>2, <2>3
<1>9. ASSUME GlobalRead(t) PROVE Goal
  <2>1. /\ pc[t] = "read" /\ pc'[t] = (IF global = NoVM THEN "idle" ELSE loc[t].then)
        /\ pc'[t] # "idle" => loc'[t].global = global
    BY <1>0, <1>9 DEF GlobalRead, Goto, Move, Locals
  <2>2. Calm(pc[t], loc[t])'
    BY <1>0, <1>h, <1>9, <2>1
    DEF GlobalRead, Calm, Changing, Releasing, Cleared, Adopting, Spares, runtimeVars,
        hostVars
  <2>3. Kept(pc[t], loc[t])'
    BY <1>0, <1>h, <1>9, <2>1
    DEF GlobalRead, Calm, Kept, Changing, Closing, Releasing, Cleared, Adopting, Replaces,
        runtimeVars, hostVars
  <2>. QED  BY <2>2, <2>3
<1>10. ASSUME BeginExpose(t) PROVE Goal
  <2>1. /\ pc[t] = "idle" /\ pc'[t] = (IF initialized THEN "flag" ELSE "idle")
        /\ pc'[t] # "idle" => loc'[t].then = "alloc"
    BY <1>0, <1>10 DEF BeginExpose, Goto, Move, Locals
  <2>2. Calm(pc[t], loc[t])'
    BY <1>0, <1>h, <1>10, <2>1
    DEF BeginExpose, Calm, Changing, Releasing, Cleared, Adopting, Spares, runtimeVars,
        hostVars
  <2>3. Kept(pc[t], loc[t])'
    BY <1>0, <1>h, <1>10, <2>1
    DEF BeginExpose, Calm, Kept, Changing, Closing, Releasing, Cleared, Adopting, Replaces,
        runtimeVars, hostVars
  <2>. QED  BY <2>2, <2>3
<1>11. ASSUME ExposeAlloc(t) PROVE Goal
  <2>0. /\ pc[t] = "alloc" /\ UNCHANGED <<runtimeVars, registry, mutex, fn, alive>>
        /\ \/ pc'[t] = "idle" /\ UNCHANGED stored
           \/ /\ pc'[t] = "install" /\ loc'[t].reg \in Regs /\ loc'[t].global = loc[t].global
              /\ stored[loc'[t].reg] = "unused"
              /\ stored' = [stored EXCEPT ![loc'[t].reg] = "live"]
    <3>1. CASE Goto(t, "alloc", "idle") /\ UNCHANGED stored
      BY <1>0, <1>11, <3>1 DEF ExposeAlloc, Goto, Move
    <3>2. ASSUME NEW r \in Regs, stored[r] = "unused",
                 Move(t, "alloc", "install", [loc[t] EXCEPT !.reg = r]),
                 stored' = [stored EXCEPT ![r] = "live"]
          PROVE  /\ pc[t] = "alloc" /\ pc'[t] = "install" /\ loc'[t].reg = r
                 /\ loc'[t].global = loc[t].global
      BY <1>0, <3>2 DEF Move, Locals
    <3>. QED  BY <1>11, <3>1, <3>2 DEF ExposeAlloc
  <2>2. Calm(pc[t], loc[t])'
    BY <1>0, <1>h, <2>0 DEF Calm, Changing, Releasing, Cleared, Adopting, Spares, runtimeVars
  <2>3. Kept(pc[t], loc[t])'
    BY <1>0, <1>h, <2>0
    DEF Calm, Kept, Changing, Closing, Releasing, Cleared, Adopting, Replaces, runtimeVars
  <2>. QED  BY <2>2, <2>3
<1>12. ASSUME ExposeInstall(t) PROVE Goal
  <2>1. /\ pc[t] = "install" /\ UNCHANGED <<runtimeVars, registry, mutex, stored, alive>>
        /\ loc'[t] = loc[t]
        /\ \/ pc'[t] = "destroy" /\ UNCHANGED fn
           \/ pc'[t] = "remember" /\ fn' = [fn EXCEPT ![loc[t].reg] = loc[t].global]
    BY <1>0, <1>12 DEF ExposeInstall, Goto, Move
  <2>2. Calm(pc[t], loc[t])'
    BY <1>0, <1>h, <2>1 DEF Calm, Changing, Releasing, Cleared, Adopting, Spares, runtimeVars
  <2>3. loc[t].reg \in Regs /\ stored[loc[t].reg] = "live"
    BY <2>1 DEF IInv, LocalsMatch, OneOwner, Exposing
  <2>4. Kept(pc[t], loc[t])'
    BY <1>0, <1>h, <2>1, <2>3
    DEF Calm, Kept, Changing, Closing, Releasing, Cleared, Adopting, Replaces, runtimeVars
  <2>. QED  BY <2>2, <2>4
<1>13. ASSUME ExposeRemember(t) PROVE Goal
  <2>1. /\ pc[t] = "remember" /\ UNCHANGED <<runtimeVars, mutex, stored, fn, alive>>
        /\ loc'[t] = loc[t] \/ pc'[t] = "idle"
        /\ pc'[t] \in {"destroy", "idle"} /\ (pc'[t] = "destroy" => UNCHANGED registry)
    BY <1>0, <1>13 DEF ExposeRemember, Goto, Move
  <2>2. Calm(pc[t], loc[t])'
    BY <1>0, <1>h, <2>1 DEF Calm, Changing, Releasing, Cleared, Adopting, Spares, runtimeVars
  <2>3. Kept(pc[t], loc[t])'
    BY <1>0, <1>h, <2>1
    DEF Calm, Kept, Changing, Closing, Releasing, Cleared, Adopting, Replaces, runtimeVars
  <2>. QED  BY <2>2, <2>3
<1>14. ASSUME ExposeDestroy(t) PROVE Goal
  <2>1. /\ pc[t] = "destroy" /\ pc'[t] = "idle"
    BY <1>0, <1>14 DEF ExposeDestroy, Goto, Move, Locals
  <2>2. Calm(pc[t], loc[t])'
    BY <1>0, <1>h, <1>14, <2>1
    DEF ExposeDestroy, Calm, Changing, Releasing, Cleared, Adopting, Spares, runtimeVars,
        hostVars
  <2>3. Kept(pc[t], loc[t])'
    BY <1>0, <1>h, <1>14, <2>1
    DEF ExposeDestroy, Calm, Kept, Changing, Closing, Releasing, Cleared, Adopting, Replaces,
        runtimeVars, hostVars
  <2>. QED  BY <2>2, <2>3
<1>15. ASSUME JSCall(t) PROVE Goal
  <2>0. PICK r \in Regs : fn[r] \in alive /\ Move(t, "idle", "call", [loc[t] EXCEPT !.reg = r])
    BY <1>15 DEF JSCall
  <2>1. pc[t] = "idle" /\ pc'[t] = "call" /\ loc'[t].reg = r
    BY <1>0, <2>0 DEF Move, Locals
  <2>2. Calm(pc[t], loc[t])'
    BY <1>0, <1>h, <1>15, <2>1
    DEF JSCall, Calm, Changing, Releasing, Cleared, Adopting, Spares, runtimeVars, hostVars
  <2>3. Kept(pc[t], loc[t])'
    BY <1>0, <1>h, <1>15, <2>0, <2>1
    DEF JSCall, Calm, Kept, Changing, Closing, Releasing, Cleared, Adopting, Replaces, runtimeVars,
        hostVars
  <2>. QED  BY <2>2, <2>3
<1>16. ASSUME CallDeref(t) PROVE Goal
  <2>1. /\ pc[t] = "call" /\ pc'[t] = "idle"
    BY <1>0, <1>16 DEF CallDeref, Goto, Move, Locals
  <2>2. Calm(pc[t], loc[t])'
    BY <1>0, <1>h, <1>16, <2>1
    DEF CallDeref, Calm, Changing, Releasing, Cleared, Adopting, Spares, runtimeVars, hostVars
  <2>3. Kept(pc[t], loc[t])'
    BY <1>0, <1>h, <1>16, <2>1
    DEF CallDeref, Calm, Kept, Changing, Closing, Releasing, Cleared, Adopting, Replaces,
        runtimeVars, hostVars
  <2>. QED  BY <2>2, <2>3
<1>17. ASSUME BeginReset(t) PROVE Goal
  <2>1. /\ pc[t] = "idle" /\ pc'[t] = "lock"
        /\ pc'[t] # "idle" => loc'[t].then = "idle"
    BY <1>0, <1>17 DEF BeginReset, Goto, Move, Locals
  <2>2. Calm(pc[t], loc[t])'
    BY <1>0, <1>h, <1>17, <2>1
    DEF BeginReset, Calm, Changing, Releasing, Cleared, Adopting, Spares, runtimeVars,
        hostVars
  <2>3. Kept(pc[t], loc[t])'
    BY <1>0, <1>h, <1>17, <2>1
    DEF BeginReset, Calm, Kept, Changing, Closing, Releasing, Cleared, Adopting, Replaces,
        runtimeVars, hostVars
  <2>. QED  BY <2>2, <2>3
<1>18. ASSUME ResetLock(t) PROVE Goal
  <2>1. /\ pc[t] = "lock" /\ pc'[t] = "free"
        /\ pc'[t] # "idle" => loc'[t].then = loc[t].then
    BY <1>0, <1>18 DEF ResetLock, Goto, Move, Locals
  <2>2. Calm(pc[t], loc[t])'
    BY <1>0, <1>h, <1>18, <2>1
    DEF ResetLock, Calm, Changing, Releasing, Cleared, Adopting, Spares, runtimeVars, hostVars
  <2>3. Kept(pc[t], loc[t])'
    BY <1>0, <1>h, <1>18, <2>1
    DEF ResetLock, Calm, Kept, Changing, Closing, Releasing, Cleared, Adopting, Replaces,
        runtimeVars, hostVars
  <2>. QED  BY <2>2, <2>3
<1>19. ASSUME ResetFree(t) PROVE Goal
  <2>1. /\ pc[t] = "free" /\ pc'[t] = "free" /\ loc'[t].then = loc[t].then
        /\ UNCHANGED <<runtimeVars, registry, mutex, fn, alive>>
        /\ \E r \in registry : stored' = [stored EXCEPT ![r] = "freed"]
    <3>1. PICK r \in loc[t].left :
            /\ Move(t, "free", "free", [loc[t] EXCEPT !.left = loc[t].left \ {r}])
            /\ stored' = [stored EXCEPT ![r] = "freed"]
      BY <1>19 DEF ResetFree
    <3>2. r \in registry
      BY <1>0, <1>19 DEF IInv, LocalsMatch, ResetFree, Move
    <3>3. pc[t] = "free" /\ pc'[t] = "free"
      BY <1>0, <3>1 DEF Move
    <3>4. loc'[t] = [loc[t] EXCEPT !.left = loc[t].left \ {r}]
      BY <1>0, <3>1 DEF Move
    <3>5. loc'[t].then = loc[t].then
      BY <1>0, <3>4 DEF Locals
    <3>. QED  BY <1>19, <3>1, <3>2, <3>3, <3>5 DEF ResetFree
  <2>2. Calm(pc[t], loc[t])'
    BY <1>0, <1>h, <2>1 DEF Calm, Changing, Releasing, Cleared, Adopting, Spares, runtimeVars
  <2>3. Kept(pc[t], loc[t])'
    BY <1>0, <1>h, <2>1
    DEF Calm, Kept, Changing, Closing, Releasing, Cleared, Adopting, Replaces, runtimeVars
  <2>. QED  BY <2>2, <2>3
<1>20. ASSUME ResetUnlock(t) PROVE Goal
  <2>1. /\ pc[t] = "free" /\ pc'[t] = loc[t].then
    BY <1>0, <1>20 DEF ResetUnlock, Goto, Move, Locals
  <2>2. Calm(pc[t], loc[t])'
    BY <1>0, <1>h, <1>20, <2>1
    DEF ResetUnlock, Calm, Changing, Releasing, Cleared, Adopting, Spares, runtimeVars,
        hostVars
  <2>3. Kept(pc[t], loc[t])'
    BY <1>0, <1>h, <1>20, <2>1
    DEF ResetUnlock, Calm, Kept, Changing, Closing, Releasing, Cleared, Adopting, Replaces,
        runtimeVars, hostVars
  <2>. QED  BY <2>2, <2>3
<1>21. ASSUME BeginShutdown(t) PROVE Goal
  <2>1. /\ pc[t] = "idle" /\ pc'[t] = "lock"
        /\ pc'[t] # "idle" => loc'[t].then = "swap"
    BY <1>0, <1>21 DEF BeginShutdown, Goto, Move, Locals
  <2>2. Calm(pc[t], loc[t])'
    BY <1>0, <1>h, <1>21, <2>1
    DEF BeginShutdown, Calm, Changing, Releasing, Cleared, Adopting, Spares, runtimeVars,
        hostVars
  <2>3. Kept(pc[t], loc[t])'
    BY <1>0, <1>h, <1>21, <2>1
    DEF BeginShutdown, Calm, Kept, Changing, Closing, Releasing, Cleared, Adopting, Replaces,
        runtimeVars, hostVars
  <2>. QED  BY <2>2, <2>3
<1>22. ASSUME BeginRuntimeShutdown(t) PROVE Goal
  <2>1. /\ pc[t] = "idle" /\ pc'[t] = "swap"
    BY <1>0, <1>22 DEF BeginRuntimeShutdown, Goto, Move, Locals
  <2>2. Calm(pc[t], loc[t])'
    BY <1>0, <1>h, <1>22, <2>1
    DEF BeginRuntimeShutdown, Calm, Changing, Releasing, Cleared, Adopting, Spares,
        runtimeVars, hostVars
  <2>3. Kept(pc[t], loc[t])'
    BY <1>0, <1>h, <1>22, <2>1
    DEF BeginRuntimeShutdown, Calm, Kept, Changing, Closing, Releasing, Cleared, Adopting,
        Replaces, runtimeVars, hostVars
  <2>. QED  BY <2>2, <2>3
<1>23. ASSUME BeginResetForTesting(t) PROVE Goal
  <2>1. /\ pc[t] = "idle" /\ pc'[t] = "rel_vm"
        /\ pc'[t] # "idle" => loc'[t].then = "store"
    BY <1>0, <1>23 DEF BeginResetForTesting, Goto, Move, Locals
  <2>2. Calm(pc[t], loc[t])'
    BY <1>0, <1>h, <1>23, <2>1
    DEF BeginResetForTesting, Calm, Changing, Releasing, Cleared, Adopting, Spares,
        runtimeVars, hostVars
  <2>3. Kept(pc[t], loc[t])'
    BY <1>0, <1>h, <1>23, <2>1
    DEF BeginResetForTesting, Calm, Kept, Changing, Closing, Releasing, Cleared, Adopting,
        Replaces, runtimeVars, hostVars
  <2>. QED  BY <2>2, <2>3
<1>24. ASSUME ShutdownSwap(t) PROVE Goal
  <2>1. /\ pc[t] = "swap" /\ pc'[t] = (IF initialized THEN "rel_vm" ELSE "idle")
        /\ pc'[t] # "idle" => loc'[t].then = "clear"
    BY <1>0, <1>24 DEF ShutdownSwap, Goto, Move, Locals
  <2>2. Calm(pc[t], loc[t])'
    BY <1>0, <1>h, <1>24, <2>1
    DEF ShutdownSwap, Calm, Changing, Releasing, Cleared, Adopting, Spares, runtimeVars,
        hostVars
  <2>3. Kept(pc[t], loc[t])'
    BY <1>0, <1>h, <1>24, <2>1
    DEF ShutdownSwap, Calm, Kept, Changing, Closing, Releasing, Cleared, Adopting, Replaces,
        runtimeVars, hostVars
  <2>. QED  BY <2>2, <2>3
<1>25. ASSUME ReleaseVm(t) PROVE Goal
  <2>1. /\ pc[t] = "rel_vm" /\ pc'[t] = (IF vm = NoVM THEN "rel_clear" ELSE "rel_global")
        /\ pc'[t] # "idle" => loc'[t].vm = vm /\ loc'[t].then = loc[t].then
    BY <1>0, <1>25 DEF ReleaseVm, Goto, Move, Locals
  <2>2. Calm(pc[t], loc[t])'
    BY <1>0, <1>h, <1>25, <2>1
    DEF ReleaseVm, Calm, Changing, Releasing, Cleared, Adopting, Spares, runtimeVars, hostVars
  <2>3. Kept(pc[t], loc[t])'
    BY <1>0, <1>h, <1>25, <2>1
    DEF ReleaseVm, Calm, Kept, Changing, Closing, Releasing, Cleared, Adopting, Replaces,
        runtimeVars, hostVars
  <2>. QED  BY <2>2, <2>3
<1>26. ASSUME ReleaseGlobal(t) PROVE Goal
  <2>1. /\ pc[t] = "rel_global"
        /\ pc'[t] = (IF global = NoVM THEN "rel_clear" ELSE "rel_null_global")
        /\ pc'[t] # "idle" => loc'[t].vm = loc[t].vm /\ loc'[t].then = loc[t].then
    BY <1>0, <1>26 DEF ReleaseGlobal, Goto, Move, Locals
  <2>2. Calm(pc[t], loc[t])'
    BY <1>0, <1>h, <1>26, <2>1
    DEF ReleaseGlobal, Calm, Changing, Releasing, Cleared, Adopting, Spares, runtimeVars,
        hostVars
  <2>3. Kept(pc[t], loc[t])'
    BY <1>0, <1>h, <1>26, <2>1
    DEF ReleaseGlobal, Calm, Kept, Changing, Closing, Releasing, Cleared, Adopting, Replaces,
        runtimeVars, hostVars
  <2>. QED  BY <2>2, <2>3
<1>27. ASSUME ReleaseClear(t) PROVE Goal
  <2>1. /\ pc[t] = "rel_clear" /\ pc'[t] = (IF loc[t].vm = NoVM THEN loc[t].then ELSE "rel_null_vm")
        /\ pc'[t] # "idle" => loc'[t].then = loc[t].then
    BY <1>0, <1>27 DEF ReleaseClear, Goto, Move, Locals
  <2>2. Calm(pc[t], loc[t])'
    BY <1>0, <1>h, <1>27, <2>1
    DEF ReleaseClear, Calm, Changing, Releasing, Cleared, Adopting, Spares, runtimeVars,
        hostVars
  <2>3. Kept(pc[t], loc[t])'
    BY <1>0, <1>h, <1>27, <2>1
    DEF ReleaseClear, Calm, Kept, Changing, Closing, Releasing, Cleared, Adopting, Replaces,
        runtimeVars, hostVars
  <2>. QED  BY <2>2, <2>3
<1>28. ASSUME ReleaseNullGlobal(t) PROVE Goal
  <2>1. /\ pc[t] = "rel_null_global" /\ pc'[t] = "rel_owned"
        /\ pc'[t] # "idle" => loc'[t].vm = loc[t].vm /\ loc'[t].then = loc[t].then
    BY <1>0, <1>28 DEF ReleaseNullGlobal, Goto, Move, Locals
  <2>2. Calm(pc[t], loc[t])'
    BY <1>0, <1>h, <1>28, <2>1
    DEF ReleaseNullGlobal, Calm, Changing, Releasing, Cleared, Adopting, Spares, runtimeVars,
        hostVars
  <2>3. Kept(pc[t], loc[t])'
    BY <1>0, <1>h, <1>28, <2>1
    DEF ReleaseNullGlobal, Calm, Kept, Changing, Closing, Releasing, Cleared, Adopting,
        Replaces, runtimeVars, hostVars
  <2>. QED  BY <2>2, <2>3
<1>29. ASSUME ReleaseOwned(t) PROVE Goal
  <2>1. /\ pc[t] = "rel_owned" /\ pc'[t] = "rel_null_owns"
        /\ pc'[t] # "idle" => /\ loc'[t].vm = loc[t].vm /\ loc'[t].then = loc[t].then
                              /\ loc'[t].owned = owns_vm
    BY <1>0, <1>29 DEF ReleaseOwned, Goto, Move, Locals
  <2>2. Calm(pc[t], loc[t])'
    BY <1>0, <1>h, <1>29, <2>1
    DEF ReleaseOwned, Calm, Changing, Releasing, Cleared, Adopting, Spares, runtimeVars,
        hostVars
  <2>3. Kept(pc[t], loc[t])'
    BY <1>0, <1>h, <1>29, <2>1
    DEF ReleaseOwned, Calm, Kept, Changing, Closing, Releasing, Cleared, Adopting, Replaces,
        runtimeVars, hostVars
  <2>. QED  BY <2>2, <2>3
<1>30. ASSUME ReleaseNullOwns(t) PROVE Goal
  <2>1. /\ pc[t] = "rel_null_owns"
        /\ pc'[t] = (IF loc[t].owned THEN "rel_deinit" ELSE "rel_null_vm")
        /\ pc'[t] # "idle" => loc'[t].vm = loc[t].vm /\ loc'[t].then = loc[t].then
    BY <1>0, <1>30 DEF ReleaseNullOwns, Goto, Move, Locals
  <2>2. Calm(pc[t], loc[t])'
    BY <1>0, <1>h, <1>30, <2>1
    DEF ReleaseNullOwns, Calm, Changing, Releasing, Cleared, Adopting, Spares, runtimeVars,
        hostVars
  <2>3. Kept(pc[t], loc[t])'
    BY <1>0, <1>h, <1>30, <2>1
    DEF ReleaseNullOwns, Calm, Kept, Changing, Closing, Releasing, Cleared, Adopting,
        Replaces, runtimeVars, hostVars
  <2>. QED  BY <2>2, <2>3
<1>31. ASSUME ReleaseDeinit(t) PROVE Goal
  <2>1. /\ pc[t] = "rel_deinit" /\ pc'[t] = "rel_null_vm"
        /\ pc'[t] # "idle" => loc'[t].then = loc[t].then
    BY <1>0, <1>31 DEF ReleaseDeinit, Goto, Move, Locals
  <2>2. Calm(pc[t], loc[t])'
    BY <1>0, <1>h, <1>31, <2>1
    DEF ReleaseDeinit, Calm, Changing, Releasing, Cleared, Adopting, Spares, runtimeVars,
        hostVars
  <2>3. Kept(pc[t], loc[t])'
    BY <1>0, <1>h, <1>31, <2>1
    DEF ReleaseDeinit, Calm, Kept, Changing, Closing, Releasing, Cleared, Adopting, Replaces,
        runtimeVars, hostVars
  <2>. QED  BY <2>2, <2>3
<1>32. ASSUME ReleaseNullVm(t) PROVE Goal
  <2>1. /\ pc[t] = "rel_null_vm" /\ pc'[t] = loc[t].then /\ vm' = NoVM
        /\ pc'[t] # "idle" => loc'[t].then = loc[t].then
        /\ UNCHANGED <<initialized, global, owns_vm, hostVars, given, alive>>
    BY <1>0, <1>32 DEF ReleaseNullVm, Goto, Move, Locals
  <2>2. pc'[t] \in {"store", "clear"}
    BY <1>0, <2>1 DEF Calm, Releasing, Cleared
  <2>3. Calm(pc[t], loc[t])'
    <3>1. /\ global = NoVM /\ ~owns_vm
          /\ spared' = spared
      BY <1>0, <1>h, <2>1 DEF Calm, Changing, Spares
    <3>. QED
      BY <1>0, <2>1, <2>2, <3>1 DEF Calm, Changing, Releasing, Cleared, Adopting, hostVars
  <2>4. /\ vm \notin given /\ dropped' = dropped
        /\ \A r \in Regs : fn[r] = vm => r \in orphans'
    BY <1>0, <1>h, <2>1 DEF Replaces, Kept
  <2>5. /\ given \ dropped = {}
        /\ \A r \in Regs : fn[r] \in alive => r \in orphans \/ fn[r] = vm
    BY <1>0, <2>4 DEF Kept
  <2>6. /\ given' \ dropped' = {} /\ vm' \notin dropped'
        /\ \A r \in Regs : fn'[r] \in alive' => r \in orphans'
    BY <1>0, <1>h, <2>1, <2>4, <2>5 DEF hostVars
  <2>7. Kept(pc[t], loc[t])'
    BY <2>2, <2>6 DEF Kept
  <2>. QED  BY <2>3, <2>7
<1>33. ASSUME StoreFalse(t) PROVE Goal
  <2>1. /\ pc[t] = "store" /\ pc'[t] = "clear"
    BY <1>0, <1>33 DEF StoreFalse, Goto, Move, Locals
  <2>2. Calm(pc[t], loc[t])'
    BY <1>0, <1>h, <1>33, <2>1
    DEF StoreFalse, Calm, Changing, Releasing, Cleared, Adopting, Spares, runtimeVars,
        hostVars
  <2>3. Kept(pc[t], loc[t])'
    BY <1>0, <1>h, <1>33, <2>1
    DEF StoreFalse, Calm, Kept, Changing, Closing, Releasing, Cleared, Adopting, Replaces,
        runtimeVars, hostVars
  <2>. QED  BY <2>2, <2>3
<1>34. ASSUME ClearState(t) PROVE Goal
  <2>1. /\ pc[t] = "clear" /\ pc'[t] = "clear_backend"
    BY <1>0, <1>34 DEF ClearState, Goto, Move, Locals
  <2>2. Calm(pc[t], loc[t])'
    BY <1>0, <1>h, <1>34, <2>1
    DEF ClearState, Calm, Changing, Releasing, Cleared, Adopting, Spares, runtimeVars,
        hostVars
  <2>3. Kept(pc[t], loc[t])'
    BY <1>0, <1>h, <1>34, <2>1
    DEF ClearState, Calm, Kept, Changing, Closing, Releasing, Cleared, Adopting, Replaces,
        runtimeVars, hostVars
  <2>. QED  BY <2>2, <2>3
<1>35. ASSUME ClearBackend(t) PROVE Goal
  <2>1. /\ pc[t] = "clear_backend" /\ pc'[t] = "idle"
    BY <1>0, <1>35 DEF ClearBackend, Goto, Move, Locals
  <2>2. Calm(pc[t], loc[t])'
    BY <1>0, <1>h, <1>35, <2>1
    DEF ClearBackend, Calm, Changing, Releasing, Cleared, Adopting, Spares, runtimeVars,
        hostVars
  <2>3. Kept(pc[t], loc[t])'
    BY <1>0, <1>h, <1>35, <2>1
    DEF ClearBackend, Calm, Kept, Changing, Closing, Releasing, Cleared, Adopting, Replaces,
        runtimeVars, hostVars
  <2>. QED  BY <2>2, <2>3
<1>36. ASSUME NEW b \in Backends, ConfigureEval(t, b) PROVE Goal
  BY <1>0, <1>h, <1>36
  DEF ConfigureEval, Calm, Kept, Changing, Closing, Releasing, Cleared, Adopting, Replaces,
      Spares, hostVars
<1>37. ASSUME BeginEval(t) PROVE Goal
  <2>1. /\ pc[t] = "idle" /\ pc'[t] = "flag"
        /\ pc'[t] # "idle" => loc'[t].then = "handler"
    BY <1>0, <1>37 DEF BeginEval, Goto, Move, Locals
  <2>2. Calm(pc[t], loc[t])'
    BY <1>0, <1>h, <1>37, <2>1
    DEF BeginEval, Calm, Changing, Releasing, Cleared, Adopting, Spares, runtimeVars, hostVars
  <2>3. Kept(pc[t], loc[t])'
    BY <1>0, <1>h, <1>37, <2>1
    DEF BeginEval, Calm, Kept, Changing, Closing, Releasing, Cleared, Adopting, Replaces,
        runtimeVars, hostVars
  <2>. QED  BY <2>2, <2>3
<1>38. ASSUME EvalHandler(t) PROVE Goal
  <2>1. /\ pc[t] = "handler" /\ pc'[t] = "idle"
    BY <1>0, <1>38 DEF EvalHandler, Goto, Move, Locals
  <2>2. Calm(pc[t], loc[t])'
    BY <1>0, <1>h, <1>38, <2>1
    DEF EvalHandler, Calm, Changing, Releasing, Cleared, Adopting, Spares, runtimeVars,
        hostVars
  <2>3. Kept(pc[t], loc[t])'
    BY <1>0, <1>h, <1>38, <2>1
    DEF EvalHandler, Calm, Kept, Changing, Closing, Releasing, Cleared, Adopting, Replaces,
        runtimeVars, hostVars
  <2>. QED  BY <2>2, <2>3
<1>39. ASSUME EvalReturn(t) PROVE Goal
  <2>1. pc[t] = "idle" /\ pc'[t] = "idle" /\ UNCHANGED <<runtimeVars, hostVars, alive>>
    BY <1>39 DEF EvalReturn
  <2>2. Calm(pc[t], loc[t])'
    BY <1>0, <1>h, <2>1
    DEF Calm, Changing, Releasing, Cleared, Adopting, Spares, runtimeVars, hostVars
  <2>3. Kept(pc[t], loc[t])'
    BY <1>0, <1>h, <2>1
    DEF Calm, Kept, Changing, Closing, Releasing, Cleared, Adopting, Replaces, runtimeVars,
        hostVars
  <2>. QED  BY <2>2, <2>3
<1>. QED
  BY <1>1, <1>2, <1>3, <1>4, <1>5, <1>6, <1>7, <1>8, <1>9, <1>10, <1>11, <1>12, <1>13,
     <1>14, <1>15, <1>16, <1>17, <1>18, <1>19, <1>20, <1>21, <1>22, <1>23, <1>24, <1>25, <1>26,
     <1>27, <1>28, <1>29, <1>30, <1>31, <1>32, <1>33, <1>34, <1>35, <1>36, <1>37, <1>38, <1>39
  DEF Begin, Step, Alone

\* `Alone' says nothing of the locals of a thread that is not in the bridge.
LEMMA IdleAnyLocals ==
  ASSUME NEW l, NEW m, Alone("idle", l)
  PROVE  Alone("idle", m)
BY DEF Alone, Calm, Kept, Releasing, Cleared, Adopting, Changing, Closing

UInv == IInv /\ HistInv /\ AloneInv

LEMMA UseInductive == UInv /\ [\E t \in Threads : Use(t)]_<<vars, histVars>> => UInv'
<1>. SUFFICES ASSUME UInv, [\E t \in Threads : Use(t)]_<<vars, histVars>> PROVE UInv'
  OBVIOUS
<1>1. ASSUME NEW t \in Threads, Use(t) PROVE UInv'
  <2>1. (Begin(t) \/ Step(t)) /\ Record(t)
    BY <1>1 DEF Use
  <2>2. IInv'
    BY <2>1, InductiveStep DEF UInv, Next
  <2>3. \A u \in Threads \ {t} : pc'[u] = pc[u] /\ loc'[u] = loc[u]
    BY <2>1, OnlyMover DEF UInv, IInv, TypeOK
  <2>4. HistInv'
    BY <2>1 DEF UInv, HistInv, Record, Orphaned, Replaces
  <2>5. ~raced' => ~raced /\ ~Races(t)
    BY <2>1 DEF Record
  <2>6. ASSUME ~raced'
        PROVE  (\A u \in Threads \ {t} : pc'[u] = "idle") /\ Alone(pc[t], loc[t])'
    <3>1. \A u \in Threads \ {t} : pc[u] = "idle"
      BY <2>5, <2>6 DEF Races
    <3>2. Alone(pc[t], loc[t])
      <4>1. CASE pc[t] = "idle"
        <5>1. Alone("idle", NoLocals)
          BY <2>5, <2>6, <3>1, <4>1 DEF UInv, AloneInv, Quiet
        <5>. QED  BY <4>1, <5>1, IdleAnyLocals
      <4>2. CASE pc[t] # "idle"  BY <2>5, <2>6, <4>2 DEF UInv, AloneInv
      <4>. QED  BY <4>1, <4>2
    <3>. QED  BY <2>1, <2>3, <2>5, <2>6, <3>1, <3>2, UseStep DEF UInv
  <2>7. AloneInv'
    <3>. SUFFICES ASSUME ~raced'
                  PROVE  /\ OneInside'
                         /\ \A u \in Threads : pc'[u] # "idle" => Alone(pc[u], loc[u])'
                         /\ Quiet' => Alone("idle", NoLocals)'
      BY DEF AloneInv
    <3>1. OneInside' /\ \A u \in Threads : pc'[u] # "idle" => Alone(pc[u], loc[u])'
      BY <2>6 DEF OneInside
    <3>2. ASSUME Quiet' PROVE Alone("idle", NoLocals)'
      <4>1. pc'[t] = "idle" /\ Alone(pc[t], loc[t])'
        BY <2>6, <3>2 DEF Quiet
      <4>. QED
        BY <4>1 DEF Alone, Calm, Kept, Releasing, Cleared, Adopting, Changing, Closing
    <3>. QED  BY <3>1, <3>2
  <2>. QED  BY <2>2, <2>4, <2>7 DEF UInv
<1>2. CASE UNCHANGED <<vars, histVars>>
  <2>1. IInv'
    BY <1>2, InductiveStep DEF UInv, vars
  <2>2. HistInv' /\ AloneInv'
    BY <1>2
    DEF UInv, HistInv, AloneInv, OneInside, Quiet, Alone, Calm, Kept, Changing, Closing,
        Releasing, Cleared, Adopting, vars, histVars, runtimeVars, hostVars
  <2>. QED  BY <2>1, <2>2 DEF UInv
<1>. QED  BY <1>1, <1>2

LEMMA UseAlways == UseSpec => []UInv
<1>1. UseInit => UInv
  <2>. SUFFICES ASSUME UseInit PROVE UInv
    OBVIOUS
  <2>1. Init /\ IInv /\ ~raced /\ orphans = {} /\ dropped = {} /\ spared = {}
    BY InitTyped DEF UseInit
  <2>2. Alone("idle", NoLocals)
    BY <2>1, BridgeAssumption
    DEF Init, Alone, Calm, Kept, Releasing, Cleared, Adopting, Changing, Closing
  <2>3. \A t \in Threads : pc[t] = "idle"
    BY <2>1 DEF Init
  <2>4. HistInv
    BY <2>1 DEF UseInit, HistInv
  <2>. QED  BY <2>1, <2>2, <2>3, <2>4 DEF UInv, AloneInv, OneInside
<1>. QED  BY <1>1, UseInductive, PTL DEF UseSpec

\* An embedder that is inside the bridge from one thread at a time, whatever entry points it
\* calls, from scripts too, and whatever fails, shuts it down to nothing but the
\* registrations that a way down other than api.shutdown passed by; and no VM is
\* deinitialised twice or without being owned.
THEOREM ShutdownUnwinds == UseSpec => []SafeShutdown
<1>1. UInv => SafeShutdown
  <2>. SUFFICES ASSUME UInv, ~raced
                PROVE  /\ DeinitOwned
                       /\ Quiet /\ ~initialized => /\ registry \subseteq spared
                                                   /\ vm = NoVM /\ global = NoVM /\ ~owns_vm
    BY DEF SafeShutdown
  <2>1. ASSUME Quiet, ~initialized
        PROVE  registry \subseteq spared /\ vm = NoVM /\ global = NoVM /\ ~owns_vm
    BY <2>1 DEF UInv, AloneInv, Alone, Calm, Releasing
  <2>2. DeinitOwned
    <3>. SUFFICES ASSUME NEW t \in Threads, pc[t] = "rel_deinit"
                  PROVE  loc[t].vm \in alive /\ loc[t].vm \in given
      BY DEF DeinitOwned
    <3>1. Calm("rel_deinit", loc[t])
      BY DEF UInv, AloneInv, Alone
    <3>. QED  BY <3>1 DEF Calm
  <2>. QED  BY <2>1, <2>2
<1>. QED  BY <1>1, UseAlways, PTL

\* Whatever entry points one thread calls and whatever fails, a call follows a freed
\* registration only if the embedder's VM outlived the bridge, the embedder replaced the VM,
\* reset the registry by itself, or append had failed.
THEOREM CallsFollowKept == UseSpec => []OnlyOrphansDangle
<1>1. UInv => OnlyOrphansDangle
  <2>. SUFFICES ASSUME UInv, ~raced, NEW t \in Threads, pc[t] = "call",
                       stored[loc[t].reg] # "live"
                PROVE  loc[t].reg \in orphans
    BY DEF OnlyOrphansDangle
  <2>1. Kept("call", loc[t])
    BY DEF UInv, AloneInv, Alone
  <2>. QED  BY <2>1 DEF Kept, Closing, Releasing
<1>. QED  BY <1>1, UseAlways, PTL

\* Whatever entry points one thread calls, in whatever order, the bridge holds every VM
\* handed over to it until it is deinitialised or replaced.
THEOREM OwnedNotLost == UseSpec => []OwnedVmKept
<1>1. UInv => OwnedVmKept
  <2>. SUFFICES ASSUME UInv, ~raced, Quiet, NEW v \in given \ dropped
                PROVE  vm = v /\ owns_vm
    BY DEF OwnedVmKept
  <2>1. Kept("idle", NoLocals)
    BY DEF UInv, AloneInv, Alone
  <2>. QED  BY <2>1 DEF Kept
<1>. QED  BY <1>1, UseAlways, PTL
=============================================================================
