------------------------------ MODULE MCBridge ------------------------------
(***************************************************************************)
(* Instances of Bridge for TLC: which entry points the embedder uses, from *)
(* how many threads, with which handles.                                   *)
(***************************************************************************)
EXTENDS Bridge, TLC

CONSTANTS v1, v2, r1, r2, b1

MCTwoVMs == {v1, v2}
MCTwoRegs == {r1, r2}
MCBackends == {b1}

\* Embedders that hand over any handles, and that always keep the VM.
AnyHandles == [vm : VMs, owns : BOOLEAN]
ForeignHandles == [vm : VMs, owns : {FALSE}]

\* The public API as bridge/README.md describes it.
PublicOps == {"init", "adopt", "expose", "call", "shutdown", "eval", "configureEval"}
\* The same without adoptHandles: handles come with init only.
ConfiguredOps == PublicOps \ {"adopt"}
\* All entry points, the test helpers too.
AllOps == PublicOps \cup {"reset", "runtimeShutdown", "resetForTesting"}

\* Threads and registrations are interchangeable.
Interchangeable == Permutations(Threads) \cup Permutations(Regs)
=============================================================================
