------------------------------ MODULE Profiler ------------------------------
(***************************************************************************)
(* The sampling profiler as src/src/bun.js/modules/BunJSCModule.h uses it: *)
(* profile(), startSamplingProfiler() and samplingProfilerStackTraces() of *)
(* bun:jsc share the one SamplingProfiler of the VM, whose thread takes    *)
(* samples whenever it is on, in the middle of a report too.  A call of    *)
(* profile() may contain others, and one whose function returned a promise *)
(* stays open until the promise settles.  The engine's profiler is         *)
(* external; its timing interval only sets how often it samples.           *)
(***************************************************************************)
EXTENDS Naturals, Sequences

CONSTANTS Calls,      \* the calls of profile()
          MaxSamples  \* bound: samples taken

ASSUME ProfilerAssumption == MaxSamples \in Nat

VARIABLES exists,   \* ensureSamplingProfiler has been called
          on,       \* it samples
          data,     \* the samples it holds
          path,     \* Options::samplingProfilerPath, for the report at exit
          stack,    \* the calls inside profiledCall, innermost last
          phase,    \* where each call is
          result,   \* what each call has reported
          last,     \* history: the last sample taken
          own,      \* history: the samples taken while each call's function ran
          shared,   \* history: the calls that had not the profiler to themselves
          left      \* history: it was left on, by startSamplingProfiler or an exception

history == <<last, own, shared, left>>
vars == <<exists, on, data, path, stack, phase, result, history>>

(***************************************************************************)
(* new; called: inside profiledCall; pending: its promise has not settled; *)
(* functions, bytecodes, traces, stop: the steps of `report`; reported;    *)
(* failed; given_up: an exception of the engine has ended it with the      *)
(* profiler on.                                                            *)
(***************************************************************************)
Steps == {"functions", "bytecodes", "traces", "stop"}
Phases == Steps \cup {"new", "called", "pending", "reported", "failed", "given_up"}
Samples == 1..MaxSamples
Nothing == [functions |-> {}, bytecodes |-> {}, stackTraces |-> {}]

Init == /\ exists = FALSE /\ on = FALSE /\ data = {} /\ path = "unset"
        /\ stack = <<>>
        /\ phase = [c \in Calls |-> "new"]
        /\ result = [c \in Calls |-> Nothing]
        /\ last = 0 /\ own = [c \in Calls |-> {}] /\ shared = {} /\ left = FALSE

In(c, p) == phase[c] = p
Goto(c, from, to) == In(c, from) /\ phase' = [phase EXCEPT ![c] = to]
Open == {c \in Calls : phase[c] \in Steps \cup {"called", "pending"}}
Reporting == \E c \in Calls : phase[c] \in Steps

\* The external profiler: start, then samples; shutdown; clearData.
Sample == /\ on /\ last < MaxSamples
          /\ last' = last + 1
          /\ data' = data \cup {last + 1}
          /\ own' = [c \in Calls |-> IF phase[c] \in {"called", "pending"}
                                     THEN own[c] \cup {last + 1} ELSE own[c]]
          /\ UNCHANGED <<exists, on, path, stack, phase, result, shared, left>>

-----------------------------------------------------------------------------
\* functionStartSamplingProfiler: with a directory, mkdirp may fail after the
\* profiler was made.  The option then points into a CString that dies with the
\* block.
StartSamplingProfiler ==
  /\ ~Reporting
  /\ exists' = TRUE
  /\ \/ UNCHANGED <<on, path, shared, left>>
     \/ /\ on' = TRUE
        /\ path' \in {path, "dangling"}
        /\ shared' = shared \cup Open
        /\ left' = TRUE
  /\ UNCHANGED <<data, stack, phase, result, last, own>>

\* functionSamplingProfilerStackTraces takes the samples and leaves it on; it
\* throws if there is no profiler.
SamplingProfilerStackTraces ==
  /\ ~Reporting
  /\ exists
  /\ data' = {}
  /\ shared' = shared \cup Open
  /\ UNCHANGED <<exists, on, path, stack, phase, result, last, own, left>>

-----------------------------------------------------------------------------
\* functionRunProfiler makes the profiler before it looks at its arguments.
RunNotCallable(c) == /\ ~Reporting
                     /\ Goto(c, "new", "failed")
                     /\ exists' = TRUE
                     /\ UNCHANGED <<on, data, path, stack, result, history>>

RunUnmade(c) ==  \* mutant: vm.samplingProfiler() in place of ensureSamplingProfiler
  /\ ~Reporting /\ Goto(c, "new", "called") /\ on' = TRUE
  /\ stack' = Append(stack, c)
  /\ shared' = IF ~on /\ Open = {} THEN shared ELSE shared \cup Open \cup {c}
  /\ UNCHANGED <<exists, data, path, result, last, own, left>>

RunProfiler(c) == /\ ~Reporting
                  /\ Goto(c, "new", "called")
                  /\ exists' = TRUE
                  /\ on' = TRUE
                  /\ stack' = Append(stack, c)
                  /\ shared' = IF ~on /\ Open = {} THEN shared ELSE shared \cup Open \cup {c}
                  /\ UNCHANGED <<data, path, result, last, own, left>>

FailureKeepsData(c) ==  \* mutant: the samples of a failed call stay
  on' = FALSE /\ left' = FALSE /\ UNCHANGED data

\* reportFailure: pause, shutdown, clearData.
ReportFailure(c) == on' = FALSE /\ left' = FALSE /\ data' = {}

Returning(c) == /\ ~Reporting
                /\ stack # <<>> /\ stack[Len(stack)] = c
                /\ stack' = SubSeq(stack, 1, Len(stack) - 1)

\* profiledCall has returned a value, has thrown, or has returned a promise, for
\* which an allocation may fail before a reaction is attached.
CallReturned(c) == /\ Returning(c)
                   /\ Goto(c, "called", "functions")
                   /\ UNCHANGED <<exists, on, data, path, result, history>>

CallThrew(c) == /\ Returning(c)
                /\ Goto(c, "called", "failed")
                /\ ReportFailure(c)
                /\ UNCHANGED <<exists, path, result, last, own, shared>>

CallPromised(c) == /\ Returning(c)
                   /\ \/ Goto(c, "called", "pending") /\ UNCHANGED left
                      \/ Goto(c, "called", "given_up") /\ left' = TRUE
                   /\ UNCHANGED <<exists, on, data, path, result, last, own, shared>>

\* The reactions of the promise run when the microtasks are drained: when no script
\* runs, or below a call of drainMicrotasks inside another call of profile().
Resolved(c) == /\ ~Reporting
               /\ Goto(c, "pending", "functions")
               /\ UNCHANGED <<exists, on, data, path, stack, result, history>>

Rejected(c) == /\ ~Reporting
               /\ Goto(c, "pending", "failed")
               /\ ReportFailure(c)
               /\ UNCHANGED <<exists, path, stack, result, last, own, shared>>

-----------------------------------------------------------------------------
\* report, during which the sampling thread goes on: the two summaries,
\* the stack traces (which empty the profiler), shutdown.
ReportTopFunctions(c) == /\ Goto(c, "functions", "bytecodes")
                         /\ result' = [result EXCEPT ![c].functions = data]
                         /\ UNCHANGED <<exists, on, data, path, stack, history>>

ReportTopBytecodes(c) == /\ Goto(c, "bytecodes", "traces")
                         /\ result' = [result EXCEPT ![c].bytecodes = data]
                         /\ UNCHANGED <<exists, on, data, path, stack, history>>

ReportTraces(c) == /\ Goto(c, "traces", "stop")
                   /\ result' = [result EXCEPT ![c].stackTraces = data]
                   /\ data' = {}
                   /\ UNCHANGED <<exists, on, path, stack, history>>

NoShutdownOnError(c) ==  \* mutant: an exception of JSONParse is checked first
  /\ \/ Goto(c, "stop", "reported") /\ on' = FALSE /\ left' = FALSE /\ UNCHANGED result
     \/ /\ Goto(c, "stop", "failed")
        /\ result' = [result EXCEPT ![c] = Nothing]
        /\ UNCHANGED <<on, left>>
  /\ UNCHANGED <<exists, data, path, stack, last, own, shared>>

\* shutdown comes before the check for an exception of JSONParse.
ReportShutdown(c) ==
  /\ \/ Goto(c, "stop", "reported") /\ UNCHANGED result
     \/ Goto(c, "stop", "failed") /\ result' = [result EXCEPT ![c] = Nothing]
  /\ on' = FALSE /\ left' = FALSE
  /\ UNCHANGED <<exists, data, path, stack, last, own, shared>>

Next == \/ Sample \/ StartSamplingProfiler \/ SamplingProfilerStackTraces
        \/ \E c \in Calls :
             \/ RunNotCallable(c) \/ RunProfiler(c)
             \/ CallReturned(c) \/ CallThrew(c) \/ CallPromised(c)
             \/ Resolved(c) \/ Rejected(c)
             \/ ReportTopFunctions(c) \/ ReportTopBytecodes(c)
             \/ ReportTraces(c) \/ ReportShutdown(c)

Spec == Init /\ [][Next]_vars

-----------------------------------------------------------------------------
TypeOK == /\ exists \in BOOLEAN /\ on \in BOOLEAN /\ (on => exists)
          /\ data \subseteq 1..last /\ last \in 0..MaxSamples
          /\ path \in {"unset", "dangling"}
          /\ phase \in [Calls -> Phases]
          /\ result \in [Calls -> [functions : SUBSET Samples, bytecodes : SUBSET Samples,
                                   stackTraces : SUBSET Samples]]
          /\ \A i \in 1..Len(stack) : In(stack[i], "called")
          /\ \A i, j \in 1..Len(stack) : stack[i] = stack[j] => i = j

\* However calls of profile() nest, overlap, throw or reject, the VM does not go
\* on sampling when the last of them is over: only startSamplingProfiler, or an
\* exception between profiledCall and the reaction, may leave it on.
OffWhenSettled == on => Open # {} \/ left

\* A call that had the profiler to itself reports every sample taken while its
\* function ran, the stack traces at least what the summaries say, although the
\* profiler samples through its own report; and what was sampled during a call
\* that failed is in nobody's report.
AloneAccounted ==
  \A c \in Calls \ shared :
    /\ In(c, "reported") => /\ own[c] \subseteq result[c].functions
                            /\ result[c].functions \subseteq result[c].bytecodes
                            /\ result[c].bytecodes \subseteq result[c].stackTraces
    /\ In(c, "failed") => \A d \in Calls : own[c] \cap result[d].stackTraces = {}
=============================================================================
