--------------------------- MODULE ProfilerProofs ---------------------------
(***************************************************************************)
(* Proofs about Profiler for any set of calls and any number of samples,   *)
(* in whatever order the calls nest, overlap, settle and fail.             *)
(***************************************************************************)
EXTENDS Profiler, SequenceTheorems, TLAPS

Typed == /\ last \in Nat
         /\ on \in BOOLEAN /\ left \in BOOLEAN
         /\ phase \in [Calls -> Phases]
         /\ data \subseteq 1..last
         /\ own \in [Calls -> SUBSET (1..last)]
         /\ result \in [Calls -> [functions : SUBSET (1..last), bytecodes : SUBSET (1..last),
                                  stackTraces : SUBSET (1..last)]]
         /\ shared \subseteq Calls

\* How far the report of a call that had the profiler to itself has come: each part
\* contains the one before, and what is not reported yet is still held.
Accounted(c) ==
  /\ phase[c] \in {"called", "pending", "functions"} => own[c] \subseteq data
  /\ phase[c] \in {"bytecodes", "traces", "stop", "reported"} =>
       own[c] \subseteq result[c].functions
  /\ In(c, "bytecodes") => result[c].functions \subseteq data
  /\ phase[c] \in {"traces", "stop", "reported"} =>
       result[c].functions \subseteq result[c].bytecodes
  /\ In(c, "traces") => result[c].bytecodes \subseteq data
  /\ phase[c] \in {"stop", "reported"} => result[c].bytecodes \subseteq result[c].stackTraces

\* What it has not reported is in no other report, and what it failed to report will
\* be in none.
Private(c) ==
  /\ phase[c] \notin {"reported", "given_up"} =>
       \A d \in Calls \ {c} : own[c] \cap result[d].stackTraces = {}
  /\ phase[c] \notin {"stop", "reported"} => result[c].stackTraces = {}
  /\ phase[c] \in {"stop", "failed"} => own[c] \cap data = {}

\* A call that has the profiler to itself is the only one under way, and a call
\* that has not begun has no samples.
OnlyOne(c) == c \in Open => Open = {c}
Unbegun(c) == In(c, "new") => own[c] = {} /\ result[c] = Nothing

AInv == /\ Typed
        /\ OffWhenSettled
        /\ \A c \in Calls : Unbegun(c)
        /\ \A c \in Calls \ shared : Accounted(c) /\ Private(c) /\ OnlyOne(c)

LEMMA InitAInv == Init => AInv
<1> SUFFICES ASSUME Init PROVE AInv
  OBVIOUS
<1>1. Typed /\ OffWhenSettled
  BY DEF Init, Typed, OffWhenSettled, Phases, Steps, Nothing
<1>2. \A c \in Calls : Unbegun(c) /\ Accounted(c) /\ Private(c) /\ OnlyOne(c)
  BY DEF Init, Unbegun, Accounted, Private, OnlyOne, Open, In, Steps, Nothing
<1> QED
  BY <1>1, <1>2 DEF AInv

\* Which calls are open after one has gone from one phase to another.
LEMMA OpenAfter ==
  ASSUME Typed, NEW c \in Calls, NEW p, phase' = [phase EXCEPT ![c] = p]
  PROVE  Open' = IF p \in Steps \cup {"called", "pending"} THEN Open \cup {c} ELSE Open \ {c}
  BY DEF Typed, Open

\* Filling in one part of one call's report leaves a table of reports.
LEMMA FillIn ==
  ASSUME NEW S, NEW r \in [Calls -> [functions : S, bytecodes : S, stackTraces : S]],
         NEW c \in Calls, NEW v \in S
  PROVE  /\ [r EXCEPT ![c].functions = v]
              \in [Calls -> [functions : S, bytecodes : S, stackTraces : S]]
         /\ [r EXCEPT ![c].bytecodes = v]
              \in [Calls -> [functions : S, bytecodes : S, stackTraces : S]]
         /\ [r EXCEPT ![c].stackTraces = v]
              \in [Calls -> [functions : S, bytecodes : S, stackTraces : S]]
<1> DEFINE R == [functions : S, bytecodes : S, stackTraces : S]
<1>1. r[c] \in R
  OBVIOUS
<1>2. /\ [r[c] EXCEPT !.functions = v] \in R
      /\ [r[c] EXCEPT !.bytecodes = v] \in R
      /\ [r[c] EXCEPT !.stackTraces = v] \in R
  BY <1>1
<1>3. \A x \in R : [r EXCEPT ![c] = x] \in [Calls -> R]
  OBVIOUS
<1> QED
  BY <1>2, <1>3

LEMMA TypedStep == AInv /\ [Next]_vars => Typed'
<1> SUFFICES ASSUME Typed, [Next]_vars PROVE Typed'
  BY DEF AInv
<1> DEFINE Report(n) == [functions : SUBSET (1..n), bytecodes : SUBSET (1..n),
                         stackTraces : SUBSET (1..n)]
<1>a. data \in SUBSET (1..last) /\ result \in [Calls -> Report(last)]
  BY DEF Typed
<1> USE DEF Typed, Goto, Phases, Steps, history
<1>1. CASE Sample
  <2>1. last' = last + 1 /\ 1..last \subseteq 1..(last + 1) /\ last + 1 \in 1..(last + 1)
    BY <1>1 DEF Sample
  <2>2. result \in [Calls -> Report(last + 1)]
    BY <1>a, <2>1
  <2>3. own' \in [Calls -> SUBSET (1..(last + 1))]
    BY <1>1, <2>1 DEF Sample
  <2>4. data' \subseteq 1..(last + 1)
    BY <1>1, <2>1 DEF Sample
  <2> QED
    BY <1>1, <2>1, <2>2, <2>3, <2>4 DEF Sample
<1>2. CASE StartSamplingProfiler
  BY <1>2 DEF StartSamplingProfiler, Open
<1>3. CASE SamplingProfilerStackTraces
  BY <1>3 DEF SamplingProfilerStackTraces, Open
<1>4. ASSUME NEW c \in Calls, RunNotCallable(c) PROVE Typed'
  BY <1>4 DEF RunNotCallable
<1>5. ASSUME NEW c \in Calls, RunProfiler(c) PROVE Typed'
  <2>1. shared' \subseteq Calls
    BY <1>5 DEF RunProfiler, Open
  <2> QED
    BY <1>5, <2>1 DEF RunProfiler
<1>6. ASSUME NEW c \in Calls, CallReturned(c) \/ CallThrew(c) \/ CallPromised(c) PROVE Typed'
  BY <1>6 DEF CallReturned, CallThrew, CallPromised, ReportFailure
<1>7. ASSUME NEW c \in Calls, Resolved(c) \/ Rejected(c) PROVE Typed'
  BY <1>7 DEF Resolved, Rejected, ReportFailure
<1>8. ASSUME NEW c \in Calls,
             ReportTopFunctions(c) \/ ReportTopBytecodes(c) \/ ReportTraces(c)
      PROVE Typed'
  <2>1. result' \in [Calls -> Report(last)]
    <3> HIDE DEF Typed
    <3>1. CASE result' = [result EXCEPT ![c].functions = data]
      BY <1>a, <3>1, FillIn
    <3>2. CASE result' = [result EXCEPT ![c].bytecodes = data]
      BY <1>a, <3>2, FillIn
    <3>3. CASE result' = [result EXCEPT ![c].stackTraces = data]
      BY <1>a, <3>3, FillIn
    <3> QED
      BY <1>8, <3>1, <3>2, <3>3 DEF ReportTopFunctions, ReportTopBytecodes, ReportTraces
  <2>2. /\ UNCHANGED <<on, last, own, shared, left>>
        /\ data' \subseteq data
        /\ \E p \in Phases : phase' = [phase EXCEPT ![c] = p]
    BY <1>8 DEF ReportTopFunctions, ReportTopBytecodes, ReportTraces
  <2> QED
    BY <2>1, <2>2
<1>9. ASSUME NEW c \in Calls, ReportShutdown(c) PROVE Typed'
  <2>1. Nothing \in Report(last)
    BY DEF Nothing
  <2>2. result' = result \/ result' = [result EXCEPT ![c] = Nothing]
    BY <1>9 DEF ReportShutdown
  <2>3. result' \in [Calls -> Report(last)]
    BY <1>a, <2>1, <2>2
  <2> QED
    BY <1>9, <2>3 DEF ReportShutdown
<1>10. CASE UNCHANGED vars
  BY <1>10 DEF vars
<1> QED
  BY <1>1, <1>2, <1>3, <1>4, <1>5, <1>6, <1>7, <1>8, <1>9, <1>10 DEF Next

LEMMA OffStep == AInv /\ [Next]_vars => OffWhenSettled'
<1> SUFFICES ASSUME Typed, OffWhenSettled, [Next]_vars PROVE OffWhenSettled'
  BY DEF AInv
<1> USE DEF OffWhenSettled, Goto, history, ReportFailure
<1>1. CASE Sample \/ StartSamplingProfiler \/ SamplingProfilerStackTraces
  BY <1>1 DEF Sample, StartSamplingProfiler, SamplingProfilerStackTraces, Open
<1>2. ASSUME NEW c \in Calls, RunNotCallable(c) PROVE OffWhenSettled'
  <2>1. c \notin Open /\ Open' = Open \ {c}
    BY <1>2, OpenAfter DEF RunNotCallable, Steps, In, Open
  <2> QED
    BY <1>2, <2>1 DEF RunNotCallable
<1>3. ASSUME NEW c \in Calls,
             RunProfiler(c) \/ CallReturned(c) \/ Resolved(c) \/ ReportTopFunctions(c)
               \/ ReportTopBytecodes(c) \/ ReportTraces(c)
      PROVE OffWhenSettled'
  <2>1. c \in Open'
    BY <1>3, OpenAfter DEF RunProfiler, CallReturned, Resolved, ReportTopFunctions,
       ReportTopBytecodes, ReportTraces, Steps
  <2> QED
    BY <2>1
<1>4. ASSUME NEW c \in Calls, CallPromised(c) PROVE OffWhenSettled'
  <2>1. Goto(c, "called", "pending") => c \in Open'
    BY OpenAfter
  <2> QED
    BY <1>4, <2>1 DEF CallPromised
<1>5. ASSUME NEW c \in Calls, CallThrew(c) \/ Rejected(c) \/ ReportShutdown(c)
      PROVE OffWhenSettled'
  BY <1>5 DEF CallThrew, Rejected, ReportShutdown
<1>6. CASE UNCHANGED vars
  BY <1>6 DEF vars, Open
<1> QED
  BY <1>1, <1>2, <1>3, <1>4, <1>5, <1>6 DEF Next

LEMMA UnbegunStep == AInv /\ [Next]_vars => \A c \in Calls : Unbegun(c)'
<1> SUFFICES ASSUME AInv, [Next]_vars, NEW c \in Calls PROVE Unbegun(c)'
  OBVIOUS
<1>0. Typed /\ Unbegun(c)
  BY DEF AInv
<1> USE <1>0 DEF Typed, Unbegun, Goto, In, history
<1>1. CASE Sample
  BY <1>1 DEF Sample
<1>2. CASE StartSamplingProfiler \/ SamplingProfilerStackTraces
  BY <1>2 DEF StartSamplingProfiler, SamplingProfilerStackTraces
<1>3. ASSUME NEW d \in Calls,
             RunNotCallable(d) \/ RunProfiler(d) \/ CallReturned(d) \/ CallThrew(d)
               \/ CallPromised(d) \/ Resolved(d) \/ Rejected(d)
      PROVE Unbegun(c)'
  BY <1>3 DEF RunNotCallable, RunProfiler, CallReturned, CallThrew, CallPromised, Resolved,
     Rejected
<1>4. ASSUME NEW d \in Calls,
             ReportTopFunctions(d) \/ ReportTopBytecodes(d) \/ ReportTraces(d)
               \/ ReportShutdown(d)
      PROVE Unbegun(c)'
  BY <1>4 DEF ReportTopFunctions, ReportTopBytecodes, ReportTraces, ReportShutdown
<1>5. CASE UNCHANGED vars
  BY <1>5 DEF vars
<1> QED
  BY <1>1, <1>2, <1>3, <1>4, <1>5 DEF Next

\* A call that has the profiler to itself keeps it, or counts as shared from then on.
LEMMA OnlyOneStep == AInv /\ [Next]_vars => \A c \in Calls \ shared' : OnlyOne(c)'
<1> SUFFICES ASSUME AInv, [Next]_vars, NEW c \in Calls \ shared' PROVE OnlyOne(c)'
  OBVIOUS
<1>0. Typed /\ \A d \in Calls \ shared : OnlyOne(d)
  BY DEF AInv
<1> USE <1>0 DEF Typed, OnlyOne, Goto, In, history, Open, Steps
<1>1. CASE Sample
  BY <1>1 DEF Sample
<1>2. CASE StartSamplingProfiler \/ SamplingProfilerStackTraces
  BY <1>2 DEF StartSamplingProfiler, SamplingProfilerStackTraces
<1>3. ASSUME NEW d \in Calls, RunProfiler(d) PROVE OnlyOne(c)'
  BY <1>3 DEF RunProfiler
<1>4. ASSUME NEW d \in Calls,
             RunNotCallable(d) \/ CallReturned(d) \/ CallThrew(d)
               \/ CallPromised(d) \/ Resolved(d) \/ Rejected(d)
      PROVE OnlyOne(c)'
  BY <1>4 DEF RunNotCallable, CallReturned, CallThrew, CallPromised, Resolved, Rejected
<1>5. ASSUME NEW d \in Calls,
             ReportTopFunctions(d) \/ ReportTopBytecodes(d) \/ ReportTraces(d)
               \/ ReportShutdown(d)
      PROVE OnlyOne(c)'
  BY <1>5 DEF ReportTopFunctions, ReportTopBytecodes, ReportTraces, ReportShutdown
<1>6. CASE UNCHANGED vars
  BY <1>6 DEF vars
<1> QED
  BY <1>1, <1>2, <1>3, <1>4, <1>5, <1>6 DEF Next

\* Nobody else's step takes samples away from a call that has the profiler to itself.
LEMMA AccountedStep == AInv /\ [Next]_vars => \A c \in Calls \ shared' : Accounted(c)'
<1> SUFFICES ASSUME AInv, [Next]_vars, NEW c \in Calls \ shared' PROVE Accounted(c)'
  OBVIOUS
<1>0. c \in Calls \ shared
  BY DEF AInv, Typed, Next, Sample, StartSamplingProfiler, SamplingProfilerStackTraces,
     RunNotCallable, RunProfiler, CallReturned, CallThrew, CallPromised, Resolved, Rejected,
     ReportTopFunctions, ReportTopBytecodes, ReportTraces, ReportShutdown, history, vars
<1>00. Typed /\ Accounted(c) /\ OnlyOne(c) /\ Unbegun(c)
  BY <1>0 DEF AInv
<1> USE <1>00 DEF Typed, Accounted, Goto, In, history
<1>1. CASE Sample
  BY <1>1 DEF Sample
<1>2. CASE StartSamplingProfiler
  BY <1>2 DEF StartSamplingProfiler
<1>3. CASE SamplingProfilerStackTraces
  BY <1>3 DEF SamplingProfilerStackTraces, Open, Steps
<1>4. ASSUME NEW d \in Calls, RunNotCallable(d) \/ RunProfiler(d) PROVE Accounted(c)'
  BY <1>4 DEF RunNotCallable, RunProfiler, Unbegun
<1>5. ASSUME NEW d \in Calls, CallReturned(d) \/ CallPromised(d) \/ Resolved(d)
      PROVE Accounted(c)'
  BY <1>5 DEF CallReturned, CallPromised, Resolved
<1>6. ASSUME NEW d \in Calls, CallThrew(d) \/ Rejected(d) PROVE Accounted(c)'
  <2>1. d = c \/ c \notin Open
    BY <1>6 DEF CallThrew, Rejected, OnlyOne, Open
  <2> QED
    BY <1>6, <2>1 DEF CallThrew, Rejected, Open, Steps
<1>7. ASSUME NEW d \in Calls, ReportTopFunctions(d) \/ ReportTopBytecodes(d)
      PROVE Accounted(c)'
  BY <1>7 DEF ReportTopFunctions, ReportTopBytecodes
<1>8. ASSUME NEW d \in Calls, ReportTraces(d) PROVE Accounted(c)'
  <2>1. d = c \/ c \notin Open
    BY <1>8 DEF ReportTraces, OnlyOne, Open, Steps
  <2> QED
    BY <1>8, <2>1 DEF ReportTraces, Open, Steps
<1>9. ASSUME NEW d \in Calls, ReportShutdown(d) PROVE Accounted(c)'
  BY <1>9 DEF ReportShutdown
<1>10. CASE UNCHANGED vars
  BY <1>10 DEF vars
<1> QED
  BY <1>1, <1>2, <1>3, <1>4, <1>5, <1>6, <1>7, <1>8, <1>9, <1>10 DEF Next

\* What was sampled during a call reaches nobody else's report while it has the
\* profiler to itself, and none at all once it has failed.
LEMMA PrivateStep == AInv /\ [Next]_vars => \A c \in Calls \ shared' : Private(c)'
<1> SUFFICES ASSUME AInv, [Next]_vars, NEW c \in Calls \ shared' PROVE Private(c)'
  OBVIOUS
<1>0. c \in Calls \ shared
  BY DEF AInv, Typed, Next, Sample, StartSamplingProfiler, SamplingProfilerStackTraces,
     RunNotCallable, RunProfiler, CallReturned, CallThrew, CallPromised, Resolved, Rejected,
     ReportTopFunctions, ReportTopBytecodes, ReportTraces, ReportShutdown, history, vars
<1>00. Typed /\ Private(c) /\ OnlyOne(c) /\ Unbegun(c)
  BY <1>0 DEF AInv
<1> USE <1>00 DEF Typed, Private, Goto, In, history
<1>1. CASE Sample
  BY <1>1 DEF Sample
<1>2. CASE StartSamplingProfiler \/ SamplingProfilerStackTraces
  BY <1>2 DEF StartSamplingProfiler, SamplingProfilerStackTraces
<1>3. ASSUME NEW d \in Calls, RunNotCallable(d) \/ RunProfiler(d) PROVE Private(c)'
  BY <1>3 DEF RunNotCallable, RunProfiler, Unbegun
<1>4. ASSUME NEW d \in Calls, CallReturned(d) \/ CallPromised(d) \/ Resolved(d)
      PROVE Private(c)'
  BY <1>4 DEF CallReturned, CallPromised, Resolved
<1>5. ASSUME NEW d \in Calls, CallThrew(d) \/ Rejected(d) PROVE Private(c)'
  BY <1>5 DEF CallThrew, Rejected, ReportFailure
<1>6. ASSUME NEW d \in Calls, ReportTopFunctions(d) \/ ReportTopBytecodes(d)
      PROVE Private(c)'
  BY <1>6 DEF ReportTopFunctions, ReportTopBytecodes
<1>7. ASSUME NEW d \in Calls, ReportTraces(d) PROVE Private(c)'
  <2>1. d = c \/ c \notin Open
    BY <1>7 DEF ReportTraces, OnlyOne, Open, Steps
  <2> QED
    BY <1>7, <2>1 DEF ReportTraces, Unbegun, Open, Steps, Phases
<1>8. ASSUME NEW d \in Calls, ReportShutdown(d) PROVE Private(c)'
  BY <1>8 DEF ReportShutdown, Nothing
<1>9. CASE UNCHANGED vars
  BY <1>9 DEF vars
<1> QED
  BY <1>1, <1>2, <1>3, <1>4, <1>5, <1>6, <1>7, <1>8, <1>9 DEF Next

\* What TypeOK says besides: a VM that samples has its profiler, and the calls on the
\* stack are distinct and inside profiledCall.
Stacked == /\ stack \in Seq(Calls)
           /\ \A i \in 1..Len(stack) : In(stack[i], "called")
           /\ \A i, j \in 1..Len(stack) : stack[i] = stack[j] => i = j
Made == /\ exists \in BOOLEAN /\ (on => exists)
        /\ last \in 0..MaxSamples
        /\ path \in {"unset", "dangling"}

LEMMA MadeStep == AInv /\ Made /\ [Next]_vars => Made'
<1> SUFFICES ASSUME Typed, Made, [Next]_vars PROVE Made'
  BY DEF AInv
<1> USE ProfilerAssumption DEF Made, Typed, history
<1>1. CASE Sample
  BY <1>1 DEF Sample
<1>2. CASE StartSamplingProfiler \/ SamplingProfilerStackTraces
  BY <1>2 DEF StartSamplingProfiler, SamplingProfilerStackTraces
<1>3. ASSUME NEW c \in Calls, RunNotCallable(c) \/ RunProfiler(c) PROVE Made'
  BY <1>3 DEF RunNotCallable, RunProfiler
<1>6. ASSUME NEW c \in Calls, CallReturned(c) \/ CallPromised(c) \/ Resolved(c) PROVE Made'
  BY <1>6 DEF CallReturned, CallPromised, Resolved
<1>7. ASSUME NEW c \in Calls, CallThrew(c) \/ Rejected(c) PROVE Made'
  BY <1>7 DEF CallThrew, Rejected, ReportFailure
<1>4. ASSUME NEW c \in Calls,
             ReportTopFunctions(c) \/ ReportTopBytecodes(c) \/ ReportTraces(c)
               \/ ReportShutdown(c)
      PROVE Made'
  BY <1>4 DEF ReportTopFunctions, ReportTopBytecodes, ReportTraces, ReportShutdown
<1>5. CASE UNCHANGED vars
  BY <1>5 DEF vars
<1> QED
  BY <1>1, <1>2, <1>3, <1>4, <1>5, <1>6, <1>7 DEF Next

LEMMA StackedStep == AInv /\ Stacked /\ [Next]_vars => Stacked'
<1> SUFFICES ASSUME Typed, Stacked, [Next]_vars PROVE Stacked'
  BY DEF AInv
<1>0. phase \in [Calls -> Phases]
  BY DEF Typed
<1> USE <1>0 DEF Stacked, In, Goto
<1>1. ASSUME UNCHANGED <<stack, phase>> PROVE Stacked'
  BY <1>1
<1>2. ASSUME NEW c \in Calls, NEW p, UNCHANGED stack, ~In(c, "called"),
             phase' = [phase EXCEPT ![c] = p]
      PROVE Stacked'
  <2>1. \A i \in 1..Len(stack) : stack[i] # c
    BY <1>2
  <2> QED
    BY <1>2, <2>1
<1>3. ASSUME NEW c \in Calls, RunProfiler(c) PROVE Stacked'
  <2>1. /\ In(c, "new") /\ phase' = [phase EXCEPT ![c] = "called"]
        /\ stack' = Append(stack, c)
    BY <1>3 DEF RunProfiler
  <2>2. /\ stack' \in Seq(Calls) /\ Len(stack') = Len(stack) + 1
        /\ \A i \in 1..Len(stack) : stack'[i] = stack[i]
        /\ stack'[Len(stack) + 1] = c
    BY <2>1
  <2>3. \A i \in 1..Len(stack) : stack[i] # c
    BY <2>1
  <2>4. \A i \in 1..Len(stack') : In(stack[i], "called")' \/ i = Len(stack) + 1
    BY <2>1, <2>2, <2>3
  <2> QED
    BY <2>1, <2>2, <2>3, <2>4
<1>4. ASSUME NEW c \in Calls, NEW p, Returning(c), phase' = [phase EXCEPT ![c] = p]
      PROVE Stacked'
  <2>1. /\ stack # <<>> /\ stack[Len(stack)] = c
        /\ stack' = SubSeq(stack, 1, Len(stack) - 1)
    BY <1>4 DEF Returning
  <2>2. Len(stack) \in Nat \ {0}
    BY <2>1
  <2>3. /\ stack' \in Seq(Calls) /\ Len(stack') = Len(stack) - 1
        /\ \A i \in 1..(Len(stack) - 1) : stack'[i] = stack[i] /\ stack[i] # c
    <3> DEFINE n == Len(stack) - 1
    <3>1. 1 \in Int /\ n \in Nat /\ \A i \in 1..n : stack[i] \in Calls /\ stack[i] # c
      BY <2>1, <2>2
    <3> HIDE DEF n
    <3>2. /\ SubSeq(stack, 1, n) \in Seq(Calls)
          /\ Len(SubSeq(stack, 1, n)) = IF 1 <= n THEN n - 1 + 1 ELSE 0
          /\ \A i \in 1..(n - 1 + 1) : SubSeq(stack, 1, n)[i] = stack[1 + i - 1]
      <4>1. n \in Int /\ \A i \in 1..n : stack[i] \in Calls
        BY <3>1
      <4> QED
        BY <4>1, SubSeqProperties
    <3>3. /\ Len(SubSeq(stack, 1, n)) = n
          /\ \A i \in 1..n : SubSeq(stack, 1, n)[i] = stack[i]
      BY <3>1, <3>2
    <3> QED
      BY <2>1, <3>1, <3>2, <3>3 DEF n
  <2> QED
    BY <1>4, <2>1, <2>2, <2>3
<1>5. CASE Sample \/ StartSamplingProfiler \/ SamplingProfilerStackTraces
  BY <1>1, <1>5 DEF Sample, StartSamplingProfiler, SamplingProfilerStackTraces
<1>6. ASSUME NEW c \in Calls, CallReturned(c) \/ CallThrew(c) \/ CallPromised(c)
      PROVE Stacked'
  BY <1>4, <1>6 DEF CallReturned, CallThrew, CallPromised
<1>7. ASSUME NEW c \in Calls,
             RunNotCallable(c) \/ Resolved(c) \/ Rejected(c) \/ ReportTopFunctions(c)
               \/ ReportTopBytecodes(c) \/ ReportTraces(c) \/ ReportShutdown(c)
      PROVE Stacked'
  BY <1>2, <1>7 DEF RunNotCallable, Resolved, Rejected, ReportTopFunctions,
     ReportTopBytecodes, ReportTraces, ReportShutdown
<1>8. CASE UNCHANGED vars
  BY <1>1, <1>8 DEF vars
<1> QED
  BY <1>3, <1>5, <1>6, <1>7, <1>8 DEF Next

LEMMA AInvAlways == Spec => []AInv
<1>1. AInv /\ [Next]_vars => AInv'
  BY TypedStep, OffStep, UnbegunStep, OnlyOneStep, AccountedStep, PrivateStep DEF AInv
<1> QED
  BY <1>1, InitAInv, PTL DEF Spec

\* When no call of profile() is under way, the VM does not sample, unless
\* startSamplingProfiler or an exception of the engine has left it on.
THEOREM OffAfterwards == Spec => []OffWhenSettled
<1>1. AInv => OffWhenSettled
  BY DEF AInv
<1> QED
  BY <1>1, AInvAlways, PTL

\* A call that had the profiler to itself reports each of its samples, and the
\* samples of one that failed are in no report.
THEOREM AlwaysAccounted == Spec => []AloneAccounted
<1>1. AInv => AloneAccounted
  BY DEF AInv, AloneAccounted, Accounted, Private, In
<1> QED
  BY <1>1, AInvAlways, PTL

\* The profiler's state is well-typed; the calls on the stack are distinct and inside
\* profiledCall.
THEOREM TypeCorrect == Spec => []TypeOK
<1>1. Init => Made /\ Stacked
  <2>0. 0 \in 0..MaxSamples
    BY ProfilerAssumption
  <2>1. Init => Made
    BY <2>0, Zenon DEF Init, Made
  <2>2. <<>> \in Seq(Calls) /\ Len(<<>>) = 0
    BY EmptySeq
  <2> QED
    BY <2>1, <2>2 DEF Init, Stacked
<1>2. AInv /\ Made /\ Stacked /\ [Next]_vars => (Made /\ Stacked)'
  BY MadeStep, StackedStep
<1>3. AInv /\ Made /\ Stacked => TypeOK
  <2> SUFFICES ASSUME AInv, Made, Stacked PROVE TypeOK
    OBVIOUS
  <2>1. Typed /\ last \in 0..MaxSamples /\ 1..last \subseteq Samples
    BY ProfilerAssumption DEF AInv, Typed, Made, Samples
  <2>2. result \in [Calls -> [functions : SUBSET Samples, bytecodes : SUBSET Samples,
                              stackTraces : SUBSET Samples]]
    BY <2>1 DEF Typed
  <2> QED
    BY <2>1, <2>2 DEF TypeOK, Typed, Made, Stacked
<1> QED
  BY <1>1, <1>2, <1>3, AInvAlways, PTL DEF Spec
=============================================================================
