--------------------------------- MODULE FFI ---------------------------------
(***************************************************************************)
(* Foreign functions and callbacks: JSFFIFunction.cpp with the parts of    *)
(* src/bun.js/api/ffi.zig that create, call and close a callback.          *)
(*                                                                         *)
(* A callback is a `Function' struct, a compiled trampoline that C calls,  *)
(* and a wrapper object (FFICallbackFunctionWrapper) that roots the        *)
(* JavaScript function.  On the JavaScript thread calls nest: script calls *)
(* native code, native code calls callbacks, and a callback may close      *)
(* itself, start a call of its own or throw.  Another thread may call      *)
(* threadsafe callbacks, which only post a task to the event loop.         *)
(***************************************************************************)
EXTENDS FFIValues, Sequences, FiniteSets

CONSTANTS Callbacks,   \* Function structs made by FFI.callback
          Functions,   \* JavaScript functions a callback may wrap
          Natives,     \* JSFFIFunction cells
          Shapes,      \* for each callback, the signatures it may be made with
          Sent,        \* a sequence of [type, val]: the C values that are passed around
          Starts,      \* places in Sent where the arguments of a callback begin
          MaxDepth,    \* bound on nested calls
          MaxTasks,    \* bound on posted tasks
          None

ASSUME FFIAssumption ==
    /\ Functions \cap Natives = {} /\ None \notin Functions \cup Natives
    /\ Sent \in Seq([type : ABITypes, val : Int64 \cup UInt64])
    /\ \A i \in DOMAIN Sent : Sent[i].val \in CValues(Sent[i].type)
    /\ Sent # <<>> /\ Starts \subseteq Nat /\ MaxTasks \in Nat
    /\ Shapes \in [Callbacks -> SUBSET [argc : Nat, threadsafe : BOOLEAN,
                                        returns : ABITypes \cup {"void"}]]

VARIABLES
    function,    \* the Function struct of each callback
    wrapped,     \* m_function of each callback's wrapper; None if there is no wrapper
    deletes,     \* how often each wrapper was deleted
    alive,       \* cells that were allocated and not collected
    kept,        \* cells the program can still reach
    tracked,     \* strong JSFFIFunctions (GlobalObject::trackFFIFunction)
    data,        \* dataPtr of each JSFFIFunction
    stack,       \* the calls of the JavaScript thread, innermost last
    thread,      \* the call of the other thread
    tasks,       \* what FFI_Callback_threadsafe_call posted and has not run yet
    exception,   \* the VM has an exception pending that a callback threw
    crossed,     \* history: the values the last step carried over, and those C had passed
    dangling,    \* history: callbacks whose wrapper was read after its deletion
    raced        \* history: callbacks closed while the other thread was calling them

callbackVars == <<function, wrapped, deletes>>
cellVars == <<kept, tracked, data>>
threadVars == <<thread, tasks>>
vars == <<callbackVars, cellVars, threadVars, alive, stack, exception, crossed, dangling, raced>>

Cells == Functions \cup Natives
NoFunction == [step |-> "pending", shape |-> None, wrapper |-> FALSE]

\* One value that crossed: in C, as a script reads it, whether the conversion is
\* meant for what it was given, and whether its encoding is a cell of the heap (a
\* BigInt) and that cell was collected.
Crossing(type, val, js, meant) ==
    [type |-> type, val |-> val, number |-> Number(js), meant |-> meant,
     cell |-> IF JSVALUE_IS_CELL(js) THEN "live" ELSE "none"]

\* Encoded arguments after a collection that found none of them rooted.
Swept(args) ==
    [i \in DOMAIN args |-> [args[i] EXCEPT !.cell = IF @ = "live" THEN "gone" ELSE @]]
InHeap(args) == \E i \in DOMAIN args : args[i].cell = "live"

\* A frame: what runs, and the C type a native function returns.
Frame(kind, fn, cb, type) == [kind |-> kind, fn |-> fn, cb |-> cb, type |-> type]
Script == Frame("script", None, None, "void")
Nothing == [seen |-> <<>>, sent |-> <<>>]
Carry(values) == crossed' = [seen |-> values, sent |-> values]
Quiet == crossed' = Nothing
IdleThread == [cb |-> None, args |-> <<>>, swept |-> FALSE]

Top == stack[Len(stack)]
Below == stack[Len(stack) - 1]
Popped == SubSeq(stack, 1, Len(stack) - 1)
ScriptRuns == Top.kind \in {"script", "callback"}

Init ==
    /\ function = [cb \in Callbacks |-> NoFunction]
    /\ wrapped = [cb \in Callbacks |-> None] /\ deletes = [cb \in Callbacks |-> 0]
    /\ alive = Functions /\ kept = Functions /\ tracked = {}
    /\ data = [n \in Natives |-> None]
    /\ stack = <<Script>> /\ thread = IdleThread /\ tasks = <<>>
    /\ exception = FALSE /\ crossed = Nothing /\ dangling = {} /\ raced = {}

---------------------------------------------------------------------------
\* JSFFIFunction objects.

\* The constructor: a new cell, reachable from the script that asked for it.
Create(n) ==
    /\ ScriptRuns /\ n \notin alive /\ data[n] = None
    /\ alive' = alive \cup {n} /\ kept' = kept \cup {n}

\* Bun__CreateFFIFunctionWithData and its shorter forms.
CreateWithData(n, strong) ==
    /\ Create(n) /\ data' = [data EXCEPT ![n] = "data"]
    /\ tracked' = IF strong THEN tracked \cup {n} ELSE tracked
    /\ Quiet /\ UNCHANGED <<callbackVars, stack, threadVars, exception, dangling, raced>>

\* Bun__CreateFFIFunctionValue with addPtrField, for the symbols of a library:
\* createForFFI; `strong' is not looked at.
CreateSymbol(n) ==
    /\ Create(n) /\ data' = [data EXCEPT ![n] = "symbol"]
    /\ Quiet /\ UNCHANGED <<callbackVars, tracked, stack, threadVars, exception, dangling, raced>>

Untrack(n) ==
    /\ ScriptRuns /\ n \in tracked /\ tracked' = tracked \ {n}
    /\ Quiet /\ UNCHANGED <<callbackVars, alive, kept, data, stack, threadVars, exception, dangling,
                   raced>>

---------------------------------------------------------------------------
\* The Function structs: FFI.callback and FFI.closeCallback.

\* Bun__createFFICallbackFunction runs before anything that can fail.
NewWrapper(cb, f) ==
    /\ ScriptRuns /\ function[cb].step = "pending" /\ f \in kept \cap Functions
    /\ wrapped' = [wrapped EXCEPT ![cb] = f]

Compile(cb, f, shape) ==
    /\ NewWrapper(cb, f) /\ shape \in Shapes[cb]
    /\ function' = [function EXCEPT ![cb] =
                      [step |-> "compiled", shape |-> shape, wrapper |-> TRUE]]
    /\ Quiet
    /\ UNCHANGED <<deletes, cellVars, alive, stack, threadVars, exception, dangling, raced>>

\* A failed compilation never stores the wrapper in the struct, and the deinit
\* that follows looks for it there only.
CompileFails(cb, f) ==
    /\ NewWrapper(cb, f)
    /\ function' = [function EXCEPT ![cb].step = "failed"]
    /\ Quiet
    /\ UNCHANGED <<deletes, cellVars, alive, stack, threadVars, exception, dangling, raced>>

DeinitKeepsWrapper(cb) ==  \* mutant: the wrapper is forgotten, not deleted
    /\ function' = [function EXCEPT ![cb].wrapper = FALSE]
    /\ UNCHANGED <<wrapped, deletes>>

\* Function.deinit on a compiled function; a second time it finds no wrapper.
Deinit(cb) ==
    IF function[cb].wrapper
    THEN /\ function' = [function EXCEPT ![cb].wrapper = FALSE]
         /\ wrapped' = [wrapped EXCEPT ![cb] = None]
         /\ deletes' = [deletes EXCEPT ![cb] = @ + 1]
    ELSE UNCHANGED callbackVars

\* closeCallback, from script or from inside a callback; the struct outlives it.
CloseCallback(cb) ==
    /\ ScriptRuns /\ function[cb].step = "compiled" /\ Deinit(cb)
    /\ raced' = IF thread.cb = cb THEN raced \cup {cb} ELSE raced
    /\ Quiet /\ UNCHANGED <<cellVars, alive, stack, threadVars, exception, dangling>>

---------------------------------------------------------------------------
\* Calls.

\* The engine's own encoding of a number.
JSNumber(val) ==
    IF val \in Int32 THEN INT32_TO_JSVALUE(val)
    ELSE IF val \in Doubles THEN DOUBLE_TO_JSVALUE(val) ELSE INT64_TO_JSVALUE_SLOW(val)

\* The JavaScript half of bun:ffi (not in this repository) hands a symbol's
\* trampoline the encoding that it reads: int32 for the narrow integers, a
\* double for floating point and for pointers.
Wrapped(type, v) ==
    CASE type \in {"int32_t", "uint32_t"} -> INT32_TO_JSVALUE(Number(v))
      [] type = "double" -> DOUBLE_TO_JSVALUE(Number(v))
      [] type \in {"bool", "ptr"} -> ToJS(type, Number(v))
      [] OTHER -> v

\* What the conversion of a callback's result is meant for; no layer wraps it.
Meant(type, v) ==
    CASE type \in {"int32_t", "uint32_t"} -> JSVALUE_IS_INT32(v)
      [] type = "double" -> v.tag = "double"
      [] type = "bool" -> v \in {TagValueTrue, TagValueFalse}
      [] type = "ptr" -> v.tag = "double" \/ v = TagValueNull
      [] OTHER -> JSVALUE_IS_NUMBER(v) \/ v.tag = "bigint"

SentOf(type) == {Sent[i].val : i \in {j \in DOMAIN Sent : Sent[j].type = type}}

\* JSFunctionCall, the trampoline of a symbol: its arguments go through toC.
CallNative(n, s) ==
    /\ ScriptRuns /\ n \in kept /\ data[n] = "symbol" /\ Len(stack) < MaxDepth
    /\ LET js == JSNumber(s.val)
           val == ToC(s.type, Wrapped(s.type, js))
       IN Carry(<<Crossing(s.type, val, js, TRUE)>>)
    /\ stack' = Append(stack, Frame("native", n, None, s.type))
    /\ UNCHANGED <<callbackVars, cellVars, alive, threadVars, exception, dangling, raced>>

\* The value it returns goes through toJS, unless an exception is pending: then
\* the engine drops the value and the caller catches the exception.
ReturnNative(s) ==
    /\ Top.kind = "native" /\ s.type = Top.type /\ stack' = Popped
    /\ IF exception THEN Quiet ELSE Carry(<<Crossing(s.type, s.val, ToJS(s.type, s.val), TRUE)>>)
    /\ exception' = FALSE
    /\ UNCHANGED <<callbackVars, cellVars, alive, threadVars, dangling, raced>>

\* The arguments array of a callback trampoline: argc values from a place in Sent.
Arguments(argc, from) ==
    [i \in 1..argc |-> LET s == Sent[((from + i) % Len(Sent)) + 1]
                       IN Crossing(s.type, s.val, ToJS(s.type, s.val), TRUE)]

FFI_Callback_call(args) == args
FFI_Callback_call_0(args) == <<>>
FFI_Callback_call_1(args) == <<args[1]>>
FFI_Callback_call_2(args) == <<args[1], args[2]>>
FFI_Callback_call_3(args) == <<args[1], args[2], args[3]>>
FFI_Callback_call_4(args) == <<args[1], args[2], args[3], args[4]>>
FFI_Callback_call_5(args) == <<args[1], args[2], args[3], args[4], args[5]>>
FFI_Callback_call_6(args) == <<args[1], args[2], args[3], args[4], args[5], args[6]>>
FFI_Callback_call_7(args) == <<args[1], args[2], args[3], args[4], args[5], args[6], args[7]>>

\* compileCallback links the trampoline to the entry point for its arity.
Entered(args) ==
    CASE Len(args) = 0 -> FFI_Callback_call_0(args) [] Len(args) = 1 -> FFI_Callback_call_1(args)
      [] Len(args) = 2 -> FFI_Callback_call_2(args) [] Len(args) = 3 -> FFI_Callback_call_3(args)
      [] Len(args) = 4 -> FFI_Callback_call_4(args) [] Len(args) = 5 -> FFI_Callback_call_5(args)
      [] Len(args) = 6 -> FFI_Callback_call_6(args) [] Len(args) = 7 -> FFI_Callback_call_7(args)
      [] OTHER -> FFI_Callback_call(args)

ReadWrapper(cb) == dangling' = IF wrapped[cb] = None THEN dangling \cup {cb} ELSE dangling

\* C calls no callback that was closed before the call, which is the program's
\* duty.  It may call one while the exception of another is pending.
CallBack(cb, from) ==
    /\ Top.kind = "native" /\ Len(stack) < MaxDepth
    /\ function[cb].wrapper /\ ~function[cb].shape.threadsafe /\ ReadWrapper(cb)
    /\ stack' = Append(stack, Frame("callback", wrapped[cb], cb, "void"))
    /\ LET args == Arguments(function[cb].shape.argc, from) IN
       crossed' = [seen |-> Entered(args), sent |-> args]
    /\ UNCHANGED <<callbackVars, cellVars, alive, threadVars, exception, raced>>

\* The engine's part: a script that runs while an exception is pending may meet it
\* and catch it.
CatchPending ==
    /\ Top.kind = "callback" /\ exception /\ exception' = FALSE
    /\ Quiet
    /\ UNCHANGED <<callbackVars, cellVars, alive, stack, threadVars, dangling, raced>>

\* The script's result goes through toCExact, unless an exception is still pending:
\* then it is thrown again and C gets null.  A callback run by the event loop has no
\* caller to return to.
ReturnFromCallback(v) ==
    /\ Top.kind = "callback" /\ stack' = Popped
    /\ LET type == function[Top.cb].shape.returns IN
       IF Below.kind = "script" \/ type = "void" \/ exception THEN Quiet
       ELSE Carry(<<Crossing(type, ToC(type, v), v, Meant(type, v))>>)
    /\ UNCHANGED <<callbackVars, cellVars, alive, threadVars, exception, dangling, raced>>

ThrowReadsWrapper ==  \* mutant: the exception is thrown in wrapper.globalObject
    /\ Top.kind = "callback" /\ ReadWrapper(Top.cb)
    /\ exception' = (Below.kind = "native") /\ stack' = Popped
    /\ Quiet /\ UNCHANGED <<callbackVars, cellVars, alive, threadVars, raced>>

\* profiledCall hands the exception over; it is thrown again and C gets null.  In
\* a task the event loop reports it.
Throw ==
    /\ Top.kind = "callback" /\ exception' = (Below.kind = "native") /\ stack' = Popped
    /\ Quiet /\ UNCHANGED <<callbackVars, cellVars, alive, threadVars, dangling, raced>>

---------------------------------------------------------------------------
\* Threadsafe callbacks.

\* The trampoline on the other thread has filled its arguments array, which is on
\* no stack that the collector looks at.
ThreadCalls(cb, from) ==
    /\ thread = IdleThread
    /\ function[cb].wrapper /\ function[cb].shape.threadsafe
    /\ thread' = [cb |-> cb, args |-> Arguments(function[cb].shape.argc, from), swept |-> FALSE]
    /\ Quiet
    /\ UNCHANGED <<callbackVars, cellVars, alive, stack, tasks, exception, dangling, raced>>

\* FFI_Callback_threadsafe_call: the task holds a copy of the wrapper, whose Strong
\* roots the function, and one of the encoded arguments, which roots nothing.
Post(cb, args, swept) ==
    /\ Len(tasks) < MaxTasks /\ ReadWrapper(cb)
    /\ tasks' = IF wrapped[cb] = None THEN tasks
                ELSE Append(tasks, [fn |-> wrapped[cb], cb |-> cb, args |-> args,
                                    sent |-> args, swept |-> swept])

ThreadPosts ==
    /\ thread # IdleThread /\ Post(thread.cb, thread.args, thread.swept)
    /\ thread' = IdleThread
    /\ Quiet /\ UNCHANGED <<callbackVars, cellVars, alive, stack, exception, raced>>

\* Called on the JavaScript thread it posts all the same.
PostHere(cb, from) ==
    /\ Top.kind = "native" /\ function[cb].wrapper /\ function[cb].shape.threadsafe
    /\ Post(cb, Arguments(function[cb].shape.argc, from), FALSE)
    /\ Quiet /\ UNCHANGED <<callbackVars, cellVars, alive, stack, thread, exception, raced>>

ArriveAsOne(task) ==  \* mutant: the loop over the copied arguments takes the first
    [seen |-> [i \in DOMAIN task.args |-> task.args[1]], sent |-> task.sent]

\* What the script of a task is called with: values that are not in the heap as they
\* were, a BigInt only if no collection has run since C passed it.
Arriving(task) ==
    [seen |-> IF task.swept THEN Swept(task.args) ELSE task.args, sent |-> task.sent]

RunTaskByReference ==  \* mutant: the task captured the wrapper by reference
    /\ Len(stack) = 1 /\ tasks # <<>> /\ tasks' = Tail(tasks)
    /\ stack' = Append(stack, Frame("callback", wrapped[Head(tasks).cb], Head(tasks).cb, "void"))
    /\ crossed' = Arriving(Head(tasks))
    /\ UNCHANGED <<callbackVars, cellVars, alive, thread, exception, dangling, raced>>

\* The event loop runs the task between two turns of the script.
RunTask ==
    /\ Len(stack) = 1 /\ tasks # <<>> /\ tasks' = Tail(tasks)
    /\ stack' = Append(stack, Frame("callback", Head(tasks).fn, Head(tasks).cb, "void"))
    /\ crossed' = Arriving(Head(tasks))
    /\ UNCHANGED <<callbackVars, cellVars, alive, thread, exception, dangling, raced>>

---------------------------------------------------------------------------
\* The program and the collector.

Drop(c) ==
    /\ ScriptRuns /\ c \in kept /\ kept' = kept \ {c}
    /\ Quiet
    /\ UNCHANGED <<callbackVars, tracked, data, alive, stack, threadVars, exception>>
    /\ UNCHANGED <<dangling, raced>>

RootedNoTasks ==  \* mutant: the task holds a bare pointer to the function
    kept \cup tracked \cup {wrapped[cb] : cb \in Callbacks}
      \cup {stack[i].fn : i \in DOMAIN stack}

\* What the collector finds: the program's cells, the Strong handles of wrappers
\* and tasks, and what is being called.  It finds no argument of a posted call.
Rooted ==
    kept \cup tracked \cup {wrapped[cb] : cb \in Callbacks}
      \cup {stack[i].fn : i \in DOMAIN stack} \cup {tasks[i].fn : i \in DOMAIN tasks}

Sweep(call) == [call EXCEPT !.swept = @ \/ InHeap(call.args)]

Collect ==
    /\ alive' = alive \cap Rooted /\ thread' = Sweep(thread)
    /\ tasks' = [i \in DOMAIN tasks |-> Sweep(tasks[i])]
    /\ <<alive', thread', tasks'>> # <<alive, thread, tasks>>
    /\ Quiet /\ UNCHANGED <<callbackVars, cellVars, stack, exception, dangling, raced>>

\* What a running callback may return: numbers of its type, or nothing.
Results == IF Top.cb = None THEN {}
           ELSE {JSNumber(val) : val \in SentOf(function[Top.cb].shape.returns)}
                  \cup {TagValueUndefined}

Next ==
    \/ \E n \in Natives : \/ \E strong \in BOOLEAN : CreateWithData(n, strong)
                          \/ CreateSymbol(n) \/ Untrack(n)
                          \/ \E i \in DOMAIN Sent : CallNative(n, Sent[i])
    \/ \E cb \in Callbacks, f \in Functions :
         \/ \E shape \in Shapes[cb] : Compile(cb, f, shape)
         \/ CompileFails(cb, f)
    \/ \E cb \in Callbacks : \/ CloseCallback(cb)
                             \/ \E i \in Starts : \/ CallBack(cb, i) \/ PostHere(cb, i)
                                                \/ ThreadCalls(cb, i)
    \/ \E i \in DOMAIN Sent : ReturnNative(Sent[i])
    \/ \E v \in Results : ReturnFromCallback(v)
    \/ CatchPending \/ Throw \/ ThreadPosts \/ RunTask \/ Collect
    \/ \E c \in Cells : Drop(c)

Spec == Init /\ [][Next]_vars
---------------------------------------------------------------------------
\* Properties.

Crossings == [type : ABITypes, val : Int64 \cup UInt64 \cup {NaN}, number : Int64 \cup UInt64,
              meant : BOOLEAN, cell : {"none", "live", "gone"}]

TypeOK ==
    /\ \A cb \in Callbacks :
         /\ function[cb].step \in {"pending", "failed", "compiled"}
         /\ function[cb].shape \in Shapes[cb] \cup {None} /\ function[cb].wrapper \in BOOLEAN
    /\ wrapped \in [Callbacks -> Functions \cup {None}] /\ deletes \in [Callbacks -> 0..2]
    /\ alive \subseteq Cells /\ kept \subseteq Cells /\ tracked \subseteq Natives
    /\ data \in [Natives -> {None, "data", "symbol"}]
    /\ \A i \in DOMAIN stack :
         /\ stack[i].kind \in {"script", "native", "callback"}
         /\ stack[i].fn \in (IF stack[i].kind = "script" THEN {None} ELSE Cells)
         /\ stack[i].cb \in Callbacks \cup {None}
         /\ stack[i].type \in ABITypes \cup {"void"}
    /\ {crossed.seen, crossed.sent} \subseteq Seq(Crossings)
    /\ thread.cb \in Callbacks \cup {None} /\ thread.args \in Seq(Crossings)
    /\ Len(tasks) <= MaxTasks /\ exception \in BOOLEAN
    /\ dangling \subseteq Callbacks /\ raced \subseteq Callbacks

\* Nothing that is being called, that a posted task or an open callback will call,
\* or that native code holds as a strong function, was collected, whatever the
\* program let go of and closed meanwhile.
CalledAlive ==
    /\ \A i \in DOMAIN stack : stack[i].fn \in alive \cup {None}
    /\ \A i \in DOMAIN tasks : tasks[i].fn \in alive
    /\ \A cb \in Callbacks : function[cb].wrapper => wrapped[cb] \in alive
    /\ tracked \subseteq alive

\* A wrapper is deleted at most once, though closeCallback may come again, and a
\* callback that closes itself, returns or throws afterwards does not reach the
\* deleted wrapper: only a close that races a call on the other thread does.
NoDanglingRead ==
    /\ \A cb \in Callbacks : deletes[cb] <= 1
    /\ dangling \subseteq raced

\* A function that the program has dropped and whose callbacks are closed can be
\* collected, except after a compilation that failed.
ClosedReleases ==
    \A f \in Functions \ kept :
        /\ \A cb \in Callbacks : wrapped[cb] = f => function[cb].wrapper
                                                    \/ function[cb].step = "failed"

\* Script sees the arguments that C passed, all of them and in order, for each
\* arity's own entry point, and for a posted call when it runs at last, but for its
\* BigInts: nothing roots those, and a collection before the task runs takes them.
ArgumentsArrive ==
    \/ crossed.seen = crossed.sent
    \/ Len(stack) = 2 /\ crossed.seen = Swept(crossed.sent)

\* The values that two tests in FFI.h let through by one.
AtBoundary(x) == x.type \in {"uint32_t", "i64_fast"} /\ x.val = MAX_INT32

\* Every number that crosses, in any direction and at any depth, is the same
\* number on both sides, if there is still a number to see.
Met == {crossed.seen[i] : i \in {k \in DOMAIN crossed.seen : crossed.seen[k].cell # "gone"}}
Exact == \A x \in Met : x.meant => x.val = x.number

\* The same but for the boundary.
ExactInside == \A x \in Met : x.meant => x.val = x.number \/ AtBoundary(x)
=============================================================================
