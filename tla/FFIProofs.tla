----------------------------- MODULE FFIProofs ------------------------------
(***************************************************************************)
(* Proofs about FFI, for any callbacks, functions, signatures, values and  *)
(* any depth of calls: what is called is alive, a deleted wrapper is read  *)
(* only by a call on another thread that raced its close, closed callbacks *)
(* let go of their functions, arguments arrive in order (posted BigInts    *)
(* excepted) and numbers unchanged.  First what the conversions of         *)
(* FFIValues do to every number, at the widths of the real machine as at   *)
(* those of the runs.                                                      *)
(***************************************************************************)
EXTENDS FFI, SequenceTheorems, TLAPS

\* The values on which UINT32_TO_JSVALUE and INT64_TO_JSVALUE slip.
Slips(type, val) == type \in {"uint32_t", "i64_fast"} /\ val = MAX_INT32

LEMMA Widths ==
  /\ MAX_INT32 \in Nat \ {0} /\ MAX_INT52 \in Nat /\ Word64 \in Nat /\ Word32 \in Nat
  /\ Word32 = 2 * MAX_INT32 /\ Word32 <= MAX_INT52 /\ 2 * MAX_INT52 < Word64
  BY WidthAssumption DEF Word32

\* The lower 32 bits of an int32_t, read back as one, are that int32_t.
LEMMA SignSurvives ==
  ASSUME NEW val \in Int32
  PROVE  AsInt32(val % Word32) = val
<1>1. CASE val >= 0
  <2>1. val % Word32 = val
    BY <1>1, Widths DEF Int32
  <2> QED
    BY <1>1, <2>1, Widths DEF Int32, AsInt32
<1>2. CASE val < 0
  <2>1. val % Word32 = val + Word32
    BY <1>2, Widths DEF Int32
  <2> QED
    BY <1>2, <2>1, Widths DEF Int32, AsInt32
<1> QED
  BY <1>1, <1>2, Widths DEF Int32

LEMMA WordSurvives ==
  ASSUME NEW val \in UInt64
  PROVE  val % Word64 = val
  BY Widths DEF UInt64

\* What the four encoders of FFI.h produce, case by case.
LEMMA Tags ==
  /\ \A v : JSVALUE_IS_INT32(v) <=> v.tag = "int32"
  /\ \A n : JSVALUE_IS_NUMBER(DOUBLE_TO_JSVALUE(n)) /\ ~JSVALUE_IS_INT32(DOUBLE_TO_JSVALUE(n))
  /\ \A n : /\ Number(DOUBLE_TO_JSVALUE(n)) = n
            /\ Number(UINT64_TO_JSVALUE_SLOW(n)) = n
            /\ Number(INT64_TO_JSVALUE_SLOW(n)) = n
  /\ \A n : Number(INT32_TO_JSVALUE(n)) = AsInt32(n % Word32)
  BY DEF JSVALUE_IS_INT32, JSVALUE_IS_NUMBER, DOUBLE_TO_JSVALUE, Number, TagValueNull,
     TagValueFalse, TagValueTrue, UINT64_TO_JSVALUE_SLOW, INT64_TO_JSVALUE_SLOW,
     INT32_TO_JSVALUE

\* A script reads every number that C hands over as it was, whichever ABI type it
\* has and whichever encoding is picked for it, but for the two slips.
THEOREM ReadExactly ==
  ASSUME NEW type \in ABITypes, NEW val \in CValues(type), ~Slips(type, val)
  PROVE  Number(ToJS(type, val)) = val
<1>1. CASE type = "bool"
  BY <1>1 DEF CValues, ToJS, BOOLEAN_TO_JSVALUE, Number, TagValueNull, TagValueFalse,
     TagValueTrue
<1>2. CASE type = "int32_t"
  <2>1. val \in Int32 /\ ToJS(type, val) = INT32_TO_JSVALUE(val)
    BY <1>2 DEF CValues, ToJS
  <2> QED
    BY <2>1, Tags, SignSurvives
<1>3. CASE type = "uint32_t"
  <2>1. val \in UInt32 \ {MAX_INT32} /\ ToJS(type, val) = UINT32_TO_JSVALUE(val)
    BY <1>3 DEF CValues, ToJS, Slips
  <2>2. CASE val <= MAX_INT32
    <3>1. val < MAX_INT32
      BY <2>1, <2>2, Widths DEF UInt32
    <3>2. ToJS(type, val) = [tag |-> "int32", bits |-> val]
      BY <2>1, <2>2 DEF UINT32_TO_JSVALUE
    <3>3. Number(ToJS(type, val)) = AsInt32(val)
      BY <3>2 DEF Number, TagValueNull, TagValueFalse, TagValueTrue
    <3> QED
      BY <3>1, <3>3 DEF AsInt32
  <2>3. CASE ~(val <= MAX_INT32)
    BY <2>1, <2>3, Tags DEF UINT32_TO_JSVALUE
  <2> QED
    BY <2>2, <2>3
<1>4. CASE type = "i64_fast"
  <2>1. val \in Int64 \ {MAX_INT32} /\ ToJS(type, val) = INT64_TO_JSVALUE(val)
    BY <1>4 DEF CValues, ToJS, Slips
  <2>2. CASE val >= -MAX_INT32 /\ val <= MAX_INT32
    <3>1. val \in Int32
      BY <2>1, <2>2, Widths DEF Int32, Int64
    <3> QED
      BY <2>1, <2>2, <3>1, Tags, SignSurvives DEF INT64_TO_JSVALUE
  <2>3. CASE ~(val >= -MAX_INT32 /\ val <= MAX_INT32)
    BY <2>1, <2>3, Tags DEF INT64_TO_JSVALUE
  <2> QED
    BY <2>2, <2>3
<1>5. CASE type = "u64_fast"
  <2>1. val \in UInt64 /\ ToJS(type, val) = UINT64_TO_JSVALUE(val)
    BY <1>5 DEF CValues, ToJS
  <2>2. CASE val < MAX_INT32
    <3>1. val \in Int32
      BY <2>1, <2>2, Widths DEF Int32, UInt64
    <3> QED
      BY <2>1, <2>2, <3>1, Tags, SignSurvives DEF UINT64_TO_JSVALUE
  <2>3. CASE ~(val < MAX_INT32)
    BY <2>1, <2>3, Tags DEF UINT64_TO_JSVALUE
  <2> QED
    BY <2>2, <2>3
<1>6. CASE type \in {"int64_t", "uint64_t", "double"}
  BY <1>6, Tags DEF ToJS
<1>7. CASE type = "ptr"
  <2>1. ToJS(type, val) = PTR_TO_JSVALUE(val)
    BY <1>7 DEF ToJS
  <2>2. Number(TagValueNull) = 0
    BY DEF Number, TagValueNull, TagValueFalse, TagValueTrue
  <2> QED
    BY <2>1, <2>2, Tags DEF PTR_TO_JSVALUE
<1> QED
  BY <1>1, <1>2, <1>3, <1>4, <1>5, <1>6, <1>7 DEF ABITypes

\* The two slips are real at every width: 2^31 is read as its negative.
THEOREM SlipsNegate ==
  ASSUME NEW type, Slips(type, MAX_INT32)
  PROVE  Number(ToJS(type, MAX_INT32)) = -MAX_INT32
<1>1. AsInt32(MAX_INT32) = -MAX_INT32
  BY Widths DEF AsInt32
<1>2. MAX_INT32 % Word32 = MAX_INT32
  BY Widths
<1>3. CASE type = "uint32_t"
  <2>1. ToJS(type, MAX_INT32) = [tag |-> "int32", bits |-> MAX_INT32]
    BY <1>3, Widths DEF ToJS, UINT32_TO_JSVALUE
  <2> QED
    BY <1>1, <2>1 DEF Number, TagValueNull, TagValueFalse, TagValueTrue
<1>4. CASE type = "i64_fast"
  <2>1. ToJS(type, MAX_INT32) = INT32_TO_JSVALUE(MAX_INT32)
    BY <1>4, Widths DEF ToJS, INT64_TO_JSVALUE
  <2> QED
    BY <1>1, <1>2, <2>1, Tags
<1> QED
  BY <1>3, <1>4 DEF Slips

\* Two's complement and back, at 64 bits.
LEMMA WrappedBack ==
  ASSUME NEW val \in Int64
  PROVE  Wrap64(val) = val
<1> DEFINE half == Word64 \div 2
<1>1. half \in Nat /\ Word64 = 2 * half
  BY WidthAssumption
<1>2. val \in -half .. half - 1
  BY DEF Int64
<1> HIDE DEF half
<1>3. CASE val >= 0
  <2>1. val % Word64 = val
    BY <1>1, <1>2, <1>3
  <2> QED
    BY <1>1, <1>2, <1>3, <2>1 DEF Wrap64
<1>4. CASE val < 0
  <2>1. val % Word64 = val + Word64
    BY <1>1, <1>2, <1>4
  <2> QED
    BY <1>1, <1>2, <1>4, <2>1 DEF Wrap64
<1> QED
  BY <1>1, <1>2, <1>3, <1>4

\* An int32_t that was tagged is found again behind its tag, by each of the three
\* decoders that accept it; a double behind the number test; a BigInt last.
LEMMA TagDecoded ==
  ASSUME NEW val \in Int32
  PROVE  /\ JSVALUE_TO_INT32(INT32_TO_JSVALUE(val)) = val
         /\ JSVALUE_TO_INT64(INT32_TO_JSVALUE(val)) = val
         /\ JSVALUE_TO_UINT64(INT32_TO_JSVALUE(val)) = val % Word64
<1> DEFINE v == INT32_TO_JSVALUE(val)
<1>1. val % Word32 \in 0 .. Word32 - 1
  BY Widths DEF Int32
<1>2. (val % Word32) % Word32 = val % Word32
  BY <1>1, Widths
<1>3. v.tag = "int32" /\ v.bits = val % Word32
  BY DEF INT32_TO_JSVALUE
<1>4. JSVALUE_TO_INT32(v) = val
  BY <1>2, <1>3, SignSurvives DEF JSVALUE_TO_INT32
<1>5. JSVALUE_IS_INT32(v)
  BY <1>3, Tags
<1> QED
  BY <1>4, <1>5 DEF JSVALUE_TO_INT64, JSVALUE_TO_UINT64

LEMMA DoubleDecoded ==
  ASSUME NEW val
  PROVE  /\ JSVALUE_TO_DOUBLE(DOUBLE_TO_JSVALUE(val)) = val
         /\ JSVALUE_TO_INT64(DOUBLE_TO_JSVALUE(val)) = val
         /\ JSVALUE_TO_UINT64(DOUBLE_TO_JSVALUE(val)) = val % Word64
<1>1. JSVALUE_TO_DOUBLE(DOUBLE_TO_JSVALUE(val)) = val
  BY DEF JSVALUE_TO_DOUBLE, DOUBLE_TO_JSVALUE
<1> QED
  BY <1>1, Tags DEF JSVALUE_TO_INT64, JSVALUE_TO_UINT64

LEMMA BigIntDecoded ==
  ASSUME NEW val
  PROVE  /\ JSVALUE_TO_INT64(INT64_TO_JSVALUE_SLOW(val)) = Wrap64(val)
         /\ JSVALUE_TO_UINT64(UINT64_TO_JSVALUE_SLOW(val)) = val % Word64
  BY DEF JSVALUE_TO_INT64, JSVALUE_TO_UINT64, INT64_TO_JSVALUE_SLOW, UINT64_TO_JSVALUE_SLOW,
     JSVALUE_IS_INT32, JSVALUE_IS_NUMBER, JSCELL_IS_TYPED_ARRAY, JSVALUE_IS_CELL,
     JSVALUE_TO_INT64_SLOW, JSVALUE_TO_UINT64_SLOW

\* The types whose values come back to C as they went: not uint32_t, which is
\* decoded from a double's mantissa once it needs a double.
Returning == ABITypes \ {"uint32_t"}

\* A value that C gives to a script and the script gives back is the same value.
THEOREM RoundTrip ==
  ASSUME NEW type \in Returning, NEW val \in CValues(type), ~Slips(type, val)
  PROVE  ToC(type, ToJS(type, val)) = val
<1> DEFINE v == ToJS(type, val)
<1>1. CASE type = "bool"
  BY <1>1 DEF CValues, ToJS, ToC, BOOLEAN_TO_JSVALUE, JSVALUE_TO_BOOL, TagValueFalse,
     TagValueTrue
<1>2. CASE type = "int32_t"
  <2>1. val \in Int32 /\ v = INT32_TO_JSVALUE(val) /\ ToC(type, v) = JSVALUE_TO_INT32(v)
    BY <1>2 DEF CValues, ToJS, ToC
  <2> QED
    BY <2>1, TagDecoded
<1>3. CASE type = "int64_t"
  <2>1. val \in Int64 /\ v = INT64_TO_JSVALUE_SLOW(val) /\ ToC(type, v) = JSVALUE_TO_INT64(v)
    BY <1>3 DEF CValues, ToJS, ToC
  <2> QED
    BY <2>1, BigIntDecoded, WrappedBack
<1>4. CASE type = "i64_fast"
  <2>1. /\ val \in Int64 \ {MAX_INT32}
        /\ v = INT64_TO_JSVALUE(val) /\ ToC(type, v) = JSVALUE_TO_INT64(v)
    BY <1>4 DEF CValues, ToJS, ToC, Slips
  <2>2. CASE val >= -MAX_INT32 /\ val <= MAX_INT32
    <3>1. val \in Int32
      BY <2>1, <2>2, Widths DEF Int32, Int64
    <3> QED
      BY <2>1, <2>2, <3>1, TagDecoded DEF INT64_TO_JSVALUE
  <2>3. CASE ~(val >= -MAX_INT32 /\ val <= MAX_INT32)
    <3>1. v \in {DOUBLE_TO_JSVALUE(val), INT64_TO_JSVALUE_SLOW(val)}
      BY <2>1, <2>3 DEF INT64_TO_JSVALUE
    <3> QED
      BY <2>1, <3>1, DoubleDecoded, BigIntDecoded, WrappedBack
  <2> QED
    BY <2>2, <2>3
<1>5. CASE type = "uint64_t"
  <2>1. val \in UInt64 /\ v = UINT64_TO_JSVALUE_SLOW(val) /\ ToC(type, v) = JSVALUE_TO_UINT64(v)
    BY <1>5 DEF CValues, ToJS, ToC
  <2> QED
    BY <2>1, BigIntDecoded, WordSurvives
<1>6. CASE type = "u64_fast"
  <2>1. val \in UInt64 /\ v = UINT64_TO_JSVALUE(val) /\ ToC(type, v) = JSVALUE_TO_UINT64(v)
    BY <1>6 DEF CValues, ToJS, ToC
  <2>2. CASE val < MAX_INT32
    <3>1. val \in Int32
      BY <2>1, <2>2, Widths DEF Int32, UInt64
    <3> QED
      BY <2>1, <2>2, <3>1, TagDecoded, WordSurvives DEF UINT64_TO_JSVALUE
  <2>3. CASE ~(val < MAX_INT32)
    <3>1. v \in {DOUBLE_TO_JSVALUE(val), UINT64_TO_JSVALUE_SLOW(val)}
      BY <2>1, <2>3 DEF UINT64_TO_JSVALUE
    <3> QED
      BY <2>1, <3>1, DoubleDecoded, BigIntDecoded, WordSurvives
  <2> QED
    BY <2>2, <2>3
<1>7. CASE type = "ptr"
  <2>1. v = PTR_TO_JSVALUE(val) /\ ToC(type, v) = JSVALUE_TO_PTR(v)
    BY <1>7 DEF ToJS, ToC
  <2>2. CASE val = 0
    BY <2>1, <2>2 DEF PTR_TO_JSVALUE, JSVALUE_TO_PTR
  <2>3. CASE val # 0
    <3>1. v = DOUBLE_TO_JSVALUE(val)
      BY <2>1, <2>3 DEF PTR_TO_JSVALUE
    <3>2. v.tag = "double" /\ v # TagValueNull /\ ~JSCELL_IS_TYPED_ARRAY(v)
      BY <3>1 DEF DOUBLE_TO_JSVALUE, TagValueNull, JSCELL_IS_TYPED_ARRAY, JSVALUE_IS_CELL
    <3> QED
      BY <2>1, <3>1, <3>2, DoubleDecoded DEF JSVALUE_TO_PTR
  <2> QED
    BY <2>2, <2>3
<1>8. CASE type = "double"
  BY <1>8, DoubleDecoded DEF ToJS, ToC
<1> QED
  BY <1>1, <1>2, <1>3, <1>4, <1>5, <1>6, <1>7, <1>8 DEF Returning, ABITypes

-----------------------------------------------------------------------------

ShapeSet == [argc : Nat, threadsafe : BOOLEAN, returns : ABITypes \cup {"void"}]

Frames == [kind : {"script", "native", "callback"}, fn : Cells \cup {None},
           cb : Callbacks \cup {None}, type : ABITypes \cup {"void"}]

CallbacksTyped ==
    /\ function \in [Callbacks -> [step : {"pending", "failed", "compiled"},
                                   shape : ShapeSet \cup {None}, wrapper : BOOLEAN]]
    /\ wrapped \in [Callbacks -> Functions \cup {None}]
    /\ deletes \in [Callbacks -> Nat]

\* A wrapper lives from a compilation to the first close; a failed compilation
\* leaves one that nobody deletes.
Wrapping ==
    \A cb \in Callbacks :
        /\ function[cb].step = "pending" => /\ ~function[cb].wrapper /\ wrapped[cb] = None
                                            /\ deletes[cb] = 0
        /\ function[cb].step = "failed" => ~function[cb].wrapper /\ deletes[cb] = 0
        /\ function[cb].wrapper => wrapped[cb] \in Functions /\ deletes[cb] = 0
        /\ function[cb].step = "compiled" /\ ~function[cb].wrapper
             => wrapped[cb] = None /\ deletes[cb] = 1

\* The other thread calls a callback that is open, or was closed under it.
Racing ==
    /\ dangling \subseteq raced
    /\ thread # IdleThread => /\ thread.cb \in Callbacks
                              /\ function[thread.cb].wrapper \/ thread.cb \in raced

\* Calls nest on the main script.
Nesting == stack \in Seq(Frames) /\ Len(stack) > 0 /\ stack[1].kind = "script"

\* A posted call, and one that the other thread has begun, with arguments from A.
TaskSet(A) == [fn : Functions, cb : Callbacks, args : A, sent : A, swept : BOOLEAN]
CallSet(A) == [cb : Callbacks \cup {None}, args : A, swept : BOOLEAN]

TasksTyped ==
    /\ \E A : tasks \in Seq(TaskSet(A))
    /\ \E A : thread \in CallSet(A)

\* Everything that may be called is alive.
Living ==
    /\ kept \subseteq alive /\ tracked \subseteq alive
    /\ \A cb \in Callbacks : wrapped[cb] # None => wrapped[cb] \in alive
    /\ \A i \in 1..Len(stack) : stack[i].fn \in alive \cup {None}
    /\ \A i \in 1..Len(tasks) : tasks[i].fn \in alive

FInv == CallbacksTyped /\ Wrapping /\ Racing /\ Nesting /\ TasksTyped /\ Living

LEMMA Distinct == None \notin Functions /\ None \notin Natives
  BY FFIAssumption DEF FFIAssumption

LEMMA FInvInit == Init => FInv
<1>. SUFFICES ASSUME Init PROVE FInv
  OBVIOUS
<1>. USE DEF Init
<1>1. CallbacksTyped  BY DEF CallbacksTyped, NoFunction
<1>2. Wrapping  BY DEF Wrapping, NoFunction
<1>3. Racing  BY DEF Racing
<1>4. Nesting
  <2>1. Script \in Frames  BY DEF Script, Frame, Frames
  <2>2. stack \in Seq(Frames) /\ Len(stack) = 1 /\ stack[1] = Script  BY <2>1
  <2>3. Script.kind = "script"  BY DEF Script, Frame
  <2>. QED  BY <2>2, <2>3 DEF Nesting
<1>5. TasksTyped
  <2>1. tasks \in Seq(TaskSet({}))
    OBVIOUS
  <2>2. thread \in CallSet({<<>>})
    BY DEF IdleThread, CallSet
  <2>. QED  BY <2>1, <2>2 DEF TasksTyped
<1>6. Living  BY DEF Living, Script, Frame
<1>. QED  BY <1>1, <1>2, <1>3, <1>4, <1>5, <1>6 DEF FInv

-----------------------------------------------------------------------------
\* The actions by what they change.
Cell == \E n \in Natives : \/ \E strong \in BOOLEAN : CreateWithData(n, strong)
                           \/ CreateSymbol(n) \/ Untrack(n)
Drops == CatchPending \/ \E c \in Cells : Drop(c)
Compiles == \E cb \in Callbacks, f \in Functions :
              \/ \E shape \in Shapes[cb] : Compile(cb, f, shape)
              \/ CompileFails(cb, f)
Closes == \E cb \in Callbacks : CloseCallback(cb)
Enters == \/ \E n \in Natives : \E i \in DOMAIN Sent : CallNative(n, Sent[i])
          \/ \E cb \in Callbacks : \E i \in Starts : CallBack(cb, i)
          \/ RunTask
Leaves == \/ \E i \in DOMAIN Sent : ReturnNative(Sent[i])
          \/ \E v \in Results : ReturnFromCallback(v)
          \/ Throw
Posts == \/ \E cb \in Callbacks : \E i \in Starts : ThreadCalls(cb, i) \/ PostHere(cb, i)
         \/ ThreadPosts

LEMMA Actions ==
  Next => Cell \/ Drops \/ Collect \/ Compiles \/ Closes \/ Enters \/ Leaves \/ Posts
  BY DEF Next, Cell, Drops, Compiles, Closes, Enters, Leaves, Posts

\* The callbacks' structs change in three places only.
LEMMA SameCallbacks ==
  Cell \/ Drops \/ Collect \/ Enters \/ Leaves \/ Posts => UNCHANGED callbackVars
  BY DEF Cell, CreateWithData, CreateSymbol, Untrack, Drops, Drop, CatchPending, Collect,
         Enters, CallNative, CallBack, RunTask, Leaves, ReturnNative, ReturnFromCallback,
         Throw, Posts, ThreadCalls, PostHere, ThreadPosts

LEMMA SameStack ==
  Cell \/ Drops \/ Collect \/ Compiles \/ Closes \/ Posts => UNCHANGED stack
  BY DEF Cell, CreateWithData, CreateSymbol, Untrack, Drops, Drop, CatchPending, Collect,
         Compiles, Compile, CompileFails, Closes, CloseCallback, Posts, ThreadCalls, PostHere,
         ThreadPosts

LEMMA SameTasks ==
  Cell \/ Drops \/ Compiles \/ Closes \/ Leaves => UNCHANGED tasks
  BY DEF Cell, CreateWithData, CreateSymbol, Untrack, Drops, Drop, CatchPending, Compiles,
         Compile, CompileFails, Closes, CloseCallback, Leaves, ReturnNative,
         ReturnFromCallback, Throw, threadVars

LEMMA SameThread ==
  Cell \/ Drops \/ Compiles \/ Closes \/ Enters \/ Leaves => UNCHANGED thread
  BY DEF Cell, CreateWithData, CreateSymbol, Untrack, Drops, Drop, CatchPending, Compiles,
         Compile, CompileFails, Closes, CloseCallback, Leaves, ReturnNative,
         ReturnFromCallback, Throw, Enters, CallNative, CallBack, RunTask, threadVars

\* The tasks by their fields, and what a collection leaves of them and of the call on
\* the other thread.
LEMMA TaskFields ==
  ASSUME TasksTyped
  PROVE  /\ Len(tasks) \in Nat /\ DOMAIN tasks = 1..Len(tasks)
         /\ \A i \in 1..Len(tasks) : tasks[i].fn \in Functions /\ tasks[i].cb \in Callbacks
<1>1. PICK A : tasks \in Seq(TaskSet(A))
  BY DEF TasksTyped
<1>2. \A i \in 1..Len(tasks) : tasks[i] \in TaskSet(A)
  BY <1>1
<1>. QED  BY <1>1, <1>2 DEF TaskSet

LEMMA SweepKeeps ==
  ASSUME TasksTyped, Collect
  PROVE  /\ TasksTyped' /\ Len(tasks') = Len(tasks)
         /\ \A i \in 1..Len(tasks) :
              /\ tasks'[i].fn = tasks[i].fn /\ tasks'[i].cb = tasks[i].cb
              /\ tasks'[i].args = tasks[i].args /\ tasks'[i].sent = tasks[i].sent
         /\ thread'.cb = thread.cb /\ thread'.args = thread.args
         /\ thread = IdleThread => thread' = IdleThread
<1>1. PICK A : tasks \in Seq(TaskSet(A))
  BY DEF TasksTyped
<1>2. PICK B : thread \in CallSet(B)
  BY DEF TasksTyped
<1>3. \A i \in 1..Len(tasks) : tasks[i] \in TaskSet(A)
  BY <1>1
<1>4. /\ tasks' = [i \in 1..Len(tasks) |-> Sweep(tasks[i])]
      /\ thread' = Sweep(thread)
  BY <1>1 DEF Collect
<1>5. ASSUME NEW t \in TaskSet(A)
      PROVE  /\ Sweep(t) \in TaskSet(A) /\ Sweep(t).fn = t.fn /\ Sweep(t).cb = t.cb
             /\ Sweep(t).args = t.args /\ Sweep(t).sent = t.sent
  BY DEF Sweep, TaskSet
<1>6. /\ Sweep(thread) \in CallSet(B) /\ Sweep(thread).cb = thread.cb
      /\ Sweep(thread).args = thread.args
  BY <1>2 DEF Sweep, CallSet
<1>7. Sweep(IdleThread) = IdleThread
  <2>1. (IdleThread.swept \/ InHeap(IdleThread.args)) = FALSE
    BY DEF InHeap, IdleThread
  <2>2. Sweep(IdleThread) = [IdleThread EXCEPT !.swept = FALSE]
    BY <2>1 DEF Sweep
  <2>. QED  BY <2>2 DEF IdleThread
<1>8. \A i \in 1..Len(tasks) : tasks'[i] = Sweep(tasks[i])
  BY <1>4
<1>9. tasks' \in Seq(TaskSet(A)) /\ Len(tasks') = Len(tasks)
  <2>1. tasks' \in [1..Len(tasks) -> TaskSet(A)] /\ Len(tasks) \in Nat
    BY <1>1, <1>3, <1>4, <1>5
  <2>. QED  BY <2>1
<1>. QED  BY <1>3, <1>4, <1>5, <1>6, <1>7, <1>8, <1>9 DEF TasksTyped

-----------------------------------------------------------------------------
\* One lemma for each part of the invariant.
LEMMA CallbacksStep ==
  ASSUME CallbacksTyped, Wrapping, [Next]_vars PROVE CallbacksTyped' /\ Wrapping'
<1>1. CASE UNCHANGED callbackVars
  BY <1>1 DEF callbackVars, CallbacksTyped, Wrapping
<1>2. ASSUME NEW cb \in Callbacks, NEW f \in Functions,
             (\E shape \in Shapes[cb] : Compile(cb, f, shape)) \/ CompileFails(cb, f)
      PROVE  CallbacksTyped' /\ Wrapping'
  <2>1. function[cb].step = "pending" /\ wrapped' = [wrapped EXCEPT ![cb] = f]
        /\ UNCHANGED deletes
    BY <1>2 DEF Compile, CompileFails, NewWrapper
  <2>2. CASE CompileFails(cb, f)
    BY <2>1, <2>2 DEF CompileFails, CallbacksTyped, Wrapping
  <2>3. ASSUME NEW shape \in Shapes[cb], Compile(cb, f, shape)
        PROVE  CallbacksTyped' /\ Wrapping'
    <3>1. shape \in ShapeSet
      BY FFIAssumption DEF FFIAssumption, ShapeSet
    <3>. QED  BY <2>1, <2>3, <3>1 DEF Compile, CallbacksTyped, Wrapping
  <2>. QED  BY <1>2, <2>2, <2>3
<1>3. ASSUME NEW cb \in Callbacks, CloseCallback(cb) PROVE CallbacksTyped' /\ Wrapping'
  <2>1. CASE function[cb].wrapper
    <3>1. /\ function' = [function EXCEPT ![cb].wrapper = FALSE]
          /\ wrapped' = [wrapped EXCEPT ![cb] = None]
          /\ deletes' = [deletes EXCEPT ![cb] = @ + 1]
          /\ function[cb].step = "compiled" /\ deletes[cb] = 0
      BY <1>3, <2>1 DEF CloseCallback, Deinit, Wrapping
    <3>2. CallbacksTyped'
      <4>1. wrapped' \in [Callbacks -> Functions \cup {None}]  BY <3>1 DEF CallbacksTyped
      <4>2. deletes' \in [Callbacks -> Nat]  BY <3>1 DEF CallbacksTyped
      <4>3. function' \in [Callbacks -> [step : {"pending", "failed", "compiled"},
                                         shape : ShapeSet \cup {None}, wrapper : BOOLEAN]]
        <5>. DEFINE S == [step : {"pending", "failed", "compiled"},
                          shape : ShapeSet \cup {None}, wrapper : BOOLEAN]
        <5>1. [function[cb] EXCEPT !.wrapper = FALSE] \in S  BY DEF CallbacksTyped
        <5>2. function' = [function EXCEPT ![cb] = [function[cb] EXCEPT !.wrapper = FALSE]]
          BY <3>1
        <5>. QED  BY <5>1, <5>2 DEF CallbacksTyped
      <4>. QED  BY <4>1, <4>2, <4>3 DEF CallbacksTyped
    <3>3. Wrapping'  BY <3>1 DEF CallbacksTyped, Wrapping
    <3>. QED  BY <3>2, <3>3
  <2>2. CASE ~function[cb].wrapper
    BY <1>3, <2>2, <1>1 DEF CloseCallback, Deinit
  <2>. QED  BY <2>1, <2>2
<1>. QED  BY <1>1, <1>2, <1>3, Actions, SameCallbacks DEF Compiles, Closes, vars

\* A read of a callback's wrapper finds it, or the callback was closed under a call.
LEMMA ReadsOpen ==
  ASSUME CallbacksTyped, Wrapping, Racing, NEW cb \in Callbacks,
         function[cb].wrapper \/ cb \in raced, ReadWrapper(cb), UNCHANGED raced
  PROVE  dangling' \subseteq raced'
<1>1. CASE function[cb].wrapper
  <2>1. wrapped[cb] # None  BY <1>1, Distinct DEF Wrapping
  <2>. QED  BY <2>1 DEF ReadWrapper, Racing
<1>2. CASE cb \in raced  BY <1>2 DEF ReadWrapper, Racing
<1>. QED  BY <1>1, <1>2

LEMMA RacingStep ==
  ASSUME CallbacksTyped, Wrapping, Racing, TasksTyped, [Next]_vars PROVE Racing'
<1>1. ASSUME UNCHANGED <<function, thread, raced, dangling>> PROVE Racing'
  BY <1>1 DEF Racing
<1>2. CASE Cell \/ Drops \/ Leaves
  BY <1>1, <1>2
  DEF Cell, CreateWithData, CreateSymbol, Untrack, Drops, Drop, CatchPending, Leaves,
      ReturnNative, ReturnFromCallback, Throw, callbackVars, threadVars
<1>3. CASE Compiles
  <2>1. PICK cb \in Callbacks : /\ function[cb].step = "pending"
                                /\ \E v : function' = [function EXCEPT ![cb] = v]
                                /\ UNCHANGED <<thread, raced, dangling>>
    <3>1. ASSUME NEW cb \in Callbacks, NEW f \in Functions, CompileFails(cb, f)
          PROVE  function' = [function EXCEPT ![cb] = [function[cb] EXCEPT !.step = "failed"]]
      BY <3>1 DEF CompileFails
    <3>. QED  BY <1>3, <3>1 DEF Compiles, Compile, CompileFails, NewWrapper, threadVars
  <2>2. ~function[cb].wrapper  BY <2>1 DEF Wrapping
  <2>. QED  BY <2>1, <2>2 DEF Racing, CallbacksTyped
<1>4. ASSUME NEW cb \in Callbacks, CloseCallback(cb) PROVE Racing'
  <2>1. /\ UNCHANGED <<thread, dangling>> /\ raced \subseteq raced'
        /\ thread.cb = cb => cb \in raced'
    BY <1>4 DEF CloseCallback, threadVars
  <2>2. \A c \in Callbacks \ {cb} : function'[c] = function[c]
    BY <1>4 DEF CloseCallback, Deinit, CallbacksTyped, callbackVars
  <2>. QED  BY <2>1, <2>2 DEF Racing
<1>5. ASSUME NEW cb \in Callbacks, NEW i \in Starts, CallBack(cb, i) PROVE Racing'
  <2>1. /\ UNCHANGED <<function, thread, raced>> /\ ReadWrapper(cb) /\ function[cb].wrapper
    BY <1>5 DEF CallBack, callbackVars, threadVars
  <2>. QED  BY <2>1, ReadsOpen DEF Racing
<1>6. CASE RunTask \/ \E n \in Natives : \E i \in DOMAIN Sent : CallNative(n, Sent[i])
  BY <1>1, <1>6 DEF RunTask, CallNative, callbackVars, threadVars
<1>7. ASSUME NEW cb \in Callbacks, NEW i \in Starts, ThreadCalls(cb, i) PROVE Racing'
  BY <1>7 DEF ThreadCalls, Racing, callbackVars
<1>8. ASSUME NEW cb \in Callbacks, NEW i \in Starts, PostHere(cb, i) PROVE Racing'
  <2>1. /\ UNCHANGED <<function, thread, raced>> /\ ReadWrapper(cb) /\ function[cb].wrapper
    BY <1>8 DEF PostHere, Post, callbackVars
  <2>. QED  BY <2>1, ReadsOpen DEF Racing
<1>9. CASE ThreadPosts
  <2>1. /\ UNCHANGED <<function, raced>> /\ ReadWrapper(thread.cb) /\ thread # IdleThread
        /\ thread' = IdleThread
    BY <1>9 DEF ThreadPosts, Post, callbackVars
  <2>. QED  BY <2>1, ReadsOpen DEF Racing, IdleThread
<1>10. CASE UNCHANGED vars
  BY <1>1, <1>10 DEF vars, callbackVars, threadVars
<1>11. CASE Collect
  <2>1. UNCHANGED <<function, raced, dangling>>
    BY <1>11 DEF Collect, callbackVars
  <2>. QED  BY <1>11, <2>1, SweepKeeps DEF Racing
<1>. QED
  BY <1>2, <1>3, <1>4, <1>5, <1>6, <1>7, <1>8, <1>9, <1>10, <1>11, Actions
  DEF Closes, Enters, Posts

-----------------------------------------------------------------------------
LEMMA Pushed ==
  ASSUME Nesting, NEW f \in Frames, stack' = Append(stack, f)
  PROVE  Nesting'
  BY DEF Nesting

\* Popped, and the frame below, when the top is not the main script.
LEMMA Unstacked ==
  ASSUME Nesting, Top.kind # "script"
  PROVE  /\ Popped \in Seq(Frames) /\ Len(Popped) = Len(stack) - 1 /\ Len(Popped) > 0
         /\ Len(stack) \in Nat
         /\ \A i \in 1..Len(Popped) : Popped[i] = stack[i]
<1>1. Len(stack) > 1 /\ Len(stack) \in Nat
  BY DEF Nesting, Top
<1>2. /\ Popped \in Seq(Frames) /\ Len(Popped) = Len(stack) - 1
      /\ \A i \in 1..Len(Popped) : Popped[i] = stack[i]
  BY <1>1 DEF Nesting, Popped
<1>. QED  BY <1>1, <1>2

\* The task that is run is the first, and the others move up.
LEMMA TaskRuns ==
  ASSUME TasksTyped, RunTask
  PROVE  /\ TasksTyped' /\ Head(tasks) = tasks[1] /\ 1 \in 1..Len(tasks)
         /\ \A i \in 1..Len(tasks') : i + 1 \in 1..Len(tasks) /\ tasks'[i] = tasks[i + 1]
<1>1. PICK A : tasks \in Seq(TaskSet(A))
  BY DEF TasksTyped
<1>2. tasks' = Tail(tasks) /\ tasks # <<>> /\ UNCHANGED thread
  BY DEF RunTask
<1>3. /\ tasks' \in Seq(TaskSet(A)) /\ Head(tasks) = tasks[1] /\ 1 \in 1..Len(tasks)
      /\ \A i \in 1..Len(tasks') : i + 1 \in 1..Len(tasks) /\ tasks'[i] = tasks[i + 1]
  BY <1>1, <1>2
<1>. QED  BY <1>2, <1>3 DEF TasksTyped

LEMMA RunsFirst ==
  ASSUME Nesting, RunTask PROVE Len(stack') = 2
<1>. DEFINE f == Frame("callback", Head(tasks).fn, Head(tasks).cb, "void")
            S == Frames \cup {f}
<1>1. stack' = Append(stack, f) /\ Len(stack) = 1 /\ stack \in Seq(S) /\ f \in S
  BY DEF RunTask, Nesting
<1>. HIDE DEF f, S
<1>2. Len(Append(stack, f)) = Len(stack) + 1
  BY <1>1, AppendProperties
<1>. QED  BY <1>1, <1>2

LEMMA NestingStep ==
  ASSUME CallbacksTyped, Wrapping, TasksTyped, Nesting, [Next]_vars PROVE Nesting'
<1>1. ASSUME UNCHANGED stack PROVE Nesting'
  BY <1>1 DEF Nesting
<1>2. ASSUME NEW n \in Natives, NEW i \in DOMAIN Sent, CallNative(n, Sent[i]) PROVE Nesting'
  <2>1. Sent[i].type \in ABITypes
    <3>. DEFINE Values == [type : ABITypes, val : Int64 \cup UInt64]
    <3>1. Sent \in Seq(Values)  BY FFIAssumption DEF FFIAssumption
    <3>. HIDE DEF Values
    <3>2. Sent[i] \in Values  BY <3>1
    <3>. QED  BY <3>2 DEF Values
  <2>2. Frame("native", n, None, Sent[i].type) \in Frames
    BY <2>1 DEF Frame, Frames, Cells
  <2>3. stack' = Append(stack, Frame("native", n, None, Sent[i].type))
    BY <1>2 DEF CallNative
  <2>. QED  BY <2>2, <2>3, Pushed
<1>3. ASSUME NEW cb \in Callbacks, NEW i \in Starts, CallBack(cb, i) PROVE Nesting'
  <2>1. Frame("callback", wrapped[cb], cb, "void") \in Frames
    BY <1>3 DEF CallBack, Wrapping, Frame, Frames, Cells
  <2>2. stack' = Append(stack, Frame("callback", wrapped[cb], cb, "void"))
    BY <1>3 DEF CallBack
  <2>. QED  BY <2>1, <2>2, Pushed
<1>4. CASE RunTask
  <2>. DEFINE f == Frame("callback", Head(tasks).fn, Head(tasks).cb, "void")
  <2>1. Head(tasks).fn \in Functions /\ Head(tasks).cb \in Callbacks
    BY <1>4, TaskRuns, TaskFields
  <2>2. f \in Frames
    BY <2>1 DEF Frame, Frames, Cells
  <2>3. stack' = Append(stack, f)
    BY <1>4 DEF RunTask
  <2>. QED  BY <2>2, <2>3, Pushed
<1>5. CASE Leaves
  <2>1. Top.kind # "script" /\ stack' = Popped
    BY <1>5 DEF Leaves, ReturnNative, ReturnFromCallback, Throw
  <2>. QED  BY <2>1, Unstacked DEF Nesting
<1>6. CASE UNCHANGED vars  BY <1>1, <1>6 DEF vars
<1>. QED  BY <1>1, <1>2, <1>3, <1>4, <1>5, <1>6, Actions, SameStack DEF Enters

-----------------------------------------------------------------------------
\* A posted task holds the function of an open wrapper.
LEMMA PostAppends ==
  ASSUME CallbacksTyped, TasksTyped, NEW cb \in Callbacks, NEW args,
         NEW swept \in BOOLEAN, Post(cb, args, swept)
  PROVE  /\ \E A : tasks' \in Seq(TaskSet(A))
         /\ \A i \in 1..Len(tasks') :
              \/ i \in 1..Len(tasks) /\ tasks'[i] = tasks[i]
              \/ /\ wrapped[cb] # None /\ tasks'[i].fn = wrapped[cb] /\ tasks'[i].cb = cb
                 /\ tasks'[i].args = args /\ tasks'[i].sent = args
         /\ Len(tasks) < MaxTasks /\ Len(tasks') \in {Len(tasks), Len(tasks) + 1}
<1>. DEFINE task == [fn |-> wrapped[cb], cb |-> cb, args |-> args, sent |-> args,
                     swept |-> swept]
<1>1. CASE wrapped[cb] = None
  <2>1. tasks' = tasks /\ Len(tasks) < MaxTasks
    BY <1>1 DEF Post
  <2>2. \E A : tasks' \in Seq(TaskSet(A))
    BY <2>1 DEF TasksTyped
  <2>. QED  BY <2>1, <2>2
<1>2. CASE wrapped[cb] # None
  <2>1. tasks' = Append(tasks, task)
    BY <1>2 DEF Post
  <2>2. PICK A : tasks \in Seq(TaskSet(A))
    BY DEF TasksTyped
  <2>. DEFINE B == A \cup {args}
  <2>3. TaskSet(A) \subseteq TaskSet(B) /\ task \in TaskSet(B)
    BY <1>2 DEF TaskSet, CallbacksTyped
  <2>4. tasks \in Seq(TaskSet(B))
    <3>. HIDE DEF B
    <3>1. Seq(TaskSet(A)) \subseteq Seq(TaskSet(B))
      BY <2>3
    <3>. QED  BY <2>2, <3>1
  <2>5. /\ task.fn = wrapped[cb] /\ task.cb = cb
        /\ task.args = args /\ task.sent = args
    OBVIOUS
  <2>. HIDE DEF task, B
  <2>6. tasks' \in Seq(TaskSet(B))
    BY <2>1, <2>3, <2>4
  <2>7. \A i \in 1..Len(tasks') : \/ i \in 1..Len(tasks) /\ tasks'[i] = tasks[i]
                               \/ tasks'[i] = task
    BY <2>1, <2>2
  <2>8. Len(tasks') = Len(tasks) + 1 /\ Len(tasks) < MaxTasks
    BY <2>1, <2>2 DEF Post
  <2>. QED  BY <1>2, <2>5, <2>6, <2>7, <2>8
<1>. QED  BY <1>1, <1>2

LEMMA TasksStep ==
  ASSUME CallbacksTyped, Racing, TasksTyped, [Next]_vars PROVE TasksTyped'
<1>1. ASSUME UNCHANGED <<tasks, thread>> PROVE TasksTyped'
  BY <1>1 DEF TasksTyped
<1>2. ASSUME NEW cb \in Callbacks, NEW i \in Starts, ThreadCalls(cb, i) PROVE TasksTyped'
  <2>. DEFINE args == Arguments(function[cb].shape.argc, i)
  <2>1. thread' = [cb |-> cb, args |-> args, swept |-> FALSE] /\ UNCHANGED tasks
    BY <1>2 DEF ThreadCalls
  <2>. HIDE DEF args
  <2>2. thread' \in CallSet({args})
    BY <2>1 DEF CallSet
  <2>. QED  BY <2>1, <2>2 DEF TasksTyped
<1>3. ASSUME NEW cb \in Callbacks, NEW i \in Starts, PostHere(cb, i) PROVE TasksTyped'
  BY <1>3, PostAppends DEF PostHere, TasksTyped
<1>4. CASE ThreadPosts
  <2>1. thread.swept \in BOOLEAN
    BY DEF TasksTyped, CallSet
  <2>2. IdleThread \in CallSet({<<>>})
    BY DEF IdleThread, CallSet
  <2>. QED  BY <1>4, <2>1, <2>2, PostAppends DEF ThreadPosts, Racing, TasksTyped
<1>5. CASE RunTask  BY <1>5, TaskRuns
<1>6. ASSUME NEW cb \in Callbacks, NEW i \in Starts, CallBack(cb, i) PROVE TasksTyped'
  BY <1>1, <1>6 DEF CallBack, threadVars
<1>7. ASSUME NEW n \in Natives, NEW i \in DOMAIN Sent, CallNative(n, Sent[i]) PROVE TasksTyped'
  BY <1>1, <1>7 DEF CallNative, threadVars
<1>8. CASE UNCHANGED vars  BY <1>1, <1>8 DEF vars, threadVars
<1>9. CASE Collect  BY <1>9, SweepKeeps
<1>. QED
  BY <1>1, <1>2, <1>3, <1>4, <1>5, <1>6, <1>7, <1>8, <1>9, Actions, SameTasks, SameThread
  DEF Enters, Posts

-----------------------------------------------------------------------------
\* A call of a live function, and the end of a call.
LEMMA PushedLives ==
  ASSUME Nesting, NEW f, f.fn \in alive \cup {None}, stack' = Append(stack, f),
         \A i \in 1..Len(stack) : stack[i].fn \in alive \cup {None}
  PROVE  \A i \in 1..Len(stack') : stack'[i].fn \in alive \cup {None}
<1>1. stack \in Seq(Frames \cup {f})
  BY DEF Nesting
<1>2. \A i \in 1..Len(stack') : \/ i \in 1..Len(stack) /\ stack'[i] = stack[i]
                            \/ stack'[i] = f
  BY <1>1
<1>. QED  BY <1>2

LEMMA PoppedLives ==
  ASSUME Nesting, Top.kind # "script", stack' = Popped,
         \A i \in 1..Len(stack) : stack[i].fn \in alive \cup {None}
  PROVE  \A i \in 1..Len(stack') : stack'[i].fn \in alive \cup {None}
  BY Unstacked

LEMMA LivingStep ==
  ASSUME FInv, [Next]_vars PROVE Living'
<1>. USE DEF FInv
<1>1. CASE Cell
  <2>1. /\ kept' \subseteq alive' /\ tracked' \subseteq alive' /\ alive \subseteq alive'
    BY <1>1 DEF Cell, CreateWithData, CreateSymbol, Untrack, Create, Living
  <2>. QED  BY <1>1, <2>1, SameCallbacks, SameStack, SameTasks DEF Living, callbackVars
<1>2. CASE Drops
  <2>1. kept' \subseteq kept /\ UNCHANGED <<tracked, alive>>
    BY <1>2 DEF Drops, Drop, CatchPending, cellVars
  <2>. QED  BY <1>2, <2>1, SameCallbacks, SameStack, SameTasks DEF Living, callbackVars
<1>3. CASE Collect
  <2>1. alive' = alive \cap Rooted /\ UNCHANGED <<kept, tracked>>
    BY <1>3 DEF Collect, cellVars
  <2>2. kept \subseteq alive' /\ tracked \subseteq alive'
    BY <2>1 DEF Living, Rooted
  <2>3. \A cb \in Callbacks : wrapped[cb] # None => wrapped[cb] \in alive'
    BY <2>1 DEF Living, Rooted
  <2>4. \A i \in 1..Len(stack) : stack[i].fn \in alive' \cup {None}
    <3>1. DOMAIN stack = 1..Len(stack)  BY DEF Nesting
    <3>. QED  BY <2>1, <3>1 DEF Living, Rooted
  <2>5. \A i \in 1..Len(tasks) : tasks[i].fn \in alive'
    <3>1. DOMAIN tasks = 1..Len(tasks)  BY TaskFields
    <3>. QED  BY <2>1, <3>1 DEF Living, Rooted
  <2>. QED
    BY <1>3, <2>1, <2>2, <2>3, <2>4, <2>5, SameCallbacks, SameStack, SweepKeeps
    DEF Living, callbackVars
<1>4. CASE Compiles
  <2>1. PICK cb \in Callbacks, f \in kept : wrapped' = [wrapped EXCEPT ![cb] = f]
    BY <1>4 DEF Compiles, Compile, CompileFails, NewWrapper
  <2>2. UNCHANGED <<kept, tracked, alive>>
    BY <1>4 DEF Compiles, Compile, CompileFails, cellVars
  <2>. QED
    BY <1>4, <2>1, <2>2, SameStack, SameTasks DEF Living, CallbacksTyped
<1>5. CASE Closes
  <2>1. PICK cb \in Callbacks : UNCHANGED wrapped \/ wrapped' = [wrapped EXCEPT ![cb] = None]
    BY <1>5 DEF Closes, CloseCallback, Deinit, callbackVars
  <2>2. UNCHANGED <<kept, tracked, alive>>
    BY <1>5 DEF Closes, CloseCallback, cellVars
  <2>. QED
    BY <1>5, <2>1, <2>2, SameStack, SameTasks DEF Living, CallbacksTyped
<1>6. ASSUME NEW n \in Natives, NEW i \in DOMAIN Sent, CallNative(n, Sent[i]) PROVE Living'
  <2>1. /\ n \in alive /\ stack' = Append(stack, Frame("native", n, None, Sent[i].type))
        /\ UNCHANGED <<kept, tracked, alive, wrapped, tasks>>
    BY <1>6 DEF CallNative, Living, callbackVars, cellVars, threadVars
  <2>. QED  BY <2>1, PushedLives DEF Living, Frame
<1>7. ASSUME NEW cb \in Callbacks, NEW i \in Starts, CallBack(cb, i) PROVE Living'
  <2>1. /\ wrapped[cb] \in alive
        /\ stack' = Append(stack, Frame("callback", wrapped[cb], cb, "void"))
        /\ UNCHANGED <<kept, tracked, alive, wrapped, tasks>>
    BY <1>7, Distinct DEF CallBack, Living, Wrapping, callbackVars, cellVars, threadVars
  <2>. QED  BY <2>1, PushedLives DEF Living, Frame
<1>8. CASE RunTask
  <2>. DEFINE f == Frame("callback", Head(tasks).fn, Head(tasks).cb, "void")
  <2>1. /\ stack' = Append(stack, f) /\ UNCHANGED <<kept, tracked, alive, wrapped>>
    BY <1>8 DEF RunTask, callbackVars, cellVars
  <2>2. f.fn \in alive
    BY <1>8, TaskRuns DEF Frame, Living
  <2>3. \A i \in 1..Len(tasks') : tasks'[i].fn \in alive
    BY <1>8, TaskRuns DEF Living
  <2>. QED  BY <2>1, <2>2, <2>3, PushedLives DEF Living
<1>9. CASE Leaves
  <2>1. /\ Top.kind # "script" /\ stack' = Popped
        /\ UNCHANGED <<kept, tracked, alive, wrapped, tasks>>
    BY <1>9
    DEF Leaves, ReturnNative, ReturnFromCallback, Throw, callbackVars, cellVars, threadVars
  <2>. QED  BY <2>1, PoppedLives DEF Living
<1>10. CASE Posts
  <2>1. UNCHANGED <<kept, tracked, alive>>
    BY <1>10 DEF Posts, ThreadCalls, PostHere, ThreadPosts, cellVars
  <2>2. \/ UNCHANGED tasks
        \/ \E cb \in Callbacks : \E args : \E swept \in BOOLEAN : Post(cb, args, swept)
    <3>1. thread.swept \in BOOLEAN
      BY DEF TasksTyped, CallSet
    <3>. QED  BY <1>10, <3>1 DEF Posts, ThreadCalls, PostHere, ThreadPosts, Racing
  <2>3. \A i \in 1..Len(tasks') : tasks'[i].fn \in alive
    BY <2>2, PostAppends DEF Living
  <2>. QED  BY <1>10, <2>1, <2>3, SameCallbacks, SameStack DEF Living, callbackVars
<1>11. CASE UNCHANGED vars
  BY <1>11 DEF vars, callbackVars, cellVars, threadVars, Living
<1>. QED
  BY <1>1, <1>2, <1>3, <1>4, <1>5, <1>6, <1>7, <1>8, <1>9, <1>10, <1>11, Actions DEF Enters

LEMMA FInvAlways == Spec => []FInv
<1>1. FInv /\ [Next]_vars => FInv'
  BY CallbacksStep, RacingStep, NestingStep, TasksStep, LivingStep DEF FInv
<1>. QED  BY <1>1, FInvInit, PTL DEF Spec

-----------------------------------------------------------------------------
\* Whatever the program lets go of and closes, and whenever the collector runs: what is
\* being called, what a posted task or an open callback will call, and what native code
\* holds strongly was not collected.
THEOREM CallsLive == Spec => []CalledAlive
<1>1. FInv => CalledAlive
  <2>. SUFFICES ASSUME FInv PROVE CalledAlive
    OBVIOUS
  <2>1. DOMAIN stack = 1..Len(stack) /\ DOMAIN tasks = 1..Len(tasks)
    BY TaskFields DEF FInv, Nesting
  <2>. QED  BY <2>1, Distinct DEF FInv, Living, Wrapping, CalledAlive
<1>. QED  BY <1>1, FInvAlways, PTL

\* A wrapper is deleted once, and read afterwards only by a call on another thread that
\* its close raced.
THEOREM DeletedUnread == Spec => []NoDanglingRead
<1>1. FInv => NoDanglingRead
  BY DEF FInv, CallbacksTyped, Wrapping, Racing, NoDanglingRead
<1>. QED  BY <1>1, FInvAlways, PTL

\* No wrapper but that of a failed compilation keeps a function whose callbacks are closed.
THEOREM ClosedLetGo == Spec => []ClosedReleases
<1>1. FInv => ClosedReleases
  BY Distinct DEF FInv, CallbacksTyped, Wrapping, ClosedReleases
<1>. QED  BY <1>1, FInvAlways, PTL

-----------------------------------------------------------------------------
\* What crosses: every step's values are exact, and arrive as they were sent.

Words == Int64 \cup UInt64

LEMMA Halves ==
  /\ Word64 \div 2 \in Nat /\ Word64 = 2 * (Word64 \div 2) /\ MAX_INT52 < Word64 \div 2
  /\ MAX_INT32 <= MAX_INT52
<1>. DEFINE half == Word64 \div 2
<1>1. half \in Nat /\ Word64 = 2 * half
  BY WidthAssumption
<1>. HIDE DEF half
<1>2. MAX_INT52 < half /\ MAX_INT32 <= MAX_INT52
  BY <1>1, Widths
<1>. QED  BY <1>1, <1>2 DEF half

LEMMA Fitting ==
  /\ Int32 \subseteq Int64 /\ Doubles \subseteq Int64 /\ UInt32 \subseteq UInt64
  /\ -MAX_INT32 \in Int64 /\ {0, 1, 10} \subseteq UInt64 /\ Word64 \div 2 \in UInt64
  /\ Int64 \subseteq Int /\ UInt64 \subseteq Int
<1>. DEFINE half == Word64 \div 2
<1>1. /\ half \in Nat /\ Word64 = 2 * half /\ MAX_INT52 < half /\ MAX_INT32 <= MAX_INT52
      /\ 10 < Word64
  BY Halves, WidthAssumption
<1>2. Int64 = -half .. half - 1
  BY DEF Int64
<1>. HIDE DEF half
<1>3. Int32 \subseteq Int64 /\ Doubles \subseteq Int64
  BY <1>1, <1>2, Widths DEF Int32, Doubles
<1>4. UInt32 \subseteq UInt64
  BY <1>1, Widths DEF UInt32, UInt64
<1>5. -MAX_INT32 \in Int64 /\ {0, 1, 10} \subseteq UInt64 /\ half \in UInt64
  BY <1>1, <1>2, Widths DEF UInt64
<1>6. Int64 \subseteq Int /\ UInt64 \subseteq Int
  BY <1>1, <1>2, Widths DEF UInt64
<1>. QED  BY <1>3, <1>4, <1>5, <1>6 DEF half

LEMMA InWords ==
  ASSUME NEW type \in ABITypes, NEW val \in CValues(type)
  PROVE  val \in Words
<1>1. 0 .. MAX_INT52 \subseteq Doubles
  BY Widths DEF Doubles
<1>. QED  BY <1>1, Fitting DEF Words, CValues, ABITypes

\* The engine's encoding of a number reads as that number.
LEMMA NumberKept ==
  ASSUME NEW val \in Words PROVE Number(JSNumber(val)) = val
<1>1. CASE val \in Int32
  BY <1>1, Tags, SignSurvives DEF JSNumber
<1>2. CASE val \notin Int32
  BY <1>2, Tags DEF JSNumber
<1>. QED  BY <1>1, <1>2

\* A 64-bit integer is decoded from whichever encoding the engine has picked.
LEMMA WideToC ==
  ASSUME NEW type \in {"int64_t", "i64_fast", "uint64_t", "u64_fast"}, NEW val \in CValues(type)
  PROVE  ToC(type, JSNumber(val)) = val
<1>. DEFINE v == JSNumber(val)
<1>1. v \in {DOUBLE_TO_JSVALUE(val), INT64_TO_JSVALUE_SLOW(val)} \/ val \in Int32
  BY DEF JSNumber
<1>2. val \in Int32 => v = INT32_TO_JSVALUE(val)
  BY DEF JSNumber
<1>3. CASE type \in {"int64_t", "i64_fast"}
  <2>1. val \in Int64 /\ ToC(type, v) = JSVALUE_TO_INT64(v)
    BY <1>3 DEF CValues, ToC
  <2>. QED  BY <1>1, <1>2, <2>1, TagDecoded, DoubleDecoded, BigIntDecoded, WrappedBack
<1>4. CASE type \in {"uint64_t", "u64_fast"}
  <2>1. val \in UInt64 /\ ToC(type, v) = JSVALUE_TO_UINT64(v)
    BY <1>4 DEF CValues, ToC
  <2>2. INT64_TO_JSVALUE_SLOW(val) = UINT64_TO_JSVALUE_SLOW(val)
    BY DEF INT64_TO_JSVALUE_SLOW, UINT64_TO_JSVALUE_SLOW
  <2>. QED  BY <1>1, <1>2, <2>1, <2>2, TagDecoded, DoubleDecoded, BigIntDecoded, WordSurvives
<1>. QED  BY <1>3, <1>4

\* So is a uint32_t that was tagged as an int32.
LEMMA UnsignedDecoded ==
  ASSUME NEW val \in UInt32
  PROVE  ToC("uint32_t", INT32_TO_JSVALUE(val)) = val
<1>1. val % Word32 = val
  BY Widths DEF UInt32
<1>2. JSVALUE_TO_INT32(INT32_TO_JSVALUE(val)) = AsInt32(val)
  BY <1>1 DEF JSVALUE_TO_INT32, INT32_TO_JSVALUE
<1>3. AsInt32(val) % Word32 = val
  <2>1. CASE val < MAX_INT32  BY <1>1, <2>1 DEF AsInt32
  <2>2. CASE ~(val < MAX_INT32)
    <3>1. AsInt32(val) = val - Word32  BY <2>2 DEF AsInt32
    <3>2. (val - Word32) % Word32 = val  BY Widths DEF UInt32
    <3>. QED  BY <3>1, <3>2
  <2>. QED  BY <2>1, <2>2
<1>. QED  BY <1>2, <1>3 DEF ToC

\* What a script passes to a native function arrives.
LEMMA WrappedToC ==
  ASSUME NEW type \in ABITypes, NEW val \in CValues(type)
  PROVE  ToC(type, Wrapped(type, JSNumber(val))) = val
<1>1. Number(JSNumber(val)) = val
  BY InWords, NumberKept
<1>2. CASE type = "int32_t"
  <2>1. Wrapped(type, JSNumber(val)) = INT32_TO_JSVALUE(val)
    BY <1>1, <1>2 DEF Wrapped
  <2>. QED  BY <1>2, <2>1, TagDecoded DEF CValues, ToC
<1>3. CASE type = "uint32_t"
  <2>1. Wrapped(type, JSNumber(val)) = INT32_TO_JSVALUE(val)
    BY <1>1, <1>3 DEF Wrapped
  <2>. QED  BY <1>3, <2>1, UnsignedDecoded DEF CValues
<1>4. CASE type = "double"
  <2>1. Wrapped(type, JSNumber(val)) = DOUBLE_TO_JSVALUE(val)
    BY <1>1, <1>4 DEF Wrapped
  <2>. QED  BY <1>4, <2>1, DoubleDecoded DEF ToC
<1>5. CASE type \in {"bool", "ptr"}
  <2>1. Wrapped(type, JSNumber(val)) = ToJS(type, val)
    BY <1>1, <1>5 DEF Wrapped
  <2>. QED  BY <1>5, <2>1, RoundTrip DEF Returning, Slips
<1>6. CASE type \in {"int64_t", "i64_fast", "uint64_t", "u64_fast"}
  BY <1>6, WideToC DEF Wrapped
<1>. QED  BY <1>2, <1>3, <1>4, <1>5, <1>6 DEF ABITypes

\* So does what a callback returns, where its conversion is meant for the encoding.
LEMMA MeantToC ==
  ASSUME NEW type \in ABITypes, NEW val \in CValues(type), Meant(type, JSNumber(val))
  PROVE  ToC(type, JSNumber(val)) = val
<1>. DEFINE v == JSNumber(val)
<1>1. \/ val \in Int32 /\ v = INT32_TO_JSVALUE(val) /\ v.tag = "int32"
      \/ v = DOUBLE_TO_JSVALUE(val) /\ v.tag = "double"
      \/ v = INT64_TO_JSVALUE_SLOW(val) /\ v.tag = "bigint"
  BY DEF JSNumber, INT32_TO_JSVALUE, DOUBLE_TO_JSVALUE, INT64_TO_JSVALUE_SLOW
<1>2. v \notin {TagValueNull, TagValueFalse, TagValueTrue}
  BY <1>1 DEF TagValueNull, TagValueFalse, TagValueTrue
<1>. HIDE DEF v
<1>3. CASE type \in {"int32_t", "uint32_t"}
  <2>1. val \in Int32 /\ v = INT32_TO_JSVALUE(val)
    BY <1>1, <1>3 DEF Meant, JSVALUE_IS_INT32, v
  <2>2. CASE type = "int32_t"  BY <2>1, <2>2, TagDecoded DEF ToC, v
  <2>3. CASE type = "uint32_t"
    <3>1. val \in UInt32  BY <2>3 DEF CValues
    <3>. QED  BY <2>1, <2>3, <3>1, UnsignedDecoded DEF v
  <2>. QED  BY <1>3, <2>2, <2>3
<1>4. CASE type = "double"
  <2>1. v = DOUBLE_TO_JSVALUE(val)
    BY <1>1, <1>4 DEF Meant, v
  <2>. QED  BY <1>4, <2>1, DoubleDecoded DEF ToC, v
<1>5. CASE type = "bool"
  BY <1>2, <1>5 DEF Meant, v
<1>6. CASE type = "ptr"
  <2>1. v = DOUBLE_TO_JSVALUE(val) /\ v.tag = "double" /\ v # TagValueNull
    BY <1>1, <1>2, <1>6 DEF Meant, v
  <2>2. ~JSCELL_IS_TYPED_ARRAY(v)
    BY <2>1 DEF JSCELL_IS_TYPED_ARRAY, JSVALUE_IS_CELL
  <2>3. ToC(type, v) = JSVALUE_TO_PTR(v)
    BY <1>6 DEF ToC
  <2>4. JSVALUE_TO_PTR(v) = JSVALUE_TO_DOUBLE(v)
    BY <2>1, <2>2 DEF JSVALUE_TO_PTR
  <2>. QED  BY <2>1, <2>3, <2>4, DoubleDecoded DEF v
<1>7. CASE type \in {"int64_t", "i64_fast", "uint64_t", "u64_fast"}
  BY <1>7, WideToC
<1>. QED  BY <1>3, <1>4, <1>5, <1>6, <1>7 DEF ABITypes

LEMMA UndefinedUnmeant ==
  ASSUME NEW type \in ABITypes PROVE ~Meant(type, TagValueUndefined)
<1>1. /\ TagValueUndefined.tag = "other"
      /\ TagValueUndefined \notin {TagValueNull, TagValueFalse, TagValueTrue}
  BY DEF TagValueUndefined, TagValueNull, TagValueFalse, TagValueTrue
<1>. QED  BY <1>1 DEF Meant, JSVALUE_IS_INT32, JSVALUE_IS_NUMBER, ABITypes

\* Meant or not, what comes out is a number of C, or the bits of no double.
LEMMA SomethingToC ==
  ASSUME NEW type \in ABITypes, NEW val \in Words, NEW v \in {JSNumber(val), TagValueUndefined}
  PROVE  ToC(type, v) \in Words \cup {NaN} /\ Number(v) \in Words /\ Meant(type, v) \in BOOLEAN
<1>1. \/ val \in Int32 /\ v = INT32_TO_JSVALUE(val) /\ v.tag = "int32" /\ v.bits = val % Word32
      \/ val \in Doubles /\ v.tag = "double" /\ v.bits = val
      \/ v.tag = "bigint" /\ v.bits = val
      \/ v = TagValueUndefined /\ v.tag = "other" /\ v.bits = 10
  BY DEF JSNumber, INT32_TO_JSVALUE, DOUBLE_TO_JSVALUE, INT64_TO_JSVALUE_SLOW, TagValueUndefined
<1>2. v \notin {TagValueNull, TagValueFalse, TagValueTrue}
  BY <1>1 DEF TagValueNull, TagValueFalse, TagValueTrue, TagValueUndefined
<1>3. v.tag \in {"int32", "double", "bigint", "other"} /\ v.bits \in Int
  BY <1>1, Fitting, Widths DEF Words, Int32
<1>4. Number(v) \in Words
  <2>1. CASE v = JSNumber(val)  BY <2>1, NumberKept
  <2>2. CASE v = TagValueUndefined
    <3>1. Number(v) = 10
      BY <2>2 DEF Number, TagValueUndefined, TagValueNull, TagValueFalse, TagValueTrue
    <3>. QED  BY <3>1, Fitting DEF Words
  <2>. QED  BY <2>1, <2>2
<1>5. JSVALUE_TO_INT32(v) \in Int32
  <2>. DEFINE low == IF v.tag = "double" THEN LowBits(v.bits) ELSE v.bits % Word32
  <2>1. low \in 0 .. Word32 - 1
    <3>1. CASE v.tag = "double"
      <4>1. v.bits \in -MAX_INT52 .. MAX_INT52  BY <1>1, <3>1 DEF Doubles
      <4>. QED  BY <3>1, <4>1, WidthAssumption DEF Word32
    <3>2. CASE v.tag # "double"
      <4>1. v.bits % Word32 \in 0 .. Word32 - 1
        BY <1>3, Widths
      <4>. QED  BY <3>2, <4>1
    <3>. QED  BY <3>1, <3>2
  <2>2. JSVALUE_TO_INT32(v) = AsInt32(low)
    BY DEF JSVALUE_TO_INT32
  <2>. HIDE DEF low
  <2>. QED  BY <2>1, <2>2, Widths DEF AsInt32, Int32
<1>6. \A n \in Int : n % Word64 \in UInt64 /\ Wrap64(n) \in Int64
  <2>. DEFINE half == Word64 \div 2
  <2>1. half \in Nat \ {0} /\ Word64 = 2 * half /\ Int64 = -half .. half - 1
    BY Halves, Widths DEF Int64
  <2>2. ASSUME NEW n \in Int PROVE n % Word64 \in 0 .. Word64 - 1
    BY Widths
  <2>. HIDE DEF half
  <2>3. ASSUME NEW n \in Int PROVE Wrap64(n) \in Int64
    <3>1. PICK low \in 0 .. Word64 - 1 : low = n % Word64
      BY <2>2
    <3>2. Wrap64(n) = IF 2 * low < Word64 THEN low ELSE low - Word64
      BY <3>1 DEF Wrap64
    <3>. QED  BY <2>1, <3>1, <3>2
  <2>. QED  BY <2>2, <2>3 DEF UInt64
<1>7. /\ JSVALUE_TO_DOUBLE(v) \in Int64 \cup {NaN}
      /\ v.tag = "double" => JSVALUE_TO_DOUBLE(v) \in Int64
  BY <1>1, Fitting DEF JSVALUE_TO_DOUBLE
<1>8. ~JSCELL_IS_TYPED_ARRAY(v)
  BY <1>3 DEF JSCELL_IS_TYPED_ARRAY
<1>9. JSVALUE_TO_UINT64(v) \in UInt64
  <2>1. JSVALUE_TO_INT32(v) \in Int  BY <1>5, Widths DEF Int32
  <2>2. v.tag = "double" => JSVALUE_TO_DOUBLE(v) \in Int  BY <1>7, Fitting
  <2>. QED
    BY <1>3, <1>6, <1>8, <2>1, <2>2
    DEF JSVALUE_TO_UINT64, JSVALUE_IS_INT32, JSVALUE_IS_NUMBER, JSVALUE_TO_UINT64_SLOW
<1>10. JSVALUE_TO_INT64(v) \in Int64
  BY <1>3, <1>5, <1>6, <1>7, Fitting
  DEF JSVALUE_TO_INT64, JSVALUE_IS_INT32, JSVALUE_IS_NUMBER, JSVALUE_TO_INT64_SLOW
<1>11. JSVALUE_TO_PTR(v) \in Words
  BY <1>2, <1>7, <1>8, Fitting DEF JSVALUE_TO_PTR, Words
<1>12. JSVALUE_TO_INT32(v) % Word32 \in UInt32
  BY <1>5, Widths DEF Int32, UInt32
<1>13. JSVALUE_TO_BOOL(v) \in UInt64
  BY Fitting DEF JSVALUE_TO_BOOL
<1>14. ToC(type, v) \in Words \cup {NaN}
  <2>1. CASE type \in {"bool", "int32_t", "uint32_t"}
    BY <2>1, <1>5, <1>12, <1>13, Fitting DEF ToC, Words
  <2>2. CASE type \in {"i64_fast", "int64_t", "u64_fast", "uint64_t"}
    BY <2>2, <1>9, <1>10 DEF ToC, Words
  <2>3. CASE type \in {"ptr", "double"}
    BY <2>3, <1>7, <1>11 DEF ToC, Words
  <2>. QED  BY <2>1, <2>2, <2>3 DEF ABITypes
<1>15. Meant(type, v) \in BOOLEAN
  <2>1. CASE type \in {"int32_t", "uint32_t"}  BY <2>1 DEF Meant, JSVALUE_IS_INT32
  <2>2. CASE type = "double"  BY <2>2 DEF Meant
  <2>3. CASE type = "bool"
    <3>1. Meant(type, v) = (v \in {TagValueTrue, TagValueFalse})
      BY <2>3 DEF Meant
    <3>2. ~(v \in {TagValueTrue, TagValueFalse})
      BY <1>2
    <3>. QED  BY <3>1, <3>2
  <2>4. CASE type = "ptr"
    <3>1. Meant(type, v) = (v.tag = "double" \/ v = TagValueNull)
      BY <2>4 DEF Meant
    <3>. QED  BY <3>1
  <2>5. CASE type \in {"i64_fast", "int64_t", "u64_fast", "uint64_t"}
    BY <2>5 DEF Meant, JSVALUE_IS_NUMBER
  <2>. QED  BY <2>1, <2>2, <2>3, <2>4, <2>5 DEF ABITypes
<1>. QED  BY <1>4, <1>14, <1>15

\* A crossing whose conversion was meant for its value has kept it, but at the boundary.
Exactly == {x \in Crossings : x.meant => x.val = x.number \/ AtBoundary(x)}

\* Values as they arrive: as they were sent, or in a task without the collected cells.
Arrived(c, depth) == c.seen = c.sent \/ (depth = 2 /\ c.seen = Swept(c.sent))

\* What travels is exact, and what a script is called with is what was sent.
Carrying ==
    /\ thread.args \in Seq(Exactly)
    /\ \A i \in 1..Len(tasks) : tasks[i].args = tasks[i].sent /\ tasks[i].args \in Seq(Exactly)
    /\ Arrived(crossed, Len(stack)) /\ {crossed.seen, crossed.sent} \subseteq Seq(Exactly)

\* A callback has its signature from the moment it is compiled.
Signed ==
    \A cb \in Callbacks : function[cb].shape \in (IF function[cb].step = "compiled"
                                                 THEN Shapes[cb] ELSE {None})

\* Whatever is called, posted or being called was compiled.
Started ==
    /\ thread # IdleThread => function[thread.cb].step = "compiled"
    /\ \A i \in 1..Len(tasks) : function[tasks[i].cb].step = "compiled"
    /\ \A i \in 1..Len(stack) :
         stack[i].kind = "callback" => /\ stack[i].cb \in Callbacks
                                       /\ function[stack[i].cb].step = "compiled"

\* The rest of the types.
Bounded ==
    /\ alive \subseteq Cells /\ tracked \subseteq Natives
    /\ data \in [Natives -> {None, "data", "symbol"}]
    /\ \A i \in 1..Len(stack) :
         stack[i].fn \in (IF stack[i].kind = "script" THEN {None} ELSE Cells)
    /\ Len(tasks) <= MaxTasks /\ dangling \subseteq Callbacks /\ raced \subseteq Callbacks
    /\ exception \in BOOLEAN

LEMMA SentTyped ==
  ASSUME NEW i \in DOMAIN Sent
  PROVE  Sent[i].type \in ABITypes /\ Sent[i].val \in CValues(Sent[i].type)
<1>. DEFINE Values == [type : ABITypes, val : Int64 \cup UInt64]
<1>1. Sent \in Seq(Values) /\ Sent[i].val \in CValues(Sent[i].type)
  BY FFIAssumption DEF FFIAssumption
<1>. HIDE DEF Values
<1>2. Sent[i] \in Values  BY <1>1
<1>. QED  BY <1>1, <1>2 DEF Values

\* A value on its way to a script, to a native function, and back from a callback.
LEMMA ToScript ==
  ASSUME NEW i \in DOMAIN Sent
  PROVE  Crossing(Sent[i].type, Sent[i].val, ToJS(Sent[i].type, Sent[i].val), TRUE) \in Exactly
<1>. DEFINE type == Sent[i].type
            val == Sent[i].val
            n == Number(ToJS(type, val))
            c == IF JSVALUE_IS_CELL(ToJS(type, val)) THEN "live" ELSE "none"
            x == [type |-> type, val |-> val, number |-> n, meant |-> TRUE, cell |-> c]
<1>1. type \in ABITypes /\ val \in CValues(type) /\ val \in Words
  BY SentTyped, InWords
<1>2. n = val \/ (Slips(type, val) /\ n = -MAX_INT32)
  <2>. HIDE DEF type, val
  <2>1. CASE Slips(type, val)
    <3>1. val = MAX_INT32  BY <2>1 DEF Slips
    <3>2. Slips(type, MAX_INT32)  BY <2>1, <3>1
    <3>3. Number(ToJS(type, MAX_INT32)) = -MAX_INT32  BY <3>2, SlipsNegate
    <3>. QED  BY <2>1, <3>1, <3>3
  <2>2. CASE ~Slips(type, val)  BY <1>1, <2>2, ReadExactly
  <2>. QED  BY <2>1, <2>2
<1>3. Crossing(type, val, ToJS(type, val), TRUE) = x
  BY DEF Crossing
<1>. HIDE DEF n, type, val
<1>a. c \in {"none", "live", "gone"}
  OBVIOUS
<1>. HIDE DEF c
<1>4. n \in Words
  BY <1>1, <1>2, Fitting DEF Words
<1>5. x \in Crossings
  BY <1>1, <1>4, <1>a DEF Crossings, Words
<1>6. x.val = x.number \/ AtBoundary(x)
  BY <1>2 DEF AtBoundary, Slips
<1>7. x \in Exactly
  BY <1>5, <1>6 DEF Exactly
<1>. QED  BY <1>3, <1>7 DEF type, val

LEMMA ToNative ==
  ASSUME NEW i \in DOMAIN Sent
  PROVE  LET js == JSNumber(Sent[i].val)
         IN  Crossing(Sent[i].type, ToC(Sent[i].type, Wrapped(Sent[i].type, js)), js, TRUE)
               \in Exactly
<1>. DEFINE type == Sent[i].type
            val == Sent[i].val
            js == JSNumber(val)
            c == IF JSVALUE_IS_CELL(js) THEN "live" ELSE "none"
            x == [type |-> type, val |-> val, number |-> val, meant |-> TRUE, cell |-> c]
<1>1. type \in ABITypes /\ val \in CValues(type) /\ val \in Words
  BY SentTyped, InWords
<1>2. ToC(type, Wrapped(type, js)) = val /\ Number(js) = val
  <2>. HIDE DEF type, val
  <2>. QED  BY <1>1, WrappedToC, NumberKept
<1>3. Crossing(type, ToC(type, Wrapped(type, js)), js, TRUE) = x
  BY <1>2 DEF Crossing
<1>. HIDE DEF type, val
<1>a. c \in {"none", "live", "gone"}
  OBVIOUS
<1>. HIDE DEF c
<1>4. x \in Crossings
  BY <1>1, <1>a DEF Crossings, Words
<1>5. x \in Exactly
  BY <1>4 DEF Exactly
<1>. QED  BY <1>3, <1>5 DEF type, val

LEMMA FromCallback ==
  ASSUME NEW type \in ABITypes,
         NEW v \in {JSNumber(val) : val \in SentOf(type)} \cup {TagValueUndefined}
  PROVE  Crossing(type, ToC(type, v), v, Meant(type, v)) \in Exactly
<1>. DEFINE x == Crossing(type, ToC(type, v), v, Meant(type, v))
<1>1. \A val \in SentOf(type) : val \in CValues(type) /\ val \in Words
  BY SentTyped, InWords DEF SentOf
<1>2. x.type = type /\ x.val = ToC(type, v) /\ x.number = Number(v) /\ x.meant = Meant(type, v)
  BY DEF Crossing
<1>3. ToC(type, v) \in Words \cup {NaN} /\ Number(v) \in Words /\ Meant(type, v) \in BOOLEAN
  <2>1. CASE v = TagValueUndefined
    <3>1. 0 \in Words  BY Fitting DEF Words
    <3>. QED  BY <2>1, <3>1, SomethingToC
  <2>2. CASE v # TagValueUndefined
    <3>1. PICK val \in SentOf(type) : v = JSNumber(val)  BY <2>2
    <3>. QED  BY <1>1, <3>1, SomethingToC
  <2>. QED  BY <2>1, <2>2
<1>4. ASSUME Meant(type, v) PROVE ToC(type, v) = Number(v)
  <2>1. v # TagValueUndefined  BY <1>4, UndefinedUnmeant
  <2>2. PICK val \in SentOf(type) : v = JSNumber(val)  BY <2>1
  <2>3. val \in CValues(type) /\ val \in Words  BY <1>1
  <2>4. ToC(type, JSNumber(val)) = val  BY <1>4, <2>2, <2>3, MeantToC
  <2>5. Number(JSNumber(val)) = val  BY <2>3, NumberKept
  <2>. QED  BY <2>2, <2>4, <2>5
<1>5. x \in Crossings
  BY <1>3 DEF Crossing, Crossings, Words
<1>. QED  BY <1>2, <1>4, <1>5 DEF Exactly

\* The array a trampoline fills.
LEMMA ArgumentsExact ==
  ASSUME NEW argc \in Nat, NEW from \in Starts
  PROVE  Arguments(argc, from) \in Seq(Exactly)
<1>1. Len(Sent) \in Nat \ {0} /\ DOMAIN Sent = 1..Len(Sent) /\ from \in Nat
  BY FFIAssumption DEF FFIAssumption
<1>2. ASSUME NEW i \in 1..argc PROVE ((from + i) % Len(Sent)) + 1 \in DOMAIN Sent
  BY <1>1
<1>3. Arguments(argc, from) \in [1..argc -> Exactly]
  BY <1>2, ToScript DEF Arguments
<1>. QED  BY <1>3

\* Whatever their number, the entry point for it hands over all of them, in order.
LEMMA EnteredAll ==
  ASSUME NEW S, NEW args \in Seq(S)
  PROVE  Entered(args) = args
<1>1. Len(args) \in Nat
  OBVIOUS
<1>2. CASE Len(args) = 0  BY <1>2 DEF Entered, FFI_Callback_call_0
<1>3. CASE Len(args) = 1  BY <1>3 DEF Entered, FFI_Callback_call_1
<1>4. CASE Len(args) = 2  BY <1>4 DEF Entered, FFI_Callback_call_2
<1>5. CASE Len(args) = 3  BY <1>5 DEF Entered, FFI_Callback_call_3
<1>6. CASE Len(args) = 4  BY <1>6 DEF Entered, FFI_Callback_call_4
<1>7. CASE Len(args) = 5  BY <1>7 DEF Entered, FFI_Callback_call_5
<1>8. CASE Len(args) = 6  BY <1>8 DEF Entered, FFI_Callback_call_6
<1>9. CASE Len(args) = 7  BY <1>9 DEF Entered, FFI_Callback_call_7
<1>10. CASE Len(args) \notin 0..7
  BY <1>10 DEF Entered, FFI_Callback_call
<1>. QED  BY <1>1, <1>2, <1>3, <1>4, <1>5, <1>6, <1>7, <1>8, <1>9, <1>10

\* A struct that was compiled stays so, with its signature.
LEMMA CompiledOnce ==
  ASSUME CallbacksTyped, Signed, [Next]_vars
  PROVE  /\ Signed'
         /\ \A cb \in Callbacks : function[cb].step = "compiled"
                                  => function'[cb].step = "compiled"
<1>1. CASE UNCHANGED callbackVars
  BY <1>1 DEF callbackVars, Signed
<1>2. ASSUME NEW cb \in Callbacks, NEW f \in Functions, NEW shape \in Shapes[cb],
             Compile(cb, f, shape)
      PROVE  /\ function[cb].step = "pending" /\ function'[cb].shape \in Shapes[cb]
             /\ function'[cb].step = "compiled"
             /\ \A c \in Callbacks \ {cb} : function'[c] = function[c]
  BY <1>2 DEF Compile, NewWrapper, CallbacksTyped
<1>3. ASSUME NEW cb \in Callbacks, NEW f \in Functions, CompileFails(cb, f)
      PROVE  /\ function[cb].step = "pending" /\ function'[cb].step = "failed"
             /\ function'[cb].shape = function[cb].shape
             /\ \A c \in Callbacks \ {cb} : function'[c] = function[c]
  <2>1. function' = [function EXCEPT ![cb] = [function[cb] EXCEPT !.step = "failed"]]
    BY <1>3 DEF CompileFails
  <2>2. [function[cb] EXCEPT !.step = "failed"].step = "failed"
    BY DEF CallbacksTyped
  <2>3. [function[cb] EXCEPT !.step = "failed"].shape = function[cb].shape
    BY DEF CallbacksTyped
  <2>. QED  BY <1>3, <2>1, <2>2, <2>3 DEF CompileFails, NewWrapper, CallbacksTyped
<1>4. ASSUME NEW cb \in Callbacks, CloseCallback(cb)
      PROVE  \A c \in Callbacks : /\ function'[c].step = function[c].step
                                  /\ function'[c].shape = function[c].shape
  <2>1. CASE function[cb].wrapper
    <3>1. function' = [function EXCEPT ![cb] = [function[cb] EXCEPT !.wrapper = FALSE]]
      BY <1>4, <2>1 DEF CloseCallback, Deinit
    <3>2. /\ [function[cb] EXCEPT !.wrapper = FALSE].step = function[cb].step
          /\ [function[cb] EXCEPT !.wrapper = FALSE].shape = function[cb].shape
      BY DEF CallbacksTyped
    <3>. QED  BY <3>1, <3>2 DEF CallbacksTyped
  <2>2. CASE ~function[cb].wrapper
    BY <1>4, <2>2 DEF CloseCallback, Deinit, callbackVars
  <2>. QED  BY <2>1, <2>2
<1>5. CASE Compiles
  <2>1. PICK cb \in Callbacks, f \in Functions :
          (\E shape \in Shapes[cb] : Compile(cb, f, shape)) \/ CompileFails(cb, f)
    BY <1>5 DEF Compiles
  <2>2. /\ function[cb].step = "pending"
        /\ \/ function'[cb].step = "compiled" /\ function'[cb].shape \in Shapes[cb]
           \/ function'[cb].step = "failed" /\ function'[cb].shape = function[cb].shape
        /\ \A c \in Callbacks \ {cb} : function'[c] = function[c]
    BY <1>2, <1>3, <2>1
  <2>. QED  BY <2>2 DEF Signed
<1>6. CASE Closes
  BY <1>4, <1>6 DEF Closes, Signed
<1>. QED  BY <1>1, <1>5, <1>6, Actions, SameCallbacks DEF vars

LEMMA OpenCompiled ==
  ASSUME CallbacksTyped, Wrapping, NEW cb \in Callbacks, function[cb].wrapper
  PROVE  function[cb].step = "compiled"
  BY DEF CallbacksTyped, Wrapping

LEMMA CompiledShaped ==
  ASSUME Signed, NEW cb \in Callbacks, function[cb].step = "compiled"
  PROVE  /\ function[cb].shape.argc \in Nat
         /\ function[cb].shape.returns \in ABITypes \cup {"void"}
<1>1. function[cb].shape \in ShapeSet
  BY FFIAssumption DEF FFIAssumption, Signed, ShapeSet
<1>. QED  BY <1>1 DEF ShapeSet

\* Where each frame of the next stack comes from.
Comes(g) ==
    \/ \E j \in 1..Len(stack) :
         g.kind = stack[j].kind /\ g.fn = stack[j].fn /\ g.cb = stack[j].cb
    \/ g.kind = "native" /\ g.fn \in Natives
    \/ \E cb \in Callbacks : /\ g.kind = "callback" /\ g.cb = cb
                             /\ function[cb].wrapper /\ g.fn = wrapped[cb]
    \/ 1 \in 1..Len(tasks) /\ g.kind = "callback" /\ g.cb = tasks[1].cb /\ g.fn = tasks[1].fn

LEMMA PushedComes ==
  ASSUME Nesting, NEW f, Comes(f), stack' = Append(stack, f)
  PROVE  \A i \in 1..Len(stack') : Comes(stack'[i])
<1>1. stack \in Seq(Frames \cup {f})
  BY DEF Nesting
<1>2. \A i \in 1..Len(stack') : \/ i \in 1..Len(stack) /\ stack'[i] = stack[i]
                                \/ stack'[i] = f
  BY <1>1
<1>3. \A i \in 1..Len(stack) : Comes(stack[i])
  BY DEF Comes
<1>. QED  BY <1>2, <1>3

LEMMA FramesCome ==
  ASSUME Nesting, TasksTyped, [Next]_vars
  PROVE  \A i \in 1..Len(stack') : Comes(stack'[i])
<1>1. CASE UNCHANGED stack
  BY <1>1 DEF Comes
<1>2. ASSUME NEW n \in Natives, NEW i \in DOMAIN Sent, CallNative(n, Sent[i])
      PROVE  \A k \in 1..Len(stack') : Comes(stack'[k])
  <2>. DEFINE f == Frame("native", n, None, Sent[i].type)
  <2>1. f.kind = "native" /\ f.fn = n
    BY DEF Frame
  <2>2. stack' = Append(stack, f)
    BY <1>2 DEF CallNative
  <2>. HIDE DEF f
  <2>3. Comes(f)  BY <2>1 DEF Comes
  <2>. QED  BY <2>2, <2>3, PushedComes
<1>3. ASSUME NEW cb \in Callbacks, NEW i \in Starts, CallBack(cb, i)
      PROVE  \A k \in 1..Len(stack') : Comes(stack'[k])
  <2>. DEFINE f == Frame("callback", wrapped[cb], cb, "void")
  <2>1. f.kind = "callback" /\ f.fn = wrapped[cb] /\ f.cb = cb
    BY DEF Frame
  <2>2. stack' = Append(stack, f) /\ function[cb].wrapper
    BY <1>3 DEF CallBack
  <2>. HIDE DEF f
  <2>3. Comes(f)  BY <2>1, <2>2 DEF Comes
  <2>. QED  BY <2>2, <2>3, PushedComes
<1>4. CASE RunTask
  <2>. DEFINE f == Frame("callback", Head(tasks).fn, Head(tasks).cb, "void")
  <2>1. f.kind = "callback" /\ f.fn = tasks[1].fn /\ f.cb = tasks[1].cb /\ 1 \in 1..Len(tasks)
    BY <1>4, TaskRuns DEF Frame
  <2>2. stack' = Append(stack, f)
    BY <1>4 DEF RunTask
  <2>. HIDE DEF f
  <2>3. Comes(f)  BY <2>1 DEF Comes
  <2>. QED  BY <2>2, <2>3, PushedComes
<1>5. CASE Leaves
  <2>1. Top.kind # "script" /\ stack' = Popped
    BY <1>5 DEF Leaves, ReturnNative, ReturnFromCallback, Throw
  <2>. QED  BY <2>1, Unstacked DEF Comes
<1>. QED  BY <1>1, <1>2, <1>3, <1>4, <1>5, Actions, SameStack DEF Enters, vars

\* Where each task of the next queue comes from.
SameCall(t, u) == t.cb = u.cb /\ t.args = u.args /\ t.sent = u.sent

LEMMA TasksCome ==
  ASSUME CallbacksTyped, Racing, TasksTyped, [Next]_vars
  PROVE  /\ \A i \in 1..Len(tasks') :
              \/ \E j \in 1..Len(tasks) : SameCall(tasks'[i], tasks[j])
              \/ /\ tasks'[i].sent = tasks'[i].args
                 /\ \/ /\ thread # IdleThread
                       /\ tasks'[i].cb = thread.cb /\ tasks'[i].args = thread.args
                    \/ \E cb \in Callbacks : \E from \in Starts :
                          /\ function[cb].wrapper /\ tasks'[i].cb = cb
                          /\ tasks'[i].args = Arguments(function[cb].shape.argc, from)
         /\ Len(tasks) <= MaxTasks => Len(tasks') <= MaxTasks
<1>. USE DEF SameCall
<1>1. Len(tasks) \in Nat
  BY TaskFields
<1>2. CASE UNCHANGED tasks
  BY <1>2
<1>3. CASE RunTask
  <2>1. \A i \in 1..Len(tasks') : i + 1 \in 1..Len(tasks) /\ tasks'[i] = tasks[i + 1]
    BY <1>3, TaskRuns
  <2>2. Len(tasks') <= Len(tasks) /\ Len(tasks') \in Nat
    <3>1. PICK A : tasks \in Seq(TaskSet(A))  BY DEF TasksTyped
    <3>2. tasks' = Tail(tasks) /\ tasks # <<>>  BY <1>3 DEF RunTask
    <3>. QED  BY <3>1, <3>2
  <2>3. \A i \in 1..Len(tasks') : \E j \in 1..Len(tasks) : SameCall(tasks'[i], tasks[j])
    BY <2>1
  <2>4. Len(tasks) <= MaxTasks => Len(tasks') <= MaxTasks
    BY <1>1, <2>2, FFIAssumption DEF FFIAssumption
  <2>. QED  BY <2>3, <2>4
<1>4. ASSUME NEW cb \in Callbacks, NEW from \in Starts, PostHere(cb, from)
      PROVE  /\ \A i \in 1..Len(tasks') :
                  \/ \E j \in 1..Len(tasks) : SameCall(tasks'[i], tasks[j])
                  \/ /\ tasks'[i].sent = tasks'[i].args
                     /\ function[cb].wrapper /\ tasks'[i].cb = cb
                     /\ tasks'[i].args = Arguments(function[cb].shape.argc, from)
             /\ Len(tasks') <= MaxTasks
  <2>. DEFINE args == Arguments(function[cb].shape.argc, from)
  <2>1. Post(cb, args, FALSE) /\ function[cb].wrapper
    BY <1>4 DEF PostHere
  <2>. HIDE DEF args
  <2>2. /\ \A i \in 1..Len(tasks') :
              \/ i \in 1..Len(tasks) /\ tasks'[i] = tasks[i]
              \/ tasks'[i].cb = cb /\ tasks'[i].args = args /\ tasks'[i].sent = args
        /\ Len(tasks) < MaxTasks /\ Len(tasks') \in {Len(tasks), Len(tasks) + 1}
    BY <2>1, PostAppends
  <2>3. Len(tasks') <= MaxTasks
    BY <1>1, <2>2, FFIAssumption DEF FFIAssumption
  <2>. QED  BY <2>1, <2>2, <2>3 DEF args
<1>5. CASE ThreadPosts
  <2>1. /\ thread # IdleThread /\ thread.cb \in Callbacks
        /\ thread.swept \in BOOLEAN /\ Post(thread.cb, thread.args, thread.swept)
    BY <1>5 DEF ThreadPosts, Racing, TasksTyped, CallSet
  <2>2. /\ \A i \in 1..Len(tasks') :
              \/ i \in 1..Len(tasks) /\ tasks'[i] = tasks[i]
              \/ /\ tasks'[i].cb = thread.cb /\ tasks'[i].args = thread.args
                 /\ tasks'[i].sent = thread.args
        /\ Len(tasks) < MaxTasks /\ Len(tasks') \in {Len(tasks), Len(tasks) + 1}
    BY <2>1, PostAppends
  <2>3. Len(tasks') <= MaxTasks
    BY <1>1, <2>2, FFIAssumption DEF FFIAssumption
  <2>. QED  BY <2>1, <2>2, <2>3
<1>6. ASSUME NEW cb \in Callbacks, NEW i \in Starts, ThreadCalls(cb, i) \/ CallBack(cb, i)
      PROVE  UNCHANGED tasks
  BY <1>6 DEF ThreadCalls, CallBack, threadVars
<1>7. ASSUME NEW n \in Natives, NEW i \in DOMAIN Sent, CallNative(n, Sent[i])
      PROVE  UNCHANGED tasks
  BY <1>7 DEF CallNative, threadVars
<1>8. UNCHANGED vars => UNCHANGED tasks
  BY DEF vars, threadVars
<1>9. CASE Enters
  BY <1>2, <1>3, <1>6, <1>7, <1>9 DEF Enters
<1>10. CASE Posts
  <2>1. ASSUME NEW cb \in Callbacks, NEW i \in Starts, ThreadCalls(cb, i) PROVE UNCHANGED tasks
    BY <2>1, <1>6
  <2>. QED  BY <1>2, <1>4, <1>5, <1>10, <2>1 DEF Posts
<1>11. CASE Collect
  BY <1>1, <1>11, SweepKeeps
<1>. QED  BY <1>2, <1>8, <1>9, <1>10, <1>11, Actions, SameTasks

LEMMA StartedStep ==
  ASSUME FInv, Signed, Started, [Next]_vars PROVE Started'
<1>. USE DEF FInv
<1>1. \A cb \in Callbacks : function[cb].step = "compiled" => function'[cb].step = "compiled"
  BY CompiledOnce
<1>2. \A cb \in Callbacks : function[cb].wrapper => function[cb].step = "compiled"
  BY OpenCompiled
<1>3. thread' # IdleThread => /\ thread'.cb \in Callbacks
                              /\ function'[thread'.cb].step = "compiled"
  <2>1. CASE UNCHANGED thread
    BY <1>1, <2>1 DEF Started, Racing
  <2>2. ASSUME NEW cb \in Callbacks, NEW i \in Starts, ThreadCalls(cb, i)
        PROVE  thread'.cb = cb /\ function[cb].wrapper
    BY <2>2 DEF ThreadCalls
  <2>3. ASSUME NEW cb \in Callbacks, NEW i \in Starts, PostHere(cb, i) PROVE UNCHANGED thread
    BY <2>3 DEF PostHere
  <2>4. ThreadPosts => thread' = IdleThread
    BY DEF ThreadPosts
  <2>5. CASE Posts
    BY <1>1, <1>2, <2>1, <2>2, <2>3, <2>4, <2>5 DEF Posts
  <2>6. CASE Collect
    <3>1. thread'.cb = thread.cb /\ (thread = IdleThread => thread' = IdleThread)
      BY <2>6, SweepKeeps
    <3>. QED  BY <1>1, <3>1 DEF Started, Racing
  <2>. QED  BY <2>1, <2>5, <2>6, Actions, SameThread DEF vars, threadVars
<1>4. ASSUME NEW i \in 1..Len(tasks') PROVE function'[tasks'[i].cb].step = "compiled"
  <2>1. CASE \E j \in 1..Len(tasks) : tasks'[i].cb = tasks[j].cb
    BY <1>1, <2>1, TaskFields DEF Started
  <2>2. CASE thread # IdleThread /\ tasks'[i].cb = thread.cb
    BY <1>1, <2>2 DEF Started, Racing
  <2>3. CASE \E cb \in Callbacks : function[cb].wrapper /\ tasks'[i].cb = cb
    BY <1>1, <1>2, <2>3
  <2>. QED  BY <2>1, <2>2, <2>3, TasksCome DEF SameCall
<1>5. ASSUME NEW i \in 1..Len(stack'), stack'[i].kind = "callback"
      PROVE  stack'[i].cb \in Callbacks /\ function'[stack'[i].cb].step = "compiled"
  <2>1. Comes(stack'[i])  BY FramesCome
  <2>2. CASE \E j \in 1..Len(stack) : stack'[i].kind = stack[j].kind /\ stack'[i].cb = stack[j].cb
    BY <1>1, <1>5, <2>2 DEF Started
  <2>3. CASE \E cb \in Callbacks : stack'[i].cb = cb /\ function[cb].wrapper
    BY <1>1, <1>2, <2>3
  <2>4. CASE 1 \in 1..Len(tasks) /\ stack'[i].cb = tasks[1].cb
    BY <1>1, <2>4, TaskFields DEF Started
  <2>. QED  BY <1>5, <2>1, <2>2, <2>3, <2>4 DEF Comes
<1>. QED  BY <1>3, <1>4, <1>5 DEF Started

\* A collection takes the values, not their numbers.
LEMMA SweptExactly ==
  ASSUME NEW args \in Seq(Exactly) PROVE Swept(args) \in Seq(Exactly)
<1>1. ASSUME NEW x \in Exactly
      PROVE  [x EXCEPT !.cell = IF @ = "live" THEN "gone" ELSE @] \in Exactly
  BY DEF Exactly, Crossings, AtBoundary
<1>2. DOMAIN args = 1..Len(args) /\ Len(args) \in Nat /\ \A i \in 1..Len(args) : args[i] \in Exactly
  OBVIOUS
<1>3. Swept(args) \in [1..Len(args) -> Exactly]
  BY <1>1, <1>2 DEF Swept
<1>. QED  BY <1>2, <1>3

LEMMA CarryingStep ==
  ASSUME FInv, Signed, Started, Carrying, [Next]_vars PROVE Carrying'
<1>. USE DEF FInv
<1>1. \A cb \in Callbacks : \A from \in Starts :
        function[cb].wrapper => Arguments(function[cb].shape.argc, from) \in Seq(Exactly)
  BY OpenCompiled, CompiledShaped, ArgumentsExact
<1>2. thread'.args \in Seq(Exactly)
  <2>1. CASE UNCHANGED thread
    BY <2>1 DEF Carrying
  <2>2. ASSUME NEW cb \in Callbacks, NEW i \in Starts, ThreadCalls(cb, i)
        PROVE  thread'.args \in Seq(Exactly)
    <3>1. /\ thread'.args = Arguments(function[cb].shape.argc, i)
          /\ function[cb].wrapper
      BY <2>2 DEF ThreadCalls
    <3>. QED  BY <1>1, <3>1
  <2>3. ASSUME NEW cb \in Callbacks, NEW i \in Starts, PostHere(cb, i) PROVE UNCHANGED thread
    BY <2>3 DEF PostHere
  <2>4. ThreadPosts => thread'.args \in Seq(Exactly)
    BY DEF ThreadPosts, IdleThread
  <2>5. CASE Posts
    BY <2>1, <2>2, <2>3, <2>4, <2>5 DEF Posts
  <2>6. Collect => thread'.args = thread.args
    BY SweepKeeps
  <2>. QED  BY <2>1, <2>5, <2>6, Actions, SameThread DEF Carrying, vars, threadVars
<1>3. ASSUME NEW i \in 1..Len(tasks')
      PROVE  tasks'[i].args = tasks'[i].sent /\ tasks'[i].args \in Seq(Exactly)
  <2>1. CASE \E j \in 1..Len(tasks) : SameCall(tasks'[i], tasks[j])
    BY <2>1 DEF Carrying, SameCall
  <2>2. CASE tasks'[i].sent = tasks'[i].args /\ tasks'[i].args = thread.args
    BY <2>2 DEF Carrying
  <2>3. CASE /\ tasks'[i].sent = tasks'[i].args
             /\ \E cb \in Callbacks : \E from \in Starts :
                   /\ function[cb].wrapper
                   /\ tasks'[i].args = Arguments(function[cb].shape.argc, from)
    BY <1>1, <2>3
  <2>. QED  BY <2>1, <2>2, <2>3, TasksCome
<1>. DEFINE Sound(c) == c.seen = c.sent /\ c.seen \in Seq(Exactly)
            Arrives == /\ Arrived(crossed', Len(stack'))
                       /\ {crossed'.seen, crossed'.sent} \subseteq Seq(Exactly)
<1>4. Sound(Nothing)
  BY DEF Nothing
<1>5. ASSUME NEW x \in Exactly, Carry(<<x>>) PROVE Sound(crossed')
  <2>1. crossed'.seen = <<x>> /\ crossed'.sent = <<x>>
    BY <1>5 DEF Carry
  <2>2. <<x>> \in Seq(Exactly)
    OBVIOUS
  <2>. QED  BY <2>1, <2>2
<1>6. UNCHANGED vars => Arrives
  BY DEF vars, Carrying
<1>7. ASSUME Cell \/ Drops \/ Collect \/ Compiles \/ Closes \/ Posts \/ Throw
      PROVE  Sound(crossed')
  <2>1. crossed' = Nothing
    BY <1>7
    DEF Cell, CreateWithData, CreateSymbol, Untrack, Drops, Drop, CatchPending, Collect,
        Compiles, Compile, CompileFails, Closes, CloseCallback, Posts, ThreadCalls, PostHere,
        ThreadPosts, Throw, Quiet
  <2>. QED  BY <1>4, <2>1
<1>8. ASSUME NEW n \in Natives, NEW i \in DOMAIN Sent, CallNative(n, Sent[i])
      PROVE  Sound(crossed')
  <2>. DEFINE js == JSNumber(Sent[i].val)
              x == Crossing(Sent[i].type, ToC(Sent[i].type, Wrapped(Sent[i].type, js)), js, TRUE)
  <2>1. x \in Exactly
    BY ToNative
  <2>2. Carry(<<x>>)
    BY <1>8 DEF CallNative
  <2>. HIDE DEF x
  <2>. QED  BY <1>5, <2>1, <2>2
<1>9. ASSUME NEW cb \in Callbacks, NEW i \in Starts, CallBack(cb, i)
      PROVE  Sound(crossed')
  <2>. DEFINE args == Arguments(function[cb].shape.argc, i)
  <2>1. args \in Seq(Exactly)
    BY <1>1, <1>9 DEF CallBack
  <2>2. crossed' = [seen |-> Entered(args), sent |-> args]
    BY <1>9 DEF CallBack
  <2>. HIDE DEF args
  <2>3. Entered(args) = args
    BY <2>1, EnteredAll
  <2>. QED  BY <2>1, <2>2, <2>3
<1>10. ASSUME RunTask PROVE Arrives
  <2>. DEFINE args == tasks[1].args
  <2>1. /\ args \in Seq(Exactly) /\ args = tasks[1].sent /\ Head(tasks) = tasks[1]
    BY <1>10, TaskRuns DEF Carrying
  <2>2. crossed'.sent = args /\ crossed'.seen \in {args, Swept(args)}
    BY <1>10, <2>1 DEF RunTask, Arriving
  <2>3. Len(stack') = 2
    BY <1>10, RunsFirst
  <2>. HIDE DEF args
  <2>4. Swept(args) \in Seq(Exactly)
    BY <2>1, SweptExactly
  <2>. QED  BY <2>1, <2>2, <2>3, <2>4 DEF Arrived
<1>11. ASSUME NEW i \in DOMAIN Sent, ReturnNative(Sent[i]) PROVE Sound(crossed')
  <2>. DEFINE x == Crossing(Sent[i].type, Sent[i].val, ToJS(Sent[i].type, Sent[i].val), TRUE)
  <2>1. x \in Exactly
    BY ToScript
  <2>2. crossed' = Nothing \/ Carry(<<x>>)
    BY <1>11 DEF ReturnNative, Quiet
  <2>. HIDE DEF x
  <2>. QED  BY <1>4, <1>5, <2>1, <2>2
<1>12. ASSUME NEW v \in Results, ReturnFromCallback(v) PROVE Sound(crossed')
  <2>. DEFINE type == function[Top.cb].shape.returns
              x == Crossing(type, ToC(type, v), v, Meant(type, v))
  <2>1. Top.kind = "callback" /\ (crossed' = Nothing \/ (type # "void" /\ Carry(<<x>>)))
    BY <1>12 DEF ReturnFromCallback, Quiet
  <2>2. v \in {JSNumber(val) : val \in SentOf(type)} \cup {TagValueUndefined}
    BY <1>12 DEF Results
  <2>3. Top.cb \in Callbacks /\ function[Top.cb].step = "compiled"
    BY <2>1 DEF Started, Top, Nesting
  <2>4. type \in ABITypes \cup {"void"}
    BY <2>3, CompiledShaped
  <2>. HIDE DEF type
  <2>5. type # "void" => x \in Exactly
    BY <2>2, <2>4, FromCallback
  <2>. HIDE DEF x
  <2>. QED  BY <1>4, <1>5, <2>1, <2>5
<1>13. Sound(crossed') => Arrives
  BY DEF Arrived
<1>14. Arrives
  <2>. HIDE DEF Sound, Arrives
  <2>. QED  BY <1>6, <1>7, <1>8, <1>9, <1>10, <1>11, <1>12, <1>13, Actions DEF Enters, Leaves
<1>. QED  BY <1>2, <1>3, <1>14 DEF Carrying

\* A read of a wrapper may add its callback to `dangling', and nothing else.
LEMMA DanglingStep ==
  ASSUME Racing, dangling \subseteq Callbacks, [Next]_vars PROVE dangling' \subseteq Callbacks
<1>1. \A cb \in Callbacks : ReadWrapper(cb) => dangling' \subseteq Callbacks
  BY DEF ReadWrapper
<1>2. CASE Posts
  <2>1. ThreadPosts => thread.cb \in Callbacks /\ ReadWrapper(thread.cb)
    BY DEF ThreadPosts, Post, Racing
  <2>2. \A cb \in Callbacks : \A i \in Starts : PostHere(cb, i) => ReadWrapper(cb)
    BY DEF PostHere, Post
  <2>3. \A cb \in Callbacks : \A i \in Starts : ThreadCalls(cb, i) => UNCHANGED dangling
    BY DEF ThreadCalls
  <2>. QED  BY <1>1, <1>2, <2>1, <2>2, <2>3 DEF Posts
<1>3. CASE Enters
  <2>1. \A cb \in Callbacks : \A i \in Starts : CallBack(cb, i) => ReadWrapper(cb)
    BY DEF CallBack
  <2>2. \A n \in Natives : \A i \in DOMAIN Sent : CallNative(n, Sent[i]) => UNCHANGED dangling
    BY DEF CallNative
  <2>3. RunTask => UNCHANGED dangling
    BY DEF RunTask
  <2>. QED  BY <1>1, <1>3, <2>1, <2>2, <2>3 DEF Enters
<1>4. CASE Cell \/ Drops \/ Collect \/ Compiles \/ Closes \/ Leaves
  <2>1. UNCHANGED dangling
    BY <1>4
    DEF Cell, CreateWithData, CreateSymbol, Untrack, Drops, Drop, CatchPending, Collect,
        Compiles, Compile, CompileFails, Closes, CloseCallback, Leaves, ReturnNative,
        ReturnFromCallback, Throw
  <2>. QED  BY <2>1
<1>. QED  BY <1>2, <1>3, <1>4, Actions DEF vars

LEMMA BoundedStep ==
  ASSUME FInv, Bounded, [Next]_vars PROVE Bounded'
<1>. USE DEF FInv
<1>1. Len(tasks') <= MaxTasks
  BY TasksCome DEF Bounded
<1>2. dangling' \subseteq Callbacks
  BY DanglingStep DEF Bounded
<1>3. raced' \subseteq Callbacks
  <2>1. Closes => \E cb \in Callbacks : raced' \subseteq raced \cup {cb}
    BY DEF Closes, CloseCallback
  <2>2. Cell \/ Drops \/ Collect \/ Compiles \/ Enters \/ Leaves \/ Posts => UNCHANGED raced
    BY
    DEF Cell, CreateWithData, CreateSymbol, Untrack, Drops, Drop, CatchPending, Collect,
        Compiles, Compile, CompileFails, Enters, CallNative, CallBack, RunTask, Leaves,
        ReturnNative, ReturnFromCallback, Throw, Posts, ThreadCalls, PostHere, ThreadPosts
  <2>. QED  BY <2>1, <2>2, Actions DEF Bounded, vars
<1>4. ASSUME NEW i \in 1..Len(stack')
      PROVE  stack'[i].fn \in (IF stack'[i].kind = "script" THEN {None} ELSE Cells)
  <2>1. Comes(stack'[i])
    BY FramesCome
  <2>2. CASE \E j \in 1..Len(stack) : stack'[i].kind = stack[j].kind /\ stack'[i].fn = stack[j].fn
    BY <2>2 DEF Bounded
  <2>3. CASE stack'[i].kind = "native" /\ stack'[i].fn \in Natives
    BY <2>3 DEF Cells
  <2>4. CASE \E cb \in Callbacks : /\ stack'[i].kind = "callback" /\ function[cb].wrapper
                                   /\ stack'[i].fn = wrapped[cb]
    BY <2>4 DEF Wrapping, Cells
  <2>5. CASE 1 \in 1..Len(tasks) /\ stack'[i].kind = "callback" /\ stack'[i].fn = tasks[1].fn
    BY <2>5, TaskFields DEF Cells
  <2>. QED  BY <2>1, <2>2, <2>3, <2>4, <2>5 DEF Comes
<1>5. alive' \subseteq Cells /\ tracked' \subseteq Natives
      /\ data' \in [Natives -> {None, "data", "symbol"}]
  <2>1. CASE UNCHANGED <<alive, tracked, data>>
    BY <2>1 DEF Bounded
  <2>2. ASSUME NEW n \in Natives, NEW strong \in BOOLEAN,
               CreateWithData(n, strong) \/ CreateSymbol(n) \/ Untrack(n)
        PROVE  /\ alive' \subseteq alive \cup {n} /\ tracked' \subseteq tracked \cup {n}
               /\ \/ UNCHANGED data \/ data' = [data EXCEPT ![n] = "data"]
                  \/ data' = [data EXCEPT ![n] = "symbol"]
    BY <2>2 DEF CreateWithData, CreateSymbol, Untrack, Create
  <2>3. CASE Cell
    <3>1. PICK n \in Natives, strong \in BOOLEAN :
                 CreateWithData(n, strong) \/ CreateSymbol(n) \/ Untrack(n)
      BY <2>3 DEF Cell
    <3>2. /\ alive' \subseteq alive \cup {n} /\ tracked' \subseteq tracked \cup {n}
          /\ \/ UNCHANGED data \/ data' = [data EXCEPT ![n] = "data"]
             \/ data' = [data EXCEPT ![n] = "symbol"]
      BY <2>2, <3>1
    <3>. QED  BY <3>2 DEF Bounded, Cells
  <2>4. CASE Collect
    <3>1. alive' \subseteq alive /\ UNCHANGED <<tracked, data>>
      BY <2>4 DEF Collect, cellVars
    <3>. QED  BY <3>1 DEF Bounded
  <2>5. CASE Drops \/ Compiles \/ Closes \/ Enters \/ Leaves \/ Posts
    <3>1. UNCHANGED <<alive, tracked, data>>
      BY <2>5
      DEF Drops, Drop, CatchPending, Compiles, Compile, CompileFails, Closes, CloseCallback, Enters,
          CallNative, CallBack, RunTask, Leaves, ReturnNative, ReturnFromCallback, Throw, Posts,
          ThreadCalls, PostHere, ThreadPosts, cellVars
    <3>. QED  BY <2>1, <3>1
  <2>. QED  BY <2>1, <2>3, <2>4, <2>5, Actions DEF vars, cellVars
<1>6. exception' \in BOOLEAN
  <2>1. CASE Leaves
    BY <2>1 DEF Leaves, ReturnNative, ReturnFromCallback, Throw, Bounded
  <2>2. CASE Drops
    BY <2>2 DEF Drops, Drop, CatchPending, Bounded
  <2>3. Cell \/ Collect \/ Compiles \/ Closes \/ Enters \/ Posts => UNCHANGED exception
    BY
    DEF Cell, CreateWithData, CreateSymbol, Untrack, Collect, Compiles, Compile, CompileFails,
        Closes, CloseCallback, Enters, CallNative, CallBack, RunTask, Posts, ThreadCalls,
        PostHere, ThreadPosts
  <2>. QED  BY <2>1, <2>2, <2>3, Actions DEF Bounded, vars
<1>. QED  BY <1>1, <1>2, <1>3, <1>4, <1>5, <1>6 DEF Bounded

TInv == FInv /\ Signed /\ Started /\ Carrying /\ Bounded

LEMMA TInvAlways == Spec => []TInv
<1>1. Init => TInv
  <2>. SUFFICES ASSUME Init PROVE TInv
    OBVIOUS
  <2>1. FInv  BY FInvInit
  <2>2. Signed  BY DEF Init, NoFunction, Signed
  <2>3. stack = <<Script>> /\ Script.kind = "script" /\ Script.fn = None
    BY DEF Init, Script, Frame
  <2>4. Started  BY <2>3 DEF Init, Started
  <2>5. Carrying  BY DEF Init, Carrying, IdleThread, Nothing, Arrived
  <2>6. Bounded
    <3>1. Len(tasks) <= MaxTasks /\ exception \in BOOLEAN
      <4>1. Len(tasks) = 0 /\ MaxTasks \in Nat
        BY FFIAssumption DEF FFIAssumption, Init
      <4>2. exception \in BOOLEAN
        BY DEF Init
      <4>. QED  BY <4>1, <4>2
    <3>2. \A i \in 1..Len(stack) : stack[i].kind = "script" /\ stack[i].fn = None
      BY <2>3
    <3>. QED  BY <3>1, <3>2 DEF Init, Bounded, Cells
  <2>. QED  BY <2>1, <2>2, <2>4, <2>5, <2>6 DEF TInv
<1>2. TInv /\ [Next]_vars => TInv'
  <2>. SUFFICES ASSUME TInv, [Next]_vars PROVE TInv'
    OBVIOUS
  <2>1. FInv /\ Signed /\ Started /\ Carrying /\ Bounded
    BY DEF TInv
  <2>2. FInv'
    BY <2>1, CallbacksStep, RacingStep, NestingStep, TasksStep, LivingStep DEF FInv
  <2>3. Signed'
    BY <2>1, CompiledOnce DEF FInv
  <2>. QED  BY <2>1, <2>2, <2>3, StartedStep, CarryingStep, BoundedStep DEF TInv
<1>. QED  BY <1>1, <1>2, PTL DEF Spec

\* Everything keeps its type, at any widths: what crosses is a number of C, nothing is
\* deleted more than once, and no queue grows over its bound.
THEOREM TypeCorrect == Spec => []TypeOK
<1>1. TInv => TypeOK
  <2>. SUFFICES ASSUME TInv PROVE TypeOK
    OBVIOUS
  <2>1. /\ CallbacksTyped /\ Wrapping /\ Racing /\ Nesting /\ Living
        /\ Signed /\ Carrying /\ Bounded
    BY DEF TInv, FInv
  <2>2. \A cb \in Callbacks :
          /\ function[cb].step \in {"pending", "failed", "compiled"}
          /\ function[cb].shape \in Shapes[cb] \cup {None} /\ function[cb].wrapper \in BOOLEAN
    BY <2>1 DEF CallbacksTyped, Signed
  <2>3. wrapped \in [Callbacks -> Functions \cup {None}] /\ deletes \in [Callbacks -> 0..2]
    <3>1. \A cb \in Callbacks : deletes[cb] \in 0..2
      BY <2>1, <2>2 DEF Wrapping
    <3>. QED  BY <2>1, <3>1 DEF CallbacksTyped
  <2>4. \A i \in DOMAIN stack :
          /\ stack[i].kind \in {"script", "native", "callback"}
          /\ stack[i].fn \in (IF stack[i].kind = "script" THEN {None} ELSE Cells)
          /\ stack[i].cb \in Callbacks \cup {None}
          /\ stack[i].type \in ABITypes \cup {"void"}
    <3>1. DOMAIN stack = 1..Len(stack) /\ \A i \in 1..Len(stack) : stack[i] \in Frames
      BY <2>1 DEF Nesting
    <3>. QED  BY <2>1, <3>1 DEF Frames, Bounded
  <2>5. Exactly \subseteq Crossings
    BY DEF Exactly
  <2>6. {crossed.seen, crossed.sent} \subseteq Seq(Crossings) /\ thread.args \in Seq(Crossings)
    BY <2>1, <2>5 DEF Carrying
  <2>7. thread.cb \in Callbacks \cup {None}
    BY <2>1 DEF Racing, IdleThread
  <2>8. exception \in BOOLEAN
    BY <2>1 DEF Bounded
  <2>9. alive \subseteq Cells /\ kept \subseteq Cells /\ tracked \subseteq Natives
        /\ data \in [Natives -> {None, "data", "symbol"}] /\ Len(tasks) <= MaxTasks
        /\ dangling \subseteq Callbacks /\ raced \subseteq Callbacks
    BY <2>1 DEF Bounded, Living
  <2>. QED  BY <2>2, <2>3, <2>4, <2>6, <2>7, <2>8, <2>9 DEF TypeOK
<1>. QED  BY <1>1, TInvAlways, PTL

\* A script is called with the arguments that C passed, all of them and in order, at every
\* arity and whenever a posted call runs.  What C passed to a posted call as a BigInt is
\* excepted: nothing roots it, and a collection that comes first takes it.
THEOREM ArgumentsDelivered == Spec => []ArgumentsArrive
<1>1. TInv => ArgumentsArrive
  BY DEF TInv, Carrying, Arrived, ArgumentsArrive
<1>. QED  BY <1>1, TInvAlways, PTL

\* At any widths, every number that crosses for which its conversion is meant, in either
\* direction, is the same on both sides, but for the one boundary value.
THEOREM NumbersExact == Spec => []ExactInside
<1>1. TInv => ExactInside
  <2>. SUFFICES ASSUME TInv PROVE ExactInside
    OBVIOUS
  <2>1. crossed.seen \in Seq(Exactly)
    BY DEF TInv, Carrying
  <2>2. \A i \in DOMAIN crossed.seen : crossed.seen[i] \in Exactly
    BY <2>1
  <2>. QED  BY <2>2 DEF ExactInside, Met, Exactly
<1>. QED  BY <1>1, TInvAlways, PTL
====
