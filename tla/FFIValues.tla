----------------------------- MODULE FFIValues -----------------------------
(***************************************************************************)
(* How a value crosses between C and JavaScript (src/bun.js/api/FFI.h and  *)
(* the two formatters of src/bun.js/api/ffi.zig that choose a conversion   *)
(* for each ABI type).                                                     *)
(*                                                                         *)
(* An EncodedJSValue is a record: the tag its upper bits spell, and what   *)
(* the lower ones hold.  The widths are constants, so that nothing here    *)
(* depends on 2^31 being 2^31: the 32-bit words are 0 .. 2*MAX_INT32 - 1,  *)
(* the 64-bit ones 0 .. Word64 - 1.                                        *)
(***************************************************************************)
EXTENDS Integers

CONSTANTS MAX_INT32,     \* 2147483648: one more than the greatest int32_t
          MAX_INT52,     \* 9007199254740991: doubles are exact up to here and one more
          Word64,        \* 2^64
          LowBits(_),    \* the lower 32 bits of the double encoding of an integer
          NaN            \* what the bits of anything but a double read as

ASSUME WidthAssumption ==
    /\ MAX_INT32 \in Nat \ {0} /\ MAX_INT52 \in Nat /\ Word64 \in Nat
    /\ 2 * MAX_INT32 <= MAX_INT52 /\ 2 * MAX_INT52 < Word64 /\ Word64 % 2 = 0
    /\ 10 < Word64  \* the tags fit
    /\ \A n \in -MAX_INT52 .. MAX_INT52 : LowBits(n) \in 0 .. 2 * MAX_INT32 - 1

Word32 == 2 * MAX_INT32
Int32 == -MAX_INT32 .. MAX_INT32 - 1
UInt32 == 0 .. Word32 - 1
Int64 == -(Word64 \div 2) .. Word64 \div 2 - 1
UInt64 == 0 .. Word64 - 1
Doubles == -MAX_INT52 .. MAX_INT52    \* the integers among them, which is all we need

\* The C types that behave alike are one: the narrower integers are int32_t's,
\* a cstring or a function is a ptr.
ABITypes == {"bool", "int32_t", "uint32_t", "int64_t", "uint64_t", "i64_fast",
             "u64_fast", "ptr", "double"}

CValues(type) ==
    CASE type = "bool" -> {0, 1}
      [] type = "int32_t" -> Int32
      [] type = "uint32_t" -> UInt32
      [] type \in {"int64_t", "i64_fast"} -> Int64
      [] type \in {"uint64_t", "u64_fast"} -> UInt64
      [] type = "ptr" -> 0 .. MAX_INT52
      [] type = "double" -> Doubles

EncodedJSValues ==
    [tag : {"int32"}, bits : UInt32] \cup [tag : {"double"}, bits : Doubles]
      \cup [tag : {"other"}, bits : {2, 6, 7, 10}]
      \cup [tag : {"bigint"}, bits : Int64 \cup UInt64]
      \cup [tag : {"typedarray"}, bits : Doubles, length : Nat]

\* OtherTag, BoolTag and UndefinedTag over each other.
TagValueNull == [tag |-> "other", bits |-> 2]
TagValueFalse == [tag |-> "other", bits |-> 6]
TagValueTrue == [tag |-> "other", bits |-> 7]
TagValueUndefined == [tag |-> "other", bits |-> 10]

\* The engine's own conversions to and from BigInt.
UINT64_TO_JSVALUE_SLOW(val) == [tag |-> "bigint", bits |-> val]
INT64_TO_JSVALUE_SLOW(val) == [tag |-> "bigint", bits |-> val]
Wrap64(n) == LET low == n % Word64 IN IF 2 * low < Word64 THEN low ELSE low - Word64
JSVALUE_TO_UINT64_SLOW(v) == v.bits % Word64
JSVALUE_TO_INT64_SLOW(v) == Wrap64(v.bits)

AsInt32(bits) == IF bits < MAX_INT32 THEN bits ELSE bits - Word32

\* What a script reads in a value.
Number(v) ==
    CASE v.tag = "int32" -> AsInt32(v.bits)
      [] v = TagValueNull \/ v = TagValueFalse -> 0
      [] v = TagValueTrue -> 1
      [] OTHER -> v.bits

---------------------------------------------------------------------------
\* Tests on the tag, which look at the number bits only.

JSVALUE_IS_CELL(v) == v.tag \in {"bigint", "typedarray"}
JSVALUE_IS_INT32(v) == v.tag = "int32"
JSVALUE_IS_NUMBER(v) == v.tag \in {"int32", "double"}
JSCELL_IS_TYPED_ARRAY(v) == JSVALUE_IS_CELL(v) /\ v.tag = "typedarray"
JSVALUE_TO_TYPED_ARRAY_VECTOR(v) == v.bits
JSVALUE_TO_TYPED_ARRAY_LENGTH(v) == v.length

---------------------------------------------------------------------------
\* From C.

INT32_TO_JSVALUE(val) == [tag |-> "int32", bits |-> val % Word32]
DOUBLE_TO_JSVALUE(val) == [tag |-> "double", bits |-> val]
BOOLEAN_TO_JSVALUE(val) == IF val = 1 THEN TagValueTrue ELSE TagValueFalse

UINT32_NEVER_DOUBLE(val) == [tag |-> "int32", bits |-> val]  \* mutant: no test of the sign bit

\* The test lets MAX_INT32 itself through, which is no int32_t.
UINT32_TO_JSVALUE(val) ==
    IF val <= MAX_INT32 THEN [tag |-> "int32", bits |-> val] ELSE DOUBLE_TO_JSVALUE(val)

UINT64_TO_JSVALUE(val) ==
    IF val < MAX_INT32 THEN INT32_TO_JSVALUE(val)
    ELSE IF val < MAX_INT52 THEN DOUBLE_TO_JSVALUE(val) ELSE UINT64_TO_JSVALUE_SLOW(val)

\* The same slip as in UINT32_TO_JSVALUE, and the cast then makes it negative.
INT64_TO_JSVALUE(val) ==
    IF val >= -MAX_INT32 /\ val <= MAX_INT32 THEN INT32_TO_JSVALUE(val)
    ELSE IF val >= -MAX_INT52 /\ val <= MAX_INT52 THEN DOUBLE_TO_JSVALUE(val)
    ELSE INT64_TO_JSVALUE_SLOW(val)

PTR_TO_JSVALUE(ptr) == IF ptr = 0 THEN TagValueNull ELSE DOUBLE_TO_JSVALUE(ptr)

\* ToJSFormatter: what a trampoline writes around the value.
ToJS(type, val) ==
    CASE type = "bool" -> BOOLEAN_TO_JSVALUE(val)
      [] type = "int32_t" -> INT32_TO_JSVALUE(val)
      [] type = "uint32_t" -> UINT32_TO_JSVALUE(val)
      [] type = "i64_fast" -> INT64_TO_JSVALUE(val)
      [] type = "int64_t" -> INT64_TO_JSVALUE_SLOW(val)
      [] type = "u64_fast" -> UINT64_TO_JSVALUE(val)
      [] type = "uint64_t" -> UINT64_TO_JSVALUE_SLOW(val)
      [] type = "ptr" -> PTR_TO_JSVALUE(val)
      [] type = "double" -> DOUBLE_TO_JSVALUE(val)

---------------------------------------------------------------------------
\* To C.

\* Whatever the value is, its lower half: of a double, a piece of the mantissa.
JSVALUE_TO_INT32(v) == AsInt32(IF v.tag = "double" THEN LowBits(v.bits) ELSE v.bits % Word32)

JSVALUE_TO_DOUBLE(v) == IF v.tag = "double" THEN v.bits ELSE NaN
JSVALUE_TO_BOOL(v) == IF v = TagValueTrue THEN 1 ELSE 0

JSVALUE_TO_UINT64(v) ==
    IF JSVALUE_IS_INT32(v) THEN JSVALUE_TO_INT32(v) % Word64
    ELSE IF JSVALUE_IS_NUMBER(v) THEN JSVALUE_TO_DOUBLE(v) % Word64
    ELSE IF JSCELL_IS_TYPED_ARRAY(v) THEN JSVALUE_TO_TYPED_ARRAY_LENGTH(v)
    ELSE JSVALUE_TO_UINT64_SLOW(v)

JSVALUE_TO_INT64(v) ==
    IF JSVALUE_IS_INT32(v) THEN JSVALUE_TO_INT32(v)
    ELSE IF JSVALUE_IS_NUMBER(v) THEN JSVALUE_TO_DOUBLE(v)
    ELSE JSVALUE_TO_INT64_SLOW(v)

\* Any number goes through the double; (size_t)NaN is the indefinite integer.
JSVALUE_TO_PTR(v) ==
    IF v = TagValueNull THEN 0
    ELSE IF JSCELL_IS_TYPED_ARRAY(v) THEN JSVALUE_TO_TYPED_ARRAY_VECTOR(v)
    ELSE IF v.tag = "double" THEN JSVALUE_TO_DOUBLE(v) ELSE Word64 \div 2

\* ToCFormatter.  An integer of 32 bits or fewer is cast to its own type.
ToC(type, v) ==
    CASE type = "bool" -> JSVALUE_TO_BOOL(v)
      [] type = "int32_t" -> JSVALUE_TO_INT32(v)
      [] type = "uint32_t" -> JSVALUE_TO_INT32(v) % Word32
      [] type \in {"i64_fast", "int64_t"} -> JSVALUE_TO_INT64(v)
      [] type \in {"u64_fast", "uint64_t"} -> JSVALUE_TO_UINT64(v)
      [] type = "ptr" -> JSVALUE_TO_PTR(v)
      [] type = "double" -> JSVALUE_TO_DOUBLE(v)
=============================================================================
