------------------------------- MODULE MCFFI -------------------------------
(* Instances of FFI for TLC.  Integers of 5 bits stand for the 32-bit ones, of *)
(* 10 for the 64-bit ones, and doubles have 6 bits of mantissa.                *)
EXTENDS FFI, TLC

CONSTANTS c1, c2

Magnitude(n) == IF n < 0 THEN -n ELSE n
Exponent(n) == CHOOSE e \in 0..7 : 2^e <= n /\ n < 2^(e + 1)
MCLowBits(n) ==
    LET m == Magnitude(n) IN
    IF m = 0 THEN 0 ELSE ((m - 2^Exponent(m)) * 2^(6 - Exponent(m))) % 32

S(type, val) == [type |-> type, val |-> val]

\* The values around each limit.  The arguments of a callback begin at the second: a
\* posted call gets a BigInt and a value that is none.
MCSent == <<S("uint32_t", 15), S("i64_fast", 200), S("i64_fast", 16), S("ptr", 100),
            S("uint32_t", 16), S("uint32_t", 31), S("i64_fast", -17), S("u64_fast", 16),
            S("ptr", 0), S("int32_t", -16), S("uint64_t", 1023), S("double", 7)>>

Shape(argc, threadsafe, returns) ==
    [argc |-> argc, threadsafe |-> threadsafe, returns |-> returns]

\* One callback of any arity and result, and a threadsafe one.
MCShapes ==
    c1 :> {Shape(0, FALSE, "void"), Shape(1, FALSE, "i64_fast"), Shape(1, FALSE, "uint32_t"),
           Shape(2, FALSE, "i64_fast"), Shape(3, FALSE, "void"), Shape(3, FALSE, "ptr"),
           Shape(4, FALSE, "int32_t"), Shape(5, FALSE, "double"), Shape(6, FALSE, "u64_fast"),
           Shape(7, FALSE, "uint64_t"), Shape(8, FALSE, "void")}
    @@ c2 :> {Shape(2, TRUE, "void")}

\* Bound: once there is a second callback, the first has one of two signatures and
\* what else crosses is one of the first four values.
BoundShapes == {None, Shape(1, FALSE, "i64_fast"), Shape(3, FALSE, "void")}
BoundSent == {Sent[i] : i \in 1..4}
ValuesBound ==
    function[c2].step # "pending" =>
        /\ function[c1].shape \in BoundShapes
        /\ \A i \in DOMAIN stack : stack[i].type \in {"void"} \cup {s.type : s \in BoundSent}
        /\ Len(crossed.sent) = 1 =>
             LET x == crossed.sent[1] IN x.meant => S(x.type, x.val) \in BoundSent
=============================================================================
