------------------------------ MODULE Msgpack ------------------------------
(***************************************************************************)
(* How values become bytes (pack_template.h) and come out of the buffer    *)
(* again (unpack_template.h, unpack.c).  Bytes are numbers below 256, the  *)
(* characters of a string too.  What the payload never packs is left out:  *)
(* Booleans, doubles, binary and extended data, and what needs 64 bits.    *)
(***************************************************************************)
EXTENDS Integers, Sequences, SequencesExt

CONSTANT StackSize      \* MSGPACK_EMBED_STACK_SIZE: containers in each other

ASSUME StackAssumption == StackSize \in Nat \ {0}

VARIABLES
    buf,        \* the bytes from off to used
    p,          \* the byte that is next, or in Push the last one of obj
    label,      \* where template_execute is: "header", "trail", "push", or its result
    cs, trail,  \* what trail is coming, and of how many bytes
    stack,      \* the containers that are not complete
    obj         \* the last complete value

unpack_vars == <<buf, p, label, cs, trail, stack, obj>>
-----------------------------------------------------------------------------
\* The lowest 1, 2 or 4 bytes of n, which is negative in two's complement, the highest first.
Store1(n) == <<n % 256>>
Store2(n) == <<(n \div 256) % 256, n % 256>>
Store4(n) == <<(n \div 16777216) % 256, (n \div 65536) % 256, (n \div 256) % 256, n % 256>>

\* What is stored in bytes, if it is not negative.
Load(bytes) ==
    IF Len(bytes) = 1 THEN bytes[1]
    ELSE IF Len(bytes) = 2 THEN 256 * bytes[1] + bytes[2]
    ELSE 16777216 * bytes[1] + 65536 * bytes[2] + 256 * bytes[3] + bytes[4]

\* If it may be.
LoadSigned(bytes) == IF bytes[1] < 128 THEN Load(bytes) ELSE Load([bytes EXCEPT ![1] = @ - 256])

\* Mutant: 128 is taken for the largest number in a byte of its own.
PackInt_Fixnum128(d) ==
    IF d < -32
    THEN IF d < -32768 THEN <<210>> \o Store4(d)
         ELSE IF d < -128 THEN <<209>> \o Store2(d) ELSE <<208>> \o Store1(d)
    ELSE IF d < 129 THEN Store1(d)
    ELSE IF d < 256 THEN <<204>> \o Store1(d)
    ELSE IF d < 65536 THEN <<205>> \o Store2(d) ELSE <<206>> \o Store4(d)

\* msgpack_pack_int and, for what is not negative, msgpack_pack_uint64.
PackInt(d) ==
    IF d < -32
    THEN IF d < -32768 THEN <<210>> \o Store4(d)
         ELSE IF d < -128 THEN <<209>> \o Store2(d) ELSE <<208>> \o Store1(d)
    ELSE IF d < 128 THEN Store1(d)
    ELSE IF d < 256 THEN <<204>> \o Store1(d)
    ELSE IF d < 65536 THEN <<205>> \o Store2(d) ELSE <<206>> \o Store4(d)

PackNil == <<192>>

PackFloat(bytes) == <<202>> \o bytes

PackArray(n) ==
    IF n < 16 THEN <<144 + n>> ELSE IF n < 65536 THEN <<220>> \o Store2(n) ELSE <<221>> \o Store4(n)

PackMap(n) ==
    IF n < 16 THEN <<128 + n>> ELSE IF n < 65536 THEN <<222>> \o Store2(n) ELSE <<223>> \o Store4(n)

\* msgpack_pack_str
PackStrHead(l) ==
    IF l < 32 THEN <<160 + l>> ELSE IF l < 256 THEN <<217>> \o Store1(l)
    ELSE IF l < 65536 THEN <<218>> \o Store2(l) ELSE <<219>> \o Store4(l)

\* msgpack_pack_str_with_body
PackStr(s) == PackStrHead(Len(s)) \o s
-----------------------------------------------------------------------------
\* msgpack_object
Nil == [type |-> "nil", v |-> 0]
Num(n) == [type |-> IF n < 0 THEN "negative" ELSE "positive", v |-> n]
Obj(type, v) == [type |-> type, v |-> v]

\* What follows a first byte.
Trails ==
    [b \in {202} \cup (204..206) \cup (208..210) \cup (217..223) |->
        [cs |-> CASE b = 202 -> "float"
                  [] b \in 204..206 -> "uint"
                  [] b \in 208..210 -> "int"
                  [] b \in 217..219 -> "str_n"
                  [] b \in 220..221 -> "array"
                  [] b \in 222..223 -> "map",
         n  |-> IF b \in {204, 208, 217} THEN 1
                ELSE IF b \in {205, 209, 218, 220, 222} THEN 2 ELSE 4]]

\* template_init, with what is left in the buffer and what was appended to it.
Begin(bytes) ==
    /\ buf' = bytes /\ p' = 1 /\ label' = "header" /\ cs' = "header" /\ trail' = 0
    /\ stack' = <<>> /\ obj' = Nil

UnpackInit ==
    /\ buf = <<>> /\ p = 1 /\ label = "finish" /\ cs = "header" /\ trail = 0
    /\ stack = <<>> /\ obj = Nil

Out(result) == label' = result /\ UNCHANGED <<buf, p, cs, trail, stack, obj>>

\* goto _push, where last is the last byte of the value
Value(o, last) == obj' = o /\ p' = last /\ label' = "push" /\ UNCHANGED <<buf, cs, trail, stack>>

\* goto _fixed_trail_again
Expect(what, n, next) ==
    cs' = what /\ trail' = n /\ p' = next /\ label' = "trail" /\ UNCHANGED <<buf, stack, obj>>

\* _header_again
HeaderAgain == p' = p + 1 /\ label' = "header" /\ cs' = "header" /\ UNCHANGED <<buf, trail>>

\* start_container, template_callback_array, template_callback_map
Start(type, n, last) ==
    \/ Out("nomem")
    \/ /\ Len(stack) < StackSize
       /\ IF n = 0 THEN Value(Obj(type, <<>>), last)
          ELSE /\ stack' = Append(stack, [obj |-> Obj(type, <<>>), count |-> n, ct |-> type, key |-> Nil])
               /\ p' = last + 1 /\ label' = "header" /\ cs' = "header" /\ UNCHANGED <<buf, trail, obj>>

\* case MSGPACK_CS_HEADER
Header ==
    /\ label = "header"
    /\ LET b == buf[p]
       IN  IF p > Len(buf) THEN Out("continue")
           ELSE \/ b \in 0..127 /\ Value(Num(b), p)
                \/ b \in 128..143 /\ Start("map", b - 128, p)
                \/ b \in 144..159 /\ Start("array", b - 144, p)
                \/ b \in 160..191 /\ Expect("str", b - 160, p + 1)
                \/ b = 192 /\ Value(Nil, p)
                \/ b \in DOMAIN Trails /\ Expect(Trails[b].cs, Trails[b].n, p + 1)
                \/ b = 193 /\ Out("parse_error")
                \/ b \in 224..255 /\ Value(Num(b - 256), p)

\* The other cases.  A string needs a zone, though not its characters.
Trail ==
    /\ label = "trail"
    /\ LET n    == SubSeq(buf, p, p + trail - 1)
           last == p + trail - 1
       IN  IF last > Len(buf) THEN Out("continue")
           ELSE \/ cs = "float" /\ Value(Obj("float", n), last)
                \/ cs = "uint" /\ Value(Num(Load(n)), last)
                \/ cs = "int" /\ Value(Num(LoadSigned(n)), last)
                \/ cs = "str_n" /\ Expect("str", Load(n), last + 1)
                \/ cs = "str" /\ (Value(Obj("str", n), last) \/ Out("nomem"))
                \/ cs \in {"array", "map"} /\ Start(cs, Load(n), last)

Top == Last(stack)
GoOnWith(frame) == stack' = Append(Front(stack), frame) /\ UNCHANGED obj

\* An item of the container on top is complete: what that one is now.
WithItem == IF Top.ct = "array" THEN [Top.obj EXCEPT !.v = Append(@, obj)]
                                ELSE [Top.obj EXCEPT !.v = Append(@, <<Top.key, obj>>)]

\* _push
Push ==
    /\ label = "push"
    /\ IF stack = <<>> THEN p' = p + 1 /\ label' = "finish" /\ UNCHANGED <<buf, cs, trail, stack, obj>>
       ELSE IF Top.ct = "map" THEN GoOnWith([Top EXCEPT !.ct = "value", !.key = obj]) /\ HeaderAgain
       ELSE IF Top.count = 1
       THEN obj' = WithItem /\ stack' = Front(stack) /\ UNCHANGED <<buf, p, label, cs, trail>>
       ELSE /\ GoOnWith([Top EXCEPT !.obj = WithItem, !.count = @ - 1, !.ct = Top.obj.type])
            /\ HeaderAgain

\* template_execute
Execute == Header \/ Trail \/ Push
=============================================================================
