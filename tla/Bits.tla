-------------------------------- MODULE Bits --------------------------------
(***************************************************************************)
(* std/lbitlib.c and the integer functions of std/lmath.c.  A b_uint, an   *)
(* unsigned long, is the set of its bits that are one.                     *)
(***************************************************************************)
EXTENDS Integers, Sequences

LOCAL INSTANCE FiniteSetsExt

LOCAL INSTANCE SequencesExt

CONSTANTS
    NBITS,      \* LUA_NBITS: the bits of a number that count (32)
    LBITS       \* the bits of an unsigned long (64)

ASSUME BitsAssumption == NBITS \in Nat \ {0} /\ LBITS \in Nat /\ LBITS >= NBITS

Long == 0..(LBITS - 1)
ALLONES == 0..(NBITS - 1)

\* The conversions between Lua's integers and unsigned long.
b_uint(v) == {b \in Long : (v \div 2 ^ b) % 2 = 1}
value(r) == MapThenSumSet(LAMBDA b : 2 ^ b, r)
integer(r) == IF LBITS - 1 \in r THEN value(r) - 2 ^ LBITS ELSE value(r)

trim(r) == r \intersect ALLONES
left(r, i) == {b + i : b \in r} \intersect Long
right(r, i) == {b - i : b \in r} \intersect Long
flip(r) == Long \ r

\* mask(n): n ones, and the bits of a long that no number of NBITS has.
mask(n) == flip(left(left(ALLONES, 1), n - 1))

-----------------------------------------------------------------------------
andaux(args) == trim(FoldLeft(LAMBDA r, v : r \intersect b_uint(v), Long, args))
b_and(args) == integer(andaux(args))
b_test(args) == andaux(args) # {}
b_or(args) == integer(trim(UNION {b_uint(args[i]) : i \in DOMAIN args}))
b_xor(args) ==
    integer(trim(FoldLeft(LAMBDA r, v : (r \ b_uint(v)) \union (b_uint(v) \ r), {}, args)))
b_not(v) == integer(trim(flip(b_uint(v))))

shift_untrimmed(r, i) == IF i < 0 THEN right(r, -i) ELSE left(r, i)

shift(r, i) ==
    IF i <= -NBITS \/ i >= NBITS THEN {}
    ELSE IF i < 0 THEN right(trim(r), -i) ELSE trim(left(r, i))

b_shift(r, i) == integer(shift(r, i))

b_lshift(v, i) == b_shift(b_uint(v), i)
b_rshift(v, i) == b_shift(b_uint(v), -i)

\* The sign bits are shifted into the top of the long, where trim drops them.
b_arshift(v, i) ==
    LET r == b_uint(v)
    IN IF i < 0 \/ NBITS - 1 \notin r THEN b_shift(r, -i)
       ELSE IF i >= NBITS THEN integer(ALLONES)
       ELSE integer(trim(right(r, i) \union flip(right(Long, i))))

rot(v, by) ==
    LET i == by % NBITS
        r == trim(b_uint(v))
    IN IF i = 0 THEN r ELSE left(r, i) \union right(r, NBITS - i)

b_rot(v, i) == integer(trim(rot(v, i)))
b_lrot(v, i) == b_rot(v, i)
b_rrot(v, i) == b_rot(v, -i)

\* f and w name bits of a number; anything else is an error.
fieldargs(f, w) == 0 <= f /\ 0 < w /\ f + w <= NBITS

b_extract(v, f, w) == integer(right(b_uint(v), f) \intersect mask(w))

\* m is an int: NBITS wide, the rest of the long being copies of its sign.
int(r) == trim(r) \union (IF NBITS - 1 \in r THEN Long \ ALLONES ELSE {})

b_replace(v, u, f, w) ==
    LET m == int(mask(w))
        n == flip(int(left(m, f)))
    IN integer((b_uint(v) \intersect n) \union left(b_uint(u) \intersect m, f))

-----------------------------------------------------------------------------
\* lmath.c.  bitfields: the fields of a number from its lowest bit on, and
\* what is left over.
lmath_bitfields(v, widths) ==
    LET from[i \in 0..Len(widths)] ==
            IF i = 0 THEN 0
            ELSE from[i - 1] + IF widths[i] > NBITS - from[i - 1]
                               THEN NBITS - from[i - 1] ELSE widths[i]
        field(lo, hi) == value({b - lo : b \in {b \in b_uint(v) : lo <= b /\ b < hi}})
        n == CHOOSE k \in 0..Len(widths) :
                /\ k = Len(widths) \/ from[k] = NBITS
                /\ \A j \in 0..(k - 1) : from[j] < NBITS
        fields == [i \in 1..n |-> field(from[i - 1], from[i])]
    IN fields \o IF from[n] < NBITS THEN <<field(from[n], NBITS)>> ELSE <<>>

\* oct: the decimal digits of a number read as octal ones, 0 if one is not.
lmath_oct(v) ==
    LET oct[n \in 0..v] ==
            IF n = 0 THEN 0
            ELSE LET rest == oct[n \div 10]
                 IN IF n % 10 >= 8 \/ rest < 0 THEN -1 ELSE rest * 8 + (n % 10)
    IN IF oct[v] < 0 THEN 0 ELSE oct[v]
=============================================================================
