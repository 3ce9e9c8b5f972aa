------------------------------- MODULE Bigint -------------------------------
(***************************************************************************)
(* The multi-word arithmetic of demo/krackpot/src/shaders/bigint.js: what  *)
(* the search shader and the shaders of the capability check compute with. *)
(*                                                                         *)
(* A number is a sequence of words, the least significant first; the       *)
(* source has LIMBS = 8 of 32 bits, and C977 = 977.  The modulus is R minus *)
(* a little more than one word, so what a product has above R folds back   *)
(* with a small factor.  A word operation wraps around.                    *)
(*                                                                         *)
(* A behaviour is one call of a function with any operands.                *)
(***************************************************************************)
EXTENDS Field, Loops

CONSTANTS
    HALF_BITS,      \* bits of half a word
    LIMBS,
    C977,
    Operand         \* the numbers a call may have as operands

HALF == Power(2, HALF_BITS)
WORD == HALF * HALF
R == Power(WORD, LIMBS)
Word == 0..(WORD - 1)
U256 == [1..LIMBS -> Word]
U512 == [1..(2 * LIMBS) -> Word]

ASSUME BigintAssumption ==
    /\ HALF_BITS \in Nat \ {0} /\ LIMBS \in Nat \ {0, 1, 2} /\ C977 \in 1..(WORD - 1)
    /\ P = R - (WORD + C977)
    /\ Operand \subseteq 0..(R - 1)

\* The lowest word of n, and of what is left when it is shifted out.
bigIntToLimbsLE(n, len) ==
    LET shifted(i) == Repeat(n, [j \in 1..len |-> [m \in Nat |-> m \div WORD]], i)
    IN  [i \in 1..len |-> shifted(i - 1) % WORD]

\* From the highest word down.
limbsLEToBigInt(x, len) ==
    Repeat(0, [i \in 1..len |-> [n \in Nat |-> WORD * n + x[len + 1 - i]]], len)

P_LIMBS == bigIntToLimbsLE(P, LIMBS)

Flag(condition) == IF condition THEN 1 ELSE 0

-----------------------------------------------------------------------------
(* One word                                                                *)

AddWord(x, y, carry) ==
    LET s1 == (x + y) % WORD
        s2 == (s1 + carry) % WORD
    IN  [word |-> s2, carry |-> Flag(s1 < x) + Flag(s2 < s1)]

SubWord(x, y, borrow) ==
    LET s1 == (x - y) % WORD
    IN  [word |-> (s1 - borrow) % WORD, carry |-> Flag(x < y) + Flag(s1 < borrow)]

\* The product of two words from those of their halves.
mul32(x, y) ==
    LET xh == x \div HALF  xl == x % HALF
        yh == y \div HALF  yl == y % HALF
        mid == ((xl * yl) \div HALF) + ((xl * yh) % HALF) + ((xh * yl) % HALF)
    IN  [lo |-> ((xl * yl) % HALF) + (mid % HALF) * HALF,
         hi |-> (xh * yh + ((xl * yh) \div HALF) + ((xh * yl) \div HALF) + (mid \div HALF)) % WORD]

MulWord(r, x, y, carry) ==
    LET prod == mul32(x, y)
        sum == AddWord(r, prod.lo, carry)
    IN  [word |-> sum.word, carry |-> (prod.hi + sum.carry) % WORD]

-----------------------------------------------------------------------------
(* Numbers                                                                 *)

\* The words of r after the first `skip` go one by one through the steps: each
\* takes the carry to a word and the next carry.
Ripple(step, r, skip) ==
    LET carry(i) == Repeat(0, [k \in DOMAIN step |-> [c \in Word |-> step[k][c].carry]], i)
    IN  [words |-> [j \in DOMAIN r |-> IF j - skip \in DOMAIN step
                                       THEN step[j - skip][carry(j - skip - 1)].word
                                       ELSE r[j]],
         carry |-> carry(Len(step))]

u256_add_raw(a, b) ==
    Ripple([i \in 1..LIMBS |-> [carry \in Word |-> AddWord(a[i], b[i], carry)]], a, 0)
u256_sub_raw(a, b) ==
    Ripple([i \in 1..LIMBS |-> [borrow \in Word |-> SubWord(a[i], b[i], borrow)]], a, 0)
u256_geq(a, b) == u256_sub_raw(a, b).carry = 0

\* r with the product of b and the i-th word x added from there on.
Row(r, i, x, b) ==
    LET row == Ripple([j \in 1..LIMBS |-> [carry \in Word |-> MulWord(r[i - 1 + j], x, b[j], carry)]],
                      r, i - 1)
    IN  [row.words EXCEPT ![i + LIMBS] = (@ + row.carry) % WORD]

u256_mul(a, b) ==
    Repeat([j \in 1..(2 * LIMBS) |-> 0],
         [i \in 1..LIMBS |-> [r \in U512 |-> Row(r, i, a[i], b)]],
         LIMBS)

Lower(a) == [i \in 1..LIMBS |-> a[i]]
Upper(a) == [i \in 1..LIMBS |-> a[LIMBS + i]]

\* The buffer of mod_p: a number, what exceeds it, and one word more.
Buffer(a, spill) ==
    [i \in 1..(LIMBS + 2) |-> IF i <= LIMBS THEN a[i] ELSE IF i = LIMBS + 1 THEN spill ELSE 0]

\* r plus one or two words w after the first `skip`.
AddedAt(r, skip, w) ==
    Ripple([i \in 1..(LIMBS + 2 - skip) |->
              [carry \in Word |-> AddWord(r[skip + i], IF i \in DOMAIN w THEN w[i] ELSE 0, carry)]],
           r, skip).words

\* The lower half plus C977 times the upper half.
FoldLow(a) ==
    Ripple([i \in 1..LIMBS |-> [carry \in Word |-> MulWord(a[i], Upper(a)[i], C977, carry)]],
           Lower(a), 0)

\* r plus h one word up.
FoldHigh(r, h) ==
    Ripple([i \in 1..LIMBS |-> [carry \in Word |-> AddWord(r[1 + i], h[i], carry)]], r, 1)

\* Mutant: one word takes what exceeds the lower half.
FirstFoldTruncates(a) ==
    LET A == FoldLow(a) IN FoldHigh(Buffer(A.words, A.carry), Upper(a)).words

\* The first fold: the upper half times C977, and again one word up, is added to
\* the lower half.  What exceeds it stays in two more words.
FirstFold(a) ==
    LET A == FoldLow(a)
        B == FoldHigh(Buffer(A.words, A.carry), Upper(a))
    IN  [B.words EXCEPT ![LIMBS + 2] = (@ + B.carry) % WORD]

Spills(r) == r[LIMBS + 1] # 0 \/ r[LIMBS + 2] # 0

\* r with the words x and y, which are LIMBS and one more up, folded into it.
FoldInto(r, x, y) ==
    LET low == mul32(x, C977)
        high == mul32(y, C977)
    IN  AddedAt(AddedAt(AddedAt(AddedAt(r, 0, <<low.lo, low.hi>>), 1, <<x>>),
                1, <<high.lo, high.hi>>), 2, <<y>>)

\* Mutant: the folded words stay where they were.
NextFoldKeeps(r) == FoldInto(r, r[LIMBS + 1], r[LIMBS + 2])

\* The two extra words are folded back in turn.
NextFold(r) == FoldInto(Buffer(Lower(r), 0), r[LIMBS + 1], r[LIMBS + 2])

Folded(a, passes) ==
    Repeat(FirstFold(a),
         [i \in 1..4 |-> [r \in [1..(LIMBS + 2) -> Word] |->
                              IF Spills(r) THEN NextFold(r) ELSE r]],
         passes)

mod_p(a) ==
    LET out == Lower(Folded(a, 4))
    IN  IF u256_geq(out, P_LIMBS) THEN u256_sub_raw(out, P_LIMBS).words ELSE out

fp_add(a, b) ==
    LET s == u256_add_raw(a, b)
    IN  IF s.carry = 1 \/ u256_geq(s.words, P_LIMBS)
        THEN u256_sub_raw(s.words, P_LIMBS).words
        ELSE s.words

fp_sub(a, b) ==
    LET s == u256_sub_raw(a, b)
    IN  IF s.carry = 1 THEN u256_add_raw(s.words, P_LIMBS).words ELSE s.words

fp_mul(a, b) == mod_p(u256_mul(a, b))

fp_neg(a) == IF \A i \in DOMAIN a : a[i] = 0 THEN a ELSE u256_sub_raw(P_LIMBS, a).words

\* Square and multiply over the bits of P - 2, the lowest first.
fp_inv(a) ==
    LET bits == 2 * HALF_BITS * LIMBS
        square == [i \in 1..bits |-> [s \in [result : U256, base : U256, exp : Nat] |->
                     [result |-> IF s.exp % 2 = 1 THEN fp_mul(s.result, s.base) ELSE s.result,
                      base |-> fp_mul(s.base, s.base),
                      exp |-> s.exp \div 2]]]
    IN  Repeat([result |-> bigIntToLimbsLE(1, LIMBS), base |-> a, exp |-> P - 2], square, bits).result

-----------------------------------------------------------------------------
(* A call                                                                  *)

VARIABLES
    op,         \* the function, with its operands
    out         \* what it returns: a number, of the raw ones with the carry

callVars == <<op, out>>

Unary == {"fp_neg", "fp_inv"}
FpOp == {"fp_add", "fp_sub", "fp_mul"} \cup Unary
Op == {"u256_add_raw", "u256_sub_raw", "u256_mul", "mod_p"} \cup FpOp

\* The operands are numbers; mod_p takes its two halves, and the field functions
\* are only called with reduced numbers.
CallInit ==
    /\ \E name \in Op, x \in Operand, y \in Operand :
        /\ name \in FpOp => x < P /\ y < P
        /\ name \in Unary => y = 0
        /\ op = [name |-> name, x |-> x, y |-> y]
    /\ out = <<>>

WithCarry(result) == Append(result.words, result.carry)

Result(name, a, b) ==
    CASE name = "u256_add_raw" -> WithCarry(u256_add_raw(a, b))
      [] name = "u256_sub_raw" -> WithCarry(u256_sub_raw(a, b))
      [] name = "u256_mul" -> u256_mul(a, b)
      [] name = "mod_p" -> mod_p(a \o b)
      [] name = "fp_add" -> fp_add(a, b)
      [] name = "fp_sub" -> fp_sub(a, b)
      [] name = "fp_mul" -> fp_mul(a, b)
      [] name = "fp_neg" -> fp_neg(a)
      [] name = "fp_inv" -> fp_inv(a)

Call ==
    /\ out = <<>>
    /\ out' = Result(op.name, bigIntToLimbsLE(op.x, LIMBS), bigIntToLimbsLE(op.y, LIMBS))
    /\ UNCHANGED op

CallNext == Call

CallSpec == CallInit /\ [][CallNext]_callVars

Number(x) == limbsLEToBigInt(x, LIMBS)

\* Every function is exact whatever carries, borrows and spills there are on
\* the way.  The raw ones lose nothing: what does not fit is in the carry, and a
\* product always fits.  The field functions return the one reduced number that
\* is right; the inverse is the one the CPU finds in another way.
Exact ==
    out # <<>> =>
        CASE op.name = "u256_add_raw" -> Number(out) + R * out[LIMBS + 1] = op.x + op.y
          [] op.name = "u256_sub_raw" -> Number(out) - R * out[LIMBS + 1] = op.x - op.y
          [] op.name = "u256_mul" -> limbsLEToBigInt(out, 2 * LIMBS) = op.x * op.y
          [] op.name = "mod_p" -> Number(out) = mod(op.x + R * op.y)
          [] op.name = "fp_add" -> Number(out) = mod(op.x + op.y)
          [] op.name = "fp_sub" -> Number(out) = mod(op.x - op.y)
          [] op.name = "fp_mul" -> Number(out) = mod(op.x * op.y)
          [] op.name = "fp_neg" -> Number(out) = mod(0 - op.x)
          [] op.name = "fp_inv" -> Number(out) = Inverse(op.x)

\* bigint.js on mod_p: "In practice this converges in at most 2 passes; cap at 4
\* for safety".  Whatever is reduced, two passes leave nothing in the spill.
TwoPassesSuffice ==
    op.name = "mod_p" =>
        ~Spills(Folded(bigIntToLimbsLE(op.x + R * op.y, 2 * LIMBS), 2))
=============================================================================
