------------------------------- MODULE Curve --------------------------------
(***************************************************************************)
(* The group of the curve twice: by the Jacobian formulas of the shader    *)
(* (demo/krackpot/src/shaders/secp256k1.js) and by the affine ones of the  *)
(* CPU (demo/krackpot/src/reference/secp.js).  The source has the curve    *)
(* secp256k1; the formulas hold for y^2 = x^3 + b with any b.              *)
(***************************************************************************)
EXTENDS Field, Loops

CONSTANTS
    N,          \* the order of the group
    GX, GY,     \* its generator
    KEY_BITS    \* bits of a scalar

Residue == 0..(P - 1)

G == <<GX, GY>>
Null == <<>>    \* the point at infinity on the CPU
Affines == Residue \X Residue

\* Points of the shader.
Jacobian == [x : Residue, y : Residue, z : Residue]

-----------------------------------------------------------------------------
(* secp256k1.js                                                            *)

Point(x, y, z) == [x |-> mod(x), y |-> mod(y), z |-> mod(z)]

point_infinity == Point(0, 0, 0)

is_infinity(p) == p.z = 0

point_double(p) ==
    LET s == 4 * mod(p.x * p.y * p.y)
        m == 3 * mod(p.x * p.x)
        x3 == mod(m * m - 2 * s)
    IN  IF is_infinity(p) THEN p
        ELSE Point(x3, m * (s - x3) - 8 * p.y * p.y * p.y * p.y, 2 * p.y * p.z)

Sum(p, h, r) ==
    LET u1h2 == mod(p.x * h * h)
        h3 == mod(h * h * h)
        x3 == mod(r * r - h3 - 2 * u1h2)
    IN  Point(x3, r * (u1h2 - x3) - p.y * h3, h * p.z)

\* Mutant: adding a point to itself is not told apart.
point_add_mixedNoDouble(p, q) ==
    IF is_infinity(p) THEN Point(q[1], q[2], 1)
    ELSE Sum(p, mod(q[1] * p.z * p.z - p.x), mod(q[2] * p.z * p.z * p.z - p.y))

\* p in Jacobian coordinates plus q in affine ones.
point_add_mixed(p, q) ==
    LET h == mod(q[1] * p.z * p.z - p.x)
        r == mod(q[2] * p.z * p.z * p.z - p.y)
    IN  CASE is_infinity(p) -> Point(q[1], q[2], 1)
          [] ~is_infinity(p) /\ h = 0 /\ r = 0 -> point_double(p)
          [] ~is_infinity(p) /\ h = 0 /\ r # 0 -> point_infinity
          [] ~is_infinity(p) /\ h # 0 -> Sum(p, h, r)

Bit(k, n) == (k \div Power(2, n)) % 2

DoubleAndAdd(k, n) ==
    [R \in Jacobian |-> IF Bit(k, n) = 1 THEN point_add_mixed(point_double(R), G) ELSE point_double(R)]

\* Mutant: the lowest bit is left out.
scalar_mul_gShort(k) ==
    Repeat(point_infinity, [i \in 1..KEY_BITS |-> DoubleAndAdd(k, KEY_BITS - i)], KEY_BITS - 1)

\* Double and add, the highest bit first.
scalar_mul_g(k) ==
    Repeat(point_infinity, [i \in 1..KEY_BITS |-> DoubleAndAdd(k, KEY_BITS - i)], KEY_BITS)

\* A point given the inverse of its z.
Affine(p, z_inv) == <<mod(p.x * z_inv * z_inv), mod(p.y * z_inv * z_inv * z_inv)>>

jacobian_to_affine(p) == IF is_infinity(p) THEN Null ELSE Affine(p, Inverse(p.z))

-----------------------------------------------------------------------------
(* secp.js                                                                 *)

pointAdd(p, q) ==
    LET m == IF p = q THEN mod(3 * p[1] * p[1] * modInv(2 * p[2]))
             ELSE mod((q[2] - p[2]) * modInv(q[1] - p[1]))
        x3 == mod(m * m - p[1] - q[1])
    IN  CASE p = Null -> q
          [] p # Null /\ q = Null -> p
          [] p # Null /\ q # Null /\ p[1] = q[1] /\ p[2] # q[2] -> Null
          [] OTHER -> <<x3, mod(m * (p[1] - x3) - p[2])>>

\* Double and add, the lowest bit first.
scalarMul(k) ==
    LET mul[s \in [k : Nat, r : Affines \cup {Null}, q : Affines \cup {Null}]] ==
            IF s.k = 0 THEN s.r
            ELSE mul[[k |-> s.k \div 2,
                      r |-> IF s.k % 2 = 1 THEN pointAdd(s.r, s.q) ELSE s.r,
                      q |-> pointAdd(s.q, s.q)]]
    IN  mul[[k |-> k % N, r |-> Null, q |-> G]]

-----------------------------------------------------------------------------
(* The group                                                               *)

\* G added to itself.
Multiple(n) == Repeat(Null, [i \in 1..N |-> [p \in Affines \cup {Null} |-> pointAdd(p, G)]], n)

\* What is known of secp256k1 and what the search takes for granted: the multiples
\* of G are a cyclic group of order N, and none but the point at infinity is its
\* own opposite.
ASSUME CurveAssumption ==
    /\ N \in Nat \ {0, 1} /\ KEY_BITS \in Nat /\ N < Power(2, KEY_BITS)
    /\ G \in Affines
    /\ \A i, j \in 0..(N - 1) : pointAdd(Multiple(i), Multiple(j)) = Multiple((i + j) % N)
    /\ \A i \in 1..(N - 1) : Multiple(i) # Null /\ Multiple(i)[2] # 0
=============================================================================
