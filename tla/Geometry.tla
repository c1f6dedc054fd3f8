------------------------------ MODULE Geometry ------------------------------
(***************************************************************************)
(* The integer geometry of the authoritative simulation (server/sim): the  *)
(* ground plane, speed clamping, the four telegraph shapes, and the first  *)
(* contact of two moving capsules.  Pure operators.                        *)
(*                                                                         *)
(* Heights are left out: movement, overlap, interest and telegraphs ignore *)
(* them.  Integers are unbounded here; the code keeps every product inside *)
(* 64 bits by clamping what enters, or computes it with math/big.          *)
(***************************************************************************)
EXTENDS Integers

CONSTANTS CosScale,    \* fixed-point scale of a cone's cosine (10^6)
          WorldExtent, \* largest legal coordinate
          MaxIntent    \* largest component of a stored intent

Vec(x, z)   == [x |-> x, z |-> z]
Origin      == Vec(0, 0)
Plus(a, b)  == Vec(a.x + b.x, a.z + b.z)
Minus(a, b) == Vec(a.x - b.x, a.z - b.z)
Dot(a, b)   == a.x * b.x + a.z * b.z
Cross(a, b) == a.x * b.z - a.z * b.x
Dist2(a, b) == Dot(Minus(a, b), Minus(a, b))

Clamp(v, lo, hi)   == IF v < lo THEN lo ELSE IF v > hi THEN hi ELSE v
ClampVec(v, lo, hi) == Vec(Clamp(v.x, lo.x, hi.x), Clamp(v.z, lo.z, hi.z))

\* Go's division of integers truncates towards zero.
Quo(n, d) == IF n >= 0 THEN n \div d ELSE -((-n) \div d)
Square(n) == n * n

\* isqrt: Newton's iteration from above, which stops at the floor of the root.
Newton[n \in Nat, x \in Nat] ==
  LET y == (x + n \div x) \div 2 IN IF y < x THEN Newton[n, y] ELSE x
ISqrt(n) == IF n < 2 THEN n ELSE Newton[n, n]
CeilSqrt(n) == IF Square(ISqrt(n)) = n THEN ISqrt(n) ELSE ISqrt(n) + 1
Length(v)   == ISqrt(Dot(v, v))

\* v/length * size, and v cut to a speed with its direction kept.
Scaled(v, size, length) == Vec(Quo(v.x * size, length), Quo(v.z * size, length))
ClampSpeed(v, most) ==
  IF most <= 0 THEN Origin
  ELSE IF Length(v) <= most THEN v ELSE Scaled(v, most, Length(v))

SanitizeIntent(v) == Vec(Clamp(v.x, -MaxIntent, MaxIntent), Clamp(v.z, -MaxIntent, MaxIntent))

-----------------------------------------------------------------------------
\* Telegraphs.
ClampExtent(v) == Clamp(v, -(4 * WorldExtent), 4 * WorldExtent)
InWorld(p) == p.x \in -WorldExtent..WorldExtent /\ p.z \in -WorldExtent..WorldExtent
Anchor(p)  == Vec(Clamp(p.x, -WorldExtent, WorldExtent), Clamp(p.z, -WorldExtent, WorldExtent))
\* A facing without a direction is world-forward.
Heading(f) == IF f = Origin THEN Vec(0, -1) ELSE f

Circle(center, radius) == [kind |-> "circle", at |-> Anchor(center), outer |-> ClampExtent(radius)]
Ring(center, r, s) ==
  [kind |-> "ring", at |-> Anchor(center),
   inner |-> ClampExtent(Clamp(IF r > s THEN s ELSE r, 0, 4 * WorldExtent)),
   outer |-> ClampExtent(IF r > s THEN r ELSE s)]
Cone(apex, facing, range, cosHalf) ==
  [kind |-> "cone", at |-> Anchor(apex), facing |-> Heading(facing), outer |-> ClampExtent(range),
   cosHalf |-> Clamp(cosHalf, -CosScale, CosScale)]
Rect(near, facing, length, halfWidth) ==
  [kind |-> "rect", at |-> Anchor(near), facing |-> facing, outer |-> ClampExtent(length),
   halfWidth |-> ClampExtent(halfWidth)]

\* catchesCone: dot * CosScale >= cosHalf * |to| * |dir|, compared in squares.
InCone(t, p) ==
  LET to  == Minus(p, t.at)
      dir == Heading(t.facing)
      dot == Dot(to, dir)
      lhs == Square(dot * CosScale)
      rhs == Square(t.cosHalf) * Dot(to, to) * Dot(dir, dir)
  IN  /\ Dot(to, to) <= Square(t.outer)
      /\ \/ to = Origin
         \/ dot >= 0 /\ (t.cosHalf <= 0 \/ lhs >= rhs)
         \/ dot < 0 /\ t.cosHalf <= 0 /\ lhs <= rhs

\* catchesRect: along the facing and across it, both scaled by |dir|.
InRect(t, p) ==
  LET to  == Minus(p, t.at)
      dir == Heading(t.facing)
  IN  /\ t.halfWidth >= 0 /\ Dot(to, dir) >= 0
      /\ Square(Dot(to, dir)) <= Square(t.outer) * Dot(dir, dir)
      /\ Square(Cross(to, dir)) <= Square(t.halfWidth) * Dot(dir, dir)

Catches(t, p) ==
  /\ InWorld(p) /\ t.outer >= 0
  /\ CASE t.kind = "circle" -> Dist2(t.at, p) <= Square(t.outer)
       [] t.kind = "ring"   -> Dist2(t.at, p) \in Square(t.inner)..Square(t.outer)
       [] t.kind = "cone"   -> InCone(t, p)
       [] t.kind = "rect"   -> InRect(t, p)

-----------------------------------------------------------------------------
\* Instants of a tick, as fractions in lowest terms (big.Rat).
Gcd[a \in Nat, b \in Nat] == IF b = 0 THEN a ELSE Gcd[b, a % b]
Frac(n, d) == LET g == Gcd[n, d] IN [n |-> n \div g, d |-> d \div g]
Start      == Frac(0, 1)
End        == Frac(1, 1)
Before(s, t)  == s.n * t.d < t.n * s.d
Earlier(s, t) == IF Before(t, s) THEN t ELSE s
Later(s, t)   == IF Before(t, s) THEN s ELSE t
\* The instant a fraction f of the way from u to v.
Within(u, v, f) ==
  Frac((v.n * u.d - u.n * v.d) * f.n + u.n * v.d * f.d, u.d * v.d * f.d)

\* alongPath: where a straight move is at an instant, short of it if between.
AlongPath(from, to, t) ==
  IF ~Before(t, End) THEN to
  ELSE Plus(from, Vec(Quo(t.n * (to.x - from.x), t.d), Quo(t.n * (to.z - from.z), t.d)))

\* Mutant of FirstContact: only where the moves end is looked at.
ContactAtEnd(iFrom, iTo, jFrom, jTo, reach) ==
  IF Dist2(iTo, jTo) < Square(reach) /\ Dist2(iFrom, jFrom) > Square(reach) THEN {Start} ELSE {}

\* firstContactFrac: a lower bound of the fraction of two straight moves at which
\* capsules whose radii sum to reach first touch while closing; empty if never.
FirstContact(iFrom, iTo, jFrom, jTo, reach) ==
  LET A    == Minus(iFrom, jFrom)
      B    == Minus(Minus(iTo, iFrom), Minus(jTo, jFrom))
      a    == Dot(B, B)
      ab   == Dot(A, B)
      c    == Dot(A, A) - Square(reach)
      disc == Square(ab) - a * c
      num  == -ab - CeilSqrt(disc)
  IN IF reach <= 0 \/ ab >= 0 THEN {}
     ELSE IF c <= 0 THEN {Start}   \* closing while already in contact: held
     ELSE IF disc <= 0 \/ (a + 2 * ab + c > 0 /\ a + ab <= 0) THEN {}
     ELSE {IF num <= 0 THEN Start ELSE IF num > a THEN End ELSE Frac(num, a)}
=============================================================================
