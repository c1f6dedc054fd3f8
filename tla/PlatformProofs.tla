---------------------------- MODULE PlatformProofs ----------------------------
(***************************************************************************)
(* The parts of Platform, for every value of their constants: what each    *)
(* promises is an invariant of it, by an inductive invariant of that part. *)
(*                                                                         *)
(* A behaviour is of one part and the others stand still, so a theorem     *)
(* about PlatformSpec has three steps: the part's Init establishes the     *)
(* invariant, the part's Next keeps it, and a step of Platform that is of   *)
(* the part is a step of its Next (the lemmas called ...Runs).             *)
(***************************************************************************)
EXTENDS Platform, FiniteSetTheorems, SequenceTheorems, WellFoundedInduction, TLAPS

-----------------------------------------------------------------------------
(***************************************************************************)
(* The player stores keep every point and answer what they committed, for  *)
(* any number of calls, any events that are sealed, any documents and any  *)
(* finite set of weapons.                                                  *)
(*                                                                         *)
(* Totals       what a sum over the weapons does when the points change;   *)
(*              by induction over the subsets of the weapons, on the       *)
(*              library's well-founded order of strict inclusion           *)
(* Transitions  an award, a death or a reclaim accounts for every point    *)
(* Invariant    a write is accepted only over the record it started from   *)
(***************************************************************************)
(***************************************************************************)
(* Totals.                                                                 *)
(***************************************************************************)

\* A family of subsets of a finite set has a member that contains no other: what
\* the inductions below rest on.
LEMMA LeastSubset ==
  ASSUME NEW S, IsFiniteSet(S), NEW T \in SUBSET SUBSET S, T # {}
  PROVE  \E x \in T : \A y \in T : ~(y \subseteq x /\ y # x)
<1> DEFINE R == StrictSubsetOrdering(S)
<1>1. IsWellFoundedOn(R, SUBSET S)
  BY FS_StrictSubsetOrderingWellFounded, FS_FiniteSubsetsOfFinite
<1>2. \E x \in T : \A y \in T : ~(<<y, x>> \in R)
  <2> HIDE DEF R
  <2> QED BY <1>1, WFMin, Zenon
<1> QED BY <1>2 DEF StrictSubsetOrdering

\* The partial sums behind a fold: one for every subset of s, each that of a smaller
\* subset and one point more.
Pick(s) == CHOOSE x \in s : TRUE
Sums(f, s, g) == g = [t \in SUBSET s |-> IF t = {} THEN 0 ELSE f[Pick(t)] + g[t \ {Pick(t)}]]

\* The point picked from a set is one of it.
LEMMA PickIn == \A s : s # {} => Pick(s) \in s
BY DEF Pick

\* A partial sum is what its definition says.
LEMMA SumsAt ==
  ASSUME NEW f, NEW s, NEW g, Sums(f, s, g), NEW t \in SUBSET s
  PROVE  g[t] = IF t = {} THEN 0 ELSE f[Pick(t)] + g[t \ {Pick(t)}]
<1>1. g = [u \in SUBSET s |-> IF u = {} THEN 0 ELSE f[Pick(u)] + g[u \ {Pick(u)}]]
  BY DEF Sums
<1> HIDE DEF Pick
<1> DEFINE h == [u \in SUBSET s |-> IF u = {} THEN 0 ELSE f[Pick(u)] + g[u \ {Pick(u)}]]
<1>2. h[t] = IF t = {} THEN 0 ELSE f[Pick(t)] + g[t \ {Pick(t)}]
  OBVIOUS
<1>3. g = h BY <1>1
<1> HIDE DEF h
<1> QED BY <1>2, <1>3

\* Where two sets overlap, their partial sums are the same.
LEMMA SumsAgree ==
  ASSUME NEW S, IsFiniteSet(S), NEW f, NEW s \in SUBSET S, NEW u \in SUBSET S, NEW g, NEW h,
         Sums(f, s, g), Sums(f, u, h), NEW t \in SUBSET S, t \subseteq s, t \subseteq u
  PROVE  g[t] = h[t]
<1> DEFINE T == {v \in SUBSET S : v \subseteq s /\ v \subseteq u /\ g[v] # h[v]}
<1> SUFFICES ASSUME T # {} PROVE FALSE
  OBVIOUS
<1>1. PICK x \in T : \A y \in T : ~(y \subseteq x /\ y # x)
  <2>1. T \in SUBSET SUBSET S OBVIOUS
  <2> HIDE DEF T
  <2> QED BY <2>1, LeastSubset
<1>2. g[x] = (IF x = {} THEN 0 ELSE f[Pick(x)] + g[x \ {Pick(x)}])
  BY SumsAt
<1>3. h[x] = (IF x = {} THEN 0 ELSE f[Pick(x)] + h[x \ {Pick(x)}])
  <2>1. x \in SUBSET u OBVIOUS
  <2> QED BY <2>1, SumsAt
<1>4. x # {} BY <1>2, <1>3
<1>5. x \ {Pick(x)} \subseteq x /\ x \ {Pick(x)} # x
  BY <1>4, PickIn
<1>6. x \ {Pick(x)} \notin T
  BY <1>1, <1>5
<1>7. g[x \ {Pick(x)}] = h[x \ {Pick(x)}]
  BY <1>6
<1> QED BY <1>2, <1>3, <1>4, <1>7

\* Every finite set has its partial sums: the CHOOSE of a fold picks something.
LEMMA SumsExist ==
  ASSUME NEW S, IsFiniteSet(S), NEW f
  PROVE  \E g : Sums(f, S, g)
<1> DEFINE T == {s \in SUBSET S : \A g : ~Sums(f, s, g)}
<1> SUFFICES ASSUME T # {} PROVE FALSE
  OBVIOUS
<1>1. PICK s \in T : \A y \in T : ~(y \subseteq s /\ y # s)
  <2>1. T \in SUBSET SUBSET S OBVIOUS
  <2> HIDE DEF T
  <2> QED BY <2>1, LeastSubset
<1> DEFINE G(u) == CHOOSE g : Sums(f, u, g)
           h == [t \in SUBSET s |-> IF t = {} THEN 0 ELSE f[Pick(t)] + G(t \ {Pick(t)})[t \ {Pick(t)}]]
<1>2. ASSUME NEW u \in SUBSET s, u # s PROVE Sums(f, u, G(u))
  <2>1. u \notin T BY <1>1, <1>2
  <2>2. \E g : Sums(f, u, g) BY <2>1
  <2> QED BY <2>2
<1>3. ASSUME NEW t \in SUBSET s, t # {}
      PROVE h[t \ {Pick(t)}] = G(t \ {Pick(t)})[t \ {Pick(t)}]
  <2> DEFINE u == t \ {Pick(t)}
             v == u \ {Pick(u)}
  <2>1. u \in SUBSET s /\ u # s
    BY <1>3, PickIn
  <2>2. Sums(f, u, G(u)) BY <1>2, <2>1
  <2>3. G(u)[u] = (IF u = {} THEN 0 ELSE f[Pick(u)] + G(u)[v])
    <3> HIDE DEF G, u
    <3> QED BY <2>2, SumsAt
  <2>4. h[u] = (IF u = {} THEN 0 ELSE f[Pick(u)] + G(v)[v])
    <3> HIDE DEF G, u, v
    <3> QED BY <2>1 DEF v
  <2>5. v \in SUBSET s /\ v # s /\ v \subseteq u BY <2>1
  <2>6. Sums(f, v, G(v)) BY <1>2, <2>5
  <2>7. G(u)[v] = G(v)[v]
    <3> HIDE DEF G, u, v
    <3>1. u \in SUBSET S /\ v \in SUBSET S BY <2>1, <2>5
    <3> QED BY <2>2, <2>5, <2>6, <3>1, SumsAgree
  <2> HIDE DEF G, h, v, u
  <2>8. h[u] = G(u)[u] BY <2>3, <2>4, <2>7
  <2> QED BY <2>8 DEF u
<1>4. Sums(f, s, h)
  <2> HIDE DEF G
  <2>1. \A t \in SUBSET s : (IF t = {} THEN 0 ELSE f[Pick(t)] + G(t \ {Pick(t)})[t \ {Pick(t)}])
                            = IF t = {} THEN 0 ELSE f[Pick(t)] + h[t \ {Pick(t)}]
    <3> HIDE DEF h
    <3> QED BY <1>3
  <2>2. h = [t \in SUBSET s |-> IF t = {} THEN 0 ELSE f[Pick(t)] + h[t \ {Pick(t)}]]
    <3> DEFINE A(t) == IF t = {} THEN 0 ELSE f[Pick(t)] + G(t \ {Pick(t)})[t \ {Pick(t)}]
               B(t) == IF t = {} THEN 0 ELSE f[Pick(t)] + h[t \ {Pick(t)}]
    <3>1. h = [t \in SUBSET s |-> A(t)] OBVIOUS
    <3>2. \A t \in SUBSET s : A(t) = B(t) BY <2>1
    <3> HIDE DEF A, B, h
    <3>3. h = [t \in SUBSET s |-> B(t)] BY <3>1, <3>2
    <3> QED BY <3>3 DEF B
  <2> HIDE DEF h
  <2> QED BY <2>2 DEF Sums
<1> QED BY <1>1, <1>4

\* A total is the last of its partial sums, one for each set of weapons.
PartialSums(p, g) ==
  /\ g[{}] = 0
  /\ \A t \in SUBSET Weapons : t # {} => g[t] = p[Pick(t)] + g[t \ {Pick(t)}]
  /\ Total(p) = g[Weapons]

\* Every total has them.
LEMMA TotalIsASum ==
  ASSUME NEW p
  PROVE  \E g : PartialSums(p, g)
<1> DEFINE g == CHOOSE iter : iter = [s \in SUBSET Weapons |->
                   IF s = {} THEN 0 ELSE p[CHOOSE x \in s : TRUE] + iter[s \ {CHOOSE x \in s : TRUE}]]
<1>1. Total(p) = g[Weapons]
  BY DEF Total, MapThenSumSet, MapThenFoldSet
<1>2. \E h : Sums(p, Weapons, h)
  BY WeaponsAreFinite, SumsExist
<1>3. Sums(p, Weapons, g)
  BY <1>2 DEF Sums, Pick
<1> HIDE DEF g
<1>4. g[{}] = 0
  BY <1>3, SumsAt
<1>5. ASSUME NEW t \in SUBSET Weapons, t # {} PROVE g[t] = p[Pick(t)] + g[t \ {Pick(t)}]
  BY <1>3, <1>5, SumsAt
<1> QED BY <1>1, <1>4, <1>5 DEF PartialSums

\* The induction all totals share: a set of parts that contains the empty one and,
\* with a part, that part with the weapon that is picked next.
LEMMA TotalInduction ==
  ASSUME NEW T \in SUBSET SUBSET Weapons, {} \in T,
         \A t \in SUBSET Weapons : t # {} /\ t \ {Pick(t)} \in T => t \in T
  PROVE  Weapons \in T
<1> DEFINE F == (SUBSET Weapons) \ T
<1> SUFFICES ASSUME F # {} PROVE FALSE
  OBVIOUS
<1>1. PICK x \in F : \A y \in F : ~(y \subseteq x /\ y # x)
  <2>1. F \in SUBSET SUBSET Weapons OBVIOUS
  <2> HIDE DEF F
  <2> QED BY <2>1, LeastSubset, WeaponsAreFinite
<1>2. x # {} OBVIOUS
<1>3. x \ {Pick(x)} \subseteq x /\ x \ {Pick(x)} # x
  BY <1>2, PickIn
<1>4. x \ {Pick(x)} \in T
  BY <1>1, <1>3
<1> QED BY <1>2, <1>4

\* A total is a number,
LEMMA TotalType ==
  ASSUME NEW p \in [Weapons -> Int]
  PROVE  Total(p) \in Int
<1>1. PICK g : PartialSums(p, g)
  BY TotalIsASum
<1> DEFINE T == {t \in SUBSET Weapons : g[t] \in Int}
<1>2. {} \in T BY <1>1 DEF PartialSums
<1>3. ASSUME NEW t \in SUBSET Weapons, t # {}, t \ {Pick(t)} \in T PROVE t \in T
  <2>1. g[t] = p[Pick(t)] + g[t \ {Pick(t)}] BY <1>1, <1>3 DEF PartialSums
  <2> QED BY <1>3, <2>1, PickIn
<1>4. Weapons \in T
  <2> HIDE DEF T
  <2>1. T \in SUBSET SUBSET Weapons BY DEF T
  <2> QED BY <1>2, <1>3, <2>1, TotalInduction
<1> QED BY <1>1, <1>4 DEF PartialSums

\* adds up weapon by weapon,
LEMMA TotalAdds ==
  ASSUME NEW p \in [Weapons -> Int], NEW q \in [Weapons -> Int], NEW r \in [Weapons -> Int],
         \A w \in Weapons : r[w] = p[w] + q[w]
  PROVE  Total(r) = Total(p) + Total(q)
<1>1. PICK f : PartialSums(p, f)
  BY TotalIsASum
<1>2. PICK g : PartialSums(q, g)
  BY TotalIsASum
<1>3. PICK h : PartialSums(r, h)
  BY TotalIsASum
<1> DEFINE T == {t \in SUBSET Weapons : f[t] \in Int /\ g[t] \in Int /\ h[t] = f[t] + g[t]}
<1>4. {} \in T BY <1>1, <1>2, <1>3 DEF PartialSums
<1>5. ASSUME NEW t \in SUBSET Weapons, t # {}, t \ {Pick(t)} \in T PROVE t \in T
  <2>1. f[t] = p[Pick(t)] + f[t \ {Pick(t)}] BY <1>1, <1>5 DEF PartialSums
  <2>2. g[t] = q[Pick(t)] + g[t \ {Pick(t)}] BY <1>2, <1>5 DEF PartialSums
  <2>3. h[t] = r[Pick(t)] + h[t \ {Pick(t)}] BY <1>3, <1>5 DEF PartialSums
  <2>4. Pick(t) \in Weapons BY <1>5, PickIn
  <2> QED BY <1>5, <2>1, <2>2, <2>3, <2>4
<1>6. Weapons \in T
  <2> HIDE DEF T
  <2>1. T \in SUBSET SUBSET Weapons BY DEF T
  <2> QED BY <1>4, <1>5, <2>1, TotalInduction
<1> QED BY <1>1, <1>2, <1>3, <1>6 DEF PartialSums

\* and grows with every one of its parts.
LEMMA TotalGrows ==
  ASSUME NEW p \in [Weapons -> Int], NEW q \in [Weapons -> Int],
         \A w \in Weapons : p[w] <= q[w]
  PROVE  Total(p) <= Total(q)
<1>1. PICK f : PartialSums(p, f)
  BY TotalIsASum
<1>2. PICK g : PartialSums(q, g)
  BY TotalIsASum
<1> DEFINE T == {t \in SUBSET Weapons : f[t] \in Int /\ g[t] \in Int /\ f[t] <= g[t]}
<1>4. {} \in T BY <1>1, <1>2 DEF PartialSums
<1>5. ASSUME NEW t \in SUBSET Weapons, t # {}, t \ {Pick(t)} \in T PROVE t \in T
  <2>1. f[t] = p[Pick(t)] + f[t \ {Pick(t)}] BY <1>1, <1>5 DEF PartialSums
  <2>2. g[t] = q[Pick(t)] + g[t \ {Pick(t)}] BY <1>2, <1>5 DEF PartialSums
  <2>4. Pick(t) \in Weapons BY <1>5, PickIn
  <2> QED BY <1>5, <2>1, <2>2, <2>4
<1>6. Weapons \in T
  <2> HIDE DEF T
  <2>1. T \in SUBSET SUBSET Weapons BY DEF T
  <2> QED BY <1>4, <1>5, <2>1, TotalInduction
<1> QED BY <1>1, <1>2, <1>6 DEF PartialSums

\* No points are nothing in total.
LEMMA TotalOfNothing == Total([w \in Weapons |-> 0]) = 0
<1> DEFINE z == [w \in Weapons |-> 0]
<1>1. z \in [Weapons -> Int] /\ \A w \in Weapons : z[w] = z[w] + z[w]
  OBVIOUS
<1> HIDE DEF z
<1>2. Total(z) = Total(z) + Total(z) BY <1>1, TotalAdds
<1> QED BY <1>1, <1>2, TotalType DEF z

\* What one weapon has counts in full.
LEMMA TotalOfOne ==
  ASSUME NEW e \in Weapons, NEW a \in Int
  PROVE  Total([w \in Weapons |-> IF w = e THEN a ELSE 0]) = a
<1> DEFINE p == [w \in Weapons |-> IF w = e THEN a ELSE 0]
<1>1. PICK f : PartialSums(p, f)
  BY TotalIsASum
<1> DEFINE T == {t \in SUBSET Weapons : f[t] = IF e \in t THEN a ELSE 0}
<1>4. {} \in T BY <1>1 DEF PartialSums
<1>5. ASSUME NEW t \in SUBSET Weapons, t # {}, t \ {Pick(t)} \in T PROVE t \in T
  <2>1. f[t] = p[Pick(t)] + f[t \ {Pick(t)}] BY <1>1, <1>5 DEF PartialSums
  <2>4. Pick(t) \in Weapons /\ Pick(t) \in t BY <1>5, PickIn
  <2> QED BY <1>5, <2>1, <2>4
<1>6. Weapons \in T
  <2> HIDE DEF T
  <2>1. T \in SUBSET SUBSET Weapons BY DEF T
  <2> QED BY <1>4, <1>5, <2>1, TotalInduction
<1> QED BY <1>1, <1>6 DEF PartialSums

-----------------------------------------------------------------------------
(***************************************************************************)
(* The transitions of a mastery state: whatever an event makes of a valid  *)
(* one, every point is accounted for, and the audit can be read again.     *)
(***************************************************************************)

\* What a mastery record holds, once it is there.
MasteryState ==
  [weapons : [Weapons -> [banked : Int, unbanked : Int]],
   stain   : [id : Keys \cup {""}, points : [Weapons -> Int]]]

\* A character starts with nothing.
LEMMA FreshIsWorthNothing == Fresh \in MasteryState /\ ValidState(Fresh) /\ Worth(Fresh) = 0
<1>1. Fresh \in MasteryState
  BY DEF Fresh, MasteryState, NoPoints
<1>2. ValidState(Fresh)
  <2>1. 0 % Bank = 0 /\ 0 \in 0..Bank - 1 /\ 0 \in 0..MaxExact
    BY BankIsPositive, StainsFit
  <2>2. \A w \in Weapons : Fresh.weapons[w].banked = 0 /\ Fresh.weapons[w].unbanked = 0
                           /\ Fresh.stain.points[w] = 0
    BY DEF Fresh, NoPoints
  <2>3. Fresh.stain.id = "" /\ Fresh.stain.points = NoPoints
    BY DEF Fresh
  <2>4. 0 <= MaxExact - 0
    BY StainsFit
  <2> QED BY <2>1, <2>2, <2>3, <2>4, Zenon DEF ValidState
<1>3. Held(Fresh) = NoPoints /\ Fresh.stain.points = NoPoints
  <2>1. \A w \in Weapons : Fresh.weapons[w].banked + Fresh.weapons[w].unbanked = 0
    BY DEF Fresh
  <2>2. Held(Fresh) = [w \in Weapons |-> 0]
    BY <2>1, Zenon DEF Held
  <2>3. Fresh.stain.points = NoPoints
    BY DEF Fresh
  <2> QED BY <2>2, <2>3 DEF NoPoints
<1>4. Total(NoPoints) = 0
  BY TotalOfNothing DEF NoPoints
<1> QED BY <1>1, <1>2, <1>3, <1>4 DEF Worth

\* Banking moves points between the halves of a track and loses none.
LEMMA AddKeeps ==
  ASSUME NEW t \in [banked : Int, unbanked : Int], NEW a \in Int
  PROVE  /\ Add(t, a) \in [banked : Int, unbanked : Int]
         /\ Add(t, a).banked + Add(t, a).unbanked = t.banked + t.unbanked + a
<1> DEFINE s == t.banked + t.unbanked + a
<1>1. s \in Int OBVIOUS
<1>2. ASSUME NEW n \in Int
      PROVE  /\ (n \div Bank) * Bank \in Int /\ n % Bank \in Int
             /\ (n \div Bank) * Bank + (n % Bank) = n
  BY BankIsPositive
<1> QED BY <1>1, <1>2 DEF Add

\* What the points of a state are, as totals.
LEMMA HeldType ==
  ASSUME NEW s \in MasteryState
  PROVE  /\ Held(s) \in [Weapons -> Int] /\ s.stain.points \in [Weapons -> Int]
         /\ \A w \in Weapons : s.weapons[w] \in [banked : Int, unbanked : Int]
         /\ Worth(s) = Total(Held(s)) + Total(s.stain.points)
         /\ Total(Held(s)) \in Int /\ Total(s.stain.points) \in Int
<1>1. /\ \A w \in Weapons : s.weapons[w] \in [banked : Int, unbanked : Int]
      /\ s.stain.points \in [Weapons -> Int]
  BY DEF MasteryState
<1>2. Held(s) \in [Weapons -> Int]
  BY <1>1 DEF Held
<1> QED BY <1>1, <1>2, TotalType DEF Worth

\* A transition accounts for every point: what the new state is worth, and what a
\* death destroyed, is what the old one was worth and what an award credited.
Accounted(s, next) ==
  /\ next.state \in MasteryState /\ next.outcome.state = next.state
  /\ next.outcome.credited \in Int /\ next.outcome.destroyed \in [Weapons -> Int]
  /\ Worth(next.state) + Total(next.outcome.destroyed) =
       Worth(s) + IF next.outcome.kind = "award" THEN next.outcome.credited ELSE 0

\* An award adds what it credits to one weapon.
LEMMA AwardAccounted ==
  ASSUME NEW s \in MasteryState, NEW e \in Events, e.op = "award", AwardTo(s, e).ok
  PROVE  Accounted(s, AwardTo(s, e))
<1> DEFINE w0 == e.weapon
           next == AwardTo(s, e)
           t == [s EXCEPT !.weapons[w0] = Add(@, e.amount)]
           gain == [w \in Weapons |-> IF w = w0 THEN e.amount ELSE 0]
<1>1. w0 \in Weapons /\ e.amount \in Int
  BY EventsAreSealed
<1>2. next = Applicable(Outcome("award", e.amount, NoPoints, NoPoints, t))
  BY DEF AwardTo, NotApplicable
<1>3. /\ next.state = t /\ next.outcome.state = t /\ next.outcome.kind = "award"
      /\ next.outcome.credited = e.amount /\ next.outcome.destroyed = NoPoints
  BY <1>2 DEF Applicable, Outcome
<1>4. \A w \in Weapons : s.weapons[w] \in [banked : Int, unbanked : Int]
  BY HeldType
<1>5. t \in MasteryState /\ t.stain = s.stain
      /\ \A w \in Weapons : t.weapons[w] = IF w = w0 THEN Add(s.weapons[w0], e.amount) ELSE s.weapons[w]
  <2>1. Add(s.weapons[w0], e.amount) \in [banked : Int, unbanked : Int]
    BY <1>1, <1>4, AddKeeps
  <2> HIDE DEF w0
  <2> QED BY <1>1, <2>1 DEF MasteryState
<1>6. \A w \in Weapons : Held(t)[w] = Held(s)[w] + gain[w]
  <2>1. Add(s.weapons[w0], e.amount).banked + Add(s.weapons[w0], e.amount).unbanked
          = s.weapons[w0].banked + s.weapons[w0].unbanked + e.amount
    BY <1>1, <1>4, AddKeeps
  <2> HIDE DEF t, w0
  <2> QED BY <1>1, <1>4, <1>5, <2>1 DEF Held
<1>7. gain \in [Weapons -> Int] /\ Total(gain) = e.amount
  BY <1>1, TotalOfOne
<1> HIDE DEF t, next, gain, w0
<1>8. Total(Held(t)) = Total(Held(s)) + e.amount
  <2>1. Held(t) \in [Weapons -> Int] /\ Held(s) \in [Weapons -> Int]
    BY <1>5, HeldType
  <2> QED BY <1>6, <1>7, <2>1, TotalAdds
<1>9. Total(NoPoints) = 0 /\ NoPoints \in [Weapons -> Int]
  BY TotalOfNothing DEF NoPoints
<1>10. Worth(t) + Total(NoPoints) = Worth(s) + e.amount
  BY <1>1, <1>5, <1>8, <1>9, HeldType
<1> QED BY <1>1, <1>3, <1>5, <1>9, <1>10 DEF Accounted, next

\* A death moves what it drops into the stain and destroys the stain before.
LEMMA DeathAccounted ==
  ASSUME NEW s \in MasteryState, NEW e \in Events, e.op = "death"
  PROVE  Accounted(s, Death(s, e))
<1> DEFINE next == Death(s, e)
           dropped == Dropped(s, e.percent)
           remains == [w \in Weapons |-> [s.weapons[w] EXCEPT !.unbanked = @ - dropped[w]]]
           t == [weapons |-> remains, stain |-> [id |-> e.key, points |-> dropped]]
<1>1. e.percent \in 0..100 /\ e.key \in Keys
  BY EventsAreSealed DEF Keys
<1>2. \A w \in Weapons : s.weapons[w] \in [banked : Int, unbanked : Int]
  BY HeldType
<1>3. dropped \in [Weapons -> Int]
  <2>1. \A n \in Int : (n * e.percent) \div 100 \in Int
    BY <1>1
  <2> QED BY <1>2, <2>1 DEF Dropped
<1>4. Total(NoPoints) = 0 /\ NoPoints \in [Weapons -> Int]
  BY TotalOfNothing DEF NoPoints
<1> HIDE DEF dropped
<1>5. CASE dropped = NoPoints
  <2>1. next = Applicable(Outcome("death", 0, NoPoints, NoPoints, s))
    BY <1>5 DEF Death, dropped
  <2> HIDE DEF next
  <2>2. /\ next.state = s /\ next.outcome.state = s /\ next.outcome.kind = "death"
        /\ next.outcome.credited = 0 /\ next.outcome.destroyed = NoPoints
    BY <2>1 DEF Applicable, Outcome
  <2> QED BY <1>4, <2>2, HeldType DEF Accounted, next
<1>6. CASE dropped # NoPoints
  <2>1. next = Applicable(Outcome("death", 0, dropped, s.stain.points, t))
    BY <1>6 DEF Death, dropped
  <2> HIDE DEF next
  <2>2. /\ next.state = t /\ next.outcome.state = t /\ next.outcome.kind = "death"
        /\ next.outcome.credited = 0 /\ next.outcome.destroyed = s.stain.points
    BY <2>1 DEF Applicable, Outcome
  <2>3. /\ t \in MasteryState /\ t.stain.points = dropped
        /\ \A w \in Weapons : t.weapons[w].banked = s.weapons[w].banked
                              /\ t.weapons[w].unbanked = s.weapons[w].unbanked - dropped[w]
    <3>1. ASSUME NEW w \in Weapons
          PROVE  /\ remains[w] \in [banked : Int, unbanked : Int]
                 /\ remains[w].banked = s.weapons[w].banked
                 /\ remains[w].unbanked = s.weapons[w].unbanked - dropped[w]
      <4>1. s.weapons[w] \in [banked : Int, unbanked : Int] /\ dropped[w] \in Int
        BY <1>2, <1>3
      <4> QED BY <4>1
    <3>2. remains \in [Weapons -> [banked : Int, unbanked : Int]]
      <4>1. remains = [w \in Weapons |-> remains[w]]
        OBVIOUS
      <4> HIDE DEF remains
      <4> QED BY <3>1, <4>1
    <3> HIDE DEF remains
    <3> QED BY <1>1, <1>3, <3>1, <3>2 DEF MasteryState
  <2>4. \A w \in Weapons : Held(s)[w] = Held(t)[w] + dropped[w]
    <3> HIDE DEF t
    <3> QED BY <1>2, <1>3, <2>3, HeldType DEF Held
  <2> HIDE DEF t
  <2>5. Total(Held(s)) = Total(Held(t)) + Total(dropped)
    BY <1>3, <2>3, <2>4, HeldType, TotalAdds
  <2>6. Worth(t) + Total(s.stain.points) = Worth(s)
    BY <2>3, <2>5, HeldType
  <2> QED BY <2>2, <2>3, <2>6, HeldType DEF Accounted, next
<1> QED BY <1>5, <1>6

\* A reclaim gives every point of the stain back to its weapon.
LEMMA ReclaimAccounted ==
  ASSUME NEW s \in MasteryState, ValidState(s), NEW e \in Events, Reclaim(s, e).ok
  PROVE  Accounted(s, Reclaim(s, e))
<1> DEFINE next == Reclaim(s, e)
           points == s.stain.points
           stained == {w \in Weapons : points[w] > 0}
           regained == [w \in Weapons |-> IF w \in stained THEN Add(s.weapons[w], points[w]) ELSE s.weapons[w]]
           t == [weapons |-> regained, stain |-> Fresh.stain]
<1>1. next = Applicable(Outcome("reclaim", Total(points), NoPoints, NoPoints, t))
  BY DEF Reclaim, NotApplicable
<1> HIDE DEF next
<1>2. /\ next.state = t /\ next.outcome.state = t /\ next.outcome.kind = "reclaim"
      /\ next.outcome.credited = Total(points) /\ next.outcome.destroyed = NoPoints
  BY <1>1 DEF Applicable, Outcome
<1>3. /\ points \in [Weapons -> Int] /\ \A w \in Weapons : points[w] >= 0
      /\ \A w \in Weapons : s.weapons[w] \in [banked : Int, unbanked : Int]
  <2>1. \A w \in Weapons : points[w] \in 0..Bank - 1
    BY Zenon DEF ValidState
  <2> QED BY <2>1, BankIsPositive, HeldType
<1>4. Total(NoPoints) = 0 /\ NoPoints \in [Weapons -> Int]
  BY TotalOfNothing DEF NoPoints
<1>5. \A w \in Weapons : /\ regained[w] \in [banked : Int, unbanked : Int]
                         /\ regained[w].banked + regained[w].unbanked
                              = s.weapons[w].banked + s.weapons[w].unbanked + points[w]
  <2> SUFFICES ASSUME NEW w \in Weapons
               PROVE  /\ regained[w] \in [banked : Int, unbanked : Int]
                      /\ regained[w].banked + regained[w].unbanked
                           = s.weapons[w].banked + s.weapons[w].unbanked + points[w]
    BY Zenon
  <2> DEFINE track == s.weapons[w]
  <2>1. regained[w] = IF points[w] > 0 THEN Add(track, points[w]) ELSE track
    OBVIOUS
  <2>2. track \in [banked : Int, unbanked : Int] /\ points[w] \in Int /\ points[w] >= 0
    BY <1>3
  <2> HIDE DEF points, regained
  <2>3. /\ Add(track, points[w]) \in [banked : Int, unbanked : Int]
        /\ Add(track, points[w]).banked + Add(track, points[w]).unbanked
             = track.banked + track.unbanked + points[w]
    <3> HIDE DEF track
    <3> QED BY <2>2, AddKeeps
  <2> HIDE DEF track
  <2>4. /\ regained[w] \in [banked : Int, unbanked : Int]
        /\ regained[w].banked + regained[w].unbanked = track.banked + track.unbanked + points[w]
    BY <2>1, <2>2, <2>3
  <2> QED BY <2>4 DEF track
<1> HIDE DEF stained
<1>6. t \in MasteryState /\ t.stain.points = NoPoints
  <2> HIDE DEF regained
  <2>1. regained \in [Weapons -> [banked : Int, unbanked : Int]]
    BY <1>5 DEF regained
  <2> QED BY <2>1, <1>4 DEF MasteryState, Fresh
<1>7. \A w \in Weapons : Held(t)[w] = Held(s)[w] + points[w]
  <2> HIDE DEF regained
  <2> QED BY <1>3, <1>5 DEF Held
<1> HIDE DEF t, points
<1>8. Total(Held(t)) = Total(Held(s)) + Total(points)
  BY <1>3, <1>6, <1>7, HeldType, TotalAdds
<1>9. Worth(t) + Total(NoPoints) = Worth(s)
  <2>1. s.stain.points = points BY DEF points
  <2> QED BY <2>1, <1>4, <1>6, <1>8, HeldType
<1> QED
  <2>1. Total(points) \in Int BY <1>3, TotalType
  <2>2. Worth(s) \in Int BY HeldType
  <2> QED BY <2>1, <2>2, <1>2, <1>4, <1>6, <1>9 DEF Accounted, next

\* What an applicable transition is: one of the three, and it left a valid state.
LEMMA TransitionCases ==
  ASSUME NEW s, NEW e \in Events, Transition(s, e).ok
  PROVE  /\ ValidState(Transition(s, e).state)
         /\ \/ e.op = "award" /\ Transition(s, e) = AwardTo(s, e)
            \/ e.op = "death" /\ Transition(s, e) = Death(s, e)
            \/ e.op = "reclaim" /\ Transition(s, e) = Reclaim(s, e)
<1> DEFINE next == CASE e.op = "award"   -> AwardTo(s, e)
                     [] e.op = "death"   -> Death(s, e)
                     [] e.op = "reclaim" -> Reclaim(s, e)
<1>1. ~NotApplicable.ok
  BY DEF NotApplicable
<1>2. Transition(s, e) = IF next.ok /\ ValidState(next.state) THEN next ELSE NotApplicable
  BY DEF Transition
<1>3. /\ e.op = "award" => next = AwardTo(s, e)
      /\ e.op = "death" => next = Death(s, e)
      /\ e.op = "reclaim" => next = Reclaim(s, e)
  OBVIOUS
<1> HIDE DEF next
<1> QED BY <1>1, <1>2, <1>3, EventsAreSealed

\* Every applicable transition of a valid state accounts for all points.
LEMMA TransitionAccounted ==
  ASSUME NEW s \in MasteryState, ValidState(s), NEW e \in Events, Transition(s, e).ok
  PROVE  Accounted(s, Transition(s, e)) /\ ValidState(Transition(s, e).state)
<1>1. CASE e.op = "award" /\ Transition(s, e) = AwardTo(s, e)
  <2>1. AwardTo(s, e).ok BY <1>1
  <2> QED BY <1>1, <2>1, AwardAccounted, TransitionCases
<1>2. CASE e.op = "death" /\ Transition(s, e) = Death(s, e)
  BY <1>2, DeathAccounted, TransitionCases
<1>3. CASE e.op = "reclaim" /\ Transition(s, e) = Reclaim(s, e)
  <2>1. Reclaim(s, e).ok BY <1>3
  <2> QED BY <1>3, <2>1, ReclaimAccounted, TransitionCases
<1> QED BY <1>1, <1>2, <1>3, TransitionCases

\* The retained reader accepts the audit of every applicable transition, so nothing
\* that was committed is refused when it is read again.
LEMMA TransitionDecodable ==
  ASSUME NEW s \in MasteryState, ValidState(s), NEW e \in Events, Transition(s, e).ok
  PROVE  Decodable(Transition(s, e).outcome)
<1> DEFINE next == Transition(s, e)
           o == next.outcome
           points == s.stain.points
<1>1. ValidState(o.state)
  BY TransitionAccounted DEF Accounted
<1>2. /\ points \in [Weapons -> Int] /\ \A w \in Weapons : points[w] \in 0..Bank - 1
      /\ \A w \in Weapons : s.weapons[w] \in [banked : Int, unbanked : Int]
      /\ \A w \in Weapons : s.weapons[w].banked \in 0..MaxExact /\ s.weapons[w].unbanked \in 0..Bank - 1
  <2>1. /\ \A w \in Weapons : points[w] \in 0..Bank - 1
        /\ \A w \in Weapons : s.weapons[w].banked \in 0..MaxExact /\ s.weapons[w].unbanked \in 0..Bank - 1
    BY Zenon DEF ValidState
  <2> HIDE DEF points
  <2> QED BY <2>1, HeldType DEF points
<1>3. \A w \in Weapons : NoPoints[w] \in 0..Bank - 1
  BY BankIsPositive DEF NoPoints
<1> HIDE DEF points
<1>4. CASE e.op = "award" /\ next = AwardTo(s, e)
  <2> DEFINE t == [s EXCEPT !.weapons[e.weapon] = Add(@, e.amount)]
  <2>1. Fits(s.weapons[e.weapon], e.amount)
        /\ next = Applicable(Outcome("award", e.amount, NoPoints, NoPoints, t))
    BY <1>4 DEF AwardTo, NotApplicable
  <2> HIDE DEF next, t
  <2>2. /\ o.kind = "award" /\ o.credited = e.amount
        /\ o.dropped = NoPoints /\ o.destroyed = NoPoints
    BY <2>1 DEF Applicable, Outcome
  <2>3. e.weapon \in Weapons /\ e.amount \in Int
    BY <1>4, EventsAreSealed
  <2>4. e.amount \in 0..MaxExact /\ e.amount > 0
    BY <1>2, <2>1, <2>3, BankIsPositive, StainsFit DEF Fits
  <2> HIDE DEF o
  <2> QED BY <1>1, <1>3, <2>2, <2>4, Zenon DEF Decodable, o, next
<1>5. CASE e.op = "death" /\ next = Death(s, e)
  <2> DEFINE dropped == Dropped(s, e.percent)
             remains == [w \in Weapons |-> [s.weapons[w] EXCEPT !.unbanked = @ - dropped[w]]]
             t == [weapons |-> remains, stain |-> [id |-> e.key, points |-> dropped]]
  <2>1. \/ next = Applicable(Outcome("death", 0, NoPoints, NoPoints, s))
        \/ dropped # NoPoints /\ next = Applicable(Outcome("death", 0, dropped, points, t))
    BY <1>5 DEF Death, points
  <2> HIDE DEF next, dropped
  <2>2. /\ o.kind = "death" /\ o.credited = 0
        /\ \/ o.dropped = NoPoints /\ o.destroyed = NoPoints
           \/ /\ o.dropped # NoPoints /\ o.dropped = o.state.stain.points
              /\ o.destroyed = points
    BY <2>1 DEF Applicable, Outcome
  <2>3. 0 \in 0..MaxExact
    BY StainsFit
  <2>4. \A w \in Weapons : o.state.stain.points[w] \in 0..Bank - 1
    BY <1>1, Zenon DEF ValidState
  <2>5. \A w \in Weapons : o.dropped[w] \in 0..Bank - 1 /\ o.destroyed[w] \in 0..Bank - 1
    <3> HIDE DEF o
    <3> QED BY <1>2, <1>3, <2>2, <2>4, Zenon
  <2>6. o.kind # "reclaim"
    BY <2>2
  <2> HIDE DEF o
  <2> QED BY <1>1, <2>2, <2>3, <2>5, <2>6, Zenon DEF Decodable, o, next
<1>6. CASE e.op = "reclaim" /\ next = Reclaim(s, e)
  <2> DEFINE stained == {w \in Weapons : points[w] > 0}
             regained == [w \in Weapons |-> IF w \in stained THEN Add(s.weapons[w], points[w]) ELSE s.weapons[w]]
             t == [weapons |-> regained, stain |-> Fresh.stain]
  <2>1. /\ next = Applicable(Outcome("reclaim", Total(points), NoPoints, NoPoints, t))
        /\ s.stain.id # ""
    <3>1. Reclaim(s, e).ok
      BY <1>6
    <3> QED BY <1>6, <3>1 DEF Reclaim, NotApplicable, points
  <2> HIDE DEF next, stained
  <2>2. /\ o.kind = "reclaim" /\ o.credited = Total(points) /\ o.state.stain.id = ""
        /\ o.dropped = NoPoints /\ o.destroyed = NoPoints
    BY <2>1 DEF Applicable, Outcome, Fresh
  <2>3. PICK w0 \in Weapons : points[w0] > 0
    <3>1. points # NoPoints
      BY <2>1 DEF ValidState, points
    <3>2. \E w \in Weapons : points[w] # 0
      BY <1>2, <3>1 DEF NoPoints
    <3> QED BY <1>2, <3>2, BankIsPositive
  <2>4. Total(points) >= points[w0]
    <3> DEFINE one == [w \in Weapons |-> IF w = w0 THEN points[w0] ELSE 0]
    <3>1. one \in [Weapons -> Int] /\ \A w \in Weapons : one[w] <= points[w]
      BY <1>2, BankIsPositive
    <3>2. Total(one) = points[w0]
      BY <1>2, TotalOfOne
    <3> HIDE DEF one
    <3>3. Total(one) <= Total(points)
      BY <1>2, <3>1, TotalGrows
    <3> QED BY <1>2, <3>1, <3>2, <3>3, TotalType
  <2>5. Total(points) <= MaxExact
    <3> DEFINE all == [w \in Weapons |-> Bank - 1]
    <3>1. all \in [Weapons -> Int] /\ \A w \in Weapons : points[w] <= all[w]
      BY <1>2, BankIsPositive
    <3> HIDE DEF all
    <3>2. Total(points) <= Total(all)
      BY <1>2, <3>1, TotalGrows
    <3>3. Total(all) <= MaxExact
      BY StainsFit DEF all
    <3> QED BY <1>2, <3>1, <3>2, <3>3, StainsFit, TotalType
  <2>6. o.credited \in 0..MaxExact /\ o.credited > 0
    <3>1. Total(points) \in Int
      BY <1>2, TotalType
    <3>2. points[w0] \in Int
      BY <1>2
    <3>3. Total(points) \in 0..MaxExact /\ Total(points) > 0
      BY <2>3, <2>4, <2>5, <3>1, <3>2, StainsFit
    <3> HIDE DEF o
    <3> QED BY <2>2, <3>3, Zenon
  <2>7. o.kind # "death"
    BY <2>2
  <2> HIDE DEF o
  <2> QED BY <1>1, <1>3, <2>2, <2>6, <2>7, Zenon DEF Decodable, o, next
<1> QED BY <1>4, <1>5, <1>6, TransitionCases

-----------------------------------------------------------------------------
(***************************************************************************)
(* The inductive invariant.  The conservation of the points rests on what  *)
(* a call knows when it writes: that the record its transition started     *)
(* from is still the one that is stored, or that its write is rejected.    *)
(***************************************************************************)
TypeInv ==
  /\ kind \in {"inventory", "character", "mastery"}
  /\ record.version \in Nat
  /\ record.version = 0 => record = NoRecord
  /\ audits = [k \in Keys |-> audits[k]]
  /\ calls = [c \in Calls |-> calls[c]]
  /\ awarded \in Int /\ lost \in Int

\* Every point of the record was awarded, and has not been lost.
RecordInv ==
  kind = "mastery" =>
    \/ record = NoRecord /\ awarded = 0 /\ lost = 0
    \/ record.value = Malformed
    \/ /\ record.value \in MasteryState /\ ValidState(record.value)
       /\ Worth(record.value) + lost = awarded

\* A call is of its store, asks what its store serves, and keeps a key of the
\* account all along.
CallInv(at) ==
  /\ at.pc # "idle" => at.request.key \in Keys
  /\ at.pc \in {"lookup", "load", "resolve"} => at = [pc |-> at.pc, request |-> at.request]
  /\ at.pc \in {"relook", "apply", "write", "rejected", "unsure"} =>
       at = [pc |-> at.pc, request |-> at.request, version |-> at.version, next |-> at.next]
  /\ at.pc \in {"lookup", "load", "relook", "resolve"} => kind = "mastery"
  /\ at.pc = "observe" => kind # "mastery"
  /\ kind = "mastery" /\ at.pc \notin {"idle", "done"} => at.request \in Events

\* What a call is about to write rests on the record that is stored, or is refused.
EvidenceInv(at) ==
  /\ at.pc = "observe" => at.version \in Nat /\ at.version <= record.version
  /\ at.pc \in {"apply", "write"} =>
       /\ at.version \in Nat /\ at.version <= record.version
       /\ at.version = record.version =>
            /\ Readable
            /\ kind = "mastery" => at.next = Transition(Decoded, at.request) /\ at.next.ok

IInv == TypeInv /\ RecordInv /\ \A c \in Calls : CallInv(calls[c]) /\ EvidenceInv(calls[c])

\* What an answer has to agree with, and what every step has to keep.
AnswerOK(at) ==
  at.pc = "done" =>
    /\ at.answer.as = "ok" => /\ audits[at.request.key].request = at.request
                              /\ audits[at.request.key].outcome = at.answer.outcome
    /\ at.answer.as \in {"conflict", "invalid"} => audits[at.request.key] = NoAudit
CallsKeep == IInv' /\ (\A c \in Calls : AnswerAgrees(c)) /\ MalformedKept

\* The stores begin with no record or one that cannot be read, and with no points.
LEMMA InitHolds == Init => IInv
<1> SUFFICES ASSUME Init PROVE IInv
  OBVIOUS
<1>1. \/ record = NoRecord /\ record.version = 0
      \/ record.value = Malformed /\ record.version = 1
  <2>1. record = NoRecord => record.version = 0
    BY DEF NoRecord
  <2>2. record = [value |-> Malformed, version |-> 1] => record.value = Malformed /\ record.version = 1
    OBVIOUS
  <2> QED BY <2>1, <2>2, Zenon DEF Init
<1>2. TypeInv
  <2>1. audits = [k \in Keys |-> audits[k]]
    BY Zenon DEF Init
  <2>2. calls = [c \in Calls |-> calls[c]] /\ kind \in {"inventory", "character", "mastery"}
        /\ awarded = 0 /\ lost = 0
    BY DEF Init
  <2> QED BY <1>1, <2>1, <2>2 DEF TypeInv
<1>3. RecordInv
  BY <1>1 DEF RecordInv, Init
<1>4. \A c \in Calls : calls[c].pc = "idle"
  BY DEF Init, Idle
<1>5. \A c \in Calls : CallInv(calls[c]) /\ EvidenceInv(calls[c])
  BY <1>4 DEF CallInv, EvidenceInv
<1> QED BY <1>2, <1>3, <1>5 DEF IInv

\* A mastery record that can be read holds a valid state, worth what was awarded
\* and not lost; a character without one holds nothing.
LEMMA DecodedHolds ==
  ASSUME IInv, kind = "mastery", Readable
  PROVE  Decoded \in MasteryState /\ ValidState(Decoded) /\ Worth(Decoded) + lost = awarded
<1>1. CASE record = NoRecord
  <2>1. NoRecord.value \notin MasteryState /\ NoRecord.value # Malformed
    BY DEF NoRecord, MasteryState, Malformed
  <2>2. awarded = 0 /\ lost = 0
    BY <1>1, <2>1 DEF IInv, RecordInv
  <2>3. Decoded = Fresh
    BY <1>1 DEF Decoded
  <2> QED BY <2>2, <2>3, FreshIsWorthNothing
<1>2. CASE record # NoRecord
  <2>1. Decoded = record.value
    BY <1>2 DEF Decoded
  <2> QED BY <1>2, <2>1 DEF IInv, RecordInv, Readable
<1> QED BY <1>1, <1>2

\* A step that changes only what one call does.
LEMMA CallMoves ==
  ASSUME IInv, NEW c \in Calls, NEW at, Step(c, at), ReadOnly,
         CallInv(at), EvidenceInv(at), AnswerOK(at)
  PROVE  CallsKeep
<1>1. /\ kind' = kind /\ record' = record /\ audits' = audits /\ awarded' = awarded /\ lost' = lost
      /\ calls' = [calls EXCEPT ![c] = at]
  BY DEF ReadOnly, Step
<1>2. \A d \in Calls : calls'[d] = IF d = c THEN at ELSE calls[d]
  BY <1>1 DEF IInv, TypeInv
<1>3. Readable' = Readable /\ Decoded' = Decoded
  BY <1>1 DEF Readable, Decoded
<1>4. TypeInv'
  BY <1>1 DEF IInv, TypeInv
<1>5. RecordInv'
  BY <1>1 DEF IInv, RecordInv
<1>6. ASSUME NEW d \in Calls PROVE CallInv(calls[d])' /\ EvidenceInv(calls[d])'
  <2>1. \A x : CallInv(x) => CallInv(x)'
    BY <1>1 DEF CallInv
  <2>2. \A x : EvidenceInv(x) => EvidenceInv(x)'
    BY <1>1, <1>3 DEF EvidenceInv
  <2> QED BY <1>2, <2>1, <2>2 DEF IInv
<1>7. ASSUME NEW d \in Calls PROVE AnswerAgrees(d)
  BY <1>1, <1>2 DEF AnswerAgrees, AnswerOK
<1>8. MalformedKept
  BY <1>1 DEF MalformedKept
<1> QED BY <1>4, <1>5, <1>6, <1>7, <1>8 DEF CallsKeep, IInv

\* An answer leaves the stores alone and ends the call.
LEMMA AnswerMoves ==
  ASSUME IInv, NEW c \in Calls, calls[c].pc # "idle", NEW answer, Answer(c, answer), ReadOnly,
         answer.as = "ok" => /\ audits[calls[c].request.key].request = calls[c].request
                             /\ audits[calls[c].request.key].outcome = answer.outcome,
         answer.as \in {"conflict", "invalid"} => ~Audited(c)
  PROVE  CallsKeep
<1> DEFINE at == [pc |-> "done", request |-> calls[c].request, answer |-> answer]
<1>1. Step(c, at)
  BY DEF Answer
<1>2. at.pc = "done" /\ at.request = calls[c].request /\ at.answer = answer
  OBVIOUS
<1>3. calls[c].request.key \in Keys
  BY DEF IInv, CallInv
<1> HIDE DEF at
<1>4. CallInv(at)
  BY <1>2, <1>3 DEF CallInv
<1>5. EvidenceInv(at)
  BY <1>2 DEF EvidenceInv
<1>6. AnswerOK(at)
  BY <1>2 DEF AnswerOK, Audited
<1> QED BY <1>1, <1>4, <1>5, <1>6, CallMoves

\* A storage failure says nothing about the audit.
LEMMA FailureMoves ==
  ASSUME IInv, NEW c \in Calls, calls[c].pc # "idle", Failed(c), ReadOnly
  PROVE  CallsKeep
<1> DEFINE answer == [as |-> "storage"]
<1>1. Answer(c, answer)
  BY DEF Failed
<1>2. answer.as \notin {"ok", "conflict", "invalid"}
  OBVIOUS
<1> HIDE DEF answer
<1> QED BY <1>1, <1>2, AnswerMoves

\* An audit that is found answers for its own request only.
LEMMA ResolvedMoves ==
  ASSUME IInv, NEW c \in Calls, calls[c].pc # "idle", Resolved(c), ReadOnly
  PROVE  CallsKeep
<1> DEFINE audit == audits[calls[c].request.key]
           conflict == [as |-> "key conflict"]
           ok == [as |-> "ok", outcome |-> audit.outcome]
<1>1. \/ Failed(c) \/ Answer(c, conflict)
      \/ audit.request = calls[c].request /\ Reported(c, audit.outcome)
  BY Zenon DEF Resolved
<1>2. \/ Failed(c) \/ Answer(c, conflict)
      \/ audit.request = calls[c].request /\ Answer(c, ok)
  BY <1>1, Zenon DEF Reported
<1>3. /\ conflict.as \notin {"ok", "conflict", "invalid"}
      /\ ok.as = "ok" /\ ok.outcome = audit.outcome /\ ok.as \notin {"conflict", "invalid"}
  OBVIOUS
<1>4. CASE Failed(c)
  BY <1>4, FailureMoves
<1>5. CASE Answer(c, conflict)
  <2> HIDE DEF conflict
  <2> QED BY <1>3, <1>5, AnswerMoves
<1>6. CASE audit.request = calls[c].request /\ Answer(c, ok)
  <2> HIDE DEF ok
  <2> QED BY <1>3, <1>6, AnswerMoves
<1> QED BY <1>2, <1>4, <1>5, <1>6

-----------------------------------------------------------------------------
\* One lemma per action.

\* A caller asks what its store serves.
LEMMA AskKeeps == ASSUME IInv, NEW c \in Calls, Ask(c) PROVE CallsKeep
<1> USE DEF Ask
<1>1. PICK r \in Requests :
        IF kind = "mastery" THEN \E to \in {"lookup", "resolve"} : Step(c, [pc |-> to, request |-> r])
        ELSE \E v \in 0..record.version : Step(c, [pc |-> "observe", request |-> r, version |-> v])
  OBVIOUS
<1>2. kind \in {"inventory", "character", "mastery"} /\ record.version \in Nat
  BY DEF IInv, TypeInv
<1>3. r.key \in Keys /\ (kind = "mastery" => r \in Events)
  <2>1. CASE kind = "mastery"
    BY <2>1 DEF Requests, Keys
  <2>2. CASE kind = "inventory"
    BY <2>2 DEF Requests, Keys
  <2>3. CASE kind = "character"
    BY <2>3 DEF Requests, Keys
  <2> QED BY <1>2, <2>1, <2>2, <2>3
<1>4. CASE kind = "mastery"
  <2>1. PICK to \in {"lookup", "resolve"} : Step(c, [pc |-> to, request |-> r])
    BY <1>1, <1>4
  <2> DEFINE at == [pc |-> to, request |-> r]
  <2>2. at.pc = to /\ at.request = r
    OBVIOUS
  <2>3. CallInv(at)
    BY <1>3, <1>4, <2>1, <2>2 DEF CallInv
  <2>4. EvidenceInv(at) /\ AnswerOK(at)
    BY <2>1, <2>2 DEF EvidenceInv, AnswerOK
  <2> HIDE DEF at
  <2> QED BY <2>1, <2>3, <2>4, CallMoves DEF at
<1>5. CASE kind # "mastery"
  <2>1. PICK v \in 0..record.version : Step(c, [pc |-> "observe", request |-> r, version |-> v])
    BY <1>1, <1>5
  <2> DEFINE at == [pc |-> "observe", request |-> r, version |-> v]
  <2>2. at.pc = "observe" /\ at.request = r /\ at.version = v
    OBVIOUS
  <2> HIDE DEF at
  <2>3. CallInv(at)
    BY <1>3, <1>5, <2>2 DEF CallInv
  <2>4. EvidenceInv(at) /\ AnswerOK(at)
    BY <1>2, <2>2 DEF EvidenceInv, AnswerOK
  <2> QED BY <2>1, <2>3, <2>4, CallMoves DEF at
<1> QED BY <1>4, <1>5

\* A save quotes what its caller saw: that the record it replaces was readable, or
\* that there was none.
LEMMA ObserveKeeps == ASSUME IInv, NEW c \in Calls, Observe(c) PROVE CallsKeep
<1>1. calls[c].pc = "observe" /\ calls[c].pc # "idle" /\ ReadOnly
  BY DEF Observe
<1>2. /\ kind # "mastery" /\ calls[c].request.key \in Keys
      /\ calls[c].version \in Nat /\ calls[c].version <= record.version
  BY <1>1 DEF IInv, CallInv, EvidenceInv
<1>3. CASE Failed(c)
  BY <1>1, <1>3, FailureMoves
<1>4. CASE Encoded(c) /\ (calls[c].version # 0 => Readable)
  <2> DEFINE encoded == Encode(calls[c].request)
             request == [key |-> encoded.key, payload |-> encoded.payload]
             refused == [as |-> "not a document"]
             at == [pc |-> "apply", request |-> request, version |-> calls[c].version,
                    next |-> [ok |-> TRUE, state |-> request.payload, outcome |-> Cardinality(request.payload.doc)]]
  <2>1. Answer(c, refused) \/ Step(c, at)
    BY <1>4 DEF Encoded
  <2>2. refused.as \notin {"ok", "conflict", "invalid"}
    OBVIOUS
  <2>3. request.key = calls[c].request.key
    BY DEF Encode, EncodeContainer, EncodeCharacter
  <2>4. /\ at.pc = "apply" /\ at.request = request /\ at.version = calls[c].version
        /\ at = [pc |-> at.pc, request |-> at.request, version |-> at.version, next |-> at.next]
    OBVIOUS
  <2> HIDE DEF at, refused, request
  <2>5. CallInv(at)
    BY <1>2, <2>3, <2>4 DEF CallInv
  <2>6. at.version = record.version => Readable
    <3>1. CASE calls[c].version = 0 /\ record.version = 0
      BY <3>1 DEF IInv, TypeInv, NoRecord, Readable, Malformed
    <3> QED BY <1>4, <2>4, <3>1
  <2>7. EvidenceInv(at) /\ AnswerOK(at)
    BY <1>2, <2>4, <2>6 DEF EvidenceInv, AnswerOK
  <2> QED BY <1>1, <2>1, <2>2, <2>5, <2>7, CallMoves, AnswerMoves
<1> QED BY <1>3, <1>4 DEF Observe

\* A call goes on with what it knows.
LEMMA GotoKeeps ==
  ASSUME IInv, NEW c \in Calls, NEW to \in {"load", "write", "rejected", "unsure"}, ReadOnly,
         to = "load" => calls[c].pc = "lookup",
         to = "write" => calls[c].pc = "apply",
         to \in {"rejected", "unsure"} => calls[c].pc = "write",
         Goto(c, to)
  PROVE  CallsKeep
<1> DEFINE at == [calls[c] EXCEPT !.pc = to]
<1>1. CASE to = "load"
  <2>1. calls[c] = [pc |-> calls[c].pc, request |-> calls[c].request]
    BY <1>1 DEF IInv, CallInv
  <2>2. at.pc = to /\ at = [pc |-> to, request |-> calls[c].request] /\ at.request = calls[c].request
    BY <2>1
  <2> HIDE DEF at
  <2>3. CallInv(at) /\ EvidenceInv(at) /\ AnswerOK(at)
    BY <1>1, <2>2 DEF IInv, CallInv, EvidenceInv, AnswerOK
  <2> QED BY <2>3, CallMoves DEF Goto, at
<1>2. CASE to # "load"
  <2>1. calls[c] = [pc |-> calls[c].pc, request |-> calls[c].request, version |-> calls[c].version, next |-> calls[c].next]
    BY <1>2 DEF IInv, CallInv
  <2>2. /\ at.pc = to /\ at.request = calls[c].request /\ at.version = calls[c].version /\ at.next = calls[c].next
        /\ at = [pc |-> to, request |-> calls[c].request, version |-> calls[c].version, next |-> calls[c].next]
    BY <2>1
  <2> HIDE DEF at
  <2>3. CallInv(at)
    BY <1>2, <2>2 DEF IInv, CallInv
  <2>4. EvidenceInv(at) /\ AnswerOK(at)
    BY <1>2, <2>2 DEF IInv, EvidenceInv, AnswerOK
  <2> QED BY <2>3, <2>4, CallMoves DEF Goto, at
<1> QED BY <1>1, <1>2

\* An answer that depends on whether the key has an audit.
LEMMA AuditedMoves ==
  ASSUME IInv, NEW c \in Calls, calls[c].pc # "idle", ReadOnly,
         NEW answer, answer.as # "ok",
         IF Audited(c) THEN Resolved(c) ELSE Answer(c, answer)
  PROVE  CallsKeep
<1>1. CASE Audited(c)
  BY <1>1, ResolvedMoves
<1>2. CASE ~Audited(c)
  BY <1>2, AnswerMoves
<1> QED BY <1>1, <1>2

\* A replay is found before the state is read.
LEMMA CallLookupKeeps == ASSUME IInv, NEW c \in Calls, Lookup(c) PROVE CallsKeep
<1>1. calls[c].pc = "lookup" /\ calls[c].pc # "idle" /\ ReadOnly
  BY DEF Lookup
<1>2. CASE Failed(c)
  BY <1>1, <1>2, FailureMoves
<1>3. CASE Audited(c) /\ Resolved(c)
  BY <1>1, <1>3, ResolvedMoves
<1>4. CASE Goto(c, "load")
  BY <1>1, <1>4, GotoKeeps
<1> QED BY <1>2, <1>3, <1>4 DEF Lookup

\* What is loaded, and what becomes of it, is the evidence of the write to come.
LEMMA LoadKeeps == ASSUME IInv, NEW c \in Calls, Load(c) PROVE CallsKeep
<1> DEFINE request == calls[c].request
           next == Transition(Decoded, request)
           refused == [as |-> "invalid"]
           at == [pc |-> IF next.ok THEN "apply" ELSE "relook", request |-> request,
                  version |-> record.version, next |-> next]
<1>1. calls[c].pc = "load" /\ calls[c].pc # "idle" /\ ReadOnly
  BY DEF Load
<1>2. kind = "mastery" /\ request \in Events /\ request.key \in Keys
  BY <1>1 DEF IInv, CallInv
<1>3. CASE Failed(c)
  BY <1>1, <1>3, FailureMoves
<1>4. CASE Readable /\ next.ok /\ ~Decodable(next.outcome)
  <2>1. Decoded \in MasteryState /\ ValidState(Decoded)
    BY <1>2, <1>4, DecodedHolds
  <2> QED BY <1>2, <1>4, <2>1, TransitionDecodable
<1>5. CASE Readable /\ Step(c, at)
  <2>1. /\ at.pc = IF next.ok THEN "apply" ELSE "relook"
        /\ at.request = request /\ at.version = record.version /\ at.next = next
        /\ at = [pc |-> at.pc, request |-> at.request, version |-> at.version, next |-> at.next]
    BY Zenon
  <2> HIDE DEF at, request, next
  <2>2. CallInv(at)
    BY <1>2, <2>1 DEF CallInv
  <2>3. record.version \in Nat
    BY DEF IInv, TypeInv
  <2>4. EvidenceInv(at)
    <3>1. at.pc # "observe" /\ (at.pc \in {"apply", "write"} => next.ok)
      BY <2>1
    <3> QED BY <1>5, <2>1, <2>3, <3>1 DEF EvidenceInv, next
  <2>5. AnswerOK(at)
    BY <2>1 DEF AnswerOK
  <2> QED BY <1>1, <1>5, <2>2, <2>4, <2>5, CallMoves
<1> QED BY <1>3, <1>4, <1>5 DEF Load

\* What the state refuses is invalid only if its key has committed nothing.
LEMMA RelookKeeps == ASSUME IInv, NEW c \in Calls, Relook(c) PROVE CallsKeep
<1> DEFINE answer == [as |-> "invalid"]
<1>1. calls[c].pc # "idle" /\ ReadOnly
  BY DEF Relook
<1>2. answer.as # "ok"
  OBVIOUS
<1>3. Failed(c) \/ IF Audited(c) THEN Resolved(c) ELSE Answer(c, answer)
  BY DEF Relook
<1> HIDE DEF answer
<1> QED BY <1>1, <1>2, <1>3, FailureMoves, AuditedMoves

\* Without an audit nothing is said.
LEMMA ResolveKeeps == ASSUME IInv, NEW c \in Calls, Resolve(c) PROVE CallsKeep
<1> DEFINE answer == [as |-> "indeterminate"]
<1>1. calls[c].pc # "idle" /\ ReadOnly
  BY DEF Resolve
<1>2. answer.as \notin {"ok", "conflict", "invalid"}
  OBVIOUS
<1>3. Answer(c, answer) \/ IF Audited(c) THEN Resolved(c) ELSE Answer(c, answer)
  BY DEF Resolve
<1> HIDE DEF answer
<1> QED BY <1>1, <1>2, <1>3, AnswerMoves, AuditedMoves

\* The audit is read once more before the write.
LEMMA ApplyKeeps == ASSUME IInv, NEW c \in Calls, Apply(c) PROVE CallsKeep
<1>1. calls[c].pc = "apply" /\ calls[c].pc # "idle" /\ ReadOnly
  BY DEF Apply
<1>2. CASE Failed(c)
  BY <1>1, <1>2, FailureMoves
<1>3. CASE Audited(c) /\ Resolved(c)
  BY <1>1, <1>3, ResolvedMoves
<1>4. CASE Goto(c, "write")
  BY <1>1, <1>4, GotoKeeps
<1> QED BY <1>2, <1>3, <1>4 DEF Apply

\* A rejected write is a conflict only if its own key has committed nothing.
LEMMA AfterWriteKeeps == ASSUME IInv, NEW c \in Calls, AfterWrite(c) PROVE CallsKeep
<1> DEFINE unsure == [as |-> "indeterminate"]
           conflict == [as |-> "conflict"]
<1>1. calls[c].pc # "idle" /\ ReadOnly
  BY DEF AfterWrite
<1>2. unsure.as \notin {"ok", "conflict", "invalid"} /\ conflict.as # "ok"
  OBVIOUS
<1>3. \/ Answer(c, unsure)
      \/ IF Audited(c) THEN Resolved(c) ELSE Answer(c, unsure)
      \/ IF Audited(c) THEN Resolved(c) ELSE Answer(c, conflict)
  BY Zenon DEF AfterWrite
<1> HIDE DEF unsure, conflict
<1> QED BY <1>1, <1>2, <1>3, AnswerMoves, AuditedMoves

-----------------------------------------------------------------------------
\* A write is accepted only over the record its transition started from: this is
\* where a point could be counted twice or overwritten.
LEMMA CommitKeeps ==
  ASSUME IInv, NEW c \in Calls, calls[c].pc = "write", Accepted(c), Commits(c),
         NEW at, Step(c, at),
         at.pc \in {"done", "unsure"}, CallInv(at),
         at.pc = "done" =>
           /\ at.request = calls[c].request
           /\ at.answer.as = "ok" => at.answer.outcome = calls[c].next.outcome
           /\ at.answer.as \notin {"conflict", "invalid"}
  PROVE  CallsKeep
<1> DEFINE next == calls[c].next
           key == calls[c].request.key
<1>1. /\ kind' = kind /\ calls' = [calls EXCEPT ![c] = at]
      /\ record' = [value |-> next.state, version |-> record.version + 1]
      /\ audits' = [audits EXCEPT ![key] = [request |-> calls[c].request, outcome |-> next.outcome]]
  BY DEF Commits, Step
<1>2. \A d \in Calls : calls'[d] = IF d = c THEN at ELSE calls[d]
  BY <1>1 DEF IInv, TypeInv
<1>3. key \in Keys
  BY DEF IInv, CallInv
<1>4. calls[c].version = record.version /\ Readable
      /\ (kind = "mastery" => /\ calls[c].request \in Events
                              /\ next = Transition(Decoded, calls[c].request) /\ next.ok)
  BY DEF Accepted, IInv, CallInv, EvidenceInv
<1>5. record.version \in Nat /\ record'.version = record.version + 1 /\ record'.value = next.state
  BY <1>1 DEF IInv, TypeInv
<1>6. audits'[key] = [request |-> calls[c].request, outcome |-> next.outcome]
  BY <1>1, <1>3 DEF IInv, TypeInv
<1>7. ASSUME kind = "mastery"
      PROVE  /\ awarded' \in Int /\ lost' \in Int
             /\ next.state \in MasteryState /\ ValidState(next.state)
             /\ Worth(next.state) + lost' = awarded'
  <2> DEFINE s == Decoded
             credit == IF next.outcome.kind = "award" THEN next.outcome.credited ELSE 0
  <2>1. s \in MasteryState /\ ValidState(s) /\ Worth(s) + lost = awarded
    BY <1>4, <1>7, DecodedHolds
  <2>2. Accounted(s, next) /\ ValidState(next.state)
    BY <1>4, <1>7, <2>1, TransitionAccounted
  <2>3. awarded' = awarded + credit /\ lost' = lost + Total(next.outcome.destroyed)
    BY <1>7 DEF Commits
  <2> HIDE DEF next, s
  <2>4. /\ next.state \in MasteryState /\ credit \in Int /\ Total(next.outcome.destroyed) \in Int
        /\ Worth(next.state) + Total(next.outcome.destroyed) = Worth(s) + credit
    BY <2>2, TotalType DEF Accounted
  <2> HIDE DEF credit
  <2>5. Worth(s) \in Int /\ Worth(next.state) \in Int /\ awarded \in Int /\ lost \in Int
    <3>1. Worth(s) \in Int BY <2>1, HeldType
    <3>2. Worth(next.state) \in Int BY <2>4, HeldType
    <3> QED BY <3>1, <3>2 DEF IInv, TypeInv
  <2> QED BY <2>1, <2>2, <2>3, <2>4, <2>5
<1> HIDE DEF next, key
<1>8. TypeInv'
  <2>1. awarded' \in Int /\ lost' \in Int
    BY <1>7 DEF Commits, IInv, TypeInv
  <2> QED BY <1>1, <1>5, <2>1 DEF IInv, TypeInv
<1>9. RecordInv'
  BY <1>1, <1>5, <1>7 DEF RecordInv
<1>10. ASSUME NEW d \in Calls PROVE CallInv(calls[d])' /\ EvidenceInv(calls[d])'
  <2>1. \A x : CallInv(x) => CallInv(x)'
    BY <1>1 DEF CallInv
  <2>2. CallInv(calls[d])'
    BY <1>2, <2>1 DEF IInv
  <2>3. CASE d = c
    BY <1>2, <2>2, <2>3 DEF EvidenceInv
  <2>4. CASE d # c
    <3>1. EvidenceInv(calls[d]) /\ calls'[d] = calls[d]
      BY <1>2, <2>4 DEF IInv
    <3> QED BY <1>5, <2>2, <3>1 DEF EvidenceInv
  <2> QED BY <2>3, <2>4
<1>11. ASSUME NEW d \in Calls PROVE AnswerAgrees(d)
  BY <1>2, <1>6 DEF AnswerAgrees, key, next
<1>12. MalformedKept
  BY <1>4 DEF MalformedKept, Readable
<1> QED BY <1>8, <1>9, <1>10, <1>11, <1>12 DEF CallsKeep, IInv

\* A write is accepted, with its answer given or lost, or it changes nothing.
LEMMA CallWriteKeeps == ASSUME IInv, NEW c \in Calls, Write(c) PROVE CallsKeep
<1>1. calls[c].pc = "write"
  BY DEF Write
<1>2. calls[c].request.key \in Keys /\ (kind = "mastery" => calls[c].request \in Events)
      /\ calls[c] = [pc |-> calls[c].pc, request |-> calls[c].request, version |-> calls[c].version, next |-> calls[c].next]
  BY <1>1 DEF IInv, CallInv
<1>3. CASE ~Accepted(c) /\ Goto(c, "rejected") /\ ReadOnly
  BY <1>1, <1>3, GotoKeeps
<1>4. CASE Goto(c, "unsure") /\ ReadOnly
  BY <1>1, <1>4, GotoKeeps
<1>5. CASE Accepted(c) /\ Commits(c) /\ Step(c, [calls[c] EXCEPT !.pc = "unsure"])
  <2> DEFINE at == [calls[c] EXCEPT !.pc = "unsure"]
  <2>1. at.pc = "unsure" /\ at.request = calls[c].request
        /\ at = [pc |-> "unsure", request |-> calls[c].request, version |-> calls[c].version, next |-> calls[c].next]
        /\ at.version = calls[c].version /\ at.next = calls[c].next
    BY <1>2
  <2> HIDE DEF at
  <2>2. CallInv(at)
    BY <1>2, <2>1 DEF CallInv
  <2> QED BY <1>1, <1>5, <2>1, <2>2, CommitKeeps DEF at
<1>6. CASE Accepted(c) /\ Commits(c) /\ Reported(c, calls[c].next.outcome)
  <2>1. PICK answer : /\ Answer(c, answer) /\ answer.as \notin {"conflict", "invalid"}
                      /\ answer.as = "ok" => answer.outcome = calls[c].next.outcome
    <3>1. CASE Failed(c)
      BY <3>1 DEF Failed
    <3>2. CASE Answer(c, [as |-> "ok", outcome |-> calls[c].next.outcome])
      BY <3>2
    <3> QED BY <1>6, <3>1, <3>2 DEF Reported
  <2> DEFINE at == [pc |-> "done", request |-> calls[c].request, answer |-> answer]
  <2>2. at.pc = "done" /\ at.request = calls[c].request /\ at.answer = answer
    OBVIOUS
  <2>3. Step(c, at)
    BY <2>1 DEF Answer
  <2> HIDE DEF at
  <2>4. CallInv(at)
    BY <1>2, <2>2 DEF CallInv
  <2> QED BY <1>1, <1>6, <2>1, <2>2, <2>3, <2>4, CommitKeeps
<1> QED BY <1>3, <1>4, <1>5, <1>6 DEF Write

-----------------------------------------------------------------------------
\* Every step of every call keeps the invariant and answers what the audit says.
LEMMA NextKeeps == ASSUME IInv, Next PROVE CallsKeep
BY AskKeeps, ObserveKeeps, CallLookupKeeps, LoadKeeps, RelookKeeps, ResolveKeeps, ApplyKeeps,
   CallWriteKeeps, AfterWriteKeeps DEF Next

\* Steps of others change nothing here.
LEMMA StutterKeeps == ASSUME IInv, UNCHANGED vars PROVE IInv'
<1>1. /\ kind' = kind /\ record' = record /\ audits' = audits /\ calls' = calls
      /\ awarded' = awarded /\ lost' = lost
  BY DEF vars
<1>2. Readable' = Readable /\ Decoded' = Decoded
  BY <1>1 DEF Readable, Decoded
<1>3. TypeInv' /\ RecordInv'
  BY <1>1 DEF IInv, TypeInv, RecordInv
<1>4. ASSUME NEW c \in Calls PROVE CallInv(calls[c])' /\ EvidenceInv(calls[c])'
  BY <1>1, <1>2 DEF IInv, CallInv, EvidenceInv
<1> QED BY <1>3, <1>4 DEF IInv

\* The invariant of the player stores holds: mutations of a mastery record start
\* from valid states, and a call that can still write knows the stored record.
THEOREM InvHolds == Spec => []IInv
<1>1. IInv /\ [Next]_vars => IInv'
  BY NextKeeps, StutterKeeps DEF CallsKeep
<1> QED BY InitHolds, <1>1, PTL DEF Spec

\* No mastery point is minted or lost outside an award and the stain a death
\* destroys: for any number of calls that overlap, are retried after a lost answer
\* and reuse a key for something else, any events, and any finite set of weapons.
THEOREM PointsAreConserved == Spec => []PointsConserved
<1>1. IInv => PointsConserved
  BY DEF IInv, RecordInv, PointsConserved
<1> QED BY InvHolds, <1>1, PTL

\* What a call of any of the stores is answered is what the audit of its key says,
\* for any number of calls, and no write replaces a record that cannot be read.
THEOREM AnswersAreAudited == Spec => AnswersMatchAudit
<1>1. IInv /\ [Next]_vars => [(\A c \in Calls : AnswerAgrees(c)) /\ MalformedKept]_vars
  BY NextKeeps DEF CallsKeep
<1> QED BY InvHolds, <1>1, PTL DEF Spec, AnswersMatchAudit

-----------------------------------------------------------------------------
\* A behaviour of one part consists of that part's steps.
LEMMA FriendsRuns ==
  ASSUME part = "friends", [PlatformNext]_platformVars
  PROVE  part' = part /\ [Friends!Next]_(Friends!vars)
BY DEF PlatformNext, platformVars, Friends!vars, friendVars

LEMMA ModuleRuns ==
  ASSUME part = "module", [PlatformNext]_platformVars
  PROVE  part' = part /\ [Module!Next]_(Module!vars)
BY DEF PlatformNext, platformVars, moduleVars, Module!vars, Module!initVars, Module!runVars, Module!hookVars

LEMMA CreationRuns ==
  ASSUME part = "creation", [PlatformNext]_platformVars
  PROVE  part' = part /\ [Creation!Next]_(Creation!vars)
BY DEF PlatformNext, platformVars, onceVars, Creation!vars

LEMMA CustodyRuns ==
  ASSUME part = "custody", [PlatformNext]_platformVars
  PROVE  part' = part /\ [Custody!Next]_(Custody!vars)
BY DEF PlatformNext, platformVars, onceVars, Custody!vars

LEMMA PeerRuns ==
  ASSUME part = "peer", [PlatformNext]_platformVars
  PROVE  part' = part /\ [Peer!Next]_(Peer!vars)
BY DEF PlatformNext, platformVars, peerVars, progressVars, Peer!vars, Peer!clusterVars, Peer!listVars

LEMMA DocumentRuns ==
  ASSUME part = "document", [PlatformNext]_platformVars
  PROVE  part' = part /\ [LeaseRow!Next]_(LeaseRow!vars)
BY DEF PlatformNext, platformVars, documentVars, LeaseRow!vars

LEMMA TrustRuns ==
  ASSUME part = "trust", [PlatformNext]_platformVars
  PROVE  part' = part /\ [Trust!Next]_(Trust!vars)
BY DEF PlatformNext, platformVars, trustVars, Trust!vars

LEMMA SignInsRun ==
  ASSUME part = "signins", [PlatformNext]_platformVars
  PROVE  part' = part /\ [Provision!Next]_(Provision!vars)
BY DEF PlatformNext, platformVars, accountVars, progressVars, Provision!vars, Provision!requestVars,
       Provision!gateVars, Provision!nakamaVars

-----------------------------------------------------------------------------
(***************************************************************************)
(* The friend graph.                                                       *)
(***************************************************************************)

\* A call acts for the player of its session and names another one.
FriendTypes ==
  /\ edge \in [Friends!Pairs -> Friends!States]
  /\ session \in [Sessions -> Players]
  /\ DOMAIN call = Sessions
  /\ \A s \in Sessions :
       call[s] # Friends!Idle =>
         /\ call[s] = [op |-> call[s].op, who |-> session[s], target |-> call[s].target]
         /\ call[s].target \in Players \ {session[s]}

\* An invitation that stands, like each side of a friendship, is wanted by whom it is
\* of; a block that stands was made by its owner.
Consent ==
  /\ \A pair \in Friends!Pairs :
       /\ edge[pair] = "invite sent" => pair \in wanted
       /\ edge[pair] = "blocked" => pair \in barred
  /\ Friends!FriendsByConsent
  /\ told \subseteq barred

FriendInv == FriendTypes /\ Consent

\* Edges come in pairs.
LEMMA PairsTurn ==
  /\ \A p \in Players : \A q \in Players \ {p} : <<p, q>> \in Friends!Pairs /\ <<q, p>> \in Friends!Pairs
  /\ \A pair \in Friends!Pairs : /\ pair = <<pair[1], pair[2]>> /\ <<pair[2], pair[1]>> \in Friends!Pairs
                                 /\ pair[1] \in Players /\ pair[2] \in Players \ {pair[1]}
BY DEF Friends!Pairs

\* Consent is of the two edges of a pair: one that leaves the others alone is judged
\* by its own two.
LEMMA ConsentByPair ==
  ASSUME FriendInv, NEW p \in Players, NEW q \in Players \ {p},
         edge' \in [Friends!Pairs -> Friends!States],
         \A pair \in Friends!Pairs \ {<<p, q>>, <<q, p>>} : edge'[pair] = edge[pair],
         wanted \ {<<p, q>>, <<q, p>>} \subseteq wanted',
         edge'[<<p, q>>] = "friend" \/ edge'[<<q, p>>] = "friend" =>
           /\ edge'[<<p, q>>] = "friend" /\ edge'[<<q, p>>] = "friend"
           /\ {<<p, q>>, <<q, p>>} \subseteq wanted'
  PROVE  (Friends!FriendsByConsent)'
<1> SUFFICES ASSUME NEW pair \in Friends!Pairs, edge'[pair] = "friend"
             PROVE  edge'[<<pair[2], pair[1]>>] = "friend" /\ {pair, <<pair[2], pair[1]>>} \subseteq wanted'
  BY DEF Friends!FriendsByConsent
<1>1. CASE pair = <<p, q>>
  BY <1>1
<1>2. CASE pair = <<q, p>>
  BY <1>2
<1>3. CASE pair \notin {<<p, q>>, <<q, p>>}
  <2>1. pair = <<pair[1], pair[2]>> /\ <<pair[2], pair[1]>> \in Friends!Pairs
    BY PairsTurn
  <2>2. <<pair[2], pair[1]>> \notin {<<p, q>>, <<q, p>>}
    BY <1>3, <2>1
  <2>3. edge[pair] = "friend"
    BY <1>3
  <2>4. edge[<<pair[2], pair[1]>>] = "friend" /\ {pair, <<pair[2], pair[1]>>} \subseteq wanted
    BY <2>3 DEF FriendInv, Consent, Friends!FriendsByConsent
  <2> QED  BY <1>3, <2>1, <2>2, <2>4
<1> QED  BY <1>1, <1>2, <1>3

LEMMA FriendsStart ==
  ASSUME Friends!Init
  PROVE  FriendInv
<1>1. FriendTypes
  BY DEF Friends!Init, FriendTypes, Friends!States
<1>2. Consent
  BY DEF Friends!Init, Consent, Friends!FriendsByConsent
<1> QED  BY <1>1, <1>2 DEF FriendInv

\* What Nakama makes of an invitation, an end and a block keeps consent.
LEMMA AddKeepsConsent ==
  ASSUME FriendInv, NEW p \in Players, NEW q \in Players \ {p}, edge' = Friends!Add(p, q),
         wanted' = IF edge[<<q, p>>] = "blocked" THEN wanted ELSE wanted \cup {<<p, q>>},
         UNCHANGED <<barred, told>>
  PROVE  Consent' /\ edge' \in [Friends!Pairs -> Friends!States]
<1>1. edge \in [Friends!Pairs -> Friends!States] /\ <<p, q>> \in Friends!Pairs /\ <<q, p>> \in Friends!Pairs
  BY PairsTurn DEF FriendInv, FriendTypes
<1>2. wanted \subseteq wanted'
  OBVIOUS
<1>0. told' \subseteq barred'
  BY DEF FriendInv, Consent
<1>3. CASE edge[<<q, p>>] = "invite sent"
  <2>1. edge' = [edge EXCEPT ![<<p, q>>] = "friend", ![<<q, p>>] = "friend"] /\ wanted' = wanted \cup {<<p, q>>}
    BY <1>3 DEF Friends!Add
  <2>2. {<<p, q>>, <<q, p>>} \subseteq wanted'
    BY <1>1, <1>3, <2>1 DEF FriendInv, Consent
  <2>3. edge' \in [Friends!Pairs -> Friends!States]
    BY <1>1, <2>1 DEF Friends!States
  <2>4. edge'[<<p, q>>] = "friend" /\ edge'[<<q, p>>] = "friend"
    BY <1>1, <2>1
  <2>5. \A pair \in Friends!Pairs \ {<<p, q>>, <<q, p>>} : edge'[pair] = edge[pair]
    BY <1>1, <2>1
  <2>6. (Friends!FriendsByConsent)'
    BY <1>2, <2>2, <2>3, <2>4, <2>5, ConsentByPair
  <2>7. \A pair \in Friends!Pairs : /\ edge'[pair] = "invite sent" => pair \in wanted'
                                    /\ edge'[pair] = "blocked" => pair \in barred'
    BY <1>2, <2>4, <2>5 DEF FriendInv, Consent
  <2> QED  BY <1>0, <2>3, <2>6, <2>7 DEF Consent
<1>4. CASE edge[<<q, p>>] # "blocked" /\ edge[<<q, p>>] # "invite sent" /\ edge[<<p, q>>] = "none"
  <2>1. /\ edge' = [edge EXCEPT ![<<p, q>>] = "invite sent", ![<<q, p>>] = "invite received"]
        /\ wanted' = wanted \cup {<<p, q>>}
    BY <1>4 DEF Friends!Add
  <2>2. edge' \in [Friends!Pairs -> Friends!States]
    BY <1>1, <2>1 DEF Friends!States
  <2>3. /\ edge'[<<p, q>>] = "invite sent" /\ edge'[<<q, p>>] = "invite received"
        /\ \A pair \in Friends!Pairs \ {<<p, q>>, <<q, p>>} : edge'[pair] = edge[pair]
    BY <1>1, <2>1
  <2>4. (Friends!FriendsByConsent)'
    BY <1>2, <2>2, <2>3, ConsentByPair
  <2>5. \A pair \in Friends!Pairs : /\ edge'[pair] = "invite sent" => pair \in wanted'
                                    /\ edge'[pair] = "blocked" => pair \in barred'
    BY <1>2, <2>1, <2>3 DEF FriendInv, Consent
  <2> QED  BY <1>0, <2>2, <2>4, <2>5 DEF Consent
<1>5. CASE edge' = edge
  BY <1>1, <1>2, <1>5, PairsTurn DEF FriendInv, Consent, Friends!FriendsByConsent
<1> QED  BY <1>3, <1>4, <1>5 DEF Friends!Add

LEMMA EndKeepsConsent ==
  ASSUME FriendInv, NEW p \in Players, NEW q \in Players \ {p},
         wanted' = wanted \ {<<p, q>>, <<q, p>>}, told' = told,
         \/ edge' = Friends!Delete(p, q) /\ barred' = barred
         \/ edge' = Friends!Block(p, q) /\ barred' = barred \cup {<<p, q>>}
  PROVE  Consent' /\ edge' \in [Friends!Pairs -> Friends!States]
<1>1. edge \in [Friends!Pairs -> Friends!States] /\ <<p, q>> \in Friends!Pairs /\ <<q, p>> \in Friends!Pairs
  BY PairsTurn DEF FriendInv, FriendTypes
<1>2. /\ edge' \in [Friends!Pairs -> Friends!States]
      /\ edge'[<<p, q>>] \in {"none", "blocked"} /\ edge'[<<q, p>>] \in {"none", "blocked"}
      /\ \A pair \in Friends!Pairs \ {<<p, q>>, <<q, p>>} : edge'[pair] = edge[pair]
      /\ edge'[<<p, q>>] = "blocked" => <<p, q>> \in barred'
      /\ edge'[<<q, p>>] = "blocked" => edge[<<q, p>>] = "blocked"
  BY <1>1 DEF Friends!Delete, Friends!Block, Friends!States
<1>3. barred \subseteq barred'
  OBVIOUS
<1>4. \A pair \in Friends!Pairs : /\ edge'[pair] = "invite sent" => pair \in wanted'
                                  /\ edge'[pair] = "blocked" => pair \in barred'
  BY <1>1, <1>2, <1>3 DEF FriendInv, Consent
<1>5. (Friends!FriendsByConsent)'
  BY <1>2, ConsentByPair
<1> QED  BY <1>2, <1>3, <1>4, <1>5 DEF FriendInv, Consent

\* Answers tell of edges the caller has read.
LEMMA TellKeepsConsent ==
  ASSUME FriendInv, NEW s \in Sessions, NEW blocked, Friends!Tell(s, blocked),
         \A q \in blocked : q \in Players \ {session[s]} /\ edge[<<session[s], q>>] = "blocked",
         UNCHANGED <<edge, session, wanted, barred>>
  PROVE  Consent'
<1>1. \A q \in blocked : <<session[s], q>> \in barred
  BY PairsTurn DEF FriendInv, FriendTypes, Consent
<1> QED  BY <1>1 DEF FriendInv, Consent, Friends!FriendsByConsent, Friends!Tell

\* A call that ends, or goes on as it was, keeps the types.
LEMMA CallKeepsTypes ==
  ASSUME FriendInv, NEW s \in Sessions, NEW c, Friends!Step(s, c), session' = session,
         edge' \in [Friends!Pairs -> Friends!States],
         \/ c = Friends!Idle
         \/ c = [op |-> c.op, who |-> session[s], target |-> c.target] /\ c.target \in Players \ {session[s]}
  PROVE  FriendTypes'
<1>1. call' = [call EXCEPT ![s] = c] /\ DOMAIN call = Sessions
  BY DEF Friends!Step, FriendInv, FriendTypes
<1>2. \A t \in Sessions : call'[t] = IF t = s THEN c ELSE call[t]
  BY <1>1
<1> QED  BY <1>1, <1>2 DEF FriendInv, FriendTypes

LEMMA FriendsStep ==
  ASSUME FriendInv, [Friends!Next]_(Friends!vars)
  PROVE  FriendInv'
<1>1. CASE UNCHANGED Friends!vars
  BY <1>1 DEF Friends!vars, FriendInv, FriendTypes, Consent, Friends!FriendsByConsent
<1>2. CASE Friends!Next
  <2> PICK s \in Sessions : \/ Friends!Begin(s) \/ Friends!InviteStatus(s) \/ Friends!InviteAdd(s)
                            \/ Friends!Remove(s) \/ Friends!BlockTarget(s) \/ Friends!Status(s) \/ Friends!List(s)
    BY <1>2 DEF Friends!Next
  <2> DEFINE p == session[s]
             q == call[s].target
  <2>0. p \in Players /\ Friends!Idle.op = "idle"
    BY DEF FriendInv, FriendTypes, Friends!Idle
  <2>1. CASE Friends!Begin(s)
    <3>1. PICK op \in {"invite", "remove", "block", "status"}, target \in Players \ {p} :
                   Friends!Step(s, [op |-> op, who |-> p, target |-> target])
      BY <2>1 DEF Friends!Begin, Friends!ActingFor, Friends!Targets, Friends!Names
    <3>2. UNCHANGED <<edge, session, wanted, barred, told>>
      BY <2>1 DEF Friends!Begin, Friends!ReadOnly
    <3>3. FriendTypes'
      BY <3>1, <3>2, CallKeepsTypes DEF FriendInv, FriendTypes
    <3> QED  BY <3>2, <3>3 DEF FriendInv, Consent, Friends!FriendsByConsent
  <2>2. CASE call[s] # Friends!Idle /\ ~Friends!Begin(s) /\ ~Friends!List(s)
    <3>1. call[s].who = p /\ q \in Players \ {p}
      BY <2>2 DEF FriendInv, FriendTypes
    <3>2. CASE Friends!InviteStatus(s)
      <4>1. UNCHANGED <<edge, session, wanted, barred>>
        BY <3>2 DEF Friends!InviteStatus, Friends!ReadOnly
      <4>2. CASE Friends!OwnEdge(p, q) = "blocked" /\ Friends!Tell(s, {q}) /\ Friends!End(s)
        BY <3>1, <4>1, <4>2, TellKeepsConsent, CallKeepsTypes DEF Friends!OwnEdge, Friends!End, FriendInv, FriendTypes
      <4>3. CASE Friends!Step(s, [call[s] EXCEPT !.op = "add"]) /\ UNCHANGED told
        <5>1. [call[s] EXCEPT !.op = "add"] = [op |-> "add", who |-> p, target |-> q]
          BY <2>2 DEF FriendInv, FriendTypes
        <5>2. FriendTypes'
          BY <3>1, <4>1, <4>3, <5>1, CallKeepsTypes DEF FriendInv, FriendTypes
        <5> QED  BY <4>1, <4>3, <5>2 DEF FriendInv, Consent, Friends!FriendsByConsent
      <4>4. CASE Friends!End(s) /\ UNCHANGED told
        <5>1. FriendTypes'
          BY <4>1, <4>4, CallKeepsTypes DEF FriendInv, FriendTypes, Friends!End
        <5> QED  BY <4>1, <4>4, <5>1 DEF FriendInv, Consent, Friends!FriendsByConsent
      <4> QED  BY <3>1, <3>2, <4>2, <4>3, <4>4 DEF Friends!InviteStatus
    <3>3. CASE Friends!InviteAdd(s)
      <4>1. UNCHANGED <<session, barred, told>> /\ Friends!End(s)
        BY <3>3 DEF Friends!InviteAdd
      <4>2. Consent' /\ edge' \in [Friends!Pairs -> Friends!States]
        <5>1. CASE UNCHANGED <<edge, wanted>>
          BY <4>1, <5>1 DEF FriendInv, FriendTypes, Consent, Friends!FriendsByConsent
        <5>2. CASE /\ edge' = Friends!Add(p, q)
                   /\ wanted' = IF edge[<<q, p>>] = "blocked" THEN wanted ELSE wanted \cup {<<p, q>>}
          BY <2>0, <3>1, <4>1, <5>2, AddKeepsConsent
        <5> QED  BY <3>1, <3>3, <5>1, <5>2 DEF Friends!InviteAdd
      <4>3. FriendTypes'
        BY <4>1, <4>2, CallKeepsTypes DEF Friends!End
      <4> QED  BY <4>2, <4>3 DEF FriendInv
    <3>4. CASE Friends!Remove(s) \/ Friends!BlockTarget(s)
      <4>1. UNCHANGED <<session, told>> /\ Friends!End(s)
        BY <3>4 DEF Friends!Remove, Friends!BlockTarget
      <4>2. Consent' /\ edge' \in [Friends!Pairs -> Friends!States]
        <5>1. CASE UNCHANGED <<edge, wanted, barred>>
          BY <4>1, <5>1 DEF FriendInv, FriendTypes, Consent, Friends!FriendsByConsent
        <5>2. CASE /\ wanted' = wanted \ {<<p, q>>, <<q, p>>}
                   /\ \/ edge' = Friends!Delete(p, q) /\ barred' = barred
                      \/ edge' = Friends!Block(p, q) /\ barred' = barred \cup {<<p, q>>}
          BY <2>0, <3>1, <4>1, <5>2, EndKeepsConsent
        <5> QED  BY <3>1, <3>4, <5>1, <5>2 DEF Friends!Remove, Friends!BlockTarget
      <4>3. FriendTypes'
        BY <4>1, <4>2, CallKeepsTypes DEF Friends!End
      <4> QED  BY <4>2, <4>3 DEF FriendInv
    <3>5. CASE Friends!Status(s)
      <4>1. UNCHANGED <<edge, session, wanted, barred>> /\ Friends!End(s)
        BY <3>5 DEF Friends!Status, Friends!ReadOnly
      <4>2. FriendTypes'
        BY <4>1, CallKeepsTypes DEF FriendInv, FriendTypes, Friends!End
      <4>3. CASE Friends!Tell(s, {b \in {q} : Friends!OwnEdge(p, b) = "blocked"})
        <5>1. Consent'
          BY <3>1, <4>1, <4>3, TellKeepsConsent DEF Friends!OwnEdge
        <5> QED  BY <4>2, <5>1 DEF FriendInv
      <4>4. CASE UNCHANGED told
        BY <4>1, <4>2, <4>4 DEF FriendInv, Consent, Friends!FriendsByConsent
      <4> QED  BY <3>1, <3>5, <4>3, <4>4 DEF Friends!Status
    <3> QED  BY <2>2, <3>2, <3>3, <3>4, <3>5
  <2>3. CASE Friends!List(s)
    <3>1. UNCHANGED <<edge, session, wanted, barred, call>>
      BY <2>3 DEF Friends!List, Friends!ReadOnly
    <3>2. PICK page \in SUBSET (Players \ {p}) : Friends!Tell(s, {b \in page : Friends!OwnEdge(p, b) = "blocked"})
      BY <2>3 DEF Friends!List, Friends!ActingFor
    <3>3. Consent'
      BY <3>1, <3>2, TellKeepsConsent DEF Friends!OwnEdge
    <3> QED  BY <3>1, <3>3 DEF FriendInv, FriendTypes
  <2>4. call[s] = Friends!Idle => Friends!Begin(s) \/ Friends!List(s)
    BY <2>0 DEF Friends!InviteStatus, Friends!InviteAdd, Friends!Remove, Friends!BlockTarget, Friends!Status
  <2> QED  BY <2>1, <2>2, <2>3, <2>4
<1> QED  BY <1>1, <1>2

\* Two players are friends only by both their consent, and whoever hears of a block
\* made it, for any number of players and sessions.
THEOREM FriendsStayGated == PlatformSpec => []FriendsGated
<1> DEFINE Kept == part = "friends" => FriendInv
<1>1. PlatformInit => Kept
  BY FriendsStart DEF PlatformInit
<1>2. Kept /\ [PlatformNext]_platformVars => Kept'
  <2> SUFFICES ASSUME Kept, [PlatformNext]_platformVars, part' = "friends" PROVE FriendInv'
    OBVIOUS
  <2>1. part = "friends"
    BY DEF PlatformNext, platformVars
  <2> QED  BY <2>1, FriendsRuns, FriendsStep
<1>3. Kept => FriendsGated
  BY DEF FriendInv, Consent, FriendsGated, Friends!BlocksStayHidden
<1> QED  BY <1>1, <1>2, <1>3, PTL DEF PlatformSpec

-----------------------------------------------------------------------------
(***************************************************************************)
(* The runtime module.                                                     *)
(***************************************************************************)

\* What is held while the module is initialized, so that each step's failure gives
\* back exactly that.
Acquired ==
  /\ stage \in {"config", "off", "kube", "failed"} => held = {} /\ life # "live"
  /\ stage = "allocator" => held = {"kube"} /\ life # "live"
  /\ stage \in {"compose", "listen"} => held = Module!Connections
  /\ stage \in {"rpc", "shutdown"} => Module!Connections \subseteq held
  /\ stage = "running" /\ ~finished => Module!Connections \subseteq held

\* Nothing runs before the module does; what has finished waits for nobody and lets
\* nobody in.
Running ==
  /\ DOMAIN call = Handlers /\ DOMAIN worker = Workers
  /\ finished \in BOOLEAN /\ closed \in BOOLEAN
  /\ stage # "running" =>
       /\ ~finished /\ ~closed /\ hook = "none" /\ listener \in {"none", "bound"}
       /\ \A c \in Handlers : call[c] = "new"
       /\ \A w \in Workers : worker[w] = "off"
  /\ finished => closed /\ Module!Drained

ModuleInv == Acquired /\ Running

LEMMA ModuleStarts ==
  ASSUME Module!Init
  PROVE  ModuleInv
BY DEF Module!Init, ModuleInv, Acquired, Running

LEMMA ModuleInitialized ==
  ASSUME ModuleInv, Module!InitStep
  PROVE  ModuleInv'
<1>1. /\ stage # "running" /\ UNCHANGED <<call, hook, finished, closed>>
      /\ DOMAIN worker' = Workers
      /\ stage' # "running" => UNCHANGED worker /\ listener' \in {"none", "bound"}
  BY DEF ModuleInv, Running, Module!InitStep, Module!ReadConfig, Module!ConnectKube, Module!ConnectAllocator,
         Module!Compose, Module!Listen, Module!RegisterRpc, Module!RegisterShutdown, Module!Proceed, Module!Fail,
         Module!runVars, Module!hookVars
<1>2. Running'
  BY <1>1 DEF ModuleInv, Running
<1>3. Acquired'
  <2>1. CASE Module!ReadConfig
    BY <2>1 DEF ModuleInv, Acquired, Module!ReadConfig, Module!Proceed, Module!Fail
  <2>2. CASE Module!ConnectKube
    BY <2>2 DEF ModuleInv, Acquired, Module!ConnectKube, Module!Proceed, Module!Fail
  <2>3. CASE Module!ConnectAllocator
    BY <2>3 DEF ModuleInv, Acquired, Module!ConnectAllocator, Module!Proceed, Module!Fail, Module!Connections
  <2>4. CASE Module!Compose
    BY <2>4 DEF ModuleInv, Acquired, Module!Compose, Module!Proceed, Module!Fail
  <2>5. CASE Module!Listen
    BY <2>5 DEF ModuleInv, Acquired, Module!Listen, Module!Proceed, Module!Fail
  <2>6. CASE Module!RegisterRpc
    BY <2>6 DEF ModuleInv, Acquired, Module!RegisterRpc, Module!Proceed, Module!Fail, Module!RolledBack
  <2>7. CASE Module!RegisterShutdown
    BY <2>7 DEF ModuleInv, Acquired, Module!RegisterShutdown, Module!Fail, Module!RolledBack
  <2> QED  BY <2>1, <2>2, <2>3, <2>4, <2>5, <2>6, <2>7 DEF Module!InitStep
<1> QED  BY <1>2, <1>3 DEF ModuleInv

\* A request or a sweep goes on; once all has finished none does.
LEMMA ModuleServes ==
  ASSUME ModuleInv,
         \/ \E c \in Handlers : Module!CallStep(c)
         \/ \E w \in Workers : Module!WorkerStep(w)
  PROVE  ModuleInv'
<1>1. UNCHANGED <<stage, setting, held, life, hook, finished, closed, listener>>
  BY DEF Module!CallStep, Module!Arrive, Module!Enter, Module!Leave, Module!WorkerStep, Module!SweepBegins,
         Module!SweepEnds, Module!Tick, Module!Stop, Module!initVars, Module!hookVars
<1>2. Acquired'
  BY <1>1 DEF ModuleInv, Acquired
<1>3. CASE \E c \in Handlers : Module!CallStep(c)
  <2>1. PICK c \in Handlers : Module!CallStep(c)
    BY <1>3
  <2>2. /\ stage = "running" /\ worker' = worker
        /\ DOMAIN call' = Handlers
        /\ finished => \A d \in Handlers : call'[d] # "inside"
    BY <2>1 DEF ModuleInv, Running, Module!CallStep, Module!Arrive, Module!Enter, Module!Leave, Module!Admits, Module!Drained
  <2> QED  BY <1>1, <1>2, <2>2 DEF ModuleInv, Running, Module!Drained
<1>4. CASE \E w \in Workers : Module!WorkerStep(w)
  <2>1. PICK w \in Workers : Module!WorkerStep(w)
    BY <1>4
  <2>2. /\ stage = "running" /\ call' = call /\ ~finished
        /\ DOMAIN worker' = Workers
    BY <2>1 DEF ModuleInv, Running, Module!WorkerStep, Module!SweepBegins, Module!SweepEnds, Module!Tick, Module!Stop,
                Module!Drained
  <2> QED  BY <1>1, <1>2, <2>2 DEF ModuleInv, Running
<1> QED  BY <1>3, <1>4

\* The listener and the hook let go of the socket; the connections go when all has finished.
LEMMA ModuleRetires ==
  ASSUME ModuleInv, Module!Serve \/ Module!ServeFails \/ Module!HookCancels \/ Module!HookStep
  PROVE  ModuleInv'
<1>1. stage = "running" /\ UNCHANGED <<stage, call, worker>>
  BY DEF ModuleInv, Running, Module!Serve, Module!ServeFails, Module!HookCancels, Module!HookStep, Module!HookStops,
         Module!HookCloses, Module!Finish, Module!HookReturns, Module!Retire, Module!MayRetire, Module!initVars, Module!runVars
<1>2. \/ UNCHANGED <<finished, closed>> /\ held' \in {held, held \ {"socket"}}
      \/ UNCHANGED <<finished, closed>> /\ finished
      \/ UNCHANGED <<finished, held>> /\ closed' = TRUE
      \/ UNCHANGED <<closed, held>> /\ finished' = TRUE /\ closed /\ Module!Drained
  BY DEF Module!Serve, Module!ServeFails, Module!HookCancels, Module!HookStep, Module!HookStops,
         Module!HookCloses, Module!Finish, Module!HookReturns, Module!Retire, Module!hookVars
<1>5. /\ finished' \in BOOLEAN /\ closed' \in BOOLEAN
      /\ finished' => closed' /\ Module!Drained
      /\ finished => finished'
      /\ ~finished /\ Module!Connections \subseteq held => Module!Connections \subseteq held'
  <2>1. /\ finished \in BOOLEAN /\ closed \in BOOLEAN
        /\ finished => closed /\ Module!Drained
    BY DEF ModuleInv, Running
  <2>2. "socket" \notin Module!Connections
    BY DEF Module!Connections
  <2>3. CASE UNCHANGED <<finished, closed>> /\ held' \in {held, held \ {"socket"}}
    BY <2>1, <2>2, <2>3
  <2>4. CASE UNCHANGED <<finished, closed>> /\ finished
    BY <2>1, <2>4
  <2>5. CASE UNCHANGED <<finished, held>> /\ closed' = TRUE
    BY <2>1, <2>5
  <2>6. CASE UNCHANGED <<closed, held>> /\ finished' = TRUE /\ closed /\ Module!Drained
    BY <2>1, <2>6
  <2> QED  BY <1>2, <2>3, <2>4, <2>5, <2>6
<1>3. Running'
  BY <1>1, <1>5 DEF ModuleInv, Running, Module!Drained
<1>4. Acquired'
  BY <1>1, <1>5 DEF ModuleInv, Running, Acquired
<1> QED  BY <1>3, <1>4 DEF ModuleInv

LEMMA ModuleStep ==
  ASSUME ModuleInv, [Module!Next]_(Module!vars)
  PROVE  ModuleInv'
<1>1. CASE UNCHANGED Module!vars
  BY <1>1 DEF ModuleInv, Acquired, Running, Module!Drained, Module!vars, Module!initVars, Module!runVars, Module!hookVars
<1>2. CASE Module!Next
  BY <1>2, ModuleInitialized, ModuleServes, ModuleRetires DEF Module!Next
<1> QED  BY <1>1, <1>2

\* No connection is closed under a handler or a sweep, and a failed initialization
\* keeps nothing, for any number of requests and sweeps and any settings.
THEOREM ConnectionsHold == PlatformSpec => []ConnectionsAccounted
<1> DEFINE Kept == part = "module" => ModuleInv
<1>1. PlatformInit => Kept
  BY ModuleStarts DEF PlatformInit
<1>2. Kept /\ [PlatformNext]_platformVars => Kept'
  <2> SUFFICES ASSUME Kept, [PlatformNext]_platformVars, part' = "module" PROVE ModuleInv'
    OBVIOUS
  <2>1. part = "module"
    BY DEF PlatformNext, platformVars
  <2> QED  BY <2>1, ModuleRuns, ModuleStep
<1>3. Kept => ConnectionsAccounted
  BY DEF ModuleInv, Acquired, Running, ConnectionsAccounted, Module!ConnectionsOutliveUse, Module!InUse,
         Module!FailureKeepsNothing, Module!Drained
<1> QED  BY <1>1, <1>2, <1>3, PTL DEF PlatformSpec

-----------------------------------------------------------------------------
(***************************************************************************)
(* The rows that are created once.  A row never changes once it is there,  *)
(* so what a write that was made found out stays true.                     *)
(***************************************************************************)
RowKeys == {"generation", "enrollment", "custody"}

\* A write that was made is what its row holds, and one write is made of a row.
WritesMade ==
  /\ DOMAIN row = RowKeys
  /\ \A w \in sent :
       /\ w = [by |-> w.by, try |-> w.try, key |-> w.key, value |-> w.value, made |-> w.made]
       /\ w.key \in RowKeys
       /\ w.made = "made" => row[w.key] = {w.value}
  /\ \A w, v \in sent : w.made = "made" /\ v.made = "made" /\ w.key = v.key => w = v

\* A creator sends the membership it wants, and one that was told it is open knows
\* the row.
CreationInv ==
  /\ WritesMade
  /\ \A d, e \in row.generation : d = e
  /\ \A w \in sent : w.key = "generation" /\ w.by \in Creators /\ w.value = Creation!Opened(Want[w.by])
  /\ DOMAIN create = Creators
  /\ \A c \in Creators :
       create[c] = [at |-> create[c].at, try |-> create[c].try, told |-> create[c].told, record |-> create[c].record]
  /\ Creation!MembershipHolds

LEMMA CreationStarts ==
  ASSUME Creation!Init
  PROVE  CreationInv
BY FoundsAreRows DEF Creation!Init, CreationInv, WritesMade, RowKeys, Creation!MembershipHolds

\* A write lands in an empty row or changes nothing.
LEMMA LandKeepsWrites ==
  ASSUME WritesMade, NEW w \in sent, Creation!Land(w)
  PROVE  /\ WritesMade'
         /\ \A k \in RowKeys : /\ row[k] # {} => row'[k] = row[k]
                          /\ row'[k] \in {row[k], {w.value}}
         /\ \E m \in {"made", "refused"} :
              sent' = (sent \ {w}) \cup {[by |-> w.by, try |-> w.try, key |-> w.key, value |-> w.value, made |-> m]}
<1> DEFINE m == IF row[w.key] = {} THEN "made" ELSE "refused"
           now == [by |-> w.by, try |-> w.try, key |-> w.key, value |-> w.value, made |-> m]
<1>1. /\ w.made = "sent"
      /\ row' = IF m = "made" THEN [row EXCEPT ![w.key] = {w.value}] ELSE row
      /\ sent' = (sent \ {w}) \cup {[w EXCEPT !.made = m]}
  BY DEF Creation!Land
<1>2. w.key \in RowKeys /\ w = [by |-> w.by, try |-> w.try, key |-> w.key, value |-> w.value, made |-> w.made]
  BY DEF WritesMade
<1>3. [w EXCEPT !.made = m] = now
  BY <1>2
<1>4. /\ now.key = w.key /\ now.value = w.value /\ now.made = m
      /\ now = [by |-> now.by, try |-> now.try, key |-> now.key, value |-> now.value, made |-> now.made]
  OBVIOUS
<1>5. m = "made" => row[w.key] = {}
  OBVIOUS
<1>6. m \in {"made", "refused"}
  OBVIOUS
<1> HIDE DEF m, now
<1>7. /\ DOMAIN row' = RowKeys
      /\ \A k \in RowKeys : row'[k] = IF m = "made" /\ k = w.key THEN {w.value} ELSE row[k]
  BY <1>1, <1>2 DEF WritesMade
<1>8. \A k \in RowKeys : row[k] # {} => row'[k] = row[k]
  BY <1>5, <1>7
<1>9. \A v \in sent' : v \in sent \/ v = now
  BY <1>1, <1>3
<1>10. \A v \in sent : v.made = "made" => row'[v.key] = {v.value} /\ (m = "made" => v.key # w.key)
  BY <1>5, <1>8 DEF WritesMade
<1>11. m = "made" => row'[now.key] = {now.value}
  BY <1>2, <1>4, <1>7
<1>12. WritesMade'
  <2>1. \A v \in sent' :
          /\ v = [by |-> v.by, try |-> v.try, key |-> v.key, value |-> v.value, made |-> v.made]
          /\ v.key \in RowKeys
          /\ v.made = "made" => row'[v.key] = {v.value}
    BY <1>2, <1>4, <1>9, <1>10, <1>11 DEF WritesMade
  <2>2. \A u, v \in sent' : u.made = "made" /\ v.made = "made" /\ u.key = v.key => u = v
    BY <1>4, <1>9, <1>10 DEF WritesMade
  <2> QED  BY <1>7, <2>1, <2>2 DEF WritesMade
<1>13. \A k \in RowKeys : row'[k] \in {row[k], {w.value}}
  BY <1>7
<1> QED  BY <1>1, <1>3, <1>6, <1>8, <1>12, <1>13 DEF now

\* A new write keeps the others'.
LEMMA SendKeepsWrites ==
  ASSUME WritesMade, NEW by, NEW try, NEW key \in RowKeys, NEW value, row' = row,
         Creation!Send(by, try, key, value)
  PROVE  /\ WritesMade'
         /\ \A w \in sent' : w \in sent \/ (w.by = by /\ w.key = key /\ w.value = value /\ w.made = "sent")
<1> DEFINE new == [by |-> by, try |-> try, key |-> key, value |-> value, made |-> "sent"]
<1>1. sent' = sent \cup {new}
  BY DEF Creation!Send
<1>2. /\ new = [by |-> new.by, try |-> new.try, key |-> new.key, value |-> new.value, made |-> new.made]
      /\ new.by = by /\ new.key = key /\ new.value = value /\ new.made = "sent"
  OBVIOUS
<1> HIDE DEF new
<1>3. \A w \in sent' : w \in sent \/ w = new
  BY <1>1
<1>4. WritesMade'
  BY <1>2, <1>3 DEF WritesMade
<1> QED  BY <1>2, <1>3, <1>4

\* A creator that starts again, as a record.
LEMMA LoadedShape ==
  ASSUME NEW c, NEW try,
         c = [at |-> c.at, try |-> c.try, told |-> c.told, record |-> c.record]
  PROVE  [c EXCEPT !.at = "load", !.try = try] =
           [at |-> "load", try |-> try, told |-> c.told, record |-> c.record]
<1>1. ASSUME NEW s, s = [c EXCEPT !.at = "load", !.try = try]
      PROVE  s = [at |-> "load", try |-> try, told |-> c.told, record |-> c.record]
  <2>1. /\ s = [at |-> s.at, try |-> s.try, told |-> s.told, record |-> s.record]
        /\ s.at = "load" /\ s.try = try /\ s.told = c.told /\ s.record = c.record
    BY <1>1
  <2> QED  BY ONLY <2>1, Zenon
<1> QED  BY <1>1, Zenon

\* A creator that goes on or ends keeps its shape, and is told of the row it adopts.
LEMMA CreatorEndsKeeps ==
  ASSUME CreationInv, NEW c \in Creators, NEW told_, NEW doc, Creation!CreatorEnds(c, told_, doc),
         told_ = "open" => doc = {Creation!Opened(Want[c])} /\ row.generation = doc,
         sent' = sent
  PROVE  CreationInv'
<1> DEFINE new == [at |-> "done", try |-> create[c].try, told |-> told_, record |-> doc]
<1>1. /\ UNCHANGED <<row, owner>>
      /\ create' = [create EXCEPT ![c] = new]
  BY DEF Creation!CreatorEnds
<1>3. /\ new = [at |-> new.at, try |-> new.try, told |-> new.told, record |-> new.record]
      /\ new.told = told_ /\ new.record = doc
  OBVIOUS
<1> HIDE DEF new
<1>4. \A d \in Creators : create'[d] = IF d = c THEN new ELSE create[d]
  BY <1>1 DEF CreationInv
<1>5. (Creation!MembershipHolds)'
  BY <1>1, <1>3, <1>4 DEF CreationInv, Creation!MembershipHolds
<1> QED  BY <1>1, <1>1, <1>3, <1>4, <1>5 DEF CreationInv, WritesMade

LEMMA CreatorGoesKeeps ==
  ASSUME CreationInv, NEW c \in Creators, NEW at, NEW try, row' = row,
         create' = [create EXCEPT ![c] = [at |-> at, try |-> try, told |-> create[c].told, record |-> create[c].record]],
         \/ sent' = sent
         \/ \E t : Creation!Send(c, t, "generation", Creation!Opened(Want[c]))
  PROVE  CreationInv'
<1> DEFINE new == [at |-> at, try |-> try, told |-> create[c].told, record |-> create[c].record]
<1>1. /\ new = [at |-> new.at, try |-> new.try, told |-> new.told, record |-> new.record]
      /\ new.told = create[c].told /\ new.record = create[c].record
  OBVIOUS
<1>2. \A d \in Creators : create'[d] = IF d = c THEN new ELSE create[d]
  BY DEF CreationInv
<1>3. DOMAIN create' = Creators
  BY DEF CreationInv
<1> HIDE DEF new
<1>4. (Creation!MembershipHolds)'
  BY <1>1, <1>2 DEF CreationInv, Creation!MembershipHolds
<1>5. /\ WritesMade'
      /\ \A w \in sent' : w.key = "generation" /\ w.by \in Creators /\ w.value = Creation!Opened(Want[w.by])
  <2>1. CASE sent' = sent
    BY <2>1 DEF CreationInv, WritesMade
  <2>2. CASE \E t : Creation!Send(c, t, "generation", Creation!Opened(Want[c]))
    BY <2>2, SendKeepsWrites DEF CreationInv, RowKeys
  <2> QED  BY <2>1, <2>2
<1> QED  BY <1>1, <1>2, <1>3, <1>4, <1>5 DEF CreationInv

LEMMA CreationStep ==
  ASSUME CreationInv, [Creation!Next]_(Creation!vars)
  PROVE  CreationInv'
<1>1. CASE UNCHANGED Creation!vars
  BY <1>1 DEF CreationInv, WritesMade, Creation!MembershipHolds, Creation!vars
<1>2. CASE \E w \in sent : Creation!Land(w)
  <2>1. PICK w \in sent : Creation!Land(w)
    BY <1>2
  <2>2. create' = create
    BY <2>1 DEF Creation!Land
  <2>3. PICK m : sent' = (sent \ {w}) \cup {[by |-> w.by, try |-> w.try, key |-> w.key, value |-> w.value, made |-> m]}
    BY <2>1, LandKeepsWrites DEF CreationInv
  <2>4. /\ WritesMade'
        /\ row.generation # {} => row'.generation = row.generation
        /\ row'.generation \in {row.generation, {w.value}}
    BY <2>1, LandKeepsWrites DEF CreationInv, RowKeys
  <2>5. \A v \in sent' : v.key = "generation" /\ v.by \in Creators /\ v.value = Creation!Opened(Want[v.by])
    BY <2>3 DEF CreationInv
  <2>6. (Creation!MembershipHolds)'
    BY <2>2, <2>4 DEF CreationInv, Creation!MembershipHolds
  <2>7. \A d, e \in row'.generation : d = e
    BY <2>4 DEF CreationInv
  <2> QED  BY <2>2, <2>4, <2>5, <2>6, <2>7 DEF CreationInv
<1>3. CASE \E c \in Creators : \/ Creation!CreateOpen(c) \/ Creation!Load(c) \/ Creation!Write(c)
                              \/ Creation!WriteReturns(c) \/ Creation!Reread(c)
  <2>1. PICK c \in Creators : \/ Creation!CreateOpen(c) \/ Creation!Load(c) \/ Creation!Write(c)
                              \/ Creation!WriteReturns(c) \/ Creation!Reread(c)
    BY <1>3
  <2>0. create[c] = [at |-> create[c].at, try |-> create[c].try, told |-> create[c].told, record |-> create[c].record]
    BY DEF CreationInv
  <2>2. ASSUME NEW at, Creation!CreatorGoes(c, at),
               \/ sent' = sent
               \/ \E t : Creation!Send(c, t, "generation", Creation!Opened(Want[c]))
        PROVE  CreationInv'
    <3> DEFINE new == [at |-> at, try |-> create[c].try, told |-> create[c].told, record |-> create[c].record]
    <3>1. [create[c] EXCEPT !.at = at] = new
      BY <2>0
    <3>2. row' = row /\ create' = [create EXCEPT ![c] = [create[c] EXCEPT !.at = at]]
      BY <2>2 DEF Creation!CreatorGoes
    <3>3. create' = [create EXCEPT ![c] = new]
      BY <3>1, <3>2
    <3> QED  BY <2>2, <3>2, <3>3, CreatorGoesKeeps
  <2>3. CASE Creation!CreateOpen(c)
    <3> DEFINE new == [at |-> "load", try |-> create[c].try + 1, told |-> create[c].told, record |-> create[c].record]
    <3>1. [create[c] EXCEPT !.at = "load", !.try = create[c].try + 1] = new
      BY <2>0, LoadedShape, Zenon
    <3>2. /\ row' = row /\ sent' = sent
          /\ create' = [create EXCEPT ![c] = [create[c] EXCEPT !.at = "load", !.try = create[c].try + 1]]
      BY <2>3 DEF Creation!CreateOpen
    <3>3. create' = [create EXCEPT ![c] = new]
      BY <3>1, <3>2
    <3> QED  BY <3>2, <3>3, CreatorGoesKeeps
  <2>4. ASSUME NEW doc \in row.generation, Creation!Adopt(c, doc), sent' = sent PROVE CreationInv'
    <3>1. row.generation = {doc}
      BY <2>4 DEF CreationInv
    <3> QED  BY <2>4, <3>1, CreatorEndsKeeps DEF Creation!Adopt, Creation!Same
  <2>5. CASE Creation!Load(c)
    BY <2>2, <2>4, <2>5, CreatorEndsKeeps DEF Creation!Load
  <2>6. CASE Creation!Write(c)
    BY <2>2, <2>6, CreatorEndsKeeps DEF Creation!Write
  <2>7. CASE Creation!WriteReturns(c)
    <3>1. CASE Creation!Acknowledged(c, create[c].try, "generation")
      <4>1. row.generation = {Creation!Opened(Want[c])}
        BY <3>1 DEF Creation!Acknowledged, CreationInv, WritesMade
      <4> QED  BY <2>2, <2>7, <4>1, CreatorEndsKeeps DEF Creation!WriteReturns
    <3>2. CASE Creation!CreatorGoes(c, "reread")
      BY <2>2, <2>7, <3>2 DEF Creation!WriteReturns
    <3> QED  BY <2>7, <3>1, <3>2 DEF Creation!WriteReturns
  <2>8. CASE Creation!Reread(c)
    BY <2>4, <2>8, CreatorEndsKeeps DEF Creation!Reread
  <2> QED  BY <2>1, <2>3, <2>5, <2>6, <2>7, <2>8
<1> QED  BY <1>1, <1>2, <1>3 DEF Creation!Next, Nobody
-----------------------------------------------------------------------------
\* A handle has no receipt before it retains; what it sent is its observation and
\* the custody of its receipt; each step it is past, its own write was acknowledged.
CustodyInv ==
  /\ WritesMade
  /\ DOMAIN owner = Owners
  /\ \A o \in Owners :
       /\ owner[o] = [at |-> owner[o].at, attempted |-> owner[o].attempted, receipt |-> owner[o].receipt]
       /\ owner[o].at \in {"new", "enrolling", "enrolled"} => owner[o].receipt = {}
       /\ owner[o].at \in {"enrolled", "retaining", "accepted"} => Custody!Acknowledged(o, 1, "enrollment")
       /\ owner[o].at = "accepted" => Custody!Acknowledged(o, 1, "custody")
  /\ \A w \in sent :
       /\ w.by \in Owners
       /\ \/ w.key = "enrollment" /\ w.value = Custody!Observation(w.by)
          \/ /\ w.key = "custody"
             /\ \E r : w.value = Custody!Custody(w.by, r) /\ owner[w.by].receipt = {r}

LEMMA CustodyStarts ==
  ASSUME Custody!Init
  PROVE  CustodyInv
BY DEF Custody!Init, CustodyInv, WritesMade, RowKeys

\* A write that was made stays so.
LEMMA StaysAcknowledged ==
  ASSUME \A w \in sent : w.made = "made" => w \in sent'
  PROVE  \A by, try, key : Custody!Acknowledged(by, try, key) => Custody!Acknowledged(by, try, key)'
BY DEF Custody!Acknowledged

\* A handle that goes on without a write.
LEMMA OwnerGoesKeeps ==
  ASSUME CustodyInv, NEW o \in Owners, NEW at, Custody!OwnerGoes(o, at), sent' = sent,
         at \in {"new", "enrolling", "enrolled"} => owner[o].receipt = {},
         at \in {"enrolled", "retaining", "accepted"} => Custody!Acknowledged(o, 1, "enrollment"),
         at = "accepted" => Custody!Acknowledged(o, 1, "custody")
  PROVE  CustodyInv'
<1>1. row' = row /\ owner' = [owner EXCEPT ![o].at = at]
  BY DEF Custody!OwnerGoes
<1>2. \A by, try, key : Custody!Acknowledged(by, try, key)' <=> Custody!Acknowledged(by, try, key)
  BY DEF Custody!Acknowledged
<1>3. DOMAIN owner' = Owners
  BY <1>1 DEF CustodyInv
<1>4. \A p \in Owners :
        /\ owner'[p] = [at |-> owner'[p].at, attempted |-> owner'[p].attempted, receipt |-> owner'[p].receipt]
        /\ owner'[p].at = IF p = o THEN at ELSE owner[p].at
        /\ owner'[p].receipt = owner[p].receipt
  BY <1>1 DEF CustodyInv
<1>5. WritesMade'
  BY <1>1 DEF CustodyInv, WritesMade
<1>6. \A w \in sent' :
       /\ w.by \in Owners
       /\ \/ w.key = "enrollment" /\ w.value = Custody!Observation(w.by)
          \/ /\ w.key = "custody"
             /\ \E r : w.value = Custody!Custody(w.by, r) /\ owner'[w.by].receipt = {r}
  <2> SUFFICES ASSUME NEW w \in sent
               PROVE  /\ w.by \in Owners
                      /\ \/ w.key = "enrollment" /\ w.value = Custody!Observation(w.by)
                         \/ /\ w.key = "custody"
                            /\ \E r : w.value = Custody!Custody(w.by, r) /\ owner'[w.by].receipt = {r}
    OBVIOUS
  <2>1. w.by \in Owners /\ owner'[w.by].receipt = owner[w.by].receipt
    BY <1>4 DEF CustodyInv
  <2> QED  BY <2>1 DEF CustodyInv
<1>7. \A p \in Owners :
       /\ owner'[p].at \in {"new", "enrolling", "enrolled"} => owner'[p].receipt = {}
       /\ owner'[p].at \in {"enrolled", "retaining", "accepted"} => Custody!Acknowledged(p, 1, "enrollment")'
       /\ owner'[p].at = "accepted" => Custody!Acknowledged(p, 1, "custody")'
  BY <1>2, <1>4 DEF CustodyInv
<1> QED  BY <1>3, <1>4, <1>5, <1>6, <1>7 DEF CustodyInv

\* A handle that sends its write, or gives up before it does.
LEMMA OwnerSendsKeeps ==
  ASSUME CustodyInv, NEW o \in Owners, NEW at, NEW receipt, row' = row,
         owner' = [owner EXCEPT ![o] = [at |-> at, attempted |-> TRUE, receipt |-> receipt]],
         owner[o].receipt = {},
         \/ /\ at = "unknown" /\ receipt = {} /\ sent' = sent
         \/ /\ at = "enrolling" /\ receipt = {}
            /\ Custody!Send(o, 1, "enrollment", Custody!Observation(o))
         \/ /\ at = "retaining" /\ Custody!Acknowledged(o, 1, "enrollment")
            /\ \E r : receipt = {r} /\ Custody!Send(o, 1, "custody", Custody!Custody(o, r))
  PROVE  CustodyInv'
<1> DEFINE new == [at |-> at, attempted |-> TRUE, receipt |-> receipt]
<1>1. /\ new = [at |-> new.at, attempted |-> new.attempted, receipt |-> new.receipt]
      /\ new.at = at /\ new.receipt = receipt
  OBVIOUS
<1> HIDE DEF new
<1>2. DOMAIN owner' = Owners /\ \A p \in Owners : owner'[p] = IF p = o THEN new ELSE owner[p]
  BY DEF CustodyInv, new
<1>3. \A w \in sent : w \in sent'
  BY DEF Custody!Send
<1>4. \A by, try, key : Custody!Acknowledged(by, try, key) => Custody!Acknowledged(by, try, key)'
  BY <1>3, StaysAcknowledged
<1>5. \A w \in sent : w.key = "custody" => w.by # o
  BY DEF CustodyInv
<1>6. /\ WritesMade'
      /\ \A w \in sent' : \/ w \in sent
                          \/ /\ w.by = o /\ w.key = "enrollment" /\ w.value = Custody!Observation(o)
                          \/ /\ w.by = o /\ w.key = "custody"
                             /\ \E r : receipt = {r} /\ w.value = Custody!Custody(o, r)
  <2>1. CASE sent' = sent
    BY <2>1 DEF CustodyInv, WritesMade
  <2>2. CASE Custody!Send(o, 1, "enrollment", Custody!Observation(o))
    <3>1. Creation!Send(o, 1, "enrollment", Custody!Observation(o))
      BY <2>2 DEF Custody!Send, Creation!Send
    <3> QED  BY <3>1, SendKeepsWrites DEF CustodyInv, RowKeys
  <2>3. ASSUME NEW r, receipt = {r}, Custody!Send(o, 1, "custody", Custody!Custody(o, r))
        PROVE  /\ WritesMade'
               /\ \A w \in sent' : w \in sent \/ (w.by = o /\ w.key = "custody" /\ w.value = Custody!Custody(o, r))
    <3>1. Creation!Send(o, 1, "custody", Custody!Custody(o, r))
      BY <2>3 DEF Custody!Send, Creation!Send
    <3> QED  BY <3>1, SendKeepsWrites DEF CustodyInv, RowKeys
  <2> QED  BY <2>1, <2>2, <2>3
<1>7. \A w \in sent' :
       /\ w.by \in Owners
       /\ \/ w.key = "enrollment" /\ w.value = Custody!Observation(w.by)
          \/ /\ w.key = "custody"
             /\ \E r : w.value = Custody!Custody(w.by, r) /\ owner'[w.by].receipt = {r}
  BY <1>1, <1>2, <1>5, <1>6 DEF CustodyInv
<1>8. \A p \in Owners :
       /\ owner'[p] = [at |-> owner'[p].at, attempted |-> owner'[p].attempted, receipt |-> owner'[p].receipt]
       /\ owner'[p].at \in {"new", "enrolling", "enrolled"} => owner'[p].receipt = {}
       /\ owner'[p].at \in {"enrolled", "retaining", "accepted"} => Custody!Acknowledged(p, 1, "enrollment")'
       /\ owner'[p].at = "accepted" => Custody!Acknowledged(p, 1, "custody")'
  <2> SUFFICES ASSUME NEW p \in Owners
               PROVE  /\ owner'[p] = [at |-> owner'[p].at, attempted |-> owner'[p].attempted, receipt |-> owner'[p].receipt]
                      /\ owner'[p].at \in {"new", "enrolling", "enrolled"} => owner'[p].receipt = {}
                      /\ owner'[p].at \in {"enrolled", "retaining", "accepted"} => Custody!Acknowledged(p, 1, "enrollment")'
                      /\ owner'[p].at = "accepted" => Custody!Acknowledged(p, 1, "custody")'
    OBVIOUS
  <2>1. CASE p = o
    BY <2>1, <1>1, <1>2, <1>4
  <2>2. CASE p # o
    BY <2>2, <1>2, <1>4 DEF CustodyInv
  <2> QED  BY <2>1, <2>2
<1> QED  BY <1>2, <1>6, <1>7, <1>8 DEF CustodyInv

LEMMA CustodyStep ==
  ASSUME CustodyInv, [Custody!Next]_(Custody!vars)
  PROVE  CustodyInv'
<1>1. CASE UNCHANGED Custody!vars
  BY <1>1 DEF CustodyInv, WritesMade, Custody!Acknowledged, Custody!vars
<1>2. CASE \E w \in sent : Custody!Land(w)
  <2>1. PICK w \in sent : Custody!Land(w)
    BY <1>2
  <2>2. Creation!Land(w) /\ owner' = owner /\ w.made = "sent"
    BY <2>1 DEF Custody!Land, Creation!Land
  <2>3. WritesMade /\ WritesMade'
    BY <2>2, LandKeepsWrites DEF CustodyInv
  <2>4. PICK m : sent' = (sent \ {w}) \cup {[by |-> w.by, try |-> w.try, key |-> w.key, value |-> w.value, made |-> m]}
    BY <2>2, LandKeepsWrites DEF CustodyInv
  <2>5. \A by, try, key : Custody!Acknowledged(by, try, key) => Custody!Acknowledged(by, try, key)'
    BY <2>2, <2>4, StaysAcknowledged
  <2>6. \A v \in sent' :
       /\ v.by \in Owners
       /\ \/ v.key = "enrollment" /\ v.value = Custody!Observation(v.by)
          \/ /\ v.key = "custody"
             /\ \E r : v.value = Custody!Custody(v.by, r) /\ owner[v.by].receipt = {r}
    BY <2>4 DEF CustodyInv
  <2> QED  BY <2>2, <2>3, <2>5, <2>6 DEF CustodyInv
<1>3. CASE \E o \in Owners : \/ Custody!Reserve(o) \/ Custody!Reserved(o) \/ Custody!Retained(o)
                             \/ \E r \in Receipts : Custody!RetainOriginal(o, r)
  <2>1. PICK o \in Owners : \/ Custody!Reserve(o) \/ Custody!Reserved(o) \/ Custody!Retained(o)
                            \/ \E r \in Receipts : Custody!RetainOriginal(o, r)
    BY <1>3
  <2>2. CASE Custody!Reserve(o)
    <3>1. owner[o].receipt = {}
      BY <2>2 DEF Custody!Reserve, CustodyInv
    <3>2. CASE /\ owner' = [owner EXCEPT ![o] = [at |-> "unknown", attempted |-> TRUE, receipt |-> {}]]
               /\ UNCHANGED <<row, create, sent>>
      BY <3>1, <3>2, OwnerSendsKeeps
    <3>3. CASE /\ owner' = [owner EXCEPT ![o] = [at |-> "enrolling", attempted |-> TRUE, receipt |-> {}]]
               /\ Custody!Send(o, 1, "enrollment", Custody!Observation(o)) /\ UNCHANGED <<row, create>>
      BY <3>1, <3>3, OwnerSendsKeeps
    <3> QED  BY <2>2, <3>2, <3>3 DEF Custody!Reserve
  <2>3. CASE Custody!Reserved(o)
    <3>1. owner[o].receipt = {} /\ sent' = sent
      BY <2>3 DEF Custody!Reserved, CustodyInv
    <3>2. CASE Custody!Acknowledged(o, 1, "enrollment") /\ Custody!OwnerGoes(o, "enrolled")
      BY <3>1, <3>2, OwnerGoesKeeps
    <3>3. CASE Custody!OwnerGoes(o, "unknown")
      BY <3>1, <3>3, OwnerGoesKeeps
    <3> QED  BY <2>3, <3>2, <3>3 DEF Custody!Reserved
  <2>4. CASE Custody!Retained(o)
    <3>1. Custody!Acknowledged(o, 1, "enrollment") /\ sent' = sent
      BY <2>4 DEF Custody!Retained, CustodyInv
    <3>2. CASE Custody!Acknowledged(o, 1, "custody") /\ Custody!OwnerGoes(o, "accepted")
      BY <3>1, <3>2, OwnerGoesKeeps
    <3>3. CASE Custody!OwnerGoes(o, "unknown")
      BY <3>1, <3>3, OwnerGoesKeeps
    <3> QED  BY <2>4, <3>2, <3>3 DEF Custody!Retained
  <2>5. ASSUME NEW r \in Receipts, Custody!RetainOriginal(o, r) PROVE CustodyInv'
    <3>1. owner[o].receipt = {} /\ Custody!Acknowledged(o, 1, "enrollment")
      BY <2>5 DEF Custody!RetainOriginal, CustodyInv
    <3>2. CASE Custody!OwnerGoes(o, "unknown") /\ UNCHANGED sent
      BY <3>1, <3>2, OwnerGoesKeeps
    <3>3. CASE /\ owner' = [owner EXCEPT ![o] = [at |-> "retaining", attempted |-> TRUE, receipt |-> {r}]]
               /\ Custody!Send(o, 1, "custody", Custody!Custody(o, r)) /\ UNCHANGED <<row, create>>
      BY <3>1, <3>3, OwnerSendsKeeps
    <3> QED  BY <2>5, <3>2, <3>3 DEF Custody!RetainOriginal
  <2> QED  BY <2>1, <2>2, <2>3, <2>4, <2>5
<1> QED  BY <1>1, <1>2, <1>3 DEF Custody!Next, Nobody

\* What the custody row holds was written by one handle, and under that handle's name
\* and receipt a reader finds it.
LEMMA CustodyIsOne ==
  ASSUME CustodyInv
  PROVE  Custody!OneCustody
<1> DEFINE holders == {o \in Owners : owner[o].at = "accepted"}
<1>1. ASSUME NEW o \in holders
      PROVE  /\ Custody!ReadHolds(o)
             /\ \E w \in sent : w.by = o /\ w.key = "custody" /\ w.made = "made"
  <2>1. PICK e \in sent : e.by = o /\ e.key = "enrollment" /\ e.made = "made"
    BY <1>1 DEF CustodyInv, Custody!Acknowledged
  <2>2. PICK w \in sent : w.by = o /\ w.key = "custody" /\ w.made = "made"
    BY <1>1 DEF CustodyInv, Custody!Acknowledged
  <2>3. row.enrollment = {Custody!Observation(o)}
    BY <2>1 DEF CustodyInv, WritesMade
  <2>4. PICK r : w.value = Custody!Custody(o, r) /\ owner[o].receipt = {r}
    BY <2>2 DEF CustodyInv
  <2>5. row.custody = {Custody!Custody(o, r)}
    BY <2>2, <2>4 DEF CustodyInv, WritesMade
  <2>6. {Custody!Custody(o, s) : s \in owner[o].receipt} = {Custody!Custody(o, r)}
    BY <2>4
  <2> QED  BY <2>2, <2>3, <2>5, <2>6 DEF Custody!ReadHolds
<1>2. \A o, p \in holders : o = p
  BY <1>1 DEF CustodyInv, WritesMade
<1>3. Cardinality(holders) <= 1
  <2> HIDE DEF holders
  <2>1. CASE holders = {}
    BY <2>1, FS_EmptySet
  <2>2. CASE holders # {}
    <3>1. PICK o : holders = {o}
      BY <2>2, <1>2
    <3>2. Cardinality({o}) = 1
      BY FS_Singleton
    <3> QED  BY <3>1, <3>2
  <2> QED  BY <2>1, <2>2
<1>4. Custody!Cardinality(holders) = Cardinality(holders)
  BY DEF Custody!Cardinality, Cardinality
<1> QED  BY <1>1, <1>3, <1>4 DEF Custody!OneCustody

\* Everyone who is told that a create-once row is theirs is told of the same row,
\* whatever other creators, retries, restarted supervisors and late writes do.
THEOREM RowsAreCreatedOnce == PlatformSpec => []RowsCreatedOnce
<1> DEFINE Kept == (part = "creation" => CreationInv) /\ (part = "custody" => CustodyInv)
<1>1. PlatformInit => Kept
  BY CreationStarts, CustodyStarts DEF PlatformInit
<1>2. Kept /\ [PlatformNext]_platformVars => Kept'
  <2> SUFFICES ASSUME Kept, [PlatformNext]_platformVars PROVE Kept'
    OBVIOUS
  <2>1. part' = part
    BY DEF PlatformNext, platformVars
  <2>2. CASE part = "creation"
    BY <2>1, <2>2, CreationRuns, CreationStep
  <2>3. CASE part = "custody"
    BY <2>1, <2>3, CustodyRuns, CustodyStep
  <2> QED  BY <2>1, <2>2, <2>3
<1>3. Kept => RowsCreatedOnce
  BY CustodyIsOne DEF CreationInv, RowsCreatedOnce
<1> QED  BY <1>1, <1>2, <1>3, PTL DEF PlatformSpec

-----------------------------------------------------------------------------
(***************************************************************************)
(* The allocator's peer.  Pages are taken of one version of the cluster,   *)
(* whatever the server does in between, so what was found and what is to   *)
(* come are together the Pods of that version.                             *)
(***************************************************************************)
Pods == [ip : Addresses, ready : BOOLEAN]
Clusters == [Peer!UIDs -> Pods \cup {None}]
Entries == [uid : Peer!UIDs, pod : Pods]
Pages == [version : Nat, item : SUBSET Entries]
Endpoints == [uid : Peer!UIDs, ip : Addresses, ready : BOOLEAN]
Observations == [ip : Addresses, podVersion : Nat, slice : SUBSET Endpoints]

\* What the API server has to list of a cluster.
EntriesOf(p) == {[uid |-> u, pod |-> p[u]] : u \in Peer!Alive(p)}
LastListed == IF listed = <<>> THEN None ELSE (CHOOSE e \in listed[Len(listed)].item : TRUE).uid

PeerTypes ==
  /\ version \in Nat \ {0} /\ pods \in Clusters
  /\ podsAt \in Seq(Clusters) /\ Len(podsAt) = version /\ podsAt[version] = pods
  /\ slice \in SUBSET Endpoints
  /\ listed \in Seq(Pages) /\ pages = Len(listed)
  /\ observed \in Seq(Observations)

\* A collection is of one version, and nothing of it is lost.
OneVersion ==
  /\ listed # <<>> /\ listed[1].version \in 1..version
  /\ \A k \in DOMAIN listed : listed[k].version = listed[1].version
  /\ Peer!Found \cup list = EntriesOf(podsAt[listed[1].version])
Collected ==
  /\ pc = "pods" /\ listed # <<>> =>
       /\ OneVersion /\ LastListed \in Peer!UIDs
       /\ list # {} /\ list = Peer!After(podsAt[listed[1].version], LastListed)
  /\ pc = "slices" => OneVersion /\ list = {}

Observed ==
  /\ \A k \in DOMAIN observed : observed[k].podVersion \in 1..version
  /\ Peer!ObservationTrue

\* A record that changed is not pinned again, so past the generation's check it had
\* not changed before the connection was ready.
Connected ==
  /\ generation \in {"pinned", "changed"} /\ late \in BOOLEAN /\ peer \in {None, Actor}
  /\ native \in {"none", "possible", "done"}
  /\ late => generation = "changed"
  /\ pc \in {"pods", "slices", "after", "compare", "dispatch", "answer"} /\ peer # None => ~late
  /\ pc \in {"compare", "dispatch", "answer"} => peer = Actor
  /\ pc \in {"generation", "before", "pods", "slices"} => Len(observed) = IF peer = None THEN 0 ELSE 1
  /\ pc = "after" => Len(observed) = IF peer = None THEN 1 ELSE 2
  /\ pc = "connect" => Len(observed) = 1
  /\ native # "none" => pc \in {"answer", "done"} /\ peer = Actor /\ ~late
  /\ result # "none" => pc = "done"
  /\ result = "refused" => native = "none"

PeerInv == PeerTypes /\ Collected /\ Observed /\ Connected

LEMMA EndpointsTyped ==
  ASSUME NEW p \in Clusters
  PROVE  Peer!EndpointsOf(p) \in SUBSET Endpoints
<1>1. \A u \in Peer!Alive(p) : u \in Peer!UIDs /\ p[u] \in Pods
  BY DEF Peer!Alive, Clusters
<1> QED  BY <1>1 DEF Peer!EndpointsOf, Endpoints, Pods

LEMMA PeerStarts ==
  ASSUME Peer!Init
  PROVE  PeerInv
<1>1. PICK place \in [Members -> Addresses] :
        pods = [u \in Peer!UIDs |-> IF u \in Members THEN Peer!Pod(place[u], TRUE) ELSE None]
  BY DEF Peer!Init
<1>2. pods \in Clusters
  BY <1>1 DEF Clusters, Pods, Peer!Pod, Peer!UIDs
<1>3. slice \in SUBSET Endpoints
  BY <1>2, EndpointsTyped DEF Peer!Init
<1>4. podsAt \in Seq(Clusters) /\ Len(podsAt) = 1 /\ podsAt[1] = pods
  BY <1>2 DEF Peer!Init
<1>5. /\ version = 1 /\ listed = <<>> /\ pages = 0 /\ observed = <<>> /\ pc = "generation"
      /\ generation = "pinned" /\ late = FALSE /\ peer = None /\ native = "none" /\ result = "none"
  BY DEF Peer!Init
<1>6. listed \in Seq(Pages) /\ Len(listed) = 0 /\ observed \in Seq(Observations) /\ Len(observed) = 0 /\ DOMAIN observed = {}
  BY <1>5
<1>7. PeerTypes
  BY <1>2, <1>3, <1>4, <1>5, <1>6 DEF PeerTypes
<1>8. Collected /\ Observed /\ Connected
  BY <1>5, <1>6 DEF Collected, Observed, Connected, Peer!ObservationTrue
<1> QED  BY <1>7, <1>8 DEF PeerInv

\* The cluster changes; the versions of it that were stay what they were.
LEMMA ChangeKeeps ==
  ASSUME PeerInv, NEW p \in Clusters, Peer!Change(p)
  PROVE  PeerInv'
<1>1. /\ version' = version + 1 /\ pods' = p /\ podsAt' = Append(podsAt, p)
      /\ UNCHANGED <<slice, generation, pc, list, listed, pages, left, observed, peer, late, native, result>>
  BY DEF Peer!Change, Peer!listVars
<1>2. /\ podsAt' \in Seq(Clusters) /\ Len(podsAt') = version' /\ podsAt'[version'] = p
      /\ \A v \in 1..version : podsAt'[v] = podsAt[v] /\ v \in 1..version'
  BY <1>1, AppendProperties DEF PeerInv, PeerTypes
<1>3. PeerTypes'
  BY <1>1, <1>2 DEF PeerInv, PeerTypes
<1>4. OneVersion => OneVersion' /\ podsAt'[listed[1].version] = podsAt[listed[1].version]
  BY <1>1, <1>2 DEF OneVersion, Peer!Found
<1>5. LastListed' = LastListed
  BY <1>1 DEF LastListed
<1>6. Collected'
  BY <1>1, <1>4, <1>5 DEF PeerInv, Collected
<1>7. Observed'
  BY <1>1, <1>2 DEF PeerInv, Observed, Peer!ObservationTrue
<1>8. Connected'
  BY <1>1 DEF PeerInv, Connected
<1> QED  BY <1>3, <1>6, <1>7, <1>8 DEF PeerInv

LEMMA ClusterKeeps ==
  ASSUME PeerInv, Peer!ClusterStep
  PROVE  PeerInv'
<1>0. pods \in Clusters
  BY DEF PeerInv, PeerTypes
<1>1. ASSUME NEW u \in Peer!UIDs, Peer!PodGoes(u) PROVE PeerInv'
  <2>1. [pods EXCEPT ![u] = None] \in Clusters
    BY <1>0 DEF Clusters
  <2> QED  BY <1>1, <2>1, ChangeKeeps DEF Peer!PodGoes
<1>2. ASSUME NEW u \in Peer!UIDs, Peer!PodReady(u) PROVE PeerInv'
  <2>1. pods[u] \in Pods
    BY <1>0, <1>2 DEF Clusters, Peer!PodReady
  <2>2. [pods[u] EXCEPT !.ready = ~@] \in Pods
    BY <2>1 DEF Pods
  <2>3. [pods EXCEPT ![u].ready = ~@] \in Clusters
    BY <1>0, <2>2 DEF Clusters
  <2> QED  BY <1>2, <2>3, ChangeKeeps DEF Peer!PodReady
<1>3. ASSUME NEW u \in Peer!UIDs, NEW ip \in Addresses, Peer!PodComes(u, ip) PROVE PeerInv'
  <2>1. [pods EXCEPT ![u] = Peer!Pod(ip, TRUE)] \in Clusters
    BY <1>0 DEF Clusters, Pods, Peer!Pod
  <2> QED  BY <1>3, <2>1, ChangeKeeps DEF Peer!PodComes
<1>4. ASSUME NEW u \in Peer!UIDs, NEW ip \in Addresses, Peer!PodMoves(u, ip) PROVE PeerInv'
  <2>1. pods[u] \in Pods
    BY <1>0, <1>4 DEF Clusters, Peer!PodMoves
  <2>2. [pods[u] EXCEPT !.ip = ip] \in Pods
    BY <2>1 DEF Pods
  <2>3. [pods EXCEPT ![u].ip = ip] \in Clusters
    BY <1>0, <2>2 DEF Clusters
  <2> QED  BY <1>4, <2>3, ChangeKeeps DEF Peer!PodMoves
<1>5. CASE Peer!SyncSlice
  <2>1. /\ slice' = Peer!EndpointsOf(pods)
        /\ UNCHANGED <<pods, version, podsAt, generation, pc, list, listed, pages, left, observed, peer, late, native, result>>
    BY <1>5 DEF Peer!SyncSlice, Peer!listVars
  <2>2. slice' \in SUBSET Endpoints
    BY <1>0, <2>1, EndpointsTyped
  <2>3. PeerTypes' /\ Collected' /\ Observed'
    BY <2>1, <2>2 DEF PeerInv, PeerTypes, Collected, OneVersion, LastListed, Peer!Found, Observed, Peer!ObservationTrue
  <2>4. Connected'
    BY <2>1 DEF PeerInv, Connected
  <2> QED  BY <2>3, <2>4 DEF PeerInv
<1>6. CASE Peer!GenerationChanges \/ Peer!NativeWrite
  <2>1. UNCHANGED <<pods, version, podsAt, slice, pc, list, listed, pages, left, observed, peer, result>>
    BY <1>6 DEF Peer!GenerationChanges, Peer!NativeWrite, Peer!listVars, Peer!clusterVars
  <2>2. PeerTypes' /\ Collected' /\ Observed'
    BY <2>1 DEF PeerInv, PeerTypes, Collected, OneVersion, LastListed, Peer!Found, Observed, Peer!ObservationTrue
  <2>3. CASE Peer!NativeWrite
    <3>1. native = "possible" /\ native' = "done" /\ UNCHANGED <<generation, late>>
      BY <2>3 DEF Peer!NativeWrite, Peer!clusterVars
    <3>2. Connected'
      BY <2>1, <3>1 DEF PeerInv, Connected
    <3> QED  BY <2>2, <3>2 DEF PeerInv
  <2>4. CASE Peer!GenerationChanges
    <3>1. generation' = "changed" /\ late' = (late \/ peer = None) /\ native' = native
      BY <2>4 DEF Peer!GenerationChanges
    <3>2. late' \in BOOLEAN /\ (peer # None => late' = late)
      BY <3>1 DEF PeerInv, Connected
    <3>3. native # "none" => peer # None
      BY PodsAreRanked DEF PeerInv, Connected
    <3>4. Connected'
      BY <2>1, <3>1, <3>2, <3>3 DEF PeerInv, Connected
    <3> QED  BY <2>2, <3>4 DEF PeerInv
  <2> QED  BY <1>6, <2>3, <2>4
<1> QED  BY <1>1, <1>2, <1>3, <1>4, <1>5, <1>6 DEF Peer!ClusterStep

\* A natural number of a set is the least.
LEMMA LeastExists ==
  ASSUME NEW S \in SUBSET Nat, S # {}
  PROVE  \E m \in S : \A n \in S : m <= n
<1> DEFINE R == OpToRel(<, Nat)
<1>1. \A a, b \in Nat : a < b => <<a, b>> \in R
  BY DEF OpToRel
<1>2. IsWellFoundedOn(R, Nat)
  BY NatLessThanWellFounded
<1> HIDE DEF R
<1>3. PICK m \in S : \A n \in S : ~(<<n, m>> \in R)
  BY <1>2, WFMin, Zenon
<1>4. ASSUME NEW n \in S PROVE m <= n
  <2>1. n \in Nat /\ m \in Nat
    OBVIOUS
  <2>2. ~(n < m)
    BY <1>1, <1>3, <2>1, Zenon
  <2> QED  BY <2>1, <2>2
<1> QED  BY <1>4

\* The next page of what is to come: some of it, and what comes after.
LEMMA PageTaken ==
  ASSUME NEW p \in Clusters, NEW u, NEW all, all = Peer!After(p, u), all # {},
         u = None \/ u \in Peer!UIDs
  PROVE  /\ all \in SUBSET Entries /\ all \subseteq EntriesOf(p)
         /\ Peer!First(all) # {} /\ Peer!First(all) \subseteq all
         /\ \A e \in Peer!First(all) : all \ Peer!First(all) = Peer!After(p, e.uid)
<1>1. /\ \A v \in Peer!UIDs : Rank[v] \in Nat
      /\ \A v \in Peer!UIDs : v # None
  BY PodsAreRanked DEF Peer!UIDs
<1>2. \A v \in Peer!Alive(p) : v \in Peer!UIDs /\ p[v] \in Pods
  BY DEF Peer!Alive, Clusters
<1>3. all = {[uid |-> v, pod |-> p[v]] : v \in {w \in Peer!Alive(p) : u = None \/ Rank[w] > Rank[u]}}
  BY DEF Peer!After
<1>4. all \in SUBSET Entries /\ all \subseteq EntriesOf(p)
  BY <1>2, <1>3 DEF Entries, EntriesOf
<1>5. \A e \in all : e.uid \in Peer!Alive(p) /\ e = [uid |-> e.uid, pod |-> p[e.uid]] /\ Rank[e.uid] \in Nat
  BY <1>1, <1>2, <1>3
<1>6. PICK e \in all : \A f \in all : Rank[e.uid] <= Rank[f.uid]
  <2> DEFINE S == {Rank[f.uid] : f \in all}
  <2>1. S \in SUBSET Nat /\ S # {}
    BY <1>5
  <2> HIDE DEF S
  <2>2. PICK m \in S : \A n \in S : m <= n
    BY <2>1, LeastExists
  <2> QED  BY <2>2 DEF S
<1>7. Peer!First(all) # {} /\ Peer!First(all) \subseteq all
  BY <1>6 DEF Peer!First
<1>8. ASSUME NEW f \in Peer!First(all)
      PROVE  all \ Peer!First(all) = Peer!After(p, f.uid)
  <2>1. f \in all /\ \A g \in all : Rank[f.uid] <= Rank[g.uid]
    BY DEF Peer!First
  <2>2. f.uid # None /\ Rank[f.uid] \in Nat
    BY <1>1, <1>2, <1>5, <2>1
  <2>3. Peer!After(p, f.uid) = {[uid |-> v, pod |-> p[v]] : v \in {w \in Peer!Alive(p) : Rank[w] > Rank[f.uid]}}
    BY <2>2 DEF Peer!After
  <2>4. \A g \in all : g \notin Peer!First(all) <=> Rank[g.uid] > Rank[f.uid]
    BY <1>5, <2>1, <2>2 DEF Peer!First
  <2>5. u = None \/ (Rank[u] \in Nat /\ Rank[f.uid] > Rank[u])
    BY <1>1, <1>3, <2>1
  <2>6. \A w \in Peer!Alive(p) : Rank[w] > Rank[f.uid] => [uid |-> w, pod |-> p[w]] \in all
    BY <1>1, <1>2, <1>3, <2>2, <2>5
  <2>7. all \ Peer!First(all) \subseteq Peer!After(p, f.uid)
    BY <1>5, <2>3, <2>4
  <2>8. Peer!After(p, f.uid) \subseteq all \ Peer!First(all)
    BY <2>3, <2>4, <2>6
  <2> QED  BY <2>7, <2>8
<1> QED  BY <1>4, <1>7, <1>8

\* A step of the reservation that observes nothing and lists nothing.
LEMMA ProgressKeeps ==
  ASSUME PeerInv, UNCHANGED <<pods, version, podsAt, slice, list, listed, pages, observed>>,
         pc' \in {"pods", "slices"} => pc' = pc, Connected'
  PROVE  PeerInv'
BY DEF PeerInv, PeerTypes, Collected, OneVersion, LastListed, Peer!Found, Observed, Peer!ObservationTrue

LEMMA FailKeeps ==
  ASSUME PeerInv, NEW why \in {"refused"}, Peer!Fail(why), pc # "done"
  PROVE  PeerInv'
<1>1. /\ pc' = "done" /\ result' = IF native = "none" THEN "refused" ELSE "uncertain"
      /\ UNCHANGED <<pods, version, podsAt, slice, generation, list, listed, pages, left, observed, peer, late, native>>
  BY DEF Peer!Fail, Peer!Answer, Peer!clusterVars, Peer!listVars
<1>2. Connected'
  BY <1>1 DEF PeerInv, Connected
<1> QED  BY <1>1, <1>2, ProgressKeeps

LEMMA GenerationKeeps ==
  ASSUME PeerInv, Peer!CheckGeneration
  PROVE  PeerInv'
<1>1. CASE generation # "pinned"
  BY <1>1, FailKeeps DEF Peer!CheckGeneration
<1>2. CASE generation = "pinned"
  <2>1. UNCHANGED <<pods, version, podsAt, slice, generation, observed, peer, late, native, result>>
    BY <1>2 DEF Peer!CheckGeneration, Peer!clusterVars
  <2>2. late = FALSE
    BY <1>2 DEF PeerInv, Connected
  <2>3. CASE pc = "generation"
    <3>1. pc' = "before" /\ UNCHANGED <<list, listed, pages, left>>
      BY <1>2, <2>3 DEF Peer!CheckGeneration, Peer!listVars
    <3>2. Connected'
      BY <2>1, <2>3, <3>1 DEF PeerInv, Connected
    <3> QED  BY <2>1, <3>1, <3>2, ProgressKeeps
  <2>4. CASE pc = "before"
    <3>1. pc' = "pods" /\ list' = {} /\ listed' = <<>> /\ pages' = 0
      BY <1>2, <2>4 DEF Peer!CheckGeneration
    <3>2. Connected'
      BY <2>1, <2>2, <2>4, <3>1 DEF PeerInv, Connected
    <3>3. listed' \in Seq(Pages) /\ Len(listed') = 0
      BY <3>1
    <3>4. PeerTypes' /\ Collected' /\ Observed'
      BY <2>1, <3>1, <3>3 DEF PeerInv, PeerTypes, Collected, Observed, Peer!ObservationTrue
    <3> QED  BY <3>2, <3>4 DEF PeerInv
  <2>5. CASE pc = "after"
    <3>1. pc' = IF Len(observed) = 1 THEN "connect" ELSE "compare"
      BY <1>2, <2>5 DEF Peer!CheckGeneration
    <3>2. UNCHANGED <<list, listed, pages, left>>
      BY <1>2, <2>5 DEF Peer!CheckGeneration, Peer!listVars
    <3>3. Connected'
      <4>1. CASE peer = None
        <5>1. pc' = "connect" /\ Len(observed) = 1 /\ native = "none"
          BY <2>5, <3>1, <4>1 DEF PeerInv, Connected
        <5> QED  BY <2>1, <2>2, <2>5, <5>1 DEF PeerInv, Connected
      <4>2. CASE peer # None
        <5>1. pc' = "compare" /\ peer = Actor /\ native = "none"
          BY <2>5, <3>1, <4>2 DEF PeerInv, Connected
        <5> QED  BY <2>1, <2>2, <2>5, <5>1 DEF PeerInv, Connected
      <4> QED  BY <4>1, <4>2
    <3> QED  BY <2>1, <3>1, <3>2, <3>3, ProgressKeeps
  <2> QED  BY <1>2, <2>3, <2>4, <2>5 DEF Peer!CheckGeneration
<1> QED  BY <1>1, <1>2

LEMMA ConnectionKeeps ==
  ASSUME PeerInv, Peer!ListFails \/ Peer!Connect \/ Peer!Compare \/ Peer!Dispatch \/ Peer!Receive \/ Peer!Cancelled
  PROVE  PeerInv'
<1>1. CASE Peer!Fail("refused") /\ pc # "done"
  BY <1>1, FailKeeps
<1>2. CASE Peer!Connect
  <2>1. /\ pc = "connect" /\ pc' = "before" /\ peer' = Actor
        /\ UNCHANGED <<pods, version, podsAt, slice, generation, list, listed, pages, left, observed, late, native, result>>
    BY <1>2 DEF Peer!Connect, Peer!AfterHandshake, Peer!clusterVars, Peer!listVars
  <2>2. Connected'
    BY <2>1, PodsAreRanked DEF PeerInv, Connected
  <2> QED  BY <2>1, <2>2, ProgressKeeps
<1>3. CASE Peer!Compare /\ ~Peer!Fail("refused")
  <2>1. /\ pc = "compare" /\ pc' = "dispatch"
        /\ UNCHANGED <<pods, version, podsAt, slice, generation, list, listed, pages, left, observed, peer, late, native, result>>
    BY <1>3 DEF Peer!Compare, Peer!clusterVars, Peer!listVars
  <2>2. Connected'
    BY <2>1 DEF PeerInv, Connected
  <2> QED  BY <2>1, <2>2, ProgressKeeps
<1>4. CASE Peer!Dispatch
  <2>1. /\ pc = "dispatch" /\ pc' = "answer" /\ native' = "possible"
        /\ UNCHANGED <<pods, version, podsAt, slice, generation, list, listed, pages, left, observed, peer, late, result>>
    BY <1>4 DEF Peer!Dispatch, Peer!clusterVars, Peer!listVars
  <2>2. Connected'
    BY <2>1, PodsAreRanked DEF PeerInv, Connected
  <2> QED  BY <2>1, <2>2, ProgressKeeps
<1>5. CASE Peer!Receive /\ ~Peer!Fail("refused")
  <2>1. /\ pc = "answer" /\ pc' = "done" /\ result' = "allocated"
        /\ UNCHANGED <<pods, version, podsAt, slice, generation, list, listed, pages, left, observed, peer, late, native>>
    BY <1>5 DEF Peer!Receive, Peer!clusterVars, Peer!listVars
  <2>2. Connected'
    BY <2>1 DEF PeerInv, Connected
  <2> QED  BY <2>1, <2>2, ProgressKeeps
<1>6. CASE Peer!ListFails \/ Peer!Cancelled
  <2>1. Peer!Fail("refused") /\ pc # "done"
    BY <1>6 DEF Peer!ListFails, Peer!Cancelled
  <2> QED  BY <1>1, <2>1
<1>7. CASE Peer!Compare \/ Peer!Receive
  <2>1. pc # "done"
    BY <1>7 DEF Peer!Compare, Peer!Receive
  <2> QED  BY <1>1, <1>3, <1>5, <1>7, <2>1
<1> QED  BY <1>2, <1>4, <1>6, <1>7, Zenon

\* What one more page adds to what was found.
LEMMA FoundGrows ==
  ASSUME listed \in Seq(Pages), NEW page \in Pages, listed' = Append(listed, page)
  PROVE  Peer!Found' = Peer!Found \cup page.item
<1>1. /\ DOMAIN listed = 1..Len(listed) /\ DOMAIN listed' = 1..(Len(listed) + 1) /\ Len(listed) \in Nat
      /\ \A k \in 1..Len(listed) : listed'[k] = listed[k]
      /\ listed'[Len(listed) + 1] = page
  BY AppendProperties, LenProperties
<1>2. Peer!Found' \subseteq Peer!Found \cup page.item
  BY <1>1 DEF Peer!Found
<1>3. Peer!Found \subseteq Peer!Found' /\ page.item \subseteq Peer!Found'
  BY <1>1 DEF Peer!Found
<1> QED  BY <1>2, <1>3

LEMMA PageKeeps ==
  ASSUME PeerInv, Peer!PageOfPods
  PROVE  PeerInv'
<1>1. PICK expired \in {e \in BOOLEAN : e => pages > 0} :
       LET fresh == pages = 0 \/ expired
           final == IF listed = <<>> THEN None ELSE (CHOOSE e \in listed[Len(listed)].item : TRUE).uid
           all   == IF fresh THEN Peer!After(pods, final) ELSE list
           v     == IF fresh THEN version ELSE listed[1].version
       IN  /\ Peer!SameVersion(v)
           /\ listed' = Append(listed, [version |-> v, item |-> Peer!First(all)])
           /\ list' = all \ Peer!First(all)
           /\ pc' = IF list' = {} THEN "slices" ELSE "pods"
  BY DEF Peer!PageOfPods
<1> DEFINE fresh == pages = 0 \/ expired
           all   == IF fresh THEN Peer!After(pods, LastListed) ELSE list
           v     == IF fresh THEN version ELSE listed[1].version
           page  == [version |-> v, item |-> Peer!First(all)]
<1>2. /\ Peer!SameVersion(v) /\ listed' = Append(listed, page) /\ list' = all \ Peer!First(all)
      /\ pc' = IF list' = {} THEN "slices" ELSE "pods"
  BY <1>1 DEF LastListed
<1>3. /\ pc = "pods" /\ pages' = pages + 1
      /\ UNCHANGED <<pods, version, podsAt, slice, generation, observed, peer, late, native, result>>
  BY DEF Peer!PageOfPods, Peer!clusterVars
<1>4. /\ listed \in Seq(Pages) /\ pages = Len(listed) /\ Len(listed) \in Nat /\ DOMAIN listed = 1..Len(listed)
      /\ version \in Nat \ {0} /\ podsAt \in Seq(Clusters) /\ Len(podsAt) = version /\ podsAt[version] = pods
      /\ \A w \in 1..version : podsAt[w] \in Clusters
  BY DEF PeerInv, PeerTypes
<1>5. /\ v \in 1..version
      /\ listed # <<>> => v = listed[1].version /\ \A k \in DOMAIN listed : listed[k].version = v
  <2>1. CASE listed = <<>>
    BY <1>4, <2>1
  <2>2. CASE listed # <<>>
    <3>1. OneVersion /\ 1 \in DOMAIN listed
      BY <1>3, <1>4, <2>2 DEF PeerInv, Collected
    <3>2. listed[1].version \in 1..version /\ \A k \in DOMAIN listed : listed[k].version = listed[1].version
      BY <3>1 DEF OneVersion
    <3>3. v = listed[1].version
      BY <1>2, <3>1 DEF Peer!SameVersion
    <3> QED  BY <3>2, <3>3
  <2> QED  BY <2>1, <2>2
<1>6. all = Peer!After(podsAt[v], LastListed)
  <2>1. CASE fresh
    BY <2>1, <1>4
  <2>2. CASE ~fresh
    <3>1. listed # <<>>
      BY <1>4, <2>2
    <3> QED  BY <1>3, <1>5, <2>2, <3>1 DEF PeerInv, Collected
  <2> QED  BY <2>1, <2>2
<1>7. /\ listed = <<>> => all = EntriesOf(podsAt[v]) /\ Peer!Found = {}
      /\ listed # <<>> => all = list /\ all # {} /\ Peer!Found \cup all = EntriesOf(podsAt[v])
  <2>1. CASE listed = <<>>
    BY <1>4, <1>6, <2>1 DEF LastListed, EntriesOf, Peer!After, Peer!Found
  <2>2. CASE listed # <<>>
    BY <1>3, <1>5, <1>6, <2>2 DEF PeerInv, Collected, OneVersion
  <2> QED  BY <2>1, <2>2
<1>8. LastListed = None \/ LastListed \in Peer!UIDs
  BY <1>3 DEF PeerInv, Collected, LastListed
<1>9. podsAt[v] \in Clusters
  BY <1>4, <1>5
<1> HIDE DEF fresh, all, v
<1>10. /\ page \in Pages /\ Peer!First(all) \subseteq all
       /\ all \subseteq EntriesOf(podsAt[v])
  <2>1. CASE all = {}
    BY <1>4, <1>5, <2>1 DEF Peer!First, Pages
  <2>2. CASE all # {}
    <3>1. all \in SUBSET Entries /\ Peer!First(all) \subseteq all /\ all \subseteq EntriesOf(podsAt[v])
      BY <1>6, <1>8, <1>9, <2>2, PageTaken
    <3> QED  BY <1>4, <1>5, <3>1 DEF Pages
  <2> QED  BY <2>1, <2>2
<1>11. Peer!Found' = Peer!Found \cup Peer!First(all)
  BY <1>2, <1>4, <1>10, FoundGrows
<1>12. /\ listed' \in Seq(Pages) /\ Len(listed') = Len(listed) + 1 /\ DOMAIN listed' = 1..(Len(listed) + 1)
       /\ \A k \in 1..Len(listed) : listed'[k] = listed[k]
       /\ listed'[Len(listed) + 1] = page /\ listed' # <<>>
  BY <1>2, <1>4, <1>10, AppendProperties, LenProperties
<1>13. page.version = v /\ page.item = Peer!First(all)
  OBVIOUS
<1> HIDE DEF page
<1>14. \A k \in DOMAIN listed' : listed'[k].version = v
  <2> SUFFICES ASSUME NEW k \in DOMAIN listed' PROVE listed'[k].version = v
    OBVIOUS
  <2>1. CASE k = Len(listed) + 1
    BY <1>12, <1>13, <2>1
  <2>2. CASE k # Len(listed) + 1
    <3>1. k \in 1..Len(listed) /\ listed # <<>>
      BY <1>4, <1>12, <2>2
    <3> QED  BY <1>4, <1>5, <1>12, <3>1
  <2> QED  BY <2>1, <2>2
<1>15. listed'[1].version = v
  BY <1>4, <1>12, <1>14
<1>16. Peer!Found' \cup list' = EntriesOf(podsAt[v])
  BY <1>2, <1>7, <1>10, <1>11
<1>17. OneVersion'
  BY <1>3, <1>5, <1>12, <1>14, <1>15, <1>16 DEF OneVersion
<1>18. pc' = "pods" => LastListed' \in Peer!UIDs /\ list' # {} /\ list' = Peer!After(podsAt[v], LastListed')
  <2> SUFFICES ASSUME pc' = "pods"
               PROVE  LastListed' \in Peer!UIDs /\ list' # {} /\ list' = Peer!After(podsAt[v], LastListed')
    OBVIOUS
  <2>1. list' # {} /\ all # {}
    BY <1>2
  <2>2. /\ all \in SUBSET Entries /\ Peer!First(all) # {} /\ Peer!First(all) \subseteq all
        /\ \A e \in Peer!First(all) : all \ Peer!First(all) = Peer!After(podsAt[v], e.uid)
    BY <1>6, <1>8, <1>9, <2>1, PageTaken
  <2>3. LastListed' = (CHOOSE e \in Peer!First(all) : TRUE).uid
    BY <1>4, <1>12, <1>13 DEF LastListed
  <2>4. PICK e \in Peer!First(all) : LastListed' = e.uid
    BY <2>2, <2>3
  <2>5. e.uid \in Peer!UIDs
    BY <2>2 DEF Entries
  <2> QED  BY <1>2, <2>1, <2>2, <2>4, <2>5
<1>19. Collected'
  BY <1>2, <1>3, <1>15, <1>17, <1>18 DEF Collected
<1>20. PeerTypes' /\ Observed'
  BY <1>3, <1>4, <1>12 DEF PeerInv, PeerTypes, Observed, Peer!ObservationTrue
<1>21. Connected'
  BY <1>2, <1>3 DEF PeerInv, Connected
<1> QED  BY <1>19, <1>20, <1>21 DEF PeerInv

\* What is observed was so at the version that was listed.
LEMMA SlicesKeep ==
  ASSUME PeerInv, Peer!ReadSlices
  PROVE  PeerInv'
<1> DEFINE v == listed[1].version
           seen == CHOOSE e \in Peer!Eligible(slice) : TRUE
           new == [ip |-> seen.ip, podVersion |-> v, slice |-> slice]
<1>1. /\ pc = "slices" /\ pc' = "after" /\ observed' = Append(observed, new)
      /\ UNCHANGED <<pods, version, podsAt, slice, generation, list, listed, pages, peer, late, native, result>>
      /\ Peer!Joined(slice) /\ Peer!Complete /\ Peer!Eligible(slice) # {}
  BY DEF Peer!ReadSlices, Peer!clusterVars
<1>2. /\ version \in Nat \ {0} /\ podsAt \in Seq(Clusters) /\ Len(podsAt) = version
      /\ observed \in Seq(Observations) /\ slice \in SUBSET Endpoints
  BY DEF PeerInv, PeerTypes
<1>3. v \in 1..version /\ Peer!Found = EntriesOf(podsAt[v])
  BY <1>1 DEF PeerInv, Collected, OneVersion
<1>4. podsAt[v] \in Clusters
  BY <1>2, <1>3
<1>5. seen \in Peer!Eligible(slice)
  BY <1>1
<1> HIDE DEF v, seen
<1>6. /\ seen \in slice /\ seen.uid = Actor /\ seen.ip \in Addresses
      /\ \E found \in Peer!Found : found.uid = Actor /\ found.pod.ready
      /\ \E found \in Peer!Found : found.uid = Actor /\ found.pod.ip = seen.ip
  BY <1>1, <1>2, <1>5 DEF Peer!Eligible, Peer!Joined, Peer!OwnsAddress, Endpoints
<1>7. \A found \in Peer!Found : found.uid \in Peer!Alive(podsAt[v]) /\ found.pod = podsAt[v][found.uid]
  BY <1>3 DEF EntriesOf
<1>8. \A u \in Peer!Alive(podsAt[v]) : podsAt[v][u] \in Pods /\ \E found \in Peer!Found : found.uid = u
  <2> SUFFICES ASSUME NEW u \in Peer!Alive(podsAt[v])
               PROVE  podsAt[v][u] \in Pods /\ \E found \in Peer!Found : found.uid = u
    OBVIOUS
  <2>1. podsAt[v][u] \in Pods
    BY <1>4 DEF Peer!Alive, Clusters
  <2>2. [uid |-> u, pod |-> podsAt[v][u]] \in Peer!Found
    BY <1>3 DEF EntriesOf
  <2> QED  BY <2>1, <2>2
<1>9. Peer!Alive(podsAt[v]) = Members
  BY <1>1, <1>7, <1>8 DEF Peer!Complete
<1>10. podsAt[v][Actor] = Peer!Pod(seen.ip, TRUE)
  <2>1. podsAt[v][Actor] \in Pods /\ podsAt[v][Actor].ip = seen.ip /\ podsAt[v][Actor].ready
    BY <1>6, <1>7, <1>8
  <2> QED  BY <2>1 DEF Pods, Peer!Pod
<1>11. new \in Observations /\ new.ip = seen.ip /\ new.podVersion = v
  BY <1>2, <1>3, <1>6 DEF Observations
<1> HIDE DEF new
<1>12. /\ observed' \in Seq(Observations) /\ Len(observed') = Len(observed) + 1 /\ Len(observed) \in Nat
       /\ DOMAIN observed' = 1..(Len(observed) + 1) /\ DOMAIN observed = 1..Len(observed)
       /\ \A k \in 1..Len(observed) : observed'[k] = observed[k]
       /\ observed'[Len(observed) + 1] = new
  BY <1>1, <1>2, <1>11, AppendProperties, LenProperties
<1>13. Observed'
  <2> SUFFICES ASSUME NEW k \in DOMAIN observed'
               PROVE  /\ observed'[k].podVersion \in 1..version
                      /\ Peer!Alive(podsAt[observed'[k].podVersion]) = Members
                      /\ podsAt[observed'[k].podVersion][Actor] = Peer!Pod(observed'[k].ip, TRUE)
    BY <1>1 DEF Observed, Peer!ObservationTrue
  <2>1. CASE k = Len(observed) + 1
    BY <1>3, <1>9, <1>10, <1>11, <1>12, <2>1
  <2>2. CASE k # Len(observed) + 1
    <3>1. k \in DOMAIN observed /\ observed'[k] = observed[k]
      BY <1>12, <2>2
    <3> QED  BY <3>1 DEF PeerInv, Observed, Peer!ObservationTrue
  <2> QED  BY <2>1, <2>2
<1>14. PeerTypes' /\ Collected'
  BY <1>1, <1>12 DEF PeerInv, PeerTypes, Collected
<1>15. Connected'
  BY <1>1, <1>12 DEF PeerInv, Connected
<1> QED  BY <1>13, <1>14, <1>15 DEF PeerInv

LEMMA PeerStep ==
  ASSUME PeerInv, [Peer!Next]_(Peer!vars)
  PROVE  PeerInv'
<1>1. CASE UNCHANGED Peer!vars
  <2>1. UNCHANGED <<pods, version, podsAt, slice, generation, pc, list, listed, pages, left, observed, peer, late, native, result>>
    BY <1>1 DEF Peer!vars, Peer!clusterVars, Peer!listVars
  <2>2. Connected'
    BY <2>1 DEF PeerInv, Connected
  <2> QED  BY <2>1, <2>2, ProgressKeeps
<1>2. CASE Peer!Next
  BY <1>2, GenerationKeeps, PageKeeps, SlicesKeep, ConnectionKeeps, ClusterKeeps, Zenon DEF Peer!Next, Peer!ReserveStep
<1> QED  BY <1>1, <1>2

\* A reservation is dispatched under one observed generation, to its actor, and is
\* refused only while nothing was written for it, whatever becomes of the Pods, the
\* endpoints, the record and the lists in between.
THEOREM DispatchIsJustified == PlatformSpec => []DispatchJustified
<1> DEFINE Kept == part = "peer" => PeerInv
<1>1. PlatformInit => Kept
  BY PeerStarts DEF PlatformInit
<1>2. Kept /\ [PlatformNext]_platformVars => Kept'
  <2> SUFFICES ASSUME Kept, [PlatformNext]_platformVars, part' = "peer" PROVE PeerInv'
    OBVIOUS
  <2>1. part = "peer"
    BY DEF PlatformNext, platformVars
  <2> QED  BY <2>1, PeerRuns, PeerStep
<1>3. Kept => DispatchJustified
  BY DEF PeerInv, Observed, Connected, DispatchJustified, Peer!DispatchedUnderGeneration, Peer!RefusalIsFinal
<1> QED  BY <1>1, <1>2, <1>3, PTL DEF PlatformSpec

-----------------------------------------------------------------------------
(***************************************************************************)
(* The stored form of a lease.  A version is given once, so whoever passed *)
(* the check at a version and writes at it writes over what it checked.    *)
(***************************************************************************)
Leases ==
  [allocation : BOOLEAN, claimed : BOOLEAN, staging : BOOLEAN, dispatched : BOOLEAN, dispatch_id : BOOLEAN,
   releasing : BOOLEAN, binding : SUBSET LeaseRow!BindingKeys, readerOnly : BOOLEAN]

\* What this build writes: leases without a binding.
Written == {l \in Leases : LeaseRow!WellFormed(l) /\ ~l.readerOnly /\ l.binding = {}}

Writable == \E lease \in LeaseRow!Lease(row) : ~lease.readerOnly

DocumentInv ==
  /\ writes \in Nat /\ DOMAIN held = Builds /\ DOMAIN pending = Builds
  /\ row # None => row.version \in 0..writes
  /\ \A p \in Builds : held[p] # None =>
       /\ held[p] = [lease |-> held[p].lease, version |-> held[p].version]
       /\ held[p].lease \in Leases /\ held[p].version \in 0..writes
  /\ \A p \in Builds : pending[p] # None =>
       /\ pending[p].next \subseteq Written /\ pending[p].version \in 0..writes
       /\ row # None /\ row.version = pending[p].version => Writable

\* What a document says of a lease, be it well formed or not.
Said(doc) ==
  [allocation |-> LeaseRow!IsSet(doc, "allocation"), claimed |-> LeaseRow!IsSet(doc, "claimed"),
   staging |-> LeaseRow!IsSet(doc, "staging"), dispatched |-> LeaseRow!IsSet(doc, "dispatched"),
   dispatch_id |-> LeaseRow!IsSet(doc, "dispatch_id"), releasing |-> LeaseRow!IsSet(doc, "releasing"),
   binding |-> {k \in LeaseRow!BindingKeys : LeaseRow!IsSet(doc, k)}, readerOnly |-> doc.schema = LeaseRow!Readable]

LEMMA LeasesTyped ==
  ASSUME NEW doc, NEW lease \in LeaseRow!LeaseFrom(doc)
  PROVE  /\ lease \in Leases /\ LeaseRow!BindingFits(doc)
         /\ lease.readerOnly <=> doc.schema = LeaseRow!Readable
<1>1. lease = Said(doc) /\ LeaseRow!BindingFits(doc)
  BY DEF LeaseRow!LeaseFrom, Said
<1>2. Said(doc) \in Leases
  <2>1. \A key : LeaseRow!IsSet(doc, key) \in BOOLEAN
    BY DEF LeaseRow!IsSet
  <2>2. (doc.schema = LeaseRow!Readable) \in BOOLEAN
    OBVIOUS
  <2>3. {k \in LeaseRow!BindingKeys : LeaseRow!IsSet(doc, k)} \in SUBSET LeaseRow!BindingKeys
    OBVIOUS
  <2> QED  BY <2>1, <2>2, <2>3 DEF Said, Leases
<1>3. Said(doc).readerOnly = (doc.schema = LeaseRow!Readable)
  BY DEF Said
<1> QED  BY <1>1, <1>2, <1>3

\* A lease this build may write over is of a document without a binding.
LEMMA WritableHasNoBinding ==
  ASSUME row # None, Writable
  PROVE  row.doc.schema # LeaseRow!Readable /\ DOMAIN row.doc.members \cap LeaseRow!BindingKeys = {}
<1>1. PICK lease \in LeaseRow!LeaseFrom(row.doc) : ~lease.readerOnly
  BY DEF Writable, LeaseRow!Lease
<1>2. LeaseRow!BindingFits(row.doc) /\ row.doc.schema # LeaseRow!Readable
  BY <1>1, LeasesTyped
<1> QED  BY <1>2 DEF LeaseRow!BindingFits

\* What this build writes it reads back.
LEMMA RoundTrip ==
  ASSUME NEW l \in Written
  PROVE  LeaseRow!LeaseFrom(LeaseRow!DocumentFrom(l)) = {l}
<1> DEFINE doc == LeaseRow!DocumentFrom(l)
           value(k) == IF l[k] THEN "set" ELSE IF k = "claimed" THEN "null" ELSE "zero"
           keys == {"allocation", "claimed"} \cup {j \in LeaseRow!PostLegacy : l[j]}
<1>1. /\ doc.schema = 3 /\ doc.clean = TRUE
      /\ doc.members = [k \in keys |-> value(k)]
  BY DEF LeaseRow!DocumentFrom, LeaseRow!Current
<1>2. l \in Leases /\ LeaseRow!WellFormed(l) /\ l.readerOnly = FALSE /\ l.binding = {}
  BY DEF Written, Leases
<1>3. keys \cap LeaseRow!BindingKeys = {}
  BY DEF LeaseRow!PostLegacy, LeaseRow!BindingKeys
<1>4. /\ "allocation" \in keys /\ "claimed" \in keys
      /\ ("staging" \in keys) = l.staging /\ ("dispatched" \in keys) = l.dispatched
      /\ ("dispatch_id" \in keys) = l.dispatch_id /\ ("releasing" \in keys) = l.releasing
  BY <1>2 DEF LeaseRow!PostLegacy, Leases
<1>5. \A k \in keys : LeaseRow!Member(doc, k) = value(k)
  BY <1>1 DEF LeaseRow!Member
<1>6. \A k : k \notin keys => LeaseRow!Member(doc, k) = "absent"
  BY <1>1 DEF LeaseRow!Member
<1> HIDE DEF doc, keys
<1>7. /\ LeaseRow!IsSet(doc, "allocation") = l.allocation /\ LeaseRow!IsSet(doc, "claimed") = l.claimed
      /\ LeaseRow!IsSet(doc, "staging") = l.staging /\ LeaseRow!IsSet(doc, "dispatched") = l.dispatched
      /\ LeaseRow!IsSet(doc, "dispatch_id") = l.dispatch_id /\ LeaseRow!IsSet(doc, "releasing") = l.releasing
      /\ LeaseRow!Member(doc, "claimed") # "zero"
  BY <1>2, <1>4, <1>5, <1>6 DEF LeaseRow!IsSet, Leases
<1>8. {k \in LeaseRow!BindingKeys : LeaseRow!IsSet(doc, k)} = {}
  BY <1>3, <1>6 DEF LeaseRow!IsSet
<1>9. LeaseRow!BindingFits(doc)
  BY <1>1, <1>3 DEF LeaseRow!BindingFits, LeaseRow!Readable
<1> DEFINE read == [allocation |-> LeaseRow!IsSet(doc, "allocation"), claimed |-> LeaseRow!IsSet(doc, "claimed"),
                staging |-> LeaseRow!IsSet(doc, "staging"), dispatched |-> LeaseRow!IsSet(doc, "dispatched"),
                dispatch_id |-> LeaseRow!IsSet(doc, "dispatch_id"), releasing |-> LeaseRow!IsSet(doc, "releasing"),
                binding |-> {k \in LeaseRow!BindingKeys : LeaseRow!IsSet(doc, k)},
                readerOnly |-> doc.schema = LeaseRow!Readable]
<1>10. read = l
  <2>1. (doc.schema = LeaseRow!Readable) = FALSE
    BY <1>1 DEF LeaseRow!Readable
  <2> QED  BY <1>2, <1>7, <1>8, <2>1 DEF Leases
<1>11. LeaseRow!LeaseFrom(doc) = {read}
  <2>1. LeaseRow!WellFormed(read)
    BY <1>2, <1>10
  <2> HIDE DEF read
  <2> QED  BY <1>1, <1>7, <1>9, <2>1 DEF LeaseRow!LeaseFrom, LeaseRow!Legacy, LeaseRow!Previous, LeaseRow!Readable, read
<1> QED  BY <1>10, <1>11 DEF doc

\* An operation makes a lease this build may write of one.
LEMMA SuccessorsWritten ==
  ASSUME NEW l \in Leases, ~l.readerOnly, l.binding = {}
  PROVE  LeaseRow!Successors(l) \subseteq Written
<1> SUFFICES ASSUME NEW m \in LeaseRow!Successors(l) PROVE m \in Written
  OBVIOUS
<1>1. LeaseRow!WellFormed(m)
  BY DEF LeaseRow!Successors
<1>2. \/ m = [l EXCEPT !.dispatched = TRUE, !.dispatch_id = TRUE]
      \/ m = [l EXCEPT !.staging = FALSE, !.allocation = TRUE, !.dispatched = FALSE, !.dispatch_id = FALSE]
      \/ m = [l EXCEPT !.claimed = TRUE]
      \/ m = [l EXCEPT !.releasing = TRUE]
  BY DEF LeaseRow!Successors
<1>3. m \in Leases /\ m.readerOnly = l.readerOnly /\ m.binding = l.binding
  <2>1. CASE m = [l EXCEPT !.dispatched = TRUE, !.dispatch_id = TRUE]
    BY <2>1 DEF Leases
  <2>2. CASE m = [l EXCEPT !.staging = FALSE, !.allocation = TRUE, !.dispatched = FALSE, !.dispatch_id = FALSE]
    BY <2>2 DEF Leases
  <2>3. CASE m = [l EXCEPT !.claimed = TRUE] \/ m = [l EXCEPT !.releasing = TRUE]
    BY <2>3 DEF Leases
  <2> QED  BY <1>2, <2>1, <2>2, <2>3
<1> QED  BY <1>1, <1>3 DEF Written

LEMMA DocumentStarts ==
  ASSUME LeaseRow!Init
  PROVE  DocumentInv
BY DEF LeaseRow!Init, DocumentInv

\* A write is at a version nobody holds.
LEMMA WriteKeeps ==
  ASSUME DocumentInv, NEW by, NEW doc, NEW meant, LeaseRow!Write(by, doc, meant),
         DOMAIN held' = Builds, DOMAIN pending' = Builds,
         \A p \in Builds : held'[p] \in {held[p], None} /\ pending'[p] \in {pending[p], None}
  PROVE  DocumentInv'
<1>1. writes' = writes + 1 /\ row' = [doc |-> doc, version |-> writes + 1]
  BY DEF LeaseRow!Write
<1>2. row'.version = writes + 1
  BY <1>1
<1>3. \A n \in 0..writes : n \in 0..writes' /\ n # writes + 1
  BY <1>1 DEF DocumentInv
<1>4. \A p \in Builds : held'[p] # None => held'[p] = held[p] /\ held[p] # None
  OBVIOUS
<1>5. \A p \in Builds : pending'[p] # None => pending'[p] = pending[p] /\ pending[p] # None
  OBVIOUS
<1>6. writes' \in Nat /\ row'.version \in 0..writes'
  BY <1>1, <1>2 DEF DocumentInv
<1>7. \A p \in Builds : held'[p] # None =>
       /\ held'[p] = [lease |-> held'[p].lease, version |-> held'[p].version]
       /\ held'[p].lease \in Leases /\ held'[p].version \in 0..writes'
  BY <1>3, <1>4 DEF DocumentInv
<1>8. \A p \in Builds : pending'[p] # None =>
       /\ pending'[p].next \subseteq Written /\ pending'[p].version \in 0..writes'
       /\ row'.version # pending'[p].version
  BY <1>2, <1>3, <1>5 DEF DocumentInv
<1> QED  BY <1>6, <1>7, <1>8 DEF DocumentInv

\* A step that leaves the row alone or removes it.
LEMMA QuietKeeps ==
  ASSUME DocumentInv, row' \in {row, None}, writes' = writes,
         DOMAIN held' = Builds, DOMAIN pending' = Builds,
         \A p \in Builds : held'[p] \in {held[p], None} /\ pending'[p] \in {pending[p], None}
  PROVE  DocumentInv'
<1>1. \A p \in Builds : held'[p] # None => held'[p] = held[p] /\ held[p] # None
  OBVIOUS
<1>2. \A p \in Builds : pending'[p] # None => pending'[p] = pending[p] /\ pending[p] # None
  OBVIOUS
<1>3. row' # None => row' = row /\ Writable' = Writable
  BY DEF Writable
<1> QED  BY <1>1, <1>2, <1>3 DEF DocumentInv

LEMMA DocumentStep ==
  ASSUME DocumentInv, [LeaseRow!Next]_(LeaseRow!vars)
  PROVE  /\ DocumentInv'
         /\ LeaseRow!ExpandedUntouched \/ row' = row
         /\ LeaseRow!RewriteKeepsLease \/ row' = row
<1>1. CASE UNCHANGED LeaseRow!vars
  BY <1>1, QuietKeeps DEF LeaseRow!vars, DocumentInv
<1>2. CASE LeaseRow!Expand
  <2>1. PICK doc, meant : LeaseRow!Write("later", doc, meant)
    BY <1>2 DEF LeaseRow!Expand
  <2>2. UNCHANGED <<held, pending>>
    BY <1>2 DEF LeaseRow!Expand
  <2>3. DocumentInv'
    BY <2>1, <2>2, WriteKeeps DEF DocumentInv
  <2>4. last'.by = "later"
    BY <2>1 DEF LeaseRow!Write
  <2> QED  BY <2>3, <2>4 DEF LeaseRow!ExpandedUntouched, LeaseRow!RewriteKeepsLease
<1>3. CASE LeaseRow!Retire
  <2>1. row' = None /\ last'.by = "later" /\ UNCHANGED <<writes, held, pending>>
    BY <1>3 DEF LeaseRow!Retire, LeaseRow!Remove
  <2>2. DocumentInv'
    BY <2>1, QuietKeeps DEF DocumentInv
  <2> QED  BY <2>1, <2>2 DEF LeaseRow!ExpandedUntouched, LeaseRow!RewriteKeepsLease
<1>4. ASSUME NEW p \in Builds, LeaseRow!Load(p)
      PROVE  DocumentInv' /\ row' = row
  <2>1. PICK lease \in LeaseRow!Lease(row) : held' = [held EXCEPT ![p] = [lease |-> lease, version |-> row.version]]
    BY <1>4 DEF LeaseRow!Load
  <2>2. UNCHANGED <<row, writes, last, pending>>
    BY <1>4 DEF LeaseRow!Load
  <2>3. row # None /\ lease \in Leases
    BY <2>1, LeasesTyped DEF LeaseRow!Lease
  <2> DEFINE new == [lease |-> lease, version |-> row.version]
  <2>4. new = [lease |-> new.lease, version |-> new.version] /\ new.lease = lease /\ new.version = row.version
    OBVIOUS
  <2> HIDE DEF new
  <2>5. DOMAIN held' = Builds /\ \A q \in Builds : held'[q] = IF q = p THEN new ELSE held[q]
    BY <2>1 DEF DocumentInv, new
  <2>6. Writable' = Writable
    BY <2>2 DEF Writable
  <2>7. \A q \in Builds : held'[q] # None =>
       /\ held'[q] = [lease |-> held'[q].lease, version |-> held'[q].version]
       /\ held'[q].lease \in Leases /\ held'[q].version \in 0..writes
    BY <2>3, <2>4, <2>5 DEF DocumentInv
  <2> QED  BY <2>2, <2>5, <2>6, <2>7 DEF DocumentInv
<1>5. ASSUME NEW p \in Builds, LeaseRow!Reconstruct(p)
      PROVE  DocumentInv' /\ row' = row
  <2> DEFINE known == [held[p].lease EXCEPT !.readerOnly = FALSE, !.binding = {}]
             new == [held[p] EXCEPT !.lease = known]
  <2>1. /\ held[p] # None /\ held' = [held EXCEPT ![p].lease = known]
        /\ UNCHANGED <<row, writes, last, pending>>
    BY <1>5 DEF LeaseRow!Reconstruct
  <2>2. /\ held[p] = [lease |-> held[p].lease, version |-> held[p].version]
        /\ held[p].lease \in Leases /\ held[p].version \in 0..writes
    BY <2>1 DEF DocumentInv
  <2>3. known \in Leases
    BY <2>2 DEF Leases
  <2> HIDE DEF known
  <2>4. /\ new = [lease |-> new.lease, version |-> new.version]
        /\ new.lease = known /\ new.version = held[p].version
    BY <2>2
  <2>5. DOMAIN held' = Builds /\ \A q \in Builds : held'[q] = IF q = p THEN new ELSE held[q]
    BY <2>1 DEF DocumentInv
  <2> HIDE DEF new
  <2>6. Writable' = Writable
    BY <2>1 DEF Writable
  <2>7. \A q \in Builds : held'[q] # None =>
       /\ held'[q] = [lease |-> held'[q].lease, version |-> held'[q].version]
       /\ held'[q].lease \in Leases /\ held'[q].version \in 0..writes
    BY <2>2, <2>3, <2>4, <2>5 DEF DocumentInv
  <2> QED  BY <2>1, <2>5, <2>6, <2>7 DEF DocumentInv
<1>6. ASSUME NEW p \in Builds, LeaseRow!Create(p)
      PROVE  /\ DocumentInv'
             /\ LeaseRow!ExpandedUntouched
             /\ LeaseRow!RewriteKeepsLease
  <2>1. /\ row = None /\ LeaseRow!Write("this", LeaseRow!DocumentFrom(LeaseRow!Staged), LeaseRow!Staged)
        /\ UNCHANGED <<held, pending>>
    BY <1>6 DEF LeaseRow!Create
  <2>2. LeaseRow!Staged \in Written
    BY DEF LeaseRow!Staged, Written, Leases, LeaseRow!WellFormed
  <2>3. DocumentInv'
    BY <2>1, WriteKeeps DEF DocumentInv
  <2>4. /\ row' = [doc |-> LeaseRow!DocumentFrom(LeaseRow!Staged), version |-> writes + 1]
        /\ last' = [by |-> "this", lease |-> {LeaseRow!Staged}]
    BY <2>1 DEF LeaseRow!Write
  <2>5. row'.doc = LeaseRow!DocumentFrom(LeaseRow!Staged) /\ last'.lease = {LeaseRow!Staged}
    BY <2>4
  <2>6. row' # None => LeaseRow!Lease(row') = last'.lease
    BY <2>2, <2>5, RoundTrip DEF LeaseRow!Lease
  <2> QED  BY <2>1, <2>3, <2>6 DEF LeaseRow!ExpandedUntouched, LeaseRow!RewriteKeepsLease
<1>7. ASSUME NEW p \in Builds, LeaseRow!Check(p)
      PROVE  DocumentInv' /\ row' = row
  <2>1. held[p] # None /\ UNCHANGED <<row, writes, last>>
    BY <1>7 DEF LeaseRow!Check
  <2>2. PICK next \in LeaseRow!Successors(held[p].lease) \cup {None} :
       IF /\ ~held[p].lease.readerOnly /\ held[p].lease.binding = {}
          /\ LeaseRow!WriterMay(held[p].version)
       THEN pending' = [pending EXCEPT ![p] = [next |-> {next} \ {None}, version |-> held[p].version]] /\ UNCHANGED held
       ELSE held' = [held EXCEPT ![p] = None] /\ UNCHANGED pending
    BY <1>7 DEF LeaseRow!Check
  <2>3. CASE /\ ~held[p].lease.readerOnly /\ held[p].lease.binding = {}
             /\ LeaseRow!WriterMay(held[p].version)
    <3> DEFINE new == [next |-> {next} \ {None}, version |-> held[p].version]
    <3>1. held[p].lease \in Leases /\ held[p].version \in 0..writes
      BY <2>1 DEF DocumentInv
    <3>2. LeaseRow!Successors(held[p].lease) \subseteq Written
      BY <2>3, <3>1, SuccessorsWritten
    <3>3. new.next \subseteq Written /\ new.version = held[p].version
      BY <3>2
    <3>4. Writable /\ Writable' = Writable
      BY <2>1, <2>3 DEF LeaseRow!WriterMay, Writable
    <3>5. held' = held /\ pending' = [pending EXCEPT ![p] = new]
      BY <2>2, <2>3
    <3> HIDE DEF new
    <3>6. DOMAIN pending' = Builds /\ \A q \in Builds : pending'[q] = IF q = p THEN new ELSE pending[q]
      BY <3>5 DEF DocumentInv
    <3> QED  BY <2>1, <3>1, <3>3, <3>4, <3>5, <3>6 DEF DocumentInv
  <2>4. CASE ~(/\ ~held[p].lease.readerOnly /\ held[p].lease.binding = {}
               /\ LeaseRow!WriterMay(held[p].version))
    <3>1. held' = [held EXCEPT ![p] = None] /\ UNCHANGED pending
      BY <2>2, <2>4
    <3> QED  BY <2>1, <3>1, QuietKeeps DEF DocumentInv
  <2> QED  BY <2>1, <2>3, <2>4
<1>8. ASSUME NEW p \in Builds, LeaseRow!Commit(p)
      PROVE  /\ DocumentInv'
             /\ LeaseRow!ExpandedUntouched \/ row' = row
             /\ LeaseRow!RewriteKeepsLease \/ row' = row
  <2>1. /\ pending[p] # None
        /\ held' = [held EXCEPT ![p] = None] /\ pending' = [pending EXCEPT ![p] = None]
    BY <1>8 DEF LeaseRow!Commit
  <2>2. /\ DOMAIN held' = Builds /\ DOMAIN pending' = Builds
        /\ \A q \in Builds : held'[q] \in {held[q], None} /\ pending'[q] \in {pending[q], None}
    BY <2>1 DEF DocumentInv
  <2>3. CASE UNCHANGED <<row, writes, last>>
    BY <2>2, <2>3, QuietKeeps
  <2>4. CASE row # None /\ row.version = pending[p].version
    <3>1. Writable /\ pending[p].next \subseteq Written
      BY <2>1, <2>4 DEF DocumentInv
    <3>2. row.doc.schema # LeaseRow!Readable /\ DOMAIN row.doc.members \cap LeaseRow!BindingKeys = {}
      BY <2>4, <3>1, WritableHasNoBinding
    <3>3. LeaseRow!Lease(row) # {}
      BY <3>1 DEF Writable
    <3>4. LeaseRow!ExpandedUntouched
      BY <3>2, <3>3 DEF LeaseRow!ExpandedUntouched
    <3>5. CASE LeaseRow!Remove("this")
      <4>1. row' = None /\ writes' = writes
        BY <3>5 DEF LeaseRow!Remove
      <4>2. DocumentInv'
        BY <2>2, <4>1, QuietKeeps
      <4> QED  BY <3>4, <4>1, <4>2 DEF LeaseRow!RewriteKeepsLease
    <3>6. ASSUME NEW l \in pending[p].next, LeaseRow!Write("this", LeaseRow!DocumentFrom(l), l)
          PROVE  DocumentInv' /\ LeaseRow!RewriteKeepsLease
      <4>1. DocumentInv'
        BY <2>2, <3>6, WriteKeeps
      <4>2. /\ row' = [doc |-> LeaseRow!DocumentFrom(l), version |-> writes + 1]
            /\ last' = [by |-> "this", lease |-> {l}]
        BY <3>6 DEF LeaseRow!Write
      <4>3. row'.doc = LeaseRow!DocumentFrom(l) /\ last'.lease = {l}
        BY <4>2
      <4>4. row' # None => LeaseRow!Lease(row') = last'.lease
        BY <3>1, <3>6, <4>3, RoundTrip DEF LeaseRow!Lease
      <4> QED  BY <3>2, <4>1, <4>4 DEF LeaseRow!RewriteKeepsLease
    <3> QED  BY <1>8, <2>4, <3>4, <3>5, <3>6 DEF LeaseRow!Commit
  <2> QED  BY <1>8, <2>3, <2>4 DEF LeaseRow!Commit
<1> QED  BY <1>1, <1>2, <1>3, <1>4, <1>5, <1>6, <1>7, <1>8 DEF LeaseRow!Next

\* This build neither touches a row of a later schema, nor one it cannot read, nor
\* loses what it rewrites, whatever its callers remember of the row.
THEOREM RowsSurvive == PlatformSpec => RowsSurviveUpgrade
<1> DEFINE Kept == part = "document" => DocumentInv
           Survives == part = "document" => LeaseRow!ExpandedUntouched /\ LeaseRow!RewriteKeepsLease
<1>1. PlatformInit => Kept
  BY DocumentStarts DEF PlatformInit
<1>2. Kept /\ [PlatformNext]_platformVars => Kept'
  <2> SUFFICES ASSUME Kept, [PlatformNext]_platformVars, part' = "document" PROVE DocumentInv'
    OBVIOUS
  <2>1. part = "document"
    BY DEF PlatformNext, platformVars
  <2> QED  BY <2>1, DocumentRuns, DocumentStep
<1>3. Kept /\ [PlatformNext]_platformVars => [Survives]_<<row, last>>
  <2> SUFFICES ASSUME Kept, [PlatformNext]_platformVars, part = "document"
               PROVE  LeaseRow!ExpandedUntouched /\ LeaseRow!RewriteKeepsLease
    OBVIOUS
  <2>1. CASE row' = row
    BY <2>1 DEF LeaseRow!ExpandedUntouched, LeaseRow!RewriteKeepsLease
  <2>2. CASE row' # row
    BY <2>2, DocumentRuns, DocumentStep
  <2> QED  BY <2>1, <2>2
<1> QED  BY <1>1, <1>2, <1>3, PTL DEF PlatformSpec, RowsSurviveUpgrade

-----------------------------------------------------------------------------
(***************************************************************************)
(* The update publisher.  Nothing signs a list that the session did not    *)
(* have to begin with, and a path that holds something is never written.   *)
(***************************************************************************)

\* A document whose revocation list, if it is or brings one, is of the session.
Known(session_, d) ==
  /\ "kind" \in DOMAIN d
  /\ d.kind \in {"revocation", "head", "manifest"} => "body" \in DOMAIN d
  /\ d.kind = "head" => d.body.floor \in Nat
  /\ d.kind = "revocation" => d.body \in ListsIn(session_.files)
  /\ d.kind = "manifest" /\ d.body.rev.kind = "revocation" => d.body.rev.body \in ListsIn(session_.files)

IsSequence(s) == s \in Seq({s[i] : i \in DOMAIN s})
Published(made) == {[regular |-> TRUE, owned |-> TRUE, doc |-> d] : d \in made}

\* What a verifier that accepted found out.
Covered(session_, got) ==
  \E rev \in ListsIn(session_.files) :
    /\ rev.url = got[3].body.url /\ got[3].body.floor \in Nat /\ rev.version >= got[3].body.floor
    /\ got[1].body.cert.body.id \notin rev.ids

\* A command's progress r.
SlotHolds(session_, s, r) ==
  /\ r = [at |-> r.at, got |-> r.got, made |-> r.made, temp |-> r.temp, said |-> r.said]
  /\ IsSequence(r.got) /\ \A i \in DOMAIN r.got : Known(session_, r.got[i])
  /\ \A d \in r.made : Known(session_, d)
  /\ r.at = "read" => Len(r.got) < Len(Trust!Reads(command[s].op))
  /\ r.at = "work" => Len(r.got) = Len(Trust!Reads(command[s].op))
  /\ r.at \in {"stage", "staging", "link", "linked"} => r.made # {} /\ command[s].op # "verify"
  /\ r.at = "linked" \/ r.said = "published" => file[command[s].output] = Published(r.made) /\ r.made # {}
  /\ r.said \in {"published", "accepted"} => r.at = "done"
  /\ r.said = "accepted" => Covered(session_, r.got)

SessionHolds(session_) ==
  /\ command = session_.commands
  /\ DOMAIN file = DOMAIN session_.files /\ DOMAIN run = Slots
  /\ \A path \in DOMAIN file : \A f \in file[path] : Known(session_, f.doc)
  /\ \A s \in Slots : SlotHolds(session_, s, run[s])

TrustInv == \E session_ \in TrustSessions : SessionHolds(session_)

LEMMA SequenceGrows ==
  ASSUME NEW s, IsSequence(s), NEW e
  PROVE  /\ Len(s) \in Nat /\ DOMAIN s = 1..Len(s)
         /\ IsSequence(Append(s, e)) /\ Len(Append(s, e)) = Len(s) + 1
         /\ DOMAIN Append(s, e) = 1..(Len(s) + 1)
         /\ \A i \in 1..Len(s) : Append(s, e)[i] = s[i]
         /\ Append(s, e)[Len(s) + 1] = e
<1> DEFINE T == {s[i] : i \in DOMAIN s} \cup {e}
           t == Append(s, e)
<1>1. s \in Seq(T) /\ e \in T
  BY DEF IsSequence
<1> HIDE DEF T
<1>2. /\ Len(s) \in Nat /\ DOMAIN s = 1..Len(s)
      /\ t \in Seq(T) /\ Len(t) = Len(s) + 1 /\ t \in [1..Len(t) -> T] /\ DOMAIN t = 1..Len(t)
      /\ \A i \in 1..Len(s) : t[i] = s[i]
      /\ t[Len(s) + 1] = e
  <2>1. Len(s) \in Nat /\ DOMAIN s = 1..Len(s)
    BY <1>1, LenProperties
  <2>2. /\ t \in Seq(T) /\ Len(t) = Len(s) + 1
        /\ \A i \in 1..Len(s) : t[i] = s[i]
        /\ t[Len(s) + 1] = e
    BY <1>1, AppendProperties
  <2> HIDE DEF t
  <2>3. t \in [1..Len(t) -> T] /\ DOMAIN t = 1..Len(t)
    BY <2>2, LenProperties
  <2> QED  BY <2>1, <2>2, <2>3
<1> HIDE DEF t
<1>3. IsSequence(t)
  <2>1. t \in [1..Len(t) -> {t[i] : i \in DOMAIN t}]
    BY <1>2
  <2>2. Len(t) \in Nat
    BY <1>2
  <2> QED  BY <2>1, <2>2, SeqDef DEF IsSequence
<1> QED  BY <1>2, <1>3 DEF t

\* What the tool makes of known documents brings no other list.
LEMMA StaysKnown ==
  ASSUME NEW session_ \in TrustSessions, NEW d, Known(session_, d)
  PROVE  /\ Known(session_, Trust!Canonical(d))
         /\ \A key : Known(session_, Trust!Signed(d, key))
<1>1. ASSUME NEW c, DOMAIN c = DOMAIN d, c.kind = d.kind, "body" \in DOMAIN d => c.body = d.body
      PROVE  Known(session_, c)
  BY <1>1 DEF Known
<1>2. /\ DOMAIN Trust!Canonical(d) = DOMAIN d /\ Trust!Canonical(d).kind = d.kind
      /\ "body" \in DOMAIN d => Trust!Canonical(d).body = d.body
  BY DEF Trust!Canonical, Known
<1>3. ASSUME NEW key
      PROVE  /\ DOMAIN Trust!Signed(d, key) = DOMAIN d /\ Trust!Signed(d, key).kind = d.kind
             /\ "body" \in DOMAIN d => Trust!Signed(d, key).body = d.body
  BY <1>2 DEF Trust!Signed, Known
<1> QED  BY <1>1, <1>2, <1>3

LEMMA AssembledKnown ==
  ASSUME NEW session_ \in TrustSessions, NEW facts, NEW cert, NEW rev, NEW head, NEW root, NEW leaf, NEW at,
         Known(session_, rev), NEW d \in Trust!Assembled(facts, cert, rev, head, root, leaf, at)
  PROVE  Known(session_, d)
<1> DEFINE manifest == Trust!Manifest(facts, cert, rev)
<1>1. d = Trust!Signed(manifest, leaf)
  BY DEF Trust!Assembled
<1>2. /\ DOMAIN manifest = {"kind", "flaws", "spelling", "sig", "body"} /\ manifest.kind = "manifest"
      /\ manifest.body.rev = Trust!Canonical(rev)
  BY DEF Trust!Manifest
<1>3. Known(session_, Trust!Canonical(rev))
  BY StaysKnown
<1> HIDE DEF manifest
<1>4. Known(session_, manifest)
  BY <1>2, <1>3 DEF Known
<1> QED  BY <1>1, <1>4, StaysKnown

LEMMA TrustStarts ==
  ASSUME Trust!Init
  PROVE  TrustInv
<1>1. PICK session_ \in TrustSessions :
        file = session_.files /\ command = session_.commands /\ run = [s \in Slots |-> Trust!Fresh]
  BY DEF Trust!Init
<1>2. \A path \in DOMAIN file : \A f \in file[path] : Known(session_, f.doc)
  <2> SUFFICES ASSUME NEW path \in DOMAIN file, NEW f \in file[path] PROVE Known(session_, f.doc)
    OBVIOUS
  <2>1. f.doc \in Filed(session_.files)
    BY <1>1 DEF Filed
  <2>2. /\ f.doc.kind = "revocation" => f.doc.body \in ListsIn(session_.files)
        /\ f.doc.kind = "manifest" /\ f.doc.body.rev.kind = "revocation" => f.doc.body.rev.body \in ListsIn(session_.files)
    BY <2>1 DEF ListsIn
  <2> QED  BY <2>1, <2>2, SessionsAreWhole DEF Known
<1>3. /\ Trust!Fresh.at = "read" /\ Trust!Fresh.got = <<>> /\ Trust!Fresh.made = {} /\ Trust!Fresh.said = "nothing"
      /\ Trust!Fresh = [at |-> Trust!Fresh.at, got |-> Trust!Fresh.got, made |-> Trust!Fresh.made,
                        temp |-> Trust!Fresh.temp, said |-> Trust!Fresh.said]
  BY DEF Trust!Fresh
<1>4. IsSequence(<<>>) /\ Len(<<>>) = 0 /\ DOMAIN <<>> = {}
  BY DEF IsSequence
<1>5. ASSUME NEW s \in Slots PROVE 0 < Len(Trust!Reads(command[s].op))
  <2>1. command[s].op \in {"canonicalize", "issue", "verify", "assemble"}
    BY <1>1, SessionsAreWhole
  <2> QED  BY <2>1 DEF Trust!Reads
<1>6. ASSUME NEW s \in Slots PROVE SlotHolds(session_, s, run[s])
  <2>1. run[s] = Trust!Fresh
    BY <1>1
  <2> QED  BY <2>1, <1>3, <1>4, <1>5 DEF SlotHolds
<1> QED  BY <1>1, <1>2, <1>6 DEF TrustInv, SessionHolds

\* A step of one command that writes no file.
LEMMA SlotKeeps ==
  ASSUME NEW session_ \in TrustSessions, SessionHolds(session_), NEW s \in Slots, NEW r,
         run' = [run EXCEPT ![s] = r], UNCHANGED <<file, command>>, SlotHolds(session_, s, r)
  PROVE  TrustInv'
<1>1. \A q \in Slots : run'[q] = IF q = s THEN r ELSE run[q]
  BY DEF SessionHolds
<1>2. \A q \in Slots : SlotHolds(session_, q, run[q])'
  BY <1>1 DEF SessionHolds, SlotHolds
<1>3. SessionHolds(session_)'
  BY <1>2 DEF SessionHolds
<1> QED  BY <1>3 DEF TrustInv

LEMMA EndsKeep ==
  ASSUME NEW session_ \in TrustSessions, SessionHolds(session_), NEW s \in Slots, NEW said_,
         Trust!Ends(s, said_), UNCHANGED <<file, command>>, run[s].said # "published", run[s].said # "accepted",
         \/ said_ = "failed"
         \/ said_ = "published" /\ run[s].at = "linked"
         \/ said_ = "accepted" /\ Covered(session_, run[s].got)
  PROVE  TrustInv'
<1>1. PICK r : r = [run[s] EXCEPT !.at = "done", !.said = said_, !.temp = "none"]
  OBVIOUS
<1>2. run' = [run EXCEPT ![s] = r]
  BY <1>1 DEF Trust!Ends
<1>3. SlotHolds(session_, s, run[s])
  BY DEF SessionHolds
<1>4. /\ r = [at |-> r.at, got |-> r.got, made |-> r.made, temp |-> r.temp, said |-> r.said]
      /\ r.at = "done" /\ r.got = run[s].got /\ r.made = run[s].made /\ r.said = said_
  BY <1>1, <1>3 DEF SlotHolds
<1>5. SlotHolds(session_, s, r)
  BY <1>3, <1>4 DEF SlotHolds
<1> QED  BY <1>2, <1>5, SlotKeeps

LEMMA GoesKeep ==
  ASSUME NEW session_ \in TrustSessions, SessionHolds(session_), NEW s \in Slots, NEW r, NEW at,
         r = [run[s] EXCEPT !.at = at] \/ (\E temp : r = [run[s] EXCEPT !.at = at, !.temp = temp]),
         run' = [run EXCEPT ![s] = r], UNCHANGED <<file, command>>,
         run[s].said # "published", run[s].said # "accepted",
         (at \in {"stage", "staging", "link"} /\ run[s].at \in {"stage", "staging", "link"}) \/ at = "killed"
  PROVE  TrustInv'
<1>1. SlotHolds(session_, s, run[s])
  BY DEF SessionHolds
<1>2. run[s] = [at |-> run[s].at, got |-> run[s].got, made |-> run[s].made, temp |-> run[s].temp, said |-> run[s].said]
  BY <1>1 DEF SlotHolds
<1>3. /\ r = [at |-> r.at, got |-> r.got, made |-> r.made, temp |-> r.temp, said |-> r.said]
      /\ r.at = at /\ r.got = run[s].got /\ r.made = run[s].made /\ r.said = run[s].said
  <2>1. CASE r = [run[s] EXCEPT !.at = at]
    BY <1>2, <2>1
  <2>2. ASSUME NEW temp, r = [run[s] EXCEPT !.at = at, !.temp = temp]
        PROVE  /\ r = [at |-> r.at, got |-> r.got, made |-> r.made, temp |-> r.temp, said |-> r.said]
               /\ r.at = at /\ r.got = run[s].got /\ r.made = run[s].made /\ r.said = run[s].said
    BY <1>2, <2>2
  <2> QED  BY <2>1, <2>2
<1>4. SlotHolds(session_, s, r)
  BY <1>1, <1>3 DEF SlotHolds
<1> QED  BY <1>4, SlotKeeps

\* A command that is not over has said nothing that counts.
LEMMA StillSilent ==
  ASSUME NEW session_ \in TrustSessions, SessionHolds(session_), NEW s \in Slots, run[s].at # "done"
  PROVE  run[s].said # "published" /\ run[s].said # "accepted"
BY DEF SessionHolds, SlotHolds

\* A document is read from a path of the session.
LEMMA ReadKeeps ==
  ASSUME NEW session_ \in TrustSessions, SessionHolds(session_), NEW s \in Slots, Trust!Read(s)
  PROVE  TrustInv'
<1> DEFINE roles == Trust!Reads(command[s].op)
           n == Len(run[s].got)
           role == roles[n + 1]
           path == command[s][role]
           doc == (CHOOSE f \in file[path] : TRUE).doc
           goes == IF n + 1 = Len(roles) THEN "work" ELSE "read"
<1>1. run[s].at = "read" /\ UNCHANGED <<file, command>>
  BY DEF Trust!Read
<1>2. run[s].said # "published" /\ run[s].said # "accepted"
  BY <1>1, StillSilent
<1>3. CASE Trust!Ends(s, "failed")
  BY <1>1, <1>2, <1>3, EndsKeep
<1>4. CASE /\ Trust!Readable(path, role)
           /\ run' = [run EXCEPT ![s] = [run[s] EXCEPT !.got = Append(run[s].got, doc), !.at = goes]]
  <2>1. SlotHolds(session_, s, run[s])
    BY DEF SessionHolds
  <2>2. n \in Nat /\ n < Len(roles) /\ Len(roles) \in Nat
    <3>1. command[s].op \in {"canonicalize", "issue", "verify", "assemble"}
      BY SessionsAreWhole DEF SessionHolds
    <3>2. Len(roles) \in Nat
      BY <3>1 DEF Trust!Reads
    <3> QED  BY <1>1, <2>1, <3>2, SequenceGrows DEF SlotHolds
  <2>3. path \in DOMAIN file
    BY <2>2, SessionsAreWhole DEF SessionHolds
  <2>4. Known(session_, doc)
    <3>1. \E f \in file[path] : TRUE
      BY <1>4 DEF Trust!Readable
    <3> QED  BY <2>3, <3>1 DEF SessionHolds
  <2> HIDE DEF roles, role, path, doc
  <2>5. PICK r : r = [run[s] EXCEPT !.got = Append(run[s].got, doc), !.at = goes]
    OBVIOUS
  <2>6. run[s] = [at |-> run[s].at, got |-> run[s].got, made |-> run[s].made, temp |-> run[s].temp, said |-> run[s].said]
    BY <2>1 DEF SlotHolds
  <2>7. /\ r = [at |-> r.at, got |-> r.got, made |-> r.made, temp |-> r.temp, said |-> r.said]
        /\ r.at = goes /\ r.got = Append(run[s].got, doc) /\ r.made = run[s].made /\ r.said = run[s].said
    BY <2>5, <2>6
  <2>8. IsSequence(r.got) /\ Len(r.got) = n + 1 /\ \A i \in DOMAIN r.got : Known(session_, r.got[i])
    BY <2>1, <2>4, <2>7, SequenceGrows DEF SlotHolds
  <2>9. /\ r.at = "read" => Len(r.got) < Len(roles)
        /\ r.at = "work" => Len(r.got) = Len(roles)
    BY <2>2, <2>7, <2>8
  <2>10. r.said # "published" /\ r.said # "accepted" /\ r.at \in {"read", "work"} /\ \A d \in r.made : Known(session_, d)
    BY <1>2, <2>1, <2>7 DEF SlotHolds
  <2>11. SlotHolds(session_, s, r)
    BY <2>7, <2>8, <2>9, <2>10 DEF SlotHolds, roles
  <2> QED  BY <1>1, <1>4, <2>5, <2>11, SlotKeeps
<1> QED  BY <1>3, <1>4 DEF Trust!Read

\* A verifier that accepts was shown a list at least as new as its head demands.
LEMMA AcceptedIsCovered ==
  ASSUME NEW session_ \in TrustSessions, NEW got, Known(session_, got[1]), Known(session_, got[3]),
         NEW root, NEW at, Trust!VerifyBundle(got[1], got[3], root, at)
  PROVE  Covered(session_, got)
<1> DEFINE bundle == got[1]
           head == got[3]
           rev == bundle.body.rev
           cert == bundle.body.cert
<1>1. bundle.kind = "manifest" /\ Trust!ChainHolds(cert, rev, head, root, at)
  BY DEF Trust!VerifyBundle
<1> HIDE DEF rev, cert
<1>2. Trust!Valid("revocation", rev, at)
  <2>1. <<"revocation", rev>> \in {<<"certificate", cert>>, <<"revocation", rev>>, <<"head", head>>}
    OBVIOUS
  <2>2. \A part_ \in {<<"certificate", cert>>, <<"revocation", rev>>, <<"head", head>>} : Trust!Valid(part_[1], part_[2], at)
    BY <1>1 DEF Trust!ChainHolds
  <2>3. Trust!Valid(<<"revocation", rev>>[1], <<"revocation", rev>>[2], at)
    BY <2>1, <2>2
  <2> QED  BY <2>3
<1>3. Trust!Valid("head", head, at)
  <2>1. <<"head", head>> \in {<<"certificate", cert>>, <<"revocation", rev>>, <<"head", head>>}
    OBVIOUS
  <2>2. \A part_ \in {<<"certificate", cert>>, <<"revocation", rev>>, <<"head", head>>} : Trust!Valid(part_[1], part_[2], at)
    BY <1>1 DEF Trust!ChainHolds
  <2>3. Trust!Valid(<<"head", head>>[1], <<"head", head>>[2], at)
    BY <2>1, <2>2
  <2> QED  BY <2>3
<1>4. rev.kind = "revocation" /\ head.kind = "head"
  BY <1>2, <1>3 DEF Trust!Valid
<1>5. rev.body \in ListsIn(session_.files) /\ head.body.floor \in Nat
  BY <1>1, <1>4 DEF Known, rev
<1>6. rev.body.url = head.body.url /\ rev.body.version >= head.body.floor /\ cert.body.id \notin rev.body.ids
  BY <1>1 DEF Trust!ChainHolds, Trust!MeetsFloor
<1> QED  BY <1>5, <1>6 DEF Covered, cert

\* What a command makes is of what it read.
LEMMA ResultKnown ==
  ASSUME NEW session_ \in TrustSessions, NEW c, NEW got,
         c.op \in {"canonicalize", "issue", "assemble"},
         \A i \in 1..Len(Trust!Reads(c.op)) : Known(session_, got[i]),
         NEW d \in Trust!Result(c, got)
  PROVE  Known(session_, d)
<1>1. CASE c.op = "canonicalize"
  <2>1. Known(session_, got[1])
    BY <1>1 DEF Trust!Reads
  <2>2. d = Trust!Canonical(got[1])
    BY <1>1 DEF Trust!Result
  <2> QED  BY <2>1, <2>2, StaysKnown
<1>2. CASE c.op = "issue"
  <2>1. Known(session_, got[1])
    BY <1>2 DEF Trust!Reads
  <2>2. d = Trust!Signed(got[1], got[2].key)
    BY <1>2 DEF Trust!Result
  <2> QED  BY <2>1, <2>2, StaysKnown
<1>3. CASE c.op = "assemble"
  <2>1. Known(session_, got[5])
    BY <1>3 DEF Trust!Reads
  <2>2. d \in Trust!Assembled(got[1], got[4], got[5], got[3], got[2].key, got[6].key, c.observed)
    BY <1>3 DEF Trust!Result
  <2> QED  BY <2>1, <2>2, AssembledKnown
<1> QED  BY <1>1, <1>2, <1>3

LEMMA WorkKeeps ==
  ASSUME NEW session_ \in TrustSessions, SessionHolds(session_), NEW s \in Slots, Trust!Work(s)
  PROVE  TrustInv'
<1> DEFINE c == command[s]
           got == run[s].got
<1>1. run[s].at = "work" /\ UNCHANGED <<file, command>>
  BY DEF Trust!Work
<1>2. run[s].said # "published" /\ run[s].said # "accepted"
  BY <1>1, StillSilent
<1>3. SlotHolds(session_, s, run[s])
  BY DEF SessionHolds
<1>4. c.op \in {"canonicalize", "issue", "verify", "assemble"}
  BY SessionsAreWhole DEF SessionHolds
<1>5. /\ DOMAIN got = 1..Len(Trust!Reads(c.op))
      /\ \A i \in 1..Len(Trust!Reads(c.op)) : Known(session_, got[i])
  BY <1>1, <1>3, SequenceGrows DEF SlotHolds
<1>6. CASE Trust!Ends(s, "failed")
  BY <1>1, <1>2, <1>6, EndsKeep
<1>7. CASE c.op = "verify"
  <2>1. Len(Trust!Reads(c.op)) = 3
    BY <1>7 DEF Trust!Reads
  <2>2. Known(session_, got[1]) /\ Known(session_, got[3])
    BY <1>5, <2>1
  <2>3. CASE Trust!IsKey(got[2], "public") /\ Trust!VerifyBundle(got[1], got[3], got[2].key, c.observed)
    <3>1. Trust!Ends(s, "accepted")
      BY <1>7, <2>3 DEF Trust!Work
    <3>2. Covered(session_, got)
      BY <2>2, <2>3, AcceptedIsCovered
    <3> QED  BY <1>1, <1>2, <3>1, <3>2, EndsKeep
  <2>4. CASE ~(Trust!IsKey(got[2], "public") /\ Trust!VerifyBundle(got[1], got[3], got[2].key, c.observed))
    <3>1. Trust!Ends(s, "failed")
      BY <1>7, <2>4 DEF Trust!Work
    <3> QED  BY <1>6, <3>1
  <2> QED  BY <2>3, <2>4
<1>8. CASE c.op # "verify" /\ Trust!Result(c, got) # {}
  <2>1. run' = [run EXCEPT ![s] = [run[s] EXCEPT !.at = "stage", !.made = Trust!Result(c, got)]]
    BY <1>8 DEF Trust!Work
  <2>2. \A d \in Trust!Result(c, got) : Known(session_, d)
    BY <1>4, <1>5, <1>8, ResultKnown
  <2>3. PICK r : r = [run[s] EXCEPT !.at = "stage", !.made = Trust!Result(c, got)]
    OBVIOUS
  <2>4. run[s] = [at |-> run[s].at, got |-> run[s].got, made |-> run[s].made, temp |-> run[s].temp, said |-> run[s].said]
    BY <1>3 DEF SlotHolds
  <2>5. /\ r = [at |-> r.at, got |-> r.got, made |-> r.made, temp |-> r.temp, said |-> r.said]
        /\ r.at = "stage" /\ r.got = got /\ r.made = Trust!Result(c, got) /\ r.said = run[s].said
    BY <2>3, <2>4
  <2>6. SlotHolds(session_, s, r)
    BY <1>2, <1>3, <1>8, <2>2, <2>5 DEF SlotHolds
  <2> QED  BY <1>1, <2>1, <2>3, <2>6, SlotKeeps
<1> QED  BY <1>6, <1>7, <1>8 DEF Trust!Work

\* A link makes a path that held nothing hold what was made; every other path, and
\* so what others published, stays.
LEMMA LinkKeeps ==
  ASSUME NEW session_ \in TrustSessions, SessionHolds(session_), NEW s \in Slots, Trust!Link(s)
  PROVE  TrustInv'
<1> DEFINE path == command[s].output
<1>1. run[s].at = "link" /\ command' = command
  BY DEF Trust!Link
<1>2. run[s].said # "published" /\ run[s].said # "accepted"
  BY <1>1, StillSilent
<1>3. SlotHolds(session_, s, run[s])
  BY DEF SessionHolds
<1>4. CASE Trust!Ends(s, "failed") /\ UNCHANGED file
  BY <1>1, <1>2, <1>4, EndsKeep
<1>5. CASE /\ Trust!MayLink(path)
           /\ file' = [file EXCEPT ![path] = Published(run[s].made)]
           /\ Trust!Goes(s, "linked")
  <2>1. run[s].made # {} /\ command[s].op # "verify"
    BY <1>1, <1>3 DEF SlotHolds
  <2>2. path \in DOMAIN file
    BY <2>1, SessionsAreWhole DEF SessionHolds
  <2>3. PICK r : r = [run[s] EXCEPT !.at = "linked"]
    OBVIOUS
  <2>4. run[s] = [at |-> run[s].at, got |-> run[s].got, made |-> run[s].made, temp |-> run[s].temp, said |-> run[s].said]
    BY <1>3 DEF SlotHolds
  <2>5. /\ r = [at |-> r.at, got |-> r.got, made |-> r.made, temp |-> r.temp, said |-> r.said]
        /\ r.at = "linked" /\ r.got = run[s].got /\ r.made = run[s].made /\ r.said = run[s].said
    BY <2>3, <2>4
  <2>6. \A q \in Slots : run'[q] = IF q = s THEN r ELSE run[q]
    BY <1>5, <2>3 DEF Trust!Goes, SessionHolds
  <2>7. file[path] = {} /\ \A p \in DOMAIN file : file'[p] = IF p = path THEN Published(run[s].made) ELSE file[p]
    BY <1>5 DEF Trust!MayLink
  <2>8. \A p \in DOMAIN file' : \A f \in file'[p] : Known(session_, f.doc)
    <3>1. \A f \in Published(run[s].made) : Known(session_, f.doc)
      BY <1>3 DEF Published, SlotHolds
    <3> QED  BY <1>5, <2>7, <3>1 DEF SessionHolds
  <2>9. ASSUME NEW q \in Slots PROVE SlotHolds(session_, q, run[q])'
    <3>1. CASE q = s
      <4>1. file'[path] = Published(r.made) /\ run'[q] = r
        BY <2>2, <2>5, <2>6, <2>7, <3>1
      <4> QED  BY <1>1, <1>2, <1>3, <2>1, <2>5, <3>1, <4>1 DEF SlotHolds
    <3>2. CASE q # s
      <4>1. SlotHolds(session_, q, run[q]) /\ run'[q] = run[q]
        BY <2>6, <3>2 DEF SessionHolds
      <4>2. run[q].at = "linked" \/ run[q].said = "published" => file'[command[q].output] = file[command[q].output]
        <5> SUFFICES ASSUME run[q].at = "linked" \/ run[q].said = "published"
                     PROVE  file'[command[q].output] = file[command[q].output]
          OBVIOUS
        <5>1. file[command[q].output] = Published(run[q].made) /\ run[q].made # {}
          BY <4>1 DEF SlotHolds
        <5>2. file[command[q].output] # {}
          BY <5>1 DEF Published
        <5>3. command[q].output # path
          BY <2>7, <5>2
        <5> QED  BY <1>5, <5>3
      <4> QED  BY <1>1, <4>1, <4>2 DEF SlotHolds
    <3> QED  BY <3>1, <3>2
  <2>10. DOMAIN file' = DOMAIN file /\ DOMAIN run' = DOMAIN run
    BY <1>5 DEF Trust!Goes
  <2>11. SessionHolds(session_)'
    BY <1>1, <2>8, <2>9, <2>10 DEF SessionHolds
  <2> QED  BY <2>11 DEF TrustInv
<1> QED  BY <1>4, <1>5 DEF Trust!Link, Published

LEMMA TrustStep ==
  ASSUME TrustInv, [Trust!Next]_(Trust!vars)
  PROVE  TrustInv'
<1>0. PICK session_ \in TrustSessions : SessionHolds(session_)
  BY DEF TrustInv
<1>1. CASE UNCHANGED Trust!vars
  BY <1>0, <1>1 DEF Trust!vars, TrustInv, SessionHolds, SlotHolds
<1>2. ASSUME NEW s \in Slots,
             Trust!Stage(s) \/ Trust!Staged(s) \/ Trust!Exit(s) \/ Trust!Killed(s)
      PROVE  TrustInv'
  <2>1. UNCHANGED <<file, command>> /\ run[s].at # "done"
    BY <1>2 DEF Trust!Stage, Trust!Staged, Trust!Exit, Trust!Killed
  <2>2. run[s].said # "published" /\ run[s].said # "accepted"
    BY <1>0, <2>1, StillSilent
  <2>3. CASE Trust!Ends(s, "failed")
    BY <1>0, <2>1, <2>2, <2>3, EndsKeep
  <2>4. CASE Trust!Exit(s)
    BY <1>0, <2>1, <2>2, <2>4, EndsKeep DEF Trust!Exit
  <2>5. CASE Trust!Stage(s) /\ ~Trust!Ends(s, "failed")
    <3>1. run[s].at = "stage" /\ run' = [run EXCEPT ![s] = [run[s] EXCEPT !.at = "staging", !.temp = "partial"]]
      BY <2>5 DEF Trust!Stage
    <3> QED  BY <1>0, <2>1, <2>2, <3>1, GoesKeep
  <2>6. CASE Trust!Staged(s) /\ ~Trust!Ends(s, "failed")
    <3>1. run[s].at = "staging" /\ run' = [run EXCEPT ![s] = [run[s] EXCEPT !.at = "link", !.temp = "whole"]]
      BY <2>6 DEF Trust!Staged
    <3> QED  BY <1>0, <2>1, <2>2, <3>1, GoesKeep
  <2>7. CASE Trust!Killed(s)
    <3>1. run' = [run EXCEPT ![s] = [run[s] EXCEPT !.at = "killed"]]
      BY <2>7 DEF Trust!Killed, Trust!Goes
    <3> QED  BY <1>0, <2>1, <2>2, <3>1, GoesKeep
  <2> QED  BY <1>2, <2>3, <2>4, <2>5, <2>6, <2>7
<1> QED  BY <1>0, <1>1, <1>2, ReadKeeps, WorkKeeps, LinkKeeps DEF Trust!Next

\* A revoked leaf signs nothing that is accepted, and what was published stays,
\* whatever other commands do side by side and whenever one is killed.
THEOREM TrustStands == PlatformSpec => []TrustHolds
<1> DEFINE Kept == part = "trust" => TrustInv
<1>1. PlatformInit => Kept
  BY TrustStarts DEF PlatformInit
<1>2. Kept /\ [PlatformNext]_platformVars => Kept'
  <2> SUFFICES ASSUME Kept, [PlatformNext]_platformVars, part' = "trust" PROVE TrustInv'
    OBVIOUS
  <2>1. part = "trust"
    BY DEF PlatformNext, platformVars
  <2> QED  BY <2>1, TrustRuns, TrustStep
<1>3. Kept => TrustHolds
  <2> SUFFICES ASSUME TrustInv PROVE Trust!RevokedStaysOut /\ Trust!OutputStands
    BY DEF TrustHolds
  <2>1. PICK session_ \in TrustSessions : SessionHolds(session_)
    BY DEF TrustInv
  <2>2. ASSUME NEW s \in Slots, run[s].said = "accepted",
               NEW list_ \in Trust!Lists(run[s].got[3].body.url),
               list_.body.version <= run[s].got[3].body.floor
        PROVE  run[s].got[1].body.cert.body.id \notin list_.body.ids
    <3>1. PICK rev \in ListsIn(session_.files) :
            /\ rev.url = run[s].got[3].body.url /\ run[s].got[3].body.floor \in Nat
            /\ rev.version >= run[s].got[3].body.floor
            /\ run[s].got[1].body.cert.body.id \notin rev.ids
      BY <2>1, <2>2 DEF SessionHolds, SlotHolds, Covered
    <3>2. list_.kind = "revocation" /\ list_.body.url = rev.url
          /\ \E p \in DOMAIN file : \E f \in file[p] : list_ = f.doc
      BY <3>1 DEF Trust!Lists
    <3>3. list_.body \in ListsIn(session_.files)
      BY <2>1, <3>2 DEF SessionHolds, Known
    <3>4. list_.body.version <= rev.version
      BY <2>2, <3>1, <3>3, ListsAreCumulative
    <3> QED  BY <3>1, <3>2, <3>3, <3>4, ListsAreCumulative
  <2>3. Trust!RevokedStaysOut
    BY <2>2 DEF Trust!RevokedStaysOut
  <2>4. Trust!OutputStands
    BY <2>1 DEF Trust!OutputStands, SessionHolds, SlotHolds, Published
  <2> QED  BY <2>3, <2>4
<1> QED  BY <1>1, <1>2, <1>3, PTL DEF PlatformSpec

-----------------------------------------------------------------------------
(***************************************************************************)
(* Sign-ins.  An answer is of a binding that was read, and a binding is    *)
(* written once.  Two sign-ins that hold the gate of an identity on one     *)
(* replica are one: each counts in the entry the map has for its key, an   *)
(* entry is taken out with the last that counts in it, and its token is    *)
(* with at most one of them.  A call that is adrift is of an identity that *)
(* was verified, so whenever it is performed it leaves an account its      *)
(* identity's, and a binding that is there as it is.                       *)
(***************************************************************************)

Before == {"new", "lookup", "enter"}
Working == {"relookup", "authenticate", "reconcile", "verify", "wait", "bind", "write", "reread"}
Steps == Before \cup Working \cup {"gate", "check", "done"}
Live(r) == entry[r] # 0 /\ pc[r] # "done"
Holds(r) == entry[r] # 0 /\ pc[r] \notin {"gate", "done"}
Counted(e) == {r \in SignIns : entry[r] = e /\ pc[r] # "done"}

\* The identity of a sign-in is known once its credential is verified.
SignTypes ==
  /\ pc \in [SignIns -> Steps] /\ entry \in [SignIns -> Provision!Entries \cup {0}]
  /\ user = [r \in SignIns |-> user[r]] /\ session \in [SignIns -> Nat] /\ DOMAIN result = SignIns
  /\ entries \in [{replica[r] : r \in SignIns} \X Provision!Subjects -> Provision!Entries \cup {0}]
  /\ users \in [Provision!Entries -> Nat]
  /\ DOMAIN binding = Provision!Subjects /\ DOMAIN latest = Provision!Accounts
  /\ created \in Nat /\ created <= MaxAccounts /\ account \in [Provision!Subjects -> 0..created]
  /\ \A r \in SignIns : pc[r] \notin {"new", "done"} \/ result[r] # 0 => Provision!Verified(CredentialOf[r]) # {}

Gates ==
  /\ \A r \in SignIns : /\ pc[r] \in Before => entry[r] = 0
                        /\ pc[r] \in Working \cup {"gate"} => entry[r] # 0
                        /\ Live(r) => entries[Provision!Key(r)] = entry[r]
                        /\ Holds(r) => entry[r] \notin tokens
  /\ \A e \in Provision!Entries : users[e] = Cardinality(Counted(e))
  /\ \A r, q \in SignIns : Holds(r) /\ Holds(q) /\ entry[r] = entry[q] => r = q

\* An account is of one identity, for good, as is a session.
Owned ==
  /\ \A s, t \in Provision!Subjects : account[s] = account[t] /\ account[s] # 0 => s = t
  /\ \A r \in SignIns : pc[r] = "verify" =>
       /\ session[r] \in 1..created
       /\ \A s \in Provision!Subjects : account[s] = session[r] => s = Provision!SubjectOf(r)
  /\ Provision!EndedElsewhere

BoundTo(r, a) == LET d == binding[Provision!SubjectOf(r)] IN d # None /\ Provision!Readable(d) /\ d.user = a
Bindings ==
  /\ \A r \in SignIns : /\ pc[r] = "check" => BoundTo(r, user[r])
                        /\ pc[r] \in {"bind", "write"} => user[r] \in Provision!Accounts
                        /\ result[r] # 0 => BoundTo(r, result[r])

\* The calls a sign-in may give up the wait for.
Calling == {"authenticate", "reconcile", "write"}
CallsKnown ==
  \A c \in adrift : /\ c.by \in SignIns /\ Provision!Verified(CredentialOf[c.by]) # {}
                    /\ c.does = "write" => c.user \in Provision!Accounts
Abandons(r) == adrift' = adrift \/ (pc[r] \in Calling /\ adrift' = adrift \cup {Provision!Call(r)})

SignInv == SignTypes /\ Gates /\ Owned /\ Bindings /\ CallsKnown

LEMMA SubjectIsKnown ==
  ASSUME NEW r \in SignIns, Provision!Verified(CredentialOf[r]) # {}
  PROVE  Provision!SubjectOf(r) \in Provision!Subjects
<1>1. Provision!SubjectOf(r) \in Provision!Verified(CredentialOf[r])
  BY DEF Provision!SubjectOf
<1> QED  BY <1>1 DEF Provision!Subjects

LEMMA DocumentIsReadable ==
  ASSUME NEW a \in Provision!Accounts
  PROVE  LET d == Provision!Document(a) IN d # None /\ Provision!Readable(d) /\ d.user = a
<1> DEFINE d == Provision!Document(a)
<1>1. d.members = <<"schema", "user_id">> /\ d.schema = 1 /\ d.user = a
  BY DEF Provision!Document
<1>2. Len(d.members) = 2 /\ d.members[1] = "schema" /\ d.members[2] = "user_id"
  BY <1>1
<1>3. 1..2 = {1, 2}
  OBVIOUS
<1>4. {d.members[i] : i \in 1..2} = {"schema", "user_id"}
  BY <1>2, <1>3
<1>5. a # 0
  BY SignInsAreFinite DEF Provision!Accounts
<1>6. d # None
  BY SignInsAreFinite DEF Provision!Accounts
<1> HIDE DEF d
<1>7. Provision!Readable(d)
  BY <1>1, <1>2, <1>4, <1>5 DEF Provision!Readable
<1> QED  BY <1>1, <1>6, <1>7 DEF d

LEMMA CountedIsFinite ==
  \A e : IsFiniteSet(Counted(e)) /\ Cardinality(Counted(e)) \in Nat
<1> SUFFICES ASSUME NEW e PROVE IsFiniteSet(Counted(e)) /\ Cardinality(Counted(e)) \in Nat
  OBVIOUS
<1>1. IsFiniteSet(Counted(e))
  BY SignInsAreFinite, FS_Subset DEF Counted
<1> QED  BY <1>1, FS_CardinalityType

\* There is an entry that no sign-in ever counted in: each makes at most one.
LEMMA EntryIsLeft ==
  ASSUME SignTypes, NEW r \in SignIns, entry[r] = 0
  PROVE  \E i \in Provision!Entries : \A p \in SignIns : entry[p] # i
<1> DEFINE N == Cardinality(SignIns)
           Others == SignIns \ {r}
           Used == {entry[p] : p \in Others}
<1>1. N \in Nat /\ IsFiniteSet(Others) /\ Cardinality(Others) = N - 1
  BY SignInsAreFinite, FS_CardinalityType, FS_RemoveElement
<1>2. IsFiniteSet(Used) /\ Cardinality(Used) <= Cardinality(Others)
  <2> DEFINE f == [p \in Others |-> entry[p]]
  <2>1. f \in Surjection(Others, Used)
    BY DEF Surjection
  <2> HIDE DEF f, Others, Used
  <2> QED  BY <1>1, <2>1, FS_Surjection
<1>3. IsFiniteSet(1..N) /\ Cardinality(1..N) = N
  <2>1. 1 \in Int /\ N \in Int
    BY <1>1
  <2>2. Cardinality(1..N) = IF 1 > N THEN 0 ELSE N - 1 + 1
    BY <2>1, FS_Interval
  <2>3. IsFiniteSet(1..N)
    BY <2>1, FS_Interval
  <2> QED  BY <1>1, <2>2, <2>3
<1>4. ~(1..N \subseteq Used)
  <2> SUFFICES ASSUME 1..N \subseteq Used PROVE FALSE
    OBVIOUS
  <2>1. Cardinality(1..N) <= Cardinality(Used) /\ Cardinality(Used) \in Nat /\ Cardinality(Others) \in Nat
    BY <1>1, <1>2, FS_Subset, FS_CardinalityType
  <2> HIDE DEF Used, Others, N
  <2> QED  BY <1>1, <1>2, <1>3, <2>1
<1>5. PICK i \in 1..N : i \notin Used
  BY <1>4
<1>6. \A p \in SignIns : entry[p] # i
  BY <1>5
<1> QED  BY <1>5, <1>6 DEF Provision!Entries, Provision!Cardinality, Cardinality

LEMMA SignInsStart ==
  ASSUME Provision!Init PROVE SignInv
<1>1. SignTypes
  BY SignInsAreFinite DEF Provision!Init, SignTypes, Steps, Before
<1>2. Gates
  <2>1. \A e \in Provision!Entries : Counted(e) = {}
    BY FS_CardinalityType, SignInsAreFinite DEF Provision!Init, Counted, Provision!Entries
  <2>2. \A r \in SignIns : pc[r] = "new" /\ entry[r] = 0
    BY DEF Provision!Init
  <2>3. \A e \in Provision!Entries : users[e] = Cardinality(Counted(e))
    BY <2>1, FS_EmptySet DEF Provision!Init
  <2> QED  BY <2>2, <2>3 DEF Gates, Live, Holds, Working
<1>3. Owned /\ Bindings /\ CallsKnown
  BY DEF Provision!Init, Owned, Bindings, Provision!EndedElsewhere, CallsKnown
<1> QED  BY <1>1, <1>2, <1>3 DEF SignInv

\* A sign-in goes on where it stays in, or out of, its entry.
LEMMA GatesAdvance ==
  ASSUME SignTypes, Gates, NEW r \in SignIns, NEW label \in Before \cup Working \cup {"check"},
         Provision!Advance(r, label), UNCHANGED <<entry, replica>>,
         \/ pc[r] \in Before
            /\ (label \in Before \/ label = "check")
         \/ pc[r] \in Working /\ label \notin Before
  PROVE  Gates'
<1>1. \A q \in SignIns : pc'[q] = IF q = r THEN label ELSE pc[q]
  BY DEF Provision!Advance, Provision!Goto, SignTypes
<1>2. UNCHANGED <<tokens, entries, users>>
  BY DEF Provision!Advance
<1>3. \A q \in SignIns : Live(q)' = Live(q) /\ Holds(q)' = Holds(q)
  BY <1>1 DEF Live, Holds, Before, Working, Gates
<1>4. \A e \in Provision!Entries : Counted(e)' = Counted(e)
  BY <1>1 DEF Counted, Before, Working
<1>5. \A q \in SignIns : Provision!Key(q)' = Provision!Key(q)
  BY DEF Provision!Key, Provision!SubjectOf
<1>6. \A q \in SignIns : /\ pc'[q] \in Before => entry'[q] = 0
                         /\ pc'[q] \in Working \cup {"gate"} => entry'[q] # 0
  BY <1>1 DEF Gates, Before, Working
<1>7. \A e \in Provision!Entries : users'[e] = Cardinality(Counted(e))'
  BY <1>2, <1>4 DEF Gates
<1> QED  BY <1>2, <1>3, <1>5, <1>6, <1>7 DEF Gates

\* Whoever leaves takes the entry out only when no other sign-in counts in it.
LEMMA GatesFinish ==
  ASSUME SignTypes, Gates, NEW r \in SignIns, pc[r] # "done", NEW answer,
         Provision!Finish(r, answer), UNCHANGED <<entry, replica>>
  PROVE  /\ Gates' /\ entries' \in [DOMAIN entries -> Provision!Entries \cup {0}]
         /\ users' \in [Provision!Entries -> Nat]
<1> DEFINE e == entry[r]
<1>1. \A q \in SignIns : pc'[q] = IF q = r THEN "done" ELSE pc[q]
  BY DEF Provision!Finish, Provision!Goto, SignTypes
<1>2. \A q \in SignIns : Provision!Key(q)' = Provision!Key(q)
  BY DEF Provision!Key, Provision!SubjectOf
<1>3. \A q \in SignIns : /\ Live(q)' <=> Live(q) /\ q # r
                         /\ Holds(q)' <=> Holds(q) /\ q # r
  BY <1>1 DEF Live, Holds
<1>4. \A i \in Provision!Entries : Counted(i)' = Counted(i) \ {r}
  BY <1>1 DEF Counted
<1>5. \A i \in Provision!Entries : i # e => Counted(i)' = Counted(i)
  BY <1>4 DEF Counted
<1>6. \A q \in SignIns : /\ pc'[q] \in Before => entry'[q] = 0
                         /\ pc'[q] \in Working \cup {"gate"} => entry'[q] # 0
  BY <1>1 DEF Gates, Before, Working
<1>7. \A q \in SignIns : Holds(q)' => entry'[q] \notin tokens'
  <2>1. tokens' \subseteq IF e # 0 /\ pc[r] # "gate" THEN tokens \cup {e} ELSE tokens
    BY DEF Provision!Finish, Provision!InGate
  <2> QED  BY <1>3, <2>1 DEF Gates, Holds
<1>8. \A p, q \in SignIns : Holds(p)' /\ Holds(q)' /\ entry'[p] = entry'[q] => p = q
  BY <1>3 DEF Gates
<1>9. /\ \A q \in SignIns : Live(q)' => entries'[Provision!Key(q)] = entry[q]
      /\ \A i \in Provision!Entries : users'[i] = Cardinality(Counted(i)')
      /\ entries' \in [DOMAIN entries -> Provision!Entries \cup {0}]
      /\ users' \in [Provision!Entries -> Nat]
  <2>1. CASE e = 0
    <3>1. UNCHANGED <<entries, users>>
      BY <2>1 DEF Provision!Finish, Provision!Leave
    <3>2. \A i \in Provision!Entries : i # e
      BY <2>1 DEF Provision!Entries
    <3> QED  BY <1>3, <1>5, <3>1, <3>2 DEF Gates, SignTypes
  <2>2. CASE e # 0
    <3>1. e \in Provision!Entries /\ r \in Counted(e) /\ Live(r)
      BY <2>2 DEF SignTypes, Counted, Live
    <3>2. Cardinality(Counted(e)') = Cardinality(Counted(e)) - 1
          /\ users[e] = Cardinality(Counted(e)) /\ Cardinality(Counted(e)') \in Nat
      BY <1>4, <3>1, CountedIsFinite, FS_RemoveElement, FS_CardinalityType DEF Gates
    <3>3. users' = [users EXCEPT ![e] = users[e] - 1]
      BY <2>2 DEF Provision!Finish, Provision!Leave
    <3>4. \A i \in Provision!Entries : users'[i] = Cardinality(Counted(i)')
      <4> TAKE i \in Provision!Entries
      <4>1. CASE i = e
        BY <3>1, <3>2, <3>3, <4>1 DEF SignTypes
      <4>2. CASE i # e
        BY <1>5, <3>3, <4>2 DEF SignTypes, Gates
      <4> QED  BY <4>1, <4>2
    <3>5. users' \in [Provision!Entries -> Nat]
      BY <3>1, <3>2, <3>3 DEF SignTypes
    <3>6. entries' = IF users[e] = 1 /\ entries[Provision!Key(r)] = e
                     THEN [entries EXCEPT ![Provision!Key(r)] = 0] ELSE entries
      BY <2>2 DEF Provision!Finish, Provision!Leave, Provision!Emptied
    <3>7. entries' \in [DOMAIN entries -> Provision!Entries \cup {0}]
      BY <3>6 DEF SignTypes
    <3>8. ASSUME NEW q \in SignIns, Live(q), q # r PROVE entries'[Provision!Key(q)] = entry[q]
      <4>1. entries[Provision!Key(q)] = entry[q]
        BY <3>8 DEF Gates
      <4>2. CASE users[e] = 1 /\ Provision!Key(q) = Provision!Key(r)
        <5>1. entry[q] = e
          BY <3>1, <4>1, <4>2 DEF Gates
        <5>2. q \in Counted(e)'
          BY <1>4, <3>1, <3>8, <5>1 DEF Counted, Live
        <5>3. Cardinality(Counted(e)') = 0
          BY <3>2, <4>2
        <5>4. IsFiniteSet(Counted(e)')
          BY <1>4, <3>1, CountedIsFinite, FS_RemoveElement
        <5> QED  BY <5>2, <5>3, <5>4, FS_EmptySet
      <4> QED  BY <3>6, <4>1, <4>2 DEF SignTypes
    <3> QED  BY <1>3, <3>4, <3>5, <3>7, <3>8
  <2> QED  BY <2>1, <2>2
<1>10. \A q \in SignIns : Live(q)' => entries'[Provision!Key(q)'] = entry'[q]
  BY <1>2, <1>9
<1>11. \A i \in Provision!Entries : users'[i] = Cardinality(Counted(i))'
  BY <1>9
<1> QED  BY <1>6, <1>7, <1>8, <1>9, <1>10, <1>11 DEF Gates

LEMMA GatesEnter ==
  ASSUME SignTypes, Gates, NEW r \in SignIns, Provision!EnterGate(r), UNCHANGED replica
  PROVE  SignTypes' /\ Gates'
<1> DEFINE fresh == entries[Provision!Key(r)] = 0
           e == IF fresh THEN CHOOSE i \in Provision!Entries : \A p \in SignIns : entry[p] # i
                ELSE entries[Provision!Key(r)]
<1>1. /\ pc[r] = "enter" /\ entry[r] = 0
      /\ entries' = [entries EXCEPT ![Provision!Key(r)] = e] /\ entry' = [entry EXCEPT ![r] = e]
      /\ users' = [users EXCEPT ![e] = users[e] + 1]
      /\ tokens' = IF fresh THEN tokens \cup {e} ELSE tokens
      /\ pc' = [pc EXCEPT ![r] = "gate"]
      /\ UNCHANGED <<user, left, session, result, binding, account, created, disabled, latest>>
  BY DEF Provision!EnterGate, Provision!Goto, Provision!nakamaVars, Gates, Before
<1>2. Provision!Key(r) \in DOMAIN entries
  BY <1>1, SubjectIsKnown DEF SignTypes, Provision!Key
<1>3. e \in Provision!Entries /\ e # 0 /\ (fresh => \A p \in SignIns : entry[p] # e)
  <2>1. CASE fresh
    <3>1. \E i \in Provision!Entries : \A p \in SignIns : entry[p] # i
      BY <1>1, EntryIsLeft
    <3>2. e \in Provision!Entries /\ \A p \in SignIns : entry[p] # e
      BY <2>1, <3>1
    <3> QED  BY <3>2 DEF Provision!Entries
  <2>2. CASE ~fresh
    BY <1>2, <2>2 DEF SignTypes
  <2> QED  BY <2>1, <2>2
<1> HIDE DEF e
<1>4. \A q \in SignIns : /\ pc'[q] = IF q = r THEN "gate" ELSE pc[q]
                         /\ entry'[q] = IF q = r THEN e ELSE entry[q]
  BY <1>1 DEF SignTypes
<1>5. SignTypes'
  <2>1. entries' \in [{replica[q] : q \in SignIns} \X Provision!Subjects -> Provision!Entries \cup {0}]
    BY <1>1, <1>3 DEF SignTypes
  <2>2. users' \in [Provision!Entries -> Nat]
    BY <1>1, <1>3 DEF SignTypes
  <2>3. pc' \in [SignIns -> Steps] /\ entry' \in [SignIns -> Provision!Entries \cup {0}]
    BY <1>1, <1>3 DEF SignTypes, Steps
  <2>4. \A q \in SignIns : pc'[q] \notin {"new", "done"} \/ result'[q] # 0
                             => Provision!Verified(CredentialOf[q]) # {}
    BY <1>1, <1>4 DEF SignTypes
  <2> QED  BY <1>1, <2>1, <2>2, <2>3, <2>4 DEF SignTypes
<1>6. \A q \in SignIns : /\ pc'[q] \in Before => entry'[q] = 0
                         /\ pc'[q] \in Working \cup {"gate"} => entry'[q] # 0
  BY <1>3, <1>4 DEF Gates, Before, Working
<1>7. \A q \in SignIns : /\ Holds(q)' => q # r /\ Holds(q) /\ entry'[q] = entry[q]
                         /\ q # r => Live(q)' = Live(q)
  BY <1>4 DEF Holds, Live
<1>8. \A q \in SignIns : Holds(q)' => entry'[q] \notin tokens'
  BY <1>1, <1>3, <1>7 DEF Gates
<1>9. \A p, q \in SignIns : Holds(p)' /\ Holds(q)' /\ entry'[p] = entry'[q] => p = q
  BY <1>7 DEF Gates
<1>10. ASSUME NEW q \in SignIns, Live(q)' PROVE entries'[Provision!Key(q)'] = entry'[q]
  <2>1. Provision!Key(q)' = Provision!Key(q)
    BY DEF Provision!Key, Provision!SubjectOf
  <2>2. CASE q = r
    BY <1>1, <1>2, <1>4, <2>1, <2>2 DEF SignTypes
  <2>3. CASE q # r
    <3>1. entries[Provision!Key(q)] = entry[q] /\ entry[q] # 0 /\ entry'[q] = entry[q]
      BY <1>4, <1>7, <1>10, <2>3 DEF Gates, Live
    <3>2. Provision!Key(q) = Provision!Key(r) => e = entry[q]
      BY <3>1 DEF e
    <3> QED  BY <1>1, <2>1, <3>1, <3>2 DEF SignTypes
  <2> QED  BY <2>2, <2>3
<1>11. ASSUME NEW i \in Provision!Entries PROVE users'[i] = Cardinality(Counted(i))'
  <2>1. i # 0 /\ users[i] = Cardinality(Counted(i))
    BY DEF Provision!Entries, Gates
  <2>2. CASE i = e
    <3>1. Counted(i)' = Counted(i) \cup {r} /\ r \notin Counted(i)
      BY <1>1, <1>4, <2>1, <2>2 DEF Counted
    <3>2. Cardinality(Counted(i)') = Cardinality(Counted(i)) + 1
      BY <3>1, CountedIsFinite, FS_AddElement
    <3> QED  BY <1>1, <2>1, <2>2, <3>2 DEF SignTypes
  <2>3. CASE i # e
    <3>1. Counted(i)' = Counted(i)
      BY <1>1, <1>4, <2>1, <2>3 DEF Counted
    <3> QED  BY <1>1, <2>1, <2>3, <3>1 DEF SignTypes
  <2> QED  BY <2>2, <2>3
<1>12. Gates'
  BY <1>6, <1>8, <1>9, <1>10, <1>11 DEF Gates
<1> QED  BY <1>5, <1>12

\* The token of an entry is with one sign-in, or free.
LEMMA GatesTake ==
  ASSUME SignTypes, Gates, NEW r \in SignIns, Provision!TakeToken(r), UNCHANGED replica
  PROVE  SignTypes' /\ Gates'
<1>1. /\ pc[r] = "gate" /\ entry[r] \in tokens /\ tokens' = tokens \ {entry[r]}
      /\ pc' = [pc EXCEPT ![r] = "relookup"]
      /\ UNCHANGED <<user, left, session, result, entry, entries, users, binding, account, created, disabled, latest>>
  BY DEF Provision!TakeToken, Provision!Goto, Provision!nakamaVars
<1>2. \A q \in SignIns : pc'[q] = IF q = r THEN "relookup" ELSE pc[q]
  BY <1>1 DEF SignTypes
<1>3. \A q \in SignIns : /\ Holds(q)' => q = r \/ Holds(q)
                         /\ Live(q)' = Live(q)
                         /\ Provision!Key(q)' = Provision!Key(q)
  BY <1>1, <1>2 DEF Holds, Live, Provision!Key, Provision!SubjectOf
<1>4. \A q \in SignIns : Holds(q) => entry[q] # entry[r]
  BY <1>1 DEF Gates
<1>5. \A e \in Provision!Entries : Counted(e)' = Counted(e)
  BY <1>1, <1>2 DEF Counted
<1>6. SignTypes'
  <2>1. pc' \in [SignIns -> Steps]
    BY <1>1 DEF SignTypes, Steps, Working
  <2> QED  BY <1>1, <1>2, <2>1 DEF SignTypes
<1>7. \A q \in SignIns : /\ pc'[q] \in Before => entry'[q] = 0
                         /\ pc'[q] \in Working \cup {"gate"} => entry'[q] # 0
  BY <1>1, <1>2 DEF Gates, Before, Working
<1>8. \A q \in SignIns : Holds(q)' => entry'[q] \notin tokens'
  BY <1>1, <1>3, <1>4 DEF Gates
<1>9. \A p, q \in SignIns : Holds(p)' /\ Holds(q)' /\ entry'[p] = entry'[q] => p = q
  BY <1>1, <1>3, <1>4 DEF Gates
<1>10. \A e \in Provision!Entries : users'[e] = Cardinality(Counted(e))'
  BY <1>1, <1>5 DEF Gates
<1>11. \A q \in SignIns : Live(q)' => entries'[Provision!Key(q)'] = entry'[q]
  BY <1>1, <1>3 DEF Gates
<1> QED  BY <1>6, <1>7, <1>8, <1>9, <1>10, <1>11 DEF Gates

LEMMA CallsStayKnown ==
  ASSUME SignInv, NEW r \in SignIns, Abandons(r)
  PROVE  CallsKnown'
<1>1. CASE adrift' = adrift
  BY <1>1 DEF SignInv, CallsKnown
<1>2. CASE pc[r] \in Calling /\ adrift' = adrift \cup {Provision!Call(r)}
  <2>1. Provision!Verified(CredentialOf[r]) # {} /\ (pc[r] = "write" => user[r] \in Provision!Accounts)
    BY <1>2 DEF SignInv, SignTypes, Bindings, Calling
  <2> QED  BY <1>2, <2>1 DEF SignInv, CallsKnown, Provision!Call
<1> QED  BY <1>1, <1>2 DEF Abandons

LEMMA OwnedStays ==
  ASSUME Owned, UNCHANGED <<account, created, latest, session, replica>>,
         \A q \in SignIns : pc'[q] = "verify" => pc[q] = "verify"
  PROVE  Owned'
<1>1. \A q \in SignIns : Provision!SubjectOf(q)' = Provision!SubjectOf(q)
  BY DEF Provision!SubjectOf
<1> QED  BY <1>1 DEF Owned, Provision!EndedElsewhere

LEMMA BindingsStay ==
  ASSUME Bindings, NEW r \in SignIns, UNCHANGED binding,
         \A q \in SignIns \ {r} : pc'[q] = pc[q] /\ user'[q] = user[q] /\ result'[q] = result[q],
         pc'[r] = "check" => BoundTo(r, user'[r]),
         pc'[r] \in {"bind", "write"} => user'[r] \in Provision!Accounts,
         result'[r] # 0 => BoundTo(r, result'[r])
  PROVE  Bindings'
<1>1. \A q \in SignIns : \A a : BoundTo(q, a)' <=> BoundTo(q, a)
  BY DEF BoundTo, Provision!SubjectOf
<1>2. \A q \in SignIns : \A a : BoundTo(q, a) =>
        LET d == binding'[Provision!SubjectOf(q)] IN d # None /\ Provision!Readable(d) /\ d.user = a
  BY DEF BoundTo, Provision!SubjectOf
<1>3. \A q \in SignIns : /\ pc'[q] = "check" => BoundTo(q, user[q])'
                         /\ result'[q] # 0 => BoundTo(q, result[q])'
  <2> TAKE q \in SignIns
  <2>1. Provision!SubjectOf(q)' = Provision!SubjectOf(q)
    BY DEF Provision!SubjectOf
  <2>2. CASE q = r
    BY <2>1, <2>2 DEF BoundTo
  <2>3. CASE q # r
    BY <2>1, <2>3 DEF BoundTo, Bindings
  <2> QED  BY <2>2, <2>3
<1>4. \A q \in SignIns : pc'[q] \in {"bind", "write"} => user'[q] \in Provision!Accounts
  BY DEF Bindings
<1> QED  BY <1>3, <1>4 DEF Bindings

LEMMA SignInGivesUp ==
  ASSUME SignInv, NEW r \in SignIns, pc[r] # "done", Provision!Finish(r, 0), Abandons(r),
         UNCHANGED <<replica, user, session, entry, binding, account, created, latest>>
  PROVE  SignInv'
<1>1. pc' = [pc EXCEPT ![r] = "done"] /\ result' = [result EXCEPT ![r] = 0]
  BY DEF Provision!Finish, Provision!Goto
<1>2. \A q \in SignIns : /\ pc'[q] = IF q = r THEN "done" ELSE pc[q]
                         /\ result'[q] = IF q = r THEN 0 ELSE result[q]
  BY <1>1 DEF SignInv, SignTypes
<1>3. /\ Gates' /\ users' \in [Provision!Entries -> Nat]
      /\ entries' \in [{replica[q] : q \in SignIns} \X Provision!Subjects -> Provision!Entries \cup {0}]
  <2>1. DOMAIN entries = {replica[q] : q \in SignIns} \X Provision!Subjects
    BY DEF SignInv, SignTypes
  <2> QED  BY <1>1, <2>1, GatesFinish DEF SignInv
<1>4. SignTypes'
  <2>1. pc' \in [SignIns -> Steps]
    BY <1>1 DEF SignInv, SignTypes, Steps
  <2> QED  BY <1>1, <1>2, <1>3, <2>1 DEF SignInv, SignTypes
<1>5. Owned'
  BY <1>1, <1>2, OwnedStays DEF SignInv
<1>6. Bindings'
  BY <1>1, <1>2, BindingsStay DEF SignInv
<1>7. CallsKnown'
  BY CallsStayKnown
<1> QED  BY <1>3, <1>4, <1>5, <1>6, <1>7 DEF SignInv

LEMMA SignInFails ==
  ASSUME SignInv, NEW r \in SignIns, pc[r] # "done", Provision!Fail(r), UNCHANGED replica
  PROVE  SignInv'
BY SignInGivesUp DEF Provision!Fail, Provision!nakamaVars, Abandons

\* A step that neither signs in nor writes.
LEMMA SignInAdvances ==
  ASSUME SignInv, NEW r \in SignIns, NEW label \in (Before \cup Working \cup {"check"}) \ {"verify"},
         Provision!Advance(r, label), UNCHANGED <<entry, session, replica, binding, account, created, latest>>,
         Abandons(r),
         \/ pc[r] \in Before
            /\ (label \in Before \/ label = "check")
         \/ pc[r] \in Working /\ label \notin Before,
         NEW u, user' = [user EXCEPT ![r] = u], Provision!Verified(CredentialOf[r]) # {},
         label = "check" => BoundTo(r, u),
         label \in {"bind", "write"} => u \in Provision!Accounts
  PROVE  SignInv'
<1>1. /\ \A q \in SignIns : /\ pc'[q] = IF q = r THEN label ELSE pc[q]
                            /\ user'[q] = IF q = r THEN u ELSE user[q]
      /\ UNCHANGED <<result, entries, users>>
  BY DEF Provision!Advance, Provision!Goto, SignInv, SignTypes
<1>2. Gates'
  BY GatesAdvance DEF SignInv
<1>3. SignTypes'
  <2>1. pc' \in [SignIns -> Steps]
    BY DEF Provision!Advance, Provision!Goto, SignInv, SignTypes, Steps
  <2>2. \A q \in SignIns : pc'[q] \notin {"new", "done"} \/ result'[q] # 0
                             => Provision!Verified(CredentialOf[q]) # {}
    BY <1>1 DEF SignInv, SignTypes
  <2>3. entries' \in [{replica'[q] : q \in SignIns} \X Provision!Subjects -> Provision!Entries \cup {0}]
    BY <1>1 DEF SignInv, SignTypes
  <2>4. users' \in [Provision!Entries -> Nat] /\ user' = [q \in SignIns |-> user'[q]]
    BY <1>1 DEF SignInv, SignTypes
  <2> QED  BY <1>1, <2>1, <2>2, <2>3, <2>4 DEF SignInv, SignTypes
<1>4. Owned'
  BY <1>1, OwnedStays DEF SignInv
<1>5. Bindings'
  <2>1. result'[r] # 0 => BoundTo(r, result'[r])
    BY <1>1 DEF SignInv, Bindings
  <2> QED  BY <1>1, <2>1, BindingsStay DEF SignInv
<1>6. CallsKnown'
  BY CallsStayKnown
<1> QED  BY <1>2, <1>3, <1>4, <1>5, <1>6 DEF SignInv

LEMMA SameUser ==
  ASSUME SignTypes, NEW r \in SignIns
  PROVE  user = [user EXCEPT ![r] = user[r]]
BY DEF SignTypes

LEMMA LookupKeeps ==
  ASSUME SignInv, NEW r \in SignIns, Provision!Lookup(r), UNCHANGED replica
  PROVE  SignInv'
<1> DEFINE d == binding[Provision!SubjectOf(r)]
<1>1. /\ pc[r] \in {"lookup", "relookup", "wait"} /\ pc[r] # "done"
      /\ Provision!Verified(CredentialOf[r]) # {} /\ user = [user EXCEPT ![r] = user[r]]
  <2>1. pc[r] \in {"lookup", "relookup", "wait"}
    BY DEF Provision!Lookup
  <2> QED  BY <2>1, SameUser DEF SignInv, SignTypes
<1>2. CASE Provision!Fail(r)
  BY <1>1, <1>2, SignInFails
<1>3. CASE /\ d # None /\ Provision!Readable(d) /\ user' = [user EXCEPT ![r] = d.user]
           /\ Provision!Advance(r, "check") /\ UNCHANGED <<left, session, entry, Provision!nakamaVars>>
  <2>1. BoundTo(r, d.user)
    BY <1>3 DEF BoundTo
  <2>2. PICK u : u = d.user
    OBVIOUS
  <2>3. /\ user' = [user EXCEPT ![r] = u] /\ BoundTo(r, u) /\ Provision!Advance(r, "check")
        /\ UNCHANGED <<entry, session, binding, account, created, latest>> /\ Abandons(r)
    BY <1>3, <2>1, <2>2 DEF Provision!nakamaVars, Abandons
  <2>4. "check" \in (Before \cup Working \cup {"check"}) \ {"verify"}
        /\ (pc[r] \in Before \/ (pc[r] \in Working /\ "check" \notin Before))
    BY <1>1 DEF Before, Working
  <2> HIDE DEF d
  <2> QED  BY <1>1, <2>3, <2>4, SignInAdvances
<1>4. CASE /\ d = None /\ pc[r] # "wait" /\ Provision!Advance(r, Provision!Unbound(r))
           /\ UNCHANGED <<user, left, session, entry, Provision!nakamaVars>>
  <2>1. CASE pc[r] = "lookup"
    <3>1. Provision!Unbound(r) = "enter"
      BY <2>1 DEF Provision!Unbound
    <3> QED  BY <1>1, <1>4, <2>1, <3>1, SignInAdvances DEF Provision!nakamaVars, Abandons, Before, Working
  <2>2. CASE pc[r] = "relookup"
    <3>1. Provision!Unbound(r) = "authenticate"
      BY <2>2 DEF Provision!Unbound
    <3> QED  BY <1>1, <1>4, <2>2, <3>1, SignInAdvances DEF Provision!nakamaVars, Abandons, Before, Working
  <2> QED  BY <1>1, <1>4, <2>1, <2>2
<1>5. CASE /\ pc[r] = "wait" /\ Provision!Advance(r, "wait")
           /\ UNCHANGED <<user, session, entry, Provision!nakamaVars>>
  BY <1>1, <1>5, SignInAdvances DEF Provision!nakamaVars, Abandons, Before, Working
<1> QED  BY <1>2, <1>3, <1>4, <1>5 DEF Provision!Lookup

LEMMA CheckKeeps ==
  ASSUME SignInv, NEW r \in SignIns, Provision!CheckAccount(r), UNCHANGED replica
  PROVE  SignInv'
<1>1. CASE Provision!Fail(r)
  BY <1>1, SignInFails DEF Provision!CheckAccount
<1>2. CASE Provision!Finish(r, user[r]) /\ UNCHANGED <<user, left, session, entry, Provision!nakamaVars>>
  <2>1. /\ pc[r] = "check" /\ BoundTo(r, user[r]) /\ Provision!Verified(CredentialOf[r]) # {}
        /\ pc' = [pc EXCEPT ![r] = "done"] /\ result' = [result EXCEPT ![r] = user[r]]
        /\ UNCHANGED <<user, session, entry, binding, account, created, disabled, latest, adrift>>
    BY <1>2 DEF Provision!CheckAccount, Provision!Finish, Provision!Goto, Provision!nakamaVars, SignInv, SignTypes, Bindings
  <2>2. \A q \in SignIns : /\ pc'[q] = IF q = r THEN "done" ELSE pc[q]
                           /\ result'[q] = IF q = r THEN user[r] ELSE result[q]
    BY <2>1 DEF SignInv, SignTypes
  <2>3. /\ Gates' /\ users' \in [Provision!Entries -> Nat]
        /\ entries' \in [{replica[q] : q \in SignIns} \X Provision!Subjects -> Provision!Entries \cup {0}]
    <3>1. DOMAIN entries = {replica[q] : q \in SignIns} \X Provision!Subjects
      BY DEF SignInv, SignTypes
    <3> QED  BY <1>2, <2>1, <3>1, GatesFinish DEF SignInv
  <2>4. SignTypes'
    <3>1. pc' \in [SignIns -> Steps]
      BY <2>1 DEF SignInv, SignTypes, Steps
    <3> QED  BY <2>1, <2>2, <2>3, <3>1 DEF SignInv, SignTypes
  <2>5. Owned'
    BY <2>1, <2>2, OwnedStays DEF SignInv
  <2>6. Bindings'
    BY <2>1, <2>2, BindingsStay DEF SignInv
  <2>7. CallsKnown'
    BY <2>1, CallsStayKnown DEF Abandons
  <2> QED  BY <2>3, <2>4, <2>5, <2>6, <2>7 DEF SignInv
<1> QED  BY <1>1, <1>2 DEF Provision!CheckAccount

\* A new session is of its identity's account, whoever is given it.
LEMMA SignedIn ==
  ASSUME SignInv, NEW r \in SignIns, NEW creates, NEW token, Provision!SignIn(r, creates, token),
         Provision!Verified(CredentialOf[r]) # {}
  PROVE  LET s == Provision!SubjectOf(r)  a == account'[s] IN
         /\ s \in Provision!Subjects /\ a \in 1..created' /\ a \in Provision!Accounts /\ a \in Nat
         /\ created' \in Nat /\ created <= created' /\ created' <= MaxAccounts /\ created \in Nat
         /\ account' \in [Provision!Subjects -> 0..created']
         /\ DOMAIN latest' = Provision!Accounts
         /\ \A b \in Provision!Accounts : latest'[b] = IF b = a THEN token ELSE latest[b]
         /\ \A b \in 1..created : b = a => account[s] = b
         /\ \A t \in Provision!Subjects : account'[t] = IF t = s THEN a ELSE account[t]
         /\ \A p, t \in Provision!Subjects : account'[p] = account'[t] /\ account'[p] # 0 => p = t
         /\ UNCHANGED binding
<1> DEFINE s == Provision!SubjectOf(r)
           a == IF account[s] = 0 THEN created + 1 ELSE account[s]
<1>1. s \in Provision!Subjects
  BY SubjectIsKnown
<1>2. /\ account[s] = 0 => created < MaxAccounts
      /\ account' = [account EXCEPT ![s] = a] /\ created' = IF account[s] = 0 THEN created + 1 ELSE created
      /\ latest' = [latest EXCEPT ![a] = token] /\ UNCHANGED binding
  BY DEF Provision!SignIn
<1>3. /\ account[s] \in 0..created /\ created \in Nat /\ created <= MaxAccounts /\ MaxAccounts \in Nat
      /\ account \in [Provision!Subjects -> 0..created] /\ DOMAIN latest = Provision!Accounts
  BY <1>1, SignInsAreFinite DEF SignInv, SignTypes
<1>4. a \in 1..created' /\ a \in Provision!Accounts /\ created' \in Nat /\ created <= created'
      /\ created' <= MaxAccounts /\ a \in Nat
  BY <1>2, <1>3 DEF Provision!Accounts
<1>5. \A t \in Provision!Subjects : account[t] = a => t = s
  BY <1>1, <1>3 DEF SignInv, Owned
<1>6. \A b \in 1..created : b = a => account[s] = b
  BY <1>3
<1> HIDE DEF a
<1>7. \A t \in Provision!Subjects : account'[t] = IF t = s THEN a ELSE account[t]
  BY <1>2, <1>3
<1>8. account' \in [Provision!Subjects -> 0..created']
  <2>1. \A t \in Provision!Subjects : account'[t] \in 0..created'
    BY <1>3, <1>4, <1>7
  <2> QED  BY <1>2, <1>3, <2>1
<1>9. DOMAIN latest' = Provision!Accounts /\ \A b \in Provision!Accounts : latest'[b] = IF b = a THEN token ELSE latest[b]
  BY <1>2, <1>3
<1>10. \A p, t \in Provision!Subjects : account'[p] = account'[t] /\ account'[p] # 0 => p = t
  BY <1>5, <1>7 DEF SignInv, Owned
<1>11. account'[s] = a
  BY <1>1, <1>7
<1> QED  BY <1>1, <1>2, <1>3, <1>4, <1>6, <1>7, <1>8, <1>9, <1>10, <1>11

\* Another sign-in of the account on the same replica is behind the gate.
LEMMA AuthenticateKeeps ==
  ASSUME SignInv, NEW r \in SignIns, Provision!Authenticate(r), UNCHANGED replica
  PROVE  SignInv'
<1> DEFINE s == Provision!SubjectOf(r)
           a == account'[s]
<1>1. /\ pc[r] \in {"authenticate", "reconcile"} /\ Provision!Verified(CredentialOf[r]) # {}
      /\ Provision!SignIn(r, pc[r] = "authenticate", Provision!Given(r)) /\ Provision!Advance(r, "verify")
      /\ session' = [session EXCEPT ![r] = a] /\ UNCHANGED <<user, entry, adrift>>
  BY DEF Provision!Authenticate, SignInv, SignTypes
<1>2. /\ s \in Provision!Subjects /\ a \in 1..created' /\ a \in Provision!Accounts /\ a \in Nat
      /\ created' \in Nat /\ created <= created' /\ created' <= MaxAccounts /\ created \in Nat
      /\ account' \in [Provision!Subjects -> 0..created']
      /\ DOMAIN latest' = Provision!Accounts
      /\ \A b \in Provision!Accounts : latest'[b] = IF b = a THEN Provision!Given(r) ELSE latest[b]
      /\ \A b \in 1..created : b = a => account[s] = b
      /\ \A t \in Provision!Subjects : account'[t] = IF t = s THEN a ELSE account[t]
      /\ \A p, t \in Provision!Subjects : account'[p] = account'[t] /\ account'[p] # 0 => p = t
      /\ UNCHANGED binding
  BY <1>1, SignedIn
<1> HIDE DEF a
<1>3. /\ \A q \in SignIns : pc'[q] = IF q = r THEN "verify" ELSE pc[q]
      /\ UNCHANGED <<result, entries, users>>
  BY <1>1 DEF Provision!Advance, Provision!Goto, SignInv, SignTypes
<1>4. Gates'
  BY <1>1, GatesAdvance DEF SignInv, Before, Working
<1>5. SignTypes'
  <2>1. pc' \in [SignIns -> Steps] /\ session' \in [SignIns -> Nat]
    BY <1>1, <1>2 DEF Provision!Advance, Provision!Goto, SignInv, SignTypes, Steps, Working
  <2>2. \A q \in SignIns : pc'[q] \notin {"new", "done"} \/ result'[q] # 0
                             => Provision!Verified(CredentialOf[q]) # {}
    BY <1>1, <1>3 DEF SignInv, SignTypes
  <2>3. entries' \in [{replica'[q] : q \in SignIns} \X Provision!Subjects -> Provision!Entries \cup {0}]
    BY <1>3 DEF SignInv, SignTypes
  <2> QED  BY <1>1, <1>2, <1>3, <2>1, <2>2, <2>3 DEF SignInv, SignTypes
<1>6. Owned'
  <2>1. ASSUME NEW q \in SignIns, pc'[q] = "verify"
        PROVE  /\ session'[q] \in 1..created'
               /\ \A t \in Provision!Subjects : account'[t] = session'[q] => t = Provision!SubjectOf(q)
               /\ \A p \in SignIns : q # p /\ latest'[session'[q]] = Provision!Given(p) => replica[p] # replica[q]
    <3>1. CASE q = r
      <4>1. session'[q] = a /\ latest'[a] = Provision!Given(r)
        BY <1>1, <1>2, <3>1 DEF SignInv, SignTypes
      <4>2. \A p \in SignIns : Provision!Given(p) = Provision!Given(r) => p = r
        BY DEF Provision!Given
      <4>3. \A t \in Provision!Subjects : account'[t] = a => t = s
        BY <1>2
      <4> QED  BY <1>2, <3>1, <4>1, <4>2, <4>3
    <3>2. CASE q # r
      <4>1. /\ pc[q] = "verify" /\ session'[q] = session[q] /\ session[q] \in 1..created
            /\ session[q] \in Provision!Accounts
            /\ \A t \in Provision!Subjects : account[t] = session[q] => t = Provision!SubjectOf(q)
            /\ \A p \in SignIns : q # p /\ latest[session[q]] = Provision!Given(p) => replica[p] # replica[q]
        BY <1>1, <1>2, <1>3, <2>1, <3>2, SignInsAreFinite
           DEF SignInv, SignTypes, Owned, Provision!EndedElsewhere, Provision!Accounts
      <4>2. session[q] = a => s = Provision!SubjectOf(q)
        BY <1>2, <4>1
      <4>3. session[q] = a => replica[r] # replica[q]
        <5> SUFFICES ASSUME session[q] = a, replica[r] = replica[q] PROVE FALSE
          OBVIOUS
        <5>1. Provision!Key(q) = Provision!Key(r)
          BY <4>2 DEF Provision!Key
        <5>2. Holds(q) /\ Holds(r) /\ Live(q) /\ Live(r)
          BY <1>1, <4>1 DEF SignInv, Gates, Working, Holds, Live
        <5> QED  BY <3>2, <5>1, <5>2 DEF SignInv, Gates
      <4>4. latest'[session[q]] = IF session[q] = a THEN Provision!Given(r) ELSE latest[session[q]]
        BY <1>2, <4>1
      <4>5. \A p \in SignIns : Provision!Given(p) = Provision!Given(r) => p = r
        BY DEF Provision!Given
      <4>6. \A p \in SignIns : q # p /\ latest'[session[q]] = Provision!Given(p) => replica[p] # replica[q]
        BY <4>1, <4>3, <4>4, <4>5
      <4>7. \A t \in Provision!Subjects : account'[t] = session[q] => t = Provision!SubjectOf(q)
        BY <1>2, <4>1, <4>2
      <4>8. session[q] \in 1..created'
        BY <1>2, <4>1
      <4> QED  BY <4>1, <4>6, <4>7, <4>8
    <3> QED  BY <3>1, <3>2
  <2>2. \A q \in SignIns : Provision!SubjectOf(q)' = Provision!SubjectOf(q) /\ Provision!Given(q)' = Provision!Given(q)
    BY DEF Provision!SubjectOf, Provision!Given
  <2> QED  BY <1>2, <2>1, <2>2 DEF Owned, Provision!EndedElsewhere
<1>7. Bindings'
  <2>1. result'[r] # 0 => BoundTo(r, result'[r])
    BY <1>3 DEF SignInv, Bindings
  <2> QED  BY <1>1, <1>2, <1>3, <2>1, BindingsStay DEF SignInv
<1>8. CallsKnown'
  BY <1>1, CallsStayKnown DEF Abandons
<1> QED  BY <1>4, <1>5, <1>6, <1>7, <1>8 DEF SignInv

\* A sign-in gives up its wait: it goes on, or gives up the gate as well.
LEMMA UnansweredKeeps ==
  ASSUME SignInv, NEW r \in SignIns, Provision!Unanswered(r), UNCHANGED replica
  PROVE  SignInv'
<1>1. /\ pc[r] \in {"authenticate", "reconcile"} /\ pc[r] # "done" /\ Abandons(r)
      /\ UNCHANGED <<user, session, entry, binding, account, created, latest>>
      /\ Provision!Verified(CredentialOf[r]) # {} /\ user = [user EXCEPT ![r] = user[r]]
  <2>1. /\ pc[r] \in {"authenticate", "reconcile"} /\ Provision!Abandon(r)
        /\ UNCHANGED <<user, session, entry, binding, account, created, latest>>
    BY DEF Provision!Unanswered
  <2>2. Abandons(r)
    BY <2>1 DEF Abandons, Provision!Abandon, Calling
  <2> QED  BY <2>1, <2>2, SameUser DEF SignInv, SignTypes
<1>2. CASE Provision!Advance(r, "reconcile")
  BY <1>1, <1>2, SignInAdvances DEF Before, Working
<1>3. CASE Provision!Finish(r, 0)
  BY <1>1, <1>3, SignInGivesUp
<1> QED  BY <1>2, <1>3 DEF Provision!Unanswered

\* A binding is created where there was none, so what others were told stands.
LEMMA CreationKeepsBindings ==
  ASSUME SignInv, NEW r \in SignIns, Provision!Verified(CredentialOf[r]) # {}, NEW a \in Provision!Accounts,
         binding[Provision!SubjectOf(r)] = None,
         binding' = [binding EXCEPT ![Provision!SubjectOf(r)] = Provision!Document(a)]
  PROVE  /\ DOMAIN binding' = Provision!Subjects
         /\ LET d == binding'[Provision!SubjectOf(r)] IN d # None /\ Provision!Readable(d) /\ d.user = a
         /\ \A q \in SignIns : \A b : Provision!Verified(CredentialOf[q]) # {} /\ BoundTo(q, b) =>
              LET d == binding'[Provision!SubjectOf(q)] IN d # None /\ Provision!Readable(d) /\ d.user = b
<1> DEFINE s == Provision!SubjectOf(r)
<1>1. s \in Provision!Subjects
  BY SubjectIsKnown
<1>2. binding'[s] = Provision!Document(a) /\ \A t \in Provision!Subjects : t # s => binding'[t] = binding[t]
  BY <1>1 DEF SignInv, SignTypes
<1>3. DOMAIN binding' = Provision!Subjects
  BY DEF SignInv, SignTypes
<1>4. LET d == binding'[s] IN d # None /\ Provision!Readable(d) /\ d.user = a
  BY <1>2, DocumentIsReadable
<1>5. ASSUME NEW q \in SignIns, NEW b, Provision!Verified(CredentialOf[q]) # {}, BoundTo(q, b)
      PROVE  LET d == binding'[Provision!SubjectOf(q)] IN d # None /\ Provision!Readable(d) /\ d.user = b
  BY <1>2, <1>5, SubjectIsKnown DEF BoundTo
<1> QED  BY <1>3, <1>4, <1>5

\* A call that is performed late gives nobody a token, and binds what was not bound.
LEMMA LandKeeps ==
  ASSUME SignInv, NEW c \in adrift, Provision!Land(c), UNCHANGED replica
  PROVE  SignInv'
<1> DEFINE r == c.by
           s == Provision!SubjectOf(r)
<1>1. /\ r \in SignIns /\ Provision!Verified(CredentialOf[r]) # {}
      /\ c.does = "write" => c.user \in Provision!Accounts
      /\ adrift' = adrift \ {c}
      /\ UNCHANGED <<pc, user, left, session, result, entry, entries, tokens, users>>
  BY DEF SignInv, CallsKnown, Provision!Land, Provision!requestVars, Provision!gateVars
<1>2. Gates'
  BY <1>1 DEF SignInv, Gates, Live, Holds, Counted, Provision!Key, Provision!SubjectOf
<1>3. CallsKnown'
  BY <1>1 DEF SignInv, CallsKnown
<1>4. CASE c.does = "write"
  <2>1. /\ binding[s] = None /\ binding' = [binding EXCEPT ![s] = Provision!Document(c.user)]
        /\ UNCHANGED <<account, created, disabled, latest>>
    BY <1>4 DEF Provision!Land, Provision!Creates
  <2>2. /\ DOMAIN binding' = Provision!Subjects
        /\ \A q \in SignIns : \A b : Provision!Verified(CredentialOf[q]) # {} /\ BoundTo(q, b) =>
             LET d == binding'[Provision!SubjectOf(q)] IN d # None /\ Provision!Readable(d) /\ d.user = b
    BY <1>1, <1>4, <2>1, CreationKeepsBindings
  <2>3. SignTypes'
    BY <1>1, <2>1, <2>2 DEF SignInv, SignTypes
  <2>4. Owned'
    BY <1>1, <2>1, OwnedStays DEF SignInv
  <2>5. Bindings'
    <3>1. \A q \in SignIns : Provision!SubjectOf(q)' = Provision!SubjectOf(q)
      BY DEF Provision!SubjectOf
    <3>2. ASSUME NEW q \in SignIns
          PROVE  /\ pc'[q] = "check" => BoundTo(q, user[q])'
                 /\ result'[q] # 0 => BoundTo(q, result[q])'
      BY <1>1, <2>2, <3>1 DEF SignInv, SignTypes, Bindings, BoundTo
    <3>3. \A q \in SignIns : pc'[q] \in {"bind", "write"} => user'[q] \in Provision!Accounts
      BY <1>1 DEF SignInv, Bindings
    <3> QED  BY <3>2, <3>3 DEF Bindings
  <2> QED  BY <1>2, <1>3, <2>3, <2>4, <2>5 DEF SignInv
<1>5. CASE Provision!SignIn(r, c.does = "authenticate", Provision!Stray(r))
  <2> DEFINE a == account'[s]
  <2>1. /\ s \in Provision!Subjects /\ a \in 1..created' /\ a \in Provision!Accounts /\ a \in Nat
        /\ created' \in Nat /\ created <= created' /\ created' <= MaxAccounts /\ created \in Nat
        /\ account' \in [Provision!Subjects -> 0..created']
        /\ DOMAIN latest' = Provision!Accounts
        /\ \A b \in Provision!Accounts : latest'[b] = IF b = a THEN Provision!Stray(r) ELSE latest[b]
        /\ \A b \in 1..created : b = a => account[s] = b
        /\ \A t \in Provision!Subjects : account'[t] = IF t = s THEN a ELSE account[t]
        /\ \A p, t \in Provision!Subjects : account'[p] = account'[t] /\ account'[p] # 0 => p = t
        /\ UNCHANGED binding
    BY <1>1, <1>5, SignedIn
  <2> HIDE DEF a
  <2>2. SignTypes'
    BY <1>1, <2>1 DEF SignInv, SignTypes
  <2>3. \A q \in SignIns : Provision!SubjectOf(q)' = Provision!SubjectOf(q) /\ Provision!Given(q)' = Provision!Given(q)
    BY DEF Provision!SubjectOf, Provision!Given
  <2>4. \A p \in SignIns : Provision!Given(p) # Provision!Stray(r)
    BY DEF Provision!Given, Provision!Stray
  <2>5. ASSUME NEW q \in SignIns, pc'[q] = "verify"
        PROVE  /\ session'[q] \in 1..created'
               /\ \A t \in Provision!Subjects : account'[t] = session'[q] => t = Provision!SubjectOf(q)
               /\ \A p \in SignIns : q # p /\ latest'[session'[q]] = Provision!Given(p) => replica[p] # replica[q]
    <3>1. /\ pc[q] = "verify" /\ session'[q] = session[q] /\ session[q] \in 1..created
          /\ session[q] \in Provision!Accounts
          /\ \A t \in Provision!Subjects : account[t] = session[q] => t = Provision!SubjectOf(q)
          /\ \A p \in SignIns : q # p /\ latest[session[q]] = Provision!Given(p) => replica[p] # replica[q]
      BY <1>1, <2>1, <2>5, SignInsAreFinite
         DEF SignInv, SignTypes, Owned, Provision!EndedElsewhere, Provision!Accounts
    <3>2. \A t \in Provision!Subjects : account'[t] = session[q] => t = Provision!SubjectOf(q)
      BY <2>1, <3>1
    <3>3. session[q] \in 1..created'
      BY <2>1, <3>1
    <3>4. \A p \in SignIns : q # p /\ latest'[session[q]] = Provision!Given(p) => replica[p] # replica[q]
      BY <2>1, <2>4, <3>1
    <3> QED  BY <3>1, <3>2, <3>3, <3>4
  <2>6. Owned'
    BY <2>1, <2>3, <2>5 DEF Owned, Provision!EndedElsewhere
  <2>7. Bindings'
    BY <1>1, <2>1 DEF SignInv, Bindings, BoundTo, Provision!SubjectOf
  <2> QED  BY <1>2, <1>3, <2>2, <2>6, <2>7 DEF SignInv
<1> QED  BY <1>4, <1>5 DEF Provision!Land

LEMMA VerifyKeeps ==
  ASSUME SignInv, NEW r \in SignIns, Provision!VerifySession(r), UNCHANGED replica
  PROVE  SignInv'
<1>1. /\ pc[r] = "verify" /\ Provision!Verified(CredentialOf[r]) # {}
      /\ session[r] \in Provision!Accounts
      /\ UNCHANGED <<session, entry, binding, account, created, latest>> /\ Abandons(r)
  <2>1. /\ pc[r] = "verify" /\ UNCHANGED <<session, entry, binding, account, created, latest>>
        /\ Abandons(r)
    BY DEF Provision!VerifySession, Provision!nakamaVars, Abandons
  <2>2. session[r] \in 1..created /\ created <= MaxAccounts /\ MaxAccounts \in Nat /\ created \in Nat
    BY <2>1, SignInsAreFinite DEF SignInv, SignTypes, Owned
  <2>3. session[r] \in Provision!Accounts
    BY <2>2 DEF Provision!Accounts
  <2> QED  BY <2>1, <2>3 DEF SignInv, SignTypes
<1>2. \A label \in {"bind", "wait"} :
        /\ label \in (Before \cup Working \cup {"check"}) \ {"verify"} /\ label # "check"
        /\ pc[r] \in Working /\ label \notin Before
  BY <1>1 DEF Before, Working
<1>3. CASE latest[session[r]] = Provision!Given(r)
  <2>1. user' = [user EXCEPT ![r] = session[r]] /\ Provision!Advance(r, "bind")
    BY <1>3 DEF Provision!VerifySession
  <2> QED  BY <1>1, <1>2, <2>1, SignInAdvances
<1>4. CASE latest[session[r]] # Provision!Given(r)
  <2>1. user' = [user EXCEPT ![r] = user[r]] /\ Provision!Advance(r, "wait")
    BY <1>4 DEF Provision!VerifySession
  <2> QED  BY <1>1, <1>2, <2>1, SignInAdvances
<1> QED  BY <1>3, <1>4

LEMMA ReadKeepsBinding ==
  ASSUME SignInv, NEW r \in SignIns, Provision!ReadBinding(r), UNCHANGED replica
  PROVE  SignInv'
<1> DEFINE d == binding[Provision!SubjectOf(r)]
<1>1. /\ pc[r] \in {"bind", "reread"} /\ pc[r] # "done"
      /\ Provision!Verified(CredentialOf[r]) # {} /\ user = [user EXCEPT ![r] = user[r]]
  <2>1. pc[r] \in {"bind", "reread"}
    BY DEF Provision!ReadBinding
  <2> QED  BY <2>1, SameUser DEF SignInv, SignTypes
<1>2. CASE Provision!Fail(r)
  BY <1>1, <1>2, SignInFails
<1>3. CASE /\ pc[r] = "bind" /\ Provision!Advance(r, "write")
           /\ UNCHANGED <<user, left, session, entry, Provision!nakamaVars>>
  <2>1. user[r] \in Provision!Accounts
    BY <1>3 DEF SignInv, Bindings
  <2> QED  BY <1>1, <1>3, <2>1, SignInAdvances DEF Provision!nakamaVars, Abandons, Before, Working
<1>4. CASE /\ d # None /\ Provision!Readable(d) /\ user' = [user EXCEPT ![r] = d.user]
           /\ Provision!Advance(r, "check") /\ UNCHANGED <<left, session, entry, Provision!nakamaVars>>
  <2>1. BoundTo(r, d.user)
    BY <1>4 DEF BoundTo
  <2>2. PICK u : u = d.user
    OBVIOUS
  <2>3. /\ user' = [user EXCEPT ![r] = u] /\ BoundTo(r, u) /\ Provision!Advance(r, "check")
        /\ UNCHANGED <<entry, session, binding, account, created, latest>> /\ Abandons(r)
    BY <1>4, <2>1, <2>2 DEF Provision!nakamaVars, Abandons
  <2>4. "check" \in (Before \cup Working \cup {"check"}) \ {"verify"}
        /\ pc[r] \in Working /\ "check" \notin Before
    BY <1>1 DEF Before, Working
  <2> HIDE DEF d
  <2> QED  BY <1>1, <2>3, <2>4, SignInAdvances
<1> QED  BY <1>2, <1>3, <1>4 DEF Provision!ReadBinding

LEMMA WriteKeepsBindings ==
  ASSUME SignInv, NEW r \in SignIns, Provision!WriteBinding(r), UNCHANGED replica
  PROVE  SignInv'
<1> DEFINE s == Provision!SubjectOf(r)
<1>1. /\ pc[r] = "write" /\ UNCHANGED <<user, session, entry, account, created, latest>>
      /\ user[r] \in Provision!Accounts /\ Provision!Verified(CredentialOf[r]) # {}
      /\ user = [user EXCEPT ![r] = user[r]]
  <2>1. pc[r] = "write" /\ UNCHANGED <<user, session, entry, account, created, latest>>
    BY DEF Provision!WriteBinding
  <2> QED  BY <2>1, SameUser DEF SignInv, SignTypes, Bindings
<1>2. CASE Provision!Advance(r, "reread") /\ Provision!Abandon(r) /\ UNCHANGED binding
  <2>1. Abandons(r)
    BY <1>1, <1>2 DEF Abandons, Provision!Abandon, Calling
  <2> QED  BY <1>1, <1>2, <2>1, SignInAdvances DEF Before, Working
<1>3. CASE /\ Provision!Advance(r, "check") /\ UNCHANGED adrift
           /\ binding[s] = None /\ binding' = [binding EXCEPT ![s] = Provision!Document(user[r])]
  <2>1. /\ \A q \in SignIns : pc'[q] = IF q = r THEN "check" ELSE pc[q]
        /\ UNCHANGED <<result, entries, users>>
    BY <1>3 DEF Provision!Advance, Provision!Goto, SignInv, SignTypes
  <2>2. /\ DOMAIN binding' = Provision!Subjects
        /\ LET d == binding'[s] IN d # None /\ Provision!Readable(d) /\ d.user = user[r]
        /\ \A q \in SignIns : \A b : Provision!Verified(CredentialOf[q]) # {} /\ BoundTo(q, b) =>
             LET d == binding'[Provision!SubjectOf(q)] IN d # None /\ Provision!Readable(d) /\ d.user = b
    BY <1>1, <1>3, CreationKeepsBindings
  <2>3. Gates'
    BY <1>1, <1>3, GatesAdvance DEF SignInv, Before, Working
  <2>4. SignTypes'
    <3>1. pc' \in [SignIns -> Steps]
      BY <1>3 DEF Provision!Advance, Provision!Goto, SignInv, SignTypes, Steps, Working
    <3>2. \A q \in SignIns : pc'[q] \notin {"new", "done"} \/ result'[q] # 0
                               => Provision!Verified(CredentialOf[q]) # {}
      BY <1>1, <2>1 DEF SignInv, SignTypes
    <3>3. entries' \in [{replica'[q] : q \in SignIns} \X Provision!Subjects -> Provision!Entries \cup {0}]
      BY <2>1 DEF SignInv, SignTypes
    <3> QED  BY <1>1, <2>1, <2>2, <3>1, <3>2, <3>3 DEF SignInv, SignTypes
  <2>5. Owned'
    BY <1>1, <1>3, <2>1, OwnedStays DEF SignInv
  <2>6. ASSUME NEW q \in SignIns
        PROVE  /\ pc'[q] = "check" => BoundTo(q, user[q])'
               /\ result'[q] # 0 => BoundTo(q, result[q])'
    <3>1. Provision!SubjectOf(q)' = Provision!SubjectOf(q)
      BY DEF Provision!SubjectOf
    <3>2. result'[q] # 0 => BoundTo(q, result[q])'
      BY <2>1, <2>2, <3>1 DEF SignInv, SignTypes, Bindings, BoundTo
    <3>3. CASE q = r
      BY <1>1, <2>2, <3>1, <3>2, <3>3 DEF BoundTo
    <3>4. CASE q # r
      BY <1>1, <2>1, <2>2, <3>1, <3>2, <3>4 DEF SignInv, SignTypes, Bindings, BoundTo
    <3> QED  BY <3>3, <3>4
  <2>7. \A q \in SignIns : pc'[q] \in {"bind", "write"} => user'[q] \in Provision!Accounts
    BY <1>1, <2>1 DEF SignInv, Bindings
  <2>8. Bindings'
    BY <2>6, <2>7 DEF Bindings
  <2>9. CallsKnown'
    BY <1>3, CallsStayKnown DEF Abandons
  <2> QED  BY <2>3, <2>4, <2>5, <2>8, <2>9 DEF SignInv
<1> QED  BY <1>2, <1>3 DEF Provision!WriteBinding, Provision!Creates

\* A deleted account leaves its identity without one, and nobody signed in.
LEMMA DeleteKeeps ==
  ASSUME SignInv, NEW s \in Provision!Subjects, Provision!DeleteAccount(s), UNCHANGED replica
  PROVE  SignInv'
<1>1. /\ account[s] # 0 /\ account' = [account EXCEPT ![s] = 0]
      /\ latest' = [latest EXCEPT ![account[s]] = None]
      /\ UNCHANGED <<pc, user, left, session, result, entry, entries, tokens, users, binding, created, adrift>>
  BY DEF Provision!DeleteAccount, Provision!requestVars, Provision!gateVars
<1>2. /\ \A t \in Provision!Subjects : account'[t] = IF t = s THEN 0 ELSE account[t]
      /\ \A a \in Provision!Accounts : latest'[a] \in {latest[a], None}
      /\ account' \in [Provision!Subjects -> 0..created]
      /\ DOMAIN latest' = Provision!Accounts
  BY <1>1 DEF SignInv, SignTypes
<1>3. SignTypes'
  BY <1>1, <1>2 DEF SignInv, SignTypes
<1>4. Gates'
  BY <1>1 DEF SignInv, Gates, Live, Holds, Counted, Provision!Key, Provision!SubjectOf
<1>5. Owned'
  <2>1. 1..created \subseteq Provision!Accounts
    BY SignInsAreFinite DEF SignInv, SignTypes, Provision!Accounts
  <2>2. \A q \in SignIns : Provision!SubjectOf(q)' = Provision!SubjectOf(q)
    BY DEF Provision!SubjectOf
  <2>3. \A p, t \in Provision!Subjects : account'[p] = account'[t] /\ account'[p] # 0 => p = t
    BY <1>2 DEF SignInv, Owned
  <2>4. ASSUME NEW q \in SignIns, pc'[q] = "verify"
        PROVE  /\ session'[q] \in 1..created'
               /\ \A t \in Provision!Subjects : account'[t] = session'[q] => t = Provision!SubjectOf(q)
               /\ \A p \in SignIns : q # p /\ latest'[session'[q]] = Provision!Given(p) => replica'[p] # replica'[q]
    <3>1. /\ session[q] \in 1..created /\ pc[q] = "verify"
          /\ \A t \in Provision!Subjects : account[t] = session[q] => t = Provision!SubjectOf(q)
          /\ \A p \in SignIns : q # p /\ latest[session[q]] = Provision!Given(p) => replica[p] # replica[q]
      BY <1>1, <2>4 DEF SignInv, Owned, Provision!EndedElsewhere
    <3>2. session[q] # 0
      BY <3>1 DEF SignInv, SignTypes
    <3>3. latest'[session[q]] \in {latest[session[q]], None}
      BY <1>2, <2>1, <3>1
    <3>4. \A p \in SignIns : Provision!Given(p) # None
      BY SignInsAreFinite
    <3> QED  BY <1>1, <1>2, <3>1, <3>2, <3>3, <3>4
  <2>5. \A q \in SignIns : Provision!Given(q)' = Provision!Given(q)
    BY DEF Provision!Given
  <2> QED  BY <2>2, <2>3, <2>4, <2>5 DEF Owned, Provision!EndedElsewhere
<1>6. Bindings'
  BY <1>1 DEF SignInv, Bindings, BoundTo, Provision!SubjectOf
<1>7. CallsKnown'
  BY <1>1 DEF SignInv, CallsKnown
<1> QED  BY <1>3, <1>4, <1>5, <1>6, <1>7 DEF SignInv

LEMMA QuietSignIns ==
  ASSUME SignInv,
         UNCHANGED <<replica, pc, user, session, result, entry, entries, tokens, users, binding, account, created, latest,
                     adrift>>
  PROVE  SignInv'
BY DEF SignInv, CallsKnown, SignTypes, Gates, Live, Holds, Counted, Owned, Provision!EndedElsewhere, Bindings, BoundTo,
       Provision!Key, Provision!SubjectOf

LEMMA SignInStep ==
  ASSUME SignInv, [Provision!Next]_(Provision!vars)
  PROVE  SignInv'
<1>1. CASE UNCHANGED Provision!vars
  BY <1>1, QuietSignIns DEF Provision!vars, Provision!requestVars, Provision!gateVars, Provision!nakamaVars
<1>2. ASSUME NEW r \in SignIns, Provision!Serve(r), UNCHANGED replica PROVE SignInv'
  <2>1. CASE Provision!VerifyIdentity(r)
    <3>1. pc[r] = "new" /\ user = [user EXCEPT ![r] = user[r]]
      BY <2>1, SameUser DEF Provision!VerifyIdentity, SignInv
    <3>2. CASE /\ Provision!Verified(CredentialOf[r]) # {} /\ Provision!Advance(r, "lookup")
               /\ UNCHANGED <<user, left, session, entry, Provision!nakamaVars>>
      BY <1>2, <3>1, <3>2, SignInAdvances DEF Provision!nakamaVars, Abandons, Before, Working
    <3>3. CASE Provision!Fail(r)
      BY <1>2, <3>1, <3>3, SignInFails
    <3> QED  BY <2>1, <3>2, <3>3 DEF Provision!VerifyIdentity
  <2>2. CASE Provision!CallFails(r)
    BY <1>2, <2>2, SignInFails DEF Provision!CallFails
  <2>3. CASE Provision!Lookup(r)
    BY <1>2, <2>3, LookupKeeps
  <2>4. CASE Provision!CheckAccount(r)
    BY <1>2, <2>4, CheckKeeps
  <2>5. CASE Provision!EnterGate(r)
    <3>1. SignTypes' /\ Gates'
      BY <1>2, <2>5, GatesEnter DEF SignInv
    <3>2. /\ pc' = [pc EXCEPT ![r] = "gate"]
          /\ UNCHANGED <<user, session, result, binding, account, created, disabled, latest, adrift>>
      BY <2>5 DEF Provision!EnterGate, Provision!Goto, Provision!nakamaVars
    <3>3. CallsKnown'
      BY <3>2, CallsStayKnown DEF Abandons
    <3> QED  BY <1>2, <3>1, <3>2, <3>3, OwnedStays, BindingsStay DEF SignInv, SignTypes, Bindings
  <2>6. CASE Provision!TakeToken(r)
    <3>1. SignTypes' /\ Gates'
      BY <1>2, <2>6, GatesTake DEF SignInv
    <3>2. /\ pc' = [pc EXCEPT ![r] = "relookup"]
          /\ UNCHANGED <<user, session, result, binding, account, created, disabled, latest, adrift>>
      BY <2>6 DEF Provision!TakeToken, Provision!Goto, Provision!nakamaVars
    <3>3. CallsKnown'
      BY <3>2, CallsStayKnown DEF Abandons
    <3> QED  BY <1>2, <3>1, <3>2, <3>3, OwnedStays, BindingsStay DEF SignInv, SignTypes, Bindings
  <2>7. CASE Provision!Authenticate(r)
    BY <1>2, <2>7, AuthenticateKeeps
  <2>8. CASE Provision!VerifySession(r)
    BY <1>2, <2>8, VerifyKeeps
  <2>9. CASE Provision!ReadBinding(r)
    BY <1>2, <2>9, ReadKeepsBinding
  <2>10. CASE Provision!WriteBinding(r)
    BY <1>2, <2>10, WriteKeepsBindings
  <2>11. CASE Provision!Unanswered(r)
    BY <1>2, <2>11, UnansweredKeeps
  <2> QED  BY <1>2, <2>1, <2>2, <2>3, <2>4, <2>5, <2>6, <2>7, <2>8, <2>9, <2>10, <2>11 DEF Provision!Serve
<1>3. ASSUME NEW a \in Provision!Accounts, Provision!DisableAccount(a), UNCHANGED replica PROVE SignInv'
  BY <1>3, QuietSignIns DEF Provision!DisableAccount, Provision!requestVars, Provision!gateVars
<1> QED  BY <1>1, <1>2, <1>3, DeleteKeeps, LandKeeps DEF Provision!Next

\* Whoever signs in with an identity is given the account it stays bound to, and two
\* first sign-ins that were given tokens on one replica never end each other's session,
\* however many sign-ins, replicas and accounts there are, and whatever becomes of the
\* calls that nobody waits for any more.
THEOREM SignInsAreOfOneAccount == PlatformSpec => []SignInsAgree
<1> DEFINE Kept == part = "signins" => SignInv
<1>1. PlatformInit => Kept
  BY SignInsStart DEF PlatformInit
<1>2. Kept /\ [PlatformNext]_platformVars => Kept'
  <2> SUFFICES ASSUME Kept, [PlatformNext]_platformVars, part' = "signins" PROVE SignInv'
    OBVIOUS
  <2>1. part = "signins"
    BY DEF PlatformNext, platformVars
  <2> QED  BY <2>1, SignInsRun, SignInStep
<1>3. Kept => SignInsAgree
  BY DEF SignInsAgree, SignInv, Owned, Bindings, BoundTo, Provision!AnswerStaysBound
<1> QED  BY <1>1, <1>2, <1>3, PTL DEF PlatformSpec
=============================================================================
