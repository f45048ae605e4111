---------------------------- MODULE LaunchProofs ----------------------------
(***************************************************************************)
(* From set-up to the first join, for every deployment of the duel         *)
(* program, every way a tenant may say its ELO is stored, every number of  *)
(* values of a byte and every queue a newcomer meets.                      *)
(***************************************************************************)
EXTENDS Launch, SequenceTheorems, WellFoundedInduction, TLAPS

-----------------------------------------------------------------------------
(* The loop of join_queue finds the opponent ClosestMatch asks for, for     *)
(* every queue, ELO and window.                                             *)

(* The distance of two ELO values is a natural number. *)
LEMMA DistanceNat ==
  ASSUME NEW x \in Nat, NEW y \in Nat
  PROVE  Distance(x, y) \in Nat
BY DEF Distance

(* So is the distance of every entry of the queue to the newcomer. *)
LEMMA DistancesNat ==
  ASSUME TypeOK
  PROVE  \A j \in 1..Len(waiting) :
           waiting[j].elo \in Nat /\ Distance(waiting[j].elo, elo) \in Nat
<1> SUFFICES ASSUME NEW j \in 1..Len(waiting)
             PROVE  waiting[j].elo \in Nat /\ Distance(waiting[j].elo, elo) \in Nat
  OBVIOUS
<1>1. waiting[j] \in [elo : Elos]
  BY ElementOfSeq DEF TypeOK
<1>2. waiting[j].elo \in Nat /\ elo \in Nat
  BY <1>1, ScanAssumption DEF TypeOK
<1> QED
  BY <1>2, DistanceNat

(* One step of the loop: its variables keep their types and it stays in the *)
(* queue.                                                                   *)
LEMMA ScanTypes ==
  ASSUME TypeOK, Scan
  PROVE  TypeOK'
<1> DEFINE diff == Distance(waiting[i].elo, elo)
<1>1. i \in 1..Len(waiting)
  BY DEF Scan, TypeOK
<1>2. diff \in Nat
  BY <1>1, DistancesNat
<1> QED
  BY <1>1, <1>2 DEF Scan, TypeOK

(* One step of the loop: what it keeps is still the best of what it has     *)
(* looked at.                                                               *)
LEMMA ScanKeeps ==
  ASSUME TypeOK, BestSoFar, Scan
  PROVE  BestSoFar'
<1> DEFINE D(j) == Distance(waiting[j].elo, elo)
<1>1. \A j \in 1..Len(waiting) : D(j) \in Nat
  BY DistancesNat
<1>2. i \in 1..Len(waiting) /\ i' = i + 1 /\ UNCHANGED <<waiting, elo>>
  BY DEF Scan, TypeOK
<1>3. Window \in Nat /\ best \in 0..i - 1 /\ bestDiff \in Nat
  BY ScanAssumption DEF TypeOK
<1>4. CASE D(i) <= Window /\ Improves(D(i))
  <2>1. best' = i /\ bestDiff' = D(i)
    BY <1>4 DEF Scan
  <2>2. \A j \in 1..i : D(j) > D(i) \/ (D(j) = D(i) /\ i <= j)
    <3> SUFFICES ASSUME NEW j \in 1..i, j # i PROVE D(j) > D(i)
      OBVIOUS
    <3>1. j \in 1..i - 1
      BY <1>2
    <3>2. CASE best = 0
      BY <3>1, <3>2, <1>1, <1>2, <1>3, <1>4 DEF BestSoFar, InWindow
    <3>3. CASE best # 0 /\ D(i) < bestDiff
      BY <3>1, <3>3, <1>1, <1>2, <1>3 DEF BestSoFar
    <3> QED
      BY <3>2, <3>3, <1>4 DEF Improves
  <2> HIDE DEF D
  <2>3. D(i) <= Window
    BY <1>4
  <2> QED
    BY <2>1, <2>2, <2>3, <1>2 DEF BestSoFar, InWindow, D
<1>5. CASE ~ (D(i) <= Window /\ Improves(D(i)))
  <2>1. best' = best /\ bestDiff' = bestDiff
    BY <1>5 DEF Scan
  <2>2. CASE best = 0
    BY <2>1, <2>2, <1>2, <1>5 DEF BestSoFar, InWindow, Improves
  <2>3. CASE best # 0
    <3>1. bestDiff <= Window
      BY <2>3 DEF BestSoFar, InWindow
    <3>2. D(i) >= bestDiff
      BY <3>1, <2>3, <1>1, <1>2, <1>3, <1>5 DEF Improves
    <3> QED
      BY <3>2, <2>1, <2>3, <1>1, <1>2, <1>3 DEF BestSoFar, InWindow
  <2> QED
    BY <2>2, <2>3
<1> QED
  BY <1>4, <1>5

(* What the loop has kept at the end of the queue is the answer.            *)
LEMMA BestIsAnswer ==
  ASSUME TypeOK, BestSoFar
  PROVE  ScanCorrect
<1> SUFFICES ASSUME i > Len(waiting)
             PROVE  IF best = 0 THEN Candidates(waiting, elo, Window) = {}
                    ELSE IsBestMatch(best, waiting, elo, Window)
  BY DEF ScanCorrect
<1>1. 1..i - 1 = DOMAIN waiting /\ DOMAIN waiting = 1..Len(waiting)
  BY DEF TypeOK
<1>2. CASE best = 0
  BY <1>1, <1>2 DEF BestSoFar, Candidates
<1>3. CASE best # 0
  <2>1. best \in Candidates(waiting, elo, Window)
    BY <1>1, <1>3 DEF BestSoFar, Candidates, TypeOK
  <2>2. bestDiff \in Nat /\ \A j \in DOMAIN waiting :
          Distance(waiting[j].elo, elo) \in Nat
    BY <1>1, DistancesNat DEF TypeOK
  <2> QED
    BY <1>1, <1>3, <2>1, <2>2 DEF BestSoFar, IsBestMatch, Candidates
<1> QED
  BY <1>2, <1>3

(* The loop variables keep their types, and the loop stays in the queue. *)
THEOREM ScanTyped == Spec => []TypeOK
<1>1. Init => TypeOK
  <2> SUFFICES ASSUME Init PROVE TypeOK
    OBVIOUS
  <2>1. waiting \in Seq([elo : Elos]) /\ elo \in Nat
    BY ScanAssumption DEF Init
  <2>2. Len(waiting) \in Nat
    BY <2>1, LenProperties
  <2> QED
    BY <2>1, <2>2 DEF Init, TypeOK
<1>2. TypeOK /\ [Next]_vars => TypeOK'
  BY ScanTypes DEF Next, Done, TypeOK, vars
<1> QED
  BY <1>1, <1>2, PTL DEF Spec

(* What the loop has kept is the best of the entries it has looked at. *)
THEOREM ScanKeepsBest == Spec => []BestSoFar
<1>1. Init => BestSoFar
  BY DEF Init, BestSoFar
<1>2. TypeOK /\ BestSoFar /\ [Next]_vars => BestSoFar'
  <2>1. ASSUME BestSoFar, UNCHANGED vars PROVE BestSoFar'
    BY <2>1 DEF BestSoFar, vars
  <2> QED
    BY <2>1, ScanKeeps DEF Next, Done
<1> QED
  BY <1>1, <1>2, ScanTyped, PTL DEF Spec

(* When the loop ends, its answer is the closest waiting entry of the window, *)
(* the earliest of equals, and it has none only when there is none.           *)
THEOREM ScanFindsBestMatch == Spec => []ScanCorrect
<1>1. TypeOK /\ BestSoFar => ScanCorrect
  BY BestIsAnswer
<1> QED
  BY <1>1, ScanTyped, ScanKeepsBest, PTL

-----------------------------------------------------------------------------
(* Data read by position. *)

(* A set of natural numbers has a least one. *)
LEMMA LeastNat ==
  ASSUME NEW Members \in SUBSET Nat, Members # {}
  PROVE  \E n \in Members : \A m \in Members : n <= m
<1>1. ASSUME NEW m \in Nat, NEW n \in Nat, m < n
      PROVE  <<m, n>> \in OpToRel(<, Nat)
  <2>1. <<m, n>> \in Nat \X Nat /\ <<m, n>>[1] = m /\ <<m, n>>[2] = n
    OBVIOUS
  <2>2. <<m, n>>[1] < <<m, n>>[2]
    BY <1>1, <2>1
  <2> QED
    BY <2>1, <2>2, Zenon DEF OpToRel
<1>2. PICK n \in Members : \A m \in Members : ~ (<<m, n>> \in OpToRel(<, Nat))
  BY WFMin, NatLessThanWellFounded, Zenon
<1>3. \A m \in Members : ~ (m < n)
  BY <1>1, <1>2, Zenon
<1> QED
  BY <1>3

(* Induction over the natural numbers, for the members of a set.            *)
LEMMA SetInduction ==
  ASSUME NEW Reached, 0 \in Reached, \A n \in Nat : n \in Reached => n + 1 \in Reached
  PROVE  \A n \in Nat : n \in Reached
<1> SUFFICES ASSUME Nat \ Reached # {} PROVE FALSE
  OBVIOUS
<1>1. PICK n \in Nat \ Reached : \A m \in Nat \ Reached : n <= m
  BY LeastNat
<1>2. n # 0 /\ n - 1 \in Nat /\ n - 1 \in Reached
  BY <1>1
<1> QED
  BY <1>1, <1>2

(* A recursion on the bytes before has a solution: for a byte's weight, ... *)
LEMMA WeightsExist ==
  ASSUME NEW B \in Nat \ {0}
  PROVE  \A n \in Nat : \E f \in [0..n -> Nat \ {0}] :
           f = [k \in 0..n |-> IF k = 0 THEN 1 ELSE B * f[k - 1]]
<1> DEFINE Times(x) == B * x
           Solves(n, f) == f = [k \in 0..n |-> IF k = 0 THEN 1 ELSE Times(f[k - 1])]
           Reached == {n \in Nat : \E f \in [0..n -> Nat \ {0}] : Solves(n, f)}
<1>1. \A x \in Nat \ {0} : Times(x) \in Nat \ {0}
  OBVIOUS
<1> HIDE DEF Times
<1>2. 0 \in Reached
  <2> DEFINE f == [k \in 0..0 |-> 1]
  <2>1. f \in [0..0 -> Nat \ {0}] /\ Solves(0, f)
    OBVIOUS
  <2> QED
    BY <2>1
<1>3. ASSUME NEW n \in Nat, n \in Reached PROVE n + 1 \in Reached
  <2> SUFFICES \E f \in [0..n + 1 -> Nat \ {0}] : Solves(n + 1, f)
    OBVIOUS
  <2>1. PICK f \in [0..n -> Nat \ {0}] : Solves(n, f)
    BY <1>3
  <2> DEFINE g == [k \in 0..n + 1 |-> IF k = n + 1 THEN Times(f[n]) ELSE f[k]]
  <2>2. g \in [0..n + 1 -> Nat \ {0}]
    BY <1>1, <2>1
  <2>3. \A k \in 0..n + 1 : g[k] = IF k = 0 THEN 1 ELSE Times(g[k - 1])
    BY <2>1
  <2> HIDE DEF g
  <2>4. Solves(n + 1, g)
    BY <2>2, <2>3
  <2> QED
    BY <2>2, <2>4
<1> HIDE DEF Reached
<1>4. \A n \in Nat : n \in Reached
  BY <1>2, <1>3, SetInduction
<1> QED
  BY <1>4 DEF Reached, Times

LEMMA WeightDef ==
  /\ Weight \in [0..8 -> Nat \ {0}]
  /\ Weight[0] = 1
  /\ \A k \in 1..8 : Weight[k] = ByteValues * Weight[k - 1]
<1>1. Width.u64 = 8
  BY DEF Width
<1>2. PICK f \in [0..8 -> Nat \ {0}] :
        f = [k \in 0..8 |-> IF k = 0 THEN 1 ELSE ByteValues * f[k - 1]]
  BY WeightsExist, LaunchAssumption
<1>3. Weight = [k \in 0..8 |-> IF k = 0 THEN 1 ELSE ByteValues * Weight[k - 1]]
  BY <1>1, <1>2 DEF Weight
<1> DEFINE Reached == {k \in Nat : k <= 8 => Weight[k] = f[k]}
<1>4. 0 \in Reached
  BY <1>2, <1>3
<1>5. ASSUME NEW k \in Nat, k \in Reached PROVE k + 1 \in Reached
  BY <1>2, <1>3, <1>5
<1> HIDE DEF Reached
<1>6. \A k \in Nat : k \in Reached
  BY <1>4, <1>5, SetInduction
<1>7. \A k \in 0..8 : Weight[k] = f[k]
  BY <1>6 DEF Reached
<1> QED
  BY <1>2, <1>3, <1>7

(* ... and for what the bytes up to one make.                               *)
LEMMA NumbersExist ==
  ASSUME NEW L \in 0..8, NEW bytes \in [1..L -> Nat]
  PROVE  \E f \in [0..L -> Nat] :
           f = [n \in 0..L |-> IF n = 0 THEN 0
                               ELSE f[n - 1] + bytes[n] * Weight[n - 1]]
<1> DEFINE Plus(x, k) == x + bytes[k] * Weight[k - 1]
           Solves(n, f) == f = [k \in 0..n |-> IF k = 0 THEN 0 ELSE Plus(f[k - 1], k)]
           Reached == {n \in Nat : n <= L => \E f \in [0..n -> Nat] : Solves(n, f)}
<1>1. \A x \in Nat, k \in 1..L : Plus(x, k) \in Nat
  <2> SUFFICES ASSUME NEW x \in Nat, NEW k \in 1..L PROVE Plus(x, k) \in Nat
    OBVIOUS
  <2>1. k - 1 \in 0..8 /\ bytes[k] \in Nat
    OBVIOUS
  <2>2. Weight[k - 1] \in Nat
    BY <2>1, WeightDef
  <2>3. \A y, z \in Nat : x + y * z \in Nat
    OBVIOUS
  <2> QED
    BY <2>1, <2>2, <2>3
<1> HIDE DEF Plus
<1>2. 0 \in Reached
  <2> DEFINE f == [k \in 0..0 |-> 0]
  <2>1. f \in [0..0 -> Nat] /\ Solves(0, f)
    OBVIOUS
  <2> QED
    BY <2>1
<1>3. ASSUME NEW n \in Nat, n \in Reached PROVE n + 1 \in Reached
  <2> SUFFICES ASSUME n + 1 <= L
               PROVE  \E f \in [0..n + 1 -> Nat] : Solves(n + 1, f)
    OBVIOUS
  <2>1. PICK f \in [0..n -> Nat] : Solves(n, f)
    BY <1>3
  <2> DEFINE g == [k \in 0..n + 1 |-> IF k = n + 1 THEN Plus(f[n], n + 1) ELSE f[k]]
  <2>2. g \in [0..n + 1 -> Nat]
    <3>1. n + 1 \in 1..L /\ f[n] \in Nat
      BY <2>1
    <3>2. Plus(f[n], n + 1) \in Nat
      BY <1>1, <3>1
    <3> QED
      BY <2>1, <3>2
  <2>3. \A k \in 0..n + 1 : g[k] = IF k = 0 THEN 0 ELSE Plus(g[k - 1], k)
    BY <2>1
  <2> HIDE DEF g
  <2>4. Solves(n + 1, g)
    BY <2>2, <2>3
  <2> QED
    BY <2>2, <2>4
<1> HIDE DEF Reached
<1>4. \A n \in Nat : n \in Reached
  BY <1>2, <1>3, SetInduction
<1>5. L \in Reached
  BY <1>4
<1>6. PICK f \in [0..L -> Nat] : Solves(L, f)
  BY <1>5 DEF Reached
<1> QED
  BY <1>6 DEF Plus

(* Quotient and remainder: what they satisfy, and that nothing else does.   *)
LEMMA Division ==
  ASSUME NEW x \in Nat, NEW m \in Nat \ {0}
  PROVE  /\ x \div m \in Nat /\ x % m \in 0..m - 1
         /\ x = (x \div m) * m + (x % m)
OBVIOUS

LEMMA Remainder ==
  ASSUME NEW x \in Nat, NEW m \in Nat \ {0}, NEW q \in Nat, NEW r \in 0..m - 1,
         x = q * m + r
  PROVE  x % m = r
<1> DEFINE p == x \div m
           s == x % m
<1>1. p \in Nat /\ s \in 0..m - 1 /\ x = p * m + s
  BY Division
<1> HIDE DEF p, s
<1>2. \A a, b \in Nat : a < b => (a + 1) * m <= b * m
  OBVIOUS
<1>3. \A a \in Nat : (a + 1) * m = a * m + m
  OBVIOUS
<1>4. \A a \in Nat : a * m \in Nat
  OBVIOUS
<1>5. ~ (p < q) /\ ~ (q < p)
  BY <1>1, <1>2, <1>3, <1>4
<1>6. p = q
  BY <1>1, <1>5
<1>7. s = r
  BY <1>1, <1>4, <1>6
<1> QED
  BY <1>7 DEF s

LEMMA DigitNat ==
  ASSUME NEW x \in Nat, NEW m \in Nat \ {0}, NEW n \in Nat \ {0}
  PROVE  (x \div m) % n \in Nat
<1>1. x \div m \in Nat
  BY Division
<1>2. (x \div m) % n \in 0..n - 1
  BY <1>1, Division
<1> QED
  BY <1>2

(* One more byte of a number, the low one first.                            *)
LEMMA OneMoreByte ==
  ASSUME NEW x \in Nat, NEW B \in Nat \ {0}, NEW V \in Nat \ {0}
  PROVE  x % (B * V) = (x % V) + ((x \div V) % B) * V
<1> DEFINE q == x \div V
           r == x % V
           p == q \div B
           d == q % B
<1>1. q \in Nat /\ r \in 0..V - 1 /\ x = q * V + r
  BY Division
<1> HIDE DEF q, r
<1>2. p \in Nat /\ d \in 0..B - 1 /\ q = p * B + d
  BY <1>1, Division
<1> HIDE DEF p, d
<1>3. B * V \in Nat \ {0} /\ d * V \in Nat
  BY <1>2
<1>4. (d + 1) * V <= B * V /\ (d + 1) * V = d * V + V
  BY <1>2
<1>5. r + d * V \in 0..B * V - 1
  <2>1. \A a, b \in Nat : a + V <= b => r + a \in 0..b - 1
    BY <1>1
  <2> QED
    BY <2>1, <1>3, <1>4
<1>6. x = p * (B * V) + (r + d * V)
  <2>1. (p * B + d) * V = p * (B * V) + d * V
    BY <1>2
  <2> QED
    BY <1>1, <1>2, <1>3, <2>1
<1>7. x % (B * V) = r + d * V
  BY <1>2, <1>3, <1>5, <1>6, Remainder
<1> QED
  BY <1>7 DEF q, r, p, d

(* Of all fields of a profile, the ELO is the one at 40.                    *)
LEMMA ProfileOffsets ==
  /\ EloField = 2
  /\ \A k \in DOMAIN PlayerProfile :
       Offset(PlayerProfile, k) = <<8, 40, 48, 56>>[k]
<1>1. EloField = 2
  BY DEF EloField, PlayerProfile
<1> DEFINE Solves(f) ==
             f = [n \in DOMAIN PlayerProfile |->
                    IF n = 1 THEN 8 ELSE f[n - 1] + Width[PlayerProfile[n - 1][2]]]
<1>2. DOMAIN PlayerProfile = 1..4
  BY DEF PlayerProfile
<1>3. /\ Width[PlayerProfile[1][2]] = 32
      /\ Width[PlayerProfile[2][2]] = 8
      /\ Width[PlayerProfile[3][2]] = 8
  BY DEF PlayerProfile, Width
<1>4. Solves(<<8, 40, 48, 56>>)
  BY <1>2, <1>3
<1>5. ASSUME NEW f, Solves(f)
      PROVE  \A k \in DOMAIN PlayerProfile : f[k] = <<8, 40, 48, 56>>[k]
  <2>1. f[1] = 8
    BY <1>2, <1>5
  <2>2. f[2] = 40
    BY <1>2, <1>3, <1>5, <2>1
  <2>3. f[3] = 48
    BY <1>2, <1>3, <1>5, <2>2
  <2>4. f[4] = 56
    BY <1>2, <1>3, <1>5, <2>3
  <2> QED
    BY <1>2, <2>1, <2>2, <2>3, <2>4
<1>6. Solves(CHOOSE f : Solves(f))
  BY <1>4
<1> QED
  BY <1>1, <1>5, <1>6 DEF Offset

(* What bytes make is a natural number, built up byte by byte.              *)
LEMMA NumberDef ==
  ASSUME NEW L \in 0..8, NEW bytes \in [1..L -> Nat]
  PROVE  \E f \in [0..L -> Nat] :
           /\ f[0] = 0
           /\ \A n \in 1..L : f[n] = f[n - 1] + bytes[n] * Weight[n - 1]
           /\ Number(bytes) = f[L]
<1> DEFINE Plus(x, k) == x + bytes[k] * Weight[k - 1]
           Solves(f) == f = [k \in 0..L |-> IF k = 0 THEN 0 ELSE Plus(f[k - 1], k)]
           number == CHOOSE f : Solves(f)
<1>1. Len(bytes) = L
  OBVIOUS
<1>2. PICK f \in [0..L -> Nat] : Solves(f)
  BY NumbersExist
<1>3. Number(bytes) = number[L]
  BY <1>1 DEF Number
<1>4. Solves(number)
  BY <1>2
<1> HIDE DEF number, Plus
<1> DEFINE Reached == {k \in Nat : k <= L => number[k] = f[k]}
<1>5. 0 \in Reached
  BY <1>2, <1>4
<1>6. ASSUME NEW k \in Nat, k \in Reached PROVE k + 1 \in Reached
  BY <1>2, <1>4, <1>6
<1> HIDE DEF Reached
<1>7. \A k \in Nat : k \in Reached
  BY <1>5, <1>6, SetInduction
<1>8. number[L] = f[L]
  BY <1>7 DEF Reached
<1>9. f[0] = 0 /\ \A n \in 1..L : f[n] = Plus(f[n - 1], n)
  BY <1>2
<1> QED
  BY <1>2, <1>3, <1>8, <1>9 DEF Plus

(* The bytes of a number, read where they are, make the number again as far *)
(* as they go.                                                              *)
LEMMA BytesMakeNumber ==
  ASSUME NEW x \in Nat, NEW L \in 0..8
  PROVE  Number([n \in 1..L |-> (x \div Weight[n - 1]) % ByteValues]) = x % Weight[L]
<1> DEFINE bytes == [n \in 1..L |-> (x \div Weight[n - 1]) % ByteValues]
<1>1. ByteValues \in Nat \ {0}
  BY LaunchAssumption
<1>2. \A n \in 0..L : Weight[n] \in Nat \ {0}
  BY WeightDef
<1>3. bytes \in [1..L -> Nat]
  <2> SUFFICES ASSUME NEW n \in 1..L
               PROVE  (x \div Weight[n - 1]) % ByteValues \in Nat
    OBVIOUS
  <2>1. Weight[n - 1] \in Nat \ {0}
    BY <1>2
  <2>2. x \div Weight[n - 1] \in Nat
    BY <2>1, Division
  <2> QED
    BY <1>1, <2>2, Division
<1>4. PICK f \in [0..L -> Nat] :
        /\ f[0] = 0
        /\ \A n \in 1..L : f[n] = f[n - 1] + bytes[n] * Weight[n - 1]
        /\ Number(bytes) = f[L]
  BY <1>3, NumberDef
<1> DEFINE Reached == {n \in Nat : n <= L => f[n] = x % Weight[n]}
<1>5. 0 \in Reached
  <2>1. x % 1 = 0
    BY Division
  <2> QED
    BY <1>4, <2>1, WeightDef
<1>6. ASSUME NEW n \in Nat, n \in Reached PROVE n + 1 \in Reached
  <2> SUFFICES ASSUME n + 1 <= L PROVE f[n + 1] = x % Weight[n + 1]
    OBVIOUS
  <2>1. n + 1 \in 1..L /\ n \in 0..L /\ f[n] = x % Weight[n]
    BY <1>6
  <2>2. bytes[n + 1] = (x \div Weight[n]) % ByteValues
    BY <2>1
  <2>3. Weight[n + 1] = ByteValues * Weight[n]
    <3>1. n + 1 \in 1..8 /\ (n + 1) - 1 = n
      BY <2>1
    <3>2. Weight[n + 1] = ByteValues * Weight[(n + 1) - 1]
      BY <3>1, WeightDef
    <3> QED
      BY <3>1, <3>2
  <2>4. x % (ByteValues * Weight[n]) =
          (x % Weight[n]) + ((x \div Weight[n]) % ByteValues) * Weight[n]
    BY <1>1, <1>2, <2>1, OneMoreByte
  <2>5. f[n + 1] = f[n] + bytes[n + 1] * Weight[n]
    BY <1>4, <2>1
  <2> QED
    BY <2>1, <2>2, <2>3, <2>4, <2>5
<1> HIDE DEF Reached
<1>7. L \in Reached
  BY <1>5, <1>6, SetInduction
<1> QED
  BY <1>4, <1>7 DEF Reached

(* What join_queue reads is a number, and the profile's ELO where that is   *)
(* where the tenant says the ELO is.                                        *)
LEMMA EloRead ==
  ASSUME NEW profile, profile.elo \in Nat, NEW o, Readable(o)
  PROVE  /\ ReadElo(profile, o) \in Nat
         /\ BeginsAt(PlayerProfile, o.eloOffset, "elo") =>
              ReadElo(profile, o) = profile.elo % Weight[o.eloSize]
<1> DEFINE L == o.eloSize
           bytes == [n \in 1..L |-> ByteAt(profile, o.eloOffset + n - 1)]
<1>1. L \in 0..8 /\ Width.u64 = 8 /\ ByteValues \in Nat \ {0}
  BY LaunchAssumption DEF Readable, Width
<1>2. Offset(PlayerProfile, EloField) = 40
  BY ProfileOffsets DEF PlayerProfile
<1>3. \A n \in 1..L : ByteAt(profile, o.eloOffset + n - 1) \in Nat
  <2>1. \A k \in 0..7 : Weight[k] \in Nat \ {0}
    BY WeightDef
  <2>2. \A k \in 0..7 : (profile.elo \div Weight[k]) % ByteValues \in Nat
    BY <1>1, <2>1, DigitNat
  <2> QED
    BY <1>1, <1>2, <2>2 DEF ByteAt
<1>4. bytes \in [1..L -> Nat]
  BY <1>3
<1>5. ReadElo(profile, o) = Number(bytes)
  BY DEF ReadElo, FromBytes
<1>6. Number(bytes) \in Nat
  <2> HIDE DEF bytes
  <2>1. PICK f \in [0..L -> Nat] : Number(bytes) = f[L]
    BY <1>1, <1>4, NumberDef
  <2> QED
    BY <1>1, <2>1
<1>7. ASSUME BeginsAt(PlayerProfile, o.eloOffset, "elo")
      PROVE  Number(bytes) = profile.elo % Weight[L]
  <2>1. o.eloOffset = 40
    BY <1>7, ProfileOffsets DEF BeginsAt, PlayerProfile
  <2>2. bytes = [n \in 1..L |-> (profile.elo \div Weight[n - 1]) % ByteValues]
    <3> SUFFICES ASSUME NEW n \in 1..L
                 PROVE  ByteAt(profile, 40 + n - 1) =
                          (profile.elo \div Weight[n - 1]) % ByteValues
      BY <2>1
    <3>1. 40 + n - 1 - 40 = n - 1 /\ n - 1 \in 0..7
      BY <1>1
    <3> QED
      BY <1>1, <1>2, <3>1 DEF ByteAt
  <2> QED
    BY <1>1, <2>2, BytesMakeNumber
<1> QED
  BY <1>5, <1>6, <1>7

-----------------------------------------------------------------------------
(* The calls. *)

LEMMA Programs ==
  /\ DuelProgram # RpsProgram /\ DuelProgram # PermissionProgram
  /\ RpsProgram # PermissionProgram
BY DEF DuelProgram, RpsProgram, PermissionProgram, Key

LEMMA DuelBuilderNames ==
  /\ InitializeTenantBuilder.name = "initializeTenant"
  /\ InitializeQueueBuilder.name = "initializeQueue"
  /\ SetupQueuePermissionBuilder.name = "setupQueuePermission"
  /\ DelegateQueueBuilder.name = "delegateQueue"
  /\ CreateTicketBuilder.name = "createTicket"
  /\ SetupTicketPermissionBuilder.name = "setupTicketPermission"
  /\ DelegateTicketBuilder.name = "delegateTicket"
  /\ JoinQueueBuilder.name = "joinQueue"
  /\ CancelTicketBuilder.name = "cancelTicket"
  /\ CloseTicketBuilder.name = "closeTicket"
  /\ FlushMatchesBuilder.name = "flushMatches"
  /\ CommitTicketsBuilder.name = "commitTickets"
BY DEF Builder, InitializeTenantBuilder, InitializeQueueBuilder, SetupQueuePermissionBuilder,
       DelegateQueueBuilder, CreateTicketBuilder, SetupTicketPermissionBuilder,
       DelegateTicketBuilder, JoinQueueBuilder, CancelTicketBuilder, CloseTicketBuilder,
       FlushMatchesBuilder, CommitTicketsBuilder

LEMMA RpsBuilderNames ==
  /\ InitializePlayerBuilder.name = "initializePlayer"
  /\ StartGameBuilder.name = "startGame"
  /\ StartGameWithTicketBuilder.name = "startGameWithTicket"
  /\ MakeChoiceBuilder.name = "makeChoice"
  /\ PersistResultsBuilder.name = "persistResults"
  /\ DelegatePdaBuilder.name = "delegatePda"
  /\ ClosePlayerBuilder.name = "closePlayer"
BY DEF Builder, InitializePlayerBuilder, StartGameBuilder, StartGameWithTicketBuilder,
       MakeChoiceBuilder, PersistResultsBuilder, DelegatePdaBuilder, ClosePlayerBuilder

TicketNames ==
  {"createTicket", "setupTicketPermission", "delegateTicket", "joinQueue", "cancelTicket",
   "closeTicket", "flushMatches", "commitTickets"}

GameNames ==
  {"initializePlayer", "startGame", "startGameWithTicket", "makeChoice", "persistResults",
   "delegatePda", "closePlayer"}

OperatorNames ==
  {"initializeTenant", "initializeQueue", "setupQueuePermission", "delegateQueue"}

PlayerNames == TicketNames \cup GameNames \cup {"delegatePermission", "delegateQueue"}

(* What is known of a call by its name: the program it is made to, and the   *)
(* arguments the proofs look at.                                            *)
Shaped(call) ==
  /\ call.b.name \in OperatorNames \cup PlayerNames
  /\ call.b.name \in OperatorNames \cup TicketNames =>
       call.program \in {duel, DuelProgram} /\ call.b.home = DuelProgram
  /\ call.b.name \in GameNames => call.program = RpsProgram
  /\ call.b.name = "delegatePermission" => call.program = PermissionProgram
  /\ call.b.name \in {"startGame", "startGameWithTicket"} =>
       call.b \in {StartGameBuilder, StartGameWithTicketBuilder} /\ call.args = started
  /\ call.b.name = "joinQueue" =>
       call.b = JoinQueueBuilder /\ call.given = JoinGiven
       /\ call.rest = <<Also(RpsProgram, FALSE)>>

LEMMA BuilderHomes ==
  /\ InitializeTenantBuilder.home = DuelProgram /\ InitializeQueueBuilder.home = DuelProgram
  /\ SetupQueuePermissionBuilder.home = DuelProgram
  /\ DelegateQueueBuilder.home = DuelProgram
  /\ CreateTicketBuilder.home = DuelProgram
  /\ SetupTicketPermissionBuilder.home = DuelProgram
  /\ DelegateTicketBuilder.home = DuelProgram /\ JoinQueueBuilder.home = DuelProgram
  /\ CancelTicketBuilder.home = DuelProgram /\ CloseTicketBuilder.home = DuelProgram
  /\ FlushMatchesBuilder.home = DuelProgram /\ CommitTicketsBuilder.home = DuelProgram
BY DEF Builder, InitializeTenantBuilder, InitializeQueueBuilder, SetupQueuePermissionBuilder,
       DelegateQueueBuilder, CreateTicketBuilder, SetupTicketPermissionBuilder,
       DelegateTicketBuilder, JoinQueueBuilder, CancelTicketBuilder, CloseTicketBuilder,
       FlushMatchesBuilder, CommitTicketsBuilder

LEMMA CallFields ==
  ASSUME NEW by, NEW signer, NEW b, NEW program, NEW given, NEW args, NEW rest
  PROVE  /\ Call(by, signer, b, program, given, args, rest).b = b
         /\ Call(by, signer, b, program, given, args, rest).program = program
         /\ Call(by, signer, b, program, given, args, rest).given = given
         /\ Call(by, signer, b, program, given, args, rest).args = args
         /\ Call(by, signer, b, program, given, args, rest).rest = rest
BY DEF Call

LEMMA PermissionCallShaped ==
  ASSUME NEW by, NEW signer, NEW account, NEW rest
  PROVE  LET call == DelegatePermission(by, signer, account, rest) IN
         Shaped(call) /\ call.b.name \in PlayerNames
<1> DEFINE call == DelegatePermission(by, signer, account, rest)
<1>1. call.b = DelegatePermissionCall /\ call.program = PermissionProgram
  BY DEF DelegatePermission, Call
<1>2. DelegatePermissionCall.name = "delegatePermission"
  BY DEF DelegatePermissionCall, Builder
<1> QED
  BY <1>1, <1>2 DEF Shaped, OperatorNames, PlayerNames, TicketNames, GameNames

LEMMA TicketCallsShaped ==
  ASSUME NEW by, NEW delegated, NEW call \in TicketCalls(by, delegated)
  PROVE  Shaped(call) /\ call.b.name \in PlayerNames
<1> DEFINE Usual(b) == /\ call.b = b
                       /\ call.program = CalledProgram(by, b)
<1>1. ASSUME NEW b, Usual(b), b.home = DuelProgram,
             b.name \in TicketNames \ {"joinQueue", "delegateTicket"}
      PROVE  Shaped(call) /\ call.b.name \in PlayerNames
  BY <1>1 DEF Shaped, CalledProgram, OperatorNames, PlayerNames, TicketNames, GameNames
<1>2. CASE call = CreateTicketCall(by)
  BY <1>1, <1>2, CallFields, BuilderHomes, DuelBuilderNames
  DEF CreateTicketCall, PlayerCall, TicketNames
<1>3. CASE call = TicketPermissionCall(by)
  BY <1>1, <1>3, CallFields, BuilderHomes, DuelBuilderNames
  DEF TicketPermissionCall, PlayerCall, TicketNames
<1>4. CASE call = DelegatePermission(by, Player, ticketPda, <<Also(Validator, FALSE)>>)
  BY <1>4, PermissionCallShaped
<1>5. CASE call = DelegateTicketCall(by, delegated)
  <2>1. Usual(DelegateTicketBuilder) /\ call.args = [accountType |-> TicketKind]
    BY <1>5, CallFields DEF DelegateTicketCall, PlayerCall
  <2> QED
    BY <2>1, BuilderHomes, DuelBuilderNames
    DEF Shaped, CalledProgram, OperatorNames, PlayerNames, TicketNames, GameNames
<1>6. CASE call = JoinQueueCall(by)
  <2>1. Usual(JoinQueueBuilder) /\ call.given = JoinGiven
        /\ call.rest = <<Also(RpsProgram, FALSE)>>
    BY <1>6, Zenon DEF JoinQueueCall, PlayerCall, Call
  <2> QED
    BY <2>1, BuilderHomes, DuelBuilderNames
    DEF Shaped, CalledProgram, OperatorNames, PlayerNames, TicketNames, GameNames
<1>7. CASE call = CancelTicketCall(by)
  BY <1>1, <1>7, CallFields, BuilderHomes, DuelBuilderNames
  DEF CancelTicketCall, PlayerCall, TicketNames
<1>8. CASE call = CloseTicketCall(by)
  BY <1>1, <1>8, CallFields, BuilderHomes, DuelBuilderNames
  DEF CloseTicketCall, PlayerCall, TicketNames
<1>9. CASE call = FlushMatchesCall(by)
  BY <1>1, <1>9, CallFields, BuilderHomes, DuelBuilderNames
  DEF FlushMatchesCall, PlayerCall, TicketNames
<1>10. CASE call = CommitTicketsCall(by)
  BY <1>1, <1>10, CallFields, BuilderHomes, DuelBuilderNames
  DEF CommitTicketsCall, PlayerCall, TicketNames
<1> QED
  BY <1>2, <1>3, <1>4, <1>5, <1>6, <1>7, <1>8, <1>9, <1>10 DEF TicketCalls

LEMMA GameCallsShaped ==
  ASSUME NEW by, NEW session, NEW call \in GameCalls(by, session) \cup IntegratorCalls
  PROVE  Shaped(call) /\ call.b.name \in PlayerNames
<1> DEFINE Usual(b) == call.b = b /\ call.program = RpsProgram
<1>1. ASSUME NEW b, Usual(b), b.name \in GameNames \ {"startGame", "startGameWithTicket"}
      PROVE  Shaped(call) /\ call.b.name \in PlayerNames
  BY <1>1 DEF Shaped, OperatorNames, PlayerNames, TicketNames, GameNames
<1>2. ASSUME NEW b \in {StartGameBuilder, StartGameWithTicketBuilder}, Usual(b),
             call.args = started
      PROVE  Shaped(call) /\ call.b.name \in PlayerNames
  BY <1>2, RpsBuilderNames DEF Shaped, OperatorNames, PlayerNames, TicketNames, GameNames
<1>3. ASSUME NEW s, NEW by2, call \in GameCalls(by2, s)
      PROVE  Shaped(call) /\ call.b.name \in PlayerNames
  <2>1. CASE call = InitializePlayerCall(by2)
    BY <1>1, <2>1, CallFields, RpsBuilderNames DEF InitializePlayerCall, GameCall, GameNames
  <2>2. CASE call = StartGameWithTicketCall(by2)
    BY <1>2, <2>2, CallFields DEF StartGameWithTicketCall, GameCall
  <2>3. CASE call = DelegatePdaCall(by2, sessionPda, s)
    BY <1>1, <2>3, CallFields, RpsBuilderNames DEF DelegatePdaCall, GameCall, GameNames
  <2>4. CASE call = MakeChoiceCall(by2)
    BY <1>1, <2>4, CallFields, RpsBuilderNames DEF MakeChoiceCall, GameCall, GameNames
  <2>5. CASE call = PersistResultsCall(by2)
    BY <1>1, <2>5, CallFields, RpsBuilderNames DEF PersistResultsCall, GameCall, GameNames
  <2> QED
    BY <1>3, <2>1, <2>2, <2>3, <2>4, <2>5 DEF GameCalls
<1>4. CASE call = StartGameCall("integrator")
  BY <1>2, <1>4, CallFields DEF StartGameCall, GameCall
<1>5. CASE call = ClosePlayerCall("integrator")
  BY <1>1, <1>5, CallFields, RpsBuilderNames DEF ClosePlayerCall, GameCall, GameNames
<1>6. CASE call = DelegatePdaCall("integrator", ProfilePda(Player), NamedProfile)
  BY <1>1, <1>6, CallFields, RpsBuilderNames DEF DelegatePdaCall, GameCall, GameNames
<1>7. CASE call = DelegateQueueCall("integrator", Player, Operator)
  <2>1. call.b = DelegateQueueBuilder /\ call.program = duel
    BY <1>7 DEF DelegateQueueCall, Call
  <2> QED
    BY <2>1, BuilderHomes, DuelBuilderNames
    DEF Shaped, OperatorNames, PlayerNames, TicketNames, GameNames
<1> QED
  BY <1>3, <1>4, <1>5, <1>6, <1>7 DEF IntegratorCalls

LEMMA PlayerCallsShaped ==
  ASSUME NEW call \in PlayerCalls
  PROVE  Shaped(call) /\ call.b.name \in PlayerNames
BY TicketCallsShaped, GameCallsShaped DEF PlayerCalls

LEMMA StepCallNamed ==
  /\ StepCall("tenant") = TenantCall(options)
  /\ StepCall("queue") = QueueCall
  /\ StepCall("permission") = QueuePermissionCall(Operator)
  /\ StepCall("permit") = DelegatePermission("sdk", Operator, queuePda, <<Also(Validator, FALSE)>>)
  /\ StepCall("delegate") = DelegateQueueCall("sdk", Operator, Operator)
BY DEF StepCall

LEMMA StepCallsShaped ==
  ASSUME NEW step \in Steps
  PROVE  /\ Shaped(StepCall(step))
         /\ step = "tenant" => StepCall(step).b = InitializeTenantBuilder
         /\ step = "queue" => StepCall(step).b = InitializeQueueBuilder
         /\ step = "permission" => StepCall(step).b = SetupQueuePermissionBuilder
         /\ step = "permit" => StepCall(step).b = DelegatePermissionCall
         /\ step = "delegate" => StepCall(step).b = DelegateQueueBuilder
<1>1. ASSUME NEW call, NEW b, call.b = b, call.program = duel, b.home = DuelProgram,
             b.name \in OperatorNames
      PROVE  Shaped(call)
  BY <1>1 DEF Shaped, OperatorNames, PlayerNames, TicketNames, GameNames
<1>2. CASE step = "tenant"
  <2>1. StepCall(step).b = InitializeTenantBuilder /\ StepCall(step).program = duel
    BY <1>2, StepCallNamed, CallFields DEF TenantCall
  <2> QED
    BY <1>1, <1>2, <2>1, BuilderHomes, DuelBuilderNames DEF OperatorNames
<1>3. CASE step = "queue"
  <2>1. StepCall(step).b = InitializeQueueBuilder /\ StepCall(step).program = duel
    BY <1>3, StepCallNamed, CallFields DEF QueueCall
  <2> QED
    BY <1>1, <1>3, <2>1, BuilderHomes, DuelBuilderNames DEF OperatorNames
<1>4. CASE step = "permission"
  <2>1. StepCall(step).b = SetupQueuePermissionBuilder /\ StepCall(step).program = duel
    BY <1>4, StepCallNamed, CallFields DEF QueuePermissionCall
  <2> QED
    BY <1>1, <1>4, <2>1, BuilderHomes, DuelBuilderNames DEF OperatorNames
<1>5. CASE step = "permit"
  <2>1. StepCall(step).b = DelegatePermissionCall
    BY <1>5, StepCallNamed, CallFields DEF DelegatePermission
  <2>2. Shaped(StepCall(step))
    BY <1>5, StepCallNamed, PermissionCallShaped
  <2> QED
    BY <1>5, <2>1, <2>2
<1>6. CASE step = "delegate"
  <2>1. StepCall(step).b = DelegateQueueBuilder /\ StepCall(step).program = duel
    BY <1>6, StepCallNamed, CallFields DEF DelegateQueueCall
  <2> QED
    BY <1>1, <1>6, <2>1, BuilderHomes, DuelBuilderNames DEF OperatorNames
<1> QED
  BY <1>2, <1>3, <1>4, <1>5, <1>6 DEF Steps
-----------------------------------------------------------------------------
(* What it means that a call is accepted. *)

(* An address rule that was kept: the account is where the rule says.       *)
LEMMA RuleKept ==
  ASSUME NEW h, NEW ins, ~ Misaddressed(h, ins, chain), NEW n \in DOMAIN h.rules,
         HasFields(h.rules[n], Bound(h, ins), chain)
  PROVE  Bound(h, ins)[n] =
           AddressBy(h.rules[n], ins.program, Bound(h, ins), Args(h, ins), chain)
BY DEF Misaddressed

(* An account that is not new is there, and holds what the handler expects. *)
LEMMA HeldPresent ==
  ASSUME NEW h, NEW ins, NEW layer, ~ Untimely(h, ins, layer, chain),
         NEW k \in DOMAIN h.accounts, ~ h.accounts[k].new, h.accounts[k].holds # "anything"
  PROVE  LET address == Bound(h, ins)[h.accounts[k].name] IN
         address \in DOMAIN chain /\ chain[address].type = h.accounts[k].holds
BY DEF Untimely, Present

LEMMA AcceptedMeans ==
  ASSUME NEW call, NEW layer, Accepted(call, layer)
  PROVE  LET ins == Instruction(call)
             h == HandlerOf(ins)
             a == Bound(h, ins)
         IN /\ ins.name = call.b.name /\ ins.program = call.program
            /\ ins.program \in {duel, RpsProgram, PermissionProgram}
            /\ ~ Misaddressed(h, ins, chain) /\ ~ Untimely(h, ins, layer, chain)
            /\ SignsForPda(ins, a) /\ PermissionFits(ins, a)
            /\ Allowed(ins.name, a, Args(h, ins), call.rest, layer)
<1>1. Instruction(call).name = call.b.name /\ Instruction(call).program = call.program
  BY DEF Instruction, Build
<1> QED
  BY <1>1 DEF Accepted, FormProblem, Deployed

(* A call is handled by the program it is made to, so a call to the duel    *)
(* program's own address goes nowhere when it was deployed elsewhere.       *)
LEMMA Handled ==
  ASSUME NEW call, NEW layer, Accepted(call, layer), Shaped(call), duel \in Deployments
  PROVE  /\ call.b.name \in OperatorNames \cup TicketNames =>
              call.program = duel /\ HandlerOf(Instruction(call)) = DuelHandlers[call.b.name]
         /\ call.b.name \in GameNames =>
              HandlerOf(Instruction(call)) = RpsHandlers[call.b.name]
         /\ call.b.name = "delegatePermission" =>
              HandlerOf(Instruction(call)) = PermissionHandler
<1> DEFINE ins == Instruction(call)
<1>1. ins.name = call.b.name /\ ins.program = call.program
      /\ ins.program \in {duel, RpsProgram, PermissionProgram}
  BY AcceptedMeans
<1>2. duel # RpsProgram /\ duel # PermissionProgram
  BY LaunchAssumption
<1>3. /\ ins.program = PermissionProgram => HandlerOf(ins) = PermissionHandler
      /\ ins.program = RpsProgram => HandlerOf(ins) = RpsHandlers[ins.name]
      /\ ins.program = duel => HandlerOf(ins) = DuelHandlers[ins.name]
  BY <1>2, Programs DEF HandlerOf
<1> QED
  BY <1>1, <1>2, <1>3, Programs DEF Shaped

LEMMA DuelHandled ==
  /\ DuelHandlers["initializeTenant"] = InitializeTenant
  /\ DuelHandlers["initializeQueue"] = InitializeQueue
  /\ DuelHandlers["setupQueuePermission"] = SetupQueuePermission
  /\ DuelHandlers["createTicket"] = CreateTicket
  /\ DuelHandlers["setupTicketPermission"] = SetupTicketPermission
  /\ DuelHandlers["joinQueue"] = JoinQueue
  /\ DuelHandlers["cancelTicket"] = CancelTicket
  /\ DuelHandlers["closeTicket"] = CloseTicket
BY DEF DuelHandlers

LEMMA RpsHandled ==
  /\ RpsHandlers["initializePlayer"] = InitializePlayer
  /\ RpsHandlers["startGame"] = StartGame
  /\ RpsHandlers["startGameWithTicket"] = StartGameWithTicket
  /\ RpsHandlers["makeChoice"] = MakeChoice
  /\ RpsHandlers["closePlayer"] = ClosePlayer
BY DEF RpsHandlers

LEMMA SystemRule ==
  ASSUME NEW rules, NEW n \in DOMAIN rules, n # "systemProgram"
  PROVE  n \in DOMAIN System(rules) /\ System(rules)[n] = rules[n]
BY DEF System

(* What the rules of the accounts that handlers create derive.              *)
LEMMA Derivations ==
  ASSUME NEW program, NEW a, NEW args
  PROVE  /\ AddressBy(TenantSeeds, program, a, args, chain) = TenantPda(program, a.authority)
         /\ AddressBy(QueueSeeds, program, a, args, chain) = QueuePda(program, a.authority)
         /\ AddressBy(TicketSeeds, program, a, args, chain) =
              TicketPda(program, a.player, a.tenant)
         /\ AddressBy(InitializePlayer.rules.profile, RpsProgram, a, args, chain) =
              ProfilePda(a.player)
         /\ AddressBy(SessionSeeds, RpsProgram, a, args, chain) =
              SessionPda(a.player, args.opponent, args.gameId)
<1>1. AddressBy(TenantSeeds, program, a, args, chain) = TenantPda(program, a.authority)
  BY DEF AddressBy, TenantSeeds, TenantPda, Derived, Program, Seed, Pda, Key, Text, Of, Self
<1>2. AddressBy(QueueSeeds, program, a, args, chain) = QueuePda(program, a.authority)
  BY DEF AddressBy, QueueSeeds, QueuePda, Derived, Program, Seed, Pda, Key, Text, Of, Self
<1>3. AddressBy(TicketSeeds, program, a, args, chain) = TicketPda(program, a.player, a.tenant)
  BY DEF AddressBy, TicketSeeds, TicketPda, Derived, Program, Seed, Pda, Key, Text, Of, Self
<1>4. InitializePlayer.rules.profile = Derived(Self, <<Text("player_profile_v35"), Of("player")>>)
  BY SystemRule DEF InitializePlayer, Handler
<1>5. AddressBy(InitializePlayer.rules.profile, RpsProgram, a, args, chain) =
        ProfilePda(a.player)
  BY <1>4 DEF AddressBy, ProfilePda, Derived, Program, Seed, Pda, Key, Text, Of, Self
<1>6. AddressBy(SessionSeeds, RpsProgram, a, args, chain) =
        SessionPda(a.player, args.opponent, args.gameId)
  BY DEF AddressBy, SessionSeeds, SessionPda, Derived, Program, Seed, Pda, Key, Text, Of, Arg, Self
<1> QED
  BY <1>1, <1>2, <1>3, <1>5, <1>6

LEMMA NoFields ==
  ASSUME NEW a
  PROVE  /\ HasFields(TenantSeeds, a, chain) /\ HasFields(QueueSeeds, a, chain)
         /\ HasFields(TicketSeeds, a, chain) /\ HasFields(SessionSeeds, a, chain)
         /\ HasFields(InitializePlayer.rules.profile, a, chain)
<1>1. HasFields(TenantSeeds, a, chain) /\ HasFields(QueueSeeds, a, chain)
      /\ HasFields(TicketSeeds, a, chain)
  BY DEF HasFields, TenantSeeds, QueueSeeds, TicketSeeds, Derived, Text, Of
<1>2. HasFields(SessionSeeds, a, chain)
  BY DEF HasFields, SessionSeeds, Derived, Text, Of, Arg
<1>3. InitializePlayer.rules.profile = Derived(Self, <<Text("player_profile_v35"), Of("player")>>)
  BY SystemRule DEF InitializePlayer, Handler
<1>4. HasFields(InitializePlayer.rules.profile, a, chain)
  BY <1>3 DEF HasFields, Derived, Text, Of
<1> QED
  BY <1>1, <1>2, <1>4

(* Where each handler has the account it creates.                           *)
LEMMA TenantPlaced ==
  ASSUME NEW ins, ~ Misaddressed(InitializeTenant, ins, chain)
  PROVE  LET a == Bound(InitializeTenant, ins) IN a.tenant = TenantPda(ins.program, a.authority)
<1>1. "tenant" \in DOMAIN InitializeTenant.rules /\ InitializeTenant.rules["tenant"] = TenantSeeds
  BY SystemRule DEF InitializeTenant, Handler
<1> QED
  BY <1>1, RuleKept, NoFields, Derivations

LEMMA QueuePlaced ==
  ASSUME NEW ins, ~ Misaddressed(InitializeQueue, ins, chain)
  PROVE  LET a == Bound(InitializeQueue, ins) IN a.queue = QueuePda(ins.program, a.authority)
<1>1. "queue" \in DOMAIN InitializeQueue.rules /\ InitializeQueue.rules["queue"] = QueueSeeds
  BY SystemRule DEF InitializeQueue, Handler
<1> QED
  BY <1>1, RuleKept, NoFields, Derivations

LEMMA TicketPlaced ==
  ASSUME NEW ins, ~ Misaddressed(CreateTicket, ins, chain)
  PROVE  LET a == Bound(CreateTicket, ins) IN
         a.ticket = TicketPda(ins.program, a.player, a.tenant)
<1>1. "ticket" \in DOMAIN CreateTicket.rules /\ CreateTicket.rules["ticket"] = TicketSeeds
  BY SystemRule DEF CreateTicket, Handler
<1> QED
  BY <1>1, RuleKept, NoFields, Derivations

LEMMA ProfilePlaced ==
  ASSUME NEW ins, ~ Misaddressed(InitializePlayer, ins, chain), ins.program = RpsProgram
  PROVE  LET a == Bound(InitializePlayer, ins) IN a.profile = ProfilePda(a.player)
<1>1. "profile" \in DOMAIN InitializePlayer.rules
  BY SystemRule DEF InitializePlayer, Handler
<1> QED
  BY <1>1, RuleKept, NoFields, Derivations

LEMMA SessionPlaced ==
  ASSUME NEW h \in {StartGame, StartGameWithTicket}, NEW ins,
         ~ Misaddressed(h, ins, chain), ins.program = RpsProgram
  PROVE  LET a == Bound(h, ins)
             args == Args(h, ins)
         IN a.gameSession = SessionPda(a.player, args.opponent, args.gameId)
<1>1. "gameSession" \in DOMAIN h.rules /\ h.rules["gameSession"] = SessionSeeds
  BY SystemRule DEF StartGame, StartGameWithTicket, Handler
<1> QED
  BY <1>1, RuleKept, NoFields, Derivations

(* The accounts handlers change without creating them.                      *)
LEMMA TicketHeld ==
  ASSUME NEW h \in {CancelTicket, CloseTicket}, NEW ins, NEW layer,
         ~ Untimely(h, ins, layer, chain)
  PROVE  LET a == Bound(h, ins) IN
         a.ticket \in DOMAIN chain /\ chain[a.ticket].type = "MatchTicket"
<1>1. 1 \in DOMAIN h.accounts /\ h.accounts[1] = Holding(W("ticket"), "MatchTicket")
  BY DEF CancelTicket, CloseTicket, Handler
<1>2. LET account == Holding(W("ticket"), "MatchTicket") IN
      account.name = "ticket" /\ account.holds = "MatchTicket" /\ ~ account.new
  BY DEF Holding, W, Described
<1> QED
  BY <1>1, <1>2, HeldPresent

LEMMA ProfileHeld ==
  ASSUME NEW ins, NEW layer
  PROVE  /\ ~ Untimely(MakeChoice, ins, layer, chain) =>
              LET p == Bound(MakeChoice, ins).player1Profile IN
              p \in DOMAIN chain /\ chain[p].type = "PlayerProfile"
         /\ ~ Untimely(ClosePlayer, ins, layer, chain) =>
              LET p == Bound(ClosePlayer, ins).profile IN
              p \in DOMAIN chain /\ chain[p].type = "PlayerProfile"
<1>1. /\ 2 \in DOMAIN MakeChoice.accounts
      /\ MakeChoice.accounts[2] = Holding(W("player1Profile"), "PlayerProfile")
  BY DEF MakeChoice, Handler
<1>2. /\ 1 \in DOMAIN ClosePlayer.accounts
      /\ ClosePlayer.accounts[1] = Holding(W("profile"), "PlayerProfile")
  BY DEF ClosePlayer, Handler
<1>3. /\ LET account == Holding(W("profile"), "PlayerProfile") IN
         account.name = "profile" /\ account.holds = "PlayerProfile" /\ ~ account.new
      /\ LET account == Holding(W("player1Profile"), "PlayerProfile") IN
         account.name = "player1Profile" /\ account.holds = "PlayerProfile" /\ ~ account.new
  BY DEF Holding, W, Described
<1> QED
  BY <1>1, <1>2, <1>3, HeldPresent

(* The arguments a started game has.                                        *)
LEMMA StartedArgs ==
  ASSUME NEW call, call.b \in {StartGameBuilder, StartGameWithTicketBuilder},
         call.args = started, NEW h \in {StartGame, StartGameWithTicket}
  PROVE  LET args == Args(h, Instruction(call)) IN
         args.gameId = Game /\ args.opponent = Opponent
<1>1. call.b.args = <<"gameId", "opponent">> /\ h.args = <<"gameId", "opponent">>
  BY DEF StartGameBuilder, StartGameWithTicketBuilder, StartGame, StartGameWithTicket, Builder, Handler
<1>2. Instruction(call).args = <<Game, Opponent>>
  BY <1>1 DEF Instruction, Build, started
<1> QED
  BY <1>1, <1>2 DEF Args

-----------------------------------------------------------------------------
(* What a call may do to the accounts. *)

(* An account there is.                                                     *)
Account(r) ==
  /\ DOMAIN r = {"type", "layer", "data"}
  /\ r.type \in DOMAIN Data
  /\ r.layer \in {"L1", "TEE"}
  /\ DOMAIN r.data = Data[r.type]
  /\ r.type = "PlayerProfile" => r.data.elo \in Nat

Accounts == \A a \in DOMAIN chain : Account(chain[a])

Amended == {"MatchTicket", "PlayerProfile"}

(* s is r later: of the same type, at home in the same place, still in the  *)
(* TEE if it was, and nothing but a ticket or a profile with other data.    *)
Kept(r, s) ==
  /\ Account(s)
  /\ s.type = r.type
  /\ r.layer = "TEE" => s.layer = "TEE"
  /\ Home(s.type, s.data) = Home(r.type, r.data)
  /\ r.type \notin Amended => s.data = r.data

(* What every call leaves true: an account stays what it is, where it is,   *)
(* only tickets and profiles are closed, new accounts are at home on L1.    *)
Orderly ==
  /\ \A a \in DOMAIN chain :
       IF a \in DOMAIN chain'
       THEN Kept(chain[a], chain'[a])
       ELSE chain[a].type \in {"MatchTicket", "PlayerProfile"}
  /\ \A a \in DOMAIN chain' \ DOMAIN chain :
       /\ Account(chain'[a])
       /\ chain'[a].layer = "L1"
       /\ a = Home(chain'[a].type, chain'[a].data)

LEMMA KeptItself ==
  ASSUME NEW r, Account(r)
  PROVE  Kept(r, r)
BY DEF Kept

LEMMA CreateOrderly ==
  ASSUME Accounts, NEW type \in DOMAIN Data, NEW d, DOMAIN d = Data[type],
         type = "PlayerProfile" => d.elo \in Nat, NEW x, x = Home(type, d),
         chain' = Create(x, type, d)
  PROVE  Orderly
<1> DEFINE new == [type |-> type, layer |-> "L1", data |-> d]
<1>1. Account(new)
  BY DEF Account
<1>2. /\ DOMAIN chain' = DOMAIN chain \cup {x}
      /\ \A a \in DOMAIN chain : chain'[a] = chain[a]
      /\ x \notin DOMAIN chain => chain'[x] = new
  BY DEF Create
<1> QED
  BY <1>1, <1>2, KeptItself DEF Orderly, Accounts

LEMMA DelegatedOrderly ==
  ASSUME Accounts, NEW x \in DOMAIN chain, chain' = Delegated(x)
  PROVE  Orderly
<1>1. /\ DOMAIN chain' = DOMAIN chain
      /\ \A a \in DOMAIN chain : a # x => chain'[a] = chain[a]
      /\ chain'[x] = [chain[x] EXCEPT !.layer = "TEE"]
  BY DEF Delegated
<1>2. Kept(chain[x], chain'[x])
  BY <1>1 DEF Accounts, Account, Kept
<1> QED
  BY <1>1, <1>2, KeptItself DEF Orderly, Accounts

LEMMA ClosedOrderly ==
  ASSUME Accounts, NEW x \in DOMAIN chain, chain' = Closed(x),
         chain[x].type \in {"MatchTicket", "PlayerProfile"}
  PROVE  Orderly
<1>1. /\ DOMAIN chain' = DOMAIN chain \ {x}
      /\ \A a \in DOMAIN chain' : chain'[a] = chain[a]
  BY DEF Closed
<1> QED
  BY <1>1, KeptItself DEF Orderly, Accounts

(* Only data that no address depends on is ever changed.                    *)
Amends(r, d) ==
  /\ r.type \in Amended
  /\ DOMAIN d = DOMAIN r.data
  /\ r.type = "PlayerProfile" => d.elo \in Nat
  /\ Home(r.type, d) = Home(r.type, r.data)

LEMMA AmendedKept ==
  ASSUME NEW r, Account(r), NEW d, Amends(r, d)
  PROVE  Kept(r, [r EXCEPT !.data = d])
BY DEF Account, Amends, Kept

LEMMA AmendedOrderly ==
  ASSUME Accounts, DOMAIN chain' = DOMAIN chain,
         \A a \in DOMAIN chain :
           chain'[a] # chain[a] =>
             \E d : chain'[a] = [chain[a] EXCEPT !.data = d] /\ Amends(chain[a], d)
  PROVE  Orderly
<1>1. ASSUME NEW a \in DOMAIN chain
      PROVE  Kept(chain[a], chain'[a])
  <2>1. Account(chain[a])
    BY DEF Accounts
  <2>2. CASE chain'[a] = chain[a]
    BY <2>1, <2>2, KeptItself
  <2>3. CASE chain'[a] # chain[a]
    <3>1. PICK d : chain'[a] = [chain[a] EXCEPT !.data = d] /\ Amends(chain[a], d)
      BY <2>3
    <3>2. Kept(chain[a], [chain[a] EXCEPT !.data = d])
      BY <2>1, <3>1, AmendedKept
    <3> QED
      BY <3>1, <3>2
  <2> QED
    BY <2>2, <2>3
<1> QED
  BY <1>1 DEF Orderly

LEMMA TicketAmended ==
  ASSUME NEW r, Account(r), r.type = "MatchTicket", NEW d, DOMAIN d = DOMAIN r.data,
         d.player = r.data.player, d.tenant = r.data.tenant
  PROVE  Amends(r, d)
BY DEF Amends, Amended, Home

LEMMA ProfileAmended ==
  ASSUME NEW r, Account(r), r.type = "PlayerProfile", NEW e \in Nat
  PROVE  Amends(r, [r.data EXCEPT !.elo = e])
<1>1. DOMAIN r.data = {"player", "elo"}
  BY DEF Account, Data
<1> QED
  BY <1>1 DEF Amends, Amended, Home

(* What is shown of a ticket is of the ticket.                              *)
LEMMA ShownTicket ==
  ASSUME NEW t, DOMAIN t = Data["MatchTicket"], NEW layer
  PROVE  LET d == Shown(layer, t) IN
         DOMAIN d = Data["MatchTicket"] /\ d.player = t.player /\ d.tenant = t.tenant
<1>1. DOMAIN t = {"player", "tenant", "status", "shown", "opponent"}
  BY DEF Data
<1> QED
  BY <1>1 DEF Shown
-----------------------------------------------------------------------------
(* Every call leaves the accounts in order. *)

LEMMA AllowedNamed ==
  ASSUME NEW a, NEW args, NEW rest, NEW layer
  PROVE  /\ \A name \in Delegations :
              Allowed(name, a, args, rest, layer) =>
                a.pda \in DOMAIN chain /\ chain[a.pda].layer = "L1" /\ layer = "L1"
         /\ Allowed("delegatePermission", a, args, rest, layer) =>
              On("L1", a.permission, "Permission") /\ layer = "L1"
         /\ \A name \in PermissionSetups :
              Allowed(name, a, args, rest, layer) => a.permission \notin DOMAIN chain
         /\ Allowed("joinQueue", a, args, rest, layer) =>
              a.playerData \in DOMAIN chain /\ Readable(chain[a.tenant].data)
         /\ Allowed("commitTickets", a, args, rest, layer) =>
              \A k \in DOMAIN rest : On("TEE", rest[k].address, "MatchTicket")
BY DEF Allowed, PermissionSetups, Delegations

(* Addresses of different kinds never meet.                                 *)
LEMMA HomesApart ==
  ASSUME duel \in Deployments, NEW type \in DOMAIN Data, NEW d
  PROVE  /\ Home(type, d)[1] = RpsProgram => type \in {"PlayerProfile", "GameSession"}
         /\ Home(type, d)[1] = duel => type \in {"Tenant", "Queue", "MatchTicket"}
         /\ Home(type, d)[1] = duel => Home(type, d)[2][1] =
              [Tenant |-> Key("tenant"), Queue |-> Key("queue"),
               MatchTicket |-> Key("ticket")][type]
<1>1. duel # RpsProgram /\ duel # PermissionProgram /\ RpsProgram # PermissionProgram
  BY LaunchAssumption, Programs
<1>2. DOMAIN Data = {"Tenant", "Queue", "MatchTicket", "PlayerProfile", "GameSession",
                     "Permission"}
  BY DEF Data
<1> HIDE DEF RpsProgram, PermissionProgram
<1>3. /\ Home("Tenant", d) = <<duel, <<Key("tenant"), d.authority>>>>
      /\ Home("Queue", d) = <<duel, <<Key("queue"), d.authority>>>>
      /\ Home("MatchTicket", d) = <<duel, <<Key("ticket"), d.player, d.tenant>>>>
      /\ Home("PlayerProfile", d)[1] = RpsProgram
      /\ Home("GameSession", d)[1] = RpsProgram
      /\ Home("Permission", d)[1] = PermissionProgram
  BY DEF Home, TenantPda, QueuePda, TicketPda, ProfilePda, SessionPda, PermissionPda, Pda
<1> QED
  BY <1>1, <1>2, <1>3

LEMMA KeysApart ==
  /\ Key("tenant") # Key("queue") /\ Key("tenant") # Key("ticket")
  /\ Key("queue") # Key("ticket")
BY DEF Key

(* What is at an address tells what type it is of.                          *)
LEMMA TypeAt ==
  ASSUME duel \in Deployments, Accounts, AddressesAgree, NEW x \in DOMAIN chain
  PROVE  /\ x[1] = RpsProgram => chain[x].type \in {"PlayerProfile", "GameSession"}
         /\ x[1] = duel /\ x[2][1] = Key("tenant") => chain[x].type = "Tenant"
         /\ x[1] = duel /\ x[2][1] = Key("queue") => chain[x].type = "Queue"
         /\ x[1] = duel /\ x[2][1] = Key("ticket") => chain[x].type = "MatchTicket"
<1>1. chain[x].type \in DOMAIN Data /\ x = Home(chain[x].type, chain[x].data)
  BY DEF Accounts, Account, AddressesAgree
<1>2. ASSUME x[1] = duel
      PROVE  /\ chain[x].type \in {"Tenant", "Queue", "MatchTicket"}
             /\ x[2][1] = [Tenant |-> Key("tenant"), Queue |-> Key("queue"),
                           MatchTicket |-> Key("ticket")][chain[x].type]
  BY <1>1, <1>2, HomesApart
<1>3. x[1] = RpsProgram => chain[x].type \in {"PlayerProfile", "GameSession"}
  BY <1>1, HomesApart
<1> QED
  BY <1>2, <1>3, KeysApart

LEMMA MadeOrderly ==
  ASSUME duel \in Deployments, Accounts, AddressesAgree, NEW call, Shaped(call), NEW layer,
         Make(call, layer)
  PROVE  Orderly
<1> DEFINE name == call.b.name
           ins == Instruction(call)
           h == HandlerOf(ins)
           a == Bound(h, ins)
           args == Args(h, ins)
<1>1. /\ ins.name = name /\ ins.program = call.program
      /\ ~ Misaddressed(h, ins, chain) /\ ~ Untimely(h, ins, layer, chain)
      /\ SignsForPda(ins, a) /\ PermissionFits(ins, a)
      /\ Allowed(name, a, args, call.rest, layer)
  BY AcceptedMeans DEF Make
<1>2. chain' \in Effect(name, a, args, call.rest, layer)
  BY <1>1 DEF Make
<1>3. /\ name \in OperatorNames \cup TicketNames => ins.program = duel /\ h = DuelHandlers[name]
      /\ name \in GameNames => ins.program = RpsProgram /\ h = RpsHandlers[name]
  BY <1>1, Handled DEF Make, Shaped
<1> HIDE DEF name, ins, h, a, args
<1>4. CASE name = "initializeTenant"
  <2> DEFINE d == [authority |-> a.authority, eloOffset |-> args.eloOffset,
                   eloSize |-> args.eloSize]
  <2>1. chain' = Create(a.tenant, "Tenant", d)
    BY <1>2, <1>4 DEF Effect, Delegations, PermissionSetups
  <2>2. a.tenant = TenantPda(duel, a.authority)
    BY <1>1, <1>3, <1>4, DuelHandled, TenantPlaced DEF a, OperatorNames
  <2>3. a.tenant = Home("Tenant", d) /\ "Tenant" \in DOMAIN Data /\ DOMAIN d = Data["Tenant"]
    BY <2>2 DEF Home, Data
  <2> QED
    BY <1>4, <2>1, <2>3, CreateOrderly
<1>5. CASE name = "initializeQueue"
  <2> DEFINE d == [authority |-> a.authority, tenant |-> a.tenant]
  <2>1. chain' = Create(a.queue, "Queue", d)
    BY <1>2, <1>5 DEF Effect, Delegations, PermissionSetups
  <2>2. a.queue = QueuePda(duel, a.authority)
    BY <1>1, <1>3, <1>5, DuelHandled, QueuePlaced DEF a, OperatorNames
  <2>3. a.queue = Home("Queue", d) /\ "Queue" \in DOMAIN Data /\ DOMAIN d = Data["Queue"]
    BY <2>2 DEF Home, Data
  <2> QED
    BY <1>5, <2>1, <2>3, CreateOrderly
<1>6. CASE name \in PermissionSetups
  <2> DEFINE of == Permissioned(ins, a)
             d == [of |-> of]
  <2>1. chain' = Create(a.permission, "Permission", d)
    BY <1>1, <1>2, <1>6 DEF Effect, Delegations, Permissioned, PermissionSetups
  <2>2. a.permission = PermissionPda(of)
    BY <1>1, <1>6 DEF PermissionFits
  <2> HIDE DEF of
  <2>3. a.permission = Home("Permission", d) /\ "Permission" \in DOMAIN Data
        /\ DOMAIN d = Data["Permission"]
    BY <2>2 DEF Home, Data
  <2> QED
    BY <1>6, <2>1, <2>3, CreateOrderly
<1>7. CASE name \in Delegations
  <2>1. chain' = Delegated(a.pda) /\ a.pda \in DOMAIN chain
    BY <1>1, <1>2, <1>7, AllowedNamed DEF Effect, Delegations, PermissionSetups
  <2> QED
    BY <2>1, DelegatedOrderly
<1>8. CASE name = "delegatePermission"
  <2>1. chain' = Delegated(a.permission)
    BY <1>2, <1>8 DEF Effect, Delegations, PermissionSetups
  <2>2. a.permission \in DOMAIN chain /\ chain[a.permission].type = "Permission"
    BY <1>1, <1>8, AllowedNamed DEF On
  <2> QED
    BY <2>1, <2>2, DelegatedOrderly
<1>9. CASE name = "createTicket"
  <2>1. chain' = Create(a.ticket, "MatchTicket", NewTicket(a))
    BY <1>2, <1>9 DEF Effect, Delegations, PermissionSetups
  <2>2. a.ticket = TicketPda(duel, a.player, a.tenant)
    BY <1>1, <1>3, <1>9, DuelHandled, TicketPlaced DEF a, TicketNames
  <2>3. a.ticket = Home("MatchTicket", NewTicket(a)) /\ "MatchTicket" \in DOMAIN Data
        /\ DOMAIN NewTicket(a) = Data["MatchTicket"]
    BY <2>2 DEF Home, Data, NewTicket
  <2> QED
    BY <2>1, <2>3, CreateOrderly
<1>10. CASE name = "cancelTicket"
  <2> DEFINE t == [chain[a.ticket].data EXCEPT !.status = "Cancelled"]
             d == Shown(layer, t)
  <2>1. chain' = [chain EXCEPT ![a.ticket].data = d]
    BY <1>2, <1>10 DEF Effect, Delegations, PermissionSetups
  <2>2. a.ticket \in DOMAIN chain /\ chain[a.ticket].type = "MatchTicket"
    BY <1>1, <1>3, <1>10, DuelHandled, TicketHeld DEF a, TicketNames
  <2>3. Account(chain[a.ticket]) /\ DOMAIN chain[a.ticket].data = Data["MatchTicket"]
    BY <2>2 DEF Accounts, Account
  <2>4. DOMAIN t = Data["MatchTicket"] /\ t.player = chain[a.ticket].data.player
        /\ t.tenant = chain[a.ticket].data.tenant
    BY <2>3 DEF Data
  <2> HIDE DEF t
  <2>5. Amends(chain[a.ticket], d)
    BY <2>2, <2>3, <2>4, ShownTicket, TicketAmended
  <2> HIDE DEF d
  <2>6. /\ DOMAIN chain' = DOMAIN chain
        /\ chain'[a.ticket] = [chain[a.ticket] EXCEPT !.data = d]
        /\ \A x \in DOMAIN chain : x # a.ticket => chain'[x] = chain[x]
    BY <2>1, <2>2
  <2> QED
    BY <2>5, <2>6, AmendedOrderly
<1>11. CASE name = "closeTicket"
  <2>1. chain' = Closed(a.ticket)
    BY <1>2, <1>11 DEF Effect, Delegations, PermissionSetups
  <2>2. a.ticket \in DOMAIN chain /\ chain[a.ticket].type = "MatchTicket"
    BY <1>1, <1>3, <1>11, DuelHandled, TicketHeld DEF a, TicketNames
  <2> QED
    BY <2>1, <2>2, ClosedOrderly
<1>12. CASE name = "commitTickets"
  <2> DEFINE Given(x) == \E k \in DOMAIN call.rest : call.rest[k].address = x
  <2>1. chain' = [x \in DOMAIN chain |->
                    IF Given(x) THEN [chain[x] EXCEPT !.data = Shown("L1", @)] ELSE chain[x]]
    BY <1>2, <1>12 DEF Effect, Delegations, PermissionSetups
  <2>2. \A x \in DOMAIN chain : Given(x) => chain[x].type = "MatchTicket"
    BY <1>1, <1>12, AllowedNamed DEF On
  <2> HIDE DEF Given
  <2>3. ASSUME NEW x \in DOMAIN chain, Given(x)
        PROVE  Amends(chain[x], Shown("L1", chain[x].data))
    <3>1. Account(chain[x]) /\ DOMAIN chain[x].data = Data["MatchTicket"]
          /\ chain[x].type = "MatchTicket"
      BY <2>2, <2>3 DEF Accounts, Account
    <3> QED
      BY <3>1, ShownTicket, TicketAmended
  <2>4. \A x \in DOMAIN chain : Given(x) =>
          chain'[x] = [chain[x] EXCEPT !.data = Shown("L1", chain[x].data)]
    BY <2>1
  <2>5. DOMAIN chain' = DOMAIN chain
        /\ \A x \in DOMAIN chain : ~ Given(x) => chain'[x] = chain[x]
    BY <2>1
  <2> QED
    BY <2>3, <2>4, <2>5, AmendedOrderly
<1>13. CASE name = "initializePlayer"
  <2> DEFINE d == [player |-> a.player, elo |-> InitialElo]
  <2>1. chain' = Create(a.profile, "PlayerProfile", d)
    BY <1>2, <1>13 DEF Effect, Delegations, PermissionSetups
  <2>2. a.profile = ProfilePda(a.player)
    BY <1>1, <1>3, <1>13, RpsHandled, ProfilePlaced DEF a, GameNames
  <2>3. a.profile = Home("PlayerProfile", d) /\ "PlayerProfile" \in DOMAIN Data
        /\ DOMAIN d = Data["PlayerProfile"] /\ d.elo \in Nat
    BY <2>2, LaunchAssumption, ScanAssumption DEF Home, Data
  <2> QED
    BY <2>1, <2>3, CreateOrderly
<1>14. CASE name = "closePlayer"
  <2>1. chain' = Closed(a.profile)
    BY <1>2, <1>14 DEF Effect, Delegations, PermissionSetups
  <2>2. a.profile \in DOMAIN chain /\ chain[a.profile].type = "PlayerProfile"
    BY <1>1, <1>3, <1>14, RpsHandled, ProfileHeld DEF a, GameNames
  <2> QED
    BY <2>1, <2>2, ClosedOrderly
<1>15. CASE name \in {"startGame", "startGameWithTicket"}
  <2> DEFINE d == [player1 |-> a.player, player2 |-> args.opponent]
  <2>1. chain' = Create(a.gameSession, "GameSession", d)
    BY <1>2, <1>15 DEF Effect, Delegations, PermissionSetups
  <2>2. h \in {StartGame, StartGameWithTicket} /\ ins.program = RpsProgram
    BY <1>3, <1>15, RpsHandled DEF GameNames
  <2>3. a.gameSession = SessionPda(a.player, args.opponent, args.gameId)
    BY <1>1, <2>2, SessionPlaced DEF a, args
  <2>4. args.gameId = Game
    BY <1>15, <2>2, StartedArgs DEF args, ins, name, Shaped
  <2>5. a.gameSession = Home("GameSession", d) /\ "GameSession" \in DOMAIN Data
        /\ DOMAIN d = Data["GameSession"]
    BY <2>3, <2>4 DEF Home, Data
  <2> QED
    BY <2>1, <2>5, CreateOrderly
<1>16. CASE name = "makeChoice"
  <2> DEFINE p == a.player1Profile
  <2>1. PICK e \in Elos : chain' = [chain EXCEPT ![p].data.elo = e]
    BY <1>2, <1>16 DEF Effect, Delegations, PermissionSetups
  <2>2. p \in DOMAIN chain /\ chain[p].type = "PlayerProfile"
    BY <1>1, <1>3, <1>16, RpsHandled, ProfileHeld DEF a, GameNames
  <2> HIDE DEF p
  <2>3. Amends(chain[p], [chain[p].data EXCEPT !.elo = e])
    BY <2>2, ScanAssumption, ProfileAmended DEF Accounts
  <2>4. /\ DOMAIN chain' = DOMAIN chain
        /\ chain'[p] = [chain[p] EXCEPT !.data = [chain[p].data EXCEPT !.elo = e]]
        /\ \A x \in DOMAIN chain : x # p => chain'[x] = chain[x]
    BY <2>1, <2>2
  <2> QED
    BY <2>3, <2>4, AmendedOrderly
<1>17. CASE name \in {"joinQueue", "flushMatches", "persistResults"}
  <2>1. chain' = chain
    BY <1>2, <1>17 DEF Effect, Delegations, PermissionSetups
  <2> QED
    BY <2>1, AmendedOrderly
<1>18. name \in OperatorNames \cup PlayerNames
  BY DEF name, Shaped
<1> QED
  BY <1>4, <1>5, <1>6, <1>7, <1>8, <1>9, <1>10, <1>11, <1>12, <1>13, <1>14, <1>15, <1>16,
     <1>17, <1>18
  DEF OperatorNames, PlayerNames, TicketNames, GameNames, PermissionSetups, Delegations

-----------------------------------------------------------------------------
(* The invariant. *)

TenantAsAsked ==
  /\ tenantPda \in DOMAIN chain
  /\ chain[tenantPda].type = "Tenant"
  /\ chain[tenantPda].data = [authority |-> Operator, eloOffset |-> options.eloOffset,
                              eloSize |-> options.eloSize]

QueueOfTenant ==
  /\ queuePda \in DOMAIN chain
  /\ chain[queuePda].type = "Queue"
  /\ chain[queuePda].data = [authority |-> Operator, tenant |-> tenantPda]

PermissionMoved == On("TEE", PermissionPda(queuePda), "Permission")

QueueMoved == On("TEE", queuePda, "Queue")

(* What the steps of the script have come to.                               *)
ScriptSound ==
  /\ script \in {"queue", "permission", "permit", "delegate", "initialized"} => TenantAsAsked
  /\ script \in {"permission", "permit", "delegate", "initialized"} => QueueOfTenant
  /\ script \in {"delegate", "initialized"} => PermissionMoved
  /\ script = "initialized" => QueueMoved

(* Between two scans their variables are reset.                             *)
ScanReset == ~ joining => waiting = <<>> /\ i = 1 /\ best = 0 /\ bestDiff = 0

LaunchInv ==
  /\ duel \in Deployments
  /\ TypeOK
  /\ Accounts
  /\ script \in Steps \cup Ended
  /\ options \in Options
  /\ AddressesAgree
  /\ ScriptSound
  /\ ScanReset
  /\ BestSoFar
  /\ EloAsStored

LEMMA OrderlyKeeps ==
  ASSUME LaunchInv, duel' = duel, Orderly
  PROVE  Accounts' /\ AddressesAgree'
<1>1. Accounts'
  BY DEF Accounts, Orderly, Kept
<1>2. \A a \in DOMAIN chain' : a = Home(chain'[a].type, chain'[a].data)
  <2> SUFFICES ASSUME NEW a \in DOMAIN chain' PROVE a = Home(chain'[a].type, chain'[a].data)
    OBVIOUS
  <2>1. CASE a \in DOMAIN chain
    BY <2>1 DEF Orderly, Kept, LaunchInv, AddressesAgree
  <2>2. CASE a \notin DOMAIN chain
    BY <2>2 DEF Orderly
  <2> QED
    BY <2>1, <2>2
<1>3. AddressesAgree'
  BY <1>2 DEF AddressesAgree, Home, TenantPda, QueuePda, TicketPda
<1> QED
  BY <1>1, <1>3

(* Nothing takes back what the script has come to.                          *)
LEMMA ComeToStays ==
  ASSUME LaunchInv, UNCHANGED <<duel, options>>, Orderly
  PROVE  /\ TenantAsAsked => TenantAsAsked'
         /\ QueueOfTenant => QueueOfTenant'
         /\ PermissionMoved => PermissionMoved'
         /\ QueueMoved => QueueMoved'
<1>1. UNCHANGED <<tenantPda, queuePda, PermissionPda(queuePda)>>
  BY DEF tenantPda, TenantPda, queuePda, QueuePda
<1>2. ASSUME NEW x \in DOMAIN chain, chain[x].type \in {"Tenant", "Queue", "Permission"}
      PROVE  /\ x \in DOMAIN chain' /\ chain'[x].type = chain[x].type
             /\ chain'[x].data = chain[x].data
             /\ chain[x].layer = "TEE" => chain'[x].layer = "TEE"
  BY <1>2 DEF Orderly, Kept, Amended
<1>3. TenantAsAsked => TenantAsAsked'
  BY <1>1, <1>2 DEF TenantAsAsked
<1>4. QueueOfTenant => QueueOfTenant'
  BY <1>1, <1>2 DEF QueueOfTenant
<1>5. PermissionMoved => PermissionMoved'
  BY <1>1, <1>2 DEF PermissionMoved, On
<1>6. QueueMoved => QueueMoved'
  BY <1>1, <1>2 DEF QueueMoved, On
<1> QED
  BY <1>3, <1>4, <1>5, <1>6

(* What a step does not touch.                                              *)
LEMMA OthersKept ==
  ASSUME LaunchInv, UNCHANGED <<scanVars, duel, joining>>, Orderly,
         joining => chain' = chain
  PROVE  /\ duel' \in Deployments /\ TypeOK' /\ Accounts' /\ AddressesAgree'
         /\ ScanReset' /\ BestSoFar' /\ EloAsStored'
<1>1. Accounts' /\ AddressesAgree'
  BY OrderlyKeeps
<1>2. duel' \in Deployments /\ TypeOK' /\ ScanReset' /\ BestSoFar'
  BY DEF LaunchInv, TypeOK, ScanReset, BestSoFar, scanVars
<1>3. EloAsStored'
  BY DEF LaunchInv, EloAsStored, tenantPda, TenantPda, scanVars
<1> QED
  BY <1>1, <1>2, <1>3

LEMMA ScriptKept ==
  ASSUME LaunchInv, UNCHANGED <<duel, options, script>>, Orderly
  PROVE  ScriptSound'
BY ComeToStays DEF LaunchInv, ScriptSound

LEMMA StartsInv ==
  ASSUME LaunchInit
  PROVE  LaunchInv
<1>1. InitialElo \in Nat /\ NoElo \in Nat /\ options \in Options
  BY LaunchAssumption, ScanAssumption DEF LaunchInit, NoElo
<1>2. TypeOK /\ BestSoFar /\ ScanReset
  BY <1>1 DEF LaunchInit, TypeOK, BestSoFar, ScanReset
<1>3. /\ DOMAIN chain = {ProfilePda(Opponent)}
      /\ chain[ProfilePda(Opponent)] =
           [type |-> "PlayerProfile", layer |-> "TEE",
            data |-> [player |-> Opponent, elo |-> InitialElo]]
  BY DEF LaunchInit
<1>4. Accounts
  BY <1>1, <1>3 DEF Accounts, Account, Data
<1>5. AddressesAgree
  BY <1>3 DEF AddressesAgree, Home
<1>6. duel \in Deployments /\ duel # RpsProgram
  BY LaunchAssumption DEF LaunchInit
<1>7. tenantPda \notin DOMAIN chain
  BY <1>3, <1>6 DEF tenantPda, TenantPda, ProfilePda, Pda
<1>8. ScriptSound /\ EloAsStored
  BY <1>7 DEF LaunchInit, ScriptSound, EloAsStored
<1> QED
  BY <1>1, <1>2, <1>4, <1>5, <1>6, <1>8 DEF LaunchInit, LaunchInv, Ended

LEMMA ActKeeps ==
  ASSUME LaunchInv, NEW call \in PlayerCalls, NEW layer, Act(call, layer)
  PROVE  LaunchInv'
<1>1. Shaped(call)
  BY PlayerCallsShaped
<1>2. Orderly
  BY <1>1, MadeOrderly DEF Act, LaunchInv
<1>3. ~ joining /\ UNCHANGED <<scanVars, duel, script, options, joining>>
  BY DEF Act, Make
<1> QED
  BY <1>2, <1>3, OthersKept, ScriptKept DEF LaunchInv

(* What an account is called says where it is.                              *)
LEMMA BoundAt ==
  ASSUME NEW h, NEW ins, NEW k \in DOMAIN h.accounts,
         \A j \in DOMAIN h.accounts : h.accounts[j].name = h.accounts[k].name => j = k
  PROVE  Bound(h, ins)[h.accounts[k].name] = ins.accounts[k].address
<1>1. (CHOOSE j \in DOMAIN h.accounts : h.accounts[j].name = h.accounts[k].name) = k
  OBVIOUS
<1> QED
  BY <1>1 DEF Bound

LEMMA ConcatHead ==
  ASSUME NEW T, NEW s \in Seq(T), NEW U, NEW t \in Seq(U), NEW k \in 1..Len(s)
  PROVE  (s \o t)[k] = s[k]
<1>1. s \in Seq(T \cup U) /\ t \in Seq(T \cup U)
  OBVIOUS
<1> QED
  BY <1>1

(* The accounts of an instruction are the builder's, in the builder's order. *)
LEMMA BuiltAccounts ==
  ASSUME NEW call, NEW n \in Nat, DOMAIN call.b.accounts = 1..n,
         NEW U, call.rest \in Seq(U), NEW k \in 1..n
  PROVE  \E args :
           Instruction(call).accounts[k] =
             [address |-> Resolved(call.b, call.program, call.given, args,
                                   call.b.accounts[k].name),
              writable |-> call.b.accounts[k].writable, signer |-> call.b.accounts[k].signer]
<1> DEFINE account(args, j) ==
             [address |-> Resolved(call.b, call.program, call.given, args, call.b.accounts[j].name),
              writable |-> call.b.accounts[j].writable, signer |-> call.b.accounts[j].signer]
<1>1. PICK args : Instruction(call).accounts =
                    [j \in DOMAIN call.b.accounts |-> account(args, j)] \o call.rest
  BY DEF Instruction, Build
<1> HIDE DEF account
<1> DEFINE s == [j \in 1..n |-> account(args, j)]
           T == {account(args, j) : j \in 1..n}
<1>2. s \in Seq(T) /\ Len(s) = n
  <2>1. s \in [1..n -> T]
    OBVIOUS
  <2> HIDE DEF s, T
  <2> QED
    BY <2>1
<1>3. s[k] = account(args, k)
  OBVIOUS
<1> HIDE DEF s, T
<1>4. Instruction(call).accounts = s \o call.rest
  BY <1>1 DEF s
<1>5. (s \o call.rest)[k] = s[k]
  BY <1>2, ConcatHead
<1> QED
  BY <1>3, <1>4, <1>5 DEF account

LEMMA SingleSeq ==
  ASSUME NEW T, NEW x \in T
  PROVE  <<x>> \in Seq(T)
OBVIOUS

(* What the calls looked at here carry besides the builder's accounts.       *)
Carried == {<<>>, <<Also(Validator, FALSE)>>, <<Also(RpsProgram, FALSE)>>}

(* Of the first n accounts, one has the name: the one in place k.           *)
Names(accounts, n, k, name) ==
  /\ DOMAIN accounts = 1..n /\ k \in 1..n /\ n \in Nat
  /\ accounts[k].name = name
  /\ \A j \in 1..n : accounts[j].name = name => j = k

(* So an account that is given where the builder has a handler's account is *)
(* the one the handler gets.                                                *)
LEMMA GivenBound ==
  ASSUME NEW call, NEW h, NEW n, NEW k, NEW name,
         Names(h.accounts, n, k, name), Names(call.b.accounts, n, k, name),
         call.rest \in Carried, name \in DOMAIN call.given
  PROVE  Bound(h, Instruction(call))[name] = call.given[name]
<1> DEFINE ins == Instruction(call)
           Extra == {Also(Validator, FALSE), Also(RpsProgram, FALSE)}
<1> n \in Nat /\ k \in 1..n
  BY DEF Names
<1>1. Bound(h, ins)[name] = ins.accounts[k].address
  <2>1. k \in DOMAIN h.accounts /\ h.accounts[k].name = name
        /\ \A j \in DOMAIN h.accounts : h.accounts[j].name = h.accounts[k].name => j = k
    BY DEF Names
  <2> HIDE DEF ins
  <2>2. Bound(h, ins)[h.accounts[k].name] = ins.accounts[k].address
    BY <2>1, BoundAt
  <2> QED
    BY <2>1, <2>2
<1>2. PICK args : ins.accounts[k].address = Resolved(call.b, call.program, call.given, args, name)
  <2>1. call.rest \in Seq(Extra)
    <3>1. Also(Validator, FALSE) \in Extra /\ Also(RpsProgram, FALSE) \in Extra
      OBVIOUS
    <3> HIDE DEF Extra
    <3>2. /\ <<>> \in Seq(Extra) /\ <<Also(Validator, FALSE)>> \in Seq(Extra)
          /\ <<Also(RpsProgram, FALSE)>> \in Seq(Extra)
      <4>1. <<>> \in Seq(Extra)
        OBVIOUS
      <4> QED
        BY <3>1, <4>1, SingleSeq, Zenon
    <3> QED
      BY <3>2, Zenon DEF Carried
  <2> HIDE DEF Extra
  <2>2. DOMAIN call.b.accounts = 1..n /\ call.b.accounts[k].name = name
    BY DEF Names
  <2>3. \E args :
          ins.accounts[k] =
            [address |-> Resolved(call.b, call.program, call.given, args,
                                  call.b.accounts[k].name),
             writable |-> call.b.accounts[k].writable,
             signer |-> call.b.accounts[k].signer]
    BY <2>1, <2>2, BuiltAccounts
  <2> QED
    BY <2>2, <2>3
<1>3. Resolved(call.b, call.program, call.given, args, name) = call.given[name]
  BY DEF Resolved
<1> QED
  BY <1>1, <1>2, <1>3

(* The permission a step of the script delegates, and the queue.            *)
LEMMA PermitBound ==
  LET ins == Instruction(StepCall("permit")) IN
  Bound(PermissionHandler, ins).permission = PermissionPda(queuePda)
<1> DEFINE call == StepCall("permit")
           names == <<"payer", "authority", "permissionedAccount", "permission",
                      "systemProgram", "ownerProgram", "delegationBuffer",
                      "delegationRecord", "delegationMetadata", "delegationProgram">>
<1>1. /\ call.b = DelegatePermissionCall
      /\ call.given.permission = PermissionPda(queuePda) /\ "permission" \in DOMAIN call.given
      /\ call.rest = <<Also(Validator, FALSE)>>
  <2>1. call = DelegatePermission("sdk", Operator, queuePda, <<Also(Validator, FALSE)>>)
    BY StepCallNamed
  <2> HIDE DEF call
  <2> QED
    BY <2>1 DEF DelegatePermission, Call
<1> HIDE DEF call
<1>2. /\ DOMAIN DelegatePermissionCall.accounts = 1..10
      /\ \A k \in 1..10 : DelegatePermissionCall.accounts[k].name = names[k]
  BY DEF DelegatePermissionCall, Builder, WS, S, R, W, Described
<1>3. PermissionHandler.accounts = DelegatePermissionCall.accounts
  BY DEF PermissionHandler, Handler
<1>4. names[4] = "permission" /\ \A k \in 1..10 : names[k] = "permission" => k = 4
  OBVIOUS
<1> HIDE DEF names
<1>5. Names(DelegatePermissionCall.accounts, 10, 4, "permission")
  BY <1>2, <1>4 DEF Names
<1>6. Bound(PermissionHandler, Instruction(call))["permission"] = call.given["permission"]
  <2>1. call.rest \in Carried /\ "permission" \in DOMAIN call.given
    BY <1>1 DEF Carried
  <2>2. Names(PermissionHandler.accounts, 10, 4, "permission")
        /\ Names(call.b.accounts, 10, 4, "permission")
    BY <1>1, <1>3, <1>5
  <2> QED
    BY <2>1, <2>2, GivenBound
<1> QED
  BY <1>1, <1>6 DEF call

LEMMA QueueSeedsGiven ==
  DuelAccountSeeds(Instruction(StepCall("delegate")).args[1]) = <<Key("queue"), Operator>>
<1> DEFINE call == StepCall("delegate")
           kind == [kind |-> "Queue", fields |-> [authority |-> Operator]]
<1>1. call.b = DelegateQueueBuilder /\ call.args = [accountType |-> kind]
  BY StepCallNamed DEF DelegateQueueCall, QueueKind, Call
<1>2. call.b.args = <<"accountType">> /\ AccountTypes(call) = DuelAccountTypes
  BY <1>1, Programs DEF DelegateQueueBuilder, Builder, AccountTypes
<1>3. EncodedKind(DuelAccountTypes, kind) = <<"Queue", <<Operator>>>>
  BY DEF EncodedKind, DuelAccountTypes
<1> DEFINE encoded == [call.args EXCEPT !.accountType = EncodedKind(DuelAccountTypes, kind)]
<1>4. encoded.accountType = EncodedKind(DuelAccountTypes, kind)
  BY <1>1
<1>5. Instruction(call).args = [k \in DOMAIN <<"accountType">> |-> encoded[<<"accountType">>[k]]]
  BY <1>1, <1>2 DEF Instruction, Build
<1> HIDE DEF encoded
<1>6. Instruction(call).args[1] = EncodedKind(DuelAccountTypes, kind)
  BY <1>4, <1>5
<1> QED
  BY <1>3, <1>6 DEF DuelAccountSeeds

(* The accounts join_queue reads the ELO from.                              *)
Joins(call) ==
  /\ call.b = JoinQueueBuilder /\ call.given = JoinGiven
  /\ call.rest = <<Also(RpsProgram, FALSE)>>

LEMMA JoinBound ==
  ASSUME NEW call, Joins(call)
  PROVE  LET a == Bound(JoinQueue, Instruction(call)) IN
         a.tenant = tenantPda /\ a.playerData = ProfilePda(Player)
<1> DEFINE names == <<"queue", "tenant", "playerData", "playerTicket", "signer">>
<1>1. /\ DOMAIN JoinQueue.accounts = 1..5
      /\ \A k \in 1..5 : JoinQueue.accounts[k].name = names[k]
  BY DEF JoinQueue, Handler, Holding, W, R, S, Described
<1>2. /\ DOMAIN call.b.accounts = 1..5
      /\ \A k \in 1..5 : call.b.accounts[k].name = names[k]
  BY DEF Joins, JoinQueueBuilder, Builder, W, R, S, Described
<1>3. /\ names[2] = "tenant" /\ \A j \in 1..5 : names[j] = "tenant" => j = 2
      /\ names[3] = "playerData" /\ \A j \in 1..5 : names[j] = "playerData" => j = 3
  OBVIOUS
<1> HIDE DEF names
<1>4. Names(JoinQueue.accounts, 5, 2, "tenant") /\ Names(call.b.accounts, 5, 2, "tenant")
  BY <1>1, <1>2, <1>3 DEF Names
<1>5. Names(JoinQueue.accounts, 5, 3, "playerData") /\ Names(call.b.accounts, 5, 3, "playerData")
  BY <1>1, <1>2, <1>3 DEF Names
<1>6. call.rest \in Carried /\ "tenant" \in DOMAIN call.given /\ "playerData" \in DOMAIN call.given
  BY DEF Joins, Carried, JoinGiven
<1>7. Bound(JoinQueue, Instruction(call))["tenant"] = call.given["tenant"]
  BY <1>4, <1>6, GivenBound
<1>8. Bound(JoinQueue, Instruction(call))["playerData"] = call.given["playerData"]
  BY <1>5, <1>6, GivenBound
<1> QED
  BY <1>7, <1>8 DEF Joins, JoinGiven

LEMMA JoinKeeps ==
  ASSUME LaunchInv, NEW call \in PlayerCalls, NEW layer, call.b.name = "joinQueue",
         Join(call, layer)
  PROVE  LaunchInv'
<1> DEFINE ins == Instruction(call)
           h == HandlerOf(ins)
           a == Bound(h, ins)
           o == chain[tenantPda].data
           profile == chain[ProfilePda(Player)].data
<1>1. Shaped(call) /\ Accepted(call, layer) /\ duel \in Deployments
  BY PlayerCallsShaped DEF Join, LaunchInv
<1>2. call.b = JoinQueueBuilder /\ call.given = JoinGiven
      /\ call.rest = <<Also(RpsProgram, FALSE)>>
  BY <1>1 DEF Shaped
<1>3. h = JoinQueue
  BY <1>1, Handled, DuelHandled DEF TicketNames
<1>4. a.tenant = tenantPda /\ a.playerData = ProfilePda(Player)
  BY <1>2, <1>3, JoinBound DEF Joins
<1>5. ProfilePda(Player) \in DOMAIN chain /\ Readable(o)
  <2>1. Allowed("joinQueue", a, Args(h, ins), call.rest, layer)
    BY <1>1, AcceptedMeans
  <2> HIDE DEF a, h, ins
  <2> QED
    BY <1>4, <2>1, AllowedNamed
<1>6. elo' = ReadElo(profile, o)
  BY <1>4 DEF Join
<1>7. profile.elo \in Nat
  <2>1. /\ Account(chain[ProfilePda(Player)])
        /\ chain[ProfilePda(Player)].type \in {"PlayerProfile", "GameSession"}
    BY <1>5, TypeAt DEF LaunchInv, Accounts, ProfilePda, Pda
  <2>2. chain[ProfilePda(Player)].type # "GameSession"
    <3>1. chain[ProfilePda(Player)].type = "GameSession" =>
            ProfilePda(Player)[2][1] = Key("game_session_v1")
      BY <1>5 DEF LaunchInv, AddressesAgree, Home, SessionPda, Pda
    <3> QED
      BY <3>1 DEF ProfilePda, Pda, Key
  <2> QED
    BY <2>1, <2>2 DEF Account
<1> HIDE DEF o, profile
<1>8. elo' \in Nat /\ (BeginsAt(PlayerProfile, o.eloOffset, "elo") =>
                         elo' = profile.elo % Weight[o.eloSize])
  BY <1>5, <1>6, <1>7, EloRead
<1>9. /\ waiting' \in Seq([elo : Elos])
      /\ joining' = TRUE /\ ~ joining
      /\ UNCHANGED <<i, best, bestDiff, duel, chain, script, options>>
  BY ScanAssumption DEF Join
<1>10. i' = 1 /\ best' = 0 /\ bestDiff' = 0 /\ Len(waiting') \in Nat
  BY <1>9, LenProperties DEF LaunchInv, ScanReset
<1>11. TypeOK' /\ BestSoFar' /\ ScanReset'
  BY <1>8, <1>9, <1>10 DEF TypeOK, BestSoFar, ScanReset
<1>12. EloAsStored'
  BY <1>8, <1>9 DEF EloAsStored, tenantPda, TenantPda, o, profile
<1>13. Accounts' /\ AddressesAgree' /\ ScriptSound'
  BY <1>9 DEF LaunchInv, Accounts, AddressesAgree, Home, TenantPda, QueuePda, TicketPda,
              ScriptSound, TenantAsAsked, QueueOfTenant, PermissionMoved, QueueMoved, On,
              queuePda, tenantPda
<1> QED
  BY <1>9, <1>11, <1>12, <1>13 DEF LaunchInv

LEMMA SearchKeeps ==
  ASSUME LaunchInv, Search
  PROVE  LaunchInv'
<1>1. TypeOK' /\ BestSoFar' /\ UNCHANGED <<elo, duel, chain, script, options, joining>>
      /\ joining
  BY ScanTypes, ScanKeeps DEF LaunchInv, Search, Scan
<1>2. ScanReset' /\ EloAsStored'
  BY <1>1 DEF LaunchInv, ScanReset, EloAsStored, tenantPda, TenantPda
<1>3. Accounts' /\ AddressesAgree' /\ ScriptSound'
  BY <1>1 DEF LaunchInv, Accounts, AddressesAgree, Home, TenantPda, QueuePda, TicketPda,
              ScriptSound, TenantAsAsked, QueueOfTenant, PermissionMoved, QueueMoved, On,
              queuePda, tenantPda
<1> QED
  BY <1>1, <1>2, <1>3 DEF LaunchInv

LEMMA DecideKeeps ==
  ASSUME LaunchInv, Decide
  PROVE  LaunchInv'
<1>1. Orderly
  <2> DEFINE t == [chain[ticketPda].data EXCEPT !.status = "Matched", !.opponent = Opponent]
             d == Shown(chain[ticketPda].layer, t)
  <2>1. CASE best = 0
    BY <2>1, AmendedOrderly DEF Decide, LaunchInv
  <2>2. CASE best # 0 /\ ticketPda \notin DOMAIN chain
    BY <2>2, AmendedOrderly DEF Decide, LaunchInv
  <2>3. CASE best # 0 /\ ticketPda \in DOMAIN chain
    <3>1. chain[ticketPda].type = "MatchTicket"
      BY <2>3, TypeAt DEF LaunchInv, ticketPda, TicketPda, Pda
    <3>2. Account(chain[ticketPda]) /\ DOMAIN chain[ticketPda].data = Data["MatchTicket"]
      BY <2>3, <3>1 DEF LaunchInv, Accounts, Account
    <3>3. DOMAIN t = Data["MatchTicket"] /\ t.player = chain[ticketPda].data.player
          /\ t.tenant = chain[ticketPda].data.tenant
      BY <3>2 DEF Data
    <3>4. chain' = [chain EXCEPT ![ticketPda].data = d]
      BY <2>3 DEF Decide
    <3> HIDE DEF t
    <3>5. Amends(chain[ticketPda], d)
      BY <3>1, <3>2, <3>3, ShownTicket, TicketAmended
    <3> HIDE DEF d
    <3>6. /\ DOMAIN chain' = DOMAIN chain
          /\ chain'[ticketPda] = [chain[ticketPda] EXCEPT !.data = d]
          /\ \A x \in DOMAIN chain : x # ticketPda => chain'[x] = chain[x]
      BY <2>3, <3>4
    <3> QED
      BY <3>5, <3>6, AmendedOrderly DEF LaunchInv
  <2> QED
    BY <2>1, <2>2, <2>3
<1>2. /\ waiting' = <<>> /\ i' = 1 /\ best' = 0 /\ bestDiff' = 0 /\ elo' \in Nat
      /\ joining' = FALSE
      /\ UNCHANGED <<duel, script, options>>
  BY LaunchAssumption, ScanAssumption DEF Decide, NoElo
<1>3. TypeOK' /\ BestSoFar' /\ ScanReset' /\ EloAsStored'
  BY <1>2 DEF TypeOK, BestSoFar, ScanReset, EloAsStored
<1>4. Accounts' /\ AddressesAgree' /\ ScriptSound'
  BY <1>1, <1>2, OrderlyKeeps, ScriptKept
<1> QED
  BY <1>2, <1>3, <1>4 DEF LaunchInv

(* The tenant and the queue that the script makes.                          *)
LEMMA NewAbsent ==
  ASSUME NEW h, NEW ins, NEW layer, ~ Untimely(h, ins, layer, chain),
         NEW k \in DOMAIN h.accounts, h.accounts[k].new
  PROVE  Bound(h, ins)[h.accounts[k].name] \notin DOMAIN chain
BY DEF Untimely

LEMMA TenantMade ==
  ASSUME LaunchInv, script = "tenant", Make(StepCall(script), "L1"),
         UNCHANGED <<duel, options>>
  PROVE  TenantAsAsked'
<1> DEFINE call == StepCall("tenant")
           ins == Instruction(call)
           h == InitializeTenant
           a == Bound(h, ins)
           args == Args(h, ins)
           d == [authority |-> a.authority, eloOffset |-> args.eloOffset,
                 eloSize |-> args.eloSize]
<1>1. Shaped(call) /\ call.b = InitializeTenantBuilder /\ Accepted(call, "L1")
  BY StepCallsShaped DEF Steps, Make
<1>2. HandlerOf(ins) = h /\ ins.program = duel /\ ins.name = "initializeTenant"
      /\ ~ Misaddressed(h, ins, chain) /\ ~ Untimely(h, ins, "L1", chain)
  BY <1>1, AcceptedMeans, Handled, DuelHandled, DuelBuilderNames DEF LaunchInv, OperatorNames
<1>3. chain' \in Effect("initializeTenant", a, args, call.rest, "L1")
  BY <1>2 DEF Make
<1>4. /\ call.given = [authority |-> Operator] /\ call.rest = <<>>
      /\ call.args.eloOffset = options.eloOffset /\ call.args.eloSize = options.eloSize
      /\ "accountType" \notin DOMAIN call.args
  BY StepCallNamed DEF TenantCall, Call
<1>5. a.tenant = TenantPda(duel, a.authority)
  BY <1>2, TenantPlaced
<1>6. a.authority = Operator
  <2>1. Names(h.accounts, 3, 2, "authority")
    <3>1. h.accounts = <<New(W("tenant"), "Tenant"), WS("authority"), R("systemProgram")>>
      BY DEF InitializeTenant, Handler
    <3>2. New(W("tenant"), "Tenant").name = "tenant" /\ WS("authority").name = "authority"
          /\ R("systemProgram").name = "systemProgram"
      BY DEF New, W, WS, R, Described
    <3> HIDE DEF h
    <3> QED
      BY <3>1, <3>2 DEF Names
  <2>2. Names(call.b.accounts, 3, 2, "authority")
    <3>1. call.b.accounts = <<W("tenant"), WS("authority"), R("systemProgram")>>
      BY <1>1 DEF InitializeTenantBuilder, Builder
    <3>2. W("tenant").name = "tenant" /\ WS("authority").name = "authority"
          /\ R("systemProgram").name = "systemProgram"
      BY DEF W, WS, R, Described
    <3> HIDE DEF call
    <3> QED
      BY <3>1, <3>2 DEF Names
  <2> HIDE DEF call, h
  <2>3. call.rest \in Carried /\ "authority" \in DOMAIN call.given
    BY <1>4 DEF Carried
  <2>4. Bound(h, Instruction(call))["authority"] = call.given["authority"]
    BY <2>1, <2>2, <2>3, GivenBound
  <2>5. call.given["authority"] = Operator
    BY <1>4
  <2> QED
    BY <2>4, <2>5
<1>7. a.tenant \notin DOMAIN chain
  <2>1. 1 \in DOMAIN h.accounts /\ h.accounts[1].new /\ h.accounts[1].name = "tenant"
    <3>1. 1 \in DOMAIN h.accounts /\ h.accounts[1] = New(W("tenant"), "Tenant")
      BY DEF InitializeTenant, Handler
    <3>2. New(W("tenant"), "Tenant").new /\ New(W("tenant"), "Tenant").name = "tenant"
      BY DEF New, W, Described
    <3> HIDE DEF h
    <3> QED
      BY <3>1, <3>2
  <2> HIDE DEF h, ins
  <2> QED
    BY <1>2, <2>1, NewAbsent
<1>8. args.eloOffset = options.eloOffset /\ args.eloSize = options.eloSize
  <2> DEFINE names == <<"tenantProgramId", "eloOffset", "eloSize", "eloWindow",
                        "callbackProgramId", "callbackDiscriminator">>
  <2>1. call.b.args = names /\ h.args = names
    BY <1>1 DEF InitializeTenantBuilder, Builder, InitializeTenant, Handler
  <2>2. ins.args = [k \in DOMAIN names |-> call.args[names[k]]]
    BY <1>4, <2>1 DEF Instruction, Build
  <2> HIDE DEF ins, h, call
  <2>3. args = [n \in {names[k] : k \in DOMAIN names} |->
                  ins.args[CHOOSE k \in DOMAIN names : names[k] = n]]
    BY <2>1 DEF Args
  <2>4. /\ (CHOOSE k \in DOMAIN names : names[k] = "eloOffset") = 2
        /\ (CHOOSE k \in DOMAIN names : names[k] = "eloSize") = 3
    OBVIOUS
  <2> QED
    BY <1>4, <2>2, <2>3, <2>4
<1> HIDE DEF a, args, ins, call, h
<1>9. chain' = Create(a.tenant, "Tenant", d)
  BY <1>3 DEF Effect, Delegations, PermissionSetups
<1>10. a.tenant = tenantPda /\ tenantPda' = tenantPda
  BY <1>5, <1>6 DEF tenantPda, TenantPda
<1>11. tenantPda \in DOMAIN chain'
       /\ chain'[tenantPda] = [type |-> "Tenant", layer |-> "L1", data |-> d]
  BY <1>7, <1>9, <1>10 DEF Create
<1> QED
  BY <1>6, <1>8, <1>10, <1>11 DEF TenantAsAsked

LEMMA QueueMade ==
  ASSUME LaunchInv, script = "queue", Make(StepCall(script), "L1"), UNCHANGED duel
  PROVE  QueueOfTenant'
<1> DEFINE call == StepCall("queue")
           ins == Instruction(call)
           h == InitializeQueue
           a == Bound(h, ins)
           d == [authority |-> a.authority, tenant |-> a.tenant]
<1>1. Shaped(call) /\ call.b = InitializeQueueBuilder /\ Accepted(call, "L1")
  BY StepCallsShaped DEF Steps, Make
<1>2. HandlerOf(ins) = h /\ ins.program = duel /\ ins.name = "initializeQueue"
      /\ ~ Misaddressed(h, ins, chain) /\ ~ Untimely(h, ins, "L1", chain)
  BY <1>1, AcceptedMeans, Handled, DuelHandled, DuelBuilderNames DEF LaunchInv, OperatorNames
<1>3. chain' \in Effect("initializeQueue", a, Args(h, ins), call.rest, "L1")
  BY <1>2 DEF Make
<1>4. call.given = [authority |-> Operator, tenant |-> tenantPda] /\ call.rest = <<>>
  BY StepCallNamed DEF QueueCall, Call
<1>5. a.queue = QueuePda(duel, a.authority)
  BY <1>2, QueuePlaced
<1>6. a.authority = Operator /\ a.tenant = tenantPda
  <2>1. Names(h.accounts, 4, 2, "tenant") /\ Names(h.accounts, 4, 3, "authority")
    <3>1. h.accounts = <<New(W("queue"), "Queue"), Holding(R("tenant"), "Tenant"),
                         WS("authority"), R("systemProgram")>>
      BY DEF InitializeQueue, Handler
    <3>2. New(W("queue"), "Queue").name = "queue" /\ Holding(R("tenant"), "Tenant").name = "tenant"
          /\ WS("authority").name = "authority" /\ R("systemProgram").name = "systemProgram"
      BY DEF New, Holding, W, WS, R, Described
    <3> HIDE DEF h
    <3> QED
      BY <3>1, <3>2 DEF Names
  <2>2. Names(call.b.accounts, 4, 2, "tenant") /\ Names(call.b.accounts, 4, 3, "authority")
    <3>1. call.b.accounts = <<W("queue"), R("tenant"), WS("authority"), R("systemProgram")>>
      BY <1>1 DEF InitializeQueueBuilder, Builder
    <3>2. W("queue").name = "queue" /\ R("tenant").name = "tenant"
          /\ WS("authority").name = "authority" /\ R("systemProgram").name = "systemProgram"
      BY DEF W, WS, R, Described
    <3> HIDE DEF call
    <3> QED
      BY <3>1, <3>2 DEF Names
  <2> HIDE DEF call, h
  <2>3. call.rest \in Carried /\ "authority" \in DOMAIN call.given
        /\ "tenant" \in DOMAIN call.given
    BY <1>4 DEF Carried
  <2>4. Bound(h, Instruction(call))["tenant"] = call.given["tenant"]
    BY <2>1, <2>2, <2>3, GivenBound
  <2>5. Bound(h, Instruction(call))["authority"] = call.given["authority"]
    BY <2>1, <2>2, <2>3, GivenBound
  <2>6. call.given["tenant"] = tenantPda /\ call.given["authority"] = Operator
    BY <1>4
  <2> QED
    BY <2>4, <2>5, <2>6
<1>7. a.queue \notin DOMAIN chain
  <2>1. 1 \in DOMAIN h.accounts /\ h.accounts[1].new /\ h.accounts[1].name = "queue"
    <3>1. 1 \in DOMAIN h.accounts /\ h.accounts[1] = New(W("queue"), "Queue")
      BY DEF InitializeQueue, Handler
    <3>2. New(W("queue"), "Queue").new /\ New(W("queue"), "Queue").name = "queue"
      BY DEF New, W, Described
    <3> HIDE DEF h
    <3> QED
      BY <3>1, <3>2
  <2> HIDE DEF h, ins
  <2> QED
    BY <1>2, <2>1, NewAbsent
<1> HIDE DEF a, ins, call, h
<1>8. chain' = Create(a.queue, "Queue", d)
  BY <1>3 DEF Effect, Delegations, PermissionSetups
<1>9. a.queue = queuePda /\ queuePda' = queuePda /\ tenantPda' = tenantPda
  BY <1>5, <1>6 DEF queuePda, QueuePda, tenantPda, TenantPda
<1>10. queuePda \in DOMAIN chain'
       /\ chain'[queuePda] = [type |-> "Queue", layer |-> "L1", data |-> d]
  BY <1>7, <1>8, <1>9 DEF Create
<1> QED
  BY <1>6, <1>9, <1>10 DEF QueueOfTenant

(* The step that moves the permission, and the one that moves the queue.    *)
LEMMA MovedByStep ==
  ASSUME LaunchInv, Make(StepCall(script), "L1"), UNCHANGED duel
  PROVE  /\ script = "permit" => PermissionMoved'
         /\ script = "delegate" => QueueMoved'
<1> DEFINE call == StepCall(script)
           name == call.b.name
           ins == Instruction(call)
           h == HandlerOf(ins)
           a == Bound(h, ins)
<1>1. UNCHANGED <<queuePda, PermissionPda(queuePda)>>
  BY DEF queuePda, QueuePda
<1>2. script \in Steps => Shaped(call) /\ Accepted(call, "L1")
  BY StepCallsShaped DEF Make
<1>3. CASE script = "permit"
  <2>1. name = "delegatePermission" /\ Shaped(call) /\ Accepted(call, "L1")
    BY <1>2, <1>3, StepCallsShaped DEF DelegatePermissionCall, Builder, Steps
  <2>2. a.permission = PermissionPda(queuePda)
    BY <1>3, <2>1, Handled, PermitBound DEF LaunchInv
  <2>3. chain' = Delegated(a.permission) /\ On("L1", a.permission, "Permission")
    <3>1. Allowed(name, a, Args(h, ins), call.rest, "L1")
          /\ chain' \in Effect(name, a, Args(h, ins), call.rest, "L1")
      BY <2>1, AcceptedMeans DEF Make
    <3> HIDE DEF name, a, h, ins, call
    <3> QED
      BY <2>1, <3>1, AllowedNamed DEF Effect, Delegations, PermissionSetups
  <2> HIDE DEF a
  <2> DEFINE p == PermissionPda(queuePda)
  <2>4. p \in DOMAIN chain /\ chain[p].type = "Permission" /\ Account(chain[p])
    BY <2>2, <2>3 DEF On, LaunchInv, Accounts
  <2>5. DOMAIN chain' = DOMAIN chain /\ chain'[p] = [chain[p] EXCEPT !.layer = "TEE"]
    BY <2>2, <2>3, <2>4 DEF Delegated
  <2>6. p \in DOMAIN chain' /\ chain'[p].type = "Permission" /\ chain'[p].layer = "TEE"
    BY <2>4, <2>5 DEF Account
  <2> QED
    BY <1>1, <1>3, <2>6 DEF PermissionMoved, On
<1>4. CASE script = "delegate"
  <2>1. name = "delegateQueue" /\ Shaped(call) /\ Accepted(call, "L1")
    BY <1>2, <1>4, StepCallsShaped, DuelBuilderNames DEF Steps
  <2>2. ins.program = duel /\ duel # RpsProgram /\ ins.name = name
        /\ SignsForPda(ins, a) /\ Allowed(name, a, Args(h, ins), call.rest, "L1")
        /\ chain' \in Effect(name, a, Args(h, ins), call.rest, "L1")
    BY <2>1, AcceptedMeans, Handled, LaunchAssumption DEF LaunchInv, OperatorNames, Make
  <2>3. DuelAccountSeeds(ins.args[1]) = <<Key("queue"), Operator>>
    BY <1>4, QueueSeedsGiven
  <2> HIDE DEF name, a, h, ins, call
  <2>4. a.pda = queuePda
    BY <2>1, <2>2, <2>3 DEF SignsForPda, Delegations, queuePda, QueuePda
  <2>5. chain' = Delegated(queuePda) /\ queuePda \in DOMAIN chain
    BY <2>1, <2>2, <2>4, AllowedNamed DEF Effect, Delegations, PermissionSetups
  <2>6. chain[queuePda].type = "Queue" /\ Account(chain[queuePda])
    BY <2>5, TypeAt DEF LaunchInv, Accounts, queuePda, QueuePda, Pda
  <2>7. DOMAIN chain' = DOMAIN chain
        /\ chain'[queuePda] = [chain[queuePda] EXCEPT !.layer = "TEE"]
    BY <2>5 DEF Delegated
  <2>8. queuePda \in DOMAIN chain' /\ chain'[queuePda].type = "Queue"
        /\ chain'[queuePda].layer = "TEE"
    BY <2>5, <2>6, <2>7 DEF Account
  <2> QED
    BY <1>1, <1>4, <2>8 DEF QueueMoved, On
<1> QED
  BY <1>3, <1>4

(* A step of the script that succeeds.                                      *)
LEMMA StepKeeps ==
  ASSUME LaunchInv, Step
  PROVE  LaunchInv'
<1>1. Shaped(StepCall(script)) /\ Make(StepCall(script), "L1") /\ ~ joining
      /\ script \in Steps /\ script' = Following(script)
      /\ UNCHANGED <<scanVars, duel, options, joining>>
  BY StepCallsShaped DEF Step, Make
<1>2. Orderly
  BY <1>1, MadeOrderly DEF LaunchInv
<1>3. duel' \in Deployments /\ TypeOK' /\ Accounts' /\ AddressesAgree'
      /\ ScanReset' /\ BestSoFar' /\ EloAsStored'
  BY <1>1, <1>2, OthersKept
<1>4. /\ script = "tenant" => script' = "queue" /\ TenantAsAsked'
      /\ script = "queue" => script' = "permission" /\ QueueOfTenant'
      /\ script = "permission" => script' = "permit"
      /\ script = "permit" => script' = "delegate" /\ PermissionMoved'
      /\ script = "delegate" => script' = "initialized" /\ QueueMoved'
  BY <1>1, TenantMade, QueueMade, MovedByStep DEF Following
<1>5. /\ TenantAsAsked => TenantAsAsked'
      /\ QueueOfTenant => QueueOfTenant'
      /\ PermissionMoved => PermissionMoved'
  BY <1>1, <1>2, ComeToStays
<1>6. script' \in Steps \cup Ended /\ ScriptSound'
  BY <1>1, <1>4, <1>5 DEF LaunchInv, ScriptSound, Steps, Ended
<1> QED
  BY <1>1, <1>3, <1>6 DEF LaunchInv

(* The rest of the script's steps leave the accounts alone.                 *)
LEMMA ScriptKeeps ==
  ASSUME LaunchInv, (\E o \in Options : Start(o)) \/ Refused \/ Cut
  PROVE  LaunchInv'
<1>1. /\ UNCHANGED <<scanVars, duel, chain, joining>>
      /\ options' \in Options /\ script' \in {"ready", "tenant", "failed", "idle"}
  BY DEF Start, Refused, Cut, LaunchInv
<1>2. Orderly
  BY <1>1, AmendedOrderly DEF LaunchInv
<1>3. duel' \in Deployments /\ TypeOK' /\ Accounts' /\ AddressesAgree'
      /\ ScanReset' /\ BestSoFar' /\ EloAsStored'
  BY <1>1, <1>2, OthersKept
<1>4. script' \in Steps \cup Ended /\ ScriptSound'
  BY <1>1 DEF Steps, Ended, ScriptSound
<1> QED
  BY <1>1, <1>3, <1>4 DEF LaunchInv

(* The invariant holds after every order of calls on either layer, every    *)
(* interruption of the set-up script and every queue a newcomer meets.      *)
THEOREM LaunchKeepsInv == LaunchSpec => []LaunchInv
<1>1. LaunchInit => LaunchInv
  BY StartsInv
<1>2. LaunchInv /\ [LaunchNext]_launchVars => LaunchInv'
  <2> SUFFICES ASSUME LaunchInv, [LaunchNext]_launchVars PROVE LaunchInv'
    OBVIOUS
  <2>1. CASE Script
    BY <2>1, StepKeeps, ScriptKeeps DEF Script
  <2>2. CASE Calls
    BY <2>2, ActKeeps, JoinKeeps DEF Calls
  <2>3. CASE Search
    BY <2>3, SearchKeeps
  <2>4. CASE Decide
    BY <2>4, DecideKeeps
  <2>5. CASE UNCHANGED launchVars
    <3>1. UNCHANGED <<scanVars, duel, joining, chain, script, options>>
      BY <2>5 DEF launchVars
    <3>2. Orderly
      BY <3>1, AmendedOrderly DEF LaunchInv
    <3> QED
      BY <3>1, <3>2, OthersKept, ScriptKept DEF LaunchInv
  <2> QED
    BY <2>1, <2>2, <2>3, <2>4, <2>5 DEF LaunchNext
<1> QED
  BY <1>1, <1>2, PTL DEF LaunchSpec

(* Every account holds the data of its type and is on L1 or in the TEE.     *)
THEOREM LaunchTyped == LaunchSpec => []LaunchTypeOK
<1>1. LaunchInv => LaunchTypeOK
  BY DEF LaunchInv, Accounts, Account, LaunchTypeOK
<1> QED
  BY <1>1, LaunchKeepsInv, PTL

(* Every account is where clients look for it: the address checks of the    *)
(* programs leave a caller no other place to create or to move it           *)
(* (sdk/src/utils.ts, the Accounts structs of both programs).               *)
THEOREM AccountsAtHome == LaunchSpec => []AddressesAgree
<1>1. LaunchInv => AddressesAgree
  BY DEF LaunchInv
<1> QED
  BY <1>1, LaunchKeepsInv, PTL

(* A run of the set-up script that took every step leaves the tenant with   *)
(* the options it asked for and its queue, with its permission, in the TEE, *)
(* although anybody may delegate the queue before its permission, and runs  *)
(* may be cut anywhere (init-queue.ts:60-88, admin.ts:115-160,              *)
(* duel/src/lib.rs:56-70 and 105-106).                                      *)
THEOREM SetUpServes == LaunchSpec => []InitializedMeansServed
<1>1. LaunchInv => InitializedMeansServed
  BY DEF LaunchInv, ScriptSound, TenantAsAsked, QueueOfTenant, PermissionMoved, QueueMoved,
         InitializedMeansServed
<1> QED
  BY <1>1, LaunchKeepsInv, PTL

(* The bytes join_queue reads make the newcomer's ELO, as far as the        *)
(* tenant's width goes, for every width the code knows and every number of  *)
(* values of a byte (duel/src/lib.rs:223-255).                              *)
THEOREM JoinReadsElo == LaunchSpec => []EloAsStored
<1>1. LaunchInv => EloAsStored
  BY DEF LaunchInv
<1> QED
  BY <1>1, LaunchKeepsInv, PTL

(* A newcomer that joins with the ELO read from its profile is matched with *)
(* the closest waiting entry of its window, the earliest of equals          *)
(* (duel/src/lib.rs:272-293).                                               *)
THEOREM LaunchFindsBestMatch == LaunchSpec => [](BestSoFar /\ ScanCorrect)
<1>1. LaunchInv => BestSoFar /\ ScanCorrect
  BY BestIsAnswer DEF LaunchInv
<1> QED
  BY <1>1, LaunchKeepsInv, PTL
=============================================================================
