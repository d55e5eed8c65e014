-------------------------- MODULE PartUploadProofs --------------------------
(***************************************************************************)
(* The geometry's theorems, and the proofs that a resumed upload leaves    *)
(* every part in place and that the parts add up to the declared size.     *)
(***************************************************************************)
EXTENDS PartUpload, WellFoundedInduction, TLAPS

-----------------------------------------------------------------------------
\* Rounding up: the least multiple of b that reaches a.
LEMMA DivCeilBounds ==
  ASSUME NEW a \in Nat \ {0}, NEW b \in Nat \ {0}
  PROVE  /\ DivCeil(a, b) \in Nat \ {0}
         /\ DivCeil(a, b) * b >= a
         /\ (DivCeil(a, b) - 1) * b < a
<1> DEFINE c == a + b - 1
<1>1. c \in Nat
  OBVIOUS
<1>2. PICK q, r \in Int : q = c \div b /\ r \in 0..(b - 1) /\ c = b * q + r
  <2>1. c \div b \in Int /\ c % b \in 0..(b - 1)
    BY <1>1
  <2>2. c = b * (c \div b) + (c % b)
    BY <1>1
  <2> QED
    BY <2>1, <2>2
<1>3. DivCeil(a, b) = q
  BY <1>2 DEF DivCeil
<1>4. PICK x \in Int : x = b * q
  BY <1>2
<1>5. x >= a /\ x - b < a
  BY <1>2, <1>4
<1>6. q * b = x /\ (q - 1) * b = x - b
  BY <1>2, <1>4
<1>7. q > 0
  <2>1. SUFFICES ASSUME q <= 0 PROVE FALSE
    BY <1>2
  <2>2. b * q <= 0
    BY <1>2, <2>1
  <2> QED
    BY <1>4, <1>5, <2>2
<1> QED
  BY <1>2, <1>3, <1>5, <1>6, <1>7

\* A part size from part_size_bytes never needs more than MAX_PARTS parts and
\* never exceeds S3's limit on one part ("Nothing a caller passes can break the
\* cap", geometry.rs:48-50).
THEOREM PartsWithinLimits ==
  ASSUME NEW bytes \in Int, NEW target \in Int, Accepted(bytes, target)
  PROVE  /\ PartSize(bytes, target) \in target..MAX_PART_BYTES
         /\ PartCount(bytes, PartSize(bytes, target)) \in 1..MAX_PARTS
<1> DEFINE floor == DivCeil(bytes, MAX_PARTS)
<1>1. bytes \in Nat \ {0} /\ target \in Nat \ {0} /\ target <= MAX_PART_BYTES
      /\ bytes <= MAX_PARTS * MAX_PART_BYTES
      /\ MAX_PARTS \in Nat \ {0} /\ MAX_PART_BYTES \in Nat
  BY LimitsAssumption DEF Accepted
<1>2. floor \in Nat \ {0} /\ floor * MAX_PARTS >= bytes /\ (floor - 1) * MAX_PARTS < bytes
  BY <1>1, DivCeilBounds
<1> HIDE DEF floor
<1>3. floor <= MAX_PART_BYTES
  <2>1. SUFFICES ASSUME floor - 1 >= MAX_PART_BYTES PROVE FALSE
    BY <1>1, <1>2
  <2>2. (floor - 1) * MAX_PARTS >= MAX_PART_BYTES * MAX_PARTS
    BY <1>1, <1>2, <2>1
  <2> QED
    BY <1>1, <1>2, <2>2
<1>4. PICK width \in Nat \ {0} : width = PartSize(bytes, target)
  BY <1>1, <1>2 DEF PartSize, floor
<1>5. width \in target..MAX_PART_BYTES /\ width >= floor
  BY <1>1, <1>2, <1>3, <1>4 DEF PartSize, floor
<1>6. PICK n \in Nat \ {0} : n = PartCount(bytes, width) /\ (n - 1) * width < bytes
  BY <1>1, <1>4, DivCeilBounds DEF PartCount
<1>7. n <= MAX_PARTS
  <2>1. SUFFICES ASSUME n - 1 >= MAX_PARTS PROVE FALSE
    BY <1>1, <1>6
  <2>2. (n - 1) * width >= MAX_PARTS * width
    BY <1>1, <1>4, <1>6, <2>1
  <2>3. MAX_PARTS * width >= MAX_PARTS * floor
    BY <1>1, <1>2, <1>4, <1>5
  <2> QED
    BY <1>1, <1>2, <1>4, <1>6, <2>2, <2>3
<1> QED
  BY <1>1, <1>4, <1>5, <1>6, <1>7

\* The parts tile the file: every part but the last is full, the last holds
\* what remains, at least one byte and at most a part.
THEOREM PartsTileTheFile ==
  ASSUME NEW bytes \in Nat \ {0}, NEW width \in Nat \ {0}
  PROVE  LET n == PartCount(bytes, width)
         IN /\ \A k \in 1..(n - 1) : ExpectedPartSize(bytes, width, k) = width
            /\ ExpectedPartSize(bytes, width, n) \in 1..width
            /\ (n - 1) * width + ExpectedPartSize(bytes, width, n) = bytes
<1>1. PICK n \in Nat \ {0} : /\ n = PartCount(bytes, width)
                            /\ (n - 1) * width < bytes /\ n * width >= bytes
  BY DivCeilBounds DEF PartCount
<1>2. PICK full \in Int : full = (n - 1) * width
  BY <1>1
<1>3. n * width = full + width
  BY <1>1, <1>2
<1>4. ExpectedPartSize(bytes, width, n) = bytes - full
  BY <1>1, <1>2 DEF ExpectedPartSize
<1>5. \A k \in 1..(n - 1) : ExpectedPartSize(bytes, width, k) = width
  BY <1>1 DEF ExpectedPartSize
<1> QED
  BY <1>1, <1>2, <1>3, <1>4, <1>5

-----------------------------------------------------------------------------
(***************************************************************************)
(* The upload                                                              *)
(***************************************************************************)
\* The geometry is the one preflight answered, or there is none yet.
Fixed ==
  \/ pc \in {"preflight", "failed"} /\ count = 0
  \/ /\ pc # "preflight"
     /\ size \in Nat \ {0} /\ part \in Nat \ {0}
     /\ count = PartCount(size, part) /\ count \in 1..MAX_PARTS

\* What the client no longer has to do is done.
InPlace ==
  pc \in {"put", "complete"} /\ open =>
    \A k \in (1..count) \ todo : stored[k] = ExpectedPartSize(size, part, k)

Inv ==
  /\ count \in 0..MAX_PARTS /\ open \in BOOLEAN
  /\ stored \in [Numbers -> Int]
  /\ todo \subseteq 1..count /\ flight \subseteq todo /\ stray \subseteq 1..count
  /\ pc = "complete" => todo = {}
  /\ pc = "list" => flight = {}
  /\ Fixed /\ InPlace

\* The client's slice of part k has exactly the length the server expects.
LEMMA SliceExpected ==
  ASSUME size \in Nat \ {0}, part \in Nat \ {0}, count = PartCount(size, part),
         NEW k \in 1..count
  PROVE  Slice(k) = ExpectedPartSize(size, part, k) /\ Slice(k) \in Int
<1>1. PICK n \in Nat \ {0} : /\ n = PartCount(size, part)
                            /\ (n - 1) * part < size /\ n * part >= size
  BY DivCeilBounds DEF PartCount
<1>2. CASE k = n
  <2>1. PICK full \in Int : full = (n - 1) * part
    BY <1>1
  <2>2. n * part = full + part /\ full < size
    BY <1>1, <2>1
  <2>3. Slice(k) = IF full + part <= size THEN part ELSE size - full
    BY <1>2, <2>1, <2>2 DEF Slice
  <2>4. ExpectedPartSize(size, part, k) = size - full
    BY <1>1, <1>2, <2>1 DEF ExpectedPartSize
  <2> QED
    BY <1>1, <2>2, <2>3, <2>4
<1>3. CASE k < n
  <2>1. k * part <= (n - 1) * part
    BY <1>1, <1>3
  <2>2. k * part <= size
    BY <1>1, <1>3, <2>1
  <2> QED
    BY <1>1, <1>3, <2>2 DEF Slice, ExpectedPartSize
<1> QED
  BY <1>1, <1>2, <1>3

LEMMA PartInit == Init => Inv
<1> SUFFICES ASSUME Init PROVE Inv
  OBVIOUS
<1>1. count \in 0..MAX_PARTS /\ stored \in [Numbers -> Int]
  BY LimitsAssumption DEF Init
<1>2. Fixed /\ InPlace /\ pc # "complete"
  BY DEF Init, Fixed, InPlace
<1> QED
  BY <1>1, <1>2 DEF Init, Inv

\* Every step keeps the invariant.
LEMMA PartStep ==
  ASSUME Inv, [Next]_vars
  PROVE  Inv'
<1> USE LimitsAssumption, ClientAssumption DEF Inv, Numbers
<1>1. ASSUME NEW s \in Sizes, NEW t \in Targets, Preflight(s, t) PROVE Inv'
  <2>1. s \in Int /\ t \in Int /\ Accepted(s, t) /\ s \in Nat \ {0}
    BY <1>1 DEF Preflight, Refused, Accepted
  <2>2. /\ PartSize(s, t) \in t..MAX_PART_BYTES
        /\ PartCount(s, PartSize(s, t)) \in 1..MAX_PARTS
    BY <2>1, PartsWithinLimits
  <2>3. t \in Nat \ {0}
    BY <2>1 DEF Accepted
  <2>4. todo = {} /\ flight = {} /\ stray = {}
    BY <1>1 DEF Preflight, Fixed
  <2> QED
    BY <1>1, <2>1, <2>2, <2>3, <2>4 DEF Preflight, Fixed, InPlace
<1>2. ASSUME NEW s \in Sizes, NEW t \in Targets, PreflightRefused(s, t) PROVE Inv'
  BY <1>2 DEF PreflightRefused, Fixed, InPlace, geometry
<1>3. ASSUME NEW r \in BOOLEAN, EndPass(r), pc \in {"list", "put"},
             UNCHANGED <<geometry, open, stored>>
      PROVE  Inv'
  BY <1>3 DEF EndPass, Fixed, InPlace, geometry
<1>4. CASE ListParts
  <2>1. CASE record /\ open
    <3>1. todo' = (1..count) \ Reported /\ pc' = "put" /\ flight' = flight /\ flight = {}
      BY <1>4, <2>1 DEF ListParts
    <3>2. UNCHANGED <<size, part, count, open, stored, stray>>
      BY <1>4, <2>1 DEF ListParts, geometry
    <3>3. Fixed'
      BY <1>4, <3>1, <3>2 DEF ListParts, Fixed
    <3>4. InPlace'
      BY <3>1, <3>2 DEF InPlace, Reported
    <3> QED
      BY <3>1, <3>2, <3>3, <3>4
  <2>2. CASE ~(record /\ open)
    BY <1>3, <1>4, <2>2 DEF ListParts, IsResumable
  <2> QED
    BY <2>1, <2>2
<1>5. CASE PassDone
  BY <1>5 DEF PassDone, Fixed, InPlace, geometry
<1>6. CASE Complete
  BY <1>6 DEF Complete, Fixed, InPlace, geometry
<1>7. ASSUME NEW k \in Numbers, SignPart(k) PROVE Inv'
  <2>1. CASE record /\ k \in Signed(k, 1)
    <3>1. flight' = flight \cup {k} /\ k \in todo /\ UNCHANGED <<pc, todo, stray>>
      BY <1>7, <2>1 DEF SignPart
    <3>2. UNCHANGED <<size, part, count, open, stored>> /\ pc = "put"
      BY <1>7 DEF SignPart, geometry
    <3>3. Fixed' /\ InPlace'
      BY <3>1, <3>2 DEF Fixed, InPlace
    <3> QED
      BY <3>1, <3>2, <3>3
  <2>2. CASE ~(record /\ k \in Signed(k, 1))
    BY <1>3, <1>7, <2>2 DEF SignPart, IsResumable
  <2> QED
    BY <2>1, <2>2
<1>8. ASSUME NEW k \in 1..count, Fixed, count # 0
      PROVE  Slice(k) = ExpectedPartSize(size, part, k) /\ Slice(k) \in Int
  BY <1>8, SliceExpected DEF Fixed
<1>9. ASSUME NEW k \in Numbers, PutLands(k) PROVE Inv'
  <2>1. k \in 1..count /\ count # 0
    BY <1>9 DEF PutLands
  <2>2. PICK len \in Int : len = Slice(k) /\ len = ExpectedPartSize(size, part, k)
    BY <1>8, <2>1
  <2> QED
    BY <1>9, <2>1, <2>2 DEF PutLands, Fixed, InPlace, geometry
<1>10. ASSUME NEW k \in Numbers, PutRefused(k) PROVE Inv'
  BY <1>3, <1>10 DEF PutRefused, IsResumable
<1>11. CASE PassFails
  BY <1>3, <1>11 DEF PassFails, IsResumable
<1>12. CASE CompleteFails
  BY <1>12 DEF CompleteFails, Fixed, InPlace, geometry
<1>13. CASE Expire
  BY <1>13 DEF Expire, Fixed, InPlace, geometry, client
<1>14. CASE Reap
  <2>1. UNCHANGED <<pc, size, part, count, todo, flight, stray>> /\ open' = FALSE
    BY <1>14 DEF Reap, geometry, client
  <2>2. stored' \in [Numbers -> Int]
    BY <1>14 DEF Reap
  <2>3. Fixed' /\ InPlace'
    BY <2>1 DEF Fixed, InPlace
  <2> QED
    BY <2>1, <2>2, <2>3
<1>15. ASSUME NEW k \in Numbers, StrayLands(k) PROVE Inv'
  <2>1. k \in 1..count /\ count # 0
    BY <1>15 DEF StrayLands
  <2>2. PICK len \in Int : len = Slice(k) /\ len = ExpectedPartSize(size, part, k)
    BY <1>8, <2>1
  <2> QED
    BY <1>15, <2>1, <2>2 DEF StrayLands, Fixed, InPlace, geometry
<1>16. ASSUME NEW k \in 1..count, NEW n \in Sizes \ {0}, OddPart(k, n) PROVE Inv'
  <2>1. pc = "list" /\ UNCHANGED <<pc, size, part, count, todo, flight, stray, open>>
    BY <1>16 DEF OddPart, geometry, client
  <2>2. stored' \in [Numbers -> Int]
    BY <1>16 DEF OddPart
  <2>3. Fixed' /\ InPlace'
    BY <2>1 DEF Fixed, InPlace
  <2> QED
    BY <2>1, <2>2, <2>3
<1>17. CASE UNCHANGED vars
  BY <1>17 DEF vars, client, geometry, Fixed, InPlace
<1> QED
  BY <1>1, <1>2, <1>4, <1>5, <1>6, <1>7, <1>9, <1>10, <1>11, <1>12, <1>13, <1>14,
     <1>15, <1>16, <1>17 DEF Next, Client

\* However often an upload is resumed, when the client calls /complete every
\* part in storage has the length the geometry calls for: for every file size,
\* part size, concurrency and number of passes.
THEOREM ResumedPartsInPlace == Spec => []PartsInPlace
<1>1. Init => Inv
  BY PartInit
<1>2. Inv /\ [Next]_vars => Inv'
  BY PartStep
<1>3. Inv => PartsInPlace
  BY DEF Inv, InPlace, PartsInPlace
<1> QED
  BY <1>1, <1>2, <1>3, PTL DEF Spec

-----------------------------------------------------------------------------
(***************************************************************************)
(* The object                                                              *)
(*                                                                         *)
(* Sums over the parts are reasoned about with the least number for which  *)
(* a claim would fail.                                                     *)
(***************************************************************************)
\* A set of numbers that is not empty has a least one.
LEMMA LeastElement ==
  ASSUME NEW S \in SUBSET Nat, S # {}
  PROVE  \E x \in S : \A y \in S : x <= y
<1>1. PICK x \in S : \A y \in S : ~(<<y, x>> \in OpToRel(<, Nat))
  BY NatLessThanWellFounded, WFMin
<1>2. \A y \in S : ~(y < x)
  BY <1>1 DEF OpToRel
<1> QED
  BY <1>2

\* f[k] is the sum of s[1], ..., s[k], up to n.
Sums(f, s, n) == f[0] = 0 /\ \A k \in 1..n : f[k] = f[k - 1] + s[k]

\* The partial sums exist.
LEMMA SumsExist ==
  ASSUME NEW m \in Nat, NEW s \in [1..m -> Int]
  PROVE  \E f \in [0..m -> Int] : Sums(f, s, m)
<1> DEFINE P(n) == \E f \in [0..n -> Int] : Sums(f, s, n)
           T == {n \in 0..m : ~P(n)}
<1>1. P(0)
  <2>1. [k \in 0..0 |-> 0] \in [0..0 -> Int] /\ Sums([k \in 0..0 |-> 0], s, 0)
    BY DEF Sums
  <2> QED
    BY <2>1
<1>2. ASSUME NEW n \in 1..m, P(n - 1) PROVE P(n)
  <2>1. PICK f \in [0..(n - 1) -> Int] : Sums(f, s, n - 1)
    BY <1>2
  <2> DEFINE g == [k \in 0..n |-> IF k = n THEN f[n - 1] + s[n] ELSE f[k]]
  <2>2. g \in [0..n -> Int]
    OBVIOUS
  <2>3. Sums(g, s, n)
    <3>1. g[0] = 0
      BY <2>1 DEF Sums
    <3>2. ASSUME NEW k \in 1..n PROVE g[k] = g[k - 1] + s[k]
      BY <2>1 DEF Sums
    <3> QED
      BY <3>1, <3>2 DEF Sums
  <2> QED
    BY <2>2, <2>3
<1> HIDE DEF P
<1>3. T = {}
  <2>1. SUFFICES ASSUME T # {} PROVE FALSE
    OBVIOUS
  <2>2. PICK x \in T : \A y \in T : x <= y
    <3>1. T \in SUBSET Nat
      OBVIOUS
    <3> QED
      BY Zenon, <2>1, <3>1, LeastElement
  <2>3. x \in 1..m
    BY <1>1, <2>2
  <2>4. x - 1 \in 0..m /\ ~(x - 1 \in T)
    BY <2>2, <2>3
  <2> QED
    BY <1>2, <2>2, <2>3, <2>4
<1>4. P(m)
  BY <1>3
<1> QED
  BY <1>4 DEF P

\* What is assembled is the last of the partial sums of what is stored.
LEMMA AssembledSums ==
  ASSUME stored \in [Numbers -> Int]
  PROVE  \E f : Sums(f, stored, MAX_PARTS) /\ Assembled = f[MAX_PARTS]
<1> DEFINE Eq(f) == f = [k \in 0..MAX_PARTS |-> IF k = 0 THEN 0 ELSE f[k - 1] + stored[k]]
<1>1. PICK f \in [0..MAX_PARTS -> Int] : Sums(f, stored, MAX_PARTS)
  BY SumsExist, LimitsAssumption DEF Numbers
<1>2. Eq(f)
  BY <1>1, LimitsAssumption DEF Sums
<1> DEFINE g == CHOOSE h : Eq(h)
<1>3. Eq(g)
  BY <1>2
<1>4. Assembled = g[MAX_PARTS]
  BY DEF Assembled
<1> HIDE DEF g
<1>5. Sums(g, stored, MAX_PARTS)
  BY <1>3, LimitsAssumption DEF Sums
<1> QED
  BY <1>4, <1>5

\* Parts of the expected lengths, and no others, add up to the declared size.
LEMMA PartsAddUp ==
  ASSUME size \in Nat \ {0}, part \in Nat \ {0}, count = PartCount(size, part),
         count \in 1..MAX_PARTS, stored \in [Numbers -> Int],
         \A k \in 1..count : stored[k] = ExpectedPartSize(size, part, k),
         \A k \in Numbers : k > count => stored[k] = 0
  PROVE  Assembled = size
<1>1. PICK f : Sums(f, stored, MAX_PARTS) /\ Assembled = f[MAX_PARTS]
  BY AssembledSums
<1> DEFINE P(k) == f[k] = IF k < count THEN k * part ELSE size
           T == {k \in 0..MAX_PARTS : ~P(k)}
<1>2. P(0)
  BY <1>1 DEF Sums
<1>3. ASSUME NEW k \in 1..MAX_PARTS, P(k - 1) PROVE P(k)
  <2>1. f[k] = f[k - 1] + stored[k]
    BY <1>1 DEF Sums
  <2>2. CASE k < count
    <3>1. stored[k] = part
      BY <2>2 DEF ExpectedPartSize
    <3>3. f[k - 1] = (k - 1) * part
      BY <1>3, <2>2
    <3>2. (k - 1) * part + part = k * part
      OBVIOUS
    <3> QED
      BY <2>1, <2>2, <3>1, <3>2, <3>3
  <2>3. CASE k = count
    <3>1. f[k - 1] = (count - 1) * part /\ stored[k] = ExpectedPartSize(size, part, count)
      BY <1>3, <2>3
    <3>2. (count - 1) * part + ExpectedPartSize(size, part, count) = size
      BY PartsTileTheFile
    <3> QED
      BY <2>1, <2>3, <3>1, <3>2
  <2>4. CASE k > count
    <3>1. f[k - 1] = size /\ stored[k] = 0
      BY <1>3, <2>4 DEF Numbers
    <3> QED
      BY <2>1, <2>4, <3>1
  <2> QED
    BY <2>2, <2>3, <2>4
<1> HIDE DEF P
<1>4. T = {}
  <2>1. SUFFICES ASSUME T # {} PROVE FALSE
    OBVIOUS
  <2>2. PICK x \in T : \A y \in T : x <= y
    <3>1. T \in SUBSET Nat
      OBVIOUS
    <3> QED
      BY Zenon, <2>1, <3>1, LeastElement
  <2>3. x \in 1..MAX_PARTS
    BY <1>2, <2>2, LimitsAssumption
  <2>4. x - 1 \in 0..MAX_PARTS /\ ~(x - 1 \in T)
    BY <2>2, <2>3, LimitsAssumption
  <2> QED
    BY <1>3, <2>2, <2>3, <2>4
<1>5. P(MAX_PARTS)
  BY <1>4, LimitsAssumption
<1> QED
  BY <1>1, <1>5, LimitsAssumption DEF P

\* Nothing is stored outside the geometry, and an object has the size that
\* preflight fixed.
WholeInv ==
  /\ \A k \in Numbers : k > count => stored[k] = 0
  /\ pc = "preflight" => object = 0
  /\ WholeObject

\* Every step keeps WholeInv.
LEMMA WholeStep ==
  ASSUME Inv, WholeInv, [Next]_vars
  PROVE  WholeInv'
<1> USE LimitsAssumption DEF WholeInv, WholeObject, Numbers
<1>1. ASSUME NEW s \in Sizes, NEW t \in Targets, Preflight(s, t) PROVE WholeInv'
  <2>1. count = 0
    BY <1>1 DEF Preflight, Inv, Fixed
  <2>2. object' = 0 /\ pc' = "list" /\ stored' = stored /\ count' \in Int
    <3>1. s \in Int /\ t \in Int /\ Accepted(s, t)
      BY <1>1, ClientAssumption DEF Preflight, Refused
    <3>2. PartCount(s, PartSize(s, t)) \in 1..MAX_PARTS
      BY <3>1, PartsWithinLimits
    <3> QED
      BY <1>1, <3>2 DEF Preflight
  <2>3. \A k \in Numbers : stored[k] = 0
    BY <2>1
  <2> QED
    BY <2>2, <2>3
<1>2. CASE Complete
  <2>1. CASE record /\ open
    <3>1. object' = Assembled /\ pc = "complete" /\ pc' = "done"
          /\ UNCHANGED <<size, count, stored>>
      BY <1>2, <2>1 DEF Complete, geometry
    <3>2. Assembled = size
      <4>1. /\ size \in Nat \ {0} /\ part \in Nat \ {0} /\ count = PartCount(size, part)
            /\ count \in 1..MAX_PARTS /\ stored \in [Numbers -> Int]
        BY <3>1 DEF Inv, Fixed
      <4>2. \A k \in 1..count : stored[k] = ExpectedPartSize(size, part, k)
        BY <2>1, <3>1 DEF Inv, InPlace
      <4>3. \A k \in Numbers : k > count => stored[k] = 0
        OBVIOUS
      <4> QED
        BY Zenon, <4>1, <4>2, <4>3, PartsAddUp
    <3> QED
      BY <3>1, <3>2
  <2>2. CASE ~(record /\ open)
    BY <1>2, <2>2 DEF Complete, geometry
  <2> QED
    BY <2>1, <2>2
<1>3. ASSUME NEW k \in 1..count, NEW n, stored' = [stored EXCEPT ![k] = n],
             UNCHANGED <<size, count, object, pc>>
      PROVE  WholeInv'
  BY <1>3 DEF Inv
<1>4. CASE UNCHANGED <<size, count, stored, object>> /\ pc' # "preflight"
  BY <1>4
<1>5. CASE Reap \/ Expire \/ UNCHANGED vars
  BY <1>5 DEF Reap, Expire, vars, client, geometry, Inv
<1>6. ASSUME NEW k \in Numbers, PutLands(k) \/ StrayLands(k) PROVE WholeInv'
  BY <1>3, <1>6 DEF PutLands, StrayLands, Inv, geometry
<1>7. ASSUME NEW k \in 1..count, NEW n \in Sizes \ {0}, OddPart(k, n) PROVE WholeInv'
  BY <1>3, <1>7 DEF OddPart, client, geometry
<1>8. ASSUME NEW s \in Sizes, NEW t \in Targets, PreflightRefused(s, t) PROVE WholeInv'
  BY <1>4, <1>8 DEF PreflightRefused, geometry
<1>9. ASSUME NEW k \in Numbers, SignPart(k) \/ PutRefused(k) PROVE WholeInv'
  BY <1>4, <1>9 DEF SignPart, PutRefused, EndPass, geometry
<1>10. CASE ListParts \/ PassDone \/ PassFails \/ CompleteFails
  BY <1>4, <1>10 DEF ListParts, PassDone, PassFails, CompleteFails, EndPass, geometry
<1> QED
  BY <1>1, <1>2, <1>5, <1>6, <1>7, <1>8, <1>9, <1>10 DEF Next, Client

\* The object that is assembled from the parts of an upload, resumed however
\* often, has the declared size: for every file size, part size, concurrency and
\* number of passes.
THEOREM AssembledWhole == Spec => []WholeObject
<1>1. Init => Inv /\ WholeInv
  BY PartInit DEF Init, WholeInv, WholeObject, Numbers
<1>2. Inv /\ WholeInv /\ [Next]_vars => Inv' /\ WholeInv'
  BY PartStep, WholeStep
<1>3. WholeInv => WholeObject
  BY DEF WholeInv
<1> QED
  BY <1>1, <1>2, <1>3, PTL DEF Spec
=============================================================================
