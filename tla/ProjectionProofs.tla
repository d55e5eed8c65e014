-------------------------- MODULE ProjectionProofs --------------------------
(***************************************************************************)
(* The document table is a cache of the log, for any number of instances,  *)
(* documents, events, faults and rebuilds, whether or not the lease        *)
(* excludes a second projector.  First, what the log says of a document    *)
(* (Expected) is shown to equal folding its events one by one with         *)
(* document-domain's Apply, and to be final: later events do not change    *)
(* what is said of an earlier moment.                                      *)
(***************************************************************************)
EXTENDS Projection, TLAPS

USE ZenonT(30)

-----------------------------------------------------------------------------
(***************************************************************************)
(* The greatest element of a bounded set of numbers                        *)
(***************************************************************************)
\* Every set of numbers up to n has a greatest one.  It is shown for n = Len(log),
\* as the log grows.
Bounded(n) ==
  \A S \in SUBSET (1..n) : S # {} => \E x \in S : \A y \in S : y <= x

LEMMA BoundedZero == Bounded(0)
<1>1. 1..0 = {}
  BY SMT
<1> QED
  BY <1>1 DEF Bounded

LEMMA BoundedNext ==
  ASSUME NEW n \in Nat, Bounded(n)
  PROVE  Bounded(n + 1)
<1> SUFFICES ASSUME NEW S \in SUBSET (1..n+1), S # {}
             PROVE  \E x \in S : \A y \in S : y <= x
  BY DEF Bounded
<1>1. CASE n + 1 \in S
  BY SMT, <1>1
<1>2. CASE n + 1 \notin S
  <2>1. S \in SUBSET (1..n)
    BY SMT, <1>2
  <2> QED
    BY <2>1 DEF Bounded
<1> QED
  BY <1>1, <1>2

LEMMA GreatestElement ==
  ASSUME NEW n \in Nat, Bounded(n), NEW S \in SUBSET (1..n), S # {}
  PROVE  Max(S) \in S /\ \A y \in S : y <= Max(S)
  BY DEF Bounded, Max

\* The last of a set that holds its bound is the bound.
LEMMA LastIsBound ==
  ASSUME NEW n \in Nat, NEW S \in SUBSET (1..n), n \in S
  PROVE  Max(S) = n /\ Last(S) = n
<1>1. \A y \in S : y <= n
  BY SMT
<1>2. Max(S) \in S /\ \A y \in S : y <= Max(S)
  BY <1>1 DEF Max
<1>3. n <= Max(S) /\ Max(S) \in 1..n
  BY <1>2
<1> QED
  BY SMT, <1>3 DEF Last

LEMMA LastRange ==
  ASSUME NEW n \in Nat, Bounded(n), NEW S \in SUBSET (1..n)
  PROVE  /\ Last(S) \in 0..n
         /\ S = {} <=> Last(S) = 0
         /\ S # {} => Last(S) \in S /\ \A y \in S : y <= Last(S)
         /\ S # {} => Last(S) = Max(S)
<1>1. S # {} => Max(S) \in S /\ \A y \in S : y <= Max(S)
  BY GreatestElement
<1>2. CASE S = {}
  BY SMT, <1>2 DEF Last
<1>3. CASE S # {}
  <2>1. Last(S) = Max(S) /\ Last(S) \in 1..n
    BY <1>1, <1>3 DEF Last
  <2> QED
    BY SMT, <1>1, <1>3, <2>1
<1> QED
  BY <1>2, <1>3

-----------------------------------------------------------------------------
(***************************************************************************)
(* The log, and what it says of a document                                 *)
(***************************************************************************)
LogInv ==
  /\ log \in Seq(Event)
  /\ \A j, k \in 1..Len(log) : j < k /\ log[j].doc = log[k].doc => log[k].kind # "created"
  /\ \A k \in 1..Len(log) : log[k].patch => log[k].kind \in {"created", "validated", "metadata"}
  /\ Bounded(Len(log))

KnownKinds == Kinds \ {"unknown", "imported"}
\* The events up to k that show in the state of d, and the last of them.
Known(d, k) == Writers(d, k, KnownKinds)
Tip(d, k) == Last(Known(d, k))

LEMMA LogFacts ==
  ASSUME LogInv
  PROVE  Len(log) \in Nat /\ \A k \in 1..Len(log) : log[k] \in Event /\ log[k].doc \in Docs
<1>1. Len(log) \in Nat /\ \A k \in 1..Len(log) : log[k] \in Event
  BY SMT DEF LogInv
<1> QED
  BY <1>1 DEF Event

LEMMA BoundedUpTo ==
  ASSUME LogInv, NEW k \in 0..Len(log)
  PROVE  k \in Nat /\ Bounded(k)
<1>1. Len(log) \in Nat /\ k \in Nat
  BY SMT, LogFacts
<1>2. \A S \in SUBSET (1..k) : S \in SUBSET (1..Len(log))
  BY SMT, <1>1
<1> QED
  BY <1>1, <1>2 DEF LogInv, Bounded

LEMMA WritersRange ==
  ASSUME NEW d, NEW k \in Nat, NEW K
  PROVE  Writers(d, k, K) \in SUBSET (1..k)
  BY DEF Writers

\* Events that do not show change nothing.
LEMMA WritersBetween ==
  ASSUME NEW d, NEW k \in Nat, NEW m \in 0..k, NEW K \in SUBSET KnownKinds,
         \A j \in m+1..k : j \notin Known(d, k)
  PROVE  Writers(d, k, K) = Writers(d, m, K)
<1>1. ASSUME NEW j \in Writers(d, m, K) PROVE j \in Writers(d, k, K)
  BY SMT DEF Writers
<1>2. ASSUME NEW j \in Writers(d, k, K) PROVE j \in Writers(d, m, K)
  <2>1. j \in Known(d, k) /\ j \in 1..k
    BY DEF Writers, Known
  <2>2. j \in 1..m
    BY SMT, <2>1
  <2> QED
    BY SMT, <2>1, <2>2 DEF Writers
<1> QED
  BY <1>1, <1>2

LEMMA ExpectedBetween ==
  ASSUME NEW d, NEW k \in Nat, NEW m \in 0..k,
         \A j \in m+1..k : j \notin Known(d, k)
  PROVE  Expected(d, k) = Expected(d, m) /\ Tip(d, k) = Tip(d, m)
<1>1. /\ {"deleted"} \in SUBSET KnownKinds /\ {"indexed"} \in SUBSET KnownKinds
      /\ {"created", "validated", "indexed", "stage_failed"} \in SUBSET KnownKinds
      /\ {"created", "validated"} \in SUBSET KnownKinds
      /\ {"created"} \in SUBSET KnownKinds /\ KnownKinds \in SUBSET KnownKinds
  BY DEF KnownKinds, Kinds
<1>2. \A K \in SUBSET KnownKinds : Writers(d, k, K) = Writers(d, m, K)
  BY WritersBetween
<1> QED
  BY <1>1, <1>2 DEF Expected, Tip, Known, KnownKinds

\* A state is what the log says at its last event.
LEMMA ExpectedSeq ==
  ASSUME LogInv, NEW d, NEW k \in 0..Len(log)
  PROVE  /\ Expected(d, k).seq = Tip(d, k) /\ Tip(d, k) \in 0..k
         /\ Tip(d, k) = 0 => Expected(d, k) = NoRow
         /\ Tip(d, k) # 0 => Tip(d, k) \in Known(d, k)
         /\ \A j \in Known(d, k) : j <= Tip(d, k)
<1>0. k \in Nat /\ Bounded(k)
  BY BoundedUpTo
<1>1. Known(d, k) \in SUBSET (1..k)
  BY <1>0, WritersRange DEF Known
<1>2. /\ Tip(d, k) \in 0..k /\ (Known(d, k) = {} <=> Tip(d, k) = 0)
      /\ Known(d, k) # {} => /\ Tip(d, k) \in Known(d, k) /\ Tip(d, k) = Max(Known(d, k))
                             /\ \A j \in Known(d, k) : j <= Tip(d, k)
  BY <1>0, <1>1, LastRange DEF Tip
<1>3. Expected(d, k).seq = Tip(d, k)
  <2>1. CASE Known(d, k) = {}
    BY <1>2, <2>1 DEF Expected, Known, KnownKinds, NoRow
  <2>2. CASE Known(d, k) # {}
    BY <1>2, <2>2 DEF Expected, Known, KnownKinds
  <2> QED
    BY <2>1, <2>2
<1>4. Tip(d, k) = 0 => Expected(d, k) = NoRow
  BY <1>2 DEF Expected, Known, KnownKinds
<1> QED
  BY <1>2, <1>3, <1>4

LEMMA TipState ==
  ASSUME LogInv, NEW d, NEW k \in 0..Len(log)
  PROVE  Expected(d, Tip(d, k)) = Expected(d, k) /\ Tip(d, Tip(d, k)) = Tip(d, k)
<1>1. k \in Nat /\ Tip(d, k) \in 0..k /\ \A j \in Known(d, k) : j <= Tip(d, k)
  BY ExpectedSeq, BoundedUpTo
<1>2. \A j \in Tip(d, k)+1..k : j \notin Known(d, k)
  BY SMT, <1>1
<1> QED
  BY <1>1, <1>2, ExpectedBetween

\* Which events show: those of a document that was created before.
LEMMA Shows ==
  ASSUME LogInv, NEW k \in 1..Len(log), NEW d, d = log[k].doc
  PROVE  k \in Known(d, k) <=> /\ log[k].kind \in KnownKinds
                               /\ log[k].kind = "created" \/ Tip(d, k-1) # 0
<1>1. k \in Nat /\ k - 1 \in Nat /\ k - 1 \in 0..Len(log) /\ Len(log) \in Nat
  BY SMT DEF LogInv
<1>2. ASSUME k \in Known(d, k), log[k].kind # "created" PROVE Tip(d, k-1) # 0
  <2>1. PICK b \in 1..k : log[b].doc = d /\ log[b].kind = "created"
    BY <1>2 DEF Known, Writers
  <2>2. b \in 1..k-1
    BY SMT, <1>1, <1>2, <2>1
  <2>3. b \in Known(d, k-1)
    BY SMT, <2>1, <2>2, <1>1 DEF Known, Writers, KnownKinds, Kinds
  <2> QED
    BY SMT, <1>1, <2>2, <2>3, ExpectedSeq
<1>3. ASSUME log[k].kind \in KnownKinds, Tip(d, k-1) # 0 PROVE k \in Known(d, k)
  <2>1. Tip(d, k-1) \in Known(d, k-1) /\ Tip(d, k-1) \in 0..k-1
    BY <1>1, <1>3, ExpectedSeq
  <2>2. PICK b \in 1..k-1 : log[b].doc = d /\ log[b].kind = "created"
    BY <2>1 DEF Known, Writers
  <2>3. b \in 1..k /\ b <= k
    BY SMT, <2>2, <1>1
  <2> QED
    BY SMT, <1>3, <2>2, <2>3 DEF Known, Writers
<1>4. ASSUME log[k].kind = "created" PROVE k \in Known(d, k)
  BY SMT, <1>4 DEF Known, Writers, KnownKinds, Kinds
<1>5. k \in Known(d, k) => log[k].kind \in KnownKinds
  BY DEF Known, Writers
<1> QED
  BY <1>2, <1>3, <1>4, <1>5

\* The writers of a field after an event that shows.
LEMMA WritersAt ==
  ASSUME NEW d, NEW k \in Nat \ {0}, k \in Known(d, k), NEW K \in SUBSET KnownKinds
  PROVE  /\ log[k].kind \in K => /\ Writers(d, k, K) # {} /\ Last(Writers(d, k, K)) = k
                                 /\ Max(Writers(d, k, K)) = k
         /\ log[k].kind \notin K => Writers(d, k, K) = Writers(d, k-1, K)
<1>1. Writers(d, k, K) \in SUBSET (1..k)
  BY WritersRange
<1>2. ASSUME log[k].kind \in K PROVE k \in Writers(d, k, K)
  BY <1>2 DEF Known, Writers
<1>3. log[k].kind \in K => /\ Writers(d, k, K) # {} /\ Last(Writers(d, k, K)) = k
                           /\ Max(Writers(d, k, K)) = k
  <2> SUFFICES ASSUME log[k].kind \in K
               PROVE /\ Writers(d, k, K) # {} /\ Last(Writers(d, k, K)) = k
                     /\ Max(Writers(d, k, K)) = k
    OBVIOUS
  <2>1. k \in Writers(d, k, K)
    BY <1>2
  <2>2. Last(Writers(d, k, K)) = k
    BY <1>1, <2>1, LastIsBound
  <2> QED
    BY <1>1, <2>1, <2>2, LastIsBound
<1>4. ASSUME log[k].kind \notin K, NEW j \in Writers(d, k, K) PROVE j \in Writers(d, k-1, K)
  <2>1. j # k /\ j \in 1..k
    BY <1>4 DEF Writers
  <2>2. j \in 1..k-1
    BY SMT, <2>1
  <2> QED
    BY SMT, <1>4, <2>2 DEF Writers
<1>5. ASSUME NEW j \in Writers(d, k-1, K) PROVE j \in Writers(d, k, K)
  BY SMT DEF Writers
<1>6. log[k].kind \notin K => Writers(d, k, K) = Writers(d, k-1, K)
  BY <1>4, <1>5
<1> QED
  BY <1>3, <1>6

\* The state the log calls for has its type.
LEMMA ExpectedType ==
  ASSUME LogInv, NEW k \in 0..Len(log), NEW d, Known(d, k) # {}
  PROVE  Expected(d, k) \in DocumentState
<1> DEFINE Index == {"created", "validated", "indexed", "stage_failed"}
           Patches == {j \in Known(d, k) : log[j].patch}
<1>0. k \in Nat /\ Bounded(k)
  BY BoundedUpTo
<1>1. \A j \in 1..k : log[j] \in Event
  BY SMT DEF LogInv
<1>2. \A j \in 1..k : log[j].version \in Nat /\ log[j].forVersion \in Nat
  BY <1>1 DEF Event
<1>3. Max(Known(d, k)) \in 1..k
  BY <1>0, WritersRange, GreatestElement DEF Known
<1>4. \A K : Last(Writers(d, k, K)) \in 0..k
  BY <1>0, WritersRange, LastRange
<1>5. Last(Patches) \in 0..k
  <2>1. Patches \in SUBSET (1..k)
    BY <1>0, WritersRange DEF Known
  <2> QED
    BY <1>0, <2>1, LastRange
<1>6. Expected(d, k) =
            [version |-> log[Max(Known(d, k))].version,
             seq |-> Max(Known(d, k)),
             state |-> IF Writers(d, k, {"deleted"}) = {} THEN "active" ELSE "deleted",
             index |-> IF log[Last(Writers(d, k, Index))].kind = "stage_failed" THEN "failed"
                       ELSE IF /\ log[Last(Writers(d, k, Index))].kind = "indexed"
                               /\ log[Last(Writers(d, k, Index))].forVersion
                                    >= log[Last(Writers(d, k, Index))].version
                       THEN "current" ELSE "pending",
             indexVersion |-> IF Last(Writers(d, k, {"indexed"})) = 0 THEN 0
                              ELSE log[Last(Writers(d, k, {"indexed"}))].forVersion,
             blob |-> Last(Writers(d, k, {"created", "validated"})),
             title |-> Last(Patches),
             created |-> Last(Writers(d, k, {"created"}))]
  BY DEF Expected, Known, KnownKinds
<1> HIDE DEF Patches, Index
<1> QED
  BY SMT, <1>2, <1>3, <1>4, <1>5, <1>6 DEF DocumentState

\* The fold field by field, for every event but a create.
LEMMA ApplyFields ==
  ASSUME NEW s \in DocumentState, NEW e, NEW k, e.kind \in KnownKinds, e.kind # "created",
         e.patch => e.kind \in {"validated", "metadata"}
  PROVE  Apply(s, e, k) =
           [version |-> e.version, seq |-> k,
            state |-> IF e.kind = "deleted" THEN "deleted" ELSE s.state,
            index |-> IF e.kind = "validated" THEN "pending"
                      ELSE IF e.kind = "stage_failed" THEN "failed"
                      ELSE IF e.kind = "indexed"
                      THEN IF e.forVersion >= e.version THEN "current" ELSE "pending"
                      ELSE s.index,
            indexVersion |-> IF e.kind = "indexed" THEN e.forVersion ELSE s.indexVersion,
            blob |-> IF e.kind = "validated" THEN k ELSE s.blob,
            title |-> IF e.patch THEN k ELSE s.title,
            created |-> s.created]
<1>1. Touch(s, e, k) = [version |-> e.version, seq |-> k, state |-> s.state, index |-> s.index,
                        indexVersion |-> s.indexVersion, blob |-> s.blob,
                        title |-> s.title, created |-> s.created]
  <2>1. s = [version |-> s.version, seq |-> s.seq, state |-> s.state, index |-> s.index,
             indexVersion |-> s.indexVersion, blob |-> s.blob,
             title |-> s.title, created |-> s.created]
    BY DEF DocumentState
  <2>2. Touch(s, e, k) = [[version |-> s.version, seq |-> s.seq, state |-> s.state,
             index |-> s.index, indexVersion |-> s.indexVersion, blob |-> s.blob,
             title |-> s.title, created |-> s.created] EXCEPT !.version = e.version, !.seq = k]
    BY <2>1 DEF Touch
  <2> QED
    BY <2>2
<1>2. CASE e.kind = "validated"
  <2>1. Apply(s, e, k) = NewBytes(s, e, k)
    BY <1>2 DEF Apply
  <2>2. [Touch(s, e, k) EXCEPT !.blob = k, !.index = "pending"] =
          [version |-> e.version, seq |-> k, state |-> s.state, index |-> "pending",
           indexVersion |-> s.indexVersion, blob |-> k, title |-> s.title,
           created |-> s.created]
    <3> DEFINE r == [Touch(s, e, k) EXCEPT !.blob = k, !.index = "pending"]
    <3>1. r = [[version |-> e.version, seq |-> k, state |-> s.state,
             index |-> s.index, indexVersion |-> s.indexVersion, blob |-> s.blob,
             title |-> s.title, created |-> s.created] EXCEPT !.blob = k, !.index = "pending"]
      BY <1>1
    <3> HIDE DEF r
    <3>2. r = [version |-> e.version, seq |-> k, state |-> s.state, index |-> "pending",
               indexVersion |-> s.indexVersion, blob |-> k, title |-> s.title,
               created |-> s.created]
      BY <3>1
    <3> QED
      BY <3>2 DEF r
  <2>3. ~e.patch => Apply(s, e, k) = [Touch(s, e, k) EXCEPT !.blob = k, !.index = "pending"]
    BY <2>1 DEF NewBytes, MergePatch
  <2>4. e.patch => Apply(s, e, k) = [[Touch(s, e, k) EXCEPT !.blob = k, !.index = "pending"]
                                       EXCEPT !.title = k]
    BY <2>1 DEF NewBytes, MergePatch
  <2>5. CASE ~e.patch
    BY <1>2, <2>2, <2>3, <2>5
  <2>6. CASE e.patch
    <3>1. Apply(s, e, k) = [[version |-> e.version, seq |-> k, state |-> s.state,
             index |-> "pending", indexVersion |-> s.indexVersion, blob |-> k,
             title |-> s.title, created |-> s.created] EXCEPT !.title = k]
      BY <2>2, <2>4, <2>6
    <3> QED
      BY <1>2, <2>6, <3>1
  <2> QED
    BY <2>5, <2>6
<1>3. CASE e.kind = "metadata"
  <2>1. Apply(s, e, k) = MergePatch(Touch(s, e, k), e, k)
    BY <1>3 DEF Apply
  <2> QED
    BY SMT, <1>1, <1>3, <2>1 DEF MergePatch
<1>4. CASE e.kind = "deleted"
  <2>1. Apply(s, e, k) = [Touch(s, e, k) EXCEPT !.state = "deleted"]
    BY <1>4 DEF Apply
  <2> QED
    BY SMT, <1>1, <1>4, <2>1
<1>5. CASE e.kind = "indexed"
  <2>1. Apply(s, e, k) = [Touch(s, e, k) EXCEPT
            !.indexVersion = e.forVersion,
            !.index = IF e.forVersion >= e.version THEN "current" ELSE "pending"]
    BY <1>5 DEF Apply
  <2>2. Apply(s, e, k) = [[version |-> e.version, seq |-> k, state |-> s.state,
             index |-> s.index, indexVersion |-> s.indexVersion, blob |-> s.blob,
             title |-> s.title, created |-> s.created] EXCEPT
            !.indexVersion = e.forVersion,
            !.index = IF e.forVersion >= e.version THEN "current" ELSE "pending"]
    BY <1>1, <2>1
  <2> QED
    BY <1>5, <2>2
<1>6. CASE e.kind = "stage_failed"
  <2>1. Apply(s, e, k) = [Touch(s, e, k) EXCEPT !.index = "failed"]
    BY <1>6 DEF Apply
  <2> QED
    BY SMT, <1>1, <1>6, <2>1
<1>7. CASE e.kind = "touched"
  <2>1. Apply(s, e, k) = Touch(s, e, k)
    BY <1>7 DEF Apply
  <2> QED
    BY <1>1, <1>7, <2>1
<1> QED
  BY <1>2, <1>3, <1>4, <1>5, <1>6, <1>7 DEF KnownKinds, Kinds

\* Expected agrees with the fold, event by event.
LEMMA ExpectedApply ==
  ASSUME LogInv, NEW k \in 1..Len(log), NEW d, d = log[k].doc, k \in Known(d, k)
  PROVE  Expected(d, k) = Apply(Expected(d, k-1), log[k], k)
<1> DEFINE e == log[k]
           Index == {"created", "validated", "indexed", "stage_failed"}
           Patches(n) == {j \in Known(d, n) : log[j].patch}
<1>1. k \in Nat \ {0} /\ k - 1 \in Nat /\ e \in Event /\ e.kind \in KnownKinds
      /\ (e.patch => e.kind \in {"created", "validated", "metadata"})
  BY SMT, Shows DEF LogInv
<1>2. /\ {"deleted"} \in SUBSET KnownKinds /\ {"indexed"} \in SUBSET KnownKinds
      /\ Index \in SUBSET KnownKinds /\ {"created", "validated"} \in SUBSET KnownKinds
      /\ {"created"} \in SUBSET KnownKinds /\ KnownKinds \in SUBSET KnownKinds
  BY DEF KnownKinds, Kinds
<1>3. \A K \in SUBSET KnownKinds :
        /\ e.kind \in K => /\ Writers(d, k, K) # {} /\ Last(Writers(d, k, K)) = k
                           /\ Max(Writers(d, k, K)) = k
        /\ e.kind \notin K => Writers(d, k, K) = Writers(d, k-1, K)
  BY SMT, <1>1, WritersAt
<1>4. Known(d, k) # {} /\ Max(Known(d, k)) = k
  BY <1>1, <1>2, <1>3 DEF Known
<1>5. Last(Patches(k)) = IF e.patch THEN k ELSE Last(Patches(k-1))
  <2>1. Patches(k) \in SUBSET (1..k)
    BY SMT, WritersRange DEF Known
  <2>2. CASE e.patch
    BY SMT, <2>1, <2>2, LastIsBound
  <2>3. CASE ~e.patch
    <3>1. \A j \in Known(d, k) : j # k => j \in Known(d, k-1)
      BY SMT, <1>1 DEF Known, Writers
    <3>2. \A j \in Known(d, k-1) : j \in Known(d, k) /\ j # k
      BY SMT, <1>1 DEF Known, Writers
    <3>3. Patches(k) = Patches(k-1)
      BY <2>3, <3>1, <3>2
    <3> QED
      BY <2>3, <3>3
  <2> QED
    BY <2>2, <2>3
<1>6. CASE e.kind = "created"
  <2>1. \A j \in 1..k-1 : log[j].doc # d
    BY SMT, <1>1, <1>6 DEF LogInv
  <2>2. \A K : Writers(d, k-1, K) = {}
    BY <2>1 DEF Writers
  <2>3. Expected(d, k-1) = NoRow /\ Patches(k-1) = {} /\ Last({}) = 0
    BY <2>2 DEF Expected, Known, Last
  <2>4. Last(Writers(d, k, Index)) = k
    BY <1>2, <1>3, <1>6
  <2>5. Writers(d, k, {"deleted"}) = {} /\ Writers(d, k, {"indexed"}) = {}
    BY <1>2, <1>3, <1>6, <2>2
  <2>6. Last(Writers(d, k, {"created", "validated"})) = k /\ Last(Writers(d, k, {"created"})) = k
    BY <1>2, <1>3, <1>6
  <2>7. Expected(d, k) = [version |-> e.version, seq |-> k, state |-> "active",
          index |-> "pending", indexVersion |-> 0, blob |-> k,
          title |-> IF e.patch THEN k ELSE 0, created |-> k]
    BY <1>4, <1>5, <1>6, <2>3, <2>4, <2>5, <2>6 DEF Expected, Known, KnownKinds
  <2>8. Apply(NoRow, e, k) = MergePatch(Seed(NoRow, e, k), e, k)
    BY <1>6 DEF Apply
  <2> QED
    BY <2>3, <2>7, <2>8 DEF MergePatch, Seed
<1>7. CASE e.kind # "created"
  <2>1. Known(d, k-1) # {}
    BY <1>1, <1>7, Shows DEF Tip, Last
  <2> DEFINE p == Expected(d, k-1)
             x == Expected(d, k)
  <2>2. p = [version |-> log[Max(Known(d, k-1))].version,
             seq |-> Max(Known(d, k-1)),
             state |-> IF Writers(d, k-1, {"deleted"}) = {} THEN "active" ELSE "deleted",
             index |-> IF log[Last(Writers(d, k-1, Index))].kind = "stage_failed" THEN "failed"
                       ELSE IF /\ log[Last(Writers(d, k-1, Index))].kind = "indexed"
                               /\ log[Last(Writers(d, k-1, Index))].forVersion
                                    >= log[Last(Writers(d, k-1, Index))].version
                       THEN "current" ELSE "pending",
             indexVersion |-> IF Last(Writers(d, k-1, {"indexed"})) = 0 THEN 0
                              ELSE log[Last(Writers(d, k-1, {"indexed"}))].forVersion,
             blob |-> Last(Writers(d, k-1, {"created", "validated"})),
             title |-> Last(Patches(k-1)),
             created |-> Last(Writers(d, k-1, {"created"}))]
    BY <2>1 DEF Expected, Known, KnownKinds
  <2>3. x = [version |-> e.version,
             seq |-> k,
             state |-> IF Writers(d, k, {"deleted"}) = {} THEN "active" ELSE "deleted",
             index |-> IF log[Last(Writers(d, k, Index))].kind = "stage_failed" THEN "failed"
                       ELSE IF /\ log[Last(Writers(d, k, Index))].kind = "indexed"
                               /\ log[Last(Writers(d, k, Index))].forVersion
                                    >= log[Last(Writers(d, k, Index))].version
                       THEN "current" ELSE "pending",
             indexVersion |-> IF Last(Writers(d, k, {"indexed"})) = 0 THEN 0
                              ELSE log[Last(Writers(d, k, {"indexed"}))].forVersion,
             blob |-> Last(Writers(d, k, {"created", "validated"})),
             title |-> Last(Patches(k)),
             created |-> Last(Writers(d, k, {"created"}))]
    BY <1>4 DEF Expected, Known, KnownKinds
  <2>4. x.state = IF e.kind = "deleted" THEN "deleted" ELSE p.state
    <3>1. p.state = IF Writers(d, k-1, {"deleted"}) = {} THEN "active" ELSE "deleted"
      BY SMT, <2>2
    <3>2. x.state = IF Writers(d, k, {"deleted"}) = {} THEN "active" ELSE "deleted"
      BY SMT, <2>3
    <3>3. /\ e.kind \in {"deleted"} =>
               Writers(d, k, {"deleted"}) # {} /\ Last(Writers(d, k, {"deleted"})) = k
          /\ e.kind \notin {"deleted"} =>
               Writers(d, k, {"deleted"}) = Writers(d, k-1, {"deleted"})
      BY <1>2, <1>3
    <3> HIDE DEF p, x
    <3> QED
      BY SMT, <3>1, <3>2, <3>3
  <2>5. x.index = IF e.kind = "validated" THEN "pending"
                  ELSE IF e.kind = "stage_failed" THEN "failed"
                  ELSE IF e.kind = "indexed"
                  THEN IF e.forVersion >= e.version THEN "current" ELSE "pending"
                  ELSE p.index
    <3>1. p.index = IF log[Last(Writers(d, k-1, Index))].kind = "stage_failed" THEN "failed"
                      ELSE IF /\ log[Last(Writers(d, k-1, Index))].kind = "indexed"
                              /\ log[Last(Writers(d, k-1, Index))].forVersion
                                   >= log[Last(Writers(d, k-1, Index))].version
                      THEN "current" ELSE "pending"
      BY SMT, <2>2
    <3>2. x.index = IF log[Last(Writers(d, k, Index))].kind = "stage_failed" THEN "failed"
                      ELSE IF /\ log[Last(Writers(d, k, Index))].kind = "indexed"
                              /\ log[Last(Writers(d, k, Index))].forVersion
                                   >= log[Last(Writers(d, k, Index))].version
                      THEN "current" ELSE "pending"
      BY SMT, <2>3
    <3>3. /\ e.kind \in Index =>
               Writers(d, k, Index) # {} /\ Last(Writers(d, k, Index)) = k
          /\ e.kind \notin Index =>
               Writers(d, k, Index) = Writers(d, k-1, Index)
      BY <1>2, <1>3
    <3> HIDE DEF p, x
    <3> QED
      BY SMT, <1>7, <3>1, <3>2, <3>3
  <2>6. x.indexVersion = IF e.kind = "indexed" THEN e.forVersion ELSE p.indexVersion
    <3>1. p.indexVersion = IF Last(Writers(d, k-1, {"indexed"})) = 0 THEN 0
                             ELSE log[Last(Writers(d, k-1, {"indexed"}))].forVersion
      BY SMT, <2>2
    <3>2. x.indexVersion = IF Last(Writers(d, k, {"indexed"})) = 0 THEN 0
                             ELSE log[Last(Writers(d, k, {"indexed"}))].forVersion
      BY SMT, <2>3
    <3>3. /\ e.kind \in {"indexed"} =>
               Writers(d, k, {"indexed"}) # {} /\ Last(Writers(d, k, {"indexed"})) = k
          /\ e.kind \notin {"indexed"} =>
               Writers(d, k, {"indexed"}) = Writers(d, k-1, {"indexed"})
      BY <1>2, <1>3
    <3> HIDE DEF p, x
    <3> QED
      BY SMT, <1>1, <3>1, <3>2, <3>3
  <2>7. x.blob = IF e.kind = "validated" THEN k ELSE p.blob
    <3>1. p.blob = Last(Writers(d, k-1, {"created", "validated"}))
      BY SMT, <2>2
    <3>2. x.blob = Last(Writers(d, k, {"created", "validated"}))
      BY SMT, <2>3
    <3>3. /\ e.kind \in {"created", "validated"} =>
               /\ Writers(d, k, {"created", "validated"}) # {}
               /\ Last(Writers(d, k, {"created", "validated"})) = k
          /\ e.kind \notin {"created", "validated"} =>
               Writers(d, k, {"created", "validated"}) = Writers(d, k-1, {"created", "validated"})
      BY <1>2, <1>3
    <3> HIDE DEF p, x
    <3> QED
      BY SMT, <1>7, <3>1, <3>2, <3>3
  <2>8. x.title = IF e.patch THEN k ELSE p.title
    <3> HIDE DEF Patches
    <3>1. p.title = Last(Patches(k-1))
      BY SMT, <2>2
    <3>2. x.title = Last(Patches(k))
      BY SMT, <2>3
    <3> HIDE DEF p, x
    <3> QED
      BY SMT, <1>5, <3>1, <3>2
  <2>9. x.created = p.created
    <3>1. p.created = Last(Writers(d, k-1, {"created"}))
      BY SMT, <2>2
    <3>2. x.created = Last(Writers(d, k, {"created"}))
      BY SMT, <2>3
    <3>3. /\ e.kind \in {"created"} =>
               Writers(d, k, {"created"}) # {} /\ Last(Writers(d, k, {"created"})) = k
          /\ e.kind \notin {"created"} =>
               Writers(d, k, {"created"}) = Writers(d, k-1, {"created"})
      BY <1>2, <1>3
    <3> HIDE DEF p, x
    <3> QED
      BY SMT, <1>7, <3>1, <3>2, <3>3
  <2>10. x = [version |-> e.version, seq |-> k, state |-> x.state, index |-> x.index,
              indexVersion |-> x.indexVersion, blob |-> x.blob, title |-> x.title,
              created |-> x.created]
    BY SMT, <2>3
  <2>11. p \in DocumentState
    BY SMT, <1>1, <2>1, ExpectedType DEF LogInv
  <2>12. Apply(p, e, k) = [version |-> e.version, seq |-> k, state |-> x.state,
              index |-> x.index, indexVersion |-> x.indexVersion, blob |-> x.blob,
              title |-> x.title, created |-> x.created]
    <3> HIDE DEF x, p, e
    <3> QED
      BY SMT, <1>1, <1>7, <2>4, <2>5, <2>6, <2>7, <2>8, <2>9, <2>11, ApplyFields
  <2> QED
    BY <2>10, <2>12
<1> QED
  BY <1>6, <1>7

-----------------------------------------------------------------------------
(***************************************************************************)
(* Folding an event into a state that is ahead of it                       *)
(***************************************************************************)
\* Every field of x is the one of a or the one of b.
Mixes(x, a, b) ==
  /\ x.state \in {a.state, b.state} /\ x.index \in {a.index, b.index}
  /\ x.indexVersion \in {a.indexVersion, b.indexVersion} /\ x.blob \in {a.blob, b.blob}
  /\ x.title \in {a.title, b.title} /\ x.created \in {a.created, b.created}

\* y is the state at event k, mixed with b.
Ahead(y, d, k, b) ==
  /\ y \in DocumentState /\ y.seq = k /\ y.version = Expected(d, k).version
  /\ Mixes(y, Expected(d, k), b)

LEMMA ApplyMix ==
  ASSUME LogInv, NEW k \in 1..Len(log), NEW d, d = log[k].doc, k \in Known(d, k),
         log[k].kind # "created", NEW x \in DocumentState, NEW b,
         NEW p, p = Expected(d, k-1), Mixes(x, p, b)
  PROVE  /\ Ahead(Apply(x, log[k], k), d, k, b)
         /\ b = p => Apply(x, log[k], k) = Expected(d, k)
<1> DEFINE e == log[k]
<1>1. e \in Event /\ k \in Nat /\ k-1 \in 0..Len(log)
  BY SMT DEF LogInv
<1>2. e.kind \in KnownKinds /\ e.kind # "created" /\ Tip(d, k-1) # 0
      /\ (e.patch => e.kind \in {"validated", "metadata"})
  BY Shows DEF LogInv
<1>3. p \in DocumentState
  BY <1>1, <1>2, ExpectedType DEF Tip, Last
<1>4. Expected(d, k) = Apply(p, e, k)
  BY ExpectedApply
<1> HIDE DEF e
<1> DEFINE F(s) == [version |-> e.version, seq |-> k,
            state |-> IF e.kind = "deleted" THEN "deleted" ELSE s.state,
            index |-> IF e.kind = "validated" THEN "pending"
                      ELSE IF e.kind = "stage_failed" THEN "failed"
                      ELSE IF e.kind = "indexed"
                      THEN IF e.forVersion >= e.version THEN "current" ELSE "pending"
                      ELSE s.index,
            indexVersion |-> IF e.kind = "indexed" THEN e.forVersion ELSE s.indexVersion,
            blob |-> IF e.kind = "validated" THEN k ELSE s.blob,
            title |-> IF e.patch THEN k ELSE s.title,
            created |-> s.created]
<1>5. Apply(x, e, k) = F(x) /\ Expected(d, k) = F(p)
  BY SMT, <1>2, <1>3, <1>4, ApplyFields
<1>6. F(x) \in DocumentState /\ F(x).seq = k /\ F(x).version = F(p).version
  BY <1>1 DEF DocumentState, Event
<1>7. Mixes(F(x), F(p), b)
  BY DEF Mixes
<1>8. b = p => F(x) = F(p)
  BY DEF Mixes
<1> HIDE DEF F
<1> QED
  BY <1>5, <1>6, <1>7, <1>8 DEF e, Ahead

\* A create folded into a row that is ahead of it keeps only created_at.
LEMMA SeedMix ==
  ASSUME LogInv, NEW k \in 1..Len(log), NEW d, d = log[k].doc, log[k].kind = "created",
         NEW x \in DocumentState
  PROVE  Ahead(Apply(x, log[k], k), d, k, x)
<1> DEFINE e == log[k]
           S(c) == [version |-> e.version, seq |-> k, state |-> "active", index |-> "pending",
                    indexVersion |-> 0, blob |-> k, title |-> IF e.patch THEN k ELSE 0,
                    created |-> c]
<1>1. e \in Event /\ k \in Nat /\ k-1 \in Nat /\ k \in Known(d, k)
  BY SMTT(30), Shows DEF LogInv, KnownKinds, Kinds
<1>2. Expected(d, k) = Apply(Expected(d, k-1), e, k)
  BY <1>1, ExpectedApply
<1>3. Expected(d, k-1) = NoRow
  <2>1. \A j \in 1..k-1 : log[j].doc # d
    BY SMT, <1>1 DEF LogInv
  <2>2. Known(d, k-1) = {}
    BY <2>1 DEF Known, Writers
  <2> QED
    BY <2>2 DEF Expected, Known, KnownKinds
<1>4. x # NoRow
  BY SMT DEF DocumentState, NoRow
<1> HIDE DEF e
<1>5. \A s : Apply(s, e, k) = S(IF s = NoRow THEN k ELSE s.created)
  <2>1. \A s : Apply(s, e, k) = MergePatch(Seed(s, e, k), e, k)
    BY DEF Apply, e
  <2> SUFFICES ASSUME NEW s
               PROVE  MergePatch(Seed(s, e, k), e, k) = S(IF s = NoRow THEN k ELSE s.created)
    BY <2>1
  <2> DEFINE c == IF s = NoRow THEN k ELSE s.created
  <2>2. Seed(s, e, k) = [version |-> e.version, seq |-> k, state |-> "active",
          index |-> "pending", indexVersion |-> 0, blob |-> k, title |-> 0, created |-> c]
    BY DEF Seed
  <2> HIDE DEF c
  <2>3. MergePatch(Seed(s, e, k), e, k) = S(c)
    BY SMT, <2>2 DEF MergePatch
  <2> QED
    BY <2>3 DEF c
<1>6. Apply(x, e, k) = S(x.created) /\ Expected(d, k) = S(k)
  BY <1>2, <1>3, <1>4, <1>5
<1>7. S(x.created) \in DocumentState /\ S(x.created).seq = k
      /\ S(x.created).version = S(k).version /\ Mixes(S(x.created), S(k), x)
  BY <1>1 DEF DocumentState, Event, Mixes
<1> HIDE DEF S
<1> QED
  BY <1>6, <1>7 DEF e, Ahead

-----------------------------------------------------------------------------
(***************************************************************************)
(* What the log says of its past is final                                  *)
(***************************************************************************)
LogExtends == /\ Len(log) <= Len(log')
              /\ \A k \in 1..Len(log) : log'[k] = log[k]

LEMMA PastIsFinal ==
  ASSUME LogInv, LogInv', LogExtends, NEW d, NEW k \in 0..Len(log)
  PROVE  /\ Known(d, k)' = Known(d, k) /\ Tip(d, k)' = Tip(d, k)
         /\ Expected(d, k)' = Expected(d, k)
<1>0. k \in Nat /\ Bounded(k)
  BY BoundedUpTo
<1>1. k \in Nat /\ \A j \in 1..k : log'[j] = log[j]
  BY SMT DEF LogInv, LogExtends
<1>2. \A K : Writers(d, k, K)' = Writers(d, k, K)
  BY <1>1 DEF Writers
<1>3. Known(d, k)' = Known(d, k)
  BY <1>2 DEF Known
<1>4. Tip(d, k)' = Tip(d, k)
  BY <1>3 DEF Tip
<1> DEFINE Index == {"created", "validated", "indexed", "stage_failed"}
           index == Last(Writers(d, k, Index))
           indexed == Last(Writers(d, k, {"indexed"}))
           patches == {j \in Known(d, k) : log[j].patch}
           known == Known(d, k)
<1>5. CASE known = {}
  <2>1. Expected(d, k) = NoRow
    BY <1>5 DEF Expected, Known, KnownKinds
  <2>2. Expected(d, k)' = NoRow
    BY <1>3, <1>5 DEF Expected, Known, KnownKinds
  <2> QED
    BY <1>3, <1>4, <2>1, <2>2
<1>6. CASE known # {}
  <2>1. Max(known) \in 1..k
    BY <1>0, <1>6, WritersRange, GreatestElement DEF Known
  <2>2. index \in 1..k
    <3>1. PICK b \in 1..k : log[b].doc = d /\ log[b].kind = "created"
      BY <1>6 DEF Known, Writers
    <3>2. b \in Writers(d, k, Index)
      BY SMT, <1>1, <3>1 DEF Writers
    <3>3. Writers(d, k, Index) \in SUBSET (1..k)
      BY <1>1, WritersRange
    <3> QED
      BY <1>0, <3>2, <3>3, LastRange
  <2>3. indexed \in 0..k
    BY <1>0, WritersRange, LastRange
  <2>4. patches' = patches
    <3>1. \A j \in Known(d, k) : log'[j] = log[j]
      BY <1>1, WritersRange DEF Known
    <3> QED
      BY <1>3, <3>1
  <2>5. log'[Max(known)] = log[Max(known)] /\ log'[index] = log[index]
        /\ (indexed # 0 => log'[indexed] = log[indexed])
    BY SMT, <1>1, <2>1, <2>2, <2>3
  <2> DEFINE Make(last, ix, iv) ==
            [version |-> last.version,
             seq |-> Max(known),
             state |-> IF Writers(d, k, {"deleted"}) = {} THEN "active" ELSE "deleted",
             index |-> IF ix.kind = "stage_failed" THEN "failed"
                       ELSE IF ix.kind = "indexed" /\ ix.forVersion >= ix.version
                       THEN "current" ELSE "pending",
             indexVersion |-> iv,
             blob |-> Last(Writers(d, k, {"created", "validated"})),
             title |-> Last(patches),
             created |-> Last(Writers(d, k, {"created"}))]
  <2>6. Expected(d, k) = Make(log[Max(known)], log[index],
                              IF indexed = 0 THEN 0 ELSE log[indexed].forVersion)
    BY <1>6 DEF Expected, Known, KnownKinds
  <2>7. Expected(d, k)' = Make(log'[Max(known)], log'[index],
                               IF indexed = 0 THEN 0 ELSE log'[indexed].forVersion)
    BY <1>2, <1>3, <1>6, <2>4 DEF Expected, Known, KnownKinds
  <2> HIDE DEF known, index, indexed, patches, Make
  <2> QED
    BY SMT, <1>3, <1>4, <2>5, <2>6, <2>7
<1> QED
  BY <1>3, <1>4, <1>5, <1>6

\* Whether an event shows does not depend on what follows it.
LEMMA KnownThen ==
  ASSUME NEW d, NEW j \in Nat, NEW k \in Nat, j <= k
  PROVE  j \in Known(d, j) <=> j \in Known(d, k)
  BY SMT DEF Known, Writers

LEMMA NoRowNoState == NoRow \notin DocumentState /\ NoRow.seq = 0
  BY DEF NoRow, DocumentState

\* A state the log calls for: none, or the one at an event that shows.
LEMMA ExpectedRow ==
  ASSUME LogInv, NEW d, NEW k \in 0..Len(log)
  PROVE  /\ Tip(d, k) = 0 => Expected(d, k) = NoRow
         /\ Tip(d, k) # 0 => Expected(d, k) \in DocumentState
  BY ExpectedSeq, ExpectedType

LEMMA SameLog ==
  ASSUME LogInv, log' = log
  PROVE  /\ LogInv' /\ LogExtends
         /\ \A d : \A k \in 0..Len(log) : /\ Tip(d, k)' = Tip(d, k)
                                        /\ Expected(d, k)' = Expected(d, k)
<1>1. LogInv' /\ LogExtends
  BY SMT DEF LogInv, LogExtends
<1> QED
  BY <1>1, PastIsFinal

-----------------------------------------------------------------------------
(***************************************************************************)
(* The inductive invariant                                                 *)
(*                                                                         *)
(* Two projectors may overlap, so a loop can read a row that is ahead of   *)
(* the event it folds.  The state it then builds mixes two moments of the  *)
(* log, field by field, until it has caught up with the row it read; up to *)
(* there the guard of the upsert keeps it out of the table.                *)
(***************************************************************************)
Rows == DocumentState \cup {NoRow}
Loops == [pc : {"idle", "start", "poll", "check", "fold"}, at : Nat, next : Nat,
          folded : [Docs -> Rows], failed : SUBSET Nat]

TypeInv ==
  /\ rows \in [Docs -> Rows] /\ parked \in SUBSET (1..Len(log))
  /\ checkpoint \in 0..Len(log) /\ loop \in [Instances -> Loops]

\* What cannot be folded.
Unfoldable(k) == k \in 1..Len(log) /\ k \notin Known(log[k].doc, k)

Covered(k) == k \in parked \/ rows[log[k].doc].seq >= k

RowInv(d) == rows[d].seq \in 0..Len(log) /\ rows[d] = Expected(d, rows[d].seq)

\* A state of the batch: the document's last event so far, mixed with a
\* later state only if the table already has that or a later one.
FoldedInv(i, d) ==
  LET x == loop[i].folded[d] IN
  x # NoRow =>
    /\ x.seq # 0 /\ x.seq = Tip(d, loop[i].at - 1)
    /\ x.version = Expected(d, x.seq).version
    /\ \E m \in x.seq..Len(log) :
         /\ m = x.seq \/ m <= rows[d].seq
         /\ Tip(d, m) = m /\ Mixes(x, Expected(d, x.seq), Expected(d, m))

LoopInv(i) ==
  LET l == loop[i] IN
  /\ l.pc # "fold" => l.folded = Nothing /\ l.failed = {}
  /\ l.pc \in {"poll", "check", "fold"} => l.next \in 1..Len(log)+1
  /\ l.pc \in {"check", "fold"} => l.at \in 1..l.next
  /\ l.pc = "poll" => \A k \in 1..l.next-1 : Covered(k)
  /\ l.pc = "check" => \A k \in 1..l.at-1 : Covered(k)
  /\ l.pc = "fold" =>
       /\ \A k \in l.failed : k < l.at /\ Unfoldable(k)
       /\ \A k \in 1..l.at-1 : Covered(k) \/ k \in l.failed \/ l.folded[log[k].doc].seq >= k
       /\ \A d \in Docs : FoldedInv(i, d)

TableInv ==
  /\ \A d \in Docs : RowInv(d)
  /\ \A k \in parked : Unfoldable(k)
  /\ \A k \in 1..checkpoint : Covered(k)

Inv == LogInv /\ TypeInv /\ TableInv /\ \A i \in Instances : LoopInv(i)

-----------------------------------------------------------------------------
(***************************************************************************)
(* One event of a batch                                                    *)
(***************************************************************************)
\* x = y, where the provers are not to replace x by y throughout.
Is(x, y) == x = y

\* Without a state of this batch the row is at the document's last event or
\* ahead of it.
LEMMA RowCovers ==
  ASSUME LogInv, TypeInv, TableInv, NEW i \in Instances, LoopInv(i), loop[i].pc = "fold",
         NEW k \in 1..Len(log), Is(k, loop[i].at), NEW d \in Docs, Is(d, log[k].doc),
         Is(NoRow, loop[i].folded[d])
  PROVE  Tip(d, k-1) <= rows[d].seq
<1> DEFINE t == Tip(d, k-1)
           r == rows[d].seq
<1>1. k - 1 \in Nat /\ Len(log) \in Nat /\ r \in 0..Len(log)
  BY SMT, LogFacts DEF TableInv, RowInv
<1>2. t \in 0..k-1 /\ (t # 0 => t \in Known(d, k-1))
  BY SMT, <1>1, ExpectedSeq
<1>3. CASE t = 0
  BY SMT, <1>1, <1>3
<1>4. CASE t # 0
  <2>1. t \in 1..Len(log) /\ t <= k-1 /\ log[t].doc = d /\ t \in Known(d, t)
    <3>1. t \in Known(d, k-1)
      BY <1>2, <1>4
    <3>2. log[t].doc = d
      BY <3>1 DEF Known, Writers
    <3>3. t \in Nat /\ t <= k-1
      BY SMT, <1>1, <1>2
    <3> QED
      BY SMT, <1>1, <1>2, <1>4, <3>1, <3>2, <3>3, KnownThen
  <2>2. ~Unfoldable(t)
    BY <2>1 DEF Unfoldable
  <2>3. Covered(t) \/ t \in loop[i].failed \/ loop[i].folded[d].seq >= t
    <3>1. \A j \in 1..k-1 : Covered(j) \/ j \in loop[i].failed \/ loop[i].folded[log[j].doc].seq >= j
      BY DEF LoopInv, Is
    <3>2. t \in 1..k-1
      BY SMT, <1>1, <1>2, <1>4
    <3> QED
      BY <2>1, <3>1, <3>2
  <2>4. t \notin loop[i].failed /\ t \notin parked
    BY <2>2 DEF LoopInv, TableInv
  <2>5. ~(loop[i].folded[d].seq >= t)
    <3>1. loop[i].folded[d].seq = 0
      BY NoRowNoState DEF Is
    <3>2. t \in Nat /\ t # 0
      BY SMT, <1>1, <1>2, <1>4
    <3> HIDE DEF t
    <3>3. ~(0 >= t)
      BY SMT, <3>2
    <3> QED
      BY <3>1, <3>3
  <2> QED
    BY <2>1, <2>3, <2>4, <2>5 DEF Covered
<1> QED
  BY <1>3, <1>4

\* What folding the event at the loop's position yields.
Folds(y, d, k) ==
  /\ y \in DocumentState /\ y.seq = k /\ y.version = Expected(d, k).version
  /\ \E m \in k..Len(log) :
       /\ m = k \/ m <= rows[d].seq
       /\ Tip(d, m) = m /\ Mixes(y, Expected(d, k), Expected(d, m))

LEMMA FoldsExactly ==
  ASSUME LogInv, NEW k \in 1..Len(log), NEW d, k \in Known(d, k), NEW y, y = Expected(d, k)
  PROVE  Folds(y, d, k)
<1>1. k \in Nat /\ k \in 0..Len(log) /\ Len(log) \in Nat
  BY SMT, LogFacts
<1>2. Tip(d, k) = k
  BY SMT, <1>1, ExpectedSeq
<1>3. y \in DocumentState /\ y.seq = k
  BY SMT, <1>1, <1>2, ExpectedRow, ExpectedSeq
<1>4. k \in k..Len(log) /\ Mixes(y, y, y)
  BY SMT, <1>1 DEF Mixes
<1> QED
  BY <1>2, <1>3, <1>4 DEF Folds

\* Folding into a state of the batch.
LEMMA FoldBatch ==
  ASSUME LogInv, TypeInv, TableInv, NEW i \in Instances, LoopInv(i), loop[i].pc = "fold",
         NEW k \in 1..Len(log), Is(k, loop[i].at), NEW d \in Docs, Is(d, log[k].doc),
         NEW x, Is(x, loop[i].folded[d]), x # NoRow
  PROVE  /\ Fails(x, log[k]) <=> k \notin Known(d, k)
         /\ k \in Known(d, k) => Folds(Apply(x, log[k], k), d, k)
<1>0. PICK t : t = x.seq
  OBVIOUS
<1>1. k - 1 \in Nat /\ k \in Nat /\ Len(log) \in Nat /\ log[k] \in Event
  BY SMT, LogFacts
<1>2. x \in DocumentState
  BY SMT DEF TypeInv, Loops, Rows, Is
<1>3. FoldedInv(i, d)
  BY DEF LoopInv
<1>4. t # 0 /\ t = Tip(d, k-1)
  BY <1>0, <1>3 DEF FoldedInv, Is
<1>5. PICK m \in t..Len(log) : /\ m = t \/ m <= rows[d].seq
                               /\ Tip(d, m) = m /\ Mixes(x, Expected(d, t), Expected(d, m))
  BY <1>0, <1>3 DEF FoldedInv, Is
<1>6. Expected(d, t) = Expected(d, k-1) /\ t \in 1..k-1
      /\ \A j \in Known(d, k-1) : j <= t
  BY SMT, <1>1, <1>4, ExpectedSeq, TipState
<1>7. log[k].kind # "created"
  <2>1. t \in Known(d, k-1)
    BY SMT, <1>1, <1>4, ExpectedSeq
  <2>2. log[t].doc = d /\ t \in 1..Len(log) /\ t < k
    BY SMT, <1>1, <1>6, <2>1 DEF Known, Writers
  <2> QED
    BY <2>2 DEF LogInv, Is
<1>8. Fails(x, log[k]) <=> k \notin Known(d, k)
  <2>1. k \in Known(d, k) <=> log[k].kind \in KnownKinds
    BY <1>4, Shows DEF Is
  <2>2. log[k].kind \in Kinds
    BY <1>1 DEF Event
  <2> QED
    BY <2>1, <2>2 DEF Fails, KnownKinds
<1>9. ASSUME k \in Known(d, k) PROVE Folds(Apply(x, log[k], k), d, k)
  <2>1. Mixes(x, Expected(d, k-1), Expected(d, m))
    BY <1>5, <1>6
  <2>2. CASE m = t
    <3>1. Apply(x, log[k], k) = Expected(d, k)
      BY <1>2, <1>6, <1>7, <1>9, <2>1, <2>2, ApplyMix DEF Is
    <3> QED
      BY <1>9, <3>1, FoldsExactly
  <2>3. CASE m # t
    <3>0. m \in Nat /\ m # 0 /\ Tip(d, m) = m
      BY SMT, <1>1, <1>5, <1>6
    <3>1. m \in Nat /\ m \in Known(d, m)
      BY SMT, <3>0, ExpectedSeq
    <3>2. m >= k
      <4>1. m <= k-1 => m \in Known(d, k-1)
        BY <1>1, <3>1, KnownThen
      <4> QED
        BY SMT, <1>1, <1>5, <1>6, <2>3, <3>1, <4>1
    <3>3. m \in k..Len(log) /\ m <= rows[d].seq
      BY SMT, <1>1, <1>5, <2>3, <3>1, <3>2
    <3>4. Ahead(Apply(x, log[k], k), d, k, Expected(d, m))
      BY <1>2, <1>7, <1>9, <2>1, ApplyMix DEF Is
    <3> QED
      BY <1>5, <3>3, <3>4 DEF Folds, Ahead
  <2> QED
    BY <2>2, <2>3
<1> QED
  BY <1>8, <1>9

\* Folding into the row.
LEMMA FoldRow ==
  ASSUME LogInv, TypeInv, TableInv, NEW i \in Instances, LoopInv(i), loop[i].pc = "fold",
         NEW k \in 1..Len(log), Is(k, loop[i].at), NEW d \in Docs, Is(d, log[k].doc),
         NEW x, Is(x, rows[d]), Is(NoRow, loop[i].folded[d])
  PROVE  /\ Fails(x, log[k]) <=> k \notin Known(d, k)
         /\ k \in Known(d, k) => Folds(Apply(x, log[k], k), d, k)
<1> DEFINE t == Tip(d, k-1)
           r == rows[d].seq
<1>1. k - 1 \in 0..Len(log) /\ k \in Nat /\ Len(log) \in Nat /\ log[k] \in Event
  BY SMT, LogFacts
<1>2. r \in 0..Len(log) /\ x = Expected(d, r)
  BY DEF TableInv, RowInv, Is
<1>3. t <= r /\ t \in 0..k-1 /\ (t # 0 => t \in Known(d, k-1))
      /\ \A j \in Known(d, k-1) : j <= t
  BY <1>1, RowCovers, ExpectedSeq
<1> HIDE DEF t, r
<1>4. Tip(d, r) = r
  <2>1. x.seq = r
    BY DEF r, Is
  <2>2. r \in Nat
    BY SMT, <1>1, <1>2
  <2> QED
    BY <1>2, <2>1, <2>2, ExpectedSeq
<1>5. r # 0 => r \in Known(d, r) /\ x \in DocumentState
  BY <1>1, <1>2, <1>4, ExpectedSeq, ExpectedRow
<1>6. r = 0 <=> x = NoRow
  BY <1>1, <1>2, <1>4, <1>5, ExpectedRow, NoRowNoState
<1>7. log[k].kind \in Kinds
  BY <1>1 DEF Event
<1>8. k \in Known(d, k) <=> /\ log[k].kind \in KnownKinds
                            /\ log[k].kind = "created" \/ t # 0
  BY Shows DEF t, Is
\* A row means that the document was created before, or by this event.
<1>9. r # 0 /\ log[k].kind # "created" => t # 0
  <2> SUFFICES ASSUME r # 0, log[k].kind # "created" PROVE t # 0
    OBVIOUS
  <2>1. PICK b \in 1..r : log[b].doc = d /\ log[b].kind = "created"
    BY <1>5 DEF Known, Writers
  <2>2. b \in 1..Len(log) /\ b # k
    BY SMT, <1>1, <1>2, <2>1
  <2>3. b < k
    BY SMT, <1>1, <2>1, <2>2 DEF LogInv, Is
  <2>4. b \in 1..k-1
    BY SMT, <1>1, <2>2, <2>3
  <2>5. b \in Known(d, k-1)
    BY SMT, <1>1, <2>1, <2>4 DEF Known, Writers, KnownKinds, Kinds
  <2> QED
    BY SMT, <1>1, <1>3, <2>4, <2>5
<1>10. Fails(x, log[k]) <=> k \notin Known(d, k)
  <2>1. CASE r = 0
    BY SMT, <1>3, <1>6, <1>7, <1>8, <2>1 DEF Fails, KnownKinds
  <2>2. CASE r # 0
    BY <1>6, <1>7, <1>8, <1>9, <2>2 DEF Fails, KnownKinds
  <2> QED
    BY <2>1, <2>2
<1>11. ASSUME k \in Known(d, k), r < k PROVE Folds(Apply(x, log[k], k), d, k)
  <2>1. r = t
    <3>1. r \in Nat /\ r <= k-1 /\ k-1 \in Nat
      BY SMT, <1>1, <1>2, <1>11
    <3>2. r # 0 => r \in Known(d, k-1)
      BY <1>5, <3>1, KnownThen
    <3> QED
      BY SMT, <1>1, <1>2, <1>3, <3>2
  <2>2. x = Expected(d, k-1)
    BY <1>1, <1>2, <2>1, TipState DEF t
  <2>3. Apply(x, log[k], k) = Expected(d, k)
    BY <1>11, <2>2, ExpectedApply DEF Is
  <2> QED
    BY <1>11, <2>3, FoldsExactly
<1>12. ASSUME k \in Known(d, k), r >= k PROVE Folds(Apply(x, log[k], k), d, k)
  <2>1. x \in DocumentState /\ r \in k..Len(log) /\ r <= rows[d].seq
    <3>1. x \in DocumentState /\ r \in k..Len(log) /\ r <= r
      BY SMT, <1>1, <1>2, <1>5, <1>12
    <3> QED
      BY <3>1 DEF r
  <2>2. Ahead(Apply(x, log[k], k), d, k, Expected(d, r))
    <3>1. CASE log[k].kind = "created"
      BY <1>2, <2>1, <3>1, SeedMix DEF Is
    <3>2. CASE log[k].kind # "created"
      <4>1. Mixes(x, Expected(d, k-1), Expected(d, r))
        BY <1>2 DEF Mixes
      <4> QED
        BY <1>12, <2>1, <3>2, <4>1, ApplyMix DEF Is
    <3> QED
      BY <3>1, <3>2
  <2> QED
    BY <1>4, <2>1, <2>2 DEF Folds, Ahead
<1> QED
  BY SMTT(30), <1>1, <1>2, <1>10, <1>11, <1>12

-----------------------------------------------------------------------------
(***************************************************************************)
(* What a step leaves alone                                                *)
(***************************************************************************)
\* The log only grows and the table only moves forward.
Onward ==
  /\ LogExtends
  /\ \A k \in 1..Len(log) : Covered(k) => Covered(k)'
  /\ \A d \in Docs : rows[d].seq \in Nat /\ rows'[d].seq \in Nat /\ rows[d].seq <= rows'[d].seq

LEMMA UnfoldableKept ==
  ASSUME LogInv, LogInv', LogExtends, NEW k, Unfoldable(k)
  PROVE  Unfoldable(k)'
<1>1. k \in 1..Len(log) /\ k \in 0..Len(log) /\ k \in 1..Len(log') /\ log'[k] = log[k]
  BY SMTT(30) DEF Unfoldable, LogInv, LogExtends
<1>2. \A d : Known(d, k)' = Known(d, k)
  BY <1>1, PastIsFinal
<1> QED
  BY <1>1, <1>2 DEF Unfoldable

\* A loop that takes no step, while others do.
LEMMA FoldedKept ==
  ASSUME LogInv, LogInv', TypeInv, Onward, NEW i \in Instances, loop'[i] = loop[i],
         loop[i].at \in 1..Len(log)+1, NEW d \in Docs, FoldedInv(i, d)
  PROVE  FoldedInv(i, d)'
<1> DEFINE x == loop[i].folded[d]
           s == x.seq
           n == loop[i].at - 1
<1>1. Len(log) \in Nat /\ Len(log') \in Nat /\ Len(log) <= Len(log')
  BY SMT DEF LogInv, Onward, LogExtends
<1>2. x' = x /\ n' = n /\ n \in 0..Len(log) /\ s' = s
  BY SMT, <1>1
<1>3. CASE x = NoRow
  BY <1>2, <1>3 DEF FoldedInv
<1>4. CASE x # NoRow
  <2>1. s # 0 /\ s = Tip(d, n) /\ x.version = Expected(d, s).version
    BY <1>4 DEF FoldedInv
  <2>2. PICK m \in s..Len(log) :
               /\ m = s \/ m <= rows[d].seq
               /\ Tip(d, m) = m /\ Mixes(x, Expected(d, s), Expected(d, m))
    BY <1>4 DEF FoldedInv
  <2>3. s \in 0..Len(log)
    <3> HIDE DEF n, s
    <3>2. Tip(d, n) \in 0..n
      BY <1>2, ExpectedSeq
    <3> QED
      BY SMTT(30), <1>1, <1>2, <2>1, <3>2
  <2> HIDE DEF x, s, n
  <2>4. m \in 0..Len(log) /\ m \in s..Len(log')
    BY SMT, <1>1, <2>2, <2>3
  <2>5. \A k \in 0..Len(log) : Tip(d, k)' = Tip(d, k) /\ Expected(d, k)' = Expected(d, k)
    BY PastIsFinal DEF Onward
  <2>6. m = s \/ m <= rows'[d].seq
    BY SMT, <2>2, <2>4, <1>1 DEF Onward
  <2>7. s = Tip(d, n)' /\ x.version = (Expected(d, s)').version
    BY <1>2, <2>1, <2>3, <2>5
  <2>8. Tip(d, m)' = m /\ Mixes(x, Expected(d, s)', Expected(d, m)')
    BY <1>2, <2>2, <2>3, <2>4, <2>5
  <2> QED
    BY <1>2, <2>1, <2>4, <2>6, <2>7, <2>8 DEF FoldedInv, x, s, n, Mixes
<1> QED
  BY <1>3, <1>4

LEMMA LoopKept ==
  ASSUME LogInv, LogInv', TypeInv, Onward, NEW i \in Instances, loop'[i] = loop[i], LoopInv(i)
  PROVE  LoopInv(i)'
<1> DEFINE l == loop[i]
<1>1. /\ Len(log) \in Nat /\ Len(log') \in Nat /\ Len(log) <= Len(log')
      /\ \A k \in 1..Len(log) : log'[k] = log[k]
  BY SMT DEF LogInv, Onward, LogExtends
<1>2. \A k \in 1..Len(log) : Covered(k) => Covered(k)'
  BY DEF Onward
<1>3. /\ l.pc # "fold" => l.folded = Nothing /\ l.failed = {}
      /\ l.pc \in {"poll", "check", "fold"} => l.next \in 1..Len(log)+1
      /\ l.pc \in {"check", "fold"} => l.at \in 1..l.next
  BY DEF LoopInv
<1>4. /\ l.pc \in {"poll", "check", "fold"} => l.next \in 1..Len(log')+1
      /\ l.pc = "poll" => l.next - 1 \in 0..Len(log)
      /\ l.pc \in {"check", "fold"} => l.at \in 1..Len(log)+1 /\ l.at - 1 \in 0..Len(log)
  <2> HIDE DEF l
  <2> QED
    BY SMT, <1>1, <1>3
<1>5. ASSUME l.pc = "poll", NEW k \in 1..l.next-1 PROVE Covered(k)'
  <2>1. k \in 1..Len(log)
    <3> HIDE DEF l
    <3> QED
      BY SMT, <1>1, <1>4, <1>5
  <2> QED
    BY <1>2, <1>5, <2>1 DEF LoopInv
<1>6. ASSUME l.pc = "check", NEW k \in 1..l.at-1 PROVE Covered(k)'
  <2>1. k \in 1..Len(log)
    <3> HIDE DEF l
    <3> QED
      BY SMT, <1>1, <1>4, <1>6
  <2> QED
    BY <1>2, <1>6, <2>1 DEF LoopInv
<1>7. ASSUME l.pc = "fold", NEW k \in 1..l.at-1
      PROVE  Covered(k)' \/ k \in l.failed \/ l.folded[log'[k].doc].seq >= k
  <2>1. k \in 1..Len(log)
    <3> HIDE DEF l
    <3> QED
      BY SMT, <1>1, <1>4, <1>7
  <2> QED
    BY <1>1, <1>2, <1>7, <2>1 DEF LoopInv
<1>8. ASSUME l.pc = "fold", NEW k \in l.failed PROVE k < l.at /\ Unfoldable(k)'
  BY <1>8, UnfoldableKept DEF LoopInv, Onward
<1>9. ASSUME l.pc = "fold", NEW d \in Docs PROVE FoldedInv(i, d)'
  BY <1>4, <1>9, FoldedKept DEF LoopInv
<1>10. l' = l
  OBVIOUS
<1> QED
  BY <1>3, <1>4, <1>5, <1>6, <1>7, <1>8, <1>9, <1>10 DEF LoopInv, Nothing

\* While the table stands still.
LEMMA StillOnward ==
  ASSUME LogInv, TypeInv, TableInv, LogExtends, table' = table
  PROVE  Onward
<1>1. Len(log) \in Nat /\ rows' = rows /\ parked' = parked
  BY SMT DEF LogInv, table
<1>2. \A k \in 1..Len(log) : Covered(k)' <=> Covered(k)
  BY <1>1 DEF Covered, LogExtends
<1>3. \A d \in Docs : rows[d].seq \in Nat
  BY SMT, <1>1 DEF TableInv, RowInv
<1> QED
  BY SMT, <1>1, <1>2, <1>3 DEF Onward

LEMMA TableKept ==
  ASSUME LogInv, LogInv', TypeInv, TableInv, LogExtends, table' = table
  PROVE  TableInv'
<1>1. Len(log) \in Nat /\ Len(log') \in Nat /\ Len(log) <= Len(log')
      /\ rows' = rows /\ parked' = parked /\ checkpoint' = checkpoint
  BY SMT DEF LogInv, LogExtends, table
<1>2. ASSUME NEW d \in Docs PROVE RowInv(d)'
  <2>1. rows[d].seq \in 0..Len(log) /\ rows[d] = Expected(d, rows[d].seq)
    BY DEF TableInv, RowInv
  <2>2. \A k \in 0..Len(log) : Expected(d, k)' = Expected(d, k)
    BY PastIsFinal
  <2>3. \A k \in 0..Len(log) : k \in 0..Len(log')
    BY SMT, <1>1
  <2> QED
    BY <1>1, <2>1, <2>2, <2>3 DEF RowInv
<1>3. \A k \in parked' : Unfoldable(k)'
  BY <1>1, UnfoldableKept DEF TableInv
<1>4. ASSUME NEW k \in 1..checkpoint' PROVE Covered(k)'
  <2>1. k \in 1..checkpoint /\ k \in 1..Len(log)
    BY SMT, <1>1 DEF TypeInv
  <2> QED
    BY <2>1, StillOnward DEF Onward, TableInv
<1> QED
  BY <1>2, <1>3, <1>4 DEF TableInv

\* A step of one loop that touches neither the log nor the table.
LEMMA LoopStep ==
  ASSUME Inv, NEW i \in Instances, log' = log, table' = table,
         NEW l \in Loops, loop' = [loop EXCEPT ![i] = l], LoopInv(i)'
  PROVE  Inv'
<1>1. LogInv'
  BY SameLog DEF Inv
<1>2. LogExtends
  BY SameLog DEF Inv
<1>3. TypeInv'
  BY DEF Inv, TypeInv, table
<1>4. Onward /\ TableInv'
  BY <1>1, <1>2, StillOnward, TableKept DEF Inv
<1>5. ASSUME NEW j \in Instances PROVE LoopInv(j)'
  <2>1. CASE j = i
    BY <2>1
  <2>2. CASE j # i
    <3>1. loop'[j] = loop[j]
      BY <2>2 DEF Inv, TypeInv
    <3> QED
      BY <1>1, <1>4, <3>1, LoopKept DEF Inv
  <2> QED
    BY <2>1, <2>2
<1> QED
  BY <1>1, <1>3, <1>4, <1>5 DEF Inv

-----------------------------------------------------------------------------
(***************************************************************************)
(* The actions                                                             *)
(***************************************************************************)
LEMMA NothingRows == Nothing \in [Docs -> Rows]
  BY DEF Nothing, Rows

LEMMA StopStep ==
  ASSUME Inv, NEW i \in Instances, log' = log, table' = table,
         loop' = [loop EXCEPT ![i] = Idle]
  PROVE  Inv'
<1>1. Idle \in Loops
  BY NothingRows DEF Idle, Loops
<1>2. loop'[i] = Idle
  BY DEF Inv, TypeInv
<1>3. LoopInv(i)'
  <2>1. Idle.pc = "idle" /\ Idle.folded = Nothing /\ Idle.failed = {}
    BY DEF Idle
  <2>2. Nothing' = Nothing
    BY DEF Nothing
  <2> QED
    BY <1>2, <2>1, <2>2 DEF LoopInv
<1> QED
  BY <1>1, <1>3, LoopStep

\* The events covered before a quiet step are covered after it.
LEMMA CoveredKept ==
  ASSUME Inv, log' = log, table' = table
  PROVE  \A k : Covered(k)' <=> Covered(k)
  BY DEF Covered, table

LEMMA TryAcquireStep ==
  ASSUME Inv, NEW i \in Instances, TryAcquire(i)
  PROVE  Inv'
<1> DEFINE l == [loop[i] EXCEPT !.pc = "start"]
<1>1. log' = log /\ table' = table /\ loop' = [loop EXCEPT ![i] = l] /\ loop[i] \in Loops
  BY DEF TryAcquire, Inv, TypeInv
<1>2. l \in Loops
  BY <1>1 DEF Loops
<1>3. loop'[i] = l
  BY <1>1 DEF Inv, TypeInv
<1>4. l.pc = "start" /\ l.folded = Nothing /\ l.failed = {}
  BY <1>1 DEF Inv, LoopInv, TryAcquire, At, Loops
<1>5. LoopInv(i)'
  <2> HIDE DEF l
  <2> QED
    BY <1>3, <1>4 DEF LoopInv, Nothing
<1> HIDE DEF l
<1> QED
  BY <1>1, <1>2, <1>5, LoopStep

LEMMA StartStep ==
  ASSUME Inv, NEW i \in Instances, Start(i)
  PROVE  Inv'
<1> DEFINE l == [loop[i] EXCEPT !.pc = "poll", !.next = checkpoint + 1]
<1>1. log' = log /\ table' = table /\ loop' = [loop EXCEPT ![i] = l] /\ loop[i] \in Loops
  BY DEF Start, Inv, TypeInv, ReadCheckpoint
<1>2. checkpoint \in 0..Len(log) /\ Len(log) \in Nat /\ checkpoint + 1 - 1 = checkpoint
  BY SMT DEF Inv, TypeInv, LogInv
<1>3. l \in Loops
  <2>1. checkpoint + 1 \in Nat
    BY SMT, <1>2
  <2> QED
    BY <1>1, <2>1 DEF Loops
<1>4. loop'[i] = l
  BY <1>1 DEF Inv, TypeInv
<1>5. l.pc = "poll" /\ l.folded = Nothing /\ l.failed = {} /\ l.next = checkpoint + 1
  BY <1>1 DEF Inv, LoopInv, Start, At, Loops
<1>6. \A k \in 1..checkpoint : Covered(k)'
  BY <1>1, CoveredKept DEF Inv, TableInv
<1> HIDE DEF l
<1>7. LoopInv(i)'
  <2>1. l.next \in 1..Len(log)+1
    BY SMT, <1>2, <1>5
  <2>2. \A k \in 1..l.next-1 : Covered(k)'
    BY SMT, <1>2, <1>5, <1>6
  <2> QED
    BY <1>1, <1>4, <1>5, <2>1, <2>2 DEF LoopInv, Nothing
<1> QED
  BY <1>1, <1>3, <1>7, LoopStep

LEMMA ReceiveStep ==
  ASSUME Inv, NEW i \in Instances, Receive(i)
  PROVE  Inv'
<1>1. PICK last \in loop[i].next..Len(log) :
        loop' = [loop EXCEPT ![i].pc = "check", ![i].at = loop[i].next, ![i].next = last + 1]
  BY DEF Receive
<1> DEFINE n == loop[i].next
           l == [loop[i] EXCEPT !.pc = "check", !.at = n, !.next = last + 1]
<1>2. log' = log /\ table' = table /\ loop[i] \in Loops
  BY DEF Receive, Inv, TypeInv
<1>3. loop' = [loop EXCEPT ![i] = l]
  BY <1>1, <1>2
<1>4. Len(log) \in Nat /\ n \in 1..Len(log)+1 /\ last \in n..Len(log)
  BY SMT, <1>1 DEF Inv, LogInv, LoopInv, Receive, At
<1>5. /\ l.pc = "check" /\ l.folded = Nothing /\ l.failed = {} /\ l.next = last + 1
      /\ l.at = n
  BY <1>2 DEF Inv, LoopInv, Receive, At, Loops
<1>6. \A k \in 1..n-1 : Covered(k)'
  BY <1>2, CoveredKept DEF Inv, LoopInv, Receive, At
<1>7. loop'[i] = l
  BY <1>3 DEF Inv, TypeInv
<1>8. l \in Loops
  <2>1. n \in Nat /\ last + 1 \in Nat
    <3> HIDE DEF n
    <3> QED
      BY SMT, <1>4
  <2> QED
    BY <1>2, <2>1 DEF Loops
<1> HIDE DEF l, n
<1>9. LoopInv(i)'
  <2>1. l.next \in 1..Len(log)+1 /\ l.at \in 1..l.next
    BY SMT, <1>4, <1>5
  <2> QED
    BY <1>2, <1>5, <1>6, <1>7, <2>1 DEF LoopInv, Nothing
<1> QED
  BY <1>2, <1>3, <1>8, <1>9, LoopStep

LEMMA BeginStep ==
  ASSUME Inv, NEW i \in Instances, Begin(i)
  PROVE  Inv'
<1> DEFINE l == [loop[i] EXCEPT !.pc = "fold"]
<1>1. log' = log /\ table' = table /\ loop' = [loop EXCEPT ![i] = l] /\ loop[i] \in Loops
  BY DEF Begin, Inv, TypeInv
<1>2. l \in Loops
  BY <1>1 DEF Loops
<1>3. loop'[i] = l
  BY <1>1 DEF Inv, TypeInv
<1>4. /\ l.pc = "fold" /\ l.folded = Nothing /\ l.failed = {}
      /\ l.next \in 1..Len(log)+1 /\ l.at \in 1..l.next
      /\ \A k \in 1..l.at-1 : Covered(k)
  BY <1>1 DEF Inv, LoopInv, Begin, At, Loops
<1> HIDE DEF l
<1>5. \A k \in 1..l.at-1 : Covered(k)'
  BY <1>1, <1>4, CoveredKept
<1>6. \A d \in Docs : FoldedInv(i, d)'
  BY <1>3, <1>4 DEF FoldedInv, Nothing
<1>7. LoopInv(i)'
  BY <1>1, <1>3, <1>4, <1>5, <1>6 DEF LoopInv
<1> QED
  BY <1>1, <1>2, <1>7, LoopStep

\* How the invariant of a state of the batch is shown after a quiet step.
LEMMA FoldedQuiet ==
  ASSUME LogInv, log' = log, rows' = rows, NEW i, NEW d, NEW x, Is(x, loop'[i].folded[d]),
         x # NoRow, NEW n \in 0..Len(log), Is(n, loop'[i].at - 1), NEW s, Is(s, x.seq),
         s # 0, Is(s, Tip(d, n)), x.version = Expected(d, s).version,
         NEW m \in s..Len(log), m = s \/ m <= rows[d].seq,
         Tip(d, m) = m, Mixes(x, Expected(d, s), Expected(d, m))
  PROVE  FoldedInv(i, d)'
<1>0. s \in 0..Len(log) /\ m \in 0..Len(log)
  <2>1. Len(log) \in Nat /\ n \in Nat
    BY SMT, LogFacts
  <2>2. s \in 0..n
    BY <2>1, ExpectedSeq DEF Is
  <2> QED
    BY SMTT(30), <2>1, <2>2
<1>1. \A j \in 0..Len(log) : Tip(d, j)' = Tip(d, j) /\ Expected(d, j)' = Expected(d, j)
  BY SameLog
<1> DEFINE z == loop[i].folded[d]
           q == z.seq
           t == loop[i].at - 1
<1>2. z' = x /\ t' = n /\ q' = s
  BY DEF Is
<1> HIDE DEF z, q, t
<1>3. z' # NoRow /\ q' # 0 /\ q' = Tip(d, t)' /\ (z.version = Expected(d, q).version)'
  BY <1>0, <1>1, <1>2 DEF Is
<1>4. m \in q'..Len(log') /\ (m = q' \/ m <= rows'[d].seq) /\ Tip(d, m)' = m
  BY <1>0, <1>1, <1>2
<1>5. Mixes(z, Expected(d, q), Expected(d, m))'
  <2>1. Expected(d, q)' = Expected(d, s) /\ Expected(d, m)' = Expected(d, m)
    BY <1>0, <1>1, <1>2
  <2> QED
    BY <1>2, <2>1 DEF Mixes
<1> QED
  BY <1>3, <1>4, <1>5 DEF FoldedInv, z, q, t

\* A document the folded event does not show in.
LEMMA FoldedElsewhere ==
  ASSUME LogInv, TypeInv, log' = log, rows' = rows, NEW i \in Instances,
         NEW k \in 1..Len(log), Is(k, loop[i].at), NEW d \in Docs, k \notin Known(d, k),
         loop'[i].at = k + 1, loop'[i].folded[d] = loop[i].folded[d], FoldedInv(i, d)
  PROVE  FoldedInv(i, d)'
<1> DEFINE x == loop[i].folded[d]
           s == x.seq
<1>1. k \in Nat /\ k-1 \in 0..k /\ loop'[i].at - 1 = k /\ k-1+1 = k
  BY SMTT(30), LogFacts
<1>2. Tip(d, k) = Tip(d, k-1)
  <2>1. \A j \in k-1+1..k : j \notin Known(d, k)
    BY SMT, <1>1
  <2> QED
    BY <1>1, <2>1, ExpectedBetween
<1>3. CASE x = NoRow
  BY <1>3 DEF FoldedInv
<1>4. CASE x # NoRow
  <2>1. s # 0 /\ s = Tip(d, k) /\ x.version = Expected(d, s).version
    BY <1>2, <1>4 DEF FoldedInv, Is
  <2>2. PICK m \in s..Len(log) :
               /\ m = s \/ m <= rows[d].seq
               /\ Tip(d, m) = m /\ Mixes(x, Expected(d, s), Expected(d, m))
    BY <1>4 DEF FoldedInv
  <2>3. loop'[i].at - 1 = k /\ k \in 0..Len(log)
    BY SMT, <1>1
  <2> QED
    BY <1>4, <2>1, <2>2, <2>3, FoldedQuiet DEF Is
<1> QED
  BY <1>3, <1>4

\* One event further in the batch: g is the batch's states then, c its failures.
FoldsTo(i, k, n, g, c) ==
  /\ loop[i].pc = "fold" /\ k = loop[i].at /\ n = loop[i].next /\ k < n
  /\ log' = log /\ table' = table
  /\ loop' = [loop EXCEPT ![i] = [pc |-> "fold", at |-> k + 1, next |-> n, folded |-> g,
                                  failed |-> c]]

\* The loop's position, within the log.
LEMMA FoldPosition ==
  ASSUME LogInv, NEW i \in Instances, LoopInv(i), loop[i].pc = "fold",
         NEW k, Is(k, loop[i].at), NEW n, Is(n, loop[i].next), k < n
  PROVE  /\ k \in 1..Len(log) /\ k \in Nat /\ k + 1 \in 1..n /\ n \in 1..Len(log)+1
         /\ k + 1 - 1 = k /\ log[k].doc \in Docs
<1>1. n \in 1..Len(log)+1 /\ k \in 1..n
  BY DEF LoopInv, Is
<1>2. k \in 1..Len(log) /\ k \in Nat /\ k + 1 \in 1..n /\ k + 1 - 1 = k
  BY SMT, <1>1, LogFacts
<1> QED
  BY <1>1, <1>2, LogFacts

LEMMA FoldsToFacts ==
  ASSUME Inv, NEW i \in Instances, NEW k, NEW n, NEW g, NEW c, FoldsTo(i, k, n, g, c)
  PROVE  /\ LogInv /\ TypeInv /\ LoopInv(i) /\ log' = log /\ rows' = rows
         /\ LogInv' /\ LogExtends /\ \A j : Covered(j)' <=> Covered(j)
         /\ k \in 1..Len(log) /\ k \in Nat /\ k + 1 \in 1..n /\ n \in 1..Len(log)+1
         /\ k + 1 - 1 = k /\ log[k].doc \in Docs /\ Is(k, loop[i].at)
         /\ loop'[i].at = k + 1 /\ loop'[i].folded = g
<1>1. LogInv /\ TypeInv /\ LoopInv(i) /\ log' = log /\ rows' = rows /\ table' = table
  BY DEF Inv, FoldsTo, table
<1>2. loop[i].pc = "fold" /\ Is(k, loop[i].at) /\ Is(n, loop[i].next) /\ k < n
  BY DEF FoldsTo, Is
<1>3. loop'[i] = [pc |-> "fold", at |-> k + 1, next |-> n, folded |-> g, failed |-> c]
  BY <1>1 DEF TypeInv, FoldsTo
<1>4. loop'[i].at = k + 1 /\ loop'[i].folded = g
  BY SMTT(30), <1>3
<1>5. /\ k \in 1..Len(log) /\ k \in Nat /\ k + 1 \in 1..n /\ n \in 1..Len(log)+1
      /\ k + 1 - 1 = k /\ log[k].doc \in Docs
  BY <1>1, <1>2, FoldPosition
<1> QED
  BY <1>1, <1>2, <1>4, <1>5, SameLog, CoveredKept

\* What holds of the batch before an event is folded holds after it.
LEMMA BatchSoFar ==
  ASSUME Inv, NEW i \in Instances, NEW k, NEW n, NEW g, NEW c, FoldsTo(i, k, n, g, c)
  PROVE  /\ \A j \in loop[i].failed : j < k + 1 /\ Unfoldable(j)'
         /\ \A j \in 1..k : j # k => \/ Covered(j)' \/ j \in loop[i].failed
                                     \/ loop[i].folded[log[j].doc].seq >= j
<1>1. LogInv /\ TypeInv /\ LoopInv(i) /\ loop[i].pc = "fold" /\ k \in Nat
      /\ LogInv' /\ LogExtends /\ (\A j : Covered(j)' <=> Covered(j)) /\ Is(k, loop[i].at)
  BY FoldsToFacts DEF FoldsTo
<1>2. ASSUME NEW j \in loop[i].failed PROVE j < k + 1 /\ Unfoldable(j)'
  <2>1. j < k /\ Unfoldable(j)
    BY <1>1 DEF LoopInv, Is
  <2>2. j \in Nat
    BY <1>1 DEF TypeInv, Loops
  <2> QED
    BY SMTT(30), <1>1, <2>1, <2>2, UnfoldableKept
<1>3. ASSUME NEW j \in 1..k, j # k
      PROVE  Covered(j)' \/ j \in loop[i].failed \/ loop[i].folded[log[j].doc].seq >= j
  <2>1. j \in 1..k-1
    BY SMT, <1>1, <1>3
  <2>2. \A m \in 1..k-1 : \/ Covered(m) \/ m \in loop[i].failed
                          \/ loop[i].folded[log[m].doc].seq >= m
    BY <1>1 DEF LoopInv, Is
  <2> QED
    BY <1>1, <2>1, <2>2
<1> QED
  BY <1>2, <1>3

LEMMA FoldLoop ==
  ASSUME Inv, NEW i \in Instances, NEW k, NEW n, NEW g \in [Docs -> Rows],
         NEW c \in SUBSET Nat, FoldsTo(i, k, n, g, c),
         \A j \in c : j < k + 1 /\ Unfoldable(j)',
         \A j \in 1..k : Covered(j)' \/ j \in c \/ g[log[j].doc].seq >= j,
         \A d \in Docs : FoldedInv(i, d)'
  PROVE  Inv'
<1>1. PICK l : l = [pc |-> "fold", at |-> k + 1, next |-> n, folded |-> g, failed |-> c]
  OBVIOUS
<1>2. /\ TypeInv /\ k \in Nat /\ k + 1 \in 1..n /\ n \in 1..Len(log)+1 /\ k + 1 - 1 = k
      /\ log' = log
  BY FoldsToFacts
<1>3. log' = log /\ table' = table /\ loop' = [loop EXCEPT ![i] = l]
  BY <1>1 DEF FoldsTo
<1>4. n \in Nat /\ k + 1 \in Nat
  BY SMT, <1>2
<1>5. l \in Loops
  BY <1>1, <1>4 DEF Loops
<1>6. loop'[i] = l
  BY <1>2, <1>3 DEF TypeInv
<1>7. /\ loop'[i].pc = "fold" /\ loop'[i].at = k + 1 /\ loop'[i].next = n
      /\ loop'[i].folded = g /\ loop'[i].failed = c
  <2>1. /\ l.pc = "fold" /\ l.at = k + 1 /\ l.next = n /\ l.folded = g /\ l.failed = c
    BY <1>1
  <2> QED
    BY <1>6, <2>1
<1>8. LoopInv(i)'
  <2>1. loop'[i].at - 1 = k /\ loop'[i].next \in 1..Len(log')+1
        /\ loop'[i].at \in 1..loop'[i].next
    BY SMT, <1>2, <1>7
  <2>2. \A j \in 1..k :
          Covered(j)' \/ j \in loop'[i].failed \/ loop'[i].folded[log'[j].doc].seq >= j
    BY <1>3, <1>7
  <2>3. \A j \in loop'[i].failed : j < loop'[i].at /\ Unfoldable(j)'
    BY <1>7
  <2> QED
    BY <1>7, <2>1, <2>2, <2>3 DEF LoopInv
<1> QED
  BY <1>3, <1>5, <1>8, LoopStep

LEMMA FoldFails ==
  ASSUME Inv, NEW i \in Instances, NEW k, NEW n, NEW f, NEW c, FoldsTo(i, k, n, f, c),
         Is(f, loop[i].folded), Is(c, loop[i].failed \cup {k}), k \notin Known(log[k].doc, k)
  PROVE  Inv'
<1>1. /\ LogInv /\ TypeInv /\ LoopInv(i) /\ log' = log /\ rows' = rows /\ LogInv' /\ LogExtends
      /\ k \in 1..Len(log) /\ k \in Nat /\ Is(k, loop[i].at)
      /\ loop'[i].at = k + 1 /\ loop'[i].folded = f
  BY FoldsToFacts
<1>2. f \in [Docs -> Rows] /\ c \in SUBSET Nat
  BY <1>1 DEF TypeInv, Loops, Is
<1>3. k < k + 1 /\ Unfoldable(k)'
  BY SMT, <1>1, UnfoldableKept DEF Unfoldable
<1>4. ASSUME NEW j \in c PROVE j < k + 1 /\ Unfoldable(j)'
  BY <1>3, BatchSoFar DEF Is
<1>5. ASSUME NEW j \in 1..k PROVE Covered(j)' \/ j \in c \/ f[log[j].doc].seq >= j
  BY BatchSoFar DEF Is
<1>6. ASSUME NEW d \in Docs PROVE FoldedInv(i, d)'
  <2>1. k \notin Known(d, k)
    BY DEF Known, Writers
  <2>2. FoldedInv(i, d)
    BY <1>1 DEF LoopInv, FoldsTo
  <2>3. loop'[i].folded[d] = loop[i].folded[d]
    BY <1>1 DEF Is
  <2> QED
    BY <1>1, <2>1, <2>2, <2>3, FoldedElsewhere
<1> QED
  BY <1>2, <1>4, <1>5, <1>6, FoldLoop

LEMMA FoldShows ==
  ASSUME Inv, NEW i \in Instances, NEW k, NEW n, NEW g, NEW b, FoldsTo(i, k, n, g, b),
         NEW f, Is(f, loop[i].folded), Is(b, loop[i].failed), NEW d, Is(d, log[k].doc),
         k \in Known(d, k), NEW y, Folds(y, d, k), Is(g, [f EXCEPT ![d] = y])
  PROVE  Inv'
<1>1. /\ LogInv /\ TypeInv /\ LoopInv(i) /\ log' = log /\ rows' = rows
      /\ k \in 1..Len(log) /\ k \in Nat /\ k # 0 /\ d \in Docs /\ Is(k, loop[i].at)
      /\ loop'[i].at = k + 1 /\ loop'[i].folded = g /\ loop'[i].at - 1 = k /\ k \in 0..Len(log)
  BY SMTT(30), FoldsToFacts DEF Is
<1>2. f \in [Docs -> Rows] /\ b \in SUBSET Nat
  BY <1>1 DEF TypeInv, Loops, Is
<1>3. y \in DocumentState /\ y \in Rows /\ Is(k, y.seq) /\ y # NoRow
  BY NoRowNoState DEF Folds, Rows, Is
<1>4. /\ g \in [Docs -> Rows] /\ g[d] = y
      /\ \A d2 \in Docs : d2 # d => g[d2] = f[d2]
  <2>1. g = [f EXCEPT ![d] = y] /\ d \in Docs /\ y \in Rows /\ f \in [Docs -> Rows]
    BY <1>1, <1>2, <1>3 DEF Is
  <2> QED
    BY <2>1
<1>5. \A j \in b : j < k + 1 /\ Unfoldable(j)'
  BY BatchSoFar DEF Is
<1>6. ASSUME NEW j \in 1..k PROVE Covered(j)' \/ j \in b \/ g[log[j].doc].seq >= j
  <2>1. log[j].doc \in Docs
    <3>1. Len(log) \in Nat
      BY <1>1, LogFacts
    <3>2. j \in 1..Len(log)
      BY SMT, <1>1, <3>1
    <3> QED
      BY <1>1, <3>2, LogFacts
  <2>2. CASE log[j].doc = d
    <3>1. g[log[j].doc].seq = k
      BY <1>3, <1>4, <2>2 DEF Is
    <3>2. k >= j
      BY SMT, <1>1
    <3> QED
      BY <3>1, <3>2
  <2>3. CASE log[j].doc # d
    <3>1. Covered(j)' \/ j \in b \/ f[log[j].doc].seq >= j
      BY <2>3, BatchSoFar DEF Is
    <3> QED
      BY <1>4, <2>1, <2>3, <3>1
  <2> QED
    BY <2>2, <2>3
<1>7. ASSUME NEW d2 \in Docs PROVE FoldedInv(i, d2)'
  <2>1. CASE d2 # d
    <3>1. k \notin Known(d2, k)
      BY <2>1 DEF Known, Writers, Is
    <3>2. FoldedInv(i, d2)
      BY <1>1 DEF LoopInv, FoldsTo
    <3>3. loop'[i].folded[d2] = loop[i].folded[d2]
      BY <1>1, <1>4, <2>1 DEF Is
    <3> QED
      BY <1>1, <3>1, <3>2, <3>3, FoldedElsewhere
  <2>2. CASE d2 = d
    <3>1. Tip(d, k) = k
      BY SMTT(30), <1>1, ExpectedSeq
    <3>2. loop'[i].folded[d] = y
      BY <1>1, <1>4
    <3>3. PICK m \in k..Len(log) :
            /\ m = k \/ m <= rows[d].seq
            /\ Tip(d, m) = m /\ Mixes(y, Expected(d, k), Expected(d, m))
      BY DEF Folds
    <3>4. y.version = Expected(d, k).version
      BY DEF Folds
    <3>5. Is(y, loop'[i].folded[d]) /\ Is(k, loop'[i].at - 1) /\ Is(k, Tip(d, k))
      BY <1>1, <3>1, <3>2 DEF Is
    <3> QED
      BY <1>1, <1>3, <2>2, <3>3, <3>4, <3>5, FoldedQuiet
  <2> QED
    BY <2>1, <2>2
<1> QED
  BY <1>2, <1>4, <1>5, <1>6, <1>7, FoldLoop

LEMMA FoldEventStep ==
  ASSUME Inv, NEW i \in Instances, FoldEvent(i)
  PROVE  Inv'
<1>1. LogInv /\ TypeInv /\ TableInv /\ LoopInv(i) /\ loop[i].pc = "fold"
      /\ log' = log /\ table' = table /\ loop[i].at < loop[i].next
  BY DEF FoldEvent, Inv, At
<1>2. PICK k : Is(k, loop[i].at)
  BY DEF Is
<1>3. PICK n : Is(n, loop[i].next)
  BY DEF Is
<1>4. PICK d : Is(d, log[k].doc)
  BY DEF Is
<1>5. PICK x : Is(x, Prior(i, d))
  BY DEF Is
<1>6. PICK y : Is(y, Apply(x, log[k], k))
  BY DEF Is
<1>7. PICK f : Is(f, loop[i].folded)
  BY DEF Is
<1>8. PICK b : Is(b, loop[i].failed)
  BY DEF Is
<1>9. k < n /\ k \in 1..Len(log) /\ d \in Docs
  <2>1. k < n
    BY <1>1, <1>2, <1>3 DEF Is
  <2> QED
    BY <1>1, <1>2, <1>3, <1>4, <2>1, FoldPosition DEF Is
<1>10. /\ Fails(x, log[k]) <=> k \notin Known(d, k)
       /\ k \in Known(d, k) => Folds(y, d, k)
  <2>1. CASE f[d] # NoRow
    <3>1. Is(x, loop[i].folded[d]) /\ x # NoRow
      BY <1>5, <1>7, <2>1 DEF Prior, Is
    <3> QED
      BY <1>1, <1>2, <1>4, <1>6, <1>9, <3>1, FoldBatch DEF Is
  <2>2. CASE f[d] = NoRow
    <3>1. Is(x, rows[d]) /\ Is(NoRow, loop[i].folded[d])
      BY <1>5, <1>7, <2>2 DEF Prior, LoadDocument, Is
    <3> QED
      BY <1>1, <1>2, <1>4, <1>6, <1>9, <3>1, FoldRow DEF Is
  <2> QED
    BY <2>1, <2>2
<1>11. loop[i] = [pc |-> "fold", at |-> k, next |-> n, folded |-> f, failed |-> b]
  BY <1>1, <1>2, <1>3, <1>7, <1>8 DEF TypeInv, Loops, Is
<1>12. CASE k \notin Known(d, k)
  <2>1. PICK r : r = [loop[i] EXCEPT !.at = k + 1, !.failed = b \cup {k}]
    OBVIOUS
  <2>2. loop' = [loop EXCEPT ![i] = r]
    <3>1. Fails(Prior(i, d), log[k])
      BY <1>5, <1>10, <1>12 DEF Is
    <3>2. loop' = [loop EXCEPT ![i] = [loop[i] EXCEPT !.at = k + 1,
                                         !.failed = loop[i].failed \cup {k}]]
      BY <1>2, <1>4, <3>1 DEF FoldEvent, Is
    <3> QED
      BY <1>8, <2>1, <3>2 DEF Is
  <2>3. r = [pc |-> "fold", at |-> k + 1, next |-> n, folded |-> f, failed |-> b \cup {k}]
    <3>1. r = [[pc |-> "fold", at |-> k, next |-> n, folded |-> f, failed |-> b]
                 EXCEPT !.at = k + 1, !.failed = b \cup {k}]
      BY <1>11, <2>1
    <3> QED
      BY <3>1
  <2>4. FoldsTo(i, k, n, f, b \cup {k})
    BY <1>1, <1>2, <1>3, <1>9, <2>2, <2>3 DEF FoldsTo, Is
  <2>5. k \notin Known(log[k].doc, k) /\ Is(b \cup {k}, loop[i].failed \cup {k})
    BY <1>4, <1>8, <1>12 DEF Is
  <2> QED
    BY <1>7, <2>4, <2>5, FoldFails
<1>13. CASE k \in Known(d, k)
  <2>1. PICK r : r = [loop[i] EXCEPT !.at = k + 1, !.folded[d] = y]
    OBVIOUS
  <2>2. PICK g : g = [f EXCEPT ![d] = y]
    OBVIOUS
  <2>3. loop' = [loop EXCEPT ![i] = r]
    <3>1. ~Fails(Prior(i, d), log[k]) /\ y = Apply(Prior(i, d), log[k], k)
      BY <1>5, <1>6, <1>10, <1>13 DEF Is
    <3>2. loop' = [loop EXCEPT ![i] = [loop[i] EXCEPT !.at = k + 1, !.folded[d] = y]]
      BY <1>2, <1>4, <3>1 DEF FoldEvent, Is
    <3> QED
      BY <2>1, <3>2
  <2>4. r = [pc |-> "fold", at |-> k + 1, next |-> n, folded |-> g, failed |-> b]
    <3>1. r = [[pc |-> "fold", at |-> k, next |-> n, folded |-> f, failed |-> b]
                 EXCEPT !.at = k + 1, !.folded[d] = y]
      BY <1>11, <2>1
    <3> QED
      BY <2>2, <3>1
  <2>5. FoldsTo(i, k, n, g, b)
    BY <1>1, <1>2, <1>3, <1>9, <2>3, <2>4 DEF FoldsTo, Is
  <2> QED
    BY <1>4, <1>7, <1>8, <1>10, <1>13, <2>2, <2>5, FoldShows DEF Is
<1> QED
  BY <1>12, <1>13

\* What the upsert writes is what the log calls for: a state still mixed with
\* a later one is not ahead of the row, and the row stays.
LEMMA UpsertRow ==
  ASSUME LogInv, TypeInv, TableInv, NEW i \in Instances, LoopInv(i), loop[i].pc = "fold",
         NEW d \in Docs, NEW x, Is(x, loop[i].folded[d]), NEW z, Is(z, Upsert(d, x))
  PROVE  /\ z \in Rows /\ z.seq \in 0..Len(log) /\ z = Expected(d, z.seq)
         /\ rows[d].seq <= z.seq /\ x.seq <= z.seq
<1>1. Len(log) \in Nat /\ rows[d].seq \in 0..Len(log) /\ rows[d] = Expected(d, rows[d].seq)
      /\ rows[d] \in Rows
  BY LogFacts DEF TypeInv, TableInv, RowInv
<1>2. PICK r \in 0..Len(log) : r = rows[d].seq
  BY <1>1
<1>r. r \in Nat
  BY SMT, <1>1
<1>3. CASE x = NoRow
  <2>1. x.seq = 0
    BY <1>3, NoRowNoState
  <2>2. ~(r < x.seq) /\ r <= r /\ x.seq <= r
    BY SMT, <1>r, <2>1
  <2> QED
    BY <1>1, <1>2, <2>2 DEF Upsert, Is
<1>4. CASE x # NoRow
  <2>1. FoldedInv(i, d) /\ x \in DocumentState
    BY SMT, <1>4 DEF LoopInv, TypeInv, Loops, Rows, Is
  <2>2. PICK s \in Nat : s = x.seq
    BY <2>1 DEF DocumentState
  <2>3. PICK m \in s..Len(log) :
               /\ m = s \/ m <= r
               /\ Tip(d, m) = m /\ Mixes(x, Expected(d, s), Expected(d, m))
    BY <1>2, <1>4, <2>1, <2>2 DEF FoldedInv, Is
  <2>4. s # 0 /\ x.version = Expected(d, s).version
    BY <1>4, <2>1, <2>2 DEF FoldedInv, Is
  <2>5. CASE r < s
    <3>1. z = x
      BY <1>2, <2>2, <2>5 DEF Upsert, Is
    <3>2. m = s /\ s \in 0..Len(log)
      BY SMT, <1>1, <1>r, <2>3, <2>5
    <3>3. Tip(d, s) = s /\ Mixes(x, Expected(d, s), Expected(d, s))
      BY <2>3, <3>2
    <3>4. Expected(d, s) \in DocumentState /\ Expected(d, s).seq = s
      BY <2>2, <2>4, <3>2, <3>3, ExpectedRow, ExpectedSeq
    <3>5. PICK e \in DocumentState : e = Expected(d, s)
      BY <3>4
    <3>6. x = e
      <4>1. /\ x.version = e.version /\ x.seq = e.seq /\ x.state = e.state
            /\ x.index = e.index /\ x.indexVersion = e.indexVersion /\ x.blob = e.blob
            /\ x.title = e.title /\ x.created = e.created
        BY <2>2, <2>4, <3>3, <3>4, <3>5 DEF Mixes
      <4>2. x \in DocumentState
        BY <2>1
      <4> QED
        BY SMT, <4>1, <4>2 DEF DocumentState
    <3>7. r <= s /\ s <= s
      BY SMT, <1>r, <2>5
    <3> QED
      BY <1>2, <2>1, <2>2, <3>1, <3>2, <3>5, <3>6, <3>7 DEF Rows
  <2>6. CASE ~(r < s)
    <3>1. z = rows[d]
      BY <1>2, <2>2, <2>6 DEF Upsert, Is
    <3>2. s <= r /\ r <= r
      BY SMT, <1>r, <2>6
    <3> QED
      BY <1>1, <1>2, <2>2, <3>1, <3>2
  <2> QED
    BY <2>5, <2>6
<1> QED
  BY <1>3, <1>4

LEMMA CommitStep ==
  ASSUME Inv, NEW i \in Instances, Commit(i)
  PROVE  Inv'
<1>1. LogInv /\ TypeInv /\ TableInv /\ LoopInv(i) /\ loop[i].pc = "fold" /\ log' = log
      /\ loop[i] \in Loops /\ Len(log) \in Nat
  BY SMT DEF Inv, TypeInv, LogInv, Commit, At
<1>2. PICK n : n = loop[i].next
  OBVIOUS
<1>3. PICK f : f = loop[i].folded
  OBVIOUS
<1>4. PICK b : b = loop[i].failed
  OBVIOUS
<1>5. /\ loop[i].at = n /\ n \in 1..Len(log)+1
      /\ n - 1 \in 0..Len(log) /\ n \in Nat /\ n \in 1..Len(log')+1
  <2>1. loop[i].at = n /\ n \in 1..Len(log)+1
    BY <1>1, <1>2 DEF Commit, LoopInv
  <2> QED
    BY SMT, <1>1, <2>1
<1>6. /\ rows' = [d \in Docs |-> Upsert(d, f[d])] /\ parked' = parked \cup b
      /\ checkpoint' = n - 1
  BY <1>2, <1>3, <1>4 DEF Commit, RecordFailure
<1>7. \A d \in Docs : /\ rows'[d] \in Rows /\ rows'[d].seq \in 0..Len(log)
                      /\ rows'[d] = Expected(d, rows'[d].seq)
                      /\ rows[d].seq <= rows'[d].seq /\ f[d].seq <= rows'[d].seq
  BY <1>1, <1>3, <1>6, UpsertRow DEF Is
<1>8. LogInv' /\ LogExtends
  BY <1>1, SameLog
<1>9. \A d \in Docs : rows[d].seq \in 0..Len(log) /\ f[d].seq \in Nat
  <2>1. \A d \in Docs : rows[d].seq \in 0..Len(log)
    BY <1>1 DEF TableInv, RowInv
  <2>2. ASSUME NEW d \in Docs PROVE f[d].seq \in Nat
    <3>1. f[d] \in Rows
      BY <1>1, <1>3 DEF Loops
    <3> QED
      BY SMT, <3>1, NoRowNoState DEF Rows, DocumentState
  <2> QED
    BY <2>1, <2>2
<1>10. \A k \in 1..Len(log) : log[k].doc \in Docs
  BY <1>1, LogFacts
<1>11. Onward
  <2>1. ASSUME NEW k \in 1..Len(log), Covered(k) PROVE Covered(k)'
    <3>1. CASE k \in parked
      BY <1>6, <3>1 DEF Covered
    <3>2. CASE rows[log[k].doc].seq >= k
      <4>1. PICK d \in Docs : d = log[k].doc
        BY <1>10
      <4>2. rows'[d].seq >= k
        BY SMT, <1>1, <1>7, <1>9, <3>2, <4>1
      <4> QED
        BY <1>1, <4>1, <4>2 DEF Covered
    <3> QED
      BY <2>1, <3>1, <3>2 DEF Covered
  <2>2. \A d \in Docs : rows[d].seq \in Nat /\ rows'[d].seq \in Nat /\ rows[d].seq <= rows'[d].seq
    BY SMT, <1>1, <1>7, <1>9
  <2> QED
    BY <1>8, <2>1, <2>2 DEF Onward
<1>12. ASSUME NEW k \in 1..n-1 PROVE Covered(k)'
  <2>1. k \in 1..Len(log) /\ k \in Nat
    BY SMT, <1>1, <1>5
  <2>2. Covered(k) \/ k \in b \/ f[log[k].doc].seq >= k
    BY <1>1, <1>3, <1>4, <1>5 DEF LoopInv
  <2>3. CASE Covered(k)
    BY <1>11, <2>1, <2>3 DEF Onward
  <2>4. CASE k \in b
    BY <1>6, <2>4 DEF Covered
  <2>5. CASE f[log[k].doc].seq >= k
    <3>1. PICK d \in Docs : d = log[k].doc
      BY <1>10, <2>1
    <3>2. rows'[d].seq >= k
      BY SMTT(30), <1>1, <1>7, <1>9, <2>1, <2>5, <3>1
    <3> QED
      BY <1>1, <3>1, <3>2 DEF Covered
  <2> QED
    BY <2>2, <2>3, <2>4, <2>5
<1>13. PICK l : l = [Idle EXCEPT !.pc = "poll", !.next = n]
  OBVIOUS
<1>14. l = [pc |-> "poll", at |-> 0, next |-> n, folded |-> Nothing, failed |-> {}]
  BY <1>13 DEF Idle
<1>15. loop' = [loop EXCEPT ![i] = l] /\ loop'[i] = l /\ l \in Loops
  <2>1. loop' = [loop EXCEPT ![i] = l]
    BY <1>2, <1>13 DEF Commit
  <2>2. l \in Loops
    BY <1>5, <1>14, NothingRows DEF Loops
  <2> QED
    BY <1>1, <2>1, <2>2 DEF TypeInv
<1>16. LoopInv(i)'
  BY SMTT(30), <1>5, <1>12, <1>14, <1>15 DEF LoopInv, Nothing
<1>17. ASSUME NEW j \in Instances PROVE LoopInv(j)'
  <2>1. CASE j = i
    BY <1>16, <2>1
  <2>2. CASE j # i
    <3>1. loop'[j] = loop[j]
      BY <1>1, <1>15, <2>2 DEF TypeInv
    <3> QED
      BY <1>1, <1>8, <1>11, <3>1, LoopKept DEF Inv
  <2> QED
    BY <2>1, <2>2
<1>18. ASSUME NEW k \in parked' PROVE Unfoldable(k)' /\ k \in 1..Len(log)
  <2>1. Unfoldable(k)
    BY <1>1, <1>4, <1>6 DEF TableInv, LoopInv
  <2> QED
    BY <1>1, <1>8, <2>1, UnfoldableKept DEF Unfoldable
<1>19. TableInv'
  <2>1. ASSUME NEW d \in Docs PROVE RowInv(d)'
    <3>1. \A k \in 0..Len(log) : Expected(d, k)' = Expected(d, k)
      BY <1>1, SameLog
    <3> QED
      BY <1>1, <1>7, <3>1 DEF RowInv
  <2> QED
    BY <1>6, <1>12, <1>18, <2>1 DEF TableInv
<1>20. TypeInv'
  <2>1. rows' \in [Docs -> Rows]
    BY <1>6, <1>7
  <2>2. parked' \in SUBSET (1..Len(log'))
    BY <1>1, <1>18
  <2>3. loop' \in [Instances -> Loops]
    BY <1>1, <1>15 DEF TypeInv
  <2> QED
    BY <1>1, <1>5, <1>6, <2>1, <2>2, <2>3 DEF TypeInv
<1> QED
  BY <1>8, <1>17, <1>19, <1>20 DEF Inv

LEMMA AppendStep ==
  ASSUME Inv, NEW d \in Docs, NEW kind \in Produced, NEW fv \in 0..MaxLog,
         NEW patch \in BOOLEAN, Append1(d, kind, fv, patch)
  PROVE  Inv'
<1>1. LogInv /\ TypeInv /\ TableInv /\ Len(log) \in Nat /\ table' = table /\ loop' = loop
  BY LogFacts DEF Inv, Append1
<1>2. PICK e \in Event : /\ log' = Append(log, e) /\ e.doc = d /\ e.kind = kind
                         /\ e.patch = patch
  BY DEF Append1
<1>3. /\ log \in Seq(Event) /\ log' \in Seq(Event) /\ Len(log') = Len(log) + 1
      /\ log'[Len(log) + 1] = e /\ \A k \in 1..Len(log) : log'[k] = log[k]
  <2>1. log \in Seq(Event)
    BY <1>1 DEF LogInv
  <2>2. /\ Append(log, e) \in Seq(Event) /\ Len(Append(log, e)) = Len(log) + 1
        /\ Append(log, e)[Len(log) + 1] = e
        /\ \A k \in 1..Len(log) : Append(log, e)[k] = log[k]
    BY SMT, <2>1
  <2> QED
    BY <1>2, <2>1, <2>2
<1>4. \A k \in 1..Len(log') : k \in 1..Len(log) \/ k = Len(log) + 1
  BY SMT, <1>1, <1>3
<1>5. e.kind = "created" => \A j \in 1..Len(log) : log[j].doc # d
  <2>1. e.kind = "created" => Of(d) = {}
    BY <1>2 DEF Append1
  <2>2. DOMAIN log = 1..Len(log)
    BY SMT, <1>3
  <2> QED
    BY <2>1, <2>2 DEF Of
<1>6. e.patch => e.kind \in {"created", "validated", "metadata"}
  BY <1>2, SettingsAssumption DEF Append1
<1>7. LogInv'
  <2>1. ASSUME NEW j \in 1..Len(log'), NEW k \in 1..Len(log'), j < k,
               log'[j].doc = log'[k].doc
        PROVE  log'[k].kind # "created"
    <3>1. CASE k \in 1..Len(log)
      <4>1. j \in 1..Len(log)
        <5>1. Len(log) \in Nat /\ Len(log') = Len(log) + 1
          BY <1>1, <1>3
        <5> QED
          BY SMT, <2>1, <3>1, <5>1
      <4> QED
        BY <1>1, <1>3, <2>1, <3>1, <4>1 DEF LogInv
    <3>2. CASE k = Len(log) + 1
      <4>1. j \in 1..Len(log)
        BY SMT, <1>1, <1>3, <2>1, <3>2
      <4> QED
        BY <1>2, <1>3, <1>5, <2>1, <3>2, <4>1
    <3> QED
      BY <1>4, <3>1, <3>2
  <2>2. ASSUME NEW k \in 1..Len(log'), log'[k].patch
        PROVE  log'[k].kind \in {"created", "validated", "metadata"}
    <3>1. CASE k \in 1..Len(log)
      BY <1>1, <1>3, <2>2, <3>1 DEF LogInv
    <3>2. CASE k = Len(log) + 1
      BY <1>3, <1>6, <2>2, <3>2
    <3> QED
      BY <1>4, <3>1, <3>2
  <2>3. Bounded(Len(log))'
    <3>1. Bounded(Len(log) + 1)
      BY <1>1, BoundedNext DEF LogInv
    <3> QED
      BY <1>3, <3>1 DEF Bounded
  <2> QED
    BY <1>3, <2>1, <2>2, <2>3 DEF LogInv
<1>8. LogExtends
  BY SMT, <1>1, <1>3 DEF LogExtends
<1>9. Onward /\ TableInv'
  BY <1>1, <1>7, <1>8, StillOnward, TableKept
<1>10. TypeInv'
  <2>1. \A k : (k \in 0..Len(log) => k \in 0..Len(log')) /\ (k \in 1..Len(log) => k \in 1..Len(log'))
    BY SMT, <1>1, <1>3
  <2>2. parked \in SUBSET (1..Len(log')) /\ checkpoint \in 0..Len(log')
    BY <1>1, <2>1 DEF TypeInv
  <2> QED
    BY <1>1, <2>2 DEF TypeInv, table
<1>11. \A i \in Instances : LoopInv(i)'
  BY <1>1, <1>7, <1>9, LoopKept DEF Inv
<1> QED
  BY <1>7, <1>9, <1>10, <1>11 DEF Inv

LEMMA ResetStep ==
  ASSUME Inv, Reset
  PROVE  Inv'
<1>1. /\ LogInv /\ TypeInv /\ Len(log) \in Nat /\ log' = log /\ loop' = loop
      /\ rows' = Nothing /\ parked' = {} /\ checkpoint' = 0
      /\ \A i \in Instances : loop[i].pc = "idle"
  BY SMT DEF Inv, LogInv, Reset, At
<1>2. LogInv'
  BY <1>1, SameLog
<1>3. TypeInv'
  BY SMT, <1>1, NothingRows DEF TypeInv
<1>4. ASSUME NEW d \in Docs PROVE RowInv(d)'
  <2>1. 0 \in 0..Len(log)
    BY SMT, <1>1
  <2>4. Tip(d, 0) \in 0..0 /\ (Tip(d, 0) = 0 => Expected(d, 0) = NoRow)
    BY <1>1, <2>1, ExpectedSeq
  <2>2. Expected(d, 0)' = NoRow
    <3>1. Tip(d, 0) = 0
      BY SMT, <2>4
    <3>2. Expected(d, 0)' = Expected(d, 0)
      BY <1>1, <2>1, SameLog
    <3> QED
      BY <2>4, <3>1, <3>2
  <2>3. rows'[d] = NoRow /\ rows'[d].seq = 0
    BY <1>1, NoRowNoState DEF Nothing
  <2> QED
    BY SMT, <1>1, <2>2, <2>3 DEF RowInv
<1>5. TableInv'
  BY SMT, <1>1, <1>4 DEF TableInv
<1>6. ASSUME NEW i \in Instances PROVE LoopInv(i)'
  <2>1. loop'[i].pc = "idle" /\ loop'[i].folded = Nothing /\ loop'[i].failed = {}
    BY <1>1 DEF Inv, LoopInv
  <2> QED
    BY <2>1 DEF LoopInv, Nothing
<1> QED
  BY <1>2, <1>3, <1>5, <1>6 DEF Inv

\* No loop and no producer moves.
LEMMA StutterStep ==
  ASSUME Inv, log' = log, table' = table, loop' = loop
  PROVE  Inv'
<1>1. LogInv' /\ LogExtends /\ TypeInv'
  BY SMT DEF Inv, LogInv, LogExtends, TypeInv, table
<1>2. Onward /\ TableInv'
  BY <1>1, StillOnward, TableKept DEF Inv
<1>3. \A i \in Instances : LoopInv(i)'
  BY <1>1, <1>2, LoopKept DEF Inv
<1> QED
  BY <1>1, <1>2, <1>3 DEF Inv

LEMMA InitInv == Init => Inv
<1> SUFFICES ASSUME Init PROVE Inv
  OBVIOUS
<1>1. Len(log) = 0 /\ log \in Seq(Event)
  BY SMT DEF Init
<1>2. LogInv
  BY SMT, <1>1, BoundedZero DEF LogInv
<1>3. Idle \in Loops
  BY NothingRows DEF Idle, Loops
<1>4. TypeInv
  BY SMT, <1>1, <1>3, NothingRows DEF Init, TypeInv
<1>5. ASSUME NEW d \in Docs PROVE RowInv(d)
  <2>0. 0 \in 0..Len(log)
    BY SMT, <1>1
  <2>1. Tip(d, 0) \in 0..0 /\ (Tip(d, 0) = 0 => Expected(d, 0) = NoRow)
    BY <1>2, <2>0, ExpectedSeq
  <2>2. rows[d] = NoRow /\ rows[d].seq = 0
    BY NoRowNoState DEF Init, Nothing
  <2> QED
    BY SMT, <1>1, <2>1, <2>2 DEF RowInv
<1>6. TableInv
  BY SMT, <1>5 DEF TableInv, Init
<1>7. ASSUME NEW i \in Instances PROVE LoopInv(i)
  BY DEF Init, LoopInv, Idle
<1> QED
  BY <1>2, <1>4, <1>6, <1>7 DEF Inv

LEMMA NextInv == Inv /\ [Next]_vars => Inv'
<1> SUFFICES ASSUME Inv, [Next]_vars PROVE Inv'
  OBVIOUS
<1>1. CASE Produce
  BY <1>1, AppendStep DEF Produce
<1>2. CASE \E i \in Instances : TryAcquire(i) \/ Turn(i) \/ LoseLock(i) \/ Fault(i)
  <2> SUFFICES ASSUME NEW i \in Instances,
                      TryAcquire(i) \/ Turn(i) \/ LoseLock(i) \/ Fault(i)
               PROVE  Inv'
    BY <1>2
  <2>1. CASE TryAcquire(i)
    BY <2>1, TryAcquireStep
  <2>2. CASE Start(i)
    BY <2>2, StartStep
  <2>3. CASE Receive(i)
    BY <2>3, ReceiveStep
  <2>4. CASE LeaseLost(i)
    BY <2>4, StopStep DEF LeaseLost, Stop
  <2>5. CASE Begin(i)
    BY SMT, <2>5, BeginStep
  <2>6. CASE FoldEvent(i)
    BY SMT, <2>6, FoldEventStep
  <2>7. CASE Commit(i)
    BY SMT, <2>7, CommitStep
  <2>8. CASE LoseLock(i)
    BY <2>8, StutterStep DEF LoseLock
  <2>9. CASE Fault(i)
    BY <2>9, StopStep DEF Fault, Stop
  <2> QED
    BY <2>1, <2>2, <2>3, <2>4, <2>5, <2>6, <2>7, <2>8, <2>9 DEF Turn
<1>3. CASE Reset
  BY <1>3, ResetStep
<1>4. CASE UNCHANGED vars
  BY <1>4, StutterStep DEF vars
<1> QED
  BY <1>1, <1>2, <1>3, <1>4 DEF Next

\* The table is a cache of the log, whichever instance wrote it, however many
\* ran at once: every row is what the events up to its sequence say, and what
\* is parked could not be folded.
THEOREM TableFollowsLog == Spec => []RowsFollowTheLog
<1>1. Inv => RowsFollowTheLog
  <2> SUFFICES ASSUME Inv PROVE RowsFollowTheLog
    OBVIOUS
  <2>1. ASSUME NEW k \in parked PROVE k \in DOMAIN log /\ Expected(log[k].doc, k).seq # k
    <3>1. k \in 1..Len(log) /\ k \notin Known(log[k].doc, k)
      BY DEF Inv, TableInv, Unfoldable
    <3>2. LogInv /\ k \in 0..Len(log) /\ k # 0 /\ DOMAIN log = 1..Len(log)
      BY SMT, <3>1 DEF Inv, LogInv
    <3>3. Tip(log[k].doc, k) # k
      BY <3>1, <3>2, ExpectedSeq
    <3> QED
      BY <3>1, <3>2, <3>3, ExpectedSeq
  <2> QED
    BY <2>1 DEF RowsFollowTheLog, Inv, TypeInv, Rows, TableInv, RowInv
<1> QED
  BY <1>1, InitInv, NextInv, PTL DEF Spec

\* The checkpoint passes no event that is neither in its document's row nor
\* parked, whatever faults, takeovers and rebuilds happened.
THEOREM CheckpointSkipsNothing == Spec => []NothingSkipped
<1>1. Inv => NothingSkipped
  BY DEF Inv, TableInv, Covered, NothingSkipped
<1> QED
  BY <1>1, InitInv, NextInv, PTL DEF Spec

=============================================================================
