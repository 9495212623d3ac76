------------------------ MODULE PendingRecoveryProofs ------------------------
(***************************************************************************)
(* No walk over the pending entries passes over a stale entry, for every   *)
(* length of the stream, number of workers, batch size, idle time and      *)
(* interval, and whatever fails in between.                                *)
(***************************************************************************)
EXTENDS PendingRecovery, FiniteSetTheorems, TLAPS

\* The parts of TypeOK that a walk depends on.
WalkTypeOK ==
    /\ delivered \in 0..NumEntries
    /\ pel \subseteq 1..delivered
    /\ idle \in [Entry -> 0..MinIdle]
    /\ cursor \in [Workers -> 0..NumEntries]
    /\ owed \in [Workers -> SUBSET Entry]

WalkInv == WalkTypeOK /\ NothingPassedOver

\* A non-empty set of entries has a least element.
LEMMA LeastEntry ==
    ASSUME NEW S, S \subseteq Nat, S # {}
    PROVE  \E e \in S : \A f \in S : e <= f
    <1>1. \E x \in S : \A y \in S : ~(<<y, x>> \in OpToRel(<, Nat))
          BY NatLessThanWellFounded, WFMin
    <1>2. PICK x \in S : \A y \in S : ~(<<y, x>> \in OpToRel(<, Nat))
          BY <1>1
    <1>3. ASSUME NEW y \in S PROVE x <= y
          <2>1. ~(y < x)
                BY <1>2 DEF OpToRel
          <2> QED BY <2>1
    <1> QED BY <1>3

LEMMA PendingAreEntries ==
    ASSUME WalkTypeOK
    PROVE  pel \subseteq Entry
    BY EntriesAssumption DEF WalkTypeOK, Entry

(***************************************************************************)
(* The cursor that XAUTOCLAIM returns is the least entry ahead that it did *)
(* not look at, or 0 when there is none.                                   *)
(***************************************************************************)
LEMMA NextCursorIsLeast ==
    ASSUME WalkTypeOK, NEW w \in Workers, NEW n,
           NEW rest, rest = {e \in pel : e >= cursor[w]} \ Scanned(w, n)
    PROVE  /\ NextCursor(w, n) \in 0..NumEntries
           /\ rest # {} => NextCursor(w, n) # 0
           /\ \A e \in rest : NextCursor(w, n) <= e
    <1>1. rest \subseteq 1..NumEntries
          BY PendingAreEntries DEF Entry
    <1>2. CASE rest = {}
          BY <1>2, EntriesAssumption DEF NextCursor
    <1>3. CASE rest # {}
          <2>1. \E e \in rest : \A f \in rest : e <= f
                BY <1>1, <1>3, LeastEntry
          <2>2. NextCursor(w, n) = CHOOSE e \in rest : \A f \in rest : e <= f
                BY <1>3 DEF NextCursor
          <2> QED BY <1>1, <2>1, <2>2
    <1> QED BY <1>2, <1>3

\* Entries that are given to a consumer are not stale, the others are left alone.
LEMMA GiveStale ==
    ASSUME WalkTypeOK, NEW batch, Give(batch),
           NEW e \in Stale, e \notin batch, pel \subseteq pel'
    PROVE  e \in Stale'
    BY PendingAreEntries DEF WalkTypeOK, Give, Stale

LEMMA GiveType ==
    ASSUME WalkTypeOK, NEW batch, Give(batch)
    PROVE  idle' \in [Entry -> 0..MinIdle]
    BY RecoverySettings DEF WalkTypeOK, Give

LEMMA WalkInit == Init => WalkInv
    BY EntriesAssumption, RecoverySettings
    DEF Init, WalkInv, WalkTypeOK, NothingPassedOver, Stale, Entry

------------------------------------------------------------------------------
(* The operations. *)

LEMMA ConsumeStep ==
    ASSUME WalkInv, NEW w \in Workers, NEW n \in 1..BatchSize, Consume(w, n)
    PROVE  WalkInv'
    <1> DEFINE last == IF delivered + n <= NumEntries THEN delivered + n
                       ELSE NumEntries
               batch == (delivered + 1)..last
    <1>1. /\ delivered < NumEntries
          /\ delivered' = last
          /\ pel' = pel \cup batch
          /\ Give(batch)
          /\ cursor' = cursor /\ owed' = owed
          BY DEF Consume
    <1>2. WalkTypeOK
          BY DEF WalkInv
    <1>3. last \in 0..NumEntries /\ delivered < last
          BY <1>1, <1>2, EntriesAssumption, RecoverySettings DEF WalkTypeOK
    <1>4. pel \cap batch = {} /\ pel' \subseteq 1..last
          BY <1>1, <1>2, <1>3 DEF WalkTypeOK
    <1> HIDE DEF last, batch
    <1>5. WalkTypeOK'
          BY <1>1, <1>2, <1>3, <1>4, GiveType DEF WalkTypeOK
    <1>6. ASSUME NEW e \in Stale PROVE e \in Stale'
          <2>1. e \notin batch
                BY <1>4 DEF Stale
          <2> QED BY <1>1, <1>2, <2>1, GiveStale
    <1>7. NothingPassedOver'
          BY <1>1, <1>6 DEF WalkInv, NothingPassedOver
    <1> QED BY <1>5, <1>7 DEF WalkInv

LEMMA ClaimStep ==
    ASSUME WalkInv, NEW w \in Workers, NEW n \in 1..BatchSize, Claim(w, n)
    PROVE  WalkInv'
    <1> DEFINE page == Page(w, n)
               rest == {e \in pel : e >= cursor[w]} \ Scanned(w, n)
    <1>1. WalkTypeOK /\ NothingPassedOver
          BY DEF WalkInv
    <1>2. /\ Give(page)
          /\ delivered' = delivered /\ pel' = pel
          BY DEF Claim
    <1>3. ASSUME NEW e \in Stale \ page PROVE e \in Stale'
          BY <1>1, <1>2, <1>3, GiveStale
    <1>4. Stale \subseteq Entry
          BY <1>1, PendingAreEntries DEF Stale
    <1>5. CASE page \cap Malformed = {}
          <2>1. /\ cursor' = [cursor EXCEPT ![w] = NextCursor(w, n)]
                /\ owed' = [v \in Workers |->
                              (IF v = w THEN Owed(w) ELSE owed[v]) \ page]
                BY <1>5 DEF Claim
          <2>2. /\ NextCursor(w, n) \in 0..NumEntries
                /\ rest # {} => NextCursor(w, n) # 0
                /\ \A e \in rest : NextCursor(w, n) <= e
                <3> HIDE DEF rest
                <3> QED BY <1>1, NextCursorIsLeast DEF rest
          <2>3. /\ Owed(w) \subseteq Stale
                /\ \A e \in Owed(w) : e >= cursor[w]
                BY <1>1, <1>4 DEF Owed, NothingPassedOver, Entry, WalkTypeOK
          <2>4. Owed(w) \ page \subseteq rest
                BY <2>3 DEF Page, Stale
          <2> HIDE DEF page, rest
          <2>5. WalkTypeOK'
                BY <1>1, <1>2, <1>4, <2>1, <2>2, <2>3, GiveType DEF WalkTypeOK
          <2>6. ASSUME NEW v \in Workers
                PROVE  /\ owed'[v] \subseteq Stale'
                       /\ cursor'[v] = 0 => owed'[v] = {}
                       /\ \A e \in owed'[v] : e >= cursor'[v]
                <3>1. CASE v = w
                      <4>1. owed'[v] = Owed(w) \ page /\ cursor'[v] = NextCursor(w, n)
                            BY <1>1, <2>1, <3>1 DEF WalkTypeOK
                      <4>2. \A e \in owed'[v] : e \in Entry /\ NextCursor(w, n) <= e
                            BY <1>4, <2>2, <2>3, <2>4, <4>1
                      <4> QED BY <1>3, <2>2, <2>3, <2>4, <4>1, <4>2 DEF Entry
                <3>2. CASE v # w
                      <4>1. owed'[v] = owed[v] \ page /\ cursor'[v] = cursor[v]
                            BY <1>1, <2>1, <3>2 DEF WalkTypeOK
                      <4> QED BY <1>1, <1>3, <4>1 DEF NothingPassedOver
                <3> QED BY <3>1, <3>2
          <2> QED BY <2>5, <2>6 DEF WalkInv, NothingPassedOver
    <1>6. CASE page \cap Malformed # {}
          <2>1. /\ cursor' = cursor
                /\ owed' = [v \in Workers |-> owed[v] \ page]
                BY <1>6 DEF Claim
          <2> HIDE DEF page
          <2>2. WalkTypeOK'
                BY <1>1, <1>2, <2>1, GiveType DEF WalkTypeOK
          <2>3. NothingPassedOver'
                BY <1>1, <1>3, <2>1 DEF NothingPassedOver
          <2> QED BY <2>2, <2>3 DEF WalkInv
    <1> QED BY <1>5, <1>6

LEMMA ClaimFailsStep ==
    ASSUME WalkInv, NEW w \in Workers, NEW n \in 1..BatchSize, ClaimFails(w, n)
    PROVE  WalkInv'
    <1>1. WalkTypeOK /\ NothingPassedOver
          BY DEF WalkInv
    <1>2. PICK page \in {Page(w, n), {}} :
             /\ Give(page)
             /\ owed' = [v \in Workers |-> owed[v] \ page]
          BY DEF ClaimFails
    <1>3. delivered' = delivered /\ pel' = pel /\ cursor' = cursor
          BY DEF ClaimFails
    <1>4. ASSUME NEW e \in Stale \ page PROVE e \in Stale'
          BY <1>1, <1>2, <1>3, GiveStale
    <1>5. WalkTypeOK'
          BY <1>1, <1>2, <1>3, GiveType DEF WalkTypeOK
    <1>6. NothingPassedOver'
          BY <1>1, <1>2, <1>3, <1>4 DEF NothingPassedOver
    <1> QED BY <1>5, <1>6 DEF WalkInv

LEMMA TaskEndsStep ==
    ASSUME WalkInv, NEW w \in Workers, NEW e \in Entry, TaskEnds(w, e)
    PROVE  WalkInv'
    <1>1. WalkTypeOK /\ NothingPassedOver
          BY DEF WalkInv
    <1>2. /\ delivered' = delivered /\ idle' = idle /\ cursor' = cursor
          /\ \/ /\ pel' = pel \ {e}
                /\ owed' = [v \in Workers |-> owed[v] \ {e}]
             \/ pel' = pel /\ owed' = owed
          BY DEF TaskEnds
    <1>3. WalkTypeOK'
          BY <1>1, <1>2 DEF WalkTypeOK
    <1>4. NothingPassedOver'
          BY <1>1, <1>2 DEF NothingPassedOver, Stale
    <1> QED BY <1>3, <1>4 DEF WalkInv

LEMMA RestartStep ==
    ASSUME WalkInv, NEW w \in Workers, Restart(w)
    PROVE  WalkInv'
    BY EntriesAssumption
    DEF WalkInv, WalkTypeOK, NothingPassedOver, Stale, Restart

LEMMA TickStep ==
    ASSUME WalkInv, Tick
    PROVE  WalkInv'
    <1>1. WalkTypeOK /\ NothingPassedOver
          BY DEF WalkInv
    <1>2. /\ delivered' = delivered /\ pel' = pel
          /\ cursor' = cursor /\ owed' = owed
          /\ idle' = [e \in Entry |-> IF e \in pel /\ idle[e] < MinIdle
                                      THEN idle[e] + 1 ELSE idle[e]]
          BY DEF Tick
    <1>3. WalkTypeOK'
          BY <1>1, <1>2, RecoverySettings DEF WalkTypeOK
    <1>4. ASSUME NEW e \in Stale PROVE e \in Stale'
          <2>1. e \in pel /\ idle[e] = MinIdle /\ e \in Entry
                BY <1>1, PendingAreEntries DEF Stale
          <2>2. idle'[e] = idle[e]
                BY <1>2, <2>1, RecoverySettings
          <2> QED BY <1>2, <2>1, <2>2 DEF Stale
    <1>5. NothingPassedOver'
          BY <1>1, <1>2, <1>4 DEF NothingPassedOver
    <1> QED BY <1>3, <1>5 DEF WalkInv

LEMMA WalkStep == WalkInv /\ [Next]_vars => WalkInv'
    <1> SUFFICES ASSUME WalkInv, [Next]_vars PROVE WalkInv'
        OBVIOUS
    <1>1. CASE \E w \in Workers : Round(w, Counts(w))
          BY <1>1, ConsumeStep, ClaimStep, ClaimFailsStep DEF Round, Counts
    <1>2. CASE \E w \in Workers, e \in Entry : TaskEnds(w, e)
          BY <1>2, TaskEndsStep
    <1>3. CASE \E w \in Workers : Restart(w)
          BY <1>3, RestartStep
    <1>4. CASE Tick
          BY <1>4, TickStep
    <1>5. CASE UNCHANGED vars
          BY <1>5 DEF vars, WalkInv, WalkTypeOK, NothingPassedOver, Stale
    <1> QED BY <1>1, <1>2, <1>3, <1>4, <1>5 DEF Next

(***************************************************************************)
(* No stale entry is passed over by the cursor of a worker, whatever       *)
(* claims, acknowledgements, malformed entries, lost replies and restarts  *)
(* come between two pages of its walk.                                     *)
(***************************************************************************)
THEOREM WalkCorrect == Spec => []NothingPassedOver
    <1>1. WalkInv => NothingPassedOver
          BY DEF WalkInv
    <1> QED BY <1>1, WalkInit, WalkStep, PTL DEF Spec

------------------------------------------------------------------------------
(* A worker's tasks. *)

\* The members of a bag with a set added are the old ones and one per element.
LEMMA CopiesAdded ==
    ASSUME NEW bag, IsABag(bag), IsFiniteSet(Copies(bag)),
           NEW batch, IsFiniteSet(batch),
           NEW more, more = bag (+) SetToBag(batch)
    PROVE  /\ IsABag(more)
           /\ DOMAIN more = DOMAIN bag \cup batch
           /\ IsFiniteSet(Copies(more))
           /\ Cardinality(Copies(more))
                <= Cardinality(Copies(bag)) + Cardinality(batch)
    <1>1. bag \in [DOMAIN bag -> {n \in Nat : n > 0}]
          BY DEF IsABag
    <1>2. more = [e \in DOMAIN bag \cup batch |->
                    (IF e \in DOMAIN bag THEN bag[e] ELSE 0)
                  + (IF e \in batch THEN 1 ELSE 0)]
          <2>1. /\ DOMAIN SetToBag(batch) = batch
                /\ \A e \in batch : SetToBag(batch)[e] = 1
                BY DEF SetToBag
          <2> QED BY <2>1 DEF (+)
    <1>3. /\ DOMAIN more = DOMAIN bag \cup batch
          /\ \A e \in DOMAIN more : more[e] \in Nat /\ more[e] > 0
          BY <1>1, <1>2
    <1>4. IsABag(more)
          <2>1. more \in [DOMAIN more -> {n \in Nat : n > 0}]
                BY <1>2, <1>3
          <2> QED BY <2>1, Zenon DEF IsABag
    <1> DEFINE new == [e \in batch |-> <<e, more[e]>>]
               added == {new[e] : e \in batch}
    <1>5. Copies(more) \subseteq Copies(bag) \cup added
          <2>1. SUFFICES ASSUME NEW e \in DOMAIN more, NEW k \in 1..more[e]
                         PROVE  <<e, k>> \in Copies(bag) \cup added
                BY DEF Copies
          <2>2. CASE e \in batch /\ k = more[e]
                BY <2>2
          <2>3. CASE ~(e \in batch /\ k = more[e])
                <3>1. e \in DOMAIN bag /\ k \in 1..bag[e]
                      BY <1>1, <1>2, <1>3, <2>3
                <3> QED BY <3>1 DEF Copies
          <2> QED BY <2>2, <2>3
    <1>6. IsFiniteSet(added) /\ Cardinality(added) <= Cardinality(batch)
          <2>1. new \in Surjection(batch, added)
                BY DEF Surjection
          <2> HIDE DEF new, added
          <2> QED BY <2>1, FS_Surjection
    <1> HIDE DEF added
    <1>7. /\ IsFiniteSet(Copies(bag) \cup added)
          /\ Cardinality(Copies(bag) \cup added)
               = Cardinality(Copies(bag)) + Cardinality(added)
                 - Cardinality(Copies(bag) \cap added)
          BY <1>6, FS_Union
    <1>8. /\ IsFiniteSet(Copies(more))
          /\ Cardinality(Copies(more)) <= Cardinality(Copies(bag) \cup added)
          BY <1>5, <1>7, FS_Subset
    <1>9. /\ Cardinality(Copies(bag)) \in Nat /\ Cardinality(added) \in Nat
          /\ Cardinality(Copies(bag) \cap added) \in Nat
          /\ Cardinality(Copies(more)) \in Nat /\ Cardinality(batch) \in Nat
          BY <1>6, <1>8, FS_Intersection, FS_CardinalityType
    <1> QED BY <1>3, <1>4, <1>6, <1>7, <1>8, <1>9

\* Taking a member off a bag leaves no new one.
LEMMA CopiesRemoved ==
    ASSUME NEW bag, IsABag(bag), IsFiniteSet(Copies(bag)), NEW e,
           NEW less, less = bag (-) SetToBag({e})
    PROVE  /\ IsABag(less)
           /\ DOMAIN less \subseteq DOMAIN bag
           /\ IsFiniteSet(Copies(less))
           /\ Cardinality(Copies(less)) <= Cardinality(Copies(bag))
    <1>1. bag \in [DOMAIN bag -> {n \in Nat : n > 0}]
          BY DEF IsABag
    <1> DEFINE b == [f \in DOMAIN bag |-> IF f \in {e} THEN bag[f] - 1 ELSE bag[f]]
    <1>2. less = [f \in {d \in DOMAIN b : b[d] > 0} |-> b[f]]
          <2>1. /\ DOMAIN SetToBag({e}) = {e}
                /\ \A f \in {e} : SetToBag({e})[f] = 1
                BY DEF SetToBag
          <2>2. b = [f \in DOMAIN bag |-> IF f \in DOMAIN SetToBag({e})
                                          THEN bag[f] - SetToBag({e})[f] ELSE bag[f]]
                BY <2>1
          <2> HIDE DEF b
          <2> QED BY <2>2, Zenon DEF (-)
    <1>3. \A d \in DOMAIN b : b[d] \in Int /\ b[d] <= bag[d] /\ d \in DOMAIN bag
          BY <1>1
    <1> HIDE DEF b
    <1>4. /\ DOMAIN less \subseteq DOMAIN bag
          /\ \A f \in DOMAIN less : less[f] \in Nat /\ less[f] > 0 /\ less[f] <= bag[f]
          BY <1>2, <1>3
    <1>5. IsABag(less)
          <2>1. less \in [DOMAIN less -> {n \in Nat : n > 0}]
                BY <1>2, <1>4
          <2> QED BY <2>1, Zenon DEF IsABag
    <1>6. Copies(less) \subseteq Copies(bag)
          BY <1>1, <1>4 DEF Copies
    <1> QED BY <1>4, <1>5, <1>6, FS_Subset

LEMMA CopiesOfNothing ==
    IsABag(EmptyBag) /\ DOMAIN EmptyBag = {} /\ Copies(EmptyBag) = {}
    <1>1. EmptyBag = [e \in {} |-> 1]
          BY DEF EmptyBag, SetToBag
    <1>2. DOMAIN EmptyBag = {} /\ EmptyBag \in [{} -> {n \in Nat : n > 0}]
          BY <1>1
    <1> QED BY <1>2 DEF IsABag, Copies

\* XAUTOCLAIM claims no more entries than it was asked for.
LEMMA PageIsBounded ==
    ASSUME WalkTypeOK, NEW w \in Workers, NEW n \in Nat
    PROVE  /\ Page(w, n) \subseteq pel
           /\ IsFiniteSet(Page(w, n))
           /\ Cardinality(Page(w, n)) <= n
    <1> DEFINE ahead == {e \in pel : e >= cursor[w]}
               stale == ahead \cap Stale
               page == Page(w, n)
    <1>1. pel \subseteq 1..NumEntries /\ NumEntries \in Nat
          BY PendingAreEntries, EntriesAssumption DEF Entry
    <1>2. page \subseteq stale /\ stale \subseteq 1..NumEntries /\ page \subseteq pel
          BY <1>1 DEF Page, Scanned
    <1>3. \A e \in page : Cardinality(Before(e, stale)) < n
          BY Zenon DEF Page, Scanned
    <1> HIDE DEF ahead, stale, page
    <1>4. IsFiniteSet(page) /\ IsFiniteSet(stale)
          <2>1. IsFiniteSet(1..NumEntries)
                BY <1>1, FS_Interval
          <2>2. page \in SUBSET (1..NumEntries) /\ stale \in SUBSET (1..NumEntries)
                BY <1>2
          <2> QED BY <2>1, <2>2, FS_Subset
    <1>5. CASE page = {}
          BY <1>2, <1>4, <1>5, FS_EmptySet DEF page
    <1>6. CASE page # {}
          <2>1. PICK m \in page : \A e \in page : e <= m
                <3> DEFINE mirror == {NumEntries - e : e \in page}
                <3>1. mirror \subseteq Nat /\ mirror # {}
                      <4>1. \A e \in page : NumEntries - e \in Nat
                            BY <1>1, <1>2
                      <4> QED BY <1>6, <4>1
                <3> HIDE DEF mirror
                <3>2. PICK d \in mirror : \A f \in mirror : d <= f
                      BY <3>1, LeastEntry
                <3>3. PICK m \in page : d = NumEntries - m
                      BY DEF mirror
                <3>4. ASSUME NEW e \in page PROVE e <= m
                      <4>1. NumEntries - e \in mirror
                            BY DEF mirror
                      <4>2. NumEntries - m <= NumEntries - e
                            BY <3>2, <3>3, <4>1
                      <4> QED BY <1>1, <1>2, <4>2
                <3> QED BY <3>4
          <2>2. page \subseteq Before(m, stale) \cup {m}
                BY <1>1, <1>2, <2>1 DEF Before
          <2>3. IsFiniteSet(Before(m, stale))
                <3>1. Before(m, stale) \subseteq stale
                      BY DEF Before
                <3> QED BY <1>4, <3>1, FS_Subset
          <2>4. /\ IsFiniteSet(Before(m, stale) \cup {m})
                /\ Cardinality(Before(m, stale) \cup {m})
                     <= Cardinality(Before(m, stale)) + 1
                <3>1. Cardinality(Before(m, stale)) \in Nat
                      BY <2>3, FS_CardinalityType
                <3> DEFINE b == Before(m, stale)
                <3> HIDE DEF b
                <3>2. /\ IsFiniteSet(b \cup {m})
                      /\ Cardinality(b \cup {m})
                           = IF m \in b THEN Cardinality(b) ELSE Cardinality(b) + 1
                      BY <2>3, FS_AddElement DEF b
                <3> QED BY <3>1, <3>2 DEF b
          <2>5. Cardinality(page) <= Cardinality(Before(m, stale) \cup {m})
                BY <2>2, <2>4, FS_Subset
          <2>6. /\ Cardinality(page) \in Nat /\ Cardinality(Before(m, stale)) \in Nat
                /\ Cardinality(Before(m, stale) \cup {m}) \in Nat
                BY <1>4, <2>3, <2>4, FS_CardinalityType
          <2>7. Cardinality(Before(m, stale)) < n
                BY <1>3
          <2>8. Cardinality(page) <= n
                BY <2>4, <2>5, <2>6, <2>7
          <2> QED BY <1>2, <1>4, <2>8 DEF page
    <1> QED BY <1>5, <1>6

\* What is left of TypeOK, with the finiteness that cardinalities need.
LoadInv ==
    /\ wait \in [Workers -> 0..Interval]
    /\ faults \in 0..MaxFaults
    /\ running = [w \in Workers |-> running[w]]
    /\ \A w \in Workers :
          /\ IsABag(running[w])
          /\ DOMAIN running[w] \subseteq (1..delivered) \ Malformed
          /\ IsFiniteSet(Copies(running[w]))
          /\ Cardinality(Copies(running[w])) <= MaxConcurrency

\* Starting tasks for what a round asked for leaves a worker within its slots.
LEMMA StartKeepsLoad ==
    ASSUME WalkTypeOK, LoadInv, NEW w \in Workers, NEW n \in Counts(w),
           NEW batch, IsFiniteSet(batch), Cardinality(batch) <= n,
           StartTasks(w, batch), batch \subseteq 1..delivered',
           delivered' \in Nat, delivered <= delivered',
           UNCHANGED faults, wait' \in [Workers -> 0..Interval]
    PROVE  LoadInv'
    <1>1. /\ n \in Nat /\ Cardinality(Copies(running[w])) \in Nat
          /\ Cardinality(batch) \in Nat /\ MaxConcurrency \in Nat
          /\ n + Cardinality(Copies(running[w])) <= MaxConcurrency
          BY FS_CardinalityType, RecoverySettings DEF LoadInv, Counts
    <1>2. \A v \in Workers : DOMAIN running[v] \subseteq (1..delivered') \ Malformed
          BY DEF LoadInv, WalkTypeOK
    <1>3. CASE batch \cap Malformed # {}
          <2>1. running' = running
                BY <1>3 DEF StartTasks
          <2> QED BY <1>2, <2>1 DEF LoadInv
    <1>4. CASE batch \cap Malformed = {}
          <2> DEFINE more == running[w] (+) SetToBag(batch)
          <2>1. running' = [running EXCEPT ![w] = more]
                BY <1>4 DEF StartTasks
          <2>2. /\ IsABag(more)
                /\ DOMAIN more = DOMAIN running[w] \cup batch
                /\ IsFiniteSet(Copies(more))
                /\ Cardinality(Copies(more))
                     <= Cardinality(Copies(running[w])) + Cardinality(batch)
                BY CopiesAdded DEF LoadInv
          <2> HIDE DEF more
          <2>3. Cardinality(Copies(more)) \in Nat
                BY <2>2, FS_CardinalityType
          <2>4. /\ Cardinality(Copies(more)) <= MaxConcurrency
                /\ DOMAIN more \subseteq (1..delivered') \ Malformed
                <3> DEFINE old == Cardinality(Copies(running[w]))
                           new == Cardinality(Copies(more))
                           added == Cardinality(batch)
                <3>1. /\ old \in Nat /\ new \in Nat /\ added \in Nat
                      /\ n \in Nat /\ MaxConcurrency \in Nat
                      /\ n + old <= MaxConcurrency
                      /\ added <= n
                      /\ new <= old + added
                      BY <1>1, <2>2, <2>3
                <3> HIDE DEF old, new, added
                <3>2. new <= MaxConcurrency
                      BY <3>1
                <3>3. DOMAIN more \subseteq (1..delivered') \ Malformed
                      BY <1>2, <1>4, <2>2
                <3> QED BY <3>2, <3>3 DEF new
          <2>5. /\ running' = [v \in Workers |-> running'[v]]
                /\ \A v \in Workers : running'[v] = IF v = w THEN more ELSE running[v]
                BY <2>1 DEF LoadInv
          <2>6. \A v \in Workers :
                   /\ IsABag(running'[v])
                   /\ DOMAIN running'[v] \subseteq (1..delivered') \ Malformed
                   /\ IsFiniteSet(Copies(running'[v]))
                   /\ Cardinality(Copies(running'[v])) <= MaxConcurrency
                BY <1>2, <2>2, <2>4, <2>5 DEF LoadInv
          <2> QED BY <2>5, <2>6 DEF LoadInv
    <1> QED BY <1>3, <1>4

LEMMA ConsumeLoad ==
    ASSUME WalkTypeOK, LoadInv, NEW w \in Workers, NEW n \in Counts(w), Consume(w, n)
    PROVE  LoadInv'
    <1> DEFINE last == IF delivered + n <= NumEntries THEN delivered + n
                       ELSE NumEntries
               batch == (delivered + 1)..last
    <1>1. /\ delivered < NumEntries
          /\ delivered' = last
          /\ wait' = wait
          /\ \/ StartTasks(w, batch) /\ UNCHANGED faults
             \/ Fault /\ UNCHANGED running
          BY DEF Consume
    <1>2. /\ last \in Nat /\ delivered \in Nat /\ n \in Nat
          /\ delivered < last /\ last <= delivered + n
          BY <1>1, EntriesAssumption, RecoverySettings DEF WalkTypeOK, Counts
    <1>3. batch \subseteq 1..last
          BY <1>2
    <1>4. IsFiniteSet(batch) /\ Cardinality(batch) <= n
          <2> HIDE DEF last
          <2>1. delivered + 1 \in Int /\ last \in Int
                BY <1>2
          <2>2. /\ IsFiniteSet((delivered + 1)..last)
                /\ Cardinality((delivered + 1)..last)
                     = IF delivered + 1 > last THEN 0 ELSE last - (delivered + 1) + 1
                BY <2>1, FS_Interval
          <2> QED BY <1>2, <2>2
    <1> HIDE DEF last, batch
    <1>5. CASE StartTasks(w, batch) /\ UNCHANGED faults
          BY <1>1, <1>2, <1>3, <1>4, <1>5, StartKeepsLoad DEF LoadInv
    <1>6. CASE Fault /\ UNCHANGED running
          <2>1. faults' \in 0..MaxFaults
                BY <1>6, RecoverySettings DEF Fault, LoadInv
          <2>2. \A v \in Workers : DOMAIN running[v] \subseteq (1..delivered') \ Malformed
                BY <1>1, <1>2 DEF LoadInv
          <2> QED BY <1>1, <1>6, <2>1, <2>2 DEF LoadInv
    <1> QED BY <1>1, <1>5, <1>6

LEMMA ClaimLoad ==
    ASSUME WalkTypeOK, LoadInv, NEW w \in Workers, NEW n \in Counts(w), Claim(w, n)
    PROVE  LoadInv'
    <1> DEFINE page == Page(w, n)
    <1>1. /\ StartTasks(w, page)
          /\ wait' = [wait EXCEPT ![w] = Interval]
          /\ delivered' = delivered /\ UNCHANGED faults
          BY DEF Claim
    <1>2. n \in Nat /\ delivered \in Nat
          BY RecoverySettings, EntriesAssumption DEF Counts, WalkTypeOK
    <1>3. /\ page \subseteq pel /\ IsFiniteSet(page)
          /\ Cardinality(page) <= n
          BY <1>2, PageIsBounded
    <1>4. page \subseteq 1..delivered
          BY <1>3 DEF WalkTypeOK
    <1>5. wait' \in [Workers -> 0..Interval]
          BY <1>1, RecoverySettings DEF LoadInv
    <1>6. /\ delivered' \in Nat /\ delivered <= delivered'
          /\ page \subseteq 1..delivered'
          BY <1>1, <1>2, <1>4
    <1> HIDE DEF page
    <1> QED BY <1>1, <1>3, <1>5, <1>6, StartKeepsLoad

LEMMA TaskEndsLoad ==
    ASSUME WalkTypeOK, LoadInv, NEW w \in Workers, NEW e \in Entry, TaskEnds(w, e)
    PROVE  LoadInv'
    <1> DEFINE less == running[w] (-) SetToBag({e})
    <1>1. /\ running' = [running EXCEPT ![w] = less]
          /\ delivered' = delivered /\ wait' = wait
          /\ UNCHANGED faults \/ Fault
          BY DEF TaskEnds
    <1>2. /\ IsABag(less) /\ DOMAIN less \subseteq DOMAIN running[w]
          /\ IsFiniteSet(Copies(less))
          /\ Cardinality(Copies(less)) <= Cardinality(Copies(running[w]))
          BY CopiesRemoved DEF LoadInv
    <1> HIDE DEF less
    <1>3. /\ Cardinality(Copies(less)) \in Nat
          /\ Cardinality(Copies(running[w])) \in Nat /\ MaxConcurrency \in Nat
          BY <1>2, FS_CardinalityType, RecoverySettings DEF LoadInv
    <1>4. Cardinality(Copies(less)) <= MaxConcurrency
          <2>1. Cardinality(Copies(running[w])) <= MaxConcurrency
                BY DEF LoadInv
          <2>2. \A a, b, c \in Nat : a <= b /\ b <= c => a <= c
                OBVIOUS
          <2> QED BY <1>2, <1>3, <2>1, <2>2
    <1>5. /\ running' = [v \in Workers |-> running'[v]]
          /\ \A v \in Workers : running'[v] = IF v = w THEN less ELSE running[v]
          BY <1>1 DEF LoadInv
    <1>6. faults' \in 0..MaxFaults
          BY <1>1, RecoverySettings DEF LoadInv, Fault
    <1>7. \A v \in Workers :
             /\ IsABag(running'[v])
             /\ DOMAIN running'[v] \subseteq (1..delivered') \ Malformed
             /\ IsFiniteSet(Copies(running'[v]))
             /\ Cardinality(Copies(running'[v])) <= MaxConcurrency
          BY <1>1, <1>2, <1>4, <1>5 DEF LoadInv
    <1> QED BY <1>1, <1>5, <1>6, <1>7 DEF LoadInv

LEMMA RestartLoad ==
    ASSUME WalkTypeOK, LoadInv, NEW w \in Workers, Restart(w)
    PROVE  LoadInv'
    <1>1. /\ running' = [running EXCEPT ![w] = EmptyBag]
          /\ wait' = [wait EXCEPT ![w] = 0]
          /\ delivered' = delivered /\ Fault
          BY DEF Restart
    <1>2. /\ running' = [v \in Workers |-> running'[v]]
          /\ \A v \in Workers : running'[v] = IF v = w THEN EmptyBag ELSE running[v]
          BY <1>1 DEF LoadInv
    <1>3. IsFiniteSet(Copies(EmptyBag)) /\ Cardinality(Copies(EmptyBag)) <= MaxConcurrency
          BY CopiesOfNothing, FS_EmptySet, RecoverySettings
    <1>4. faults' \in 0..MaxFaults
          BY <1>1, RecoverySettings DEF LoadInv, Fault
    <1>5. wait' \in [Workers -> 0..Interval]
          BY <1>1, RecoverySettings DEF LoadInv
    <1>6. \A v \in Workers :
             /\ IsABag(running'[v])
             /\ DOMAIN running'[v] \subseteq (1..delivered') \ Malformed
             /\ IsFiniteSet(Copies(running'[v]))
             /\ Cardinality(Copies(running'[v])) <= MaxConcurrency
          BY <1>1, <1>2, <1>3, CopiesOfNothing DEF LoadInv
    <1> QED BY <1>2, <1>4, <1>5, <1>6 DEF LoadInv

LEMMA LoadInit == Init => LoadInv
    <1> SUFFICES ASSUME Init PROVE LoadInv
        OBVIOUS
    <1>1. IsFiniteSet(Copies(EmptyBag)) /\ Cardinality(Copies(EmptyBag)) <= MaxConcurrency
          BY CopiesOfNothing, FS_EmptySet, RecoverySettings
    <1>2. /\ running = [w \in Workers |-> EmptyBag]
          /\ wait \in [Workers -> 0..Interval] /\ faults \in 0..MaxFaults
          BY RecoverySettings DEF Init
    <1> QED BY <1>1, <1>2, CopiesOfNothing DEF LoadInv

LEMMA LoadStep == WalkInv /\ LoadInv /\ [Next]_vars => LoadInv'
    <1> SUFFICES ASSUME WalkTypeOK, LoadInv, [Next]_vars PROVE LoadInv'
        BY DEF WalkInv
    <1>1. ASSUME NEW w \in Workers, NEW n \in Counts(w),
                 Consume(w, n) \/ Claim(w, n)
          PROVE  LoadInv'
          BY <1>1, ConsumeLoad, ClaimLoad
    <1>2. ASSUME NEW w \in Workers, NEW n, ClaimFails(w, n)
          PROVE  LoadInv'
          <2>1. /\ running' = running /\ delivered' = delivered
                /\ wait' = [wait EXCEPT ![w] = Interval] /\ Fault
                BY <1>2 DEF ClaimFails
          <2>2. wait' \in [Workers -> 0..Interval] /\ faults' \in 0..MaxFaults
                BY <2>1, RecoverySettings DEF LoadInv, Fault
          <2> QED BY <2>1, <2>2 DEF LoadInv
    <1>3. CASE \E w \in Workers, e \in Entry : TaskEnds(w, e)
          BY <1>3, TaskEndsLoad
    <1>4. CASE \E w \in Workers : Restart(w)
          BY <1>4, RestartLoad
    <1>5. CASE Tick
          <2>1. /\ running' = running /\ delivered' = delivered /\ faults' = faults
                /\ wait' = [w \in Workers |-> IF wait[w] > 0 THEN wait[w] - 1 ELSE 0]
                BY <1>5 DEF Tick
          <2>2. wait' \in [Workers -> 0..Interval]
                BY <2>1, RecoverySettings DEF LoadInv
          <2> QED BY <2>1, <2>2 DEF LoadInv
    <1>6. CASE UNCHANGED vars
          BY <1>6 DEF vars, LoadInv
    <1> QED BY <1>1, <1>2, <1>3, <1>4, <1>5, <1>6 DEF Next, Round

(***************************************************************************)
(* Every variable of the recovery walk has its type; in particular no      *)
(* worker has more tasks than slots, although a round fixes its count      *)
(* before the claim and tasks of one entry may run twice in a worker.      *)
(***************************************************************************)
THEOREM RecoveryTypeCorrect == Spec => []TypeOK
    <1>1. WalkInv /\ LoadInv => TypeOK
          <2> SUFFICES ASSUME WalkTypeOK, NothingPassedOver, LoadInv PROVE TypeOK
              BY DEF WalkInv
          <2>1. owed \in [Workers -> SUBSET pel]
                BY DEF WalkTypeOK, NothingPassedOver, Stale
          <2>2. \A w \in Workers : BagToSet(running[w]) = DOMAIN running[w]
                BY DEF BagToSet
          <2> QED BY <2>1, <2>2 DEF WalkTypeOK, LoadInv, TypeOK
    <1> QED BY <1>1, WalkInit, WalkStep, LoadInit, LoadStep, PTL DEF Spec
==============================================================================
