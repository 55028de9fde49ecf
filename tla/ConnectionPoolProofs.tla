------------------------- MODULE ConnectionPoolProofs -------------------------
(***************************************************************************)
(* Proofs about ConnectionPool for any number of requests, any size of the *)
(* pool and any number of missed caches: the gateway holds no more         *)
(* connections than the rules were missing times, and without as many      *)
(* missed caches, pages and threads as connections nobody has to wait.     *)
(***************************************************************************)
EXTENDS ConnectionPool, FiniteSetTheorems, TLAPS

\* The sets that are counted are finite.
LEMMA Finite ==
  ASSUME held \subseteq Sessions
  PROVE  /\ IsFiniteSet(held) /\ Cardinality(held) \in Nat
         /\ IsFiniteSet(held \cap Gateways)
         /\ Cardinality(held \cap Gateways) \in Nat
         /\ Cardinality(Pages) \in Nat /\ Cardinality(Threads) \in Nat
<1>1. IsFiniteSet(Gateways \cup Pages)
  BY ConstantsAssumption, FS_Union
<1>2. IsFiniteSet(Handlers)
  BY <1>1, ConstantsAssumption, FS_Union DEF Handlers
<1>3. IsFiniteSet(Sessions)
  BY <1>2, FS_AddElement DEF Sessions
<1>4. IsFiniteSet(held)
  BY <1>3, FS_Subset
<1>5. IsFiniteSet(held \cap Gateways)
  BY <1>4, FS_Subset
<1> QED
  BY <1>4, <1>5, ConstantsAssumption, FS_CardinalityType

\* How many two or three groups can be together.
LEMMA Pair ==
  ASSUME NEW A, NEW B, IsFiniteSet(A), IsFiniteSet(B)
  PROVE  /\ IsFiniteSet(A \cup B)
         /\ Cardinality(A \cup B) \in Nat
         /\ Cardinality(A \cup B) <= Cardinality(A) + Cardinality(B)
<1>1. IsFiniteSet(A \cap B)
  BY FS_Subset
<1>2. /\ Cardinality(A) \in Nat /\ Cardinality(B) \in Nat
      /\ Cardinality(A \cap B) \in Nat
  BY <1>1, FS_CardinalityType
<1>3. /\ IsFiniteSet(A \cup B)
      /\ Cardinality(A \cup B) = Cardinality(A) + Cardinality(B) - Cardinality(A \cap B)
  BY FS_Union
<1>4. Cardinality(A \cup B) \in Nat
  BY <1>3, FS_CardinalityType
<1> QED
  BY <1>2, <1>3, <1>4

LEMMA Together ==
  ASSUME NEW A, NEW B, NEW C, IsFiniteSet(A), IsFiniteSet(B), IsFiniteSet(C)
  PROVE  /\ IsFiniteSet(A \cup B \cup C)
         /\ Cardinality(A \cup B \cup C)
              <= Cardinality(A) + Cardinality(B) + Cardinality(C)
<1> DEFINE D == A \cup B
<1>1. /\ IsFiniteSet(D) /\ Cardinality(D) \in Nat
      /\ Cardinality(D) <= Cardinality(A) + Cardinality(B)
  BY Pair
<1> HIDE DEF D
<1>2. /\ IsFiniteSet(D \cup C) /\ Cardinality(D \cup C) \in Nat
      /\ Cardinality(D \cup C) <= Cardinality(D) + Cardinality(C)
  BY <1>1, Pair
<1>3. /\ Cardinality(A) \in Nat /\ Cardinality(B) \in Nat /\ Cardinality(C) \in Nat
  BY FS_CardinalityType
<1>4. Cardinality(D \cup C) <= Cardinality(A) + Cardinality(B) + Cardinality(C)
  BY <1>1, <1>2, <1>3
<1> QED
  BY <1>2, <1>4 DEF D

\* Who can hold a connection while somebody waits for one.
LEMMA Crowd ==
  ASSUME TypeOK, LossesCover,
         Writer \notin held \/ \E t \in Threads : t \notin held
  PROVE  Cardinality(held) <= losses + Cardinality(Pages) + Cardinality(Threads)
<1> DEFINE A == held \cap Gateways
<1>0. /\ held \subseteq Gateways \cup Pages \cup Threads \cup {Writer}
      /\ losses \in Nat
      /\ Cardinality(A) <= losses
  BY Finite, ConstantsAssumption DEF TypeOK, LossesCover, Missing, Sessions, Handlers
<1>1. /\ IsFiniteSet(A) /\ IsFiniteSet(Pages) /\ IsFiniteSet(Threads)
      /\ Cardinality(held) \in Nat /\ Cardinality(A) \in Nat
      /\ Cardinality(Pages) \in Nat /\ Cardinality(Threads) \in Nat
  BY Finite, ConstantsAssumption DEF TypeOK
<1>2. CASE Writer \notin held
  <2>1. held \subseteq A \cup Pages \cup Threads
    BY <1>0, <1>2
  <2>2. Cardinality(held) <= Cardinality(A \cup Pages \cup Threads)
    BY <1>1, <2>1, Together, FS_Subset
  <2>3. Cardinality(A \cup Pages \cup Threads) \in Nat
    BY <1>1, Together, FS_CardinalityType
  <2> HIDE DEF A
  <2> QED
    BY <1>0, <1>1, <2>2, <2>3, Together
<1>3. ASSUME NEW t \in Threads, t \notin held
      PROVE  Cardinality(held) <= losses + Cardinality(Pages) + Cardinality(Threads)
  <2> DEFINE B == (Threads \ {t}) \cup {Writer}
  <2>1. held \subseteq A \cup Pages \cup B
    BY <1>0, <1>3
  <2>2. IsFiniteSet(Threads \ {t}) /\ Cardinality(Threads \ {t}) = Cardinality(Threads) - 1
    BY <1>1, FS_RemoveElement
  <2>a. Cardinality(Threads \ {t}) \in Nat
    BY <2>2, FS_CardinalityType
  <2>b. /\ IsFiniteSet(B)
        /\ Cardinality(B) = IF Writer \in Threads \ {t} THEN Cardinality(Threads \ {t})
                            ELSE Cardinality(Threads \ {t}) + 1
    BY <2>2, FS_AddElement
  <2>3. IsFiniteSet(B) /\ Cardinality(B) <= Cardinality(Threads)
    BY <1>1, <2>2, <2>a, <2>b
  <2>4. /\ Cardinality(held) <= Cardinality(A \cup Pages \cup B)
        /\ Cardinality(A \cup Pages \cup B) \in Nat
    BY <1>1, <2>1, <2>3, Together, FS_Subset, FS_CardinalityType
  <2>5. Cardinality(B) \in Nat
    BY <2>3, FS_CardinalityType
  <2>6. Cardinality(A \cup Pages \cup B)
          <= Cardinality(A) + Cardinality(Pages) + Cardinality(B)
    BY <1>1, <2>3, Together
  <2> HIDE DEF A, B
  <2> QED
    BY <1>0, <1>1, <2>3, <2>4, <2>5, <2>6
<1> QED
  BY <1>2, <1>3

-----------------------------------------------------------------------------
\* The inductive invariant.

\* A step keeps every variable in its type, and no more connections are held
\* than there are.
LEMMA TypeStep == TypeOK /\ [Next]_vars => TypeOK'
<1> SUFFICES ASSUME TypeOK, [Next]_vars PROVE TypeOK'
  OBVIOUS
<1>0. held \subseteq Sessions /\ Cardinality(held) <= Size
  BY DEF TypeOK
<1>d. IsFiniteSet(held) /\ Cardinality(held) \in Nat /\ Size \in Nat
  BY <1>0, Finite, ConstantsAssumption
<1>a. ASSUME NEW s \in Sessions, Available
      PROVE  held \cup {s} \subseteq Sessions /\ Cardinality(held \cup {s}) <= Size
  <2>1. Cardinality(held \cup {s})
          = IF s \in held THEN Cardinality(held) ELSE Cardinality(held) + 1
    BY <1>d, FS_AddElement
  <2> QED
    BY <1>0, <1>d, <1>a, <2>1 DEF Available
<1>b. ASSUME NEW s
      PROVE  held \ {s} \subseteq Sessions /\ Cardinality(held \ {s}) <= Size
  <2>1. Cardinality(held \ {s})
          = IF s \in held THEN Cardinality(held) - 1 ELSE Cardinality(held)
    BY <1>d, FS_RemoveElement
  <2> QED
    BY <1>0, <1>d, <2>1
<1> USE ConstantsAssumption DEF TypeOK, Goto, Places
<1>c. /\ Writer \in Sessions /\ Handlers \subseteq Sessions
      /\ Gateways \subseteq Handlers /\ Pages \subseteq Handlers /\ Threads \subseteq Handlers
  BY DEF Sessions, Handlers
<1>1. CASE Lose
  <2>1. losses' \in 0..MaxLosses /\ UNCHANGED <<pc, held, writes, writing>>
    BY <1>1 DEF Lose
  <2>2. cached' \in BOOLEAN
    BY <1>1, Zenon DEF Lose
  <2> QED
    BY <2>1, <2>2
<1>2. CASE WriteCheckout
  BY <1>2, <1>a, <1>c DEF WriteCheckout
<1>3. CASE WriteTimeout
  BY <1>3 DEF WriteTimeout
<1>4. CASE WriteEnd
  BY <1>4, <1>b DEF WriteEnd, AfterWrite
<1>5. ASSUME NEW g \in Gateways, Arrive(g) PROVE TypeOK'
  BY <1>5, <1>c DEF Arrive, Proceed, Finish
<1>6. ASSUME NEW g \in Gateways, WriteStart(g) PROVE TypeOK'
  BY <1>6 DEF WriteStart
<1>7. ASSUME NEW h \in Handlers, Visit(h) PROVE TypeOK'
  BY <1>7 DEF Visit
<1>8. ASSUME NEW h \in Handlers, Dispatch(h) PROVE TypeOK'
  BY <1>8 DEF Dispatch
<1>9. ASSUME NEW g \in Gateways, UpstreamAnswers(g) PROVE TypeOK'
  BY <1>9, <1>c DEF UpstreamAnswers, Finish
<1>10. ASSUME NEW g \in Gateways, Load(g) PROVE TypeOK'
  <2>1. held' \subseteq Sessions /\ Cardinality(held') <= Size
    BY <1>10, <1>a, <1>c DEF Load
  <2>2. pc' \in [Handlers -> Places] /\ writes \subseteq writes' /\ writes' \subseteq Gateways
    BY <1>10, <1>c DEF Load, Proceed, Finish
  <2>3. losses' \in 0..MaxLosses /\ UNCHANGED writing
    BY <1>10 DEF Load
  <2>4. cached' \in BOOLEAN
    BY <1>10, Zenon DEF Load, Filled
  <2> QED
    BY <2>1, <2>2, <2>3, <2>4
<1>11. ASSUME NEW d \in Pages, Render(d) PROVE TypeOK'
  BY <1>11, <1>a, <1>c DEF Render
<1>12. ASSUME NEW t \in Threads, Checkout(t) PROVE TypeOK'
  BY <1>12, <1>a, <1>c DEF Checkout
<1>13. ASSUME NEW t \in Threads, Work(t) PROVE TypeOK'
  BY <1>13, <1>b, <1>c DEF Work
<1>14. ASSUME NEW h \in Handlers, Timeout(h) PROVE TypeOK'
  BY <1>14 DEF Timeout
<1>15. ASSUME NEW h \in Handlers, Close(h) PROVE TypeOK'
  <2>1. losses' \in 0..MaxLosses
    BY <1>15 DEF Close, Missing
  <2> QED
    BY <1>15, <1>b, <2>1 DEF Close
<1>16. CASE UNCHANGED vars
  BY <1>16 DEF vars
<1> QED
  BY <1>1, <1>2, <1>3, <1>4, <1>5, <1>6, <1>7, <1>8, <1>9, <1>10, <1>11,
     <1>12, <1>13, <1>14, <1>15, <1>16, <1>c DEF Next, Write, Turn, Runs

LEMMA InitTyped == Init => TypeOK
<1>1. Cardinality({}) <= Size
  BY ConstantsAssumption, FS_EmptySet
<1>2. Missing \in 0..MaxLosses
  BY ConstantsAssumption DEF Missing
<1> QED
  BY <1>1, <1>2 DEF Init, TypeOK, Places

\* Every reachable state is well typed, and the pool never gives out more
\* connections than it has.
THEOREM TypeCorrect == Spec => []TypeOK
<1>1. Init => TypeOK
  BY InitTyped
<1> QED
  BY <1>1, TypeStep, PTL DEF Spec

\* Only one waits on the loop: it starts to wait when the loop is free.
LEMMA OneWaitsStep ==
  ASSUME TypeOK, OneWaits, [Next]_vars
  PROVE  OneWaits'
<1> USE DEF TypeOK, OneWaits
<1>0. /\ Gateways \subseteq OnTheLoop /\ Pages \subseteq OnTheLoop
      /\ OnTheLoop \subseteq Handlers /\ Threads \subseteq Handlers
      /\ OnTheLoop \cap Threads = {}
  BY ConstantsAssumption DEF OnTheLoop, Handlers
\* Nobody starts to wait, and nobody starts to write.
<1>1. ASSUME \A h \in OnTheLoop : pc'[h] = "checkout" => pc[h] = "checkout",
             \A h \in OnTheLoop : pc'[h] \notin {"work", "refresh"},
             writing' \in {writing, NoOne}
      PROVE  OneWaits'
  BY <1>1
\* One starts to wait when the loop is free.
<1>2. ASSUME NEW h \in Handlers, LoopFree, UNCHANGED writing,
             \A k \in Handlers \ {h} : pc'[k] = pc[k],
             pc'[h] \notin {"work", "refresh"}
      PROVE  OneWaits'
  BY <1>0, <1>2 DEF LoopFree
<1>3. CASE Lose \/ Write
  BY <1>1, <1>3 DEF Lose, Write, WriteCheckout, WriteTimeout, WriteEnd
<1>4. ASSUME NEW g \in Gateways, Arrive(g) PROVE OneWaits'
  BY <1>0, <1>2, <1>4 DEF Arrive, Proceed, Finish, Goto
<1>5. ASSUME NEW g \in Gateways, WriteStart(g) PROVE OneWaits'
  BY <1>0, <1>5 DEF WriteStart, LoopFree
<1>6. ASSUME NEW h \in Pages \cup Threads, Visit(h) PROVE OneWaits'
  BY <1>0, <1>2, <1>6 DEF Visit, Goto
<1>7. ASSUME NEW h \in Handlers, Turn(h) PROVE OneWaits'
  BY <1>0, <1>1, <1>7 DEF Turn, Dispatch, UpstreamAnswers, Finish, Goto
<1>8. ASSUME NEW g \in Gateways, Load(g) PROVE OneWaits'
  BY <1>0, <1>1, <1>8 DEF Load, Proceed, Finish, Goto
<1>9. ASSUME NEW d \in Pages, Render(d) PROVE OneWaits'
  BY <1>0, <1>1, <1>9 DEF Render, Goto
<1>10. ASSUME NEW t \in Threads, Checkout(t) \/ Work(t) PROVE OneWaits'
  <2>1. \A h \in OnTheLoop : pc'[h] = pc[h]
    BY <1>0, <1>10 DEF Checkout, Work, Goto
  <2> QED
    BY <1>1, <1>10, <2>1 DEF Checkout, Work
<1>11. ASSUME NEW h \in Handlers, Timeout(h) \/ Close(h) PROVE OneWaits'
  BY <1>0, <1>1, <1>11 DEF Timeout, Close, Goto
<1>12. CASE UNCHANGED vars
  BY <1>1, <1>12 DEF vars
<1> QED
  BY <1>3, <1>4, <1>5, <1>6, <1>7, <1>8, <1>9, <1>10, <1>11, <1>12
     DEF Next, Runs

\* A connection is taken by going on, and given back before the next request.
LEMMA EmptyHandedStep ==
  ASSUME TypeOK, OneWaits, EmptyHanded, [Next]_vars
  PROVE  EmptyHanded'
<1> USE DEF TypeOK, EmptyHanded
<1>0. /\ Gateways \subseteq Handlers /\ Pages \subseteq Handlers
      /\ Threads \subseteq Handlers /\ Writer \notin Handlers /\ NoOne \notin Gateways
  BY ConstantsAssumption DEF OnTheLoop, Handlers
<1> DEFINE Waiting == {"idle", "checkout", "refresh"}
\* The step of a handler that ends up with nothing, or goes on with something.
<1>1. ASSUME NEW h \in Handlers, UNCHANGED writing,
             \A k \in Handlers \ {h} : pc'[k] = pc[k],
             held' \in {held, held \cup {h}, held \ {h}},
             pc'[h] \in Waiting => h \notin held'
      PROVE  EmptyHanded'
  BY <1>0, <1>1
<1>2. CASE Lose
  BY <1>2 DEF Lose
<1>3. CASE Write
  BY <1>0, <1>3 DEF Write, WriteCheckout, WriteTimeout, WriteEnd, AfterWrite
<1>4. ASSUME NEW g \in Gateways, Arrive(g) PROVE EmptyHanded'
  BY <1>0, <1>1, <1>4 DEF Arrive, Proceed, Finish, Goto
<1>5. ASSUME NEW g \in Gateways, WriteStart(g) PROVE EmptyHanded'
  BY <1>0, <1>5 DEF WriteStart
<1>6. ASSUME NEW h \in Pages \cup Threads, Visit(h) PROVE EmptyHanded'
  BY <1>0, <1>1, <1>6 DEF Visit, Goto
<1>7. ASSUME NEW h \in Handlers, Turn(h) PROVE EmptyHanded'
  BY <1>1, <1>7 DEF Turn, Dispatch, UpstreamAnswers, Finish, Goto
<1>8. ASSUME NEW g \in Gateways, Load(g) PROVE EmptyHanded'
  BY <1>0, <1>1, <1>8 DEF Load, Proceed, Finish, Goto
<1>9. ASSUME NEW d \in Pages, Render(d) PROVE EmptyHanded'
  BY <1>0, <1>1, <1>9 DEF Render, Goto
<1>10. ASSUME NEW t \in Threads, Checkout(t) \/ Work(t) PROVE EmptyHanded'
  BY <1>0, <1>1, <1>10 DEF Checkout, Work, Goto
<1>11. ASSUME NEW h \in Handlers, Timeout(h) \/ Close(h) PROVE EmptyHanded'
  BY <1>1, <1>11 DEF Timeout, Close, Goto
<1>12. CASE UNCHANGED vars
  BY <1>12 DEF vars
<1> QED
  BY <1>2, <1>3, <1>4, <1>5, <1>6, <1>7, <1>8, <1>9, <1>10, <1>11, <1>12
     DEF Next, Runs

\* A request waits only if it found the rules missing, and only a request that
\* waited puts them back.
LEMMA StillMissingStep ==
  ASSUME TypeOK, OneWaits, StillMissing, [Next]_vars
  PROVE  StillMissing'
<1> USE DEF TypeOK, StillMissing
<1>0. /\ Gateways \subseteq OnTheLoop /\ Gateways \subseteq Handlers
      /\ Gateways \cap (Pages \cup Threads) = {}
  BY ConstantsAssumption DEF OnTheLoop, Handlers
<1>1. ASSUME \A g \in Gateways : pc'[g] = "checkout" => pc[g] = "checkout",
             cached' => cached
      PROVE  StillMissing'
  BY <1>1
<1>2. CASE Lose
  BY <1>1, <1>2 DEF Lose
<1>3. CASE Write
  BY <1>1, <1>3 DEF Write, WriteCheckout, WriteTimeout, WriteEnd
<1>4. ASSUME NEW g \in Gateways, Arrive(g) PROVE StillMissing'
  BY <1>0, <1>4 DEF Arrive, Proceed, Finish, Goto
<1>5. ASSUME NEW g \in Gateways, WriteStart(g) PROVE StillMissing'
  BY <1>1, <1>5 DEF WriteStart
<1>6. ASSUME NEW h \in Pages \cup Threads, Visit(h) PROVE StillMissing'
  BY <1>0, <1>1, <1>6 DEF Visit, Goto
<1>7. ASSUME NEW h \in Handlers, Turn(h) PROVE StillMissing'
  BY <1>0, <1>1, <1>7 DEF Turn, Dispatch, UpstreamAnswers, Finish, Goto
<1>8. ASSUME NEW g \in Gateways, Load(g) PROVE StillMissing'
  <2>1. pc[g] = "checkout" /\ pc'[g] # "checkout" /\ \A k \in Gateways \ {g} : pc'[k] = pc[k]
    BY <1>0, <1>8 DEF Load, Proceed, Finish, Goto
  <2>2. \A k \in Gateways : pc'[k] # "checkout"
    BY <1>0, <2>1 DEF OneWaits
  <2> QED
    BY <2>2
<1>9. ASSUME NEW d \in Pages, Render(d) PROVE StillMissing'
  BY <1>0, <1>1, <1>9 DEF Render, Goto
<1>10. ASSUME NEW t \in Threads, Checkout(t) \/ Work(t) PROVE StillMissing'
  <2>1. \A g \in Gateways : pc'[g] = pc[g]
    BY <1>0, <1>10 DEF Checkout, Work, Goto
  <2> QED
    BY <1>1, <1>10, <2>1 DEF Checkout, Work
<1>11. ASSUME NEW h \in Handlers, Timeout(h) \/ Close(h) PROVE StillMissing'
  BY <1>0, <1>1, <1>11 DEF Timeout, Close, Goto
<1>12. CASE UNCHANGED vars
  BY <1>12 DEF vars
<1> QED
  BY <1>2, <1>3, <1>4, <1>5, <1>6, <1>7, <1>8, <1>9, <1>10, <1>11, <1>12
     DEF Next, Runs

\* A request that loads the rules makes the loss good that it found, or adds one.
LEMMA LossesCoverStep ==
  ASSUME TypeOK, EmptyHanded, StillMissing, LossesCover, [Next]_vars
  PROVE  LossesCover'
<1> USE DEF LossesCover, Missing
<1> DEFINE A == held \cap Gateways
<1>0. /\ Gateways \subseteq Handlers /\ Writer \notin Gateways
      /\ Gateways \cap (Pages \cup Threads) = {}
  BY ConstantsAssumption DEF OnTheLoop, Handlers
<1>a. /\ IsFiniteSet(A) /\ Cardinality(A) \in Nat
      /\ losses \in Nat /\ cached \in BOOLEAN
  BY Finite, ConstantsAssumption DEF TypeOK
\* Nothing is loaded and nothing is lost; connections may go back.
<1>1. ASSUME UNCHANGED <<cached, losses>>, held' \cap Gateways \subseteq A
      PROVE  LossesCover'
  <2>1. /\ Cardinality(held' \cap Gateways) <= Cardinality(A)
        /\ Cardinality(held' \cap Gateways) \in Nat
    BY <1>1, <1>a, FS_Subset, FS_CardinalityType
  <2>2. CASE cached
    BY <1>1, <1>a, <2>1, <2>2
  <2>3. CASE ~cached
    BY <1>1, <1>a, <2>1, <2>3
  <2> QED
    BY <2>2, <2>3
<1>2. CASE Lose
  <2>1. cached /\ ~cached' /\ losses' = losses + 1 /\ held' = held
    BY <1>2 DEF Lose
  <2> QED
    BY <1>a, <2>1
<1>3. CASE Write
  BY <1>0, <1>1, <1>3 DEF Write, WriteCheckout, WriteTimeout, WriteEnd, AfterWrite
<1>4. ASSUME NEW g \in Gateways, Arrive(g) \/ WriteStart(g) PROVE LossesCover'
  BY <1>1, <1>4 DEF Arrive, WriteStart
<1>5. ASSUME NEW h \in Pages \cup Threads, Visit(h) PROVE LossesCover'
  BY <1>1, <1>5 DEF Visit
<1>6. ASSUME NEW h \in Handlers, Turn(h) PROVE LossesCover'
  BY <1>1, <1>6 DEF Turn, Dispatch, UpstreamAnswers
<1>7. ASSUME NEW g \in Gateways, Load(g) PROVE LossesCover'
  <2>1. ~cached /\ g \notin A
    BY <1>0, <1>7 DEF Load, StillMissing, EmptyHanded
  <2>2. held' \cap Gateways = A \cup {g}
    BY <1>7 DEF Load
  <2>3. Cardinality(held' \cap Gateways) = Cardinality(A) + 1
    BY <1>a, <2>1, <2>2, FS_AddElement
  <2>4. (cached' /\ losses' = losses) \/ (~cached' /\ losses' = losses + 1)
    BY <1>7, <2>1 DEF Load, Filled
  <2> HIDE DEF A
  <2>5. Cardinality(A) + 1 <= losses
    BY <2>1 DEF A
  <2> QED
    BY <1>a, <2>3, <2>4, <2>5
<1>8. ASSUME NEW d \in Pages, Render(d) PROVE LossesCover'
  BY <1>0, <1>1, <1>8 DEF Render
<1>9. ASSUME NEW t \in Threads, Checkout(t) \/ Work(t) PROVE LossesCover'
  BY <1>0, <1>1, <1>9 DEF Checkout, Work
<1>10. ASSUME NEW h \in Handlers, Timeout(h) PROVE LossesCover'
  BY <1>1, <1>10 DEF Timeout
<1>11. ASSUME NEW h \in Handlers, Close(h) PROVE LossesCover'
  <2>1. CASE held' \cap Gateways = {}
    <3>1. Cardinality(held' \cap Gateways) = 0
      BY <2>1, FS_EmptySet
    <3>2. losses' = Missing'
      BY <1>11, <2>1 DEF Close
    <3> QED
      BY <3>1, <3>2
  <2>2. CASE held' \cap Gateways # {}
    BY <1>1, <1>11, <2>2 DEF Close
  <2> QED
    BY <2>1, <2>2
<1>12. CASE UNCHANGED vars
  BY <1>1, <1>12 DEF vars
<1> QED
  BY <1>2, <1>3, <1>4, <1>5, <1>6, <1>7, <1>8, <1>9, <1>10, <1>11, <1>12
     DEF Next, Runs

\* Whatever times out, fails or misses the cache: who waits for a connection has
\* none and waits alone on the loop, and every connection that a gateway request
\* holds is paid for by a time the rules were missing.
THEOREM InductiveInvariant == Spec => []IInv
<1>1. Init => IInv
  <2> SUFFICES ASSUME Init PROVE IInv
    OBVIOUS
  <2>1. TypeOK
    BY InitTyped
  <2>2. held \cap Gateways = {} /\ Cardinality(held \cap Gateways) = 0
    BY FS_EmptySet DEF Init
  <2>3. LossesCover
    BY <2>2 DEF Init, LossesCover, Missing
  <2>4. OneWaits /\ EmptyHanded /\ StillMissing
    BY DEF Init, OneWaits, EmptyHanded, StillMissing, OnTheLoop, Handlers
  <2> QED
    BY <2>1, <2>3, <2>4 DEF IInv
<1>2. IInv /\ [Next]_vars => IInv'
  BY TypeStep, OneWaitsStep, EmptyHandedStep, StillMissingStep, LossesCoverStep
     DEF IInv
<1> QED
  BY <1>1, <1>2, PTL DEF Spec

\* The gateway's requests never hold more connections than there were times at
\* which the rules were missing from Redis, however long the upstreams take.
THEOREM MissesBounded == Spec => []MissesNeedLosses
<1>1. IInv => MissesNeedLosses
  <2> SUFFICES ASSUME IInv PROVE MissesNeedLosses
    OBVIOUS
  <2>1. Cardinality(held \cap Gateways) \in Nat /\ losses \in Nat
    BY Finite, ConstantsAssumption DEF IInv, TypeOK
  <2>2. CASE cached
    BY <2>1, <2>2 DEF IInv, LossesCover, Missing, MissesNeedLosses
  <2>3. CASE ~cached
    BY <2>1, <2>3 DEF IInv, LossesCover, Missing, MissesNeedLosses
  <2> QED
    BY <2>2, <2>3
<1> QED
  BY <1>1, InductiveInvariant, PTL

\* Nobody is turned away by the pool and no log write is lost to it as long as
\* missed caches, pages and threads together are fewer than the connections: who
\* waits holds none, and the log writer does not hold one while the loop waits.
THEOREM TimeoutsExplained == Spec => []TimeoutsNeedCrowd
<1>1. IInv => TimeoutsNeedCrowd
  <2> SUFFICES ASSUME IInv, SomebodyWaits, ~Available
               PROVE  losses + Cardinality(Pages) + Cardinality(Threads) >= Size
    BY DEF TimeoutsNeedCrowd
  <2>0. /\ losses \in Nat /\ Size \in Nat /\ Cardinality(held) \in Nat
        /\ Cardinality(Pages) \in Nat /\ Cardinality(Threads) \in Nat
    BY Finite, ConstantsAssumption DEF IInv, TypeOK
  <2>1. Writer \notin held \/ \E t \in Threads : t \notin held
    <3>1. CASE writing # NoOne /\ Writer \notin held
      BY <3>1
    <3>2. ASSUME NEW h \in Handlers, Waits(h)
          PROVE  Writer \notin held \/ \E t \in Threads : t \notin held
      <4>1. h \notin held
        BY <3>2 DEF Waits, IInv, EmptyHanded
      <4>2. CASE h \in Threads
        BY <4>1, <4>2
      <4>3. CASE h \in OnTheLoop
        BY <3>2, <4>3 DEF Waits, IInv, OneWaits, EmptyHanded
      <4> QED
        BY <4>2, <4>3 DEF Handlers, OnTheLoop
    <3> QED
      BY <3>1, <3>2 DEF SomebodyWaits
  <2> QED
    BY <2>0, <2>1, Crowd DEF IInv, Available
<1> QED
  BY <1>1, InductiveInvariant, PTL

\* No path leaks a connection.
THEOREM NothingLeaks == Spec => []NoLeak
<1>1. IInv => NoLeak
  BY ConstantsAssumption DEF IInv, TypeOK, EmptyHanded, NoLeak, Sessions
<1> QED
  BY <1>1, InductiveInvariant, PTL
=============================================================================
