--------------------------- MODULE LlmSlotsProofs ---------------------------
(* Theorems about LlmSlots, for every finite set of clients, every limit and *)
(* every number of failures.                                                 *)
EXTENDS LlmSlots, FiniteSetTheorems, TLAPS

\* The clients that have counted the slots and not yet added theirs.
Adders == {c \in Client : pc[c] = "add"}

\* The invariant behind OvershootIsBounded: a slot that is about to be added
\* counts already.  When a client finds room there are fewer slots than the
\* limit, and at most Cardinality(Client) clients, itself included, about to add.
Promised ==
  Cardinality(slots) + leaked + Cardinality(Adders) < MaxConcurrency + Cardinality(Client)

Inv == TypeOK /\ SlotsAreUsed /\ (Client # {} => Promised)

\* What taking an element out of a finite set, or putting one in, does to its size.
LEMMA WithoutOne ==
  ASSUME NEW S, NEW x, IsFiniteSet(S)
  PROVE  /\ Cardinality(S \ {x}) \in Nat
         /\ Cardinality(S \ {x}) <= Cardinality(S)
         /\ x \in S => Cardinality(S \ {x}) = Cardinality(S) - 1
<1>1. Cardinality(S) \in Nat
  BY FS_CardinalityType
<1>2. IsFiniteSet(S \ {x})
  BY FS_RemoveElement
<1>3. Cardinality(S \ {x}) \in Nat
  BY <1>2, FS_CardinalityType
<1>4. Cardinality(S \ {x}) = IF x \in S THEN Cardinality(S) - 1 ELSE Cardinality(S)
  BY FS_RemoveElement
<1>. QED
  BY <1>1, <1>3, <1>4

LEMMA WithOne ==
  ASSUME NEW S, NEW x, IsFiniteSet(S)
  PROVE  Cardinality(S \cup {x}) <= Cardinality(S) + 1
<1>1. Cardinality(S) \in Nat
  BY FS_CardinalityType
<1>2. Cardinality(S \cup {x}) = IF x \in S THEN Cardinality(S) ELSE Cardinality(S) + 1
  BY FS_AddElement
<1>. QED
  BY <1>1, <1>2

\* The sets that are counted are finite.
LEMMA Counts ==
  ASSUME TypeOK
  PROVE  /\ IsFiniteSet(slots) /\ IsFiniteSet(Adders)
         /\ Cardinality(slots) \in Nat /\ Cardinality(Adders) \in Nat
         /\ Cardinality(Client) \in Nat
         /\ Cardinality(Adders) <= Cardinality(Client)
<1>1. IsFiniteSet(Client)
  BY BoundAssumption
<1>2. slots \in SUBSET Client /\ Adders \in SUBSET Client
  BY DEF TypeOK, Adders
<1>3. IsFiniteSet(slots)
  BY <1>1, <1>2, FS_Subset
<1>4. IsFiniteSet(Adders) /\ Cardinality(Adders) <= Cardinality(Client)
  BY <1>1, <1>2, FS_Subset
<1>. QED
  BY <1>1, <1>3, <1>4, FS_CardinalityType

LEMMA InitInv == Init => Inv
<1> SUFFICES ASSUME Init
             PROVE  Inv
  OBVIOUS
<1>1. TypeOK
  BY BoundAssumption DEF Init, TypeOK, Pc
<1>2. SlotsAreUsed
  BY DEF Init, SlotsAreUsed
<1>3. ASSUME Client # {}
      PROVE  Promised
  <2>1. slots = {} /\ Adders = {} /\ leaked = 0
    BY DEF Init, Adders
  <2>2. Cardinality(slots) = 0 /\ Cardinality(Adders) = 0
    BY <2>1, FS_EmptySet
  <2>3. Cardinality(Client) \in Nat
    BY <1>1, Counts
  <2>. QED
    BY <2>1, <2>2, <2>3, MaxConcurrencyAssumption DEF Promised
<1>. QED
  BY <1>1, <1>2, <1>3 DEF Inv

\* Types.
LEMMA NextType ==
  ASSUME TypeOK, [Next]_vars
  PROVE  TypeOK'
<1>. USE DEF TypeOK, Pc
<1>1. CASE Expire
  BY <1>1 DEF Expire
<1>2. ASSUME NEW c \in Client, Begin(c)
      PROVE  TypeOK'
  BY <1>2 DEF Begin, Goto
<1>3. ASSUME NEW c \in Client, Step(c)
      PROVE  TypeOK'
  BY <1>3 DEF Step, Ping, Poll, GiveUp, Add, Return, Rules, Released, Goto
<1>4. ASSUME NEW c \in Client, Failure(c)
      PROVE  TypeOK'
  <2>1. CASE PingFails(c)
    BY <2>1, BoundAssumption DEF PingFails, Goto, Fault
  <2>2. CASE SlotRaises(c)
    BY <2>2, BoundAssumption DEF SlotRaises, NextAttempt, Fault
  <2>3. CASE CallRaises(c)
    BY <2>3, BoundAssumption DEF CallRaises, NextAttempt, Released, Fault
  <2>4. CASE ReleaseFails(c)
    BY <2>4, BoundAssumption DEF ReleaseFails, Released, Goto, Fault
  <2>5. CASE Lost(c)
    BY <2>5, BoundAssumption DEF Lost, Released, Fault
  <2>. QED
    BY <1>4, <2>1, <2>2, <2>3, <2>4, <2>5 DEF Failure
<1>5. CASE UNCHANGED vars
  BY <1>5 DEF vars
<1>. QED
  BY <1>1, <1>2, <1>3, <1>4, <1>5 DEF Next

\* A client that leaves its call gives up its slot in the same step.
LEMMA NextUsed ==
  ASSUME TypeOK, SlotsAreUsed, [Next]_vars
  PROVE  SlotsAreUsed'
<1>. USE DEF TypeOK, SlotsAreUsed
<1>1. CASE Expire
  BY <1>1 DEF Expire
<1>2. ASSUME NEW c \in Client, Begin(c)
      PROVE  SlotsAreUsed'
  BY <1>2 DEF Begin, Goto
<1>3. ASSUME NEW c \in Client, Step(c)
      PROVE  SlotsAreUsed'
  BY <1>3 DEF Step, Ping, Poll, GiveUp, Add, Return, Rules, Released, Goto
<1>4. ASSUME NEW c \in Client, Failure(c)
      PROVE  SlotsAreUsed'
  BY <1>4 DEF Failure, PingFails, SlotRaises, CallRaises, ReleaseFails, Lost,
              NextAttempt, Released, Goto
<1>5. CASE UNCHANGED vars
  BY <1>5 DEF vars
<1>. QED
  BY <1>1, <1>2, <1>3, <1>4, <1>5 DEF Next

\* One step of one client adds at most that client to Adders, and leaves the
\* others there.
LEMMA AddersAfter ==
  ASSUME TypeOK, NEW c \in Client, NEW to \in Pc, pc' = [pc EXCEPT ![c] = to]
  PROVE  Adders' = IF to = "add" THEN Adders \cup {c} ELSE Adders \ {c}
BY DEF TypeOK, Adders

LEMMA NextPromised ==
  ASSUME Inv, [Next]_vars, Client # {}
  PROVE  Promised'
<1>1. TypeOK /\ TypeOK' /\ SlotsAreUsed /\ Promised
  BY NextType DEF Inv
<1>2. /\ IsFiniteSet(slots) /\ IsFiniteSet(Adders)
      /\ Cardinality(slots) \in Nat /\ Cardinality(Adders) \in Nat
      /\ Cardinality(Client) \in Nat /\ leaked \in Nat
  BY <1>1, Counts DEF TypeOK
<1>3. /\ Cardinality(slots') \in Nat /\ Cardinality(Adders') \in Nat /\ leaked' \in Nat
      /\ Cardinality(Adders') <= Cardinality(Client)
  <2>1. slots' \in SUBSET Client /\ Adders' \in SUBSET Client /\ leaked' \in Nat
    BY <1>1 DEF TypeOK, Adders
  <2>2. IsFiniteSet(slots') /\ IsFiniteSet(Adders')
        /\ Cardinality(Adders') <= Cardinality(Client)
    BY <2>1, BoundAssumption, FS_Subset
  <2>. QED
    BY <2>1, <2>2, FS_CardinalityType
<1>. DEFINE Total == Cardinality(slots) + leaked + Cardinality(Adders)
\* A step that promises no more than before.
<1>4. ASSUME Cardinality(slots') + leaked' + Cardinality(Adders') <= Total
      PROVE  Promised'
  BY <1>1, <1>2, <1>3, <1>4, MaxConcurrencyAssumption DEF Promised
<1>5. ASSUME NEW c \in Client
      PROVE  /\ Cardinality(slots \ {c}) \in Nat
             /\ Cardinality(slots \ {c}) <= Cardinality(slots)
             /\ Cardinality(Adders \ {c}) \in Nat
             /\ Cardinality(Adders \ {c}) <= Cardinality(Adders)
             /\ c \in slots => Cardinality(slots \ {c}) = Cardinality(slots) - 1
             /\ c \in Adders => Cardinality(Adders \ {c}) = Cardinality(Adders) - 1
             /\ Cardinality(slots \cup {c}) <= Cardinality(slots) + 1
  BY <1>2, WithoutOne, WithOne
<1>6. CASE Expire
  <2>1. slots' = slots /\ Adders' = Adders /\ leaked' = leaked - 1
    BY <1>6 DEF Expire, Adders
  <2>2. Cardinality(slots') + leaked' + Cardinality(Adders') <= Total
    BY <2>1, <1>2, <1>3
  <2>. QED
    BY <2>2, <1>4
<1>7. ASSUME NEW c \in Client, NEW to \in Pc \ {"add"}, pc' = [pc EXCEPT ![c] = to],
             slots' = slots \/ slots' = slots \ {c}, leaked' = leaked
      PROVE  Promised'
  <2>1. Adders' = Adders \ {c}
    BY <1>1, <1>7, AddersAfter
  <2>2. Cardinality(Adders') <= Cardinality(Adders)
    BY <2>1, <1>5
  <2>3. Cardinality(slots') <= Cardinality(slots)
    <3>1. CASE slots' = slots
      BY <3>1, <1>2
    <3>2. CASE slots' = slots \ {c}
      BY <3>2, <1>5
    <3>. QED
      BY <3>1, <3>2, <1>7
  <2>4. Cardinality(slots') + leaked' + Cardinality(Adders') <= Total
    BY <2>2, <2>3, <1>2, <1>3, <1>7
  <2>. QED
    BY <2>4, <1>4
\* A token leaks in the step in which its holder loses the slot or the promise.
<1>8. ASSUME NEW c \in Client, NEW to \in Pc \ {"add"}, pc' = [pc EXCEPT ![c] = to],
             c \in slots \/ c \in Adders,
             slots' = slots \ {c}, leaked' = leaked + 1
      PROVE  Promised'
  <2>1. Adders' = Adders \ {c}
    BY <1>1, <1>8, AddersAfter
  <2>2. /\ Cardinality(slots') <= Cardinality(slots)
        /\ Cardinality(Adders') <= Cardinality(Adders)
    BY <2>1, <1>5, <1>8
  <2>3. \/ Cardinality(slots') = Cardinality(slots) - 1
        \/ Cardinality(Adders') = Cardinality(Adders) - 1
    BY <2>1, <1>5, <1>8
  <2>4. Cardinality(slots') + leaked' + Cardinality(Adders') <= Total
    BY <2>2, <2>3, <1>2, <1>3, <1>8
  <2>. QED
    BY <2>4, <1>4
<1>9. ASSUME NEW c \in Client, Begin(c)
      PROVE  Promised'
  BY <1>9, <1>7 DEF Begin, Goto, Pc
<1>10. ASSUME NEW c \in Client, Step(c)
       PROVE  Promised'
  <2>1. CASE Ping(c)
    BY <2>1, <1>7 DEF Ping, Goto, Pc
  <2>2. CASE Poll(c)
    <3>1. Cardinality(slots) + leaked < MaxConcurrency
      BY <2>2 DEF Poll, Room
    <3>2. slots' = slots /\ leaked' = leaked
      BY <2>2 DEF Poll
    <3>. QED
      BY <3>1, <3>2, <1>2, <1>3, MaxConcurrencyAssumption DEF Promised
  <2>3. CASE GiveUp(c)
    BY <2>3, <1>7 DEF GiveUp, Goto, Pc
  <2>4. CASE Add(c)
    <3>1. pc' = [pc EXCEPT ![c] = "call"] /\ slots' = slots \cup {c} /\ leaked' = leaked
      BY <2>4 DEF Add, Goto
    <3>2. c \in Adders
      BY <2>4 DEF Add, Goto, Adders
    <3>3. Adders' = Adders \ {c}
      BY <3>1, <1>1, AddersAfter DEF Pc
    <3>4. /\ Cardinality(slots') <= Cardinality(slots) + 1
          /\ Cardinality(Adders') = Cardinality(Adders) - 1
      BY <3>1, <3>2, <3>3, <1>5
    <3>5. Cardinality(slots') + leaked' + Cardinality(Adders') <= Total
      BY <3>1, <3>4, <1>2, <1>3
    <3>. QED
      BY <3>5, <1>4
  <2>5. CASE Return(c)
    BY <2>5, <1>7 DEF Return, Released, Goto, Pc
  <2>6. CASE Rules(c)
    BY <2>6, <1>7 DEF Rules, Goto, Pc
  <2>. QED
    BY <1>10, <2>1, <2>2, <2>3, <2>4, <2>5, <2>6 DEF Step
<1>11. ASSUME NEW c \in Client, Failure(c)
       PROVE  Promised'
  <2>. DEFINE Next2 == IF attempt[c] = 0 THEN "ping" ELSE "rules"
  <2>0. Next2 \in Pc \ {"add"}
    BY DEF Pc
  <2>1. CASE PingFails(c)
    BY <2>1, <1>7 DEF PingFails, Goto, Pc
  <2>2. CASE SlotRaises(c)
    <3>1. pc' = [pc EXCEPT ![c] = Next2] /\ slots' = slots
      BY <2>2 DEF SlotRaises, NextAttempt
    <3>2. CASE leaked' = leaked
      BY <3>1, <3>2, <2>0, <1>7
    <3>3. CASE leaked' # leaked
      <4>1. pc[c] = "add" /\ leaked' = leaked + 1
        BY <2>2, <3>3 DEF SlotRaises
      <4>2. c \in Adders /\ c \notin slots
        BY <4>1, <1>1 DEF Adders, SlotsAreUsed
      <4>3. slots' = slots \ {c}
        BY <3>1, <4>2
      <4>. QED
        BY <3>1, <4>1, <4>2, <4>3, <2>0, <1>8
    <3>. QED
      BY <3>2, <3>3
  <2>3. CASE CallRaises(c)
    <3>1. pc' = [pc EXCEPT ![c] = Next2] /\ slots' = slots \ {c}
      BY <2>3 DEF CallRaises, NextAttempt, Released
    <3>2. CASE leaked' = leaked
      BY <3>1, <3>2, <2>0, <1>7
    <3>3. CASE leaked' # leaked
      <4>1. c \in slots /\ leaked' = leaked + 1
        BY <2>3, <3>3 DEF CallRaises
      <4>. QED
        BY <3>1, <4>1, <2>0, <1>8
    <3>. QED
      BY <3>2, <3>3
  <2>4. CASE ReleaseFails(c)
    BY <2>4, <1>8 DEF ReleaseFails, Released, Goto, Pc
  <2>5. CASE Lost(c)
    BY <2>5, <1>7, <1>8 DEF Lost, Released, Pc
  <2>. QED
    BY <1>11, <2>1, <2>2, <2>3, <2>4, <2>5 DEF Failure
<1>12. CASE UNCHANGED vars
  <2>1. slots' = slots /\ Adders' = Adders /\ leaked' = leaked
    BY <1>12 DEF vars, Adders
  <2>2. Cardinality(slots') + leaked' + Cardinality(Adders') <= Total
    BY <2>1, <1>2
  <2>. QED
    BY <2>2, <1>4
<1>. QED
  BY <1>6, <1>9, <1>10, <1>11, <1>12 DEF Next

LEMMA Invariance == Spec => []Inv
<1>1. Inv /\ [Next]_vars => Inv'
  BY NextType, NextUsed, NextPromised DEF Inv
<1>. QED
  BY InitInv, <1>1, PTL DEF Spec

\* A client is always in one of the steps of a call or of waiting for it, and no
\* path decrements below nothing.
THEOREM SlotTypes == Spec => []TypeOK
<1>1. Inv => TypeOK
  BY DEF Inv
<1>. QED
  BY Invariance, <1>1, PTL

\* However many calls, connections and processes are lost: the slots in Redis,
\* leaked ones included, exceed llm_max_concurrency by fewer than the clients.
THEOREM OvershootBounded == Spec => []OvershootIsBounded
<1>1. Inv => OvershootIsBounded
  <2> SUFFICES ASSUME Inv, Client # {}
               PROVE  Cardinality(slots) + leaked < MaxConcurrency + Cardinality(Client)
    BY DEF OvershootIsBounded
  <2>1. /\ Cardinality(slots) \in Nat /\ Cardinality(Adders) \in Nat
        /\ Cardinality(Client) \in Nat /\ leaked \in Nat
    BY Counts DEF Inv, TypeOK
  <2>. QED
    BY <2>1, MaxConcurrencyAssumption DEF Inv, Promised
<1>. QED
  BY Invariance, <1>1, PTL

\* No path out of a model call keeps its slot.
THEOREM SlotsUsed == Spec => []SlotsAreUsed
<1>1. Inv => SlotsAreUsed
  BY DEF Inv
<1>. QED
  BY Invariance, <1>1, PTL
=============================================================================
