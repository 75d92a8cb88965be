---------------------------- MODULE IntakeProofs ----------------------------
(* Theorems about Intake and the rate limit it uses, for every set of        *)
(* requests and of files, every limit and window, and every number of        *)
(* restarts and of failures.                                                 *)
EXTENDS Intake, FiniteSetTheorems, TLAPS

-----------------------------------------------------------------------------
(* The rate limit: its invariant *)

AskSteps == {"new", "stamped", "admitted", "refused", "lost"}
Via == {<<"redis", n>> : n \in 0..life.redis} \cup {<<"memory", n>> : n \in 0..life.api}
Asked == {q \in Request : ask[q].step # "new"}
Rivals(r) == {q \in Request \ {r} : ask[q].step # "new" /\ ask[q].at + Window > ask[r].at}

RateType ==
  /\ clock \in 0..MaxTime /\ written \in 0..clock
  /\ ask \in [Request -> [step : AskSteps, at : 0..clock, sent : BOOLEAN]]
  /\ log \in SUBSET (0..clock)
  /\ memory \in SUBSET [req : Request, at : 0..clock]
  /\ life \in [redis : Nat, api : Nat] /\ life.redis + life.api <= MaxRestarts
  /\ admitted \in SUBSET [req : Request, at : 0..clock, done : 0..clock, via : Via]
  /\ IsFiniteSet(Asked) /\ IsFiniteSet(memory)

\* What is counted was read by a request, and an admission is the only one of its
\* request.
Accounted ==
  /\ \A r \in Request : ask[r].sent => ask[r].step # "new"
  /\ \A t \in log : \E q \in Asked : ask[q].at = t
  /\ \A e \in memory : ask[e.req].step = "admitted" /\ ask[e.req].at = e.at
  /\ \A a \in admitted : ask[a.req].step = "admitted" /\ ask[a.req].at = a.at
  /\ \A a, b \in admitted : a.req = b.req => a = b

\* A window still holds every request that it has admitted and that came less than
\* a window ago: one that prunes has read the clock before it prunes, and a key
\* that expires was written after its last member was read.
StillLogged ==
  \A a \in admitted : clock < a.at + Window =>
    /\ a.via = <<"redis", life.redis>> => a.at \in log /\ a.at <= written
    /\ a.via = <<"memory", life.api>> => [req |-> a.req, at |-> a.at] \in memory

Inside(via, t) == {a \in admitted : a.via = via /\ t <= a.at /\ a.done < t + Window}
Entries(via, t) == IF via[1] = "redis" THEN {a.at : a \in Inside(via, t)} ELSE Inside(via, t)
WithinLimit == \A via \in Via, t \in 0..MaxTime :
                 IsFiniteSet(Entries(via, t)) /\ Cardinality(Entries(via, t)) <= Limit

RateInv == RateType /\ Accounted /\ StillLogged /\ WithinLimit /\ RefusedOnlyWhenBusy

LEMMA RateNumbers ==
  ASSUME RateInv
  PROVE  /\ clock \in Nat /\ written \in Nat /\ clock <= MaxTime /\ written <= clock
         /\ Limit \in Nat /\ Window \in Nat /\ Window > 0 /\ MaxTime \in Nat /\ MaxRestarts \in Nat
         /\ \A r \in Request : ask[r].at \in Nat /\ ask[r].at <= clock /\ ask[r].step \in AskSteps
         /\ \A a \in admitted : /\ a.req \in Request /\ a.via \in Via
                                /\ a.at \in Nat /\ a.at <= clock /\ a.done \in Nat /\ a.done <= clock
         /\ life.redis \in Nat /\ life.api \in Nat
<1>1. clock \in 0..MaxTime /\ MaxTime \in Nat
  BY WindowAssumption DEF RateInv, RateType
<1>. QED
  BY <1>1, WindowAssumption DEF RateInv, RateType

\* The ways to be admitted are told apart by their names.
LEMMA ViaNames ==
  /\ \A m, n : <<"redis", m>> # <<"memory", n>>
  /\ \A n : <<"redis", n>>[1] = "redis" /\ <<"memory", n>>[1] = "memory"
OBVIOUS

\* A request that is not new keeps its reading, and is not new again.
AskedStay ==
  /\ \A q \in Request : /\ ask'[q].step \in AskSteps
                        /\ ask[q].step # "new" => ask'[q].step # "new" /\ ask'[q].at = ask[q].at
                        /\ ask[q].step = "refused" => ask'[q].step = "refused"
                        /\ ask[q].step = "admitted" => ask'[q].step = "admitted"

\* As requests are added, none of those refused loses its rivals.
LEMMA BusyStays ==
  ASSUME RateInv, AskedStay, IsFiniteSet(Asked'),
         \A q \in Request : ask'[q].step = "refused" /\ ask[q].step # "refused" =>
                              Cardinality(Rivals(q)') >= Limit
  PROVE  RefusedOnlyWhenBusy'
<1> SUFFICES ASSUME NEW r \in Request, ask'[r].step = "refused"
             PROVE  Cardinality(Rivals(r)') >= Limit
  BY DEF RefusedOnlyWhenBusy, Rivals
<1>1. CASE ask[r].step # "refused"
  BY <1>1
<1>2. CASE ask[r].step = "refused"
  <2>1. Cardinality(Rivals(r)) >= Limit
    BY <1>2 DEF RateInv, RefusedOnlyWhenBusy, Rivals
  <2>2. Rivals(r)' \in SUBSET Asked'
    BY DEF Rivals, Asked
  <2>3. ask'[r].at = ask[r].at
    BY <1>2 DEF AskedStay
  <2>4. Rivals(r) \in SUBSET Rivals(r)'
    BY <2>3 DEF Rivals, AskedStay
  <2>5. IsFiniteSet(Rivals(r)') /\ IsFiniteSet(Rivals(r))
    BY <2>2, <2>4, FS_Subset
  <2>6. Cardinality(Rivals(r)) <= Cardinality(Rivals(r)')
    BY <2>4, <2>5, FS_Subset
  <2>7. Cardinality(Rivals(r)) \in Nat /\ Cardinality(Rivals(r)') \in Nat
    BY <2>5, FS_CardinalityType
  <2>. QED
    BY <2>1, <2>6, <2>7, RateNumbers
<1>. QED
  BY <1>1, <1>2

\* Of distinct readings, or memory entries, as many requests must have come.
LEMMA RivalsOfStamps ==
  ASSUME RateInv, NEW r \in Request, NEW S \in SUBSET Nat,
         \A t \in S : t + Window > ask[r].at /\ \E q \in Asked \ {r} : ask[q].at = t
  PROVE  IsFiniteSet(S) /\ Cardinality(S) <= Cardinality(Rivals(r))
<1> DEFINE of == [t \in S |-> CHOOSE q \in Asked \ {r} : ask[q].at = t]
<1>1. \A t \in S : of[t] \in Rivals(r) /\ ask[of[t]].at = t
  BY DEF Rivals, Asked
<1>2. of \in Injection(S, Rivals(r))
  <2>1. of \in [S -> Rivals(r)]
    BY <1>1
  <2>2. \A s, t \in S : of[s] = of[t] => s = t
    BY <1>1
  <2>. HIDE DEF of
  <2>. QED
    BY <2>1, <2>2 DEF Injection, IsInjective
<1>3. IsFiniteSet(Rivals(r))
  <2>1. Rivals(r) \in SUBSET Asked
    BY DEF Rivals, Asked
  <2>. QED
    BY <2>1, FS_Subset DEF RateInv, RateType
<1>. QED
  BY <1>2, <1>3, FS_Injection

LEMMA RivalsOfEntries ==
  ASSUME RateInv, NEW r \in Request, NEW S \in SUBSET memory,
         \A e \in S : e.at + Window > ask[r].at /\ e.req # r
  PROVE  IsFiniteSet(S) /\ Cardinality(S) <= Cardinality(Rivals(r))
<1> DEFINE of == [e \in S |-> e.req]
<1>1. \A e \in S : of[e] \in Rivals(r)
  BY DEF Rivals, Asked, RateInv, RateType, Accounted
<1>2. of \in Injection(S, Rivals(r))
  <2>1. of \in [S -> Rivals(r)]
    BY <1>1
  <2>2. ASSUME NEW d \in S, NEW e \in S, of[d] = of[e]
        PROVE  d = e
    <3>1. d.req = e.req /\ d.at = ask[d.req].at /\ e.at = ask[e.req].at
      BY <2>2 DEF RateInv, Accounted
    <3>2. d \in [req : Request, at : 0..clock] /\ e \in [req : Request, at : 0..clock]
      BY DEF RateInv, RateType
    <3>. QED
      BY <3>1, <3>2
  <2>. HIDE DEF of
  <2>. QED
    BY <2>1, <2>2 DEF Injection, IsInjective
<1>3. IsFiniteSet(Rivals(r))
  <2>1. Rivals(r) \in SUBSET Asked
    BY DEF Rivals, Asked
  <2>. QED
    BY <2>1, FS_Subset DEF RateInv, RateType
<1>. QED
  BY <1>2, <1>3, FS_Injection

-----------------------------------------------------------------------------
(* The rate limit: its steps *)

LEMMA Writes ==
  ASSUME RateInv, NEW r \in Request, Write(r)
  PROVE  /\ log' \in SUBSET (0..clock) /\ ask[r].at \in log'
         /\ \A t \in log' : \E q \in Asked : ask[q].at = t
         /\ \A a \in admitted : clock < a.at + Window /\ a.via = <<"redis", life.redis>> =>
              a.at \in log' /\ a.at <= written'
         /\ written' = clock /\ UNCHANGED <<clock, memory, life>>
<1> USE DEF RateInv
<1>1. log' = Kept(r) \cup {ask[r].at} /\ written' = clock /\ UNCHANGED <<clock, memory, life>>
  BY DEF Write, Logged
<1>2. r \in Asked /\ ask[r].at \in 0..clock
  BY RateNumbers DEF Write, Asked, Accounted
<1>3. Kept(r) \in SUBSET log
  BY DEF Kept
<1>4. log \in SUBSET (0..clock)
  BY DEF RateType
<1>5. \A t \in log' : \E q \in Asked : ask[q].at = t
  BY <1>1, <1>2, <1>3 DEF Accounted
<1>6. ASSUME NEW a \in admitted, clock < a.at + Window, a.via = <<"redis", life.redis>>
      PROVE  a.at \in Kept(r)
  <2>1. a.at \in log /\ a.at <= written
    BY <1>6 DEF StillLogged
  <2>2. clock < written + Window /\ ask[r].at < a.at + Window
    BY <1>6, <2>1, RateNumbers
  <2>. QED
    BY <2>1, <2>2, RateNumbers DEF Kept
<1>7. \A a \in admitted : a.at <= clock
  BY RateNumbers
<1>. QED
  BY <1>1, <1>2, <1>3, <1>4, <1>5, <1>6, <1>7

\* Where the new admission is outside of a window, or another admits, nothing
\* is added to it.
LEMMA OtherWindows ==
  ASSUME RateInv, NEW r \in Request, NEW via, Admit(r, via), NEW v, NEW t \in Nat,
         ~(v = via /\ t <= ask[r].at /\ clock < t + Window)
  PROVE  Entries(v, t)' = Entries(v, t)
<1>1. Inside(v, t)' = Inside(v, t)
  BY DEF Admit, Inside
<1>. QED
  BY <1>1 DEF Entries

LEMMA RedisAdmitsStep ==
  ASSUME RateInv, NEW r \in Request, RedisAdmits(r)
  PROVE  RateInv'
<1> DEFINE via == <<"redis", life.redis>>
           new == [req |-> r, at |-> ask[r].at, done |-> clock, via |-> via]
<1>1. /\ log' = Logged(r) /\ Cardinality(log') <= Limit
      /\ ask[r].step = "stamped" /\ admitted' = admitted \cup {new} /\ Admit(r, via)
      /\ ask' = [ask EXCEPT ![r].step = "admitted", ![r].sent = FALSE]
      /\ Write(r)
  BY DEF RedisAdmits, Write, Counted, Admit, Answer
<1>2. /\ log' \in SUBSET (0..clock) /\ ask[r].at \in log'
      /\ \A t \in log' : \E q \in Asked : ask[q].at = t
      /\ \A a \in admitted : clock < a.at + Window /\ a.via = via => a.at \in log' /\ a.at <= written'
      /\ written' = clock /\ UNCHANGED <<clock, memory, life>>
  BY <1>1, Writes
<1>3. ask' \in [Request -> [step : AskSteps, at : 0..clock, sent : BOOLEAN]]
  BY <1>1 DEF RateInv, RateType, AskSteps
<1>4. /\ ask'[r].step = "admitted" /\ ask'[r].at = ask[r].at /\ ~ask'[r].sent
      /\ \A q \in Request \ {r} : ask'[q] = ask[q]
  BY <1>1 DEF RateInv, RateType
<1>5. Asked' = Asked
  BY <1>1, <1>4 DEF Asked
<1>6. via \in Via /\ Via' = Via /\ new \in [req : Request, at : 0..clock, done : 0..clock, via : Via]
  BY <1>2, RateNumbers DEF Via, RateInv, RateType
<1>7. RateType'
  BY <1>1, <1>2, <1>3, <1>5, <1>6 DEF RateInv, RateType
<1>8. Accounted'
  <2>1. \A a \in admitted : a.req # r
    BY <1>1 DEF RateInv, Accounted
  <2>2. \A q \in Asked : ask'[q].at = ask[q].at
    BY <1>4 DEF Asked
  <2>3. new.req = r /\ new.at = ask[r].at /\ admitted' = admitted \cup {new}
    BY <1>1
  <2>. HIDE DEF new
  <2>4. ASSUME NEW a \in admitted', NEW b \in admitted', a.req = b.req
        PROVE  a = b
    <3>1. CASE a \in admitted /\ b \in admitted
      BY <2>4, <3>1 DEF RateInv, Accounted
    <3>2. CASE a = new
      BY <2>1, <2>3, <2>4, <3>2
    <3>3. CASE b = new
      BY <2>1, <2>3, <2>4, <3>3
    <3>. QED
      BY <2>3, <3>1, <3>2, <3>3
  <2>5. ASSUME NEW a \in admitted'
        PROVE  ask'[a.req].step = "admitted" /\ ask'[a.req].at = a.at
    <3>1. CASE a = new
      BY <1>4, <2>3, <3>1
    <3>2. CASE a \in admitted
      <4>1. a.req \in Request \ {r}
        BY <2>1, <3>2, RateNumbers
      <4>. QED
        BY <1>4, <3>2, <4>1 DEF RateInv, Accounted
    <3>. QED
      BY <2>3, <3>1, <3>2
  <2>6. \A e \in memory : ask'[e.req].step = "admitted" /\ ask'[e.req].at = e.at
    BY <1>4 DEF RateInv, RateType, Accounted
  <2>7. \A q \in Request : ask'[q].sent => ask'[q].step # "new"
    BY <1>4 DEF RateInv, Accounted
  <2>. QED
    BY <1>2, <1>5, <2>2, <2>4, <2>5, <2>6, <2>7 DEF Accounted
<1>9. StillLogged'
  <2>1. new.at = ask[r].at /\ new.at <= written' /\ new.via = via /\ via # <<"memory", life.api>>
    BY <1>2, RateNumbers, ViaNames
  <2>. HIDE DEF via, new
  <2>. QED
    BY <1>1, <1>2, <2>1 DEF RateInv, StillLogged, via
<1>10. WithinLimit'
  <2> SUFFICES ASSUME NEW v \in Via, NEW t \in 0..MaxTime
               PROVE  IsFiniteSet(Entries(v, t)') /\ Cardinality(Entries(v, t)') <= Limit
    BY <1>6 DEF WithinLimit
  <2>1. CASE ~(v = via /\ t <= ask[r].at /\ clock < t + Window)
    <3>1. Entries(v, t)' = Entries(v, t)
      BY <1>1, <2>1, OtherWindows, RateNumbers
    <3>. QED
      BY <3>1 DEF RateInv, WithinLimit
  <2>2. CASE v = via /\ t <= ask[r].at /\ clock < t + Window
    <3>1. Entries(v, t)' = {a.at : a \in Inside(v, t)'}
      BY <2>2 DEF Entries
    <3>2. ASSUME NEW a \in Inside(v, t)'
          PROVE  a.at \in log'
      <4>1. a \in admitted' /\ a.via = via /\ t <= a.at
        BY <2>2 DEF Inside
      <4>2. CASE a = new
        BY <1>2, <4>2
      <4>3. CASE a \in admitted
        <5>1. clock < a.at + Window
          BY <2>2, <4>1, <4>3, RateNumbers
        <5>. QED
          BY <1>2, <4>1, <4>3, <5>1
      <4>. QED
        BY <1>1, <4>1, <4>2, <4>3
    <3>3. Entries(v, t)' \in SUBSET log'
      BY <3>1, <3>2
    <3>4. IsFiniteSet(log')
      <4>1. log' \in SUBSET Nat /\ \A s \in log' : s <= clock
        BY <1>2, RateNumbers
      <4>. QED
        BY <4>1, FS_BoundedSetOfNaturals, RateNumbers
    <3>5. IsFiniteSet(Entries(v, t)') /\ Cardinality(Entries(v, t)') <= Cardinality(log')
      BY <3>3, <3>4, FS_Subset
    <3>6. Cardinality(Entries(v, t)') \in Nat /\ Cardinality(log') \in Nat
      BY <3>4, <3>5, FS_CardinalityType
    <3>. QED
      BY <1>1, <3>5, <3>6, RateNumbers
  <2>. QED
    BY <2>1, <2>2
<1>11. RefusedOnlyWhenBusy'
  <2>1. AskedStay
    BY <1>1, <1>4, RateNumbers DEF AskedStay, AskSteps
  <2>2. IsFiniteSet(Asked')
    BY <1>5 DEF RateInv, RateType
  <2>. QED
    BY <1>4, <2>1, <2>2, BusyStays
<1>. QED
  BY <1>7, <1>8, <1>9, <1>10, <1>11 DEF RateInv

\* A transaction that admits nobody: the answer is a refusal, or it is lost.
LEMMA RedisWritesStep ==
  ASSUME RateInv, NEW r \in Request, RedisRefuses(r) \/ AnswerLost(r)
  PROVE  RateInv'
<1>1. /\ log' = Logged(r) /\ Write(r) /\ admitted' = admitted
      /\ \/ /\ ask[r].step = "stamped" /\ Cardinality(log') > Limit
            /\ ask' = [ask EXCEPT ![r].step = "refused", ![r].sent = FALSE]
         \/ ask' = [ask EXCEPT ![r].step = ask[r].step, ![r].sent = FALSE]
  BY DEF RedisRefuses, AnswerLost, Write, Counted, Answer
<1>2. /\ log' \in SUBSET (0..clock) /\ ask[r].at \in log'
      /\ \A t \in log' : \E q \in Asked : ask[q].at = t
      /\ \A a \in admitted : clock < a.at + Window /\ a.via = <<"redis", life.redis>> =>
           a.at \in log' /\ a.at <= written'
      /\ written' = clock /\ UNCHANGED <<clock, memory, life>>
  BY <1>1, Writes
<1>3. ask' \in [Request -> [step : AskSteps, at : 0..clock, sent : BOOLEAN]]
  BY <1>1 DEF RateInv, RateType, AskSteps
<1>4. /\ ask'[r].at = ask[r].at /\ ~ask'[r].sent /\ ask[r].step # "new"
      /\ \/ ask[r].step = "stamped" /\ Cardinality(log') > Limit /\ ask'[r].step = "refused"
         \/ ask'[r].step = ask[r].step
      /\ \A q \in Request \ {r} : ask'[q] = ask[q]
  BY <1>1 DEF RateInv, RateType, Accounted, Write
<1>5. Asked' = Asked /\ r \in Asked
  BY <1>1, <1>4 DEF Asked
<1>6. Via' = Via
  BY <1>2 DEF Via
<1>7. RateType'
  BY <1>1, <1>2, <1>3, <1>5, <1>6 DEF RateInv, RateType
<1>8. Accounted'
  <2>1. \A q \in Asked : ask'[q].at = ask[q].at
    BY <1>4 DEF Asked
  <2>2. \A a \in admitted : ask'[a.req].step = "admitted" /\ ask'[a.req].at = a.at
    BY <1>4, RateNumbers DEF RateInv, Accounted
  <2>3. \A e \in memory : ask'[e.req].step = "admitted" /\ ask'[e.req].at = e.at
    BY <1>4 DEF RateInv, RateType, Accounted
  <2>4. \A q \in Request : ask'[q].sent => ask'[q].step # "new"
    BY <1>4 DEF RateInv, Accounted
  <2>. QED
    BY <1>1, <1>2, <1>5, <2>1, <2>2, <2>3, <2>4 DEF RateInv, Accounted
<1>9. StillLogged'
  BY <1>1, <1>2 DEF RateInv, StillLogged
<1>10. WithinLimit'
  BY <1>1, <1>6 DEF RateInv, WithinLimit, Entries, Inside
<1>11. RefusedOnlyWhenBusy'
  <2>1. AskedStay
    BY <1>4, RateNumbers DEF AskedStay, AskSteps
  <2>2. IsFiniteSet(Asked')
    BY <1>5 DEF RateInv, RateType
  <2>3. ASSUME ask[r].step = "stamped", Cardinality(log') > Limit
        PROVE  Cardinality(Rivals(r)') >= Limit
    <3> DEFINE others == log' \ {ask[r].at}
    <3>1. log' \in SUBSET Nat /\ \A t \in log' : t <= clock
      <4>1. log' \in SUBSET (0..clock) /\ clock \in Nat
        BY <1>2, RateNumbers
      <4>. HIDE DEF others
      <4>. QED
        BY <4>1
    <3>2. IsFiniteSet(log')
      BY <3>1, FS_BoundedSetOfNaturals, RateNumbers
    <3>3. /\ IsFiniteSet(others) /\ Cardinality(others) = Cardinality(log') - 1
          /\ Cardinality(log') \in Nat
      BY <1>2, <3>2, FS_RemoveElement, FS_CardinalityType
    <3>4. \A t \in others : t + Window > ask[r].at /\ \E q \in Asked \ {r} : ask[q].at = t
      <4>1. \A t \in others : t \in Kept(r)
        BY <1>1 DEF Logged
      <4>. QED
        BY <1>2, <4>1 DEF Kept
    <3>5. Cardinality(others) <= Cardinality(Rivals(r))
      <4>. HIDE DEF others
      <4>1. others \in SUBSET Nat
        BY <3>1 DEF others
      <4>. QED
        BY <3>4, <4>1, RivalsOfStamps
    <3>6. Rivals(r)' = Rivals(r)
      BY <1>4, <1>5 DEF Rivals, Asked
    <3>7. Cardinality(Rivals(r)) \in Nat
      <4>1. Rivals(r) \in SUBSET Asked
        BY DEF Rivals, Asked
      <4>. QED
        BY <4>1, FS_Subset, FS_CardinalityType DEF RateInv, RateType
    <3>. QED
      BY <2>3, <3>3, <3>5, <3>6, <3>7, RateNumbers
  <2>. QED
    BY <1>4, <2>1, <2>2, <2>3, BusyStays
<1>. QED
  BY <1>7, <1>8, <1>9, <1>10, <1>11 DEF RateInv

LEMMA MemoryAdmitsStep ==
  ASSUME RateInv, NEW r \in Request, MemoryAdmits(r)
  PROVE  RateInv'
<1> DEFINE via == <<"memory", life.api>>
           new == [req |-> r, at |-> ask[r].at, done |-> clock, via |-> via]
           entry == [req |-> r, at |-> ask[r].at]
<1>1. /\ memory' = MemoryKept(r) \cup {entry} /\ Cardinality(MemoryKept(r)) < Limit
      /\ ask[r].step = "stamped" /\ admitted' = admitted \cup {new} /\ Admit(r, via)
      /\ ask' = [ask EXCEPT ![r].step = "admitted"]
      /\ UNCHANGED <<clock, log, written, life>>
  BY DEF MemoryAdmits, Admit
<1>2. /\ MemoryKept(r) \in SUBSET memory
      /\ \A a \in admitted : clock < a.at + Window /\ a.via = via =>
           [req |-> a.req, at |-> a.at] \in MemoryKept(r)
  <2>1. ASSUME NEW a \in admitted, clock < a.at + Window, a.via = via
        PROVE  [req |-> a.req, at |-> a.at] \in MemoryKept(r)
    <3>1. [req |-> a.req, at |-> a.at] \in memory
      BY <2>1 DEF RateInv, StillLogged
    <3>2. ask[r].at < a.at + Window
      BY <2>1, RateNumbers
    <3>. QED
      BY <3>1, <3>2, RateNumbers DEF MemoryKept
  <2>. QED
    BY <2>1 DEF MemoryKept
<1>3. ask' \in [Request -> [step : AskSteps, at : 0..clock, sent : BOOLEAN]]
  BY <1>1 DEF RateInv, RateType, AskSteps
<1>4. /\ ask'[r].step = "admitted" /\ ask'[r].at = ask[r].at
      /\ \A q \in Request \ {r} : ask'[q] = ask[q]
  BY <1>1 DEF RateInv, RateType
<1>5. Asked' = Asked /\ r \in Asked
  BY <1>1, <1>4 DEF Asked
<1>6. via \in Via /\ Via' = Via /\ new \in [req : Request, at : 0..clock, done : 0..clock, via : Via]
  BY <1>1, RateNumbers DEF Via, RateInv, RateType
<1>7. /\ memory' \in SUBSET [req : Request, at : 0..clock] /\ IsFiniteSet(memory')
      /\ IsFiniteSet(MemoryKept(r)) /\ Cardinality(MemoryKept(r)) \in Nat
      /\ Cardinality(memory') \in Nat /\ Cardinality(memory') <= Limit
  <2>1. memory \in SUBSET [req : Request, at : 0..clock] /\ IsFiniteSet(memory)
    BY DEF RateInv, RateType
  <2>2. entry \in [req : Request, at : 0..clock]
    BY RateNumbers
  <2>3. IsFiniteSet(MemoryKept(r)) /\ Cardinality(MemoryKept(r)) \in Nat
    BY <1>2, <2>1, FS_Subset, FS_CardinalityType
  <2>4. /\ IsFiniteSet(memory')
        /\ Cardinality(memory') =
             IF entry \in MemoryKept(r) THEN Cardinality(MemoryKept(r)) ELSE Cardinality(MemoryKept(r)) + 1
    <3>. HIDE DEF entry
    <3>. QED
      BY <1>1, <2>3, FS_AddElement
  <2>5. Cardinality(memory') \in Nat /\ Cardinality(memory') <= Limit
    <3>. HIDE DEF entry
    <3>. QED
      BY <1>1, <2>3, <2>4, RateNumbers
  <2>. QED
    BY <1>1, <1>2, <2>1, <2>2, <2>3, <2>4, <2>5
<1>8. RateType'
  BY <1>1, <1>3, <1>5, <1>6, <1>7 DEF RateInv, RateType
<1>9. \A a \in admitted : a.req # r
  BY <1>1 DEF RateInv, Accounted
<1>10. new.req = r /\ new.at = ask[r].at /\ new.via = via
  OBVIOUS
<1>11. Accounted'
  <2>. HIDE DEF new
  <2>1. ASSUME NEW a \in admitted', NEW b \in admitted', a.req = b.req
        PROVE  a = b
    <3>1. CASE a \in admitted /\ b \in admitted
      BY <2>1, <3>1 DEF RateInv, Accounted
    <3>2. CASE a = new
      BY <1>1, <1>9, <1>10, <2>1, <3>2
    <3>3. CASE b = new
      BY <1>1, <1>9, <1>10, <2>1, <3>3
    <3>. QED
      BY <1>1, <3>1, <3>2, <3>3
  <2>2. ASSUME NEW a \in admitted'
        PROVE  ask'[a.req].step = "admitted" /\ ask'[a.req].at = a.at
    <3>1. CASE a = new
      BY <1>4, <1>10, <3>1
    <3>2. CASE a \in admitted
      <4>1. a.req \in Request \ {r}
        BY <1>9, <3>2, RateNumbers
      <4>. QED
        BY <1>4, <3>2, <4>1 DEF RateInv, Accounted
    <3>. QED
      BY <1>1, <3>1, <3>2
  <2>3. \A q \in Request : ask'[q].sent => ask'[q].step # "new"
    BY <1>4 DEF RateInv, Accounted
  <2>4. \A q \in Asked : ask'[q].at = ask[q].at
    BY <1>4 DEF Asked
  <2>5. ASSUME NEW e \in memory'
        PROVE  ask'[e.req].step = "admitted" /\ ask'[e.req].at = e.at
    <3>1. CASE e = entry
      BY <1>4, <3>1
    <3>2. CASE e \in memory
      <4>1. e.req \in Request
        BY <3>2 DEF RateInv, RateType
      <4>. QED
        BY <1>1, <1>4, <3>2, <4>1 DEF RateInv, Accounted
    <3>. QED
      BY <1>1, <1>2, <3>1, <3>2
  <2>6. \A t \in log' : \E q \in Asked' : ask'[q].at = t
    BY <1>1, <1>5, <2>4 DEF RateInv, Accounted
  <2>. QED
    BY <2>1, <2>2, <2>3, <2>5, <2>6 DEF Accounted
<1>12. StillLogged'
  <2>1. via # <<"redis", life.redis>> /\ [req |-> new.req, at |-> new.at] \in memory'
    BY <1>1, ViaNames
  <2>. HIDE DEF via, new, entry
  <2>. QED
    BY <1>1, <1>2, <1>10, <2>1 DEF RateInv, StillLogged, via
<1>13. WithinLimit'
  <2> SUFFICES ASSUME NEW v \in Via, NEW t \in 0..MaxTime
               PROVE  IsFiniteSet(Entries(v, t)') /\ Cardinality(Entries(v, t)') <= Limit
    BY <1>6 DEF WithinLimit
  <2>1. CASE ~(v = via /\ t <= ask[r].at /\ clock < t + Window)
    <3>1. Entries(v, t)' = Entries(v, t)
      BY <1>1, <2>1, OtherWindows, RateNumbers
    <3>. QED
      BY <3>1 DEF RateInv, WithinLimit
  <2>2. CASE v = via /\ t <= ask[r].at /\ clock < t + Window
    <3> DEFINE I == Inside(v, t)'
               f == [a \in I |-> [req |-> a.req, at |-> a.at]]
    <3>1. Entries(v, t)' = I
      BY <2>2 DEF Entries
    <3>2. ASSUME NEW a \in I
          PROVE  [req |-> a.req, at |-> a.at] \in memory'
      <4>1. a \in admitted' /\ a.via = via /\ t <= a.at
        BY <2>2 DEF Inside
      <4>2. CASE a = new
        BY <1>1, <4>2
      <4>3. CASE a \in admitted
        <5>1. clock < a.at + Window
          BY <2>2, <4>1, <4>3, RateNumbers
        <5>. QED
          BY <1>1, <1>2, <4>1, <4>3, <5>1
      <4>. QED
        BY <1>1, <4>1, <4>2, <4>3
    <3>3. f \in Injection(I, memory')
      <4>1. f \in [I -> memory']
        BY <3>2
      <4>2. ASSUME NEW a \in I, NEW b \in I, f[a] = f[b]
            PROVE  a = b
        <5>1. a.req = b.req
          BY <4>2
        <5>2. a \in admitted' /\ b \in admitted'
          BY DEF Inside
        <5>. QED
          BY <1>11, <5>1, <5>2 DEF Accounted
      <4>. HIDE DEF f, I
      <4>. QED
        BY <4>1, <4>2 DEF Injection, IsInjective
    <3>4. IsFiniteSet(I) /\ Cardinality(I) <= Cardinality(memory')
      BY <1>7, <3>3, FS_Injection
    <3>5. Cardinality(I) \in Nat
      BY <3>4, FS_CardinalityType
    <3>. QED
      BY <1>7, <3>1, <3>4, <3>5, RateNumbers
  <2>. QED
    BY <2>1, <2>2
<1>14. RefusedOnlyWhenBusy'
  <2>1. AskedStay
    BY <1>1, <1>4, RateNumbers DEF AskedStay, AskSteps
  <2>2. IsFiniteSet(Asked')
    BY <1>5 DEF RateInv, RateType
  <2>. QED
    BY <1>4, <2>1, <2>2, BusyStays
<1>. QED
  BY <1>8, <1>11, <1>12, <1>13, <1>14 DEF RateInv

LEMMA MemoryRefusesStep ==
  ASSUME RateInv, NEW r \in Request, MemoryRefuses(r)
  PROVE  RateInv'
<1>1. /\ memory' = MemoryKept(r) /\ Cardinality(MemoryKept(r)) >= Limit
      /\ ask[r].step = "stamped" /\ ask' = [ask EXCEPT ![r].step = "refused"]
      /\ UNCHANGED <<clock, log, written, life, admitted>>
  BY DEF MemoryRefuses
<1>2. MemoryKept(r) \in SUBSET memory /\ \A e \in MemoryKept(r) : e.at + Window > ask[r].at
  BY DEF MemoryKept
<1>3. ask' \in [Request -> [step : AskSteps, at : 0..clock, sent : BOOLEAN]]
  BY <1>1 DEF RateInv, RateType, AskSteps
<1>4. /\ ask'[r].step = "refused" /\ ask'[r].at = ask[r].at
      /\ \A q \in Request \ {r} : ask'[q] = ask[q]
  BY <1>1 DEF RateInv, RateType
<1>5. Asked' = Asked /\ r \in Asked /\ Via' = Via
  BY <1>1, <1>4 DEF Asked, Via
<1>6. RateType'
  <2>1. IsFiniteSet(memory')
    BY <1>1, <1>2, FS_Subset DEF RateInv, RateType
  <2>. QED
    BY <1>1, <1>2, <1>3, <1>5, <2>1 DEF RateInv, RateType
<1>7. Accounted'
  <2>1. \A q \in Asked : ask'[q].at = ask[q].at
    BY <1>4 DEF Asked
  <2>2. \A a \in admitted : a.req \in Request \ {r}
    BY <1>1, RateNumbers DEF RateInv, Accounted
  <2>3. \A q \in Request : ask'[q].sent => ask'[q].step # "new"
    BY <1>4 DEF RateInv, Accounted
  <2>4. \A e \in memory' : ask'[e.req].step = "admitted" /\ ask'[e.req].at = e.at
    <3>1. \A e \in memory : e.req \in Request
      BY DEF RateInv, RateType
    <3>. QED
      BY <1>1, <1>2, <1>4, <3>1 DEF RateInv, Accounted
  <2>5. \A t \in log' : \E q \in Asked' : ask'[q].at = t
    BY <1>1, <1>5, <2>1 DEF RateInv, Accounted
  <2>6. \A a \in admitted' : ask'[a.req].step = "admitted" /\ ask'[a.req].at = a.at
    BY <1>1, <1>4, <2>2 DEF RateInv, Accounted
  <2>. QED
    BY <1>1, <2>3, <2>4, <2>5, <2>6 DEF RateInv, Accounted
<1>8. StillLogged'
  <2>1. ASSUME NEW a \in admitted, clock < a.at + Window, a.via = <<"memory", life.api>>
        PROVE  [req |-> a.req, at |-> a.at] \in MemoryKept(r)
    <3>1. [req |-> a.req, at |-> a.at] \in memory
      BY <2>1 DEF RateInv, StillLogged
    <3>2. ask[r].at < a.at + Window
      BY <2>1, RateNumbers
    <3>. QED
      BY <3>1, <3>2, RateNumbers DEF MemoryKept
  <2>. QED
    BY <1>1, <2>1 DEF RateInv, StillLogged
<1>9. WithinLimit'
  BY <1>1, <1>5 DEF RateInv, WithinLimit, Entries, Inside
<1>10. RefusedOnlyWhenBusy'
  <2>1. AskedStay
    BY <1>1, <1>4, RateNumbers DEF AskedStay, AskSteps
  <2>2. IsFiniteSet(Asked')
    BY <1>5 DEF RateInv, RateType
  <2>3. Cardinality(Rivals(r)') >= Limit
    <3>1. \A e \in MemoryKept(r) : e.req # r
      BY <1>1, <1>2 DEF RateInv, Accounted
    <3>2. Cardinality(MemoryKept(r)) <= Cardinality(Rivals(r)) /\ IsFiniteSet(MemoryKept(r))
      BY <1>2, <3>1, RivalsOfEntries
    <3>3. Rivals(r)' = Rivals(r)
      BY <1>4, <1>5 DEF Rivals, Asked
    <3>4. Cardinality(Rivals(r)) \in Nat /\ Cardinality(MemoryKept(r)) \in Nat
      <4>1. Rivals(r) \in SUBSET Asked
        BY DEF Rivals, Asked
      <4>. QED
        BY <3>2, <4>1, FS_Subset, FS_CardinalityType DEF RateInv, RateType
    <3>. QED
      BY <1>1, <3>2, <3>3, <3>4, RateNumbers
  <2>. QED
    BY <1>4, <2>1, <2>2, <2>3, BusyStays
<1>. QED
  BY <1>6, <1>7, <1>8, <1>9, <1>10 DEF RateInv

LEMMA ReadClockStep ==
  ASSUME RateInv, NEW r \in Request, ReadClock(r)
  PROVE  RateInv'
<1>1. /\ ask[r].step = "new"
      /\ ask' = [ask EXCEPT ![r] = [step |-> "stamped", at |-> clock, sent |-> TRUE]]
      /\ UNCHANGED <<clock, log, written, memory, life, admitted>>
  BY DEF ReadClock
<1>2. /\ ask' \in [Request -> [step : AskSteps, at : 0..clock, sent : BOOLEAN]]
      /\ ask'[r].step = "stamped" /\ \A q \in Request \ {r} : ask'[q] = ask[q]
  BY <1>1, RateNumbers DEF RateInv, RateType, AskSteps
<1>3. Asked' = Asked \cup {r} /\ Via' = Via /\ IsFiniteSet(Asked')
  <2>1. Asked' = Asked \cup {r}
    BY <1>1, <1>2 DEF Asked
  <2>. QED
    BY <1>1, <2>1, FS_AddElement DEF Via, RateInv, RateType
<1>4. RateType'
  BY <1>1, <1>2, <1>3 DEF RateInv, RateType
<1>5. Accounted'
  <2>1. \A q \in Asked : q \in Asked' /\ ask'[q] = ask[q]
    BY <1>1, <1>2, <1>3 DEF Asked
  <2>2. \A a \in admitted : a.req \in Asked
    BY RateNumbers DEF RateInv, Accounted, Asked
  <2>3. \A e \in memory : e.req \in Asked
    BY DEF RateInv, RateType, Accounted, Asked
  <2>4. \A q \in Request : ask'[q].sent => ask'[q].step # "new"
    BY <1>2 DEF RateInv, Accounted
  <2>. QED
    BY <1>1, <2>1, <2>2, <2>3, <2>4 DEF RateInv, Accounted
<1>6. StillLogged' /\ WithinLimit'
  BY <1>1, <1>3 DEF RateInv, StillLogged, WithinLimit, Entries, Inside
<1>7. RefusedOnlyWhenBusy'
  <2>1. AskedStay
    BY <1>1, <1>2, RateNumbers DEF AskedStay, AskSteps
  <2>. QED
    BY <1>2, <1>3, <2>1, BusyStays
<1>. QED
  BY <1>4, <1>5, <1>6, <1>7 DEF RateInv

\* Time passes: of what a window holds less must be left.
LEMMA TickStep ==
  ASSUME RateInv, Tick
  PROVE  RateInv'
<1>1. /\ clock' = clock + 1 /\ clock < MaxTime
      /\ UNCHANGED <<ask, log, written, memory, life, admitted>>
  BY DEF Tick
<1>2. clock' \in 0..MaxTime /\ 0..clock \subseteq 0..clock' /\ Via' = Via /\ Asked' = Asked
  BY <1>1, RateNumbers DEF Via, Asked
<1>3. RateType'
  <2>1. written' \in 0..clock' /\ log' \in SUBSET (0..clock')
    BY <1>1, <1>2 DEF RateInv, RateType
  <2>2. ask' \in [Request -> [step : AskSteps, at : 0..clock', sent : BOOLEAN]]
    BY <1>1, <1>2 DEF RateInv, RateType
  <2>3. memory' \in SUBSET [req : Request, at : 0..clock']
    BY <1>1, <1>2 DEF RateInv, RateType
  <2>4. admitted' \in SUBSET [req : Request, at : 0..clock', done : 0..clock', via : Via']
    BY <1>1, <1>2 DEF RateInv, RateType
  <2>. QED
    BY <1>1, <1>2, <2>1, <2>2, <2>3, <2>4 DEF RateInv, RateType
<1>4. Accounted'
  BY <1>1, <1>2 DEF RateInv, Accounted
<1>5. StillLogged'
  <2>1. \A a \in admitted : clock' < a.at + Window => clock < a.at + Window
    BY <1>1, RateNumbers
  <2>. QED
    BY <1>1, <2>1 DEF RateInv, StillLogged
<1>6. WithinLimit' /\ RefusedOnlyWhenBusy'
  BY <1>1, <1>2 DEF RateInv, WithinLimit, Entries, Inside, RefusedOnlyWhenBusy
<1>. QED
  BY <1>3, <1>4, <1>5, <1>6 DEF RateInv

\* A restart begins a window of its own, which nobody has been admitted by.
LEMMA RestartStep ==
  ASSUME RateInv, RedisRestarts \/ ApiRestarts
  PROVE  RateInv'
<1>1. /\ UNCHANGED <<clock, written, admitted>>
      /\ \/ /\ life' = [life EXCEPT !.redis = @ + 1] /\ log' = {} /\ memory' = memory
            /\ ask' = [r \in Request |-> [ask[r] EXCEPT !.sent = FALSE]]
         \/ /\ life' = [life EXCEPT !.api = @ + 1] /\ memory' = {} /\ log' = log
            /\ ask' = [r \in Request |-> IF ask[r].step = "stamped"
                                         THEN [ask[r] EXCEPT !.step = "lost"] ELSE ask[r]]
      /\ life.redis + life.api < MaxRestarts
  BY DEF RedisRestarts, ApiRestarts
<1>2. /\ ask' \in [Request -> [step : AskSteps, at : 0..clock, sent : BOOLEAN]]
      /\ \A q \in Request : /\ ask'[q].at = ask[q].at
                            /\ ask'[q].step = ask[q].step
                               \/ (ask[q].step = "stamped" /\ ask'[q].step = "lost")
                            /\ ask'[q].sent => ask[q].sent
  <2>1. ask \in [Request -> [step : AskSteps, at : 0..clock, sent : BOOLEAN]]
    BY DEF RateInv, RateType
  <2>2. CASE ask' = [r \in Request |-> [ask[r] EXCEPT !.sent = FALSE]]
    BY <2>1, <2>2
  <2>3. CASE ask' = [r \in Request |-> IF ask[r].step = "stamped"
                                      THEN [ask[r] EXCEPT !.step = "lost"] ELSE ask[r]]
    BY <2>1, <2>3 DEF AskSteps
  <2>. QED
    BY <1>1, <2>2, <2>3
<1>3. Asked' = Asked
  BY <1>2 DEF Asked
<1>4. /\ life' \in [redis : Nat, api : Nat] /\ life'.redis + life'.api <= MaxRestarts
      /\ \/ life'.redis = life.redis + 1 /\ life'.api = life.api
         \/ life'.redis = life.redis /\ life'.api = life.api + 1
  <2>1. life \in [redis : Nat, api : Nat]
    BY DEF RateInv, RateType
  <2>. QED
    BY <1>1, <2>1, RateNumbers
<1>5. Via \subseteq Via'
  BY <1>4, RateNumbers DEF Via
<1>6. IsFiniteSet({}) /\ Cardinality({}) = 0
  BY FS_EmptySet
<1>7. RateType'
  <2>1. IsFiniteSet(memory') /\ memory' \in SUBSET [req : Request, at : 0..clock]
    BY <1>1, <1>6 DEF RateInv, RateType
  <2>2. admitted' \in SUBSET [req : Request, at : 0..clock, done : 0..clock, via : Via']
    BY <1>1, <1>5 DEF RateInv, RateType
  <2>. QED
    BY <1>1, <1>2, <1>3, <1>4, <2>1, <2>2 DEF RateInv, RateType
<1>8. Accounted'
  <2>1. \A a \in admitted' : ask'[a.req].step = "admitted" /\ ask'[a.req].at = a.at
    BY <1>1, <1>2, RateNumbers DEF RateInv, Accounted
  <2>2. \A e \in memory' : ask'[e.req].step = "admitted" /\ ask'[e.req].at = e.at
    BY <1>1, <1>2 DEF RateInv, RateType, Accounted
  <2>3. \A t \in log' : \E q \in Asked' : ask'[q].at = t
    BY <1>1, <1>2, <1>3 DEF RateInv, Accounted, Asked
  <2>4. \A r \in Request : ask'[r].sent => ask'[r].step # "new"
    BY <1>2 DEF RateInv, Accounted
  <2>. QED
    BY <1>1, <2>1, <2>2, <2>3, <2>4 DEF RateInv, Accounted
<1>9. \A a \in admitted : /\ life'.redis # life.redis => a.via # <<"redis", life'.redis>>
                          /\ life'.api # life.api => a.via # <<"memory", life'.api>>
  BY <1>4, RateNumbers DEF Via
<1>10. StillLogged'
  BY <1>1, <1>4, <1>9, RateNumbers DEF RateInv, StillLogged
<1>11. WithinLimit'
  <2> SUFFICES ASSUME NEW v \in Via', NEW t \in 0..MaxTime
               PROVE  IsFiniteSet(Entries(v, t)') /\ Cardinality(Entries(v, t)') <= Limit
    BY DEF WithinLimit
  <2>1. Entries(v, t)' = Entries(v, t)
    BY <1>1 DEF Entries, Inside
  <2>2. CASE v \in Via
    BY <2>1, <2>2 DEF RateInv, WithinLimit
  <2>3. CASE v \notin Via
    <3>1. Inside(v, t) = {}
      BY <2>3, RateNumbers DEF Inside
    <3>2. Entries(v, t) = {}
      BY <3>1 DEF Entries
    <3>. QED
      BY <1>6, <2>1, <3>2, RateNumbers
  <2>. QED
    BY <2>2, <2>3
<1>12. RefusedOnlyWhenBusy'
  <2>1. AskedStay
    BY <1>2, RateNumbers DEF AskedStay
  <2>2. IsFiniteSet(Asked')
    BY <1>3 DEF RateInv, RateType
  <2>. QED
    BY <1>2, <2>1, <2>2, BusyStays
<1>. QED
  BY <1>7, <1>8, <1>10, <1>11, <1>12 DEF RateInv

-----------------------------------------------------------------------------
(* The rate limit: its theorems *)

LEMMA RateInitInv ==
  ASSUME RateInit
  PROVE  RateInv
<1> USE DEF RateInit
<1>1. IsFiniteSet({}) /\ Cardinality({}) = 0
  BY FS_EmptySet
<1>2. Asked = {}
  BY DEF Asked
<1>3. RateType
  BY <1>1, <1>2, WindowAssumption DEF RateType, AskSteps
<1>4. \A v, t : Entries(v, t) = {}
  BY DEF Entries, Inside
<1>5. WithinLimit
  BY <1>1, <1>4, WindowAssumption DEF WithinLimit
<1>. QED
  BY <1>2, <1>3, <1>5 DEF RateInv, Accounted, StillLogged, RefusedOnlyWhenBusy

LEMMA RateNextInv ==
  ASSUME RateInv, [RateNext]_rateVars
  PROVE  RateInv'
<1>1. ASSUME NEW r \in Request, Asks(r)
      PROVE  RateInv'
  BY <1>1, ReadClockStep, RedisAdmitsStep, RedisWritesStep, MemoryAdmitsStep, MemoryRefusesStep
     DEF Asks, Answers
<1>2. CASE RedisRestarts \/ ApiRestarts
  BY <1>2, RestartStep
<1>3. CASE Tick
  BY <1>3, TickStep
<1>4. CASE UNCHANGED rateVars
  <2>1. Asked' = Asked /\ Via' = Via
    BY <1>4 DEF rateVars, Asked, Via
  <2>2. RateType' /\ Accounted' /\ StillLogged'
    BY <1>4, <2>1 DEF rateVars, RateInv, RateType, Accounted, StillLogged
  <2>3. WithinLimit' /\ RefusedOnlyWhenBusy'
    BY <1>4, <2>1 DEF rateVars, RateInv, WithinLimit, Entries, Inside, RefusedOnlyWhenBusy
  <2>. QED
    BY <2>2, <2>3 DEF RateInv
<1>. QED
  BY <1>1, <1>2, <1>3, <1>4 DEF RateNext

\* check_rate_limit keeps what its windows need to know, in every behaviour.
THEOREM RateInvariant == RateSpec => []RateInv
BY RateInitInv, RateNextInv, PTL DEF RateSpec

\* check_rate_limit: of the requests that come and are answered within one window,
\* neither Redis nor the memory of an API process admits more than max_requests,
\* for every limit and window, whatever is late, lost or restarted.
THEOREM NoWindowAdmitsTooMany == RateSpec => []AdmittedPerWindow
<1>1. RateInv => AdmittedPerWindow
  <2> SUFFICES ASSUME RateInv, NEW via \in {a.via : a \in admitted}, NEW t \in 0..MaxTime
               PROVE  Cardinality(Entries(via, t)) <= Limit
    BY DEF AdmittedPerWindow, Entries, Inside
  <2>1. via \in Via
    BY RateNumbers
  <2>. QED
    BY <2>1 DEF RateInv, WithinLimit
<1>. QED
  BY <1>1, RateInvariant, PTL

\* check_rate_limit refuses a request only when max_requests others have asked
\* less than a window before it, or later.
THEOREM NoneRefusedForLess == RateSpec => []RefusedOnlyWhenBusy
<1>1. RateInv => RefusedOnlyWhenBusy
  BY DEF RateInv
<1>. QED
  BY <1>1, RateInvariant, PTL
-----------------------------------------------------------------------------
(* Types *)

Upload == [pc : Steps, file : File \cup {NoFile}, force : BOOLEAN, link : SUBSET Request,
           reply : Replies]
Stages == {"none", "sent", "started", "rendered", "extracted", "cropped"}

\* TypeOK without the rate limit, and with the whole of the upload records.
Typed ==
  /\ upload \in [Request -> Upload]
  /\ \A r \in Request : (upload[r].pc = "done") <=> (upload[r].reply # "none")
  /\ temp \in SUBSET Request /\ pages \in SUBSET Request /\ figures \in SUBSET Request
  /\ links \in SUBSET (Request \X Request)
  /\ status \in [Request -> {"none", "queued", "processing", "failed", "completed"}]
  /\ job \in [Request -> Stages]
  /\ removal \in [Request -> {"none", "begun", "cut"}]
  /\ faults \in 0..MaxFaults

\* What the steps of a request do to its record.
LEMMA StepTo ==
  ASSUME upload \in [Request -> Upload], NEW r \in Request, NEW pc \in Steps, Step(r, pc)
  PROVE  /\ upload' \in [Request -> Upload]
         /\ upload'[r].pc = pc /\ upload'[r].reply = upload[r].reply
         /\ upload'[r].link = upload[r].link /\ upload'[r].force = upload[r].force
         /\ \A q \in Request \ {r} : upload'[q] = upload[q]
BY DEF Step, Upload

LEMMA ReplyWith ==
  ASSUME upload \in [Request -> Upload], NEW r \in Request, NEW code \in Replies, Reply(r, code)
  PROVE  /\ upload' \in [Request -> Upload]
         /\ upload'[r].pc = "done" /\ upload'[r].reply = code
         /\ upload'[r].force = upload[r].force
         /\ \A q \in Request \ {r} : upload'[q] = upload[q]
<1>1. ASSUME NEW u \in Upload
      PROVE  /\ [u EXCEPT !.pc = "done", !.link = {}, !.reply = code] \in Upload
             /\ [u EXCEPT !.pc = "done", !.link = {}, !.reply = code].pc = "done"
             /\ [u EXCEPT !.pc = "done", !.link = {}, !.reply = code].reply = code
             /\ [u EXCEPT !.pc = "done", !.link = {}, !.reply = code].force = u.force
  BY DEF Upload, Steps
<1>2. upload' = [upload EXCEPT ![r] = [upload[r] EXCEPT !.pc = "done", !.link = {}, !.reply = code]]
  BY DEF Reply
<1>. QED
  BY <1>1, <1>2

LEMMA StreamTo ==
  ASSUME upload \in [Request -> Upload], NEW r \in Request, Stream(r)
  PROVE  /\ upload' \in [Request -> Upload]
         /\ upload'[r].pc = "streamed" /\ upload'[r].reply = "none"
         /\ \A q \in Request \ {r} : upload'[q] = upload[q]
BY DEF Stream, Upload, Steps, Replies

\* Tuples of elements of a set are sequences over it.
LEMMA TuplesAreSequences ==
  ASSUME NEW S
  PROVE  /\ \A a, b \in S : <<a, b>> \in Seq(S)
         /\ \A a, b, c \in S : <<a, b, c>> \in Seq(S)
         /\ \A a, b, c, d, e \in S : <<a, b, c, d, e>> \in Seq(S)
OBVIOUS

\* Each check answers with an error code of its own.
LEMMA CheckCodes ==
  ASSUME NEW f, NEW k \in Failed(f)
  PROVE  Checks(f.type)[k].code \in Codes
<1> DEFINE first == {"oversized", "empty", "unknown type"}
           pdf == {"unreadable", "encrypted", "no pages", "too many pages", "torn"}
           image == {"torn", "too many pixels"}
           any == [finds : first \cup pdf \cup image, code : Codes]
<1>1. /\ [finds |-> "oversized", code |-> "FILE_TOO_LARGE"] \in any
      /\ [finds |-> "empty", code |-> "MALFORMED_FILE"] \in any
      /\ [finds |-> "unknown type", code |-> "UNSUPPORTED_MEDIA_TYPE"] \in any
      /\ [finds |-> "unreadable", code |-> "MALFORMED_FILE"] \in any
      /\ [finds |-> "encrypted", code |-> "PDF_ENCRYPTED"] \in any
      /\ [finds |-> "no pages", code |-> "MALFORMED_FILE"] \in any
      /\ [finds |-> "too many pages", code |-> "TOO_MANY_PAGES"] \in any
      /\ [finds |-> "torn", code |-> "MALFORMED_FILE"] \in any
      /\ [finds |-> "too many pixels", code |-> "MALFORMED_FILE"] \in any
  BY DEF Codes
<1> HIDE DEF any
<1>2. Checks(f.type) \in Seq(any)
  <2>1. StreamChecks \in Seq(any) /\ PdfChecks \in Seq(any) /\ ImageChecks \in Seq(any)
    BY <1>1, TuplesAreSequences DEF StreamChecks, PdfChecks, ImageChecks
  <2>2. (IF f.type = "pdf" THEN PdfChecks ELSE ImageChecks) \in Seq(any)
    BY <2>1
  <2>. QED
    BY <2>1, <2>2 DEF Checks
<1>3. k \in DOMAIN Checks(f.type)
  BY DEF Failed
<1>4. Checks(f.type)[k] \in any
  BY <1>2, <1>3
<1>. QED
  BY <1>4 DEF any

-----------------------------------------------------------------------------
(* Rows, files and replies *)

\* Where a request is tells what it may have left so far.
LeftBehind ==
  \A r \in Request :
    LET pc == upload[r].pc  reply == upload[r].reply
    IN /\ r \in temp => \/ pc \in {"streamed", "checked", "saved"}
                          \/ reply \in {"DUPLICATE", "INTERNAL_ERROR", "LOST"}
       /\ r \in temp /\ reply \in {"DUPLICATE", "INTERNAL_ERROR"} =>
            ~upload[r].force /\ Source(r) \notin store /\ job[r] = "none"
       /\ Source(r) \in store => /\ pc \in {"saved", "stored", "enqueued", "linked", "committed", "done"}
                                  /\ reply \notin Codes \cup {"DUPLICATE"}
       /\ job[r] # "none" => /\ pc \in {"enqueued", "linked", "committed", "done"}
                             /\ reply \notin Codes \cup {"DUPLICATE"}
       /\ status[r] # "none" => r \notin temp /\ \/ pc = "committed"
                                                 \/ reply \in {"ACCEPTED", "INTERNAL_ERROR", "LOST"}

\* The file of a request that is on its way to a row is stored, and so is what
\* the job of a document is about to write into a row.
FilesKept ==
  \A d \in Request :
    /\ upload[d].pc \in {"saved", "stored", "enqueued", "linked"} => Source(d) \in store
    /\ status[d] # "none" /\ removal[d] = "none" => Source(d) \in store
    /\ d \in pages \/ job[d] = "rendered" => PageImages(d) \in store
    /\ d \in figures \/ job[d] = "cropped" => Crops(d) \in store

IntakeInv == Typed /\ LeftBehind /\ FilesKept /\ RowsHaveTheirDocument

LEMMA FileNames ==
  \A d, e \in Request :
    /\ Source(d) # PageImages(e) /\ Source(d) # Crops(e) /\ PageImages(d) # Crops(e)
    /\ d # e => Source(d) # Source(e) /\ PageImages(d) # PageImages(e) /\ Crops(d) # Crops(e)
BY DEF Source, PageImages, Crops

\* A step of an upload that only moves it.
LEMMA UploadStep ==
  ASSUME IntakeInv, NEW r \in Request,
         \/ Ask(r) \/ Stream(r) \/ Refuse(r) \/ Pass(r) \/ AnswerDuplicate(r) \/ LookUpRaises(r)
         \/ Store(r) \/ StoreRaises(r) \/ Unlink(r) \/ Enqueue(r) \/ EnqueueRaises(r)
         \/ FindTarget(r) \/ CommitUpload(r) \/ CommitUploadRaises(r) \/ Accept(r)
  PROVE  IntakeInv'
<1> USE DEF IntakeInv
<1>1. upload \in [Request -> Upload] /\ upload[r] \in Upload /\ faults \in Nat
  BY FaultAssumption DEF Typed
<1>2. CASE Ask(r)
  <2>1. /\ upload' \in [Request -> Upload] /\ upload[r].pc = "new"
        /\ \/ upload'[r].pc = "admitted" /\ upload'[r].reply = upload[r].reply
           \/ upload'[r].pc = "done" /\ upload'[r].reply = "RATE_LIMITED"
           \/ upload' = upload
        /\ \A q \in Request \ {r} : upload'[q] = upload[q]
        /\ UNCHANGED <<temp, store, status, pages, figures, links, job, removal, faults>>
    BY <1>1, <1>2, StepTo, ReplyWith DEF Ask, Steps, Replies, Codes
  <2>3. Typed'
    BY <2>1 DEF Typed
  <2>4. LeftBehind'
    BY <2>1 DEF LeftBehind, Typed, Codes
  <2>5. FilesKept'
    BY <2>1 DEF FilesKept
  <2>6. RowsHaveTheirDocument'
    BY <2>1 DEF RowsHaveTheirDocument, Documents
  <2>. QED
    BY <2>3, <2>4, <2>5, <2>6
<1>3. CASE Stream(r)
  <2>1. /\ upload' \in [Request -> Upload] /\ upload[r].pc = "admitted"
        /\ upload'[r].pc = "streamed" /\ upload'[r].reply = "none"
        /\ \A q \in Request \ {r} : upload'[q] = upload[q]
        /\ temp' = temp \cup {r}
        /\ UNCHANGED <<store, status, pages, figures, links, job, removal, faults>>
    BY <1>1, <1>3, StreamTo DEF Stream
  <2>3. Typed'
    BY <1>1, <2>1 DEF Typed
  <2>4. LeftBehind'
    BY <1>1, <2>1, FileNames DEF LeftBehind, Typed, Codes
  <2>5. FilesKept'
    BY <2>1 DEF FilesKept
  <2>6. RowsHaveTheirDocument'
    BY <2>1 DEF RowsHaveTheirDocument, Documents
  <2>. QED
    BY <2>3, <2>4, <2>5, <2>6
<1>4. CASE Refuse(r)
  <2>1. /\ upload' \in [Request -> Upload] /\ upload[r].pc = "streamed"
        /\ upload'[r].pc = "done" /\ upload'[r].reply \in Codes
        /\ \A q \in Request \ {r} : upload'[q] = upload[q]
        /\ temp' = temp \ {r}
        /\ UNCHANGED <<store, status, pages, figures, links, job, removal, faults>>
    <3>1. PICK k \in Failed(upload[r].file) : Reply(r, Checks(upload[r].file.type)[k].code)
      BY <1>4 DEF Refuse
    <3>2. Checks(upload[r].file.type)[k].code \in Codes
      BY CheckCodes
    <3>3. /\ upload' \in [Request -> Upload]
          /\ upload'[r].pc = "done" /\ upload'[r].reply \in Codes
          /\ \A q \in Request \ {r} : upload'[q] = upload[q]
      BY <1>1, <3>1, <3>2, ReplyWith DEF Replies
    <3>. QED
      BY <1>4, <3>3 DEF Refuse, WithoutTemp
  <2>3. Typed'
    BY <1>1, <2>1 DEF Typed, Codes
  <2>4. LeftBehind'
    BY <1>1, <2>1, FileNames DEF LeftBehind, Typed, Codes
  <2>5. FilesKept'
    BY <2>1 DEF FilesKept
  <2>6. RowsHaveTheirDocument'
    BY <2>1 DEF RowsHaveTheirDocument, Documents
  <2>. QED
    BY <2>3, <2>4, <2>5, <2>6
<1>5. CASE Pass(r)
  <2>1. /\ upload' \in [Request -> Upload] /\ upload[r].pc = "streamed"
        /\ upload'[r].pc = "checked" /\ upload'[r].reply = upload[r].reply
        /\ \A q \in Request \ {r} : upload'[q] = upload[q]
        /\ UNCHANGED <<temp, store, status, pages, figures, links, job, removal, faults>>
    BY <1>1, <1>5, StepTo DEF Pass, Steps
  <2>3. Typed'
    BY <1>1, <2>1 DEF Typed
  <2>4. LeftBehind'
    BY <1>1, <2>1, FileNames DEF LeftBehind, Typed, Codes
  <2>5. FilesKept'
    BY <2>1 DEF FilesKept
  <2>6. RowsHaveTheirDocument'
    BY <2>1 DEF RowsHaveTheirDocument, Documents
  <2>. QED
    BY <2>3, <2>4, <2>5, <2>6
<1>6. CASE AnswerDuplicate(r)
  <2>1. /\ upload' \in [Request -> Upload] /\ upload'[r].force = upload[r].force
        /\ \A q \in Request \ {r} : upload'[q] = upload[q]
        /\ upload[r].pc = "streamed" /\ ~upload[r].force
        /\ upload'[r].pc = "done" /\ upload'[r].reply = "DUPLICATE"
        /\ UNCHANGED <<temp, store, status, pages, figures, links, job, removal, faults>>
    BY <1>1, <1>6, ReplyWith DEF AnswerDuplicate, Replies
  <2>3. Typed'
    BY <1>1, <2>1, FaultAssumption DEF Typed, Stages, Upload, Documents
  <2>4. LeftBehind'
    BY <1>1, <2>1, FileNames DEF LeftBehind, Typed, Codes
  <2>5. FilesKept'
    BY <2>1, FileNames DEF FilesKept, Typed
  <2>6. RowsHaveTheirDocument'
    BY <2>1 DEF RowsHaveTheirDocument, Documents, Typed
  <2>. QED
    BY <2>3, <2>4, <2>5, <2>6
<1>7. CASE LookUpRaises(r)
  <2>1. /\ upload' \in [Request -> Upload] /\ upload'[r].force = upload[r].force
        /\ \A q \in Request \ {r} : upload'[q] = upload[q]
        /\ upload[r].pc = "streamed" /\ ~upload[r].force
        /\ upload'[r].pc = "done" /\ upload'[r].reply = "INTERNAL_ERROR"
        /\ faults' = faults \/ (faults < MaxFaults /\ faults' = faults + 1)
        /\ UNCHANGED <<temp, store, status, pages, figures, links, job, removal>>
    BY <1>1, <1>7, ReplyWith DEF LookUpRaises, Replies, Fault
  <2>3. Typed'
    BY <1>1, <2>1, FaultAssumption DEF Typed, Stages, Upload, Documents
  <2>4. LeftBehind'
    BY <1>1, <2>1, FileNames DEF LeftBehind, Typed, Codes
  <2>5. FilesKept'
    BY <2>1, FileNames DEF FilesKept, Typed
  <2>6. RowsHaveTheirDocument'
    BY <2>1 DEF RowsHaveTheirDocument, Documents, Typed
  <2>. QED
    BY <2>3, <2>4, <2>5, <2>6
<1>8. CASE Store(r)
  <2>1. /\ upload' \in [Request -> Upload] /\ upload'[r].force = upload[r].force
        /\ \A q \in Request \ {r} : upload'[q] = upload[q]
        /\ upload[r].pc = "checked"
        /\ upload'[r].pc = "saved" /\ upload'[r].reply = upload[r].reply
        /\ store' = store \cup {Source(r)}
        /\ UNCHANGED <<temp, status, pages, figures, links, job, removal, faults>>
    BY <1>1, <1>8, StepTo DEF Store, Steps
  <2>3. Typed'
    BY <1>1, <2>1, FaultAssumption DEF Typed, Stages, Upload, Documents
  <2>4. LeftBehind'
    BY <1>1, <2>1, FileNames DEF LeftBehind, Typed, Codes
  <2>5. FilesKept'
    BY <2>1, FileNames DEF FilesKept, Typed
  <2>6. RowsHaveTheirDocument'
    BY <2>1 DEF RowsHaveTheirDocument, Documents, Typed
  <2>. QED
    BY <2>3, <2>4, <2>5, <2>6
<1>9. CASE StoreRaises(r)
  <2>1. /\ upload' \in [Request -> Upload] /\ upload'[r].force = upload[r].force
        /\ \A q \in Request \ {r} : upload'[q] = upload[q]
        /\ upload[r].pc = "checked"
        /\ upload'[r].pc = "done" /\ upload'[r].reply = "INTERNAL_ERROR"
        /\ store' \in {store, store \cup {Source(r)}} /\ temp' = temp \ {r}
        /\ faults < MaxFaults /\ faults' = faults + 1
        /\ UNCHANGED <<status, pages, figures, links, job, removal>>
    BY <1>1, <1>9, ReplyWith DEF StoreRaises, Replies, Fault
  <2>3. Typed'
    BY <1>1, <2>1, FaultAssumption DEF Typed, Stages, Upload, Documents
  <2>4. LeftBehind'
    BY <1>1, <2>1, FileNames DEF LeftBehind, Typed, Codes
  <2>5. FilesKept'
    BY <2>1, FileNames DEF FilesKept, Typed
  <2>6. RowsHaveTheirDocument'
    BY <2>1 DEF RowsHaveTheirDocument, Documents, Typed
  <2>. QED
    BY <2>3, <2>4, <2>5, <2>6
<1>10. CASE Unlink(r)
  <2>1. /\ upload' \in [Request -> Upload] /\ upload'[r].force = upload[r].force
        /\ \A q \in Request \ {r} : upload'[q] = upload[q]
        /\ upload[r].pc = "saved"
        /\ upload'[r].pc = "stored" /\ upload'[r].reply = upload[r].reply
        /\ temp' = temp \ {r}
        /\ UNCHANGED <<store, status, pages, figures, links, job, removal, faults>>
    BY <1>1, <1>10, StepTo DEF Unlink, Steps
  <2>3. Typed'
    BY <1>1, <2>1, FaultAssumption DEF Typed, Stages, Upload, Documents
  <2>4. LeftBehind'
    BY <1>1, <2>1, FileNames DEF LeftBehind, Typed, Codes
  <2>5. FilesKept'
    BY <2>1, FileNames DEF FilesKept, Typed
  <2>6. RowsHaveTheirDocument'
    BY <2>1 DEF RowsHaveTheirDocument, Documents, Typed
  <2>. QED
    BY <2>3, <2>4, <2>5, <2>6
<1>11. CASE Enqueue(r)
  <2>1. /\ upload' \in [Request -> Upload] /\ upload'[r].force = upload[r].force
        /\ \A q \in Request \ {r} : upload'[q] = upload[q]
        /\ upload[r].pc = "stored"
        /\ upload'[r].pc = "enqueued" /\ upload'[r].reply = upload[r].reply
        /\ job' = [job EXCEPT ![r] = "sent"]
        /\ UNCHANGED <<temp, store, status, pages, figures, links, removal, faults>>
    BY <1>1, <1>11, StepTo DEF Enqueue, Steps
  <2>3. Typed'
    BY <1>1, <2>1, FaultAssumption DEF Typed, Stages, Upload, Documents
  <2>4. LeftBehind'
    BY <1>1, <2>1, FileNames DEF LeftBehind, Typed, Codes
  <2>5. FilesKept'
    BY <2>1, FileNames DEF FilesKept, Typed
  <2>6. RowsHaveTheirDocument'
    BY <2>1 DEF RowsHaveTheirDocument, Documents, Typed
  <2>. QED
    BY <2>3, <2>4, <2>5, <2>6
<1>12. CASE EnqueueRaises(r)
  <2>1. /\ upload' \in [Request -> Upload] /\ upload'[r].force = upload[r].force
        /\ \A q \in Request \ {r} : upload'[q] = upload[q]
        /\ upload[r].pc = "stored"
        /\ upload'[r].pc = "done" /\ upload'[r].reply = "QUEUE_UNAVAILABLE"
        /\ job' \in {job, [job EXCEPT ![r] = "sent"]}
        /\ faults < MaxFaults /\ faults' = faults + 1
        /\ UNCHANGED <<temp, store, status, pages, figures, links, removal>>
    BY <1>1, <1>12, ReplyWith DEF EnqueueRaises, Replies, Fault
  <2>3. Typed'
    BY <1>1, <2>1, FaultAssumption DEF Typed, Stages, Upload, Documents
  <2>4. LeftBehind'
    BY <1>1, <2>1, FileNames DEF LeftBehind, Typed, Codes
  <2>5. FilesKept'
    BY <2>1, FileNames DEF FilesKept, Typed
  <2>6. RowsHaveTheirDocument'
    BY <2>1 DEF RowsHaveTheirDocument, Documents, Typed
  <2>. QED
    BY <2>3, <2>4, <2>5, <2>6
<1>13. CASE FindTarget(r)
  <2>1. /\ upload' \in [Request -> Upload] /\ upload'[r].force = upload[r].force
        /\ \A q \in Request \ {r} : upload'[q] = upload[q]
        /\ upload[r].pc = "enqueued"
        /\ \/ upload'[r].pc = "linked" /\ upload'[r].reply = upload[r].reply
           \/ upload'[r].pc = "done" /\ upload'[r].reply = "NOT_FOUND"
        /\ UNCHANGED <<temp, store, status, pages, figures, links, job, removal, faults>>
    BY <1>1, <1>13, StepTo, ReplyWith DEF FindTarget, Steps, Replies
  <2>3. Typed'
    BY <1>1, <2>1, FaultAssumption DEF Typed, Stages, Upload, Documents
  <2>4. LeftBehind'
    BY <1>1, <2>1, FileNames DEF LeftBehind, Typed, Codes
  <2>5. FilesKept'
    BY <2>1, FileNames DEF FilesKept, Typed
  <2>6. RowsHaveTheirDocument'
    BY <2>1 DEF RowsHaveTheirDocument, Documents, Typed
  <2>. QED
    BY <2>3, <2>4, <2>5, <2>6
<1>14. CASE CommitUpload(r)
  <2>1. /\ upload' \in [Request -> Upload] /\ upload'[r].force = upload[r].force
        /\ \A q \in Request \ {r} : upload'[q] = upload[q]
        /\ upload[r].pc = "linked"
        /\ upload'[r].pc = "committed" /\ upload'[r].reply = upload[r].reply
        /\ upload[r].link \subseteq Documents /\ status' = [status EXCEPT ![r] = "queued"]
        /\ links' = links \cup {<<r, t>> : t \in upload[r].link}
        /\ UNCHANGED <<temp, store, pages, figures, job, removal, faults>>
    BY <1>1, <1>14, StepTo DEF CommitUpload, Insert, TargetsExist, Steps
  <2>3. Typed'
    BY <1>1, <2>1, FaultAssumption DEF Typed, Stages, Upload, Documents
  <2>4. LeftBehind'
    BY <1>1, <2>1, FileNames DEF LeftBehind, Typed, Codes
  <2>5. FilesKept'
    BY <2>1, FileNames DEF FilesKept, Typed
  <2>6. RowsHaveTheirDocument'
    BY <2>1 DEF RowsHaveTheirDocument, Documents, Typed
  <2>. QED
    BY <2>3, <2>4, <2>5, <2>6
<1>15. CASE Accept(r)
  <2>1. /\ upload' \in [Request -> Upload] /\ upload'[r].force = upload[r].force
        /\ \A q \in Request \ {r} : upload'[q] = upload[q]
        /\ upload[r].pc = "committed"
        /\ upload'[r].pc = "done" /\ upload'[r].reply = "ACCEPTED"
        /\ UNCHANGED <<temp, store, status, pages, figures, links, job, removal, faults>>
    BY <1>1, <1>15, ReplyWith DEF Accept, Replies
  <2>3. Typed'
    BY <1>1, <2>1, FaultAssumption DEF Typed, Stages, Upload, Documents
  <2>4. LeftBehind'
    BY <1>1, <2>1, FileNames DEF LeftBehind, Typed, Codes
  <2>5. FilesKept'
    BY <2>1, FileNames DEF FilesKept, Typed
  <2>6. RowsHaveTheirDocument'
    BY <2>1 DEF RowsHaveTheirDocument, Documents, Typed
  <2>. QED
    BY <2>3, <2>4, <2>5, <2>6
<1>16. CASE CommitUploadRaises(r)
  <2>1. /\ upload' \in [Request -> Upload] /\ upload'[r].force = upload[r].force
        /\ \A q \in Request \ {r} : upload'[q] = upload[q]
        /\ upload[r].pc \in {"enqueued", "linked"}
        /\ upload'[r].pc = "done" /\ upload'[r].reply = "INTERNAL_ERROR"
        /\ \/ UNCHANGED <<status, links>>
           \/ /\ upload[r].pc = "linked" /\ upload[r].link \subseteq Documents /\ status' = [status EXCEPT ![r] = "queued"]
              /\ links' = links \cup {<<r, t>> : t \in upload[r].link}
        /\ faults' = faults \/ (faults < MaxFaults /\ faults' = faults + 1)
        /\ UNCHANGED <<temp, store, pages, figures, job, removal>>
    BY <1>1, <1>16, ReplyWith DEF CommitUploadRaises, Insert, TargetsExist, Replies, Fault
  <2>3. Typed'
    BY <1>1, <2>1, FaultAssumption DEF Typed, Stages, Upload, Documents
  <2>4. LeftBehind'
    BY <1>1, <2>1, FileNames DEF LeftBehind, Typed, Codes
  <2>5. FilesKept'
    BY <2>1, FileNames DEF FilesKept, Typed
  <2>6. RowsHaveTheirDocument'
    BY <2>1 DEF RowsHaveTheirDocument, Documents, Typed
  <2>. QED
    BY <2>3, <2>4, <2>5, <2>6
<1>. QED
  BY <1>2, <1>3, <1>4, <1>5, <1>6, <1>7, <1>8, <1>9, <1>10, <1>11, <1>12, <1>13, <1>14, <1>15, <1>16

\* A delete, and what a document's jobs store and write while it comes and goes.
LEMMA DeletionStep ==
  ASSUME IntakeInv, NEW d \in Request, DeleteFile(d) \/ DeleteRow(d)
  PROVE  IntakeInv'
<1> USE DEF IntakeInv
<1>1. faults \in Nat
  BY FaultAssumption DEF Typed
<1>3. CASE DeleteFile(d)
  <2>1. /\ store' \in {store, store \ {Source(d)}}
        /\ faults' = faults \/ (faults < MaxFaults /\ faults' = faults + 1)
        /\ status[d] # "none" /\ removal' = [removal EXCEPT ![d] = "begun"]
        /\ UNCHANGED <<upload, temp, status, pages, figures, links, job>>
    BY <1>3 DEF DeleteFile, Fault, Documents
  <2>2. Typed'
    BY <1>1, <2>1, FaultAssumption DEF Typed
  <2>3. LeftBehind'
    BY <2>1 DEF LeftBehind
  <2>4. FilesKept'
    <3>1. upload[d].pc \in {"committed", "done"}
      BY <2>1 DEF LeftBehind, Typed
    <3>. QED
      BY <2>1, <3>1, FileNames DEF FilesKept, Typed
  <2>5. RowsHaveTheirDocument'
    BY <2>1 DEF RowsHaveTheirDocument, Documents
  <2>. QED
    BY <2>2, <2>3, <2>4, <2>5
<1>4. CASE DeleteRow(d)
  <2>1. /\ status' = [status EXCEPT ![d] = "none"] /\ removal' = [removal EXCEPT ![d] = "none"]
        /\ pages' = pages \ {d} /\ figures' = figures \ {d}
        /\ links' = {l \in links : d \notin {l[1], l[2]}}
        /\ UNCHANGED <<upload, temp, store, job, faults>>
    BY <1>4 DEF DeleteRow, Cascaded
  <2>2. Typed'
    BY <2>1 DEF Typed
  <2>3. LeftBehind'
    BY <2>1 DEF LeftBehind, Typed
  <2>4. FilesKept'
    BY <2>1 DEF FilesKept, Typed
  <2>5. RowsHaveTheirDocument'
    BY <2>1 DEF RowsHaveTheirDocument, Documents, Typed
  <2>. QED
    BY <2>2, <2>3, <2>4, <2>5
<1>. QED
  BY <1>3, <1>4

\* A step of a document's jobs: files are added before the rows that name them,
\* and a row only for a document that is there.
LEMMA JobStep ==
  ASSUME IntakeInv, NEW d \in Request,
         \/ NotFound(d) \/ Start(d) \/ Render(d) \/ RenderRaises(d) \/ SavePages(d)
         \/ Crop(d) \/ SaveQuestions(d) \/ WorkerLost(d)
  PROVE  IntakeInv'
<1> USE DEF IntakeInv
<1>1. faults \in Nat
  BY FaultAssumption DEF Typed
<1>2. /\ UNCHANGED <<upload, temp, links, removal>> /\ job[d] # "none"
      /\ faults' = faults \/ (faults < MaxFaults /\ faults' = faults + 1)
  BY DEF NotFound, Start, Render, RenderRaises, SavePages, Crop, SaveQuestions, WorkerLost, Fault
<1>3. CASE NotFound(d)
  <2>1. job' = [job EXCEPT ![d] = "none"] /\ UNCHANGED <<store, status, pages, figures>>
    BY <1>3 DEF NotFound, Leave, Advance
  <2>2. Typed'
    BY <1>1, <1>2, <2>1, FaultAssumption DEF Typed, Stages
  <2>3. LeftBehind'
    BY <1>2, <2>1 DEF LeftBehind, Typed
  <2>4. FilesKept'
    BY <1>2, <2>1 DEF FilesKept, Typed
  <2>5. RowsHaveTheirDocument'
    BY <1>2, <2>1 DEF RowsHaveTheirDocument, Documents, Typed
  <2>. QED
    BY <2>2, <2>3, <2>4, <2>5
<1>4. CASE Start(d)
  <2>1. /\ job' = [job EXCEPT ![d] = "started"] /\ status[d] # "none"
        /\ status' = [status EXCEPT ![d] = "processing"]
        /\ UNCHANGED <<store, pages, figures>>
    BY <1>4 DEF Start, Advance, Documents
  <2>2. Typed'
    BY <1>1, <1>2, <2>1, FaultAssumption DEF Typed, Stages
  <2>3. LeftBehind'
    BY <1>2, <2>1 DEF LeftBehind, Typed
  <2>4. FilesKept'
    BY <1>2, <2>1 DEF FilesKept, Typed
  <2>5. RowsHaveTheirDocument'
    BY <1>2, <2>1 DEF RowsHaveTheirDocument, Documents, Typed
  <2>. QED
    BY <2>2, <2>3, <2>4, <2>5
<1>5. CASE Render(d)
  <2>1. /\ job' = [job EXCEPT ![d] = "rendered"] /\ store' = store \cup {PageImages(d)}
        /\ UNCHANGED <<status, pages, figures>>
    BY <1>5 DEF Render, Advance
  <2>2. Typed'
    BY <1>1, <1>2, <2>1, FaultAssumption DEF Typed, Stages
  <2>3. LeftBehind'
    BY <1>2, <2>1, FileNames DEF LeftBehind, Typed
  <2>4. FilesKept'
    BY <1>2, <2>1, FileNames DEF FilesKept, Typed
  <2>5. RowsHaveTheirDocument'
    BY <1>2, <2>1 DEF RowsHaveTheirDocument, Documents, Typed
  <2>. QED
    BY <2>2, <2>3, <2>4, <2>5
<1>6. CASE RenderRaises(d)
  <2>1. /\ job' = [job EXCEPT ![d] = "none"]
        /\ status' = [status EXCEPT ![d] = IF @ = "none" THEN @ ELSE "failed"]
        /\ UNCHANGED <<store, pages, figures>>
    BY <1>6 DEF RenderRaises, Leave, Advance
  <2>2. Typed'
    BY <1>1, <1>2, <2>1, FaultAssumption DEF Typed, Stages
  <2>3. LeftBehind'
    BY <1>2, <2>1 DEF LeftBehind, Typed
  <2>4. FilesKept'
    BY <1>2, <2>1 DEF FilesKept, Typed
  <2>5. RowsHaveTheirDocument'
    BY <1>2, <2>1 DEF RowsHaveTheirDocument, Documents, Typed
  <2>. QED
    BY <2>2, <2>3, <2>4, <2>5
<1>7. CASE SavePages(d)
  <2>1. /\ job[d] = "rendered" /\ UNCHANGED <<store, status, figures>>
        /\ \/ /\ status[d] # "none" /\ pages' = pages \cup {d}
              /\ job' = [job EXCEPT ![d] = "extracted"]
           \/ pages' = pages /\ job' = [job EXCEPT ![d] = "none"]
    BY <1>7 DEF SavePages, Leave, Advance, Referenced, Documents
  <2>2. Typed'
    BY <1>1, <1>2, <2>1, FaultAssumption DEF Typed, Stages
  <2>3. LeftBehind'
    BY <1>2, <2>1 DEF LeftBehind, Typed
  <2>4. FilesKept'
    BY <1>2, <2>1 DEF FilesKept, Typed
  <2>5. RowsHaveTheirDocument'
    BY <1>2, <2>1 DEF RowsHaveTheirDocument, Documents, Typed
  <2>. QED
    BY <2>2, <2>3, <2>4, <2>5
<1>8. CASE Crop(d)
  <2>1. /\ job' = [job EXCEPT ![d] = "cropped"] /\ store' = store \cup {Crops(d)}
        /\ UNCHANGED <<status, pages, figures>>
    BY <1>8 DEF Crop, Advance
  <2>2. Typed'
    BY <1>1, <1>2, <2>1, FaultAssumption DEF Typed, Stages
  <2>3. LeftBehind'
    BY <1>2, <2>1, FileNames DEF LeftBehind, Typed
  <2>4. FilesKept'
    BY <1>2, <2>1, FileNames DEF FilesKept, Typed
  <2>5. RowsHaveTheirDocument'
    BY <1>2, <2>1 DEF RowsHaveTheirDocument, Documents, Typed
  <2>. QED
    BY <2>2, <2>3, <2>4, <2>5
<1>9. CASE SaveQuestions(d)
  <2>1. /\ job[d] = "cropped" /\ job' = [job EXCEPT ![d] = "none"]
        /\ UNCHANGED <<store, pages>>
        /\ \/ /\ status[d] # "none" /\ figures' = figures \cup {d}
              /\ status' = [status EXCEPT ![d] = "completed"]
           \/ UNCHANGED <<figures, status>>
    BY <1>9 DEF SaveQuestions, Leave, Advance, Referenced, Documents
  <2>2. Typed'
    BY <1>1, <1>2, <2>1, FaultAssumption DEF Typed, Stages
  <2>3. LeftBehind'
    BY <1>2, <2>1 DEF LeftBehind, Typed
  <2>4. FilesKept'
    BY <1>2, <2>1 DEF FilesKept, Typed
  <2>5. RowsHaveTheirDocument'
    BY <1>2, <2>1 DEF RowsHaveTheirDocument, Documents, Typed
  <2>. QED
    BY <2>2, <2>3, <2>4, <2>5
<1>10. CASE WorkerLost(d)
  <2>1. /\ job' = [job EXCEPT ![d] = IF job[d] \in {"extracted", "cropped"} THEN "extracted" ELSE "sent"]
        /\ UNCHANGED <<store, status, pages, figures>>
    BY <1>10 DEF WorkerLost, Advance
  <2>2. Typed'
    BY <1>1, <1>2, <2>1, FaultAssumption DEF Typed, Stages
  <2>3. LeftBehind'
    BY <1>2, <2>1 DEF LeftBehind, Typed
  <2>4. FilesKept'
    BY <1>2, <2>1 DEF FilesKept, Typed
  <2>5. RowsHaveTheirDocument'
    BY <1>2, <2>1 DEF RowsHaveTheirDocument, Documents, Typed
  <2>. QED
    BY <2>2, <2>3, <2>4, <2>5
<1>. QED
  BY <1>3, <1>4, <1>5, <1>6, <1>7, <1>8, <1>9, <1>10

\* The API process dies: its requests are answered by nobody, and what they have
\* stored or sent stays.
LEMMA ApiLostStep ==
  ASSUME IntakeInv, ApiLost
  PROVE  IntakeInv'
<1> USE DEF IntakeInv
<1>1. faults \in Nat
  BY FaultAssumption DEF Typed
<1>3. /\ upload' = [r \in Request |->
                     IF Waiting(r) THEN upload[r]
                     ELSE [upload[r] EXCEPT !.pc = "done", !.link = {}, !.reply = "LOST"]]
      /\ removal' = [d \in Request |-> IF removal[d] = "begun" THEN "cut" ELSE removal[d]]
      /\ faults < MaxFaults /\ faults' = faults + 1
      /\ UNCHANGED <<temp, store, status, pages, figures, links, job>>
  BY DEF ApiLost, Fault
<1>4. ASSUME NEW r \in Request
      PROVE  /\ upload'[r] \in Upload
             /\ upload[r].pc = "done" => upload'[r] = upload[r]
             /\ \/ upload'[r] = upload[r]
                \/ upload'[r].pc = "done" /\ upload'[r].reply = "LOST"
  <2>1. upload[r] \in Upload
    BY DEF Typed
  <2>2. [upload[r] EXCEPT !.pc = "done", !.link = {}, !.reply = "LOST"] \in Upload
    BY <2>1 DEF Upload, Steps, Replies
  <2>3. /\ [upload[r] EXCEPT !.pc = "done", !.link = {}, !.reply = "LOST"].pc = "done"
        /\ [upload[r] EXCEPT !.pc = "done", !.link = {}, !.reply = "LOST"].reply = "LOST"
    BY <2>1 DEF Upload
  <2>. QED
    BY <1>3, <2>1, <2>2, <2>3 DEF Waiting
<1>5. Typed'
  <2>1. upload' \in [Request -> Upload]
    BY <1>3, <1>4
  <2>2. removal' \in [Request -> {"none", "begun", "cut"}]
    BY <1>3 DEF Typed
  <2>3. \A r \in Request : (upload'[r].pc = "done") <=> (upload'[r].reply # "none")
    BY <1>4 DEF Typed
  <2>4. /\ faults < MaxFaults /\ faults' = faults + 1
        /\ UNCHANGED <<temp, pages, figures, links, status, job>>
    BY <1>3
  <2>. QED
    BY <1>1, <2>1, <2>2, <2>3, <2>4, FaultAssumption DEF Typed
<1>6. LeftBehind'
  BY ZenonT(60), <1>3, <1>4 DEF LeftBehind, Typed, Codes
<1>7. FilesKept'
  BY <1>3, <1>4 DEF FilesKept, Typed
<1>8. RowsHaveTheirDocument'
  BY <1>3 DEF RowsHaveTheirDocument, Documents
<1>. QED
  BY <1>5, <1>6, <1>7, <1>8

LEMMA IntakeInitInv ==
  ASSUME Init
  PROVE  IntakeInv
<1> USE DEF Init
<1>1. Fresh \in Upload /\ Fresh.pc = "new" /\ Fresh.reply = "none"
  BY DEF Fresh, Upload, Steps, Replies
<1>2. Typed
  BY <1>1, FaultAssumption DEF Typed, Stages
<1>3. LeftBehind /\ FilesKept /\ RowsHaveTheirDocument
  BY <1>1 DEF LeftBehind, FilesKept, RowsHaveTheirDocument, Documents
<1>. QED
  BY <1>2, <1>3 DEF IntakeInv

LEMMA IntakeNextInv ==
  ASSUME IntakeInv, [Next]_vars
  PROVE  IntakeInv'
<1>1. CASE Uploading
  BY <1>1, UploadStep DEF Uploading
<1>2. CASE Deleting
  BY <1>2, DeletionStep DEF Deleting
<1>3. CASE Working
  BY <1>3, JobStep DEF Working
<1>4. CASE ApiLost
  BY <1>4, ApiLostStep
<1>5. CASE Limiting \/ UNCHANGED vars
  <2>1. /\ UNCHANGED <<upload, temp, store, status, pages, figures, links, job, removal>>
        /\ faults' = faults \/ (faults < MaxFaults /\ faults' = faults + 1)
    BY <1>5 DEF Limiting, Fault, vars, fileVars
  <2>2. Typed'
    BY <2>1, FaultAssumption DEF IntakeInv, Typed
  <2>3. LeftBehind' /\ FilesKept' /\ RowsHaveTheirDocument'
    BY <2>1 DEF IntakeInv, LeftBehind, FilesKept, RowsHaveTheirDocument, Documents
  <2>. QED
    BY <2>2, <2>3 DEF IntakeInv
<1>. QED
  BY <1>1, <1>2, <1>3, <1>4, <1>5 DEF Next

\* The invariant is one of every behaviour: where a request is tells what it has
\* left.
THEOREM IntakeInvariant == Spec => []IntakeInv
BY IntakeInitInv, IntakeNextInv, PTL DEF Spec

\* Whatever uploads, deletions, jobs and failures do, the rate limit takes steps
\* of its own only: what RateLimit promises holds of the uploads.
THEOREM UploadsAreLimited == Spec => RateSpec
<1>1. ASSUME [Next]_vars
      PROVE  [RateNext]_rateVars
  <2>1. CASE Uploading
    <3>1. PICK r \in Request :
            \/ Ask(r) \/ Stream(r) \/ Refuse(r) \/ Pass(r) \/ AnswerDuplicate(r) \/ LookUpRaises(r)
            \/ Store(r) \/ StoreRaises(r) \/ Unlink(r) \/ Enqueue(r) \/ EnqueueRaises(r)
            \/ FindTarget(r) \/ CommitUpload(r) \/ CommitUploadRaises(r) \/ Accept(r)
      BY <2>1 DEF Uploading
    <3>2. CASE Ask(r)
      BY <3>2 DEF Ask, RateNext, Asks, Answers
    <3>3. CASE ~Ask(r)
      <4>1. UNCHANGED rateVars
        BY <3>1, <3>3 DEF Stream, Refuse, Pass, AnswerDuplicate, LookUpRaises, Store, StoreRaises,
                          Unlink, Enqueue, EnqueueRaises, FindTarget, CommitUpload,
                          CommitUploadRaises, Accept
      <4>. QED
        BY <4>1
    <3>. QED
      BY <3>2, <3>3
  <2>2. CASE Deleting
    BY <2>2 DEF Deleting, DeleteFile, DeleteRow
  <2>3. CASE Working
    BY <2>3 DEF Working, NotFound, Start, Render, RenderRaises, SavePages, Crop, SaveQuestions,
                WorkerLost
  <2>4. CASE ApiLost
    BY <2>4 DEF ApiLost, RateNext
  <2>5. CASE Limiting
    BY <2>5 DEF Limiting, RateNext, Asks
  <2>6. CASE UNCHANGED vars
    BY <2>6 DEF vars
  <2>. QED
    BY <1>1, <2>1, <2>2, <2>3, <2>4, <2>5, <2>6 DEF Next
<1>2. Init => RateInit
  BY DEF Init
<1>. QED
  BY <1>1, <1>2, PTL DEF Spec, RateSpec

\* upload_document, delete_document and the jobs keep every value in its type,
\* and a request has its reply when it is done, not before.
THEOREM IntakeTypes == Spec => []TypeOK
<1>1. IntakeInv /\ RateInv => TypeOK
  BY WindowAssumption DEF IntakeInv, Typed, TypeOK, RateInv, RateType, AskSteps, Upload, Stages
<1>. QED
  BY <1>1, IntakeInvariant, UploadsAreLimited, RateInvariant, PTL

\* upload_document: what an upload leaves behind, of files, tasks and rows, is
\* what its reply says, for every set of requests and files.
THEOREM RepliesAreTrue == Spec => []RepliesTellWhatIsLeft
<1>1. IntakeInv => RepliesTellWhatIsLeft
  BY DEF IntakeInv, LeftBehind, RepliesTellWhatIsLeft, Codes
<1>. QED
  BY <1>1, IntakeInvariant, PTL

\* Rows have the files they name, whatever is requested, lost or run again.
THEOREM FilesOutliveTheirRows == Spec => []RowsHaveTheirFiles
<1>1. IntakeInv => RowsHaveTheirFiles
  BY DEF IntakeInv, FilesKept, RowsHaveTheirFiles, Documents
<1>. QED
  BY <1>1, IntakeInvariant, PTL

\* No row refers to a document that was deleted.
THEOREM NoDanglingReference == Spec => []RowsHaveTheirDocument
BY IntakeInvariant, PTL DEF IntakeInv
=============================================================================
