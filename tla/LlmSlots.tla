------------------------------ MODULE LlmSlots ------------------------------
(***************************************************************************)
(* GeminiExtractor.extract_page and acquire_llm_slot                       *)
(* (app/pipeline/extractors): at most two attempts at a model call, each   *)
(* under a slot of the Redis sorted set llm:active_slots.  Slots are       *)
(* counted in one round trip and added in another.  A slot lives through   *)
(* its call, which is shorter (llm_timeout_s) than the time after which a  *)
(* slot expires (twice that): only a slot nobody holds any more expires.   *)
(***************************************************************************)
EXTENDS Naturals, FiniteSets

CONSTANTS Client,          \* worker processes, one task each
          MaxConcurrency,  \* llm_max_concurrency, at least 1
          MaxFaults        \* bound on calls, processes and connections lost

ASSUME MaxConcurrencyAssumption == MaxConcurrency \in Nat \ {0}
ASSUME BoundAssumption == IsFiniteSet(Client) /\ MaxFaults \in Nat

VARIABLES pc,       \* where each client is in extract_page
          attempt,  \* which of the two attempts
          slots,    \* the clients whose token is in the sorted set
          leaked,   \* tokens in the set whose holder is gone
          faults

vars == <<pc, attempt, slots, leaked, faults>>

Pc == {"idle", "ping", "poll", "add", "call", "rules"}

TypeOK == /\ pc \in [Client -> Pc] /\ attempt \in [Client -> 0..1]
          /\ slots \subseteq Client /\ leaked \in Nat /\ faults \in 0..MaxFaults

Init == /\ pc = [c \in Client |-> "idle"] /\ attempt = [c \in Client |-> 0]
        /\ slots = {} /\ leaked = 0 /\ faults = 0

Goto(c, from, to) == pc[c] = from /\ pc' = [pc EXCEPT ![c] = to]
Fault == faults < MaxFaults /\ faults' = faults + 1

Begin(c) == Goto(c, "idle", "ping") /\ attempt' = [attempt EXCEPT ![c] = 0]
            /\ UNCHANGED <<slots, leaked, faults>>

Ping(c) == Goto(c, "ping", "poll") /\ UNCHANGED <<attempt, slots, leaked, faults>>

\* Redis does not answer: the process's own semaphore, which is free.
PingFails(c) == Goto(c, "ping", "call") /\ Fault /\ UNCHANGED <<attempt, slots, leaked>>

RoomOrFull == Cardinality(slots) + leaked <= MaxConcurrency
Room == Cardinality(slots) + leaked < MaxConcurrency

\* zremrangebyscore and zcard; a client that finds no room sleeps and polls again ...
Poll(c) == Room /\ Goto(c, "poll", "add") /\ UNCHANGED <<attempt, slots, leaked, faults>>
\* ... and goes ahead without a slot when its time is over.
NeverGiveUp(c) == FALSE
GiveUp(c) == Goto(c, "poll", "call") /\ UNCHANGED <<attempt, slots, leaked, faults>>
Add(c) == Goto(c, "add", "call") /\ slots' = slots \cup {c}
          /\ UNCHANGED <<attempt, leaked, faults>>

\* Redis fails while a slot is looked for: the attempt has failed, and if the
\* zadd was executed its token stays.
CountedAttempt(c) ==
  /\ pc' = [pc EXCEPT ![c] = IF attempt[c] = 0 THEN "ping" ELSE "rules"]
  /\ attempt' = [attempt EXCEPT ![c] = @ + 1]
NextAttempt(c) ==
  /\ pc' = [pc EXCEPT ![c] = IF attempt[c] = 0 THEN "ping" ELSE "rules"]
  /\ attempt' = [attempt EXCEPT ![c] = 1]
SlotRaises(c) == /\ pc[c] \in {"poll", "add"} /\ Fault /\ NextAttempt(c)
                 /\ leaked' \in {leaked} \cup (IF pc[c] = "add" THEN {leaked + 1} ELSE {})
                 /\ UNCHANGED slots

Released(c) == slots' = slots \ {c}
Return(c) == Goto(c, "call", "idle") /\ Released(c) /\ UNCHANGED <<attempt, leaked, faults>>
\* The call raises, and zrem may fail on the way out.
CallRaises(c) == /\ pc[c] = "call" /\ Fault /\ NextAttempt(c) /\ Released(c)
                 /\ leaked' \in {leaked} \cup (IF c \in slots THEN {leaked + 1} ELSE {})

\* zrem fails, which is logged and ignored.
ReleaseFails(c) == /\ c \in slots /\ Goto(c, "call", "idle") /\ Fault
                   /\ Released(c) /\ leaked' = leaked + 1 /\ UNCHANGED attempt

\* Two failed attempts: the rules extractor.
Rules(c) == Goto(c, "rules", "idle") /\ UNCHANGED <<attempt, slots, leaked, faults>>

\* The process is lost, its slot stays until it expires.
Lost(c) == /\ pc[c] # "idle" /\ Fault
           /\ pc' = [pc EXCEPT ![c] = "idle"]
           /\ leaked' = IF c \in slots THEN leaked + 1 ELSE leaked
           /\ Released(c) /\ UNCHANGED attempt

\* Expired tokens are dropped by whoever polls.
Expire == leaked > 0 /\ (\E c \in Client : pc[c] = "poll") /\ leaked' = leaked - 1
          /\ UNCHANGED <<pc, attempt, slots, faults>>

Step(c) == Ping(c) \/ Poll(c) \/ GiveUp(c) \/ Add(c) \/ Return(c) \/ Rules(c)
Failure(c) == PingFails(c) \/ SlotRaises(c) \/ CallRaises(c) \/ ReleaseFails(c) \/ Lost(c)
Next == Expire \/ \E c \in Client : Begin(c) \/ Step(c) \/ Failure(c)

Spec == Init /\ [][Next]_vars
FairSpec == Spec /\ \A c \in Client : WF_vars(Step(c))

-----------------------------------------------------------------------------
\* Counting and adding are two steps, so the slots may exceed the limit; but by
\* no more than the other clients, also when slots leak and expire meanwhile.
OvershootIsBounded ==
  Client # {} => Cardinality(slots) + leaked < MaxConcurrency + Cardinality(Client)

\* Only a client in its call holds a slot: no path out of the call, by an error
\* or by a retry, keeps one and shuts others out.
SlotsAreUsed == \A c \in slots : pc[c] = "call"

\* No extraction waits for ever, not even behind slots that leaked.
ExtractionEnds == \A c \in Client : pc[c] # "idle" ~> pc[c] = "idle"

\* SPEC.md 7.4: the limiter caps concurrent LLM calls, so no more slots are taken
\* than llm_max_concurrency.
SlotsWithinLimit == Cardinality(slots) <= MaxConcurrency
=============================================================================
