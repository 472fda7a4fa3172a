---------------------------- MODULE ModelTesting ----------------------------
(***************************************************************************)
(* Tests of the mappings (apps/api/src/model-testing.service.ts,           *)
(* packages/gateway-core/src/model-health.ts): an administrator's test or  *)
(* conversation, and the worker's pass over the mappings that are due.     *)
(* The answer of the supplier comes long after the mapping was read; the   *)
(* number of failures in a row is then moved by compare-and-set, while     *)
(* other tests, rebindings and archivings go on.                           *)
(***************************************************************************)
EXTENDS Catalog

CONSTANTS
  Tests,         \* concurrent tests
  MaxClock,      \* bound on the instants of tests
  ProbeInterval, \* instants between two scheduled tests of a mapping
  MaxTries,      \* attempts of the compare-and-set (5 in the code)
  MaxFailures    \* bound on the failures counted

ASSUME TestingAssumption ==
  {MaxClock, MaxTries, MaxFailures} \subseteq Nat /\ ProbeInterval \in Nat \ {0}

VARIABLES
  tests,    \* tests[t]: a test under way
  clock,    \* the instant; 0 stands for null in `tested`
  inARow,   \* inARow[b]: failures that were recorded since a success or a binding
  claims    \* claims[b]: the instants of last tests from which b was claimed since
            \* the last outcome of b was recorded

testingVars == <<tests, clock, inARow, claims>>

TestingInit ==
  /\ tests = [t \in Tests |-> Idle]
  /\ clock = 1
  /\ inARow = [b \in Mappings |-> 0]
  /\ claims = [b \in Mappings |-> {}]

\* nextModelHealth.
NextHealth(failures, outcome) ==
  IF outcome = "ok" THEN [health |-> "HEALTHY", failures |-> 0]
  ELSE [health |-> IF outcome = "terminal" \/ failures + 1 >= 3 THEN "UNHEALTHY" ELSE "DEGRADED",
        failures |-> failures + 1]

Testable(b) ==
  LET c == mappings[b].channel
  IN /\ Live(mappings[b]) /\ ParentsLive(b)
     /\ mappings[b].enabled /\ channels[c].enabled
     /\ UsableKeys(c) # {}

Due(b) ==
  LET c == mappings[b].channel
  IN /\ Live(mappings[b]) /\ mappings[b].enabled /\ mappings[b].probed
     /\ Live(channels[c]) /\ channels[c].enabled /\ Live(models[mappings[b].model])
     /\ mappings[b].tested = 0 \/ mappings[b].tested + ProbeInterval <= clock

Step(t, test) == tests' = [tests EXCEPT ![t] = test]

\* The pass of a worker reads the mappings that are due ...
Scan(t, b) ==
  /\ tests[t] = Idle /\ Due(b)
  /\ Step(t, [op |-> "CLAIM", mapping |-> b, seen |-> mappings[b].tested, at |-> clock])
  /\ UNCHANGED <<mappings, clock, inARow, claims>>

\* Mutant of Claimable: the claim does not compare the instant that was read.
ClaimableBlindly(t) == Live(mappings[tests[t].mapping])

Claimable(t) ==
  /\ Live(mappings[tests[t].mapping])
  /\ mappings[tests[t].mapping].tested = tests[t].seen

\* ... and claims each of them by compare-and-set before it tests it.
Claim(t) ==
  LET b == tests[t].mapping
  IN /\ tests[t].op = "CLAIM" /\ LockFree("row", b)
     /\ IF Claimable(t)
        THEN /\ mappings' = [mappings EXCEPT ![b].tested = tests[t].at]
             /\ claims' = [claims EXCEPT ![b] = @ \cup {tests[t].seen}]
             /\ Step(t, [op |-> "CLAIMED", mapping |-> b, again |-> tests[t].seen \in claims[b]])
        ELSE Step(t, Idle) /\ UNCHANGED <<mappings, claims>>
     /\ UNCHANGED <<clock, inARow>>

\* testChannelModel and runConversation read the mapping and call the supplier.
Send(t, b) ==
  /\ tests[t] = Idle \/ (tests[t].op = "CLAIMED" /\ tests[t].mapping = b)
  /\ Testable(b)
  /\ Step(t, [op |-> "SENT", mapping |-> b, failures |-> mappings[b].failures])
  /\ UNCHANGED <<mappings, clock, inARow, claims>>

\* The mapping may no longer be tested; a conversation may be cancelled.
GiveUp(t) ==
  /\ tests[t].op \in {"SENT", "CLAIMED"}
  /\ tests[t].op = "CLAIMED" => ~Testable(tests[t].mapping)
  /\ Step(t, Idle)
  /\ UNCHANGED <<mappings, clock, inARow, claims>>

\* failureCode: 401, 403 and an unknown model are terminal.  Answers come at
\* different milliseconds.
Answer(t) ==
  /\ tests[t].op = "SENT" /\ clock < MaxClock
  /\ clock' = clock + 1
  /\ \E outcome \in {"ok", "failed", "terminal"} :
       Step(t, [op |-> "RECORD", mapping |-> tests[t].mapping, failures |-> tests[t].failures,
                outcome |-> outcome, at |-> clock', tries |-> 0])
  /\ UNCHANGED <<mappings, inARow, claims>>

\* Mutant of Current: the update looks for the mapping by its id alone.
CurrentById(b, failures) == Live(mappings[b])

Current(b, failures) == Live(mappings[b]) /\ mappings[b].failures = failures

\* applyHealthTransition: one attempt of the compare-and-set; when it fails
\* the number is read again, at most MaxTries times.
Record(t) ==
  LET test == tests[t]
      b == test.mapping
      next == NextHealth(test.failures, test.outcome)
  IN /\ test.op = "RECORD" /\ LockFree("row", b)
     /\ IF Current(b, test.failures)
        THEN /\ next.failures <= MaxFailures
             /\ mappings' = [mappings EXCEPT ![b] = Merge(@, [health |-> next.health,
                               failures |-> next.failures, tested |-> test.at])]
             /\ inARow' = [inARow EXCEPT ![b] = IF test.outcome = "ok" THEN 0 ELSE @ + 1]
             /\ claims' = [claims EXCEPT ![b] = {}]
             /\ Step(t, Idle)
        ELSE /\ Step(t, [test EXCEPT !.op = "MISSED"])
             /\ UNCHANGED <<mappings, inARow, claims>>
     /\ UNCHANGED clock

ReadAgain(t) ==
  LET test == tests[t]
  IN /\ test.op = "MISSED"
     /\ Step(t, IF Live(mappings[test.mapping]) /\ test.tries + 1 < MaxTries
                THEN [test EXCEPT !.op = "RECORD", !.tries = @ + 1,
                                  !.failures = mappings[test.mapping].failures]
                ELSE Idle)
     /\ UNCHANGED <<mappings, clock, inARow, claims>>

Tick == clock < MaxClock /\ clock' = clock + 1 /\ UNCHANGED <<mappings, tests, inARow, claims>>

TestingNext ==
  /\ \/ \E t \in Tests : \/ Claim(t) \/ GiveUp(t) \/ Answer(t) \/ Record(t) \/ ReadAgain(t)
                         \/ \E b \in Mappings : Scan(t, b) \/ Send(t, b)
     \/ Tick
  /\ UNCHANGED <<channels, upstreamKeys, models, rules, prices, calls, overtaken, stale>>

\* A binding starts the count again; archiving leaves it.
Rebound ==
  /\ \E x \in Calls :
       \/ FinishBinding(x) \/ FinishArchive(x) \/ FinishUnlocked(x)
       \/ \E b \in Mappings : \/ Rebind(x, b) \/ ArchiveMapping(x, b)
                              \/ RestoreMapping(x, b) \/ UpdateMapping(x, b)
  /\ inARow' = [b \in Mappings |->
       IF \E x \in Calls : /\ calls[x].op \in {"BIND", "REBIND"} /\ calls[x].id = b
                           /\ calls'[x] = Idle
       THEN 0 ELSE inARow[b]]
  /\ claims' = [b \in Mappings |-> IF mappings'[b].tested = 0 THEN {} ELSE claims[b]]
  /\ UNCHANGED <<tests, clock>>

-----------------------------------------------------------------------------
\* However the tests of a mapping overlap with each other and with its
\* rebinding, archiving and restoring, no outcome is lost or counted twice:
\* the failures in a row are those recorded since the last success or binding;
\* and of the passes of workers that find a mapping due since the same instant,
\* one tests it.
OutcomesCountedOnce ==
  /\ \A b \in Mappings : mappings[b].failures = inARow[b]
  /\ \A t \in Tests : tests[t].op = "CLAIMED" => ~tests[t].again
=============================================================================
