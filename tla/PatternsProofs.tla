---------------------------- MODULE PatternsProofs ----------------------------
(***************************************************************************)
(* Theorems about Patterns, for every number of threads, every directory   *)
(* and every limit: type correctness; no arming beyond the rate caps; the  *)
(* circuit is open exactly while it should be; and a call arms no pattern  *)
(* that was revoked before it began, as long as reloads do not overlap.    *)
(***************************************************************************)
EXTENDS Patterns, TLAPS, SequenceTheorems, FiniteSetTheorems

Arming   == [key : Keys, at : Nat, pattern : Pattern, edition : Nat, began : Nat]
Reported == [key : Keys, at : Nat, ok : BOOLEAN, breaker : Breaker]

\* What the thread of a call has got to, where it is.
CallOK(c) ==
    /\ c.pc \in {"parse", "install", "stamp"} => c.stat \in Editions
    /\ c.pc = "install" => c.content \in Editions
    /\ c.pc # "idle" => c.target \in Targets
    /\ c.pc = "decide" \/ c.pc = "armed" => c.chosen \in Pattern

LEMMA DirectoryFacts ==
    /\ Editions = 1..Len(Directory) /\ Editions \subseteq Nat /\ 1 \in Editions
    /\ \A n \in Editions : \A i \in DOMAIN Directory[n] : Directory[n][i] \in Pattern /\ i \in Nat
<1>1. Directory \in Seq(Seq(Pattern)) /\ Directory # <<>>
  BY PatternsAssumption
<1>2. Len(Directory) \in Nat /\ Len(Directory) # 0 /\ DOMAIN Directory = 1..Len(Directory)
  BY <1>1, LenProperties, EmptySeq
<1>3. ASSUME NEW n \in Editions, NEW i \in DOMAIN Directory[n]
      PROVE  Directory[n][i] \in Pattern /\ i \in Nat
  <2>1. Directory[n] \in Seq(Pattern)
    BY <1>1, <1>2, ElementOfSeq DEF Editions
  <2>2. i \in 1..Len(Directory[n])
    BY <2>1, LenProperties
  <2>. QED
    BY <2>1, <2>2, ElementOfSeq
<1>. QED
  BY <1>2, <1>3 DEF Editions

LEMMA BreakerOfType ==
    ASSUME loaded \in Editions, NEW id PROVE BreakerOf(id) \in Breaker
<1>. DEFINE here == {i \in DOMAIN Directory[loaded] : Directory[loaded][i].id = id}
<1>1. CASE here = {}
  BY <1>1, PatternsAssumption DEF BreakerOf
<1>2. CASE here # {}
  <2>1. (CHOOSE i \in here : TRUE) \in here
    BY <1>2
  <2>2. Directory[loaded][CHOOSE i \in here : TRUE] \in Pattern
    BY <2>1, DirectoryFacts
  <2>3. BreakerOf(id) = Directory[loaded][CHOOSE i \in here : TRUE].breaker
    BY <1>2 DEF BreakerOf
  <2>. QED
    BY <2>2, <2>3 DEF Pattern
<1>. QED
  BY <1>1, <1>2

\* A number more in an interval counts one more.
LEMMA OneMore ==
    ASSUME NEW n \in Nat, NEW S \in SUBSET (1..n)
    PROVE  /\ IsFiniteSet(S) /\ Cardinality(S) \in Nat
           /\ Cardinality(S \cup {n + 1}) = Cardinality(S) + 1
<1>1. IsFiniteSet(1..n)
  BY FS_Interval
<1>2. IsFiniteSet(S)
  BY <1>1, FS_Subset
<1>3. n + 1 \notin S
  OBVIOUS
<1>. QED
  BY <1>2, <1>3, FS_AddElement, FS_CardinalityType

(***************************************************************************)
(* Type correctness.                                                       *)
(***************************************************************************)
LEMMA TypeInit == Init => TypeOK
<1>. SUFFICES ASSUME Init PROVE TypeOK
  OBVIOUS
<1>1. arms = <<>> /\ outcomes = <<>> /\ <<>> \in Seq(Arming) /\ <<>> \in Seq(Reported)
  BY EmptySeq DEF Init
<1>2. Idle \in CallState
  BY DEF Idle, CallState
<1>3. /\ calls \in [Threads -> CallState] /\ \A t \in Threads : calls[t].pc = "idle"
  BY <1>2 DEF Init, Idle
<1>4. /\ now \in 0..MaxTime
      /\ edition \in Editions /\ loaded \in Editions /\ stamped \in Editions
      /\ overlapped \in BOOLEAN
  <2>1. now = 0 /\ edition = 1 /\ loaded = 1 /\ stamped = 1 /\ overlapped = FALSE
    BY DEF Init
  <2>2. MaxTime \in Nat /\ 1 \in Editions
    BY PatternsAssumption, DirectoryFacts
  <2>3. now \in 0..MaxTime
    BY <2>1, <2>2
  <2>4. edition \in Editions /\ loaded \in Editions /\ stamped \in Editions
    BY <2>1, <2>2
  <2>5. overlapped \in BOOLEAN
    BY <2>1
  <2>. QED
    BY <2>3, <2>4, <2>5
<1>5. stamps \in [Keys -> SUBSET (1..Len(arms))] /\ failures \in [Keys -> Nat] /\ disabled \in [Keys -> Nat]
  BY DEF Init
<1>. QED
  BY <1>1, <1>3, <1>4, <1>5 DEF TypeOK, At, Arming, Reported

\* The counters after a report.
LEMMA ReportType ==
    ASSUME TypeOK, NEW k \in Keys, NEW ok \in BOOLEAN, NEW breaker \in Breaker,
           Report(k, ok, breaker)
    PROVE  failures' \in [Keys -> Nat] /\ disabled' \in [Keys -> Nat]
<1>1. failures[k] + 1 \in Nat /\ now + breaker.cooldown \in Nat
  BY PatternsAssumption, SMTT(30) DEF TypeOK, Breaker
<1>2. CASE ok
  <2>1. failures' = [failures EXCEPT ![k] = 0] /\ disabled' = disabled
    BY <1>2 DEF Report
  <2>. QED
    BY <2>1 DEF TypeOK
<1>3. CASE ~ok
  BY <1>1, <1>3 DEF Report, Failed, TypeOK
<1>. QED
  BY <1>2, <1>3

\* A thread's move leaves the calls of the others alone; the call it moves to is c.
LEMMA CallMoves ==
    ASSUME calls \in [Threads -> CallState], NEW t \in Threads, NEW c \in CallState,
           \A u \in Threads : CallOK(calls[u]), CallOK(c), calls' = [calls EXCEPT ![t] = c]
    PROVE  calls' \in [Threads -> CallState] /\ \A u \in Threads : CallOK(calls'[u])
<1>. HIDE DEF CallOK
<1>. QED
  OBVIOUS

LEMMA TypeStep == TypeOK /\ [Next]_vars => TypeOK'
<1>. SUFFICES ASSUME TypeOK, [Next]_vars PROVE TypeOK'
  OBVIOUS
<1>t. /\ now \in 0..MaxTime
      /\ edition \in Editions /\ loaded \in Editions /\ stamped \in Editions /\ Editions \subseteq Nat
      /\ calls \in [Threads -> CallState] /\ \A t \in Threads : CallOK(calls[t])
      /\ stamps \in [Keys -> SUBSET (1..Len(arms))]
      /\ failures \in [Keys -> Nat] /\ disabled \in [Keys -> Nat] /\ overlapped \in BOOLEAN
      /\ arms \in Seq(Arming) /\ Len(arms) \in Nat /\ outcomes \in Seq(Reported)
      /\ MaxTime \in Nat
  <2>1. arms \in Seq(Arming)
    BY DEF TypeOK, Arming
  <2>. QED
    BY <2>1, LenProperties, DirectoryFacts, PatternsAssumption
    DEF TypeOK, CallOK, At, Reported
<1>g. ASSUME /\ now' \in 0..MaxTime
             /\ edition' \in Editions /\ loaded' \in Editions /\ stamped' \in Editions
             /\ calls' \in [Threads -> CallState] /\ \A t \in Threads : CallOK(calls'[t])
             /\ stamps' \in [Keys -> SUBSET (1..Len(arms'))]
             /\ failures' \in [Keys -> Nat] /\ disabled' \in [Keys -> Nat] /\ overlapped' \in BOOLEAN
             /\ arms' \in Seq(Arming) /\ outcomes' \in Seq(Reported)
      PROVE  TypeOK'
  BY <1>g DEF TypeOK, CallOK, At, Arming, Reported
<1>c. ASSUME NEW t \in Threads, NEW c \in CallState, CallOK(c), calls' = [calls EXCEPT ![t] = c]
      PROVE  calls' \in [Threads -> CallState] /\ \A u \in Threads : CallOK(calls'[u])
  BY <1>c, <1>t, CallMoves
<1>i. Idle \in CallState /\ CallOK(Idle)
  BY DEF Idle, CallState, CallOK
<1>1. CASE Tick
  BY <1>1, <1>t, <1>g DEF Tick, engine, counters, history
<1>2. CASE Edit
  BY <1>2, <1>t, <1>g DEF Edit, engine, counters, history
<1>3. ASSUME NEW t \in Threads, Check(t) PROVE TypeOK'
  <2>1. PICK v \in Targets :
          calls' = [calls EXCEPT ![t] = [Idle EXCEPT
              !.pc = IF edition = stamped THEN "select" ELSE "stat",
              !.target = v, !.began = edition]]
    BY <1>3 DEF Check
  <2>. DEFINE c == [Idle EXCEPT !.pc = IF edition = stamped THEN "select" ELSE "stat",
                                !.target = v, !.began = edition]
  <2>2. c \in CallState /\ CallOK(c)
    BY <1>t DEF Idle, CallState, CallOK, Loading
  <2>3. overlapped' \in BOOLEAN
    BY <1>3 DEF Check
  <2>. HIDE DEF c
  <2>. QED
    BY <1>3, <1>t, <1>g, <1>c, <2>1, <2>2, <2>3 DEF Check, engine, counters, c
<1>4. ASSUME NEW t \in Threads, Stat(t) PROVE TypeOK'
  <2>. DEFINE c == [calls[t] EXCEPT !.pc = "parse", !.stat = edition]
  <2>1. c \in CallState /\ CallOK(c) /\ calls' = [calls EXCEPT ![t] = c]
    BY <1>4, <1>t DEF Stat, At, CallState, CallOK, Loading
  <2>. HIDE DEF c
  <2>. QED
    BY <1>4, <1>t, <1>g, <1>c, <2>1 DEF Stat, engine, counters, history
<1>5. ASSUME NEW t \in Threads, Parse(t) PROVE TypeOK'
  <2>. DEFINE c == [calls[t] EXCEPT !.pc = "install", !.content = edition]
  <2>1. c \in CallState /\ CallOK(c) /\ calls' = [calls EXCEPT ![t] = c]
    BY <1>5, <1>t DEF Parse, At, CallState, CallOK, Loading
  <2>. HIDE DEF c
  <2>. QED
    BY <1>5, <1>t, <1>g, <1>c, <2>1 DEF Parse, engine, counters, history
<1>6. ASSUME NEW t \in Threads, Install(t) PROVE TypeOK'
  <2>. DEFINE c == [calls[t] EXCEPT !.pc = "stamp", !.content = 0]
  <2>1. c \in CallState /\ CallOK(c) /\ calls' = [calls EXCEPT ![t] = c]
    BY <1>6, <1>t DEF Install, At, CallState, CallOK, Loading
  <2>2. loaded' \in Editions
    BY <1>6, <1>t DEF Install, At, CallOK
  <2>. HIDE DEF c
  <2>. QED
    BY <1>6, <1>t, <1>g, <1>c, <2>1, <2>2 DEF Install, counters, history
<1>7. ASSUME NEW t \in Threads, Stamp(t) PROVE TypeOK'
  <2>. DEFINE c == [calls[t] EXCEPT !.pc = "select", !.stat = 0]
  <2>1. c \in CallState /\ CallOK(c) /\ calls' = [calls EXCEPT ![t] = c]
    BY <1>7, <1>t DEF Stamp, At, CallState, CallOK, Loading
  <2>2. stamped' \in Editions
    BY <1>7, <1>t DEF Stamp, At, CallOK
  <2>. HIDE DEF c
  <2>. QED
    BY <1>7, <1>t, <1>g, <1>c, <2>1, <2>2 DEF Stamp, counters, history
<1>8. ASSUME NEW t \in Threads, Select(t) PROVE TypeOK'
  <2>1. UNCHANGED <<now, edition, engine, counters, history>>
    BY <1>8 DEF Select
  <2>2. CASE calls' = [calls EXCEPT ![t] = Idle]
    BY <1>t, <1>g, <1>c, <1>i, <2>1, <2>2 DEF engine, counters, history
  <2>3. CASE \E i \in Armable(loaded) :
                calls' = [calls EXCEPT ![t].pc = "decide", ![t].content = loaded,
                                       ![t].chosen = Directory[loaded][i]]
    <3>1. PICK p \in Pattern : calls' = [calls EXCEPT ![t].pc = "decide", ![t].content = loaded,
                                                      ![t].chosen = p]
      BY <1>t, <2>3, DirectoryFacts DEF Armable
    <3>. DEFINE c == [calls[t] EXCEPT !.pc = "decide", !.content = loaded, !.chosen = p]
    <3>2. c \in CallState /\ CallOK(c) /\ calls' = [calls EXCEPT ![t] = c]
      <4>1. calls[t] \in CallState /\ calls[t].pc = "select" /\ calls[t].target \in Targets
        BY <1>8, <1>t DEF Select, At, CallOK
      <4>2. loaded \in Nat
        BY <1>t
      <4>3. c \in CallState /\ CallOK(c)
        BY <4>1, <4>2 DEF CallState, CallOK
      <4>4. calls' = [calls EXCEPT ![t] = c]
        BY <1>t, <3>1
      <4>. QED
        BY <4>3, <4>4
    <3>. HIDE DEF c
    <3>. QED
      BY <1>t, <1>g, <1>c, <2>1, <3>2 DEF engine, counters, history
  <2>. QED
    BY <1>8, <2>2, <2>3 DEF Select, End
<1>9. ASSUME NEW t \in Threads, Decide(t) PROVE TypeOK'
  <2>. DEFINE k == Key(t)
              p == calls[t].chosen
  <2>1. At(t, "decide") /\ UNCHANGED <<now, edition, engine, failures, disabled, overlapped, outcomes>>
    BY <1>9 DEF Decide
  <2>2. k \in Keys /\ p \in Pattern /\ calls[t].content \in Nat /\ calls[t].began \in Nat
    BY <1>t, <2>1 DEF At, CallOK, CallState, Key, Keys, Pattern
  <2>3. Kept(stamps[k]) \in SUBSET (1..Len(arms))
    BY <1>t, <2>2 DEF Kept, Within
  <2>4. CASE calls' = [calls EXCEPT ![t] = Idle] /\ UNCHANGED <<stamps, arms>>
    BY <1>t, <1>g, <1>c, <1>i, <2>1, <2>4 DEF engine
  <2>5. CASE /\ calls' = [calls EXCEPT ![t] = Idle] /\ UNCHANGED arms
             /\ stamps' = [stamps EXCEPT ![k] = Kept(@)]
    <3>1. stamps' \in [Keys -> SUBSET (1..Len(arms'))]
      BY <1>t, <2>2, <2>3, <2>5
    <3>. QED
      BY <1>t, <1>g, <1>c, <1>i, <2>1, <2>5, <3>1 DEF engine
  <2>6. CASE /\ calls' = [calls EXCEPT ![t].pc = "armed"]
             /\ stamps' = [stamps EXCEPT ![k] = Kept(@) \cup {Len(arms) + 1}]
             /\ arms' = Append(arms, [key |-> k, at |-> now, pattern |-> p,
                                      edition |-> calls[t].content, began |-> calls[t].began])
    <3>1. [key |-> k, at |-> now, pattern |-> p, edition |-> calls[t].content,
           began |-> calls[t].began] \in Arming
      BY <1>t, <2>2 DEF Arming
    <3>. HIDE DEF k, p
    <3>2. arms' \in Seq(Arming) /\ Len(arms') = Len(arms) + 1
      BY <1>t, <2>6, <3>1, AppendProperties
    <3>3. stamps' \in [Keys -> SUBSET (1..Len(arms'))]
      <4>0. 1..Len(arms) \subseteq 1..Len(arms') /\ Len(arms) + 1 \in 1..Len(arms')
        BY <1>t, <3>2
      <4>1. \A S \in SUBSET (1..Len(arms)) :
               S \in SUBSET (1..Len(arms')) /\ S \cup {Len(arms) + 1} \in SUBSET (1..Len(arms'))
        BY <4>0
      <4>. QED
        BY <1>t, <2>2, <2>3, <2>6, <4>1
    <3>. DEFINE c == [calls[t] EXCEPT !.pc = "armed"]
    <3>4. c \in CallState /\ CallOK(c) /\ calls' = [calls EXCEPT ![t] = c]
      BY <1>t, <2>1, <2>6 DEF At, CallState, CallOK, Loading
    <3>. HIDE DEF c
    <3>. QED
      BY <1>t, <1>g, <1>c, <2>1, <3>2, <3>3, <3>4 DEF engine
  <2>. QED
    BY <1>9, <2>4, <2>5, <2>6 DEF Decide, End, Goto
<1>10. ASSUME NEW t \in Threads, Outcome(t) PROVE TypeOK'
  <2>1. PICK ok \in BOOLEAN :
          LET breaker == BreakerOf(calls[t].chosen.id)
          IN  /\ Report(Key(t), ok, breaker)
              /\ outcomes' = Append(outcomes, [key |-> Key(t), at |-> now, ok |-> ok,
                                               breaker |-> breaker])
    BY <1>10 DEF Outcome
  <2>2. Key(t) \in Keys /\ BreakerOf(calls[t].chosen.id) \in Breaker
    BY <1>10, <1>t, BreakerOfType DEF Outcome, At, CallOK, CallState, Key, Keys, Pattern
  <2>3. failures' \in [Keys -> Nat] /\ disabled' \in [Keys -> Nat]
    BY <2>1, <2>2, ReportType
  <2>4. outcomes' \in Seq(Reported)
    <3>1. [key |-> Key(t), at |-> now, ok |-> ok,
           breaker |-> BreakerOf(calls[t].chosen.id)] \in Reported
      BY <1>t, <2>2 DEF Reported
    <3>. QED
      BY <1>t, <2>1, <3>1, AppendProperties
  <2>5. calls' = [calls EXCEPT ![t] = Idle]
        /\ UNCHANGED <<now, edition, engine, stamps, overlapped, arms>>
    BY <1>10 DEF Outcome, End
  <2>. QED
    BY <1>t, <1>g, <1>c, <1>i, <2>3, <2>4, <2>5 DEF engine
<1>11. CASE UNCHANGED vars
  BY <1>11, <1>t, <1>g DEF vars, engine, counters, history
<1>. QED
  BY <1>1, <1>2, <1>3, <1>4, <1>5, <1>6, <1>7, <1>8, <1>9, <1>10, <1>11 DEF Next, Call

\* Every variable of the engine keeps its type.
THEOREM TypeCorrect == Spec => []TypeOK
  BY TypeInit, TypeStep, PTL DEF Spec

(***************************************************************************)
(* The rate caps.  The list a key keeps of its armings is short of none    *)
(* that is younger than a day, and holds none of another key.              *)
(***************************************************************************)
Young(k, w) == {i \in 1..Len(arms) : arms[i].key = k /\ arms[i].at > now - w}

RateInv ==
    /\ \A k \in Keys : Young(k, Day) \subseteq stamps[k] /\ \A i \in stamps[k] : arms[i].key = k
    /\ RateCapped

\* While a key keeps the armings of a day, those it counts of a shorter window are
\* all there are.
LEMMA KeptExact ==
    ASSUME TypeOK, RateInv, NEW k \in Keys
    PROVE  /\ Kept(stamps[k]) = Young(k, Day)
           /\ Within(Kept(stamps[k]), Hour) = Young(k, Hour)
<1>1. /\ stamps[k] \subseteq 1..Len(arms) /\ Hour \in Nat /\ Day \in Nat /\ Hour <= Day /\ now \in Nat
      /\ \A i \in 1..Len(arms) : arms[i].at \in Nat
  <2>1. arms \in Seq(Arming)
    BY DEF TypeOK, Arming
  <2>2. \A i \in 1..Len(arms) : arms[i] \in Arming
    BY <2>1, ElementOfSeq
  <2>3. stamps[k] \subseteq 1..Len(arms) /\ Hour \in Nat /\ Day \in Nat /\ Hour <= Day /\ now \in Nat
    BY PatternsAssumption DEF TypeOK
  <2>. QED
    BY <2>2, <2>3 DEF Arming
<1>2. Kept(stamps[k]) = Young(k, Day)
  BY <1>1 DEF RateInv, Kept, Within, Young
<1>3. Young(k, Hour) \subseteq Young(k, Day)
  BY <1>1 DEF Young
<1>4. Within(Young(k, Day), Hour) = Young(k, Hour)
  BY <1>1, <1>3 DEF Within, Young
<1>. QED
  BY <1>2, <1>4

LEMMA RateStep == TypeOK /\ RateInv /\ [Next]_vars => RateInv'
<1>. SUFFICES ASSUME TypeOK, RateInv, [Next]_vars PROVE RateInv'
  OBVIOUS
<1>t. /\ now \in Nat /\ stamps \in [Keys -> SUBSET (1..Len(arms))]
      /\ arms \in Seq(Arming) /\ Len(arms) \in Nat
      /\ \A i \in 1..Len(arms) : arms[i] \in Arming /\ arms[i].at \in Nat
      /\ Hour \in Nat /\ Day \in Nat
  <2>1. arms \in Seq(Arming) /\ now \in Nat /\ stamps \in [Keys -> SUBSET (1..Len(arms))]
    BY PatternsAssumption DEF TypeOK, Arming
  <2>2. Len(arms) \in Nat /\ \A i \in 1..Len(arms) : arms[i] \in Arming
    BY <2>1, LenProperties, ElementOfSeq
  <2>. QED
    BY <2>1, <2>2, PatternsAssumption DEF Arming
<1>i. /\ \A k \in Keys : Young(k, Day) \subseteq stamps[k] /\ \A i \in stamps[k] : arms[i].key = k
      /\ RateCapped
  BY DEF RateInv
<1>1. ASSUME UNCHANGED <<now, stamps, arms>> PROVE RateInv'
  BY <1>1 DEF RateInv, Young, RateCapped, ArmedWithin
<1>2. CASE Tick
  <2>1. now' = now + 1 /\ stamps' = stamps /\ arms' = arms
    BY <1>2 DEF Tick, counters, history
  <2>2. ASSUME NEW k \in Keys PROVE Young(k, Day)' \subseteq Young(k, Day)
    BY <1>t, <2>1 DEF Young
  <2>3. RateCapped'
    BY <1>i, <2>1 DEF RateCapped, ArmedWithin
  <2>. QED
    BY <1>i, <2>1, <2>2, <2>3 DEF RateInv
<1>3. ASSUME NEW t \in Threads, Decide(t) PROVE RateInv'
  <2>. DEFINE k == Key(t)
              p == calls[t].chosen
  <2>1. k \in Keys /\ p \in Pattern /\ now' = now
    <3>1. calls[t].pc = "decide" /\ calls[t].chosen \in Pattern /\ calls[t].target \in Targets
      BY <1>3 DEF Decide, TypeOK, At
    <3>. QED
      BY <1>3, <3>1 DEF Decide, Key, Keys, Pattern
  <2>2. Kept(stamps[k]) = Young(k, Day) /\ Within(Kept(stamps[k]), Hour) = Young(k, Hour)
    BY <2>1, KeptExact
  <2>3. CASE UNCHANGED <<stamps, arms>>
    BY <1>1, <2>1, <2>3
  <2>. HIDE DEF k, p
  <2>4. CASE UNCHANGED arms /\ stamps' = [stamps EXCEPT ![k] = Kept(@)]
    <3>1. RateCapped'
      BY <1>i, <2>4 DEF RateCapped, ArmedWithin
    <3>2. ASSUME NEW l \in Keys
          PROVE  Young(l, Day)' \subseteq stamps'[l] /\ \A i \in stamps'[l] : arms'[i].key = l
      <4>1. Young(l, Day)' = Young(l, Day)
        BY <2>1, <2>4 DEF Young
      <4>2. CASE l = k
        <5>1. stamps'[l] = Young(l, Day)
          BY <1>t, <2>1, <2>2, <2>4, <4>2
        <5>. QED
          BY <2>4, <4>1, <5>1 DEF Young
      <4>3. CASE l # k
        BY <1>t, <1>i, <2>1, <2>4, <4>1, <4>3
      <4>. QED
        BY <4>2, <4>3
    <3>. QED
      BY <3>1, <3>2 DEF RateInv
  <2>5. CASE /\ WithinLimits(p, stamps[k])
             /\ stamps' = [stamps EXCEPT ![k] = Kept(@) \cup {Len(arms) + 1}]
             /\ arms' = Append(arms, [key |-> k, at |-> now, pattern |-> p,
                                      edition |-> calls[t].content, began |-> calls[t].began])
    <3>. DEFINE n == Len(arms) + 1
                e == [key |-> k, at |-> now, pattern |-> p,
                      edition |-> calls[t].content, began |-> calls[t].began]
    <3>1. /\ Len(arms') = n /\ arms'[n] = e /\ n \in Nat
          /\ \A i \in 1..Len(arms) : arms'[i] = arms[i]
      <4>. HIDE DEF e
      <4>1. arms' = Append(arms, e)
        BY <2>5 DEF e
      <4>2. arms \in Seq(Arming \cup {e}) /\ e \in Arming \cup {e}
        BY <1>t, <4>1
      <4>. QED
        BY <1>t, <4>1, <4>2, AppendProperties
    <3>2. e.key = k /\ e.at = now /\ e.pattern = p
      OBVIOUS
    <3>. HIDE DEF e
    <3>3. n \notin 1..Len(arms) /\ 1..n = (1..Len(arms)) \cup {n}
      BY <1>t
    <3>. HIDE DEF n
    <3>4. ASSUME NEW l \in Keys
          PROVE  Young(l, Day)' \subseteq stamps'[l] /\ \A i \in stamps'[l] : arms'[i].key = l
      <4>1. Young(l, Day)' \subseteq Young(l, Day) \cup {n} /\ (n \in Young(l, Day)' => l = k)
        BY <2>1, <3>1, <3>2, <3>3 DEF Young
      <4>2. CASE l = k
        <5>1. stamps'[l] = Young(l, Day) \cup {n}
          BY <1>t, <2>1, <2>2, <2>5, <4>2 DEF n
        <5>2. \A i \in Young(l, Day) : arms'[i].key = l
          BY <3>1 DEF Young
        <5>3. arms'[n].key = l
          BY <3>1, <3>2, <4>2
        <5>. QED
          BY <4>1, <5>1, <5>2, <5>3
      <4>3. CASE l # k
        <5>1. stamps'[l] = stamps[l]
          BY <1>t, <2>5, <4>3
        <5>2. \A i \in stamps[l] : arms'[i] = arms[i]
          BY <1>t, <3>1
        <5>. QED
          BY <1>i, <4>1, <4>3, <5>1, <5>2
      <4>. QED
        BY <4>2, <4>3
    <3>5. ASSUME NEW i \in 1..Len(arms), NEW w
          PROVE  ArmedWithin(i, w)' = ArmedWithin(i, w)
      <4>1. \A j \in 1..i : j \in 1..Len(arms)
        BY <1>t
      <4>. QED
        BY <3>1, <4>1 DEF ArmedWithin
    <3>6. ASSUME NEW i, i = n, NEW w \in Nat
          PROVE  /\ Cardinality(ArmedWithin(i, w)') <= Cardinality(Young(k, w)) + 1
                 /\ Cardinality(Young(k, w)) \in Nat /\ Cardinality(ArmedWithin(i, w)') \in Nat
      <4>1. ArmedWithin(i, w)' \subseteq Young(k, w) \cup {n}
        BY <3>1, <3>2, <3>3, <3>6 DEF ArmedWithin, Young
      <4>2. Young(k, w) \in SUBSET (1..Len(arms))
        BY DEF Young
      <4>3. /\ IsFiniteSet(Young(k, w)) /\ Cardinality(Young(k, w)) \in Nat
            /\ Cardinality(Young(k, w) \cup {n}) = Cardinality(Young(k, w)) + 1
        BY <1>t, <4>2, OneMore DEF n
      <4>4. IsFiniteSet(Young(k, w) \cup {n})
        BY <4>3, FS_AddElement
      <4>5. /\ IsFiniteSet(ArmedWithin(i, w)')
            /\ Cardinality(ArmedWithin(i, w)') <= Cardinality(Young(k, w) \cup {n})
        BY <4>1, <4>4, FS_Subset
      <4>. QED
        BY <4>3, <4>5, FS_CardinalityType
    <3>7. ASSUME NEW i \in 1..Len(arms')
          PROVE  /\ arms'[i].pattern.hourly # 0 =>
                      Cardinality(ArmedWithin(i, Hour)') <= arms'[i].pattern.hourly
                 /\ arms'[i].pattern.daily # 0 =>
                      Cardinality(ArmedWithin(i, Day)') <= arms'[i].pattern.daily
      <4>1. CASE i \in 1..Len(arms)
        BY <1>i, <3>1, <3>5, <4>1 DEF RateCapped
      <4>2. CASE i = n
        <5>1. arms'[i].pattern = p
          BY <3>1, <3>2, <4>2
        <5>2. /\ p.hourly # 0 => Cardinality(Young(k, Hour)) < p.hourly
              /\ p.daily # 0 => Cardinality(Young(k, Day)) < p.daily
          BY <2>2, <2>5 DEF WithinLimits
        <5>3. p.hourly \in Nat /\ p.daily \in Nat
          BY <2>1 DEF Pattern
        <5>4. /\ Cardinality(ArmedWithin(i, Hour)') <= Cardinality(Young(k, Hour)) + 1
              /\ Cardinality(Young(k, Hour)) \in Nat /\ Cardinality(ArmedWithin(i, Hour)') \in Nat
          BY <1>t, <3>6, <4>2
        <5>5. /\ Cardinality(ArmedWithin(i, Day)') <= Cardinality(Young(k, Day)) + 1
              /\ Cardinality(Young(k, Day)) \in Nat /\ Cardinality(ArmedWithin(i, Day)') \in Nat
          BY <1>t, <3>6, <4>2
        <5>. QED
          BY <5>1, <5>2, <5>3, <5>4, <5>5
      <4>. QED
        BY <3>1, <3>3, <4>1, <4>2
    <3>8. RateCapped'
      BY <3>7 DEF RateCapped
    <3>. QED
      BY <3>4, <3>8 DEF RateInv
  <2>. QED
    BY <1>3, <2>3, <2>4, <2>5 DEF Decide, k, p
<1>. QED
  BY <1>1, <1>2, <1>3
  DEF Next, Call, vars, engine, counters, history, Edit, Check, Stat, Parse, Install, Stamp, Select, Outcome

\* No arming is beyond the hourly or the daily cap of its pattern, counting every
\* arming before it on its target, however the threads race (patterns.py:286-314).
THEOREM RateHolds == Spec => []RateCapped
<1>1. Init => RateInv
  <2>. SUFFICES ASSUME Init PROVE RateInv
    OBVIOUS
  <2>1. arms = <<>> /\ 1..Len(<<>>) = {} /\ \A k \in Keys : stamps[k] = {}
    BY EmptySeq DEF Init
  <2>. QED
    BY <2>1 DEF RateInv, Young, RateCapped
<1>2. RateInv => RateCapped
  BY DEF RateInv
<1>. QED
  BY <1>1, <1>2, RateStep, TypeCorrect, PTL DEF Spec

(***************************************************************************)
(* The circuit.  failures[k] is the length of the run of failures that the *)
(* reports of k end with, and disabled[k] is set by the last report that   *)
(* broke the circuit.                                                      *)
(***************************************************************************)
Breaks(k) == {i \in 1..Len(outcomes) : Broke(k, i)}

Until(i) == outcomes[i].at + outcomes[i].breaker.cooldown

CircuitInv ==
    \A k \in Keys :
        /\ failures[k] = Cardinality(FailedRun(k, Len(outcomes)))
        /\ \/ Breaks(k) = {} /\ disabled[k] = 0
           \/ \E i \in Breaks(k) : (\A j \in Breaks(k) : j <= i) /\ disabled[k] = Until(i)

LEMMA CircuitStep == TypeOK /\ CircuitInv /\ [Next]_vars => CircuitInv'
<1>. SUFFICES ASSUME TypeOK, CircuitInv, [Next]_vars PROVE CircuitInv'
  OBVIOUS
<1>1. ASSUME UNCHANGED <<failures, disabled, outcomes>> PROVE CircuitInv'
  <2>1. ASSUME NEW k \in Keys, NEW i PROVE FailedRun(k, i)' = FailedRun(k, i) /\ Until(i)' = Until(i)
    BY <1>1 DEF FailedRun, Until
  <2>2. ASSUME NEW k \in Keys PROVE Breaks(k)' = Breaks(k)
    BY <1>1, <2>1 DEF Breaks, Broke
  <2>. QED
    BY <1>1, <2>1, <2>2 DEF CircuitInv
<1>2. ASSUME NEW t \in Threads, Outcome(t) PROVE CircuitInv'
  <2>1. PICK key \in Keys, ok \in BOOLEAN, breaker \in Breaker :
          /\ Report(key, ok, breaker)
          /\ outcomes' = Append(outcomes, [key |-> key, at |-> now, ok |-> ok, breaker |-> breaker])
    <3>1. Key(t) \in Keys /\ BreakerOf(calls[t].chosen.id) \in Breaker
      <4>1. calls[t].pc = "armed" /\ calls[t].chosen \in Pattern /\ calls[t].target \in Targets
        BY <1>2 DEF Outcome, TypeOK, At
      <4>. QED
        BY <4>1, BreakerOfType DEF TypeOK, Key, Keys, Pattern
    <3>. QED
      BY <1>2, <3>1 DEF Outcome
  <2>. DEFINE L == Len(outcomes)
              n == L + 1
              e == [key |-> key, at |-> now, ok |-> ok, breaker |-> breaker]
  <2>2. /\ L \in Nat /\ n \in Nat /\ n \notin 1..L /\ 1..n = (1..L) \cup {n}
        /\ Len(outcomes') = n /\ outcomes'[n] = e /\ \A i \in 1..L : outcomes'[i] = outcomes[i]
        /\ failures \in [Keys -> Nat] /\ disabled \in [Keys -> Nat] /\ now \in Nat
    <3>1. outcomes \in Seq(Reported) /\ e \in Reported /\ now \in Nat
          /\ failures \in [Keys -> Nat] /\ disabled \in [Keys -> Nat]
      BY PatternsAssumption DEF TypeOK, Reported
    <3>. HIDE DEF e
    <3>2. outcomes' = Append(outcomes, e)
      BY <2>1 DEF e
    <3>. QED
      BY <3>1, <3>2, LenProperties, AppendProperties
  <2>3. e.key = key /\ e.at = now /\ e.ok = ok /\ e.breaker = breaker
    OBVIOUS
  <2>. HIDE DEF e, n, L
  <2>4. ASSUME NEW k \in Keys, NEW i \in 1..L
        PROVE  FailedRun(k, i)' = FailedRun(k, i) /\ Broke(k, i)' = Broke(k, i)
    <3>1. \A j \in 1..i : j \in 1..L /\ \A m \in j..i : m \in 1..L
      BY <2>2
    <3>2. FailedRun(k, i)' = FailedRun(k, i)
      BY <2>2, <3>1 DEF FailedRun
    <3>. QED
      BY <2>2, <3>2 DEF Broke
  <2>5. ASSUME NEW k \in Keys, NEW N, N = n
        PROVE  FailedRun(k, N)' = IF k # key THEN FailedRun(k, L)
                                  ELSE IF ok THEN {} ELSE FailedRun(k, L) \cup {n}
    <3>1. /\ \A j \in 1..L : j..N = (j..L) \cup {N}
          /\ N..N = {N} /\ 1..N = (1..L) \cup {N} /\ N \notin 1..L
      BY <2>2, <2>5 DEF n
    <3>2. /\ outcomes'[N].key = key /\ outcomes'[N].ok = ok
          /\ \A j \in 1..L : outcomes'[j] = outcomes[j]
      BY <2>2, <2>3, <2>5
    <3>3. \A j \in 1..L : \A m \in j..L : m \in 1..L
      BY <2>2
    <3>4. CASE k # key
      BY <3>1, <3>2, <3>3, <3>4 DEF FailedRun
    <3>5. CASE k = key /\ ok
      <4>1. \A j \in 1..N : N \in j..N
        BY <2>2, <2>5
      <4>. QED
        BY <3>2, <3>5, <4>1 DEF FailedRun
    <3>6. CASE k = key /\ ~ok
      BY <2>5, <3>1, <3>2, <3>3, <3>6 DEF FailedRun
    <3>. QED
      BY <3>4, <3>5, <3>6
  <2>6. ASSUME NEW k \in Keys
        PROVE  /\ FailedRun(k, L) \in SUBSET (1..L) /\ Cardinality(FailedRun(k, L)) \in Nat
               /\ Cardinality(FailedRun(k, L) \cup {n}) = Cardinality(FailedRun(k, L)) + 1
               /\ failures[k] = Cardinality(FailedRun(k, L))
    <3>1. FailedRun(k, L) \in SUBSET (1..L)
      BY DEF FailedRun
    <3>2. failures[k] = Cardinality(FailedRun(k, L))
      BY DEF CircuitInv, L
    <3>. QED
      BY <2>2, <3>1, <3>2, OneMore DEF n
  <2>7. ASSUME NEW k \in Keys, NEW N, N = n
        PROVE  Broke(k, N)' <=> k = key /\ ~ok /\ failures[k] + 1 >= breaker.threshold
    <3>1. outcomes'[N].key = key /\ outcomes'[N].breaker = breaker
      BY <2>2, <2>3, <2>7
    <3>2. breaker.threshold \in Nat /\ breaker.threshold > 0
      BY <2>1 DEF Breaker
    <3>3. Broke(k, N)' <=> key = k /\ Cardinality(FailedRun(k, N)') >= breaker.threshold
      BY <3>1 DEF Broke
    <3>4. CASE k # key
      BY <3>3, <3>4
    <3>5. CASE k = key /\ ok
      <4>1. FailedRun(k, N)' = {}
        BY <2>5, <2>7, <3>5
      <4>. QED
        BY <3>2, <3>3, <3>5, <4>1, FS_EmptySet
    <3>6. CASE k = key /\ ~ok
      <4>1. FailedRun(k, N)' = FailedRun(k, L) \cup {n}
        BY <2>5, <2>7, <3>6
      <4>. QED
        BY <2>6, <3>3, <3>6, <4>1
    <3>. QED
      BY <3>4, <3>5, <3>6
  <2>8. ASSUME NEW i \in 1..L PROVE Until(i)' = Until(i)
    BY <2>2 DEF Until
  <2>9. ASSUME NEW k \in Keys
        PROVE  Breaks(k)' = IF k = key /\ ~ok /\ failures[k] + 1 >= breaker.threshold
                              THEN Breaks(k) \cup {n} ELSE Breaks(k)
    <3>1. Breaks(k)' = {i \in 1..n : Broke(k, i)'}
      BY <2>2 DEF Breaks
    <3>2. Breaks(k) = {i \in 1..L : Broke(k, i)}
      BY DEF Breaks, L
    <3>3. \A i \in 1..L : Broke(k, i)' <=> Broke(k, i)
      BY <2>4
    <3>4. \A i : i = n => (Broke(k, i)' <=> k = key /\ ~ok /\ failures[k] + 1 >= breaker.threshold)
      BY <2>7
    <3>. QED
      BY <2>2, <3>1, <3>2, <3>3, <3>4
  <2>10. /\ failures' = [failures EXCEPT ![key] = IF ok THEN 0 ELSE @ + 1]
         /\ disabled' = IF ~ok /\ failures[key] + 1 >= breaker.threshold
                          THEN [disabled EXCEPT ![key] = now + breaker.cooldown] ELSE disabled
    <3>1. CASE ok
      BY <2>1, <3>1 DEF Report
    <3>2. CASE ~ok
      <4>1. /\ failures' = [failures EXCEPT ![key] = @ + 1]
            /\ disabled' = [disabled EXCEPT ![key] =
                   IF failures[key] + 1 >= breaker.threshold THEN now + breaker.cooldown ELSE @]
        BY <2>1, <3>2 DEF Report, Failed
      <4>. QED
        BY <2>2, <3>2, <4>1
    <3>. QED
      BY <3>1, <3>2
  <2>11. ASSUME NEW k \in Keys
         PROVE  failures'[k] = Cardinality(FailedRun(k, Len(outcomes))')
    <3>1. FailedRun(k, Len(outcomes))' = IF k # key THEN FailedRun(k, L)
                                         ELSE IF ok THEN {} ELSE FailedRun(k, L) \cup {n}
      <4>1. \A N : N = n => FailedRun(k, N)' = IF k # key THEN FailedRun(k, L)
                                             ELSE IF ok THEN {} ELSE FailedRun(k, L) \cup {n}
        BY <2>5
      <4>2. FailedRun(k, Len(outcomes))' = {j \in 1..n :
                /\ outcomes'[j].key = k
                /\ \A m \in j..n : outcomes'[m].key = k => ~outcomes'[m].ok}
        BY <2>2 DEF FailedRun
      <4>. QED
        BY <4>1, <4>2 DEF FailedRun
    <3>2. CASE k # key
      BY <2>2, <2>6, <2>10, <3>1, <3>2
    <3>3. CASE k = key /\ ok
      BY <2>2, <2>10, <3>1, <3>3, FS_EmptySet
    <3>4. CASE k = key /\ ~ok
      BY <2>2, <2>6, <2>10, <3>1, <3>4
    <3>. QED
      BY <3>2, <3>3, <3>4
  <2>12. ASSUME NEW k \in Keys
         PROVE  \/ Breaks(k)' = {} /\ disabled'[k] = 0
                \/ \E i \in Breaks(k)' : (\A j \in Breaks(k)' : j <= i) /\ disabled'[k] = Until(i)'
    <3>1. Breaks(k) \subseteq 1..L
      BY DEF Breaks, L
    <3>2. CASE k = key /\ ~ok /\ failures[k] + 1 >= breaker.threshold
      <4>1. Breaks(k)' = Breaks(k) \cup {n} /\ \A j \in Breaks(k)' : j <= n
        BY <2>2, <2>9, <3>1, <3>2 DEF n
      <4>2. \A i : i = n => Until(i)' = now + breaker.cooldown
        BY <2>2, <2>3 DEF Until
      <4>3. disabled'[k] = now + breaker.cooldown
        BY <2>2, <2>10, <3>2
      <4>. QED
        BY <4>1, <4>2, <4>3
    <3>3. CASE ~(k = key /\ ~ok /\ failures[k] + 1 >= breaker.threshold)
      <4>1. Breaks(k)' = Breaks(k)
        BY <2>9, <3>3
      <4>2. disabled'[k] = disabled[k]
        BY <2>2, <2>10, <3>3
      <4>. QED
        BY <2>8, <3>1, <4>1, <4>2 DEF CircuitInv
    <3>. QED
      BY <3>2, <3>3
  <2>. QED
    BY <2>11, <2>12 DEF CircuitInv
<1>. QED
  BY <1>1, <1>2
  DEF Next, Call, vars, engine, counters, history, Tick, Edit, Check, Stat, Parse, Install, Stamp,
      Select, Decide

\* The circuit of a pattern on a target is open exactly for the cooldown after the
\* last report that broke it, in whatever order armed calls report
\* (patterns.py:272-283, 320-345).
THEOREM CircuitHolds == Spec => []CircuitExact
<1>1. Init => CircuitInv
  <2>. SUFFICES ASSUME Init, NEW k \in Keys
                PROVE  /\ failures[k] = Cardinality(FailedRun(k, Len(outcomes)))
                       /\ Breaks(k) = {} /\ disabled[k] = 0
    BY DEF CircuitInv
  <2>1. Len(outcomes) = 0 /\ 1..0 = {} /\ failures[k] = 0 /\ disabled[k] = 0
    BY EmptySeq DEF Init
  <2>. QED
    BY <2>1, FS_EmptySet DEF FailedRun, Breaks
<1>2. TypeOK /\ CircuitInv => CircuitExact
  <2>. SUFFICES ASSUME TypeOK, CircuitInv, NEW k \in Keys
                PROVE  (now < disabled[k]) <=>
                         \E i \in Breaks(k) : /\ \A j \in Breaks(k) : j <= i
                                             /\ now < Until(i)
    BY DEF CircuitExact, Breaks, Until
  <2>1. now \in Nat /\ Breaks(k) \subseteq Nat
    BY PatternsAssumption DEF TypeOK, Breaks
  <2>2. CASE Breaks(k) = {} /\ disabled[k] = 0
    BY <2>1, <2>2
  <2>3. CASE \E i \in Breaks(k) : (\A j \in Breaks(k) : j <= i) /\ disabled[k] = Until(i)
    <3>1. PICK i \in Breaks(k) : (\A j \in Breaks(k) : j <= i) /\ disabled[k] = Until(i)
      BY <2>3
    <3>2. \A h \in Breaks(k) : (\A j \in Breaks(k) : j <= h) => h = i
      BY <2>1, <3>1
    <3>. QED
      BY <3>1, <3>2
  <2>. QED
    BY <2>2, <2>3 DEF CircuitInv
<1>. QED
  BY <1>1, <1>2, CircuitStep, TypeCorrect, PTL DEF Spec

(***************************************************************************)
(* Reloads.  As long as they do not overlap, the patterns in use are never *)
(* older than the modification times recorded of them, and those in use    *)
(* are replaced by newer ones only: a call that found them current, or     *)
(* reloaded them, selects among patterns of its own time or later.         *)
(***************************************************************************)
InStep(c, ed, ld) ==
    /\ c.began <= ed
    /\ c.pc = "parse" => c.began <= c.stat /\ c.stat <= ed
    /\ c.pc = "install" => c.began <= c.stat /\ c.stat <= c.content /\ c.content <= ed /\ ld <= c.content
    /\ c.pc = "stamp" => c.began <= c.stat /\ c.stat <= ld
    /\ c.pc = "select" => c.began <= ld
    /\ c.pc = "decide" => c.began <= c.content

AloneInv ==
    ~overlapped =>
        /\ stamped <= loaded /\ loaded <= edition
        /\ \A t, u \in Threads : calls[t].pc \in Loading /\ calls[u].pc \in Loading => t = u
        /\ \A t \in Threads : InStep(calls[t], edition, loaded)
        /\ ArmedAsCurrent

LEMMA AloneStep == TypeOK /\ AloneInv /\ [Next]_vars => AloneInv'
<1>. SUFFICES ASSUME TypeOK, AloneInv, [Next]_vars, ~overlapped'
              PROVE  /\ stamped' <= loaded' /\ loaded' <= edition'
                     /\ \A t, u \in Threads :
                           calls'[t].pc \in Loading /\ calls'[u].pc \in Loading => t = u
                     /\ \A t \in Threads : InStep(calls'[t], edition', loaded')
                     /\ ArmedAsCurrent'
  BY DEF AloneInv
<1>s. ~overlapped
  BY DEF Next, Call, vars, history, Tick, Edit, Check, Stat, Parse, Install, Stamp, Select, Decide, Outcome
<1>i. /\ stamped <= loaded /\ loaded <= edition
      /\ \A t, u \in Threads : calls[t].pc \in Loading /\ calls[u].pc \in Loading => t = u
      /\ \A t \in Threads : InStep(calls[t], edition, loaded)
      /\ ArmedAsCurrent
  BY <1>s DEF AloneInv
<1>t. /\ edition \in Nat /\ loaded \in Nat /\ stamped \in Nat
      /\ calls \in [Threads -> CallState]
      /\ \A t \in Threads : calls[t].began \in Nat /\ calls[t].stat \in Nat /\ calls[t].content \in Nat
  BY DirectoryFacts DEF TypeOK, CallState
\* A thread moves to the call c, and reloads or not.
<1>m. ASSUME NEW t \in Threads, NEW c \in CallState, calls' = [calls EXCEPT ![t] = c],
             c.pc \in Loading => calls[t].pc \in Loading \/ ~\E u \in Threads : calls[u].pc \in Loading
      PROVE  \A u, v \in Threads : calls'[u].pc \in Loading /\ calls'[v].pc \in Loading => u = v
  BY <1>m, <1>i, <1>t
\* Patterns only get newer: the calls of the other threads stay in step.
<1>n. ASSUME NEW t \in Threads, NEW c \in CallState, calls' = [calls EXCEPT ![t] = c],
             edition' = edition, loaded' \in Nat, loaded <= loaded', InStep(c, edition, loaded'),
             loaded' = loaded \/ \A u \in Threads : u # t => calls[u].pc # "install"
      PROVE  \A u \in Threads : InStep(calls'[u], edition', loaded')
  <2>. SUFFICES ASSUME NEW u \in Threads PROVE InStep(calls'[u], edition, loaded')
    BY <1>n
  <2>1. CASE u = t
    BY <1>n, <1>t, <2>1
  <2>2. CASE u # t
    <3>1. calls'[u] = calls[u] /\ InStep(calls[u], edition, loaded)
      BY <1>n, <1>i, <1>t, <2>2
    <3>2. calls[u].began \in Nat /\ calls[u].stat \in Nat /\ calls[u].content \in Nat
      BY <1>t
    <3>3. calls[u].pc = "install" => loaded' = loaded
      BY <1>n, <2>2
    <3>. QED
      BY <1>n, <1>t, <3>1, <3>2, <3>3 DEF InStep
  <2>. QED
    BY <2>1, <2>2
\* What a step that installs and arms nothing needs.
<1>o. ASSUME NEW t \in Threads, NEW c \in CallState, calls' = [calls EXCEPT ![t] = c],
             UNCHANGED <<edition, loaded, arms>>, stamped' <= loaded,
             InStep(c, edition, loaded),
             c.pc \in Loading => calls[t].pc \in Loading \/ ~\E u \in Threads : calls[u].pc \in Loading
      PROVE  /\ stamped' <= loaded' /\ loaded' <= edition'
             /\ \A u, v \in Threads : calls'[u].pc \in Loading /\ calls'[v].pc \in Loading => u = v
             /\ \A u \in Threads : InStep(calls'[u], edition', loaded')
             /\ ArmedAsCurrent'
  <2>1. ArmedAsCurrent'
    BY <1>o, <1>i DEF ArmedAsCurrent
  <2>2. \A u \in Threads : InStep(calls'[u], edition', loaded')
    <3>1. edition' = edition /\ loaded' \in Nat /\ loaded <= loaded' /\ loaded' = loaded
      BY <1>o, <1>t
    <3>2. InStep(c, edition, loaded')
      BY <1>o
    <3>. QED
      BY <1>o, <1>n, <3>1, <3>2
  <2>3. \A u, v \in Threads : calls'[u].pc \in Loading /\ calls'[v].pc \in Loading => u = v
    BY <1>o, <1>m
  <2>. QED
    BY <1>o, <1>i, <2>1, <2>2, <2>3
<1>d. Idle \in CallState /\ Idle.pc = "idle" /\ InStep(Idle, edition, loaded) /\ Idle.pc \notin Loading
  BY <1>t DEF Idle, CallState, InStep, Loading
<1>1. CASE UNCHANGED <<engine, edition, calls, arms>>
  BY <1>1, <1>i DEF engine, ArmedAsCurrent
<1>2. CASE Edit
  <2>1. edition' = edition + 1 /\ UNCHANGED <<loaded, stamped, calls, arms>>
    BY <1>2 DEF Edit, engine, history
  <2>2. ASSUME NEW u \in Threads PROVE InStep(calls'[u], edition', loaded')
    <3>1. calls[u].began \in Nat /\ calls[u].stat \in Nat /\ calls[u].content \in Nat
          /\ InStep(calls[u], edition, loaded)
      BY <1>i, <1>t
    <3>. QED
      BY <1>t, <2>1, <3>1 DEF InStep
  <2>3. ArmedAsCurrent'
    BY <1>i, <2>1 DEF ArmedAsCurrent
  <2>. QED
    BY <1>i, <1>t, <2>1, <2>2, <2>3
<1>3. ASSUME NEW t \in Threads, Check(t)
      PROVE  \E c \in CallState :
                /\ calls' = [calls EXCEPT ![t] = c] /\ InStep(c, edition, loaded)
                /\ c.pc \in Loading => ~\E u \in Threads : calls[u].pc \in Loading
  <2>1. PICK v \in Targets :
          calls' = [calls EXCEPT ![t] = [Idle EXCEPT
              !.pc = IF edition = stamped THEN "select" ELSE "stat",
              !.target = v, !.began = edition]]
    BY <1>3 DEF Check
  <2>. DEFINE c == [Idle EXCEPT !.pc = IF edition = stamped THEN "select" ELSE "stat",
                                !.target = v, !.began = edition]
  <2>2. c \in CallState /\ c.began = edition /\ c.pc = IF edition = stamped THEN "select" ELSE "stat"
    BY <1>t DEF Idle, CallState, Loading
  <2>3. calls' = [calls EXCEPT ![t] = c]
    BY <2>1
  <2>4. edition # stamped => ~\E u \in Threads : calls[u].pc \in Loading
    BY <1>3 DEF Check
  <2>. HIDE DEF c
  <2>5. InStep(c, edition, loaded)
    BY <1>t, <1>i, <2>2 DEF InStep
  <2>6. c.pc \in Loading => edition # stamped
    BY <2>2 DEF Loading
  <2>. QED
    BY <2>2, <2>3, <2>4, <2>5, <2>6
<1>4. ASSUME NEW t \in Threads, Stat(t) \/ Parse(t) \/ Stamp(t)
      PROVE  \E c \in CallState :
                /\ calls' = [calls EXCEPT ![t] = c] /\ InStep(c, edition, loaded)
                /\ calls[t].pc \in Loading /\ stamped' <= loaded
  <2>0. /\ calls[t] \in CallState /\ InStep(calls[t], edition, loaded)
        /\ calls[t].began \in Nat /\ calls[t].stat \in Nat /\ calls[t].content \in Nat
    BY <1>t, <1>i
  <2>1. CASE Stat(t)
    <3>. DEFINE c == [calls[t] EXCEPT !.pc = "parse", !.stat = edition]
    <3>1. /\ calls' = [calls EXCEPT ![t] = c] /\ calls[t].pc = "stat" /\ stamped' = stamped
      BY <1>t, <2>1 DEF Stat, At, engine
    <3>2. c \in CallState /\ c.pc = "parse" /\ c.began = calls[t].began /\ c.stat = edition
      BY <1>t, <2>0 DEF CallState, Loading
    <3>. HIDE DEF c
    <3>3. InStep(c, edition, loaded)
      BY <1>t, <2>0, <3>2 DEF InStep
    <3>. QED
      BY <1>i, <3>1, <3>2, <3>3 DEF Loading
  <2>2. CASE Parse(t)
    <3>. DEFINE c == [calls[t] EXCEPT !.pc = "install", !.content = edition]
    <3>1. /\ calls' = [calls EXCEPT ![t] = c] /\ calls[t].pc = "parse" /\ stamped' = stamped
      BY <1>t, <2>2 DEF Parse, At, engine
    <3>2. c \in CallState /\ c.pc = "install" /\ c.began = calls[t].began
          /\ c.stat = calls[t].stat /\ c.content = edition
      BY <1>t, <2>0 DEF CallState, Loading
    <3>. HIDE DEF c
    <3>3. calls[t].began <= calls[t].stat /\ calls[t].stat <= edition
      BY <2>0, <3>1 DEF InStep
    <3>4. InStep(c, edition, loaded)
      BY <1>t, <1>i, <2>0, <3>2, <3>3 DEF InStep
    <3>. QED
      BY <1>i, <3>1, <3>2, <3>4 DEF Loading
  <2>3. CASE Stamp(t)
    <3>. DEFINE c == [calls[t] EXCEPT !.pc = "select", !.stat = 0]
    <3>1. /\ calls' = [calls EXCEPT ![t] = c] /\ calls[t].pc = "stamp" /\ stamped' = calls[t].stat
      BY <1>t, <2>3 DEF Stamp, At
    <3>2. calls[t].began <= calls[t].stat /\ calls[t].stat <= loaded
      BY <2>0, <3>1 DEF InStep
    <3>3. c \in CallState /\ c.pc = "select" /\ c.began = calls[t].began
      BY <2>0 DEF CallState
    <3>. HIDE DEF c
    <3>4. InStep(c, edition, loaded)
      BY <1>t, <1>i, <2>0, <3>2, <3>3 DEF InStep
    <3>. QED
      BY <3>1, <3>2, <3>3, <3>4 DEF Loading
  <2>. QED
    BY <1>4, <2>1, <2>2, <2>3
<1>5. ASSUME NEW t \in Threads, Install(t)
      PROVE  /\ stamped' <= loaded' /\ loaded' <= edition'
             /\ \A u, v \in Threads : calls'[u].pc \in Loading /\ calls'[v].pc \in Loading => u = v
             /\ \A u \in Threads : InStep(calls'[u], edition', loaded')
             /\ ArmedAsCurrent'
  <2>. DEFINE c == [calls[t] EXCEPT !.pc = "stamp", !.content = 0]
  <2>1. /\ calls' = [calls EXCEPT ![t] = c] /\ calls[t].pc = "install" /\ loaded' = calls[t].content
        /\ stamped' = stamped /\ edition' = edition /\ arms' = arms
    BY <1>5, <1>t DEF Install, At, history
  <2>2. /\ calls[t] \in CallState /\ InStep(calls[t], edition, loaded)
        /\ calls[t].began \in Nat /\ calls[t].stat \in Nat /\ calls[t].content \in Nat
    BY <1>t, <1>i
  <2>3. /\ calls[t].began <= calls[t].stat /\ calls[t].stat <= calls[t].content
        /\ calls[t].content <= edition /\ loaded <= calls[t].content
    BY <2>1, <2>2 DEF InStep
  <2>4. c \in CallState /\ c.pc = "stamp" /\ c.began = calls[t].began /\ c.stat = calls[t].stat
    BY <2>2 DEF CallState, Loading
  <2>. HIDE DEF c
  <2>5. InStep(c, edition, loaded')
    BY <1>t, <1>i, <2>1, <2>2, <2>3, <2>4 DEF InStep
  <2>6. \A u \in Threads : u # t => calls[u].pc # "install"
    BY <1>i, <2>1 DEF Loading
  <2>7. loaded' \in Nat /\ loaded <= loaded'
    BY <2>1, <2>2, <2>3
  <2>8. \A u \in Threads : InStep(calls'[u], edition', loaded')
    BY <1>n, <2>1, <2>4, <2>5, <2>6, <2>7
  <2>9. \A u, v \in Threads : calls'[u].pc \in Loading /\ calls'[v].pc \in Loading => u = v
    <3>1. calls[t].pc \in Loading
      BY <2>1 DEF Loading
    <3>. QED
      BY <1>m, <2>1, <2>4, <3>1
  <2>10. ArmedAsCurrent'
    BY <1>i, <2>1 DEF ArmedAsCurrent
  <2>. QED
    BY <1>t, <1>i, <2>1, <2>3, <2>7, <2>8, <2>9, <2>10
<1>6. ASSUME NEW t \in Threads, Select(t)
      PROVE  \E c \in CallState :
                /\ calls' = [calls EXCEPT ![t] = c] /\ InStep(c, edition, loaded) /\ c.pc \notin Loading
  <2>1. CASE calls' = [calls EXCEPT ![t] = Idle]
    BY <1>d, <2>1
  <2>2. CASE \E i \in Armable(loaded) :
                calls' = [calls EXCEPT ![t].pc = "decide", ![t].content = loaded,
                                       ![t].chosen = Directory[loaded][i]]
    <3>1. PICK p \in Pattern : calls' = [calls EXCEPT ![t].pc = "decide", ![t].content = loaded,
                                                      ![t].chosen = p]
      BY <2>2, DirectoryFacts DEF Armable, TypeOK
    <3>. DEFINE c == [calls[t] EXCEPT !.pc = "decide", !.content = loaded, !.chosen = p]
    <3>2. /\ calls[t] \in CallState /\ calls[t].pc = "select" /\ InStep(calls[t], edition, loaded)
          /\ calls[t].began \in Nat
      BY <1>6, <1>t, <1>i DEF Select, At
    <3>3. /\ c \in CallState /\ c.pc = "decide" /\ c.content = loaded /\ c.began = calls[t].began
      BY <1>t, <3>2 DEF CallState
    <3>4. calls' = [calls EXCEPT ![t] = c]
      BY <1>t, <3>1
    <3>. HIDE DEF c
    <3>5. InStep(c, edition, loaded)
      BY <1>t, <3>2, <3>3 DEF InStep
    <3>6. c.pc \notin Loading
      BY <3>3 DEF Loading
    <3>. QED
      BY <3>3, <3>4, <3>5, <3>6
  <2>. QED
    BY <1>6, <2>1, <2>2 DEF Select, End
<1>7. ASSUME NEW t \in Threads, Decide(t)
      PROVE  /\ \E c \in CallState :
                   /\ calls' = [calls EXCEPT ![t] = c] /\ InStep(c, edition, loaded) /\ c.pc \notin Loading
             /\ ArmedAsCurrent'
  <2>0. /\ calls[t] \in CallState /\ calls[t].pc = "decide" /\ InStep(calls[t], edition, loaded)
        /\ calls[t].began \in Nat /\ calls[t].content \in Nat
    BY <1>7, <1>t, <1>i DEF Decide, At
  <2>1. CASE calls' = [calls EXCEPT ![t] = Idle] /\ UNCHANGED arms
    BY <1>d, <1>i, <2>1 DEF ArmedAsCurrent
  <2>2. CASE /\ calls' = [calls EXCEPT ![t].pc = "armed"]
             /\ arms' = Append(arms, [key |-> Key(t), at |-> now, pattern |-> calls[t].chosen,
                                      edition |-> calls[t].content, began |-> calls[t].began])
    <3>. DEFINE c == [calls[t] EXCEPT !.pc = "armed"]
                e == [key |-> Key(t), at |-> now, pattern |-> calls[t].chosen,
                      edition |-> calls[t].content, began |-> calls[t].began]
    <3>1. c \in CallState /\ c.pc = "armed" /\ c.began = calls[t].began
      BY <2>0 DEF CallState
    <3>2. calls' = [calls EXCEPT ![t] = c]
      BY <1>t, <2>2
    <3>3. e.edition >= e.began
      BY <2>0 DEF InStep
    <3>4. arms' = Append(arms, e)
      BY <2>2
    <3>. HIDE DEF c, e
    <3>7. arms \in Seq(Arming)
      BY DEF TypeOK, Arming
    <3>8. arms \in Seq(Arming \cup {e}) /\ e \in Arming \cup {e}
      BY <3>7
    <3>5. InStep(c, edition, loaded) /\ c.pc \notin Loading
      BY <2>0, <3>1 DEF InStep, Loading
    <3>6. ArmedAsCurrent'
      <4>1. /\ Len(arms) \in Nat /\ Len(arms') = Len(arms) + 1 /\ arms'[Len(arms) + 1] = e
            /\ \A i \in 1..Len(arms) : arms'[i] = arms[i]
        BY <3>4, <3>8, LenProperties, AppendProperties
      <4>2. \A i \in 1..Len(arms') : i \in 1..Len(arms) \/ i = Len(arms) + 1
        BY <4>1
      <4>. QED
        BY <1>i, <3>3, <4>1, <4>2 DEF ArmedAsCurrent
    <3>. QED
      BY <3>1, <3>2, <3>5, <3>6
  <2>. QED
    BY <1>7, <2>1, <2>2 DEF Decide, End, Goto
<1>8. ASSUME NEW t \in Threads, Check(t) \/ Stat(t) \/ Parse(t) \/ Stamp(t) \/ Select(t) \/ Outcome(t)
      PROVE  UNCHANGED <<edition, loaded, arms>>
             /\ (Check(t) \/ Select(t) \/ Outcome(t) => stamped' = stamped)
  BY <1>8 DEF Check, Stat, Parse, Stamp, Select, Outcome, engine, history
<1>9. ASSUME NEW t \in Threads, Call(t)
      PROVE  /\ stamped' <= loaded' /\ loaded' <= edition'
             /\ \A u, v \in Threads : calls'[u].pc \in Loading /\ calls'[v].pc \in Loading => u = v
             /\ \A u \in Threads : InStep(calls'[u], edition', loaded')
             /\ ArmedAsCurrent'
  <2>1. CASE Check(t)
    <3>1. PICK c \in CallState :
             /\ calls' = [calls EXCEPT ![t] = c] /\ InStep(c, edition, loaded)
             /\ c.pc \in Loading => ~\E u \in Threads : calls[u].pc \in Loading
      BY <1>3, <2>1
    <3>2. stamped' <= loaded /\ UNCHANGED <<edition, loaded, arms>>
      BY <1>8, <1>i, <2>1
    <3>. QED
      BY <1>o, <3>1, <3>2
  <2>2. CASE Stat(t) \/ Parse(t) \/ Stamp(t)
    <3>1. PICK c \in CallState :
             /\ calls' = [calls EXCEPT ![t] = c] /\ InStep(c, edition, loaded)
             /\ calls[t].pc \in Loading /\ stamped' <= loaded
      BY <1>4, <2>2
    <3>2. UNCHANGED <<edition, loaded, arms>>
      BY <1>8, <2>2
    <3>. QED
      BY <1>o, <3>1, <3>2
  <2>3. CASE Select(t)
    <3>1. PICK c \in CallState :
             calls' = [calls EXCEPT ![t] = c] /\ InStep(c, edition, loaded) /\ c.pc \notin Loading
      BY <1>6, <2>3
    <3>2. stamped' <= loaded /\ UNCHANGED <<edition, loaded, arms>>
      BY <1>8, <1>i, <2>3
    <3>. QED
      BY <1>o, <3>1, <3>2
  <2>4. CASE Outcome(t)
    <3>1. calls' = [calls EXCEPT ![t] = Idle]
      BY <2>4 DEF Outcome, End
    <3>2. stamped' <= loaded /\ UNCHANGED <<edition, loaded, arms>>
      BY <1>8, <1>i, <2>4
    <3>. QED
      BY <1>d, <1>o, <3>1, <3>2
  <2>5. CASE Decide(t)
    <3>1. PICK c \in CallState :
             calls' = [calls EXCEPT ![t] = c] /\ InStep(c, edition, loaded) /\ c.pc \notin Loading
      BY <1>7, <2>5
    <3>2. stamped' = stamped /\ loaded' = loaded /\ edition' = edition
      BY <2>5 DEF Decide, engine
    <3>3. \A u \in Threads : InStep(calls'[u], edition', loaded')
      <4>1. loaded' \in Nat /\ loaded <= loaded' /\ InStep(c, edition, loaded')
        BY <1>t, <3>1, <3>2
      <4>. QED
        BY <1>n, <3>1, <3>2, <4>1
    <3>4. \A u, v \in Threads : calls'[u].pc \in Loading /\ calls'[v].pc \in Loading => u = v
      BY <1>m, <3>1
    <3>. QED
      BY <1>7, <1>i, <2>5, <3>2, <3>3, <3>4
  <2>6. CASE Install(t)
    BY <1>5, <2>6
  <2>. QED
    BY <1>9, <2>1, <2>2, <2>3, <2>4, <2>5, <2>6 DEF Call
<1>10. CASE Tick \/ UNCHANGED vars
  BY <1>10, <1>1 DEF Tick, vars, history
<1>. QED
  BY <1>2, <1>9, <1>10 DEF Next

\* As long as no two reloads are under way at once, a call arms only what was in the
\* directory at some moment since it began: no pattern revoked before is armed
\* (patterns.py:4-6, 122-178).
THEOREM ArmsCurrent == Spec => []ArmedAsCurrentSerially
<1>1. Init => AloneInv
  <2>. SUFFICES ASSUME Init
                PROVE  /\ stamped <= loaded /\ loaded <= edition
                       /\ \A t \in Threads : calls[t].pc \notin Loading
                       /\ \A t \in Threads : InStep(calls[t], edition, loaded)
                       /\ ArmedAsCurrent
    BY DEF AloneInv
  <2>1. stamped = 1 /\ loaded = 1 /\ edition = 1 /\ \A t \in Threads : calls[t] = Idle
    BY DEF Init
  <2>2. ArmedAsCurrent
    <3>1. arms = <<>> /\ 1..Len(<<>>) = {}
      BY EmptySeq DEF Init
    <3>. QED
      BY <3>1 DEF ArmedAsCurrent
  <2>. QED
    BY <2>1, <2>2 DEF Idle, InStep, Loading
<1>2. AloneInv => ArmedAsCurrentSerially
  BY DEF AloneInv, ArmedAsCurrentSerially
<1>. QED
  BY <1>1, <1>2, AloneStep, TypeCorrect, PTL DEF Spec

=============================================================================
