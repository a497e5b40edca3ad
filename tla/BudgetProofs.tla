---------------------------- MODULE BudgetProofs ----------------------------
(***************************************************************************)
(* Theorems about Budget, for every number of threads and calls and every  *)
(* value of the limits: type correctness; the call ceiling holds whatever  *)
(* the clock and the limits do; and the runaway guard is exact as long as  *)
(* the clock is steady.                                                    *)
(***************************************************************************)
EXTENDS Budget, TLAPS, SequenceTheorems, FiniteSetTheorems, FunctionTheorems,
        WellFoundedInduction

Entries  == [call : Calls, at : Nat]
Underway == [call : Calls, at : Nat, asking : BOOLEAN]

(***************************************************************************)
(* A non-empty set of numbers below a bound has a greatest one.            *)
(***************************************************************************)
LEMMA LeastNatural ==
    ASSUME NEW T, T \subseteq Nat, T # {}
    PROVE  \E m \in T : \A k \in T : m <= k
<1>. DEFINE R == {ss \in Nat \X Nat : ss[1] < ss[2]}
<1>1. IsWellFoundedOn(R, Nat)
  BY NatLessThanWellFounded DEF OpToRel
<1>. HIDE DEF R
<1>2. PICK m \in T : \A k \in T : ~(<<k, m>> \in R)
  BY <1>1, WFMin
<1>3. \A k \in T : <<k, m>> \in R <=> k < m
  BY DEF R
<1>4. \A k \in T : m <= k
  <2>. SUFFICES ASSUME NEW k \in T PROVE m <= k
    OBVIOUS
  <2>1. ~(k < m) /\ k \in Nat /\ m \in Nat
    BY <1>2, <1>3
  <2>. QED
    BY <2>1
<1>. QED
  BY <1>4

LEMMA GreatestBelow ==
    ASSUME NEW n \in Nat, NEW T, T \subseteq 0..n, T # {}
    PROVE  \E m \in T : \A k \in T : k <= m
<1>. DEFINE U == {i \in 0..n : n - i \in T}
<1>1. U # {}
  <2>1. PICK k : k \in T
    OBVIOUS
  <2>2. k \in 0..n /\ n - k \in 0..n /\ n - (n - k) = k
    BY <2>1
  <2>3. n - k \in U
    BY <2>1, <2>2
  <2>. QED
    BY <2>3
<1>2. PICK m \in U : \A i \in U : m <= i
  <2>1. U \subseteq Nat
    OBVIOUS
  <2>. HIDE DEF U
  <2>. QED
    BY <1>1, <2>1, LeastNatural
<1>3. ASSUME NEW k \in T PROVE k <= n - m
  <2>1. k \in 0..n /\ n - k \in 0..n /\ n - (n - k) = k
    OBVIOUS
  <2>2. n - k \in U
    BY <2>1
  <2>3. m <= n - k
    BY <1>2, <2>2
  <2>. QED
    BY <2>1, <2>3
<1>. QED
  BY <1>3

(***************************************************************************)
(* The deque once its old entries are popped.                              *)
(***************************************************************************)
LEMMA RecentSuffix ==
    ASSUME windows \in [Calls -> Seq(Nat)], NEW f \in Calls, NEW at \in Nat
    PROVE  \E n \in 0..Len(windows[f]) :
             /\ Recent(f, at) \in Seq(Nat)
             /\ Len(Recent(f, at)) = Len(windows[f]) - n
             /\ \A i \in 1..(Len(windows[f]) - n) : Recent(f, at)[i] = windows[f][n + i]
             /\ \A i \in 1..n : windows[f][i] < at - Window
             /\ n < Len(windows[f]) => windows[f][n + 1] >= at - Window
<1>. DEFINE w   == windows[f]
            old == {n \in 0..Len(w) : \A i \in 1..n : w[i] < at - Window}
            n   == CHOOSE m \in old : \A k \in old : k <= m
<1>1. w \in Seq(Nat) /\ Len(w) \in Nat
  BY LenProperties
<1>2. old \subseteq 0..Len(w) /\ 0 \in old
  BY <1>1
<1>3. \E m \in old : \A k \in old : k <= m
  <2>. HIDE DEF old, w
  <2>. QED
    BY <1>1, <1>2, GreatestBelow
<1>4. n \in old /\ \A k \in old : k <= n
  <2>. HIDE DEF old
  <2>. QED
    BY <1>3
<1>5. Recent(f, at) = SubSeq(w, n + 1, Len(w))
  BY DEF Recent
<1>. HIDE DEF n
<1>6. n \in 0..Len(w) /\ \A i \in 1..n : w[i] < at - Window
  BY <1>4
<1>7. n < Len(w) => w[n + 1] >= at - Window
  <2>. SUFFICES ASSUME n < Len(w), ~(w[n + 1] >= at - Window) PROVE FALSE
    OBVIOUS
  <2>1. n + 1 \in 1..Len(w) /\ n + 1 \in 0..Len(w)
    BY <1>1, <1>6
  <2>2. w[n + 1] \in Nat /\ at - Window \in Int
    BY <1>1, <2>1, ElementOfSeq, BudgetAssumption
  <2>3. \A i \in 1..(n + 1) : w[i] < at - Window
    <3>. SUFFICES ASSUME NEW i \in 1..(n + 1) PROVE w[i] < at - Window
      OBVIOUS
    <3>1. i \in 1..n \/ i = n + 1
      BY <1>6
    <3>. QED
      BY <1>6, <2>2, <3>1
  <2>4. n + 1 \in old
    BY <2>1, <2>3
  <2>. QED
    BY <1>4, <1>6, <2>4
<1>8. /\ SubSeq(w, n + 1, Len(w)) \in Seq(Nat)
      /\ Len(SubSeq(w, n + 1, Len(w))) = IF n + 1 <= Len(w) THEN Len(w) - (n + 1) + 1 ELSE 0
      /\ \A i \in 1..(Len(w) - (n + 1) + 1) : SubSeq(w, n + 1, Len(w))[i] = w[n + 1 + i - 1]
  <2>1. \A i \in (n + 1)..Len(w) : w[i] \in Nat
    BY <1>1, <1>6, ElementOfSeq
  <2>. QED
    BY <1>1, <1>6, <2>1, SubSeqProperties
<1>. QED
  BY <1>1, <1>5, <1>6, <1>7, <1>8

(***************************************************************************)
(* Type correctness.                                                       *)
(***************************************************************************)
LEMMA TypeInit == Init => TypeOK
<1>1. ASSUME Init PROVE history \in Seq(Entries) /\ windows \in [Calls -> Seq(Nat)]
  BY <1>1, EmptySeq DEF Init
<1>. QED
  BY <1>1, BudgetAssumption DEF Init, TypeOK, Entries

LEMMA TypeStep == TypeOK /\ [Next]_vars => TypeOK'
<1>. SUFFICES ASSUME TypeOK, [Next]_vars PROVE TypeOK'
  OBVIOUS
<1>. USE BudgetAssumption DEF TypeOK
<1>u. current \in [Threads -> Underway \cup {Idle}] /\ history \in Seq(Entries)
  BY DEF Underway, Entries
<1>1. ASSUME NEW t \in Threads, NEW f \in Calls, Arrive(t, f) PROVE TypeOK'
  <2>1. [call |-> f, at |-> now, asking |-> TRUE] \in [call : Calls, at : Nat, asking : BOOLEAN]
    OBVIOUS
  <2>. QED
    BY <1>1, <2>1 DEF Arrive
<1>a. ASSUME NEW t \in Threads, Asking(t)
      PROVE  /\ current[t].call \in Calls /\ current[t].at \in Nat
             /\ Answered(t) => current' \in [Threads -> [call : Calls, at : Nat, asking : BOOLEAN] \cup {Idle}]
  BY <1>a, ZenonT(60) DEF Asking, Answered
<1>r. ASSUME NEW f \in Calls, NEW at \in Nat PROVE Recent(f, at) \in Seq(Nat)
  BY <1>r, RecentSuffix
<1>2. ASSUME NEW t \in Threads, Admit(t) PROVE TypeOK'
  <2>. DEFINE f  == current[t].call
              at == current[t].at
  <2>1. /\ f \in Calls /\ at \in Nat /\ Asking(t)
        /\ current' \in [Threads -> [call : Calls, at : Nat, asking : BOOLEAN] \cup {Idle}]
    BY <1>2, <1>a DEF Admit
  <2>2. history' \in Seq([call : Calls, at : Nat])
    <3>1. history' = Append(history, [call |-> f, at |-> now])
      BY <1>2 DEF Admit
    <3>2. [call |-> f, at |-> now] \in [call : Calls, at : Nat]
      BY <2>1
    <3>. QED
      BY <3>1, <3>2, AppendProperties
  <2>3. windows' \in [Calls -> Seq(Nat)]
    <3>1. \/ windows' = windows
          \/ windows' = [windows EXCEPT ![f] = Append(Recent(f, at), at)]
      BY <1>2 DEF Admit
    <3>2. Append(Recent(f, at), at) \in Seq(Nat)
      BY <1>r, <2>1, AppendProperties
    <3>. QED
      BY <2>1, <3>1, <3>2
  <2>. QED
    BY <1>2, <2>1, <2>2, <2>3 DEF Admit
<1>3. ASSUME NEW t \in Threads, Refuse(t) PROVE TypeOK'
  <2>. DEFINE f  == current[t].call
              at == current[t].at
  <2>1. /\ f \in Calls /\ at \in Nat
        /\ current' \in [Threads -> [call : Calls, at : Nat, asking : BOOLEAN] \cup {Idle}]
    BY <1>3, <1>a DEF Refuse
  <2>2. windows' = windows \/ windows' = [windows EXCEPT ![f] = Recent(f, at)]
    BY <1>3 DEF Refuse
  <2>3. windows' \in [Calls -> Seq(Nat)]
    <3>1. Recent(f, at) \in Seq(Nat)
      BY <1>r, <2>1
    <3>. QED
      BY <2>1, <2>2, <3>1
  <2>. QED
    BY <1>3, <2>1, <2>3 DEF Refuse
<1>4. ASSUME NEW t \in Threads, Finish(t) PROVE TypeOK'
  <2>1. current[t].at \in Nat
    BY <1>4 DEF Finish
  <2>2. seconds' \in 0..MaxSeconds
    BY <1>4, <2>1 DEF Finish, Smaller
  <2>. QED
    BY <1>4, <2>2 DEF Finish
<1>5. CASE Tick
  BY <1>5 DEF Tick
<1>6. CASE SetBack
  <2>1. PICK earlier \in 0..(now - 1) : now' = earlier
    BY <1>6 DEF SetBack
  <2>2. now' \in 0..MaxTime
    BY <2>1
  <2>3. setbacks' \in 0..MaxSetBacks /\ steady' = FALSE
    BY <1>6 DEF SetBack
  <2>4. UNCHANGED <<limit, total, seconds, windows, current, history>>
    BY <1>6 DEF SetBack
  <2>. QED
    BY <2>2, <2>3, <2>4
<1>7. CASE RaiseLimit
  BY <1>7 DEF RaiseLimit
<1>8. CASE UNCHANGED vars
  BY <1>8 DEF vars
<1>. QED
  BY <1>1, <1>2, <1>3, <1>4, <1>5, <1>6, <1>7, <1>8 DEF Next

\* Every variable of the tracker keeps its type.
THEOREM TypeCorrect == Spec => []TypeOK
  BY TypeInit, TypeStep, PTL DEF Spec

(***************************************************************************)
(* The ceiling.  What check_and_record() compares with it is the number of *)
(* admissions, and it is never lowered.                                    *)
(***************************************************************************)
CeilingInv == total = Len(history) /\ total <= limit

LEMMA CeilingStep == TypeOK /\ CeilingInv /\ [Next]_vars => CeilingInv'
<1>. SUFFICES ASSUME TypeOK, CeilingInv, [Next]_vars PROVE CeilingInv'
  OBVIOUS
<1>t. total \in Nat /\ limit \in Nat /\ Limits \subseteq Nat /\ history \in Seq(Entries)
  BY BudgetAssumption DEF TypeOK, Entries
<1>1. ASSUME NEW t \in Threads, Admit(t) PROVE CeilingInv'
  <2>1. current[t].call \in Calls /\ now \in Nat
    BY <1>1, BudgetAssumption DEF Admit, Asking, TypeOK
  <2>2. PICK e \in Entries : history' = Append(history, e)
    BY <1>1, <2>1 DEF Admit, Entries
  <2>3. Len(history') = Len(history) + 1
    BY <1>t, <2>2, AppendProperties
  <2>4. total < limit /\ total' = total + 1 /\ limit' = limit
    BY <1>1 DEF Admit, WithinCeilings
  <2>. QED
    BY <1>t, <2>3, <2>4 DEF CeilingInv
<1>2. CASE RaiseLimit
  <2>1. PICK l \in Limits : l > limit /\ limit' = l
    BY <1>2 DEF RaiseLimit
  <2>2. limit' \in Nat /\ total <= limit'
    BY <1>t, <2>1 DEF CeilingInv
  <2>. QED
    BY <1>2, <2>2 DEF RaiseLimit, CeilingInv
<1>3. ASSUME UNCHANGED <<limit, total, history>> PROVE CeilingInv'
  BY <1>3 DEF CeilingInv
<1>. QED
  BY <1>1, <1>2, <1>3 DEF Next, vars, Arrive, Refuse, Finish, Tick, SetBack

\* No more calls are admitted than VEEAM_MAX_TOOL_CALLS allows (budget.py:125-133).
THEOREM CeilingHolds == Spec => []CallCeiling
<1>1. Init => CeilingInv
  BY EmptySeq, BudgetAssumption DEF Init, CeilingInv
<1>2. TypeOK /\ CeilingInv /\ [Next]_vars => CeilingInv'
  BY CeilingStep
<1>3. CeilingInv => CallCeiling
  BY DEF CeilingInv, CallCeiling
<1>. QED
  BY <1>1, <1>2, <1>3, TypeCorrect, PTL DEF Spec

(***************************************************************************)
(* The runaway guard.  While the clock is steady every call that waits for *)
(* the lock has read the time it is, so that the deque of a call holds, in *)
(* order, exactly its admissions since some moment before the window: from *)
(* the start of the window on, deque and history count the same.           *)
(***************************************************************************)
Live(w, s) == {i \in 1..Len(w) : w[i] >= s}

\* The admissions of f in a history h: all since s, and those in the window from s.
Since(h, f, s)  == {i \in 1..Len(h) : h[i].call = f /\ h[i].at >= s}
Within(h, f, s) == {i \in 1..Len(h) : h[i].call = f /\ h[i].at \in s..(s + Window)}

\* A deque holds past times in order.
InOrder(w) ==
    /\ \A i, j \in 1..Len(w) : i <= j => w[i] <= w[j]
    /\ \A i \in 1..Len(w) : w[i] <= now

CountsAlike(w, h, f) ==
    \A s \in Int : s >= now - Window => Cardinality(Since(h, f, s)) = Cardinality(Live(w, s))

FewEnough(h, f) == \A s \in Int : Cardinality(Within(h, f, s)) <= RunawayMax

TimesRead ==
    /\ \A t \in Threads : Asking(t) => current[t].at = now
    /\ \A i \in 1..Len(history) : history[i].at <= now

WindowInv ==
    Guarded /\ steady =>
        /\ TimesRead
        /\ \A f \in Calls :
              /\ InOrder(windows[f])
              /\ CountsAlike(windows[f], history, f)
              /\ FewEnough(history, f)

\* A part of an interval is finite, and one more element counts one more.
LEMMA OneMore ==
    ASSUME NEW n \in Nat, NEW S \in SUBSET (1..n)
    PROVE  /\ IsFiniteSet(S)
           /\ Cardinality(S) \in Nat
           /\ Cardinality(S \cup {n + 1}) = Cardinality(S) + 1
<1>1. IsFiniteSet(1..n)
  BY FS_Interval
<1>2. IsFiniteSet(S)
  BY <1>1, FS_Subset
<1>3. n + 1 \notin S
  OBVIOUS
<1>. QED
  BY <1>2, <1>3, FS_AddElement, FS_CardinalityType

LEMMA LiveAppended ==
    ASSUME NEW w \in Seq(Nat), NEW x \in Nat, NEW s \in Int
    PROVE  Cardinality(Live(Append(w, x), s)) =
             IF x >= s THEN Cardinality(Live(w, s)) + 1 ELSE Cardinality(Live(w, s))
<1>1. /\ Len(w) \in Nat
      /\ Len(Append(w, x)) = Len(w) + 1
      /\ \A i \in 1..Len(w) : Append(w, x)[i] = w[i]
      /\ Append(w, x)[Len(w) + 1] = x
  BY AppendProperties, LenProperties
<1>2. Live(w, s) \in SUBSET (1..Len(w))
  BY DEF Live
<1>3. Live(Append(w, x), s) = IF x >= s THEN Live(w, s) \cup {Len(w) + 1} ELSE Live(w, s)
  BY <1>1 DEF Live
<1>. QED
  BY <1>1, <1>2, <1>3, OneMore

\* What popping the old entries leaves counts the same from the window on, and
\* all of it is in the window.
LEMMA RecentCounts ==
    ASSUME windows \in [Calls -> Seq(Nat)], now \in Nat, NEW f \in Calls, InOrder(windows[f])
    PROVE  /\ \A s \in Int : s >= now - Window =>
                Cardinality(Live(Recent(f, now), s)) = Cardinality(Live(windows[f], s))
           /\ Cardinality(Live(Recent(f, now), now - Window)) = Len(Recent(f, now))
           /\ \A i, j \in 1..Len(Recent(f, now)) : i <= j => Recent(f, now)[i] <= Recent(f, now)[j]
           /\ \A i \in 1..Len(Recent(f, now)) : Recent(f, now)[i] <= now
           /\ Recent(f, now) \in Seq(Nat)
<1>. DEFINE w == windows[f]
            r == Recent(f, now)
<1>1. PICK n \in 0..Len(w) :
         /\ r \in Seq(Nat)
         /\ Len(r) = Len(w) - n
         /\ \A i \in 1..(Len(w) - n) : r[i] = w[n + i]
         /\ \A i \in 1..n : w[i] < now - Window
         /\ n < Len(w) => w[n + 1] >= now - Window
  BY RecentSuffix
<1>2. /\ w \in Seq(Nat) /\ Len(w) \in Nat
      /\ \A i \in 1..Len(w) : w[i] \in Nat
      /\ \A i, j \in 1..Len(w) : i <= j => w[i] <= w[j]
      /\ \A i \in 1..Len(w) : w[i] <= now
      /\ Window \in Nat
  BY LenProperties, ElementOfSeq, BudgetAssumption DEF InOrder
<1>. HIDE DEF w, r
<1>3. \A i \in 1..Len(r) : n + i \in 1..Len(w) /\ r[i] = w[n + i]
  BY <1>1, <1>2
<1>4. \A i \in 1..Len(r) : r[i] >= now - Window
  <2>. SUFFICES ASSUME NEW i \in 1..Len(r) PROVE r[i] >= now - Window
    OBVIOUS
  <2>1. n + 1 \in 1..Len(w) /\ n + i \in 1..Len(w) /\ n + 1 <= n + i
    BY <1>1, <1>2
  <2>2. w[n + 1] >= now - Window /\ w[n + 1] <= w[n + i]
    BY <1>1, <1>2, <2>1, SMTT(30)
  <2>. QED
    BY <1>2, <1>3, <2>1, <2>2, SMTT(30)
<1>5. ASSUME NEW s \in Int, s >= now - Window
      PROVE  Cardinality(Live(r, s)) = Cardinality(Live(w, s))
  <2>. DEFINE g == [i \in Live(r, s) |-> n + i]
  <2>1. \A i \in Live(r, s) : n + i \in Live(w, s)
    BY <1>3 DEF Live
  <2>2. \A j \in Live(w, s) : j - n \in Live(r, s) /\ n + (j - n) = j
    <3>. SUFFICES ASSUME NEW j \in Live(w, s) PROVE j - n \in Live(r, s) /\ n + (j - n) = j
      OBVIOUS
    <3>1. j \in 1..Len(w) /\ w[j] >= s /\ w[j] \in Nat
      BY <1>2 DEF Live
    <3>2. ~(j \in 1..n)
      <4>. SUFFICES ASSUME j \in 1..n PROVE FALSE
        OBVIOUS
      <4>1. w[j] < now - Window
        BY <1>1
      <4>. QED
        BY <1>2, <1>5, <3>1, <4>1
    <3>3. j - n \in 1..Len(r) /\ n + (j - n) = j
      BY <1>1, <1>2, <3>1, <3>2
    <3>. QED
      BY <1>3, <3>1, <3>3 DEF Live
  <2>3. g \in Bijection(Live(r, s), Live(w, s))
    <3>1. g \in [Live(r, s) -> Live(w, s)]
      BY <2>1
    <3>2. \A i, j \in Live(r, s) : g[i] = g[j] => i = j
      BY <1>1 DEF Live
    <3>3. \A j \in Live(w, s) : \E i \in Live(r, s) : g[i] = j
      BY <2>2
    <3>. HIDE DEF g
    <3>. QED
      BY <3>1, <3>2, <3>3, Fun_IsBij
  <2>4. IsFiniteSet(Live(r, s))
    <3>1. Len(r) \in Nat /\ Live(r, s) \in SUBSET (1..Len(r))
      BY <1>1, <1>2 DEF Live
    <3>. QED
      BY <3>1, OneMore
  <2>. QED
    BY <2>3, <2>4, FS_Bijection DEF ExistsBijection
<1>6. Cardinality(Live(r, now - Window)) = Len(r)
  <2>1. Live(r, now - Window) = 1..Len(r)
    BY <1>4 DEF Live
  <2>2. Len(r) \in Nat /\ Len(r) \in Int /\ 1 \in Int
    BY <1>1, <1>2
  <2>3. Cardinality(1..Len(r)) = IF 1 > Len(r) THEN 0 ELSE Len(r) - 1 + 1
    BY <2>2, FS_Interval
  <2>. QED
    BY <2>1, <2>2, <2>3
<1>7. \A i, j \in 1..Len(r) : i <= j => r[i] <= r[j]
  <2>. SUFFICES ASSUME NEW i \in 1..Len(r), NEW j \in 1..Len(r), i <= j PROVE r[i] <= r[j]
    OBVIOUS
  <2>1. n + i \in 1..Len(w) /\ n + j \in 1..Len(w) /\ n + i <= n + j
    BY <1>3
  <2>2. w[n + i] <= w[n + j]
    BY <1>2, <2>1
  <2>. QED
    BY <1>3, <2>2
<1>8. \A i \in 1..Len(r) : r[i] <= now
  BY <1>2, <1>3
<1>. QED
  BY <1>1, <1>5, <1>6, <1>7, <1>8 DEF w, r

LEMMA HistoryAppended ==
    ASSUME NEW h \in Seq(Entries), NEW e \in Entries, NEW f \in Calls, NEW s \in Int
    PROVE  /\ Cardinality(Since(Append(h, e), f, s)) =
                IF e.call = f /\ e.at >= s THEN Cardinality(Since(h, f, s)) + 1
                                           ELSE Cardinality(Since(h, f, s))
           /\ Cardinality(Within(Append(h, e), f, s)) =
                IF e.call = f /\ e.at \in s..(s + Window) THEN Cardinality(Within(h, f, s)) + 1
                                                         ELSE Cardinality(Within(h, f, s))
           /\ IsFiniteSet(Since(h, f, s))
           /\ Cardinality(Since(h, f, s)) \in Nat /\ Cardinality(Within(h, f, s)) \in Nat
<1>1. /\ Len(h) \in Nat
      /\ Len(Append(h, e)) = Len(h) + 1
      /\ \A i \in 1..Len(h) : Append(h, e)[i] = h[i]
      /\ Append(h, e)[Len(h) + 1] = e
  BY AppendProperties, LenProperties
<1>2. Since(h, f, s) \in SUBSET (1..Len(h)) /\ Within(h, f, s) \in SUBSET (1..Len(h))
  BY DEF Since, Within
<1>3. Since(Append(h, e), f, s) =
        IF e.call = f /\ e.at >= s THEN Since(h, f, s) \cup {Len(h) + 1} ELSE Since(h, f, s)
  BY <1>1 DEF Since
<1>4. Within(Append(h, e), f, s) =
        IF e.call = f /\ e.at \in s..(s + Window)
          THEN Within(h, f, s) \cup {Len(h) + 1} ELSE Within(h, f, s)
  BY <1>1 DEF Within
<1>. QED
  BY <1>1, <1>2, <1>3, <1>4, OneMore

\* Until the next admission, no more calls of f than its deque holds are in any
\* window that now is part of.
LEMMA WindowFilled ==
    ASSUME TypeOK, NEW f \in Calls, InOrder(windows[f]), CountsAlike(windows[f], history, f)
    PROVE  /\ Cardinality(Since(history, f, now - Window)) = Len(Recent(f, now))
           /\ \A s \in Int : now \in s..(s + Window) =>
                Cardinality(Within(history, f, s)) <= Len(Recent(f, now))
<1>1. /\ windows \in [Calls -> Seq(Nat)] /\ now \in Nat /\ Window \in Nat
      /\ history \in Seq(Entries)
  BY BudgetAssumption DEF TypeOK, Entries
<1>2. Cardinality(Since(history, f, now - Window)) = Len(Recent(f, now))
  BY <1>1, RecentCounts DEF CountsAlike
<1>3. ASSUME NEW s \in Int, now \in s..(s + Window)
      PROVE  Cardinality(Within(history, f, s)) <= Len(Recent(f, now))
  <2>1. Len(history) \in Nat /\ \A i \in 1..Len(history) : history[i].at \in Nat
    <3>1. Len(history) \in Nat /\ \A i \in 1..Len(history) : history[i] \in Entries
      BY <1>1, LenProperties, ElementOfSeq
    <3>. QED
      BY <3>1 DEF Entries
  <2>2. Within(history, f, s) \subseteq Since(history, f, now - Window)
    BY <1>1, <1>3, <2>1 DEF Within, Since
  <2>3. IsFiniteSet(Since(history, f, now - Window))
    <3>1. now - Window \in Int
      BY <1>1
    <3>2. Since(history, f, now - Window) \in SUBSET (1..Len(history))
      BY DEF Since
    <3>. QED
      BY <2>1, <3>2, OneMore
  <2>. QED
    BY <1>2, <2>2, <2>3, FS_Subset
<1>. QED
  BY <1>2, <1>3

LEMMA WindowStep == TypeOK /\ WindowInv /\ [Next]_vars => WindowInv'
<1>. SUFFICES ASSUME TypeOK, WindowInv, [Next]_vars, Guarded, steady'
              PROVE  /\ TimesRead'
                     /\ \A f \in Calls :
                           /\ InOrder(windows[f])'
                           /\ CountsAlike(windows[f], history, f)'
                           /\ FewEnough(history, f)'
  BY DEF WindowInv, Guarded
<1>s. steady
  BY DEF Next, vars, Arrive, Admit, Refuse, Finish, Tick, SetBack, RaiseLimit
<1>i. /\ TimesRead
      /\ \A f \in Calls :
            /\ InOrder(windows[f])
            /\ CountsAlike(windows[f], history, f)
            /\ FewEnough(history, f)
  BY <1>s DEF WindowInv
<1>t. /\ windows \in [Calls -> Seq(Nat)] /\ now \in Nat /\ Window \in Nat /\ RunawayMax \in Nat
      /\ history \in Seq(Entries) /\ Len(history) \in Nat
      /\ \A i \in 1..Len(history) : history[i] \in Entries
      /\ current \in [Threads -> Underway \cup {Idle}]
  <2>1. windows \in [Calls -> Seq(Nat)] /\ now \in Nat /\ history \in Seq(Entries)
        /\ current \in [Threads -> Underway \cup {Idle}]
    BY BudgetAssumption DEF TypeOK, Entries, Underway
  <2>. QED
    BY <2>1, LenProperties, ElementOfSeq, BudgetAssumption
<1>1. ASSUME NEW t \in Threads, NEW g \in Calls, Arrive(t, g)
      PROVE  TimesRead' /\ UNCHANGED <<now, windows, history>>
  BY <1>1, <1>i, <1>t DEF Arrive, TimesRead, Asking
<1>a. ASSUME NEW t \in Threads, Asking(t)
      PROVE  /\ current[t].at = now /\ current[t].call \in Calls
             /\ Answered(t) => \A u \in Threads : Asking(u)' => current'[u] = current[u] /\ Asking(u)
  BY <1>a, <1>i, <1>t DEF TimesRead, Asking, Answered, Underway
<1>2. ASSUME NEW t \in Threads, Admit(t)
      PROVE  /\ TimesRead'
             /\ \A f \in Calls :
                   /\ InOrder(windows[f])'
                   /\ CountsAlike(windows[f], history, f)'
                   /\ FewEnough(history, f)'
  <2>. DEFINE g == current[t].call
              e == [call |-> g, at |-> now]
              r == Recent(g, now)
  <2>1. /\ Asking(t) /\ Answered(t) /\ now' = now
        /\ history' = Append(history, [call |-> current[t].call, at |-> now])
        /\ Len(Recent(current[t].call, current[t].at)) < RunawayMax
        /\ windows' = [windows EXCEPT ![current[t].call] =
                         Append(Recent(current[t].call, current[t].at), current[t].at)]
    BY <1>2 DEF Admit
  <2>2. /\ g \in Calls /\ e \in Entries /\ e.call = g /\ e.at = now
        /\ history' = Append(history, e) /\ Len(r) < RunawayMax
        /\ windows' = [windows EXCEPT ![g] = Append(r, now)]
        /\ \A u \in Threads : Asking(u)' => current'[u] = current[u] /\ Asking(u)
    BY <2>1, <1>a, <1>t DEF Entries
  <2>3. /\ r \in Seq(Nat) /\ Len(r) \in Nat
        /\ \A s \in Int : s >= now - Window =>
             Cardinality(Live(r, s)) = Cardinality(Live(windows[g], s))
        /\ \A i, j \in 1..Len(r) : i <= j => r[i] <= r[j]
        /\ \A i \in 1..Len(r) : r[i] <= now
    BY <1>t, <1>i, <2>2, RecentCounts, LenProperties
  <2>4. \A s \in Int : now \in s..(s + Window) => Cardinality(Within(history, g, s)) <= Len(r)
    BY <1>i, <2>2, WindowFilled
  <2>. HIDE DEF g, e, r
  <2>5. /\ Len(Append(history, e)) = Len(history) + 1
        /\ \A i \in 1..Len(history) : Append(history, e)[i] = history[i]
        /\ Append(history, e)[Len(history) + 1] = e
        /\ Append(r, now) \in Seq(Nat) /\ Len(Append(r, now)) = Len(r) + 1
        /\ \A i \in 1..Len(r) : Append(r, now)[i] = r[i]
        /\ Append(r, now)[Len(r) + 1] = now
    BY <1>t, <2>2, <2>3, AppendProperties
  <2>6. TimesRead'
    <3>1. \A u \in Threads : Asking(u)' => current'[u].at = now'
      BY <1>i, <2>1, <2>2 DEF TimesRead
    <3>2. \A i \in 1..Len(history') : history'[i].at <= now'
      <4>. SUFFICES ASSUME NEW i \in 1..Len(history') PROVE history'[i].at <= now
        BY <2>1
      <4>1. CASE i \in 1..Len(history)
        BY <1>i, <2>2, <2>5, <4>1 DEF TimesRead
      <4>2. CASE i = Len(history) + 1
        BY <1>t, <2>2, <2>5, <4>2
      <4>. QED
        BY <1>t, <2>2, <2>5, <4>1, <4>2
    <3>. QED
      BY <3>1, <3>2 DEF TimesRead
  <2>7. ASSUME NEW f \in Calls
        PROVE  /\ \A s \in Int : Cardinality(Since(history', f, s)) =
                     IF f = g /\ now >= s THEN Cardinality(Since(history, f, s)) + 1
                                          ELSE Cardinality(Since(history, f, s))
               /\ \A s \in Int : Cardinality(Within(history', f, s)) =
                     IF f = g /\ now \in s..(s + Window) THEN Cardinality(Within(history, f, s)) + 1
                                                       ELSE Cardinality(Within(history, f, s))
               /\ \A s \in Int : Cardinality(Within(history, f, s)) \in Nat
    <3>1. ASSUME NEW s \in Int
          PROVE  /\ Cardinality(Since(history', f, s)) =
                      IF e.call = f /\ e.at >= s THEN Cardinality(Since(history, f, s)) + 1
                                                ELSE Cardinality(Since(history, f, s))
                 /\ Cardinality(Within(history', f, s)) =
                      IF e.call = f /\ e.at \in s..(s + Window)
                        THEN Cardinality(Within(history, f, s)) + 1
                        ELSE Cardinality(Within(history, f, s))
                 /\ Cardinality(Within(history, f, s)) \in Nat
      <4>1. history' = Append(history, e)
        BY <2>2
      <4>2. history \in Seq(Entries) /\ e \in Entries
        BY <1>t, <2>2
      <4>3. /\ Cardinality(Since(Append(history, e), f, s)) =
                 IF e.call = f /\ e.at >= s THEN Cardinality(Since(history, f, s)) + 1
                                            ELSE Cardinality(Since(history, f, s))
            /\ Cardinality(Within(Append(history, e), f, s)) =
                 IF e.call = f /\ e.at \in s..(s + Window)
                   THEN Cardinality(Within(history, f, s)) + 1
                   ELSE Cardinality(Within(history, f, s))
            /\ Cardinality(Within(history, f, s)) \in Nat
        BY <4>2, HistoryAppended
      <4>. QED
        BY <4>1, <4>3
    <3>2. e.call = g /\ e.at = now
      BY <2>2
    <3>3. ASSUME NEW s \in Int
          PROVE  /\ Cardinality(Since(history', f, s)) =
                      IF f = g /\ now >= s THEN Cardinality(Since(history, f, s)) + 1
                                           ELSE Cardinality(Since(history, f, s))
                 /\ Cardinality(Within(history', f, s)) =
                      IF f = g /\ now \in s..(s + Window)
                        THEN Cardinality(Within(history, f, s)) + 1
                        ELSE Cardinality(Within(history, f, s))
      BY <3>1, <3>2
    <3>. QED
      BY <3>1, <3>3
  <2>8. ASSUME NEW f \in Calls
        PROVE  FewEnough(history', f)
    <3>. SUFFICES ASSUME NEW s \in Int PROVE Cardinality(Within(history', f, s)) <= RunawayMax
      BY DEF FewEnough
    <3>1. Cardinality(Within(history, f, s)) <= RunawayMax
      BY <1>i DEF FewEnough
    <3>2. CASE f = g /\ now \in s..(s + Window)
      <4>1. Cardinality(Within(history, f, s)) <= Len(r)
        BY <2>4, <3>2
      <4>2. Cardinality(Within(history', f, s)) = Cardinality(Within(history, f, s)) + 1
        BY <2>7, <3>2
      <4>3. Cardinality(Within(history, f, s)) \in Nat
        BY <2>7
      <4>4. Len(r) \in Nat /\ RunawayMax \in Nat /\ Len(r) < RunawayMax
        BY <1>t, <2>2, <2>3
      <4>. QED
        BY <4>1, <4>2, <4>3, <4>4
    <3>3. CASE ~(f = g /\ now \in s..(s + Window))
      BY <2>7, <3>1, <3>3
    <3>. QED
      BY <3>2, <3>3
  <2>9. ASSUME NEW f \in Calls, f # g
        PROVE  InOrder(windows[f])' /\ CountsAlike(windows[f], history, f)'
    <3>1. windows'[f] = windows[f]
      BY <1>t, <2>2, <2>9
    <3>2. \A s \in Int : Cardinality(Since(history', f, s)) = Cardinality(Since(history, f, s))
      BY <2>7, <2>9
    <3>. QED
      BY <1>i, <2>1, <3>1, <3>2 DEF InOrder, CountsAlike
  <2>10. ASSUME NEW f \in Calls, f = g
         PROVE  InOrder(windows[f])' /\ CountsAlike(windows[f], history, f)'
    <3>1. windows'[f] = Append(r, now)
      BY <1>t, <2>2, <2>10
    <3>2. ASSUME NEW s \in Int, s >= now - Window
          PROVE  Cardinality(Since(history', f, s)) = Cardinality(Live(Append(r, now), s))
      <4>1. Cardinality(Live(Append(r, now), s)) =
              IF now >= s THEN Cardinality(Live(r, s)) + 1 ELSE Cardinality(Live(r, s))
        BY <1>t, <2>3, LiveAppended
      <4>2. Cardinality(Live(r, s)) = Cardinality(Since(history, f, s))
        BY <1>i, <2>3, <2>10, <3>2 DEF CountsAlike
      <4>. QED
        BY <2>7, <2>10, <4>1, <4>2
    <3>3. \A i, j \in 1..Len(Append(r, now)) : i <= j => Append(r, now)[i] <= Append(r, now)[j]
      <4>. SUFFICES ASSUME NEW i \in 1..Len(Append(r, now)), NEW j \in 1..Len(Append(r, now)), i <= j
                    PROVE  Append(r, now)[i] <= Append(r, now)[j]
        OBVIOUS
      <4>1. CASE j \in 1..Len(r)
        BY <2>3, <2>5, <4>1
      <4>2. CASE j = Len(r) + 1
        <5>1. Append(r, now)[j] = now /\ (i \in 1..Len(r) \/ i = Len(r) + 1)
          BY <2>3, <2>5, <4>2
        <5>. QED
          BY <1>t, <2>3, <2>5, <5>1
      <4>. QED
        BY <2>3, <2>5, <4>1, <4>2
    <3>4. \A i \in 1..Len(Append(r, now)) : Append(r, now)[i] <= now
      <4>. SUFFICES ASSUME NEW i \in 1..Len(Append(r, now)) PROVE Append(r, now)[i] <= now
        OBVIOUS
      <4>1. i \in 1..Len(r) \/ i = Len(r) + 1
        BY <2>3, <2>5
      <4>. QED
        BY <1>t, <2>3, <2>5, <4>1
    <3>5. InOrder(windows[f])'
      BY <2>1, <3>1, <3>3, <3>4 DEF InOrder
    <3>6. CountsAlike(windows[f], history, f)'
      BY <2>1, <3>1, <3>2 DEF CountsAlike
    <3>. QED
      BY <3>5, <3>6
  <2>11. ASSUME NEW f \in Calls
         PROVE  InOrder(windows[f])' /\ CountsAlike(windows[f], history, f)'
    BY <2>9, <2>10
  <2>12. ASSUME NEW f \in Calls PROVE FewEnough(history, f)'
    BY <2>8 DEF FewEnough
  <2>. QED
    BY <2>6, <2>11, <2>12
<1>3. ASSUME NEW t \in Threads, Refuse(t)
      PROVE  /\ TimesRead' /\ UNCHANGED <<now, history>>
             /\ \A f \in Calls : InOrder(windows[f])' /\ CountsAlike(windows[f], history, f)'
  <2>1. /\ Asking(t) /\ Answered(t) /\ now' = now /\ history' = history
        /\ \/ windows' = windows
           \/ windows' = [windows EXCEPT ![current[t].call] = Recent(current[t].call, current[t].at)]
    BY <1>3 DEF Refuse
  <2>2. TimesRead'
    BY <1>i, <1>a, <2>1 DEF TimesRead
  <2>3. ASSUME NEW f \in Calls
        PROVE  InOrder(windows[f])' /\ CountsAlike(windows[f], history, f)'
    <3>1. windows'[f] = windows[f] \/ windows'[f] = Recent(f, now)
      BY <1>a, <1>t, <2>1
    <3>2. CASE windows'[f] = windows[f]
      BY <1>i, <2>1, <3>2 DEF InOrder, CountsAlike
    <3>3. CASE windows'[f] = Recent(f, now)
      <4>. DEFINE r == Recent(f, now)
      <4>1. /\ \A s \in Int : s >= now - Window =>
                 Cardinality(Live(r, s)) = Cardinality(Live(windows[f], s))
            /\ \A i, j \in 1..Len(r) : i <= j => r[i] <= r[j]
            /\ \A i \in 1..Len(r) : r[i] <= now
        BY <1>t, <1>i, RecentCounts
      <4>2. windows'[f] = r
        BY <3>3
      <4>. HIDE DEF r
      <4>. QED
        BY <1>i, <2>1, <4>1, <4>2 DEF InOrder, CountsAlike
    <3>. QED
      BY <3>1, <3>2, <3>3
  <2>. QED
    BY <2>1, <2>2, <2>3
<1>4. ASSUME NEW t \in Threads, Finish(t)
      PROVE  TimesRead' /\ UNCHANGED <<now, windows, history>>
  BY <1>4, <1>i, <1>t DEF Finish, TimesRead, Asking
<1>5. ASSUME Tick
      PROVE  /\ TimesRead' /\ UNCHANGED <<windows, history>>
             /\ \A f \in Calls : InOrder(windows[f])' /\ CountsAlike(windows[f], history, f)'
  <2>1. /\ now' = now + 1 /\ UNCHANGED <<current, windows, history>>
        /\ \A t \in Threads : ~Asking(t)
    BY <1>5 DEF Tick
  <2>2. TimesRead'
    <3>1. \A i \in 1..Len(history) : history[i].at \in Nat
      BY <1>t DEF Entries
    <3>. QED
      BY <1>i, <1>t, <2>1, <3>1 DEF TimesRead, Asking
  <2>3. ASSUME NEW f \in Calls
        PROVE  InOrder(windows[f])' /\ CountsAlike(windows[f], history, f)'
    <3>1. \A i \in 1..Len(windows[f]) : windows[f][i] \in Nat
      BY <1>t, ElementOfSeq
    <3>2. InOrder(windows[f])'
      BY <1>i, <1>t, <2>1, <3>1 DEF InOrder
    <3>3. ASSUME NEW s \in Int, s >= now' - Window
          PROVE  Cardinality(Since(history', f, s)) = Cardinality(Live(windows'[f], s))
      <4>1. s >= now - Window
        BY <1>t, <2>1, <3>3
      <4>. QED
        BY <1>i, <2>1, <4>1 DEF CountsAlike
    <3>. QED
      BY <3>2, <3>3 DEF CountsAlike
  <2>. QED
    BY <2>1, <2>2, <2>3
<1>6. ~SetBack
  BY DEF SetBack
<1>7. ASSUME RaiseLimit \/ UNCHANGED vars
      PROVE  TimesRead' /\ UNCHANGED <<now, windows, history>>
  BY <1>7, <1>i DEF RaiseLimit, vars, TimesRead, Asking
<1>8. UNCHANGED <<now, windows, history>> =>
        \A f \in Calls : /\ InOrder(windows[f])'
                         /\ CountsAlike(windows[f], history, f)'
                         /\ FewEnough(history, f)'
  BY <1>i DEF InOrder, CountsAlike, FewEnough
<1>9. UNCHANGED history => \A f \in Calls : FewEnough(history, f)'
  BY <1>i DEF FewEnough
<1>. QED
  BY <1>1, <1>2, <1>3, <1>4, <1>5, <1>6, <1>7, <1>8, <1>9 DEF Next

LEMMA WindowInit == Init => WindowInv
<1>. SUFFICES ASSUME Init PROVE /\ TimesRead
                               /\ \A f \in Calls :
                                     /\ InOrder(windows[f])
                                     /\ CountsAlike(windows[f], history, f)
                                     /\ FewEnough(history, f)
  BY DEF WindowInv
<1>1. /\ \A f \in Calls : windows[f] = <<>>
      /\ history = <<>> /\ \A t \in Threads : current[t] = Idle
  BY DEF Init
<1>2. Len(<<>>) = 0 /\ 1..0 = {}
  BY EmptySeq
<1>3. \A f, s : Since(<<>>, f, s) = {} /\ Within(<<>>, f, s) = {} /\ Live(<<>>, s) = {}
  BY <1>2 DEF Since, Within, Live
<1>4. Cardinality({}) = 0
  BY FS_EmptySet
<1>5. TimesRead
  BY <1>1, <1>2 DEF TimesRead, Asking
<1>6. ASSUME NEW f \in Calls
      PROVE  InOrder(windows[f]) /\ CountsAlike(windows[f], history, f) /\ FewEnough(history, f)
  <2>1. windows[f] = <<>> /\ history = <<>>
    BY <1>1
  <2>2. InOrder(<<>>)
    BY <1>2 DEF InOrder
  <2>3. CountsAlike(<<>>, <<>>, f)
    BY <1>3 DEF CountsAlike
  <2>4. FewEnough(<<>>, f)
    <3>1. \A s : Cardinality(Within(<<>>, f, s)) = 0
      BY <1>3, <1>4
    <3>. QED
      BY <3>1, BudgetAssumption DEF FewEnough
  <2>. QED
    BY <2>1, <2>2, <2>3, <2>4
<1>. QED
  BY <1>5, <1>6

\* The runaway guard lets no more identical calls through than it may in any window,
\* and lets the next one in as soon as it may: a refusal does not prolong the wait
\* (budget.py:117-119, 146-160).
THEOREM GuardExact == Spec => []WindowExact
<1>1. TypeOK /\ WindowInv => WindowExact
  <2>. SUFFICES ASSUME TypeOK, WindowInv, Guarded, steady, NEW f \in Calls
                PROVE  RunawayBound(f) /\ RefusalExpires(f)
    BY DEF WindowExact
  <2>1. InOrder(windows[f]) /\ CountsAlike(windows[f], history, f) /\ FewEnough(history, f)
    BY DEF WindowInv
  <2>2. \A s : AdmittedIn(f, s) = Within(history, f, s)
    BY DEF AdmittedIn, Within
  <2>3. RunawayBound(f)
    <3>1. 0..MaxTime \subseteq Int
      BY BudgetAssumption
    <3>. QED
      BY <2>1, <2>2, <3>1 DEF RunawayBound, FewEnough
  <2>4. now \in Nat /\ Window \in Nat /\ history \in Seq(Entries)
    BY BudgetAssumption DEF TypeOK, Entries
  <2>5. Within(history, f, now - Window) = Since(history, f, now - Window)
    <3>1. \A i \in 1..Len(history) : history[i].at \in Nat /\ history[i].at <= now
      <4>1. \A i \in 1..Len(history) : history[i] \in Entries
        BY <2>4, ElementOfSeq
      <4>. QED
        BY <4>1 DEF Entries, WindowInv, TimesRead
    <3>2. \A a \in Nat : a <= now => (a \in (now - Window)..(now - Window + Window) <=> a >= now - Window)
      BY <2>4
    <3>. QED
      BY <3>1, <3>2 DEF Within, Since
  <2>6. Cardinality(Since(history, f, now - Window)) = Len(Recent(f, now))
    BY <2>1, WindowFilled
  <2>7. RefusalExpires(f)
    BY <2>2, <2>5, <2>6 DEF RefusalExpires
  <2>. QED
    BY <2>3, <2>7
<1>. QED
  BY <1>1, TypeCorrect, WindowInit, WindowStep, PTL DEF Spec

=============================================================================
