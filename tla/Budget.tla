-------------------------------- MODULE Budget --------------------------------
(***************************************************************************)
(* The runaway guard of veeam_aiops/governance/budget.py: one tracker per  *)
(* process, shared by its threads.  A call reads the clock, is admitted or  *)
(* refused under the tracker's lock by the time it read, and its wall time *)
(* is added when it ends, refused or not.  Limits come from the            *)
(* environment and may be raised while the process runs; the clock is      *)
(* time.time(), which an operator may set back.                            *)
(***************************************************************************)
EXTENDS Integers, Sequences, FiniteSets

CONSTANTS
    Threads,
    Calls,       \* fingerprints: a tool with its (redacted) parameters
    Limits,      \* values the call ceiling takes, lowest first
    MaxSeconds,  \* VEEAM_MAX_TOOL_SECONDS
    RunawayMax,  \* VEEAM_RUNAWAY_MAX, 0 to switch the guard off
    Window,      \* VEEAM_RUNAWAY_WINDOW_SEC, 0 to switch the guard off
    MaxTime,     \* bound on the clock
    MaxSetBacks, \* bound on how often it is set back
    Idle

ASSUME BudgetAssumption ==
    /\ Limits \subseteq Nat /\ Limits # {}
    /\ MaxSeconds \in Nat \ {0}
    /\ RunawayMax \in Nat
    /\ Window \in Nat
    /\ MaxTime \in Nat
    /\ MaxSetBacks \in Nat
    /\ Idle \notin Nat

VARIABLES
    now,      \* time.time()
    setbacks, \* how often it was set back
    steady,   \* did the clock never go back, nor on before a call that had read it
              \* got the lock?
    limit,    \* VEEAM_MAX_TOOL_CALLS as it is now
    total,    \* total_calls
    seconds,  \* total_seconds, as far as MaxSeconds tells its values apart
    windows,  \* windows[f]: when the recent calls of f were admitted
    current,  \* current[t]: the call t runs, [call, at, asking], or Idle
    history   \* every admission since the process started: [call, at]

vars == <<now, setbacks, steady, limit, total, seconds, windows, current, history>>

Smaller(a, b) == IF a <= b THEN a ELSE b

Init ==
    /\ now = 0
    /\ setbacks = 0
    /\ steady = TRUE
    /\ limit \in Limits
    /\ total = 0
    /\ seconds = 0
    /\ windows = [f \in Calls |-> <<>>]
    /\ current = [t \in Threads |-> Idle]
    /\ history = <<>>

-----------------------------------------------------------------------------
(* check_and_record()                                                      *)

\* The call starts and reads the clock, without the lock.
Arrive(t, f) ==
    /\ current[t] = Idle
    /\ current' = [current EXCEPT ![t] = [call |-> f, at |-> now, asking |-> TRUE]]
    /\ UNCHANGED <<now, setbacks, steady, limit, total, seconds, windows, history>>

\* Fault: an entry on the edge of the window is dropped with the older ones.
RecentExclusive(f, at) ==
    LET old == {n \in 0..Len(windows[f]) : \A i \in 1..n : windows[f][i] <= at - Window}
        n   == CHOOSE m \in old : \A k \in old : k <= m
    IN  SubSeq(windows[f], n + 1, Len(windows[f]))

\* The deque of f once the entries before the window are popped from its left.
Recent(f, at) ==
    LET old == {n \in 0..Len(windows[f]) : \A i \in 1..n : windows[f][i] < at - Window}
        n   == CHOOSE m \in old : \A k \in old : k <= m
    IN  SubSeq(windows[f], n + 1, Len(windows[f]))

\* Fault: the ceiling lets one call too many in.
WithinCeilingsOff == total <= limit /\ seconds < MaxSeconds

WithinCeilings == total < limit /\ seconds < MaxSeconds

Guarded == RunawayMax > 0 /\ Window > 0

Asking(t) == current[t] # Idle /\ current[t].asking

Answered(t) == current' = [current EXCEPT ![t].asking = FALSE]

\* The call is admitted and recorded.
Admit(t) ==
    /\ Asking(t)
    /\ WithinCeilings
    /\ LET f  == current[t].call
           at == current[t].at
       IN  /\ IF Guarded
                THEN /\ Len(Recent(f, at)) < RunawayMax
                     /\ windows' = [windows EXCEPT ![f] = Append(Recent(f, at), at)]
                ELSE UNCHANGED windows
           /\ history' = Append(history, [call |-> f, at |-> now])
    /\ total' = total + 1
    /\ Answered(t)
    /\ UNCHANGED <<now, setbacks, steady, limit, seconds>>

\* A ceiling refuses the call and nothing changes, or the runaway guard does and
\* forgets the old entries.
Refuse(t) ==
    /\ Asking(t)
    /\ \/ ~WithinCeilings /\ UNCHANGED windows
       \/ LET f  == current[t].call
              at == current[t].at
          IN  /\ WithinCeilings
              /\ Guarded
              /\ Len(Recent(f, at)) >= RunawayMax
              /\ windows' = [windows EXCEPT ![f] = Recent(f, at)]
    /\ Answered(t)
    /\ UNCHANGED <<now, setbacks, steady, limit, total, seconds, history>>

\* add_duration(), when the call ends.
Finish(t) ==
    /\ current[t] # Idle /\ ~current[t].asking
    /\ seconds' = IF now > current[t].at
                    THEN Smaller(MaxSeconds, seconds + (now - current[t].at)) ELSE seconds
    /\ current' = [current EXCEPT ![t] = Idle]
    /\ UNCHANGED <<now, setbacks, steady, limit, total, windows, history>>

-----------------------------------------------------------------------------
(* The environment                                                         *)

Tick ==
    /\ now < MaxTime
    /\ now' = now + 1
    /\ steady' = (steady /\ \A t \in Threads : ~Asking(t))
    /\ UNCHANGED <<setbacks, limit, total, seconds, windows, current, history>>

SetBack ==
    /\ setbacks < MaxSetBacks
    /\ setbacks' = setbacks + 1
    /\ \E earlier \in 0..(now - 1) : now' = earlier
    /\ steady' = FALSE
    /\ UNCHANGED <<limit, total, seconds, windows, current, history>>

\* The ceiling on calls is read live from the environment, where it may be raised; the
\* other limits stay.
RaiseLimit ==
    /\ \E l \in Limits : l > limit /\ limit' = l
    /\ UNCHANGED <<now, setbacks, steady, total, seconds, windows, current, history>>

Next ==
    \/ \E t \in Threads, f \in Calls : Arrive(t, f)
    \/ \E t \in Threads : Admit(t) \/ Refuse(t) \/ Finish(t)
    \/ Tick \/ SetBack \/ RaiseLimit

Spec == Init /\ [][Next]_vars

-----------------------------------------------------------------------------
(* Properties                                                              *)

TypeOK ==
    /\ now \in 0..MaxTime
    /\ steady \in BOOLEAN
    /\ limit \in Limits
    /\ total \in Nat
    /\ seconds \in 0..MaxSeconds
    /\ windows \in [Calls -> Seq(Nat)]
    /\ current \in [Threads -> [call : Calls, at : Nat, asking : BOOLEAN] \cup {Idle}]
    /\ setbacks \in 0..MaxSetBacks
    /\ history \in Seq([call : Calls, at : Nat])

\* No more calls are admitted than the ceiling allows, whatever the threads,
\* the clock and the changes of the other limits do (budget.py:125-133).
CallCeiling == Len(history) <= limit

\* The admissions of f in the window that starts at time s.
AdmittedIn(f, s) ==
    {i \in 1..Len(history) : history[i].call = f /\ history[i].at \in s..(s + Window)}

\* In no window of the guard's length are more calls of f admitted than it allows,
\* wherever the window starts.
RunawayBound(f) == \A s \in 0..MaxTime : Cardinality(AdmittedIn(f, s)) <= RunawayMax

\* f is admitted as soon as fewer calls of it than the guard allows are recent.
RefusalExpires(f) ==
    Cardinality(AdmittedIn(f, now - Window)) < RunawayMax => Len(Recent(f, now)) < RunawayMax

\* The guard lets no more identical calls through in any of its windows than it may,
\* and refuses no longer than it must: being refused does not prolong the wait.  Both
\* as long as the clock is steady (budget.py:117-119, 146-160).
WindowExact ==
    Guarded /\ steady => \A f \in Calls : RunawayBound(f) /\ RefusalExpires(f)

=============================================================================
