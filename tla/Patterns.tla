------------------------------- MODULE Patterns -------------------------------
(***************************************************************************)
(* The remediation patterns of veeam_aiops/governance/patterns.py as the   *)
(* threads of one process consult them: every call checks the directory,   *)
(* reloads it when it changed, picks the first armable pattern for its     *)
(* action, arms it within its rate limit unless its circuit is broken, and *)
(* reports the outcome of the call.                                        *)
(*                                                                         *)
(* The states of the directory are numbered: an edit makes the next one,   *)
(* and the modification times of its files tell them apart.  The counters  *)
(* are under the engine's lock; the patterns and the recorded modification *)
(* times are two fields that a reload sets one after the other without it. *)
(* A reload that reads files while they are edited is one that reads them  *)
(* all before or all after the edit.  All patterns here match one action;  *)
(* the clock does not go back.                                             *)
(***************************************************************************)
EXTENDS Integers, Sequences, FiniteSets

CONSTANTS
    Threads,
    Ids,          \* pattern ids
    Targets,
    Directory,    \* Directory[n]: the valid patterns of state n, in file order, the
                  \* first of each id
    Hour, Day,    \* the windows of the rate limit
    Default,      \* [threshold, cooldown] for a pattern that is gone
    MaxTime,      \* bound on the clock
    MaxArms,      \* bound on the armings
    None

Editions == DOMAIN Directory

Breaker == [threshold : Nat \ {0}, cooldown : Nat \ {0}]

Pattern ==
    [id      : Ids,
     sound   : BOOLEAN, \* signed, approved, low risk, reversible, repeatable
     expires : Nat,     \* 0: never
     hourly  : Nat,     \* 0: no limit
     daily   : Nat,
     breaker : Breaker]

ASSUME PatternsAssumption ==
    /\ Directory \in Seq(Seq(Pattern)) /\ Directory # <<>>
    /\ \A n \in Editions : \A i, j \in DOMAIN Directory[n] :
          Directory[n][i].id = Directory[n][j].id => i = j
    /\ Hour \in Nat /\ Day \in Nat /\ Hour <= Day
    /\ Default \in Breaker
    /\ MaxTime \in Nat /\ MaxArms \in Nat
    /\ None \notin Ids

VARIABLES
    now,
    edition,    \* the state of the directory
    loaded,     \* the state _patterns was read from
    stamped,    \* the state _mtimes was read from
    calls,      \* calls[t]: the call thread t is in, or Idle
    stamps,     \* stamps[k]: the armings whose times arm_timestamps of the key k holds
    failures,   \* failures[k]: consecutive_failures
    disabled,   \* disabled[k]: disabled_until
    overlapped, \* have two reloads ever been under way at once?
    arms,       \* every arming: [key, at, pattern, edition, began]
    outcomes    \* every report: [key, at, ok, breaker]

engine   == <<loaded, stamped>>
counters == <<stamps, failures, disabled>>
history  == <<overlapped, arms, outcomes>>
vars == <<now, edition, engine, calls, counters, history>>

Keys == Ids \X Targets

Loading == {"stat", "parse", "install", "stamp"}

\* A call: where it is, its target, the state of the directory when it began,
\* the state its reload took the modification times from, the state it took the
\* patterns from, and the pattern it is about to arm or has armed.
Idle == [pc |-> "idle", target |-> None, began |-> 0, stat |-> 0, content |-> 0, chosen |-> None]

Init ==
    /\ now = 0
    /\ edition = 1
    /\ loaded = 1
    /\ stamped = 1
    /\ calls = [t \in Threads |-> Idle]
    /\ stamps = [k \in Keys |-> {}]
    /\ failures = [k \in Keys |-> 0]
    /\ disabled = [k \in Keys |-> 0]
    /\ overlapped = FALSE
    /\ arms = <<>>
    /\ outcomes = <<>>

At(t, pc) == calls[t].pc = pc
Goto(t, pc) == calls' = [calls EXCEPT ![t].pc = pc]
End(t) == calls' = [calls EXCEPT ![t] = Idle]

-----------------------------------------------------------------------------
(* The environment                                                         *)

Tick ==
    /\ now < MaxTime
    /\ now' = now + 1
    /\ UNCHANGED <<edition, engine, calls, counters, history>>

\* The operator adds, edits, signs, revokes or removes pattern files.
Edit ==
    /\ edition + 1 \in Editions
    /\ edition' = edition + 1
    /\ UNCHANGED <<now, engine, calls, counters, history>>

-----------------------------------------------------------------------------
(* _maybe_reload() and _load()                                             *)

\* A call begins: has the directory changed since it was loaded?
Check(t) ==
    /\ At(t, "idle")
    /\ \E v \in Targets :
          calls' = [calls EXCEPT ![t] = [Idle EXCEPT
              !.pc = IF edition = stamped THEN "select" ELSE "stat",
              !.target = v, !.began = edition]]
    /\ overlapped' = (overlapped \/ (edition # stamped /\ \E u \in Threads : calls[u].pc \in Loading))
    /\ UNCHANGED <<now, edition, engine, counters, arms, outcomes>>

\* Each file's modification time is taken before the file is read.
Stat(t) ==
    /\ At(t, "stat")
    /\ calls' = [calls EXCEPT ![t].pc = "parse", ![t].stat = edition]
    /\ UNCHANGED <<now, edition, engine, counters, history>>

Parse(t) ==
    /\ At(t, "parse")
    /\ calls' = [calls EXCEPT ![t].pc = "install", ![t].content = edition]
    /\ UNCHANGED <<now, edition, engine, counters, history>>

\* _patterns is replaced, and then _mtimes.
Install(t) ==
    /\ At(t, "install")
    /\ loaded' = calls[t].content
    /\ calls' = [calls EXCEPT ![t].pc = "stamp", ![t].content = 0]
    /\ UNCHANGED <<now, edition, stamped, counters, history>>

\* Fault: the modification times recorded are those of the end of the load.
StampLate(t) ==
    /\ At(t, "stamp")
    /\ stamped' = edition
    /\ calls' = [calls EXCEPT ![t].pc = "select", ![t].stat = 0]
    /\ UNCHANGED <<now, edition, loaded, counters, history>>

Stamp(t) ==
    /\ At(t, "stamp")
    /\ stamped' = calls[t].stat
    /\ calls' = [calls EXCEPT ![t].pc = "select", ![t].stat = 0]
    /\ UNCHANGED <<now, edition, loaded, counters, history>>

-----------------------------------------------------------------------------
(* match()                                                                 *)

\* Where the armable patterns of a state are at this time, in file order.
Armable(n) ==
    {i \in DOMAIN Directory[n] :
        LET p == Directory[n][i] IN p.sound /\ ~(p.expires # 0 /\ now > p.expires)}

\* No pattern is armable and the call is over for the engine; or the first that
\* is goes before the counters, and no other, whatever they say of it.
Select(t) ==
    /\ At(t, "select")
    /\ \/ Armable(loaded) = {} /\ End(t)
       \/ \E i \in Armable(loaded) :
             /\ \A j \in Armable(loaded) : i <= j
             /\ calls' = [calls EXCEPT ![t].pc = "decide", ![t].content = loaded,
                                       ![t].chosen = Directory[loaded][i]]
    /\ UNCHANGED <<now, edition, engine, counters, history>>

Key(t) == <<calls[t].chosen.id, calls[t].target>>

\* Those of a key's armings that are younger than a window.
Within(armed, window) == {i \in armed : arms[i].at > now - window}

\* Fault: armings older than an hour are forgotten.
KeptHour(armed) == Within(armed, Hour)

\* What the engine keeps of arm_timestamps.
Kept(armed) == Within(armed, Day)

WithinLimits(p, armed) ==
    /\ p.hourly # 0 => Cardinality(Within(Kept(armed), Hour)) < p.hourly
    /\ p.daily # 0 => Cardinality(Kept(armed)) < p.daily

\* Under the lock: a broken circuit, a cap, or an arming.
Decide(t) ==
    /\ At(t, "decide")
    /\ LET k == Key(t)
           p == calls[t].chosen
       IN  \/ /\ now < disabled[k]
              /\ End(t)
              /\ UNCHANGED <<stamps, arms>>
           \/ /\ now >= disabled[k]
              /\ ~WithinLimits(p, stamps[k])
              /\ stamps' = [stamps EXCEPT ![k] = Kept(@)]
              /\ End(t)
              /\ UNCHANGED arms
           \/ /\ now >= disabled[k]
              /\ WithinLimits(p, stamps[k])
              /\ Len(arms) < MaxArms
              /\ stamps' = [stamps EXCEPT ![k] = Kept(@) \cup {Len(arms) + 1}]
              /\ arms' = Append(arms, [key |-> k, at |-> now, pattern |-> p,
                                       edition |-> calls[t].content,
                                       began |-> calls[t].began])
              /\ Goto(t, "armed")
    /\ UNCHANGED <<now, edition, engine, failures, disabled, overlapped, outcomes>>

-----------------------------------------------------------------------------
(* report_outcome()                                                        *)

\* The circuit breaker of the pattern as it is loaded now, or the default of a
\* pattern that is gone.
BreakerOf(id) ==
    LET here == {i \in DOMAIN Directory[loaded] : Directory[loaded][i].id = id}
    IN  IF here = {} THEN Default ELSE Directory[loaded][CHOOSE i \in here : TRUE].breaker

Failed(k, breaker) ==
    /\ failures' = [failures EXCEPT ![k] = @ + 1]
    /\ disabled' = [disabled EXCEPT ![k] =
           IF failures[k] + 1 >= breaker.threshold THEN now + breaker.cooldown ELSE @]

\* Fault: failures are counted without regard to the successes between them.
ReportKeeps(k, ok, breaker) ==
    IF ok THEN UNCHANGED <<failures, disabled>> ELSE Failed(k, breaker)

\* A success resets the count; the failure that reaches the threshold, or comes
\* after it, breaks the circuit from now on.
Report(k, ok, breaker) ==
    IF ok THEN failures' = [failures EXCEPT ![k] = 0] /\ UNCHANGED disabled
    ELSE Failed(k, breaker)

\* The armed call is over and finalized.
Outcome(t) ==
    /\ At(t, "armed")
    /\ \E ok \in BOOLEAN :
          LET breaker == BreakerOf(calls[t].chosen.id)
          IN  /\ Report(Key(t), ok, breaker)
              /\ outcomes' = Append(outcomes, [key |-> Key(t), at |-> now, ok |-> ok,
                                               breaker |-> breaker])
    /\ End(t)
    /\ UNCHANGED <<now, edition, engine, stamps, overlapped, arms>>

-----------------------------------------------------------------------------

Call(t) ==
    \/ Check(t) \/ Stat(t) \/ Parse(t) \/ Install(t) \/ Stamp(t)
    \/ Select(t) \/ Decide(t) \/ Outcome(t)

Next == Tick \/ Edit \/ \E t \in Threads : Call(t)

Spec == Init /\ [][Next]_vars

-----------------------------------------------------------------------------
(* Properties                                                              *)

CallState ==
    [pc : Loading \cup {"idle", "select", "decide", "armed"}, target : Targets \cup {None},
     began : Nat, stat : Nat, content : Nat, chosen : Pattern \cup {None}]

TypeOK ==
    /\ now \in 0..MaxTime
    /\ edition \in Editions /\ loaded \in Editions /\ stamped \in Editions
    /\ calls \in [Threads -> CallState]
    /\ \A t \in Threads :
          /\ calls[t].pc \in {"parse", "install", "stamp"} => calls[t].stat \in Editions
          /\ At(t, "install") => calls[t].content \in Editions
          /\ ~At(t, "idle") => calls[t].target \in Targets
          /\ At(t, "decide") \/ At(t, "armed") => calls[t].chosen \in Pattern
    /\ stamps \in [Keys -> SUBSET (1..Len(arms))]
    /\ failures \in [Keys -> Nat] /\ disabled \in [Keys -> Nat]
    /\ overlapped \in BOOLEAN
    /\ arms \in Seq([key : Keys, at : Nat, pattern : Pattern, edition : Nat, began : Nat])
    /\ outcomes \in Seq([key : Keys, at : Nat, ok : BOOLEAN, breaker : Breaker])

\* The armings of a key up to the i-th one that were less than a window older.
ArmedWithin(i, window) ==
    {j \in 1..i : arms[j].key = arms[i].key /\ arms[j].at > arms[i].at - window}

\* However the threads race, and whatever reloads change meanwhile, an arming is
\* within the hourly and the daily cap its pattern had, counting every arming
\* before it on that target (patterns.py:286-314).
RateCapped ==
    \A i \in 1..Len(arms) :
        /\ arms[i].pattern.hourly # 0 =>
             Cardinality(ArmedWithin(i, Hour)) <= arms[i].pattern.hourly
        /\ arms[i].pattern.daily # 0 =>
             Cardinality(ArmedWithin(i, Day)) <= arms[i].pattern.daily

\* The failures of a key that the first i reports end with, back to its last success.
FailedRun(k, i) ==
    {j \in 1..i : /\ outcomes[j].key = k
                  /\ \A m \in j..i : outcomes[m].key = k => ~outcomes[m].ok}

\* The i-th report ended a run of as many failures as it takes.
Broke(k, i) ==
    /\ outcomes[i].key = k
    /\ Cardinality(FailedRun(k, i)) >= outcomes[i].breaker.threshold

\* The circuit of a pattern on a target is open exactly while it should be: for
\* the cooldown after the last report that broke it.  Armed calls under way when
\* it breaks report late, in any order, and neither does a late success close it
\* nor do failures around a success open it (patterns.py:272-283, 320-345).
CircuitExact ==
    \A k \in Keys :
        LET breaks == {i \in 1..Len(outcomes) : Broke(k, i)}
        IN  (now < disabled[k]) <=>
              \E i \in breaks : /\ \A j \in breaks : j <= i
                               /\ now < outcomes[i].at + outcomes[i].breaker.cooldown

\* A call arms only what was armable at some moment since the call began: a
\* pattern that was revoked before is never armed.  "Hot-reload on mtime change
\* and consulted ... on every call" (patterns.py:4-6).
ArmedAsCurrent == \A i \in 1..Len(arms) : arms[i].edition >= arms[i].began

\* The same as long as no two reloads are under way at once
\* (patterns.py:122-178).
ArmedAsCurrentSerially == ~overlapped => ArmedAsCurrent

=============================================================================
