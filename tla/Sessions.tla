------------------------------- MODULE Sessions -------------------------------
(***************************************************************************)
(* Sessions of a VBR server and the two calls that read them:              *)
(* health_overview() (ops/overview.py), whose running sessions come from   *)
(* one query per unfinished state, and job_failure_rca()                   *)
(* (mcp_server/tools/diagnostics.py), which reads a window of sessions and *)
(* then the log of each failed one.  Every query is a step of its own, and *)
(* the sessions move on between the steps.                                 *)
(***************************************************************************)
EXTENDS Naturals, Sequences

CONSTANTS
    Ids,            \* sessions the server may ever have
    ActiveStates,   \* the states of an unfinished session, in the order of the queries
    CauseRules,     \* the causes a log is searched for, in the order of the rules
    Limit,          \* size of the window
    MaxMoves        \* bound: sessions begin, move and finish so often

ASSUME SessionsAssumption ==
    /\ Limit \in Nat \ {0} /\ MaxMoves \in Nat
    /\ ActiveStates \in Seq(STRING) /\ CauseRules \in Seq(STRING)
    /\ {"Starting", "Stopping"} \subseteq {ActiveStates[i] : i \in DOMAIN ActiveStates}
    /\ {"absent", "Stopped"} \cap {ActiveStates[i] : i \in DOMAIN ActiveStates} = {}

Active == {ActiveStates[i] : i \in DOMAIN ActiveStates}
Causes == {CauseRules[i] : i \in DOMAIN CauseRules}

VARIABLES
    vbr,         \* [filters, totals, fits]: does it heed stateFilter, does it count log
                 \* records, do they fit in what is kept of a title and a description?
    at,          \* at[s]: the state of session s
    result,      \* result[s], "None" until s has finished; "Failed" is a warning, too
    created,     \* the sessions in the order of their creation
    moves,
    task, step,  \* the call and where it is
    window, truncated,      \* list_sessions()
    asked,                  \* number of the states that were queried
    found, errors, ignored, \* active_sessions()
    index,                  \* the findings: [id, cause], and as history the whole log
    unreadable, incomplete, \* collect_failure_logs_detail()
    slipped,     \* history: came to a queried state from one not queried before
    hidden       \* history: was in a state when the query for it was refused

serverVars  == <<at, result, created, moves>>
activeVars  == <<asked, found, errors, ignored, hidden>>
logVars     == <<index, unreadable, incomplete>>
callVars    == <<task, step, window, truncated, activeVars, logVars>>
sessionVars == <<vbr, serverVars, callVars, slipped>>

SessionsInit ==
    /\ vbr \in [filters : BOOLEAN, totals : BOOLEAN, fits : BOOLEAN]
    /\ at = [s \in Ids |-> "absent"]
    /\ result = [s \in Ids |-> "None"]
    /\ created = <<>> /\ moves = 0
    /\ task = "none" /\ step = "idle"
    /\ window = <<>> /\ truncated = FALSE
    /\ asked = 0 /\ found = {} /\ errors = {} /\ ignored = FALSE
    /\ index = {} /\ unreadable = {} /\ incomplete = {}
    /\ slipped = {} /\ hidden = {}

-----------------------------------------------------------------------------
(* The server                                                              *)

Asked == {ActiveStates[i] : i \in 1..asked}

\* Session s gets into a state.
Enter(s, state) ==
    /\ at' = [at EXCEPT ![s] = state]
    /\ slipped' = IF state \in Asked /\ at[s] \notin Asked THEN slipped \cup {s} ELSE slipped

Tick == moves < MaxMoves /\ moves' = moves + 1

\* A job or a restore starts.
Begin(s) ==
    /\ at[s] = "absent"
    /\ Enter(s, "Starting")
    /\ created' = Append(created, s)
    /\ UNCHANGED result

Move(s) ==
    /\ at[s] \in Active
    /\ \E state \in Active \ {at[s]} : Enter(s, state)
    /\ UNCHANGED <<result, created>>

Finish(s) ==
    /\ at[s] \in Active
    /\ Enter(s, "Stopped")
    /\ \E r \in {"Success", "Failed"} : result' = [result EXCEPT ![s] = r]
    /\ UNCHANGED created

ServerStep ==
    /\ Tick
    /\ \E s \in Ids : Begin(s) \/ Move(s) \/ Finish(s)
    /\ UNCHANGED <<vbr, callVars>>

\* stop_session(): the server accepts it for an unfinished session; it stays unfinished
\* until it has stopped.
StopSession(s) ==
    /\ Tick
    /\ at[s] \in Active \ {"Stopping"}
    /\ Enter(s, "Stopping")
    /\ UNCHANGED <<vbr, result, created, callVars>>

-----------------------------------------------------------------------------
(* list_sessions()                                                         *)

Row(s) == [id |-> s, state |-> at[s], result |-> result[s]]

Newest(n) ==
    [i \in 1..(IF n < Len(created) THEN n ELSE Len(created)) |-> created[Len(created) + 1 - i]]

\* fetch_first() is asked for one more than the window.
Fetched == Newest(Limit + 1)

\* The window of either call; an exception on the way ends it with an error.
ReadWindow ==
    /\ step = "idle"
    /\ task' \in {"overview", "rca"}
    /\ \/ /\ window' = [i \in 1..(IF Len(Fetched) < Limit THEN Len(Fetched) ELSE Limit) |->
                            Row(Fetched[i])]
          /\ truncated' = (Len(Fetched) > Limit)
          /\ step' = IF task' = "overview" THEN "active" ELSE "logs"
       \/ step' = "failed" /\ UNCHANGED <<window, truncated>>
    /\ UNCHANGED <<vbr, serverVars, slipped, activeVars, logVars>>

-----------------------------------------------------------------------------
(* active_sessions()                                                       *)

\* What the server returns for a state.
Rows(state) == {s \in Ids : at[s] # "absent" /\ (vbr.filters => at[s] = state)}

\* A row in a state that was not asked for: the filter is ignored,
Strayed(state) == \E s \in Rows(state) : at[s] # state

\* and rows in any unfinished state are kept.
\* Fault: they are dropped, but the queries end all the same.
WantedAlways(state) == {state}

Wanted(state) == IF Strayed(state) THEN Active ELSE {state}

\* The query for the next state; the first one that shows that the filter is ignored
\* is the last one.
Query ==
    /\ step = "active"
    /\ LET state == ActiveStates[asked + 1] IN
        /\ found' = found \cup {s \in Rows(state) : at[s] \in Wanted(state)}
        /\ ignored' = Strayed(state)
        /\ asked' = IF Strayed(state) THEN Len(ActiveStates) ELSE asked + 1
    /\ step' = IF asked' = Len(ActiveStates) THEN "done" ELSE "active"
    /\ UNCHANGED <<vbr, serverVars, slipped, task, window, truncated, errors, hidden, logVars>>

Reported(state) == errors \cup {state}

\* The server refuses one state, and the next one is asked for.
QueryRefused ==
    /\ step = "active"
    /\ LET state == ActiveStates[asked + 1] IN
        /\ errors' = Reported(state)
        /\ hidden' = hidden \cup {s \in Ids : at[s] = state}
    /\ asked' = asked + 1
    /\ step' = IF asked' = Len(ActiveStates) THEN "done" ELSE "active"
    /\ UNCHANGED <<vbr, serverVars, slipped, task, window, truncated, found, ignored, logVars>>

-----------------------------------------------------------------------------
(* collect_failure_logs_detail() and job_failure_findings()                *)

Failures == {k \in DOMAIN window : window[k].result = "Failed"}
Looked   == {finding.id : finding \in index}

\* The first rule that finds its cause in the lines; "unclassified" if none does.
Classify(lines) ==
    LET hits == {i \in DOMAIN CauseRules : CauseRules[i] \in lines}
    IN  IF hits = {} THEN "unclassified"
        ELSE CauseRules[CHOOSE i \in hits : \A k \in hits : i <= k]

\* Fault: a log that cannot be read is one without failing records.
UnreadableNone(s) == unreadable

Unreadable(s) == unreadable \cup {s}

\* The log of the next failed session: whole, or part of it, which shows only if the
\* server says how many records there are; or it cannot be read.  What is cut off a long
\* record may be its cause, and nothing tells.
ReadLog ==
    /\ step = "logs"
    /\ \E k \in Failures, log \in SUBSET Causes :
        LET s == window[k].id
            Finding(lines) == [id |-> s, cause |-> Classify(lines), log |-> log]
        IN  /\ s \notin Looked
            /\ \A i \in Failures : i < k => window[i].id \in Looked
            /\ \/ /\ \E sent \in SUBSET log :
                        /\ \E lines \in IF vbr.fits THEN {sent} ELSE SUBSET sent :
                                index' = index \cup {Finding(lines)}
                        /\ incomplete' = IF sent # log /\ vbr.totals THEN incomplete \cup {s}
                                         ELSE incomplete
                  /\ UNCHANGED unreadable
               \/ /\ index' = index \cup {Finding({})}
                  /\ unreadable' = Unreadable(s)
                  /\ UNCHANGED incomplete
    /\ UNCHANGED <<vbr, serverVars, slipped, task, step, window, truncated, activeVars>>

Judge ==
    /\ step = "logs"
    /\ \A k \in Failures : window[k].id \in Looked
    /\ step' = "done"
    /\ UNCHANGED <<vbr, serverVars, slipped, task, window, truncated, activeVars, logVars>>

SessionsChange == ServerStep \/ \E s \in Ids : StopSession(s)
SessionsRead   == ReadWindow \/ Query \/ QueryRefused \/ ReadLog \/ Judge

-----------------------------------------------------------------------------
(* Properties                                                              *)

\* "Every unfinished session, however long ago it started" (sessions.py:84): one that
\* is in a state which was queried is found, or the query for the state it was in is
\* reported as refused, or it slipped there past the read, from a state whose turn had
\* not come.  At the end of the read every unfinished state was queried.
ActiveFound ==
    \A s \in Ids : at[s] \in Asked =>
        s \in found \/ s \in slipped \/ (s \in hidden /\ errors # {})

Windowed == {window[k].id : k \in DOMAIN window}

\* The promise without its exception for the sessions that slip past.
EveryActiveFound ==
    step = "done" /\ task = "overview" /\ errors = {} =>
        \A s \in Windowed : at[s] \in Active => s \in found

\* What happened to a failed session is told, or that nobody could look: each one that
\* had failed when the window was read is a finding, or older ones are said to exist; and
\* the cause is the one its whole log names, or the log is listed as unreadable or
\* incomplete, where the server counts records and no record is cut (diagnostics.py:144-151).
FailuresExplained ==
    task = "rca" /\ step = "done" =>
        /\ \A i, k \in DOMAIN created :
            i < k /\ created[k] \in Windowed /\ created[i] \notin Windowed => truncated
        /\ \A k \in DOMAIN window : window[k].result = "Failed" => window[k].id \in Looked
        /\ vbr.totals /\ vbr.fits => \A finding \in index :
            \/ finding.id \in unreadable \cup incomplete
            \/ finding.cause = Classify(finding.log)

=============================================================================
