-------------------------------- MODULE JobUndo --------------------------------
(***************************************************************************)
(* The job tools of mcp_server/tools/jobs.py and ops/jobs.py as the writes *)
(* whose tokens UndoTokens keeps: every server has one job, every write    *)
(* changes it and records the tool that is declared as its inverse.  A     *)
(* write and the recording of its token are one step here, and the token   *)
(* that an inverse records for itself, being a write, is left out.         *)
(*                                                                         *)
(* The state of the job before a write is shown to the caller (start, stop *)
(* and retry) or not read at all; the inverse never depends on it.         *)
(***************************************************************************)
EXTENDS UndoTokens, Sequences

CONSTANTS
    Tools,    \* the job tools in use
    Jobs      \* what the tools and others make of a job: is it running, is it enabled?

VARIABLES
    job,      \* job[v]: the job of server v
    wrote,    \* wrote[k]: the tool whose write recorded token k
    before,   \* history: before[k]: the job when that write began
    trail     \* history: trail[v]: the writes of the job that were not undone, oldest
              \* first, as far as nothing but they and their inverses has changed it

jobVars == <<job, wrote, before, trail>>
allVars == <<vars, jobVars>>

JobTools == {"job_start", "job_stop", "job_retry", "job_enable", "job_disable"}

\* Fault: a retry is undone like a stop.
InverseRetried(tool) ==
    CASE tool \in {"job_stop", "job_retry"} -> "job_start"
      [] tool = "job_start"                 -> "job_stop"
      [] tool = "job_enable"                -> "job_disable"
      [] tool = "job_disable"               -> "job_enable"

\* The tools named by the undo callables.
InverseTool(tool) ==
    CASE tool \in {"job_start", "job_retry"} -> "job_stop"
      [] tool = "job_stop"                   -> "job_start"
      [] tool = "job_enable"                 -> "job_disable"
      [] tool = "job_disable"                -> "job_enable"

ASSUME JobAssumption ==
    /\ Tools \subseteq JobTools
    /\ Jobs \subseteq [running : BOOLEAN, enabled : BOOLEAN]

\* What the server makes of a request that it accepts.
Changed(j, tool) ==
    CASE tool \in {"job_start", "job_retry"} -> [j EXCEPT !.running = TRUE]
      [] tool = "job_stop"                   -> [j EXCEPT !.running = FALSE]
      [] tool = "job_enable"                 -> [j EXCEPT !.enabled = TRUE]
      [] tool = "job_disable"                -> [j EXCEPT !.enabled = FALSE]

\* Did the write of token k find the job as it was to be?
Idle(k) == Changed(before[k], wrote[k]) = before[k]

JobInit ==
    /\ Init
    /\ job \in [Targets -> Jobs]
    /\ wrote = [k \in Tokens |-> None]
    /\ before = [k \in Tokens |-> None]
    /\ trail = [v \in Targets |-> <<>>]

-----------------------------------------------------------------------------

\* A job tool has changed the job of its server, and its inverse is recorded.
Write(k) ==
    /\ Record(k)
    /\ LET v == ran'[k] IN
        \E tool \in Tools :
            /\ job' = [job EXCEPT ![v] = Changed(@, tool)]
            /\ wrote' = [wrote EXCEPT ![k] = tool]
            /\ before' = [before EXCEPT ![k] = job[v]]
            /\ trail' = [trail EXCEPT ![v] = Append(@, k)]

\* The job has run to its end, or somebody changes it without a token.
Elsewhere(v) ==
    /\ \E j \in Jobs \ {job[v]} : job' = [job EXCEPT ![v] = j]
    /\ trail' = [trail EXCEPT ![v] = <<>>]
    /\ UNCHANGED <<vars, wrote, before>>

\* Is the write of k the last one of the trail?
Last(v, k) == trail[v] # <<>> /\ trail[v][Len(trail[v])] = k

\* A step of an apply: the job follows if the inverse lands.
Replay(a) ==
    /\ Apply(a)
    /\ IF landings' = landings
         THEN UNCHANGED <<job, trail>>
         ELSE LET v == Destination(a)  k == tok[a] IN
              /\ job' = [job EXCEPT ![v] = Changed(@, InverseTool(wrote[k]))]
              /\ trail' = [trail EXCEPT ![v] = IF Last(v, k) /\ ~Idle(k)
                                                 THEN SubSeq(@, 1, Len(@) - 1) ELSE <<>>]
    /\ UNCHANGED <<wrote, before>>

JobNext ==
    \/ \E k \in Tokens : Write(k)
    \/ \E v \in Targets : Elsewhere(v)
    \/ Reconfigure /\ UNCHANGED jobVars
    \/ \E a \in Applies : Replay(a)

JobSpec == JobInit /\ [][JobNext]_allVars

-----------------------------------------------------------------------------
(* Properties                                                              *)

\* The inverse of apply a lands where the write of its token was the last change.
Follows(a) ==
    /\ landings' # landings
    /\ pc[a] = "dispatch"
    /\ pc'[a] # "dispatch"
    /\ Last(Destination(a), tok[a])

\* Writes that are undone in reverse order take the job back step by step to what it
\* was before each of them (tools/jobs.py:5-7), whatever becomes of the answers of the
\* inverses, as long as nobody else changes the job and each write did.
UndoneInReverse ==
    [][\A a \in Applies :
        Follows(a) /\ ~Idle(tok[a]) => job'[Destination(a)] = before[tok[a]]]_allVars

\* "reversible writes still capture their before-state and record an inverse"
\* (README.md:41): the same of every write, also of one that found the job as it was to
\* be, an enable of an enabled job or a start of a running one.
RestoresBefore ==
    [][\A a \in Applies : Follows(a) => job'[Destination(a)] = before[tok[a]]]_allVars

=============================================================================
