----------------------------- MODULE GovernedCall -----------------------------
(***************************************************************************)
(* The harness around every tool: @governed_tool of                        *)
(* veeam_aiops/governance/decorators.py over @tool_errors of               *)
(* mcp_server/_shared.py over a tool body that reads a state and posts one *)
(* change.  Threads run their calls one after another; each call passes    *)
(* the budget, commits an intent if it is a real write, runs its body,     *)
(* records an inverse, and is finalized into an audit row, a report to the *)
(* circuit breaker and a telemetry event.                                  *)
(*                                                                         *)
(* effect and failed are the truth about a call, which the code never      *)
(* reads: the properties compare what the harness recorded with them.      *)
(* The audit file itself is in AuditLog; here a row is absent, pending or  *)
(* final.  Telemetry is switched on (AIOPS_TELEMETRY=1).                   *)
(*                                                                         *)
(* The tools are those of mcp_server/tools: they answer with a dict or a   *)
(* list, none captures its before-state for an undetermined write, and     *)
(* their requests go through connection.py.                                *)
(***************************************************************************)
EXTENDS Naturals

CONSTANTS
    Threads,
    Calls,
    ThreadOf,    \* ThreadOf[c]: the thread that runs call c
    Kinds,       \* the tools: records of four flags, see KindOK
    Interrupts,  \* may Ctrl-C reach a body?
    None

\* A tool: does it write, is it called with dry_run, has it an undo callable,
\* does it flatten a failure into a list?
KindOK(k) ==
    /\ k \in [writes : BOOLEAN, dry : BOOLEAN, undo : BOOLEAN, list : BOOLEAN]
    /\ (k.dry \/ k.undo) => k.writes
    /\ k.list => ~k.writes

ASSUME GovernedAssumption ==
    /\ ThreadOf \in [Calls -> Threads]
    /\ \A k \in Kinds : KindOK(k)
    /\ Interrupts \in BOOLEAN

VARIABLES
    pc,        \* where the call is in the wrapper
    kind,      \* the tool called, None before
    status,    \* _CallState.status
    result,    \* what the body returned, by the keys the harness looks at
    intent,    \* has the call an intent_id?
    row,       \* the audit row of the call
    persisted, \* did the audit engine confirm the call's final row?
    tokens,    \* the calls whose inverse is in the undo store
    breaker,   \* what the circuit breaker was told
    telemetry, \* the telemetry event: [status, persisted]
    blocked,   \* _write_blocked of the process's audit engine
    effect,    \* truth: the server applied the call's change
    failed     \* truth: the body raised

vars == <<pc, kind, status, result, intent, row, persisted, tokens, breaker,
          telemetry, blocked, effect, failed>>

\* Everything a step inside the body leaves alone.
bookkeeping == <<kind, status, intent, row, persisted, tokens, breaker, telemetry, blocked>>

Phases   == {"new", "check", "intent", "read", "send", "annotate",
             "finalize", "record", "emit", "done"}
Verdicts == {"ok", "error", "unknown", "budget_exceeded"}
Results  == {"none", "ok", "error", "list_error", "unknown"}

Init ==
    /\ pc        = [c \in Calls |-> "new"]
    /\ kind      = [c \in Calls |-> None]
    /\ status    = [c \in Calls |-> "ok"]
    /\ result    = [c \in Calls |-> "none"]
    /\ intent    = [c \in Calls |-> FALSE]
    /\ row       = [c \in Calls |-> "absent"]
    /\ persisted = [c \in Calls |-> FALSE]
    /\ tokens    = {}
    /\ breaker   = [c \in Calls |-> "none"]
    /\ telemetry = [c \in Calls |-> None]
    /\ blocked   = FALSE
    /\ effect    = [c \in Calls |-> FALSE]
    /\ failed    = [c \in Calls |-> FALSE]

Goto(c, phase) == pc' = [pc EXCEPT ![c] = phase]

\* A write that is not a preview: the only calls with an intent.
Real(c) == kind[c].writes /\ ~kind[c].dry

-----------------------------------------------------------------------------
(* Before the body                                                         *)

\* _CallState.__init__: a thread runs one call at a time.
Begin(c) ==
    /\ pc[c] = "new"
    /\ \A d \in Calls : ThreadOf[d] = ThreadOf[c] => pc[d] \in {"new", "done"}
    /\ \E k \in Kinds : kind' = [kind EXCEPT ![c] = k]
    /\ Goto(c, "check")
    /\ UNCHANGED <<status, result, intent, row, persisted, tokens, breaker,
                   telemetry, blocked, effect, failed>>

\* _pre_check(): the budget stops the call; or the call goes on, armed by a
\* pattern or not (no match, one that is not armed, or a broken engine).
PreCheck(c) ==
    /\ pc[c] = "check"
    /\ \/ /\ status' = [status EXCEPT ![c] = "budget_exceeded"]
          /\ result' = [result EXCEPT ![c] = "error"]
          /\ Goto(c, "finalize")
          /\ UNCHANGED breaker
       \/ /\ breaker' = [breaker EXCEPT ![c] = "armed"]
          /\ Goto(c, "intent")
          /\ UNCHANGED <<status, result>>
       \/ Goto(c, "intent") /\ UNCHANGED <<breaker, status, result>>
    /\ UNCHANGED <<kind, intent, row, persisted, tokens, telemetry, blocked, effect, failed>>

\* Fault: a write whose intent cannot be committed runs all the same.
BeginWriteOpen(c) ==
    /\ pc[c] = "intent"
    /\ \/ /\ Real(c)
          /\ intent' = [intent EXCEPT ![c] = TRUE]
          /\ row' = [row EXCEPT ![c] = "pending"]
       \/ UNCHANGED <<intent, row>>
    /\ Goto(c, "read")
    /\ UNCHANGED <<kind, status, result, persisted, tokens, breaker, telemetry,
                   blocked, effect, failed>>

\* _begin_write(): a real write commits its intent, or AuditUnavailable is
\* raised, captured as an error, and no write of the process starts any more.
BeginWrite(c) ==
    /\ pc[c] = "intent"
    /\ \/ /\ ~Real(c)
          /\ Goto(c, "read")
          /\ UNCHANGED <<status, result, intent, row, blocked>>
       \/ /\ Real(c) /\ ~blocked
          /\ intent' = [intent EXCEPT ![c] = TRUE]
          /\ row' = [row EXCEPT ![c] = "pending"]
          /\ Goto(c, "read")
          /\ UNCHANGED <<status, result, blocked>>
       \/ /\ Real(c)
          /\ blocked' = TRUE
          /\ status' = [status EXCEPT ![c] = "error"]
          /\ result' = [result EXCEPT ![c] = "error"]
          /\ Goto(c, "finalize")
          /\ UNCHANGED <<intent, row>>
    /\ UNCHANGED <<kind, persisted, tokens, breaker, telemetry, effect, failed>>

-----------------------------------------------------------------------------
(* The body, inside tool_errors                                            *)

\* The exceptions of a body: those of httpx that leave the fate of the request
\* undetermined, what the client raises itself, and all others.
Exceptions == {"httpx", "VeeamApiError", "other"}

\* The client's _send() turns every exception of httpx into its own.
Translate(exception) == IF exception = "httpx" THEN "VeeamApiError" ELSE exception

\* What tool_errors makes of an exception: an error payload, in a list for the
\* tools that return one, marked unknown if it is of _UNDETERMINED_ERRORS.  Its
\* third shape, a string, is used by no tool.
Flattened(c, exception) ==
    IF kind[c].list THEN "list_error"
    ELSE IF exception = "httpx" THEN "unknown" ELSE "error"

\* The body ends with a return value or an exception.
Return(c, what) == result' = [result EXCEPT ![c] = what] /\ Goto(c, "annotate")
Fail(c, exception) ==
    /\ Return(c, Flattened(c, Translate(exception)))
    /\ failed' = [failed EXCEPT ![c] = TRUE]

\* The part of the body that only reads: all of a read or a preview.  Of a write
\* it is the connection and the advisory before-state, whose own errors are
\* swallowed: what fails a write here is the connection.
Read(c) ==
    /\ pc[c] = "read"
    /\ \/ Real(c) /\ Goto(c, "send") /\ UNCHANGED <<result, failed>>
       \/ ~Real(c) /\ Return(c, "ok") /\ UNCHANGED failed
       \/ \E exception \in Exceptions : Fail(c, exception)
    /\ UNCHANGED <<bookkeeping, effect>>

\* The mutating request: accepted; refused, or never sent; or its response is
\* lost, and then the change may be live or not.
Send(c) ==
    /\ pc[c] = "send"
    /\ \/ effect' = [effect EXCEPT ![c] = TRUE] /\ Return(c, "ok") /\ UNCHANGED failed
       \/ UNCHANGED effect /\ \E exception \in Exceptions \ {"httpx"} : Fail(c, exception)
       \/ \E applied \in BOOLEAN : effect' = [effect EXCEPT ![c] = applied] /\ Fail(c, "httpx")
    /\ UNCHANGED bookkeeping

\* A command that is not a tool (cli/_common.py audited): the exception of a
\* read passes the wrapper, which captures it.
Raise(c) ==
    /\ pc[c] = "read"
    /\ ~kind[c].writes
    /\ failed' = [failed EXCEPT ![c] = TRUE]
    /\ status' = [status EXCEPT ![c] = "error"]
    /\ result' = [result EXCEPT ![c] = "error"]
    /\ Goto(c, "finalize")
    /\ UNCHANGED <<kind, intent, row, persisted, tokens, breaker, telemetry, blocked, effect>>

\* KeyboardInterrupt is no Exception: neither tool_errors nor the wrapper
\* captures it, and the finally clause finalizes a call with no result.
Interrupt(c) ==
    /\ Interrupts
    /\ pc[c] \in {"read", "send"}
    /\ \E applied \in IF pc[c] = "send" THEN BOOLEAN ELSE {FALSE} :
          effect' = [effect EXCEPT ![c] = applied]
    /\ failed' = [failed EXCEPT ![c] = TRUE]
    /\ Goto(c, "finalize")
    /\ UNCHANGED <<bookkeeping, result>>

-----------------------------------------------------------------------------
(* After the body                                                          *)

\* Fault: an error payload does not end the search for an inverse.
InvertibleAnyway(c) == kind[c].undo /\ ~kind[c].dry

\* Does _record_undo get as far as the undo callable?  Not with an undetermined
\* result, as no tool has captured a before-state.
Invertible(c) ==
    /\ kind[c].undo
    /\ ~kind[c].dry
    /\ result[c] \notin {"error", "unknown"}

\* Fault: an inverse that cannot be computed or stored raises.
AnnotateStrict(c) ==
    /\ pc[c] = "annotate"
    /\ IF Invertible(c)
         THEN \/ tokens' = tokens \cup {c} /\ UNCHANGED <<status, result>>
              \/ /\ status' = [status EXCEPT ![c] = "error"]
                 /\ result' = [result EXCEPT ![c] = "error"]
                 /\ UNCHANGED tokens
         ELSE UNCHANGED <<tokens, status, result>>
    /\ Goto(c, "finalize")
    /\ UNCHANGED <<kind, intent, row, persisted, breaker, telemetry, blocked, effect, failed>>

\* _annotate_result() and _record_undo(): an undo callable that raises or finds
\* no inverse, or a store that fails, leaves the call without a token.
Annotate(c) ==
    /\ pc[c] = "annotate"
    /\ \/ Invertible(c) /\ tokens' = tokens \cup {c}
       \/ UNCHANGED tokens
    /\ Goto(c, "finalize")
    /\ UNCHANGED <<kind, status, result, intent, row, persisted, breaker, telemetry,
                   blocked, effect, failed>>

\* Fault: only an exception makes a call fail.
VerdictRaisedOnly(c) == status[c]

\* The status _finalize settles on, by the keys of a dict result.
Verdict(c) ==
    CASE status[c] = "ok" /\ result[c] = "unknown" -> "unknown"
      [] status[c] = "ok" /\ result[c] = "error"   -> "error"
      [] OTHER                                     -> status[c]

\* Fault: the breaker is told before the sanitized failures are judged.
ReportUnjudged(c) ==
    IF breaker[c] # "armed" THEN breaker[c]
    ELSE IF status[c] = "ok" THEN "success" ELSE "failure"

\* What report_outcome() tells the breaker of an armed pattern.
Report(c) ==
    IF breaker[c] # "armed" THEN breaker[c]
    ELSE IF Verdict(c) = "ok" THEN "success" ELSE "failure"

\* The event of _emit_telemetry(): a status nobody recorded is "unknown".
Event(c) ==
    [status |-> IF persisted[c] THEN status[c] ELSE "unknown", persisted |-> persisted[c]]

\* _finalize(), first: the verdict, and the report of an armed pattern.
Judge(c) ==
    /\ pc[c] = "finalize"
    /\ status' = [status EXCEPT ![c] = Verdict(c)]
    /\ breaker' = [breaker EXCEPT ![c] = Report(c)]
    /\ Goto(c, "record")
    /\ UNCHANGED <<kind, result, intent, row, persisted, tokens, telemetry,
                   blocked, effect, failed>>

\* Then the intent is resolved, or a plain row appended.
Record(c) ==
    /\ pc[c] = "record"
    /\ row' = [row EXCEPT ![c] = status[c]]
    /\ persisted' = [persisted EXCEPT ![c] = TRUE]
    /\ Goto(c, "emit")
    /\ UNCHANGED <<kind, status, result, intent, tokens, breaker, telemetry,
                   blocked, effect, failed>>

\* Or storage fails: an intent stays pending, the process is blocked and
\* AuditUnavailable raised; a plain row is dropped with a warning.
RecordFails(c) ==
    /\ pc[c] = "record"
    /\ blocked' = (blocked \/ intent[c])
    /\ Goto(c, "emit")
    /\ UNCHANGED <<kind, status, result, intent, row, persisted, tokens, breaker,
                   telemetry, effect, failed>>

\* Last, in a finally clause, the event.
Emit(c) ==
    /\ pc[c] = "emit"
    /\ telemetry' = [telemetry EXCEPT ![c] = Event(c)]
    /\ Goto(c, "done")
    /\ UNCHANGED <<kind, status, result, intent, row, persisted, tokens, breaker,
                   blocked, effect, failed>>

-----------------------------------------------------------------------------

Step(c) ==
    \/ Begin(c) \/ PreCheck(c) \/ BeginWrite(c) \/ Read(c) \/ Send(c)
    \/ Raise(c) \/ Interrupt(c) \/ Annotate(c)
    \/ Judge(c) \/ Record(c) \/ RecordFails(c) \/ Emit(c)

Next == \E c \in Calls : Step(c)

Spec == Init /\ [][Next]_vars

-----------------------------------------------------------------------------
(* Properties                                                              *)

TypeOK ==
    /\ pc        \in [Calls -> Phases]
    /\ kind      \in [Calls -> Kinds \cup {None}]
    /\ status    \in [Calls -> Verdicts]
    /\ result    \in [Calls -> Results]
    /\ intent    \in [Calls -> BOOLEAN]
    /\ row       \in [Calls -> Verdicts \cup {"absent", "pending"}]
    /\ persisted \in [Calls -> BOOLEAN]
    /\ tokens    \subseteq Calls
    /\ breaker   \in [Calls -> {"none", "armed", "success", "failure"}]
    /\ telemetry \in [Calls -> [status : Verdicts, persisted : BOOLEAN] \cup {None}]
    /\ blocked   \in BOOLEAN
    /\ effect    \in [Calls -> BOOLEAN]
    /\ failed    \in [Calls -> BOOLEAN]

\* A row never asserts that a change failed while the change is live
\* (outcome.py:14-16, decorators.py:404-408).
NoFalseFailure == \A c \in Calls : row[c] = "error" => ~effect[c]

\* A row asserts the failure of a live change only if the body itself failed, that
\* is if its response was lost: nothing that breaks after an accepted change, be it
\* the undo callable, the undo store or another call's storage, makes it read as a
\* failure (decorators.py:331-332, 364-386, 402-419).
FailureFromBody ==
    \A c \in Calls : row[c] \in {"error", "budget_exceeded"} /\ effect[c] => failed[c]

Truthful(c) == row[c] = "ok" => ~failed[c] /\ (Real(c) => effect[c])

\* Of a call whose body returned a dict, a row never asserts success if the body
\* failed or the server did not apply the write (decorators.py:404-419).
SuccessTruthful ==
    \A c \in Calls : result[c] \notin {"none", "list_error"} => Truthful(c)

\* The same of every call: "a sanitized failure ... must not be audited as
\* success" (decorators.py:404-406).
NoFalseSuccess == \A c \in Calls : Truthful(c)

\* The circuit breaker of a remediation pattern has been told of an armed call
\* before its row is final, and what the row then says, never a success the row
\* denies or a failure it does not know of; and what telemetry reports as persisted
\* is what the row says already, and what it cannot vouch for it reports as unknown
\* (decorators.py:436-481).
ReportsAgree ==
    \A c \in Calls :
        /\ row[c] \in Verdicts =>
              breaker[c] \in {"none", IF row[c] = "ok" THEN "success" ELSE "failure"}
        /\ telemetry[c] # None =>
              IF telemetry[c].persisted THEN row[c] = telemetry[c].status
              ELSE telemetry[c].status = "unknown" /\ row[c] \in {"absent", "pending"}

\* An undo token stands for a change that is live, and for that of a real write:
\* none is left by a preview, a refusal or a lost response, whose inverse would
\* undo what never happened (decorators.py:337-362).
InverseSound == \A c \in tokens : Real(c) /\ effect[c]

\* No change reaches the server unless the intent of that very write was
\* committed before, however the storage fails (decorators.py:282-296,
\* README.md:5).
IntentPrecedesEffect == \A c \in Calls : effect[c] => intent[c] /\ row[c] # "absent"

=============================================================================
