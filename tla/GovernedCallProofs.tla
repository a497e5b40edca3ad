-------------------------- MODULE GovernedCallProofs --------------------------
(***************************************************************************)
(* Theorems about GovernedCall, for every number of threads and calls and  *)
(* every set of tools: what the audit row, the circuit breaker, telemetry  *)
(* and the undo tokens say of a call agrees with what the call did.        *)
(*                                                                         *)
(* The inductive invariant has two parts: the facts that hold of a call    *)
(* phase by phase (CallInv), and that tokens are of calls whose body is    *)
(* over (TokenInv), so that what they stand for cannot change any more.    *)
(***************************************************************************)
EXTENDS GovernedCall, TLAPS

NotSent  == {"new", "check", "intent", "read", "send"}
Judged   == {"record", "emit", "done"}

\* What holds of a call before its body has answered.
Early(c) ==
    /\ pc[c] # "new" => kind[c] \in Kinds
    /\ pc[c] \in NotSent =>
         status[c] = "ok" /\ result[c] = "none" /\ ~effect[c] /\ ~failed[c]
    /\ pc[c] \in {"new", "check", "intent"} => ~intent[c] /\ row[c] = "absent"
    /\ pc[c] \in {"read", "send"} /\ Real(c) => intent[c]
    /\ pc[c] = "send" => Real(c)
    /\ pc[c] = "annotate" => result[c] # "none"
    /\ effect[c] => intent[c]
    /\ intent[c] => pc[c] # "new" /\ Real(c) /\ row[c] # "absent"

\* What the result says of the truth.
ResultTrue(c) ==
    /\ result[c] = "ok" => ~failed[c] /\ (Real(c) => effect[c])
    /\ result[c] = "list_error" => pc[c] # "new" /\ ~kind[c].writes
    /\ result[c] = "error" /\ effect[c] => failed[c]
    /\ status[c] \in {"error", "budget_exceeded"} => result[c] = "error"
    /\ status[c] = "unknown" => result[c] = "unknown"

\* What was reported, and when.
ReportTrue(c) ==
    /\ pc[c] \in Judged => (status[c] = "ok" => result[c] \notin {"error", "unknown"})
    /\ pc[c] \in Judged => breaker[c] # "armed"
    /\ breaker[c] \in {"success", "failure"} =>
         pc[c] \in Judged /\ (breaker[c] = "success" <=> status[c] = "ok")
    /\ row[c] \in Verdicts <=> persisted[c]
    /\ persisted[c] => pc[c] \in {"emit", "done"} /\ row[c] = status[c]
    /\ telemetry[c] # None =>
         /\ pc[c] = "done"
         /\ telemetry[c].persisted = persisted[c]
         /\ telemetry[c].status = IF persisted[c] THEN status[c] ELSE "unknown"

Sound(c) == Early(c) /\ ResultTrue(c) /\ ReportTrue(c)

CallInv == \A c \in Calls : Sound(c)

TokenInv ==
    \A c \in tokens : pc[c] \in {"finalize"} \cup Judged /\ Real(c) /\ effect[c]

Inv == TypeOK /\ CallInv /\ TokenInv

-----------------------------------------------------------------------------
(***************************************************************************)
(* What the operators of a running call return.                            *)
(***************************************************************************)
LEMMA FlagsBoolean ==
  ASSUME NEW k \in Kinds
  PROVE  /\ k.writes \in BOOLEAN /\ k.dry \in BOOLEAN /\ k.undo \in BOOLEAN
         /\ k.list \in BOOLEAN
         /\ k.list => ~k.writes
         /\ k.undo => k.writes
  BY GovernedAssumption DEF KindOK

LEMMA FlattenedIs ==
  ASSUME NEW c \in Calls, NEW e \in Exceptions, kind[c] \in Kinds
  PROVE  /\ Flattened(c, Translate(e)) \in {"error", "unknown", "list_error"}
         /\ Flattened(c, Translate(e)) = "list_error" <=> kind[c].list
<1>. kind[c].list \in BOOLEAN
  BY FlagsBoolean
<1>. QED
  BY DEF Flattened

LEMMA VerdictIs ==
  ASSUME NEW c \in Calls, status[c] \in Verdicts
  PROVE  /\ Verdict(c) \in Verdicts
         /\ status[c] # "ok" => Verdict(c) = status[c]
         /\ status[c] = "ok" /\ result[c] = "unknown" => Verdict(c) = "unknown"
         /\ status[c] = "ok" /\ result[c] = "error" => Verdict(c) = "error"
         /\ status[c] = "ok" /\ result[c] \notin {"error", "unknown"} => Verdict(c) = "ok"
<1>1. CASE status[c] = "ok" /\ result[c] = "unknown"
  BY <1>1 DEF Verdict, Verdicts
<1>2. CASE status[c] = "ok" /\ result[c] = "error"
  BY <1>2 DEF Verdict, Verdicts
<1>3. CASE status[c] # "ok" \/ result[c] \notin {"error", "unknown"}
  BY <1>3 DEF Verdict, Verdicts
<1>. QED
  BY <1>1, <1>2, <1>3

-----------------------------------------------------------------------------
(***************************************************************************)
(* Type correctness.                                                       *)
(***************************************************************************)
LEMMA TypeInit == Init => TypeOK
<1>. SUFFICES ASSUME Init PROVE TypeOK
  OBVIOUS
<1>1. /\ pc \in [Calls -> Phases] /\ status \in [Calls -> Verdicts]
      /\ result \in [Calls -> Results] /\ intent \in [Calls -> BOOLEAN]
      /\ row \in [Calls -> Verdicts \cup {"absent", "pending"}]
      /\ breaker \in [Calls -> {"none", "armed", "success", "failure"}]
      /\ effect \in [Calls -> BOOLEAN] /\ failed \in [Calls -> BOOLEAN]
  BY DEF Init, Phases, Verdicts, Results
<1>2. /\ kind \in [Calls -> Kinds \cup {None}]
      /\ persisted \in [Calls -> BOOLEAN]
      /\ telemetry \in [Calls -> [status : Verdicts, persisted : BOOLEAN] \cup {None}]
  BY DEF Init
<1>3. tokens \subseteq Calls /\ blocked \in BOOLEAN
  BY DEF Init
<1>. QED
  BY <1>1, <1>2, <1>3 DEF TypeOK

LEMMA TypeStep == TypeOK /\ CallInv /\ [Next]_vars => TypeOK'
<1>. SUFFICES ASSUME TypeOK, CallInv, [Next]_vars PROVE TypeOK'
  OBVIOUS
<1>1. ASSUME NEW c \in Calls, Begin(c) PROVE TypeOK'
  BY <1>1 DEF TypeOK, Begin, Goto, Phases
<1>2. ASSUME NEW c \in Calls, PreCheck(c) PROVE TypeOK'
  <2>1. /\ pc' \in [Calls -> Phases] /\ status' \in [Calls -> Verdicts]
        /\ result' \in [Calls -> Results]
        /\ breaker' \in [Calls -> {"none", "armed", "success", "failure"}]
    BY <1>2 DEF TypeOK, PreCheck, Goto, Phases, Verdicts, Results
  <2>2. UNCHANGED <<kind, intent, row, persisted, tokens, telemetry, blocked, effect, failed>>
    BY <1>2 DEF PreCheck
  <2>. QED
    BY <2>1, <2>2 DEF TypeOK
<1>3. ASSUME NEW c \in Calls, BeginWrite(c) PROVE TypeOK'
  BY <1>3, ZenonT(60) DEF TypeOK, BeginWrite, Goto, Phases, Verdicts, Results
<1>4. ASSUME NEW c \in Calls, Read(c) PROVE TypeOK'
  <2>1. kind[c] \in Kinds
    BY <1>4 DEF Read, CallInv, Sound, Early
  <2>2. \A e \in Exceptions : Flattened(c, Translate(e)) \in Results
    BY <2>1, FlattenedIs DEF Results
  <2>3. pc' \in [Calls -> Phases] /\ result' \in [Calls -> Results]
        /\ failed' \in [Calls -> BOOLEAN]
    BY <1>4, <2>2, ZenonT(60) DEF TypeOK, Read, Return, Fail, Goto, Phases, Results
  <2>4. UNCHANGED <<bookkeeping, effect>>
    BY <1>4 DEF Read
  <2>. QED
    BY <2>3, <2>4 DEF TypeOK, bookkeeping
<1>5. ASSUME NEW c \in Calls, Send(c) PROVE TypeOK'
  <2>1. kind[c] \in Kinds
    BY <1>5 DEF Send, CallInv, Sound, Early
  <2>2. \A e \in Exceptions : Flattened(c, Translate(e)) \in Results
    BY <2>1, FlattenedIs DEF Results
  <2>3. /\ \E w \in Results : Return(c, w)
        /\ failed' = failed \/ failed' = [failed EXCEPT ![c] = TRUE]
        /\ effect' = effect \/ \E b \in BOOLEAN : effect' = [effect EXCEPT ![c] = b]
    BY <1>5, <2>2 DEF Send, Fail, Results, Exceptions
  <2>4. pc' \in [Calls -> Phases] /\ result' \in [Calls -> Results]
        /\ failed' \in [Calls -> BOOLEAN] /\ effect' \in [Calls -> BOOLEAN]
    <3>1. PICK w \in Results : Return(c, w)
      BY <2>3
    <3>2. pc' \in [Calls -> Phases] /\ result' \in [Calls -> Results]
      BY <3>1 DEF TypeOK, Return, Goto, Phases
    <3>3. failed' \in [Calls -> BOOLEAN]
      BY <2>3 DEF TypeOK
    <3>4. effect' \in [Calls -> BOOLEAN]
      BY <2>3 DEF TypeOK
    <3>. QED
      BY <3>2, <3>3, <3>4
  <2>5. UNCHANGED bookkeeping
    BY <1>5 DEF Send
  <2>. QED
    BY <2>4, <2>5 DEF TypeOK, bookkeeping
<1>6. ASSUME NEW c \in Calls, Raise(c) PROVE TypeOK'
  <2>1. /\ pc' \in [Calls -> Phases] /\ status' \in [Calls -> Verdicts]
        /\ result' \in [Calls -> Results] /\ failed' \in [Calls -> BOOLEAN]
    BY <1>6 DEF TypeOK, Raise, Goto, Phases, Verdicts, Results
  <2>2. UNCHANGED <<kind, intent, row, persisted, tokens, breaker, telemetry, blocked, effect>>
    BY <1>6 DEF Raise
  <2>. QED
    BY <2>1, <2>2 DEF TypeOK
<1>7. ASSUME NEW c \in Calls, Interrupt(c) PROVE TypeOK'
  <2>1. /\ pc' \in [Calls -> Phases] /\ effect' \in [Calls -> BOOLEAN]
        /\ failed' \in [Calls -> BOOLEAN]
    BY <1>7 DEF TypeOK, Interrupt, Goto, Phases
  <2>2. UNCHANGED <<bookkeeping, result>>
    BY <1>7 DEF Interrupt
  <2>. QED
    BY <2>1, <2>2 DEF TypeOK, bookkeeping
<1>8. ASSUME NEW c \in Calls, Annotate(c) PROVE TypeOK'
  BY <1>8 DEF TypeOK, Annotate, Goto, Phases
<1>9. ASSUME NEW c \in Calls, Judge(c) PROVE TypeOK'
  <2>1. Verdict(c) \in Verdicts
    BY VerdictIs DEF TypeOK
  <2>2. Report(c) \in {"none", "armed", "success", "failure"}
    BY DEF TypeOK, Report
  <2>3. /\ status' \in [Calls -> Verdicts] /\ pc' \in [Calls -> Phases]
        /\ breaker' \in [Calls -> {"none", "armed", "success", "failure"}]
    BY <1>9, <2>1, <2>2 DEF TypeOK, Judge, Goto, Phases
  <2>4. UNCHANGED <<kind, result, intent, row, persisted, tokens, telemetry,
                    blocked, effect, failed>>
    BY <1>9 DEF Judge
  <2>. QED
    BY <2>3, <2>4 DEF TypeOK
<1>10. ASSUME NEW c \in Calls, Record(c) \/ RecordFails(c) PROVE TypeOK'
  <2>1. CASE Record(c)
    <3>1. /\ row' \in [Calls -> Verdicts \cup {"absent", "pending"}]
          /\ persisted' \in [Calls -> BOOLEAN] /\ pc' \in [Calls -> Phases]
      BY <2>1 DEF TypeOK, Record, Goto, Phases
    <3>2. UNCHANGED <<kind, status, result, intent, tokens, breaker, telemetry,
                      blocked, effect, failed>>
      BY <2>1 DEF Record
    <3>. QED
      BY <3>1, <3>2 DEF TypeOK
  <2>2. CASE RecordFails(c)
    <3>1. blocked' \in BOOLEAN /\ pc' \in [Calls -> Phases]
      BY <2>2 DEF TypeOK, RecordFails, Goto, Phases
    <3>2. UNCHANGED <<kind, status, result, intent, row, persisted, tokens, breaker,
                      telemetry, effect, failed>>
      BY <2>2 DEF RecordFails
    <3>. QED
      BY <3>1, <3>2 DEF TypeOK
  <2>. QED
    BY <1>10, <2>1, <2>2
<1>11. ASSUME NEW c \in Calls, Emit(c) PROVE TypeOK'
  <2>1. Event(c) \in [status : Verdicts, persisted : BOOLEAN]
    BY DEF TypeOK, Event, Verdicts
  <2>. QED
    BY <1>11, <2>1 DEF TypeOK, Emit, Goto, Phases
<1>12. CASE UNCHANGED vars
  BY <1>12 DEF TypeOK, vars
<1>. QED
  BY <1>1, <1>2, <1>3, <1>4, <1>5, <1>6, <1>7, <1>8, <1>9, <1>10, <1>11, <1>12 DEF Next, Step

-----------------------------------------------------------------------------
(***************************************************************************)
(* A step of one call leaves what is known of the others alone.            *)
(***************************************************************************)
Facts(d) == <<pc[d], kind[d], status[d], result[d], intent[d], row[d], persisted[d],
              breaker[d], telemetry[d], effect[d], failed[d]>>

LEMMA SoundFrame ==
  ASSUME NEW d \in Calls, Sound(d), Facts(d)' = Facts(d)
  PROVE  Sound(d)'
  BY DEF Sound, Early, ResultTrue, ReportTrue, Facts, Real, NotSent, Judged, Verdicts

LEMMA StepsAlone ==
  ASSUME TypeOK, NEW c \in Calls, Step(c), NEW d \in Calls \ {c}
  PROVE  Facts(d)' = Facts(d)
<1>. USE DEF Facts, TypeOK, Goto
<1>1. CASE Begin(c) \/ PreCheck(c) \/ BeginWrite(c)
  BY <1>1 DEF Begin, PreCheck, BeginWrite
<1>2. CASE Read(c) \/ Send(c)
  BY <1>2 DEF Read, Send, Return, Fail, bookkeeping
<1>3. CASE Raise(c) \/ Interrupt(c) \/ Annotate(c)
  BY <1>3, ZenonT(60) DEF Raise, Interrupt, Annotate, bookkeeping
<1>4. CASE Judge(c) \/ Record(c) \/ RecordFails(c) \/ Emit(c)
  BY <1>4 DEF Judge, Record, RecordFails, Emit
<1>. QED
  BY <1>1, <1>2, <1>3, <1>4 DEF Step

(***************************************************************************)
(* The step of a call keeps what is known of it.                           *)
(***************************************************************************)
LEMMA SoundBefore ==
  ASSUME TypeOK, NEW c \in Calls, Sound(c), Begin(c) \/ PreCheck(c) \/ BeginWrite(c)
  PROVE  Sound(c)'
<1>. USE DEF TypeOK, Goto, Phases, NotSent, Judged, Sound, Early, ResultTrue, ReportTrue,
             Real, Verdicts
<1>1. CASE Begin(c)
  BY <1>1 DEF Begin
<1>2. CASE PreCheck(c)
  BY <1>2 DEF PreCheck
<1>3. CASE BeginWrite(c)
  BY <1>3 DEF BeginWrite
<1>. QED
  BY <1>1, <1>2, <1>3

LEMMA SoundBody ==
  ASSUME TypeOK, NEW c \in Calls, Sound(c),
         Read(c) \/ Send(c) \/ Raise(c) \/ Interrupt(c)
  PROVE  Sound(c)'
<1>0. kind[c] \in Kinds
  BY DEF Sound, Early, Read, Send, Raise, Interrupt
<1>1. /\ kind[c].writes \in BOOLEAN /\ kind[c].dry \in BOOLEAN
      /\ kind[c].list \in BOOLEAN /\ kind[c].list => ~kind[c].writes
  BY <1>0, FlagsBoolean
<1>2. \A e \in Exceptions :
         /\ Flattened(c, Translate(e)) \in {"error", "unknown", "list_error"}
         /\ Flattened(c, Translate(e)) = "list_error" <=> kind[c].list
  BY <1>0, FlattenedIs
<1>. USE DEF TypeOK, Goto, Phases, NotSent, Judged, Sound, Early, ResultTrue, ReportTrue,
             Real, Verdicts, bookkeeping
<1>3. CASE Read(c)
  BY <1>0, <1>1, <1>2, <1>3, ZenonT(60) DEF Read, Return, Fail
<1>4. CASE Send(c)
  <2>1. "httpx" \in Exceptions
    BY DEF Exceptions
  <2>. QED
    BY <1>0, <1>1, <1>2, <1>4, <2>1, ZenonT(60) DEF Send, Return, Fail
<1>5. CASE Raise(c)
  BY <1>0, <1>1, <1>5 DEF Raise
<1>6. CASE Interrupt(c)
  BY <1>0, <1>1, <1>6 DEF Interrupt
<1>. QED
  BY <1>3, <1>4, <1>5, <1>6

LEMMA SoundAfter ==
  ASSUME TypeOK, NEW c \in Calls, Sound(c),
         Annotate(c) \/ Judge(c) \/ Record(c) \/ RecordFails(c) \/ Emit(c)
  PROVE  Sound(c)'
<1>1. /\ Verdict(c) \in Verdicts
      /\ status[c] # "ok" => Verdict(c) = status[c]
      /\ status[c] = "ok" /\ result[c] = "unknown" => Verdict(c) = "unknown"
      /\ status[c] = "ok" /\ result[c] = "error" => Verdict(c) = "error"
      /\ status[c] = "ok" /\ result[c] \notin {"error", "unknown"} => Verdict(c) = "ok"
  BY VerdictIs DEF TypeOK
<1>. USE DEF TypeOK, Goto, Phases, NotSent, Judged, Sound, Early, ResultTrue, ReportTrue, Real
<1>2. CASE Annotate(c)
  BY <1>2 DEF Annotate, Verdicts
<1>3. CASE Judge(c)
  BY <1>1, <1>3 DEF Judge, Report, Verdicts
<1>4. CASE Record(c)
  BY <1>4 DEF Record, Verdicts
<1>5. CASE RecordFails(c)
  BY <1>5 DEF RecordFails
<1>6. CASE Emit(c)
  BY <1>6 DEF Emit, Event
<1>. QED
  BY <1>2, <1>3, <1>4, <1>5, <1>6

LEMMA CallStep == TypeOK /\ CallInv /\ [Next]_vars => CallInv'
<1>. SUFFICES ASSUME TypeOK, CallInv, [Next]_vars PROVE CallInv'
  OBVIOUS
<1>1. ASSUME NEW c \in Calls, Step(c), NEW d \in Calls PROVE Sound(d)'
  <2>1. CASE d = c
    BY <1>1, <2>1, SoundBefore, SoundBody, SoundAfter DEF Step, CallInv
  <2>2. CASE d # c
    BY <1>1, <2>2, StepsAlone, SoundFrame DEF CallInv
  <2>. QED
    BY <2>1, <2>2
<1>2. CASE UNCHANGED vars
  BY <1>2, SoundFrame DEF vars, Facts, CallInv
<1>. QED
  BY <1>1, <1>2 DEF Next, CallInv

(***************************************************************************)
(* Tokens stay sound: an annotation adds a sound one, and the bodies of    *)
(* the calls behind the others are over.                                   *)
(***************************************************************************)
LEMMA TokenFrame ==
  ASSUME TypeOK, TokenInv, NEW c \in Calls, Step(c),
         pc[c] \notin {"finalize"} \cup Judged, tokens' \subseteq tokens
  PROVE  TokenInv'
<1>. SUFFICES ASSUME NEW d \in tokens
              PROVE  pc'[d] \in {"finalize"} \cup Judged /\ Real(d)' /\ effect'[d]
  BY DEF TokenInv
<1>1. d \in Calls \ {c}
  BY DEF TokenInv, TypeOK
<1>. QED
  BY <1>1, StepsAlone DEF TokenInv, Facts, Real

LEMMA TokenStep == TypeOK /\ CallInv /\ TokenInv /\ [Next]_vars => TokenInv'
<1>. SUFFICES ASSUME TypeOK, CallInv, TokenInv, [Next]_vars PROVE TokenInv'
  OBVIOUS
<1>1. ASSUME NEW c \in Calls, Begin(c) \/ PreCheck(c) \/ BeginWrite(c) PROVE TokenInv'
  BY <1>1, TokenFrame DEF Begin, PreCheck, BeginWrite, Step, Judged
<1>2. ASSUME NEW c \in Calls, Read(c) \/ Send(c) \/ Raise(c) \/ Interrupt(c) PROVE TokenInv'
  BY <1>2, TokenFrame DEF Read, Send, Raise, Interrupt, bookkeeping, Step, Judged
<1>3. ASSUME NEW c \in Calls, Annotate(c) PROVE TokenInv'
  <2>1. ASSUME Invertible(c) PROVE Real(c) /\ effect[c]
    <3>1. kind[c] \in Kinds /\ result[c] \in {"ok", "list_error"}
      BY <1>3, <2>1 DEF Annotate, Invertible, CallInv, Sound, Early, TypeOK, Results
    <3>2. Real(c)
      BY <2>1, <3>1, FlagsBoolean DEF Invertible, Real
    <3>. QED
      BY <3>1, <3>2 DEF CallInv, Sound, ResultTrue, Real
  <2>2. /\ tokens' = tokens \/ (Invertible(c) /\ tokens' = tokens \cup {c})
        /\ pc' = [pc EXCEPT ![c] = "finalize"]
        /\ UNCHANGED <<kind, effect>>
    BY <1>3, Zenon DEF Annotate, Goto
  <2>. QED
    BY <2>1, <2>2 DEF TokenInv, TypeOK, Real
<1>4. ASSUME NEW c \in Calls, Judge(c) \/ Record(c) \/ RecordFails(c) \/ Emit(c)
      PROVE  TokenInv'
  <2>1. /\ \E p \in Judged : pc' = [pc EXCEPT ![c] = p]
        /\ UNCHANGED <<kind, tokens, effect>>
    BY <1>4 DEF Judge, Record, RecordFails, Emit, Goto, Judged
  <2>. QED
    BY <2>1 DEF TokenInv, TypeOK, Real
<1>5. CASE UNCHANGED vars
  BY <1>5 DEF TokenInv, vars, Real
<1>. QED
  BY <1>1, <1>2, <1>3, <1>4, <1>5 DEF Next, Step

-----------------------------------------------------------------------------
(***************************************************************************)
(* The inductive invariant.                                                *)
(***************************************************************************)
LEMMA InvInit == Init => Inv
<1>. SUFFICES ASSUME Init PROVE Inv
  OBVIOUS
<1>1. TypeOK
  BY TypeInit
<1>2. CallInv
  BY DEF Init, CallInv, Sound, Early, ResultTrue, ReportTrue, NotSent, Judged, Verdicts, Real
<1>3. TokenInv
  BY DEF Init, TokenInv
<1>. QED
  BY <1>1, <1>2, <1>3 DEF Inv

LEMMA Invariance == Spec => []Inv
<1>1. Inv /\ [Next]_vars => Inv'
  BY TypeStep, CallStep, TokenStep DEF Inv
<1>. QED
  BY InvInit, <1>1, PTL DEF Spec

(***************************************************************************)
(* The variables keep their types: the status, result and report of a call *)
(* are of the values the code knows (decorators.py:172-219).               *)
(***************************************************************************)
THEOREM TypeCorrect == Spec => []TypeOK
<1>1. Inv => TypeOK
  BY DEF Inv
<1>. QED
  BY Invariance, <1>1, PTL

(***************************************************************************)
(* No change reaches the server before its own intent is committed         *)
(* (decorators.py:282-296).                                                *)
(***************************************************************************)
THEOREM IntentComesFirst == Spec => []IntentPrecedesEffect
<1>1. Inv => IntentPrecedesEffect
  BY DEF Inv, CallInv, Sound, Early, IntentPrecedesEffect
<1>. QED
  BY Invariance, <1>1, PTL

(***************************************************************************)
(* A row calls a live change failed only if its body failed, whatever      *)
(* breaks after it (decorators.py:331-332, 364-386).                       *)
(***************************************************************************)
THEOREM FailuresAreTheBodys == Spec => []FailureFromBody
<1>1. ASSUME Inv, NEW c \in Calls, row[c] \in {"error", "budget_exceeded"}, effect[c]
      PROVE  failed[c]
  <2>1. row[c] = status[c]
    BY <1>1 DEF Inv, CallInv, Sound, ReportTrue, Verdicts
  <2>. QED
    BY <1>1, <2>1 DEF Inv, CallInv, Sound, ResultTrue
<1>2. Inv => FailureFromBody
  BY <1>1 DEF FailureFromBody
<1>. QED
  BY Invariance, <1>2, PTL

(***************************************************************************)
(* A row asserts no success that a dict result denies                      *)
(* (decorators.py:404-419).                                                *)
(***************************************************************************)
THEOREM SuccessesAreTrue == Spec => []SuccessTruthful
<1>1. ASSUME Inv, NEW c \in Calls, result[c] \notin {"none", "list_error"}
      PROVE  Truthful(c)
  <2>1. row[c] = "ok" => status[c] = "ok" /\ pc[c] \in Judged
    BY <1>1 DEF Inv, CallInv, Sound, ReportTrue, Verdicts, Judged
  <2>2. row[c] = "ok" => result[c] = "ok"
    BY <1>1, <2>1 DEF Inv, TypeOK, CallInv, Sound, ReportTrue, Results
  <2>. QED
    BY <1>1, <2>2 DEF Inv, CallInv, Sound, ResultTrue, Truthful
<1>2. Inv => SuccessTruthful
  BY <1>1 DEF SuccessTruthful
<1>. QED
  BY Invariance, <1>2, PTL

(***************************************************************************)
(* The circuit breaker has been told what a final row says, and telemetry  *)
(* claims of the row only what is persisted (decorators.py:436-481).       *)
(***************************************************************************)
THEOREM ReportsTrue == Spec => []ReportsAgree
<1>1. ASSUME Inv, NEW c \in Calls, row[c] \in Verdicts
      PROVE  breaker[c] \in {"none", IF row[c] = "ok" THEN "success" ELSE "failure"}
  <2>1. pc[c] \in Judged /\ row[c] = status[c]
    BY <1>1 DEF Inv, CallInv, Sound, ReportTrue, Judged
  <2>. QED
    BY <1>1, <2>1 DEF Inv, TypeOK, CallInv, Sound, ReportTrue
<1>2. ASSUME Inv, NEW c \in Calls, telemetry[c] # None
      PROVE  IF telemetry[c].persisted THEN row[c] = telemetry[c].status
             ELSE telemetry[c].status = "unknown" /\ row[c] \in {"absent", "pending"}
  <2>1. /\ telemetry[c].persisted = persisted[c]
        /\ telemetry[c].status = IF persisted[c] THEN status[c] ELSE "unknown"
        /\ row[c] \in Verdicts <=> persisted[c]
        /\ persisted[c] => row[c] = status[c]
    BY <1>2 DEF Inv, CallInv, Sound, ReportTrue
  <2>2. row[c] \in Verdicts \cup {"absent", "pending"} /\ persisted[c] \in BOOLEAN
    BY <1>2 DEF Inv, TypeOK
  <2>. QED
    BY <2>1, <2>2
<1>3. Inv => ReportsAgree
  BY <1>1, <1>2 DEF ReportsAgree
<1>. QED
  BY Invariance, <1>3, PTL

(***************************************************************************)
(* An undo token stands for the live change of a real write                *)
(* (decorators.py:337-362).                                                *)
(***************************************************************************)
THEOREM InversesSound == Spec => []InverseSound
<1>1. Inv => InverseSound
  BY DEF Inv, TokenInv, InverseSound
<1>. QED
  BY Invariance, <1>1, PTL

=============================================================================
