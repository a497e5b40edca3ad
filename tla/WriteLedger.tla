----------------------------- MODULE WriteLedger -----------------------------
(***************************************************************************)
(* What the audit log promises about upstream writes, with no database,    *)
(* no lock, no rotation and no process in it.  SECURITY.md:74-78 states    *)
(* the promise: the body of a write runs only under a committed "pending"  *)
(* entry, an entry is resolved at most once, a write whose finalization    *)
(* was lost keeps its entry until an operator reconciles it to "unknown",  *)
(* and retention may forget resolved entries only.                         *)
(*                                                                         *)
(* AuditLog implements this specification; see LedgerSpec there.           *)
(***************************************************************************)

CONSTANTS Writes,   \* governed calls whose body changes the server
          Outcomes  \* final statuses of an audit row

VARIABLES entry,    \* entry[w]: the ledger's entry for w, "absent" if none
          body      \* body[w]: where the upstream body of w is

vars == <<entry, body>>

Init ==
    /\ entry = [w \in Writes |-> "absent"]
    /\ body  = [w \in Writes |-> "idle"]

\* The intent is committed and the body starts, in that order.
Start(w) ==
    /\ body[w] = "idle"
    /\ entry[w] = "absent"
    /\ entry' = [entry EXCEPT ![w] = "pending"]
    /\ body'  = [body EXCEPT ![w] = "running"]

\* The body is over and its own entry receives the final status.
Resolve(w) ==
    /\ body[w] = "running"
    /\ entry[w] = "pending"
    /\ \E o \in Outcomes : entry' = [entry EXCEPT ![w] = o]
    /\ body' = [body EXCEPT ![w] = "over"]

\* Processes die, or a finalization is lost: the entries are left as they are.
Abandon(W) ==
    /\ W # {}
    /\ body' = [w \in Writes |-> IF w \in W THEN "over" ELSE body[w]]
    /\ UNCHANGED entry

\* No intent could be committed: the body never runs.
Refuse(w) ==
    /\ body[w] = "idle"
    /\ body' = [body EXCEPT ![w] = "refused"]
    /\ UNCHANGED entry

\* The refusal itself is logged when the storage has come back by then.
RecordRefusal(w) ==
    /\ body[w] = "refused"
    /\ entry[w] = "absent"
    /\ entry' = [entry EXCEPT ![w] = "error"]
    /\ UNCHANGED body

\* An operator resolves the entry of a write that no longer runs.
Reconcile(w) ==
    /\ body[w] = "over"
    /\ entry[w] = "pending"
    /\ entry' = [entry EXCEPT ![w] = "unknown"]
    /\ UNCHANGED body

\* Retention drops old entries, none of them pending.
Forget(W) ==
    /\ \A w \in W : entry[w] \in Outcomes
    /\ entry' = [w \in Writes |-> IF w \in W THEN "absent" ELSE entry[w]]
    /\ UNCHANGED body

Next ==
    \/ \E w \in Writes : \/ Start(w) \/ Resolve(w) \/ Refuse(w)
                         \/ RecordRefusal(w) \/ Reconcile(w)
    \/ \E W \in SUBSET Writes : Abandon(W) \/ Forget(W)

Spec == Init /\ [][Next]_vars

=============================================================================
