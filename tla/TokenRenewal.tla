----------------------------- MODULE TokenRenewal -----------------------------
(***************************************************************************)
(* One VeeamConnection of veeam_aiops/connection.py shared by several      *)
(* threads (the workers of the storage ranking, the tool calls of an MCP   *)
(* server).  Each thread makes one request: it may renew the bearer token  *)
(* before the request because its lifetime has run out, and once after it  *)
(* because the server answered 401.  Only a renewal takes the lock; the    *)
(* header and the expiry are read without it.                              *)
(*                                                                         *)
(* Tokens are numbered in the order in which the server issues them.  The  *)
(* lock is held by t exactly while pc[t] is one of LockPhases.             *)
(***************************************************************************)
EXTENDS Naturals, Sequences, FiniteSets

CONSTANTS
    Threads,
    Reports,      \* may a token answer carry expires_in?  a subset of BOOLEAN
    MaxRevoked,   \* bound: tokens the server stops accepting
    MaxElapsed    \* bound: lifetimes that run out

ASSUME RenewalAssumption ==
    /\ Reports \subseteq BOOLEAN /\ Reports # {}
    /\ MaxRevoked \in Nat
    /\ MaxElapsed \in Nat

VARIABLES
    pc,       \* where the request of thread t is
    seen,     \* seen[t]: the token t read just before its request, 0 before
    used,     \* used[t]: the tokens t's request was sent with, in order
    header,   \* the token in the client's Authorization header
    expiry,   \* _expires_at: "none", "ahead" of the clock, or "past"
    issued,   \* number of tokens issued
    revoked,  \* tokens the server no longer accepts
    elapsed,  \* number of lifetimes that ran out
    effects   \* effects[t]: how often the server ran t's request

vars == <<pc, seen, used, header, expiry, issued, revoked, elapsed, effects>>

\* Fault: a failed login keeps the lock.
LockPhasesLeaked == {"login", "stamp", "relogin", "restamp", "refused"}

LockPhases == {"login", "stamp", "relogin", "restamp"}
Ended      == {"answered", "refused", "unauthorized", "crashed"}
Phases     == {"new", "compare", "expired", "look", "send", "sent", "denied",
                "resend", "resent"}
              \cup LockPhases \cup Ended

LockFree == \A t \in Threads : pc[t] \notin LockPhases

Init ==
    /\ pc = [t \in Threads |-> "new"]
    /\ seen = [t \in Threads |-> 0]
    /\ used = [t \in Threads |-> <<>>]
    /\ header = 1
    /\ expiry \in {IF r THEN "ahead" ELSE "none" : r \in Reports}
    /\ issued = 1
    /\ revoked = {}
    /\ elapsed = 0
    /\ effects = [t \in Threads |-> 0]

Goto(t, phase) == pc' = [pc EXCEPT ![t] = phase]

-----------------------------------------------------------------------------
(* The server and the clock                                                *)

\* The server stops accepting a token: its life is over, the service restarted,
\* an administrator revoked it.
Revoke ==
    /\ Cardinality(revoked) < MaxRevoked
    /\ \E n \in 1..issued : revoked' = revoked \cup {n}
    /\ UNCHANGED <<pc, seen, used, header, expiry, issued, elapsed, effects>>

\* The reported lifetime, less its margin, runs out.
Elapse ==
    /\ expiry = "ahead"
    /\ elapsed < MaxElapsed
    /\ elapsed' = elapsed + 1
    /\ expiry' = "past"
    /\ UNCHANGED <<pc, seen, used, header, issued, revoked, effects>>

-----------------------------------------------------------------------------
(* _refresh_if_expired(): the expiry is read twice without the lock        *)

CheckExpiry(t) ==
    /\ pc[t] = "new"
    /\ Goto(t, IF expiry = "none" THEN "look" ELSE "compare")
    /\ UNCHANGED <<seen, used, header, expiry, issued, revoked, elapsed, effects>>

\* By the second read the expiry may have become None, which does not compare.
CompareExpiry(t) ==
    /\ pc[t] = "compare"
    /\ Goto(t, CASE expiry = "none"  -> "crashed"
                 [] expiry = "ahead" -> "look"
                 [] expiry = "past"  -> "expired")
    /\ UNCHANGED <<seen, used, header, expiry, issued, revoked, elapsed, effects>>

\* Fault: the expiry is not read again under the lock.
RefreshUnchecked(t) ==
    /\ pc[t] = "expired"
    /\ LockFree
    /\ Goto(t, "login")
    /\ UNCHANGED <<seen, used, header, expiry, issued, revoked, elapsed, effects>>

\* Under the lock the expiry is read again: another thread may have renewed.
Refresh(t) ==
    /\ pc[t] = "expired"
    /\ LockFree
    /\ Goto(t, IF expiry = "past" THEN "login" ELSE "look")
    /\ UNCHANGED <<seen, used, header, expiry, issued, revoked, elapsed, effects>>

\* _login(), up to the new header; or the login fails, which ends the request
\* and releases the lock.
Login(t) ==
    /\ pc[t] \in {"login", "relogin"}
    /\ \/ /\ issued' = issued + 1
          /\ header' = issued + 1
          /\ Goto(t, IF pc[t] = "login" THEN "stamp" ELSE "restamp")
       \/ Goto(t, "refused") /\ UNCHANGED <<issued, header>>
    /\ UNCHANGED <<seen, used, expiry, revoked, elapsed, effects>>

\* The rest of _login(): the expiry of the new token; the lock is released.
Stamp(t) ==
    /\ pc[t] \in {"stamp", "restamp"}
    /\ \E r \in Reports : expiry' = IF r THEN "ahead" ELSE "none"
    /\ Goto(t, IF pc[t] = "stamp" THEN "look" ELSE "resend")
    /\ UNCHANGED <<seen, used, header, issued, revoked, elapsed, effects>>

-----------------------------------------------------------------------------
(* The request and its one retry                                           *)

\* The token the request is about to use, as request() remembers it.
Look(t) ==
    /\ pc[t] = "look"
    /\ seen' = [seen EXCEPT ![t] = header]
    /\ Goto(t, "send")
    /\ UNCHANGED <<used, header, expiry, issued, revoked, elapsed, effects>>

\* _send(): the request leaves with the header of this very moment.
Send(t) ==
    /\ pc[t] \in {"send", "resend"}
    /\ used' = [used EXCEPT ![t] = Append(@, header)]
    /\ Goto(t, IF pc[t] = "send" THEN "sent" ELSE "resent")
    /\ UNCHANGED <<seen, header, expiry, issued, revoked, elapsed, effects>>

\* Fault: a request whose answer is lost is sent again like one refused by 401.
AnswerRetriesLost(t) ==
    /\ pc[t] \in {"sent", "resent"}
    /\ \/ used[t][Len(used[t])] \notin revoked /\ effects' = [effects EXCEPT ![t] = @ + 1]
       \/ UNCHANGED effects
    /\ Goto(t, IF pc[t] = "sent" THEN "denied" ELSE "unauthorized")
    /\ UNCHANGED <<seen, used, header, expiry, issued, revoked, elapsed>>

\* The server's answer.  A 401 comes before the handler; any other answer, a
\* lost one included, ends the request.
Answer(t) ==
    /\ pc[t] \in {"sent", "resent"}
    /\ IF used[t][Len(used[t])] \in revoked
         THEN /\ Goto(t, IF pc[t] = "sent" THEN "denied" ELSE "unauthorized")
              /\ UNCHANGED effects
         ELSE /\ \/ effects' = [effects EXCEPT ![t] = @ + 1]
                 \/ UNCHANGED effects
              /\ Goto(t, "answered")
    /\ UNCHANGED <<seen, used, header, expiry, issued, revoked, elapsed>>

\* _renew(): a login, unless the header is no longer the one t saw.
Renew(t) ==
    /\ pc[t] = "denied"
    /\ LockFree
    /\ Goto(t, IF header = seen[t] THEN "relogin" ELSE "resend")
    /\ UNCHANGED <<seen, used, header, expiry, issued, revoked, elapsed, effects>>

-----------------------------------------------------------------------------

Request(t) ==
    \/ CheckExpiry(t) \/ CompareExpiry(t) \/ Refresh(t) \/ Login(t) \/ Stamp(t)
    \/ Look(t) \/ Send(t) \/ Answer(t) \/ Renew(t)

Next == Revoke \/ Elapse \/ \E t \in Threads : Request(t)

Spec == Init /\ [][Next]_vars

\* A thread that can go on goes on: each exchange with the server has a timeout.
\* No thread takes the lock more than twice, so no fairness of the lock is needed.
FairSpec == Spec /\ \A t \in Threads : WF_vars(Request(t))

-----------------------------------------------------------------------------
(* Properties                                                              *)

TypeOK ==
    /\ pc \in [Threads -> Phases]
    /\ seen \in [Threads -> Nat]
    /\ used \in [Threads -> Seq(Nat)]
    /\ header \in 1..issued
    /\ expiry \in {"none", "ahead", "past"}
    /\ issued \in Nat
    /\ revoked \subseteq 1..issued
    /\ elapsed \in 0..MaxElapsed
    /\ effects \in [Threads -> Nat]

\* "An expired token is replaced once, not once per thread"
\* (connection.py:98-100): however the threads interleave, each login answers a
\* revocation or a lifetime that ran out.
NoStampede == issued <= 1 + Cardinality(revoked) + elapsed

\* The retry after a 401 carries a token other than the refused one, unless the
\* renewal of another thread came between the look at the header and the send, so
\* that the refused token is not the one the request believes it used
\* (connection.py:172-182; tests/test_connection.py:388).
RetryIsFresh ==
    \A t \in Threads :
        Len(used[t]) = 2 /\ used[t][1] = used[t][2] => used[t][1] # seen[t]

\* Renewal is neither repeated nor left out: one login for each cause of one, and a
\* fresh token for the request whose token was refused.
RenewedOncePerCause == NoStampede /\ RetryIsFresh

\* The retry after a 401 cannot apply a write twice (connection.py:177-180).
AppliedAtMostOnce == \A t \in Threads : effects[t] <= 1

\* Every request ends, with an answer or an error, also when logins fail while
\* others wait for the lock.
EveryRequestEnds == \A t \in Threads : <>(pc[t] \in Ended)

=============================================================================
