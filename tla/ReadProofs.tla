------------------------------ MODULE ReadProofs ------------------------------
(***************************************************************************)
(* Proofs about how the VBR server is read, for every value of the         *)
(* constants: the connection and its token (TokenRenewal), collections     *)
(* page by page (Paging), and the storage totals (Ranking, Footprint).     *)
(*                                                                         *)
(* For the token the heart is a balance: every login so far was for a      *)
(* distinct token that had been revoked, or for a lifetime that had run    *)
(* out, and a lifetime that has run out and was not renewed yet is a login *)
(* still to come.  For paging it is a count: a list of different items     *)
(* from a collection, and as long as it, has all of them.  For the storage *)
(* totals it is the place of every file seen so far, which its owners and  *)
(* the listings decide, whatever order the reads end in.                   *)
(***************************************************************************)
EXTENDS TokenRenewal, Paging, Footprint, TLAPS, FiniteSetTheorems, FunctionTheorems,
        SequenceTheorems, WellFoundedInduction

-----------------------------------------------------------------------------
(* Types                                                                   *)

LEMMA TypeInit == Init => TypeOK
BY RenewalAssumption DEF Init, TypeOK, Phases, LockPhases, Ended

LEMMA TypeStep ==
    ASSUME TypeOK, [Next]_vars
    PROVE  TypeOK'
<1> USE RenewalAssumption DEF TypeOK, Phases, LockPhases, Ended, Goto
<1>1. CASE Revoke
  BY <1>1 DEF Revoke
<1>2. CASE Elapse
  BY <1>2 DEF Elapse
<1>3. ASSUME NEW t \in Threads, CheckExpiry(t) \/ CompareExpiry(t) \/ Refresh(t) \/ Renew(t)
      PROVE  TypeOK'
  BY <1>3 DEF CheckExpiry, CompareExpiry, Refresh, Renew
<1>4. ASSUME NEW t \in Threads, Login(t) PROVE TypeOK'
  <2>1. issued' \in Nat /\ header' \in 1..issued' /\ 1..issued \subseteq 1..issued'
    BY <1>4 DEF Login
  <2>2. pc' \in [Threads -> Phases] /\ UNCHANGED <<seen, used, expiry, revoked, elapsed, effects>>
    BY <1>4 DEF Login
  <2> QED
    BY <2>1, <2>2
<1>5. ASSUME NEW t \in Threads, Stamp(t) PROVE TypeOK'
  BY <1>5 DEF Stamp
<1>6. ASSUME NEW t \in Threads, Look(t) PROVE TypeOK'
  BY <1>6 DEF Look
<1>7. ASSUME NEW t \in Threads, Send(t) PROVE TypeOK'
  BY <1>7 DEF Send
<1>8. ASSUME NEW t \in Threads, Answer(t) PROVE TypeOK'
  <2>1. pc' \in [Threads -> Phases]
    BY <1>8 DEF Answer
  <2>2. effects' \in [Threads -> Nat]
    <3>1. effects' = [effects EXCEPT ![t] = @ + 1] \/ effects' = effects
      BY <1>8 DEF Answer
    <3>2. effects[t] + 1 \in Nat
      OBVIOUS
    <3> QED
      BY <3>1, <3>2
  <2> QED
    BY <1>8, <2>1, <2>2 DEF Answer
<1>9. CASE UNCHANGED vars
  BY <1>9 DEF vars
<1> QED
  BY <1>1, <1>2, <1>3, <1>4, <1>5, <1>6, <1>7, <1>8, <1>9 DEF Next, Request

\* The variables of the connection and of its threads keep their types
\* (connection.py:89-102).
THEOREM TypeCorrect == Spec => []TypeOK
<1>1. TypeOK /\ [Next]_vars => TypeOK'
  BY TypeStep
<1> QED
  BY <1>1, TypeInit, PTL DEF Spec

-----------------------------------------------------------------------------
(* One answer per request                                                  *)

\* Only a request that is answered may have had an effect, and one.
EffectInv == \A t \in Threads : effects[t] = 0 \/ (effects[t] = 1 /\ pc[t] = "answered")

LEMMA EffectStep ==
    ASSUME TypeOK, EffectInv, [Next]_vars
    PROVE  EffectInv'
<1> USE DEF TypeOK, EffectInv, Goto
<1>1. CASE Revoke \/ Elapse \/ UNCHANGED vars
  BY <1>1 DEF Revoke, Elapse, vars
<1>2. ASSUME NEW t \in Threads,
             \/ CheckExpiry(t) \/ CompareExpiry(t) \/ Refresh(t) \/ Renew(t)
             \/ Login(t) \/ Stamp(t) \/ Look(t) \/ Send(t)
      PROVE  EffectInv'
  BY <1>2 DEF CheckExpiry, CompareExpiry, Refresh, Renew, Login, Stamp, Look, Send
<1>3. ASSUME NEW t \in Threads, Answer(t) PROVE EffectInv'
  BY <1>3 DEF Answer
<1> QED
  BY <1>1, <1>2, <1>3 DEF Next, Request

\* The retry after a 401 cannot apply a write twice (connection.py:177-180).
THEOREM NothingTwice == Spec => []AppliedAtMostOnce
<1>1. Init => EffectInv
  BY DEF Init, EffectInv
<1>2. TypeOK /\ EffectInv /\ [Next]_vars => EffectInv'
  BY EffectStep
<1>3. EffectInv => AppliedAtMostOnce
  BY DEF EffectInv, AppliedAtMostOnce
<1> QED
  BY <1>1, <1>2, <1>3, TypeCorrect, PTL DEF Spec

-----------------------------------------------------------------------------
(* The lock and the header                                                 *)

\* One thread at a time renews, and the header is the token issued last.
LockInv ==
    /\ \A t, u \in Threads : pc[t] \in LockPhases /\ pc[u] \in LockPhases => t = u
    /\ header = issued
    /\ revoked \subseteq 1..issued

\* The expiry stays run out while a thread renews for that reason.
ExpiryInv == \A t \in Threads : pc[t] \in {"login", "stamp"} => expiry = "past"

\* What a thread knows of the header, from its look to its retry: it is never ahead of
\* the header, a refused token is one the server stopped accepting, and the retry comes
\* after a renewal, its own or another's.
HeaderInv(t) ==
    /\ pc[t] = "send" => Len(used[t]) = 0 /\ seen[t] <= header
    /\ pc[t] = "sent" => Len(used[t]) = 1 /\ seen[t] <= used[t][1] /\ used[t][1] <= header
    /\ pc[t] \in {"denied", "relogin"} =>
         /\ Len(used[t]) = 1 /\ seen[t] <= used[t][1] /\ used[t][1] <= header
         /\ used[t][1] \in revoked
    /\ pc[t] = "relogin" => header = seen[t]
    /\ pc[t] \in {"restamp", "resend"} => Len(used[t]) = 1 /\ seen[t] < header
    /\ Len(used[t]) = 2 => seen[t] < used[t][2]
    /\ Len(used[t]) = 2 => pc[t] \in {"resent", "answered", "unauthorized"}
    /\ Len(used[t]) \in 0..2
    /\ pc[t] \in {"new", "compare", "expired", "login", "stamp", "look"} => Len(used[t]) = 0

RenewInv == LockInv /\ ExpiryInv /\ \A t \in Threads : HeaderInv(t)

LEMMA AppendOne ==
    ASSUME NEW s \in Seq(Nat), NEW e \in Nat
    PROVE  Len(Append(s, e)) = Len(s) + 1 /\ Append(s, e)[Len(s) + 1] = e
BY AppendProperties

LEMMA RenewStep ==
    ASSUME TypeOK, RenewInv, [Next]_vars
    PROVE  RenewInv'
<1> USE DEF TypeOK, Goto
<1>1. CASE Revoke \/ Elapse \/ UNCHANGED vars
  BY <1>1 DEF Revoke, Elapse, vars, RenewInv, LockInv, ExpiryInv, HeaderInv, LockPhases
<1>2. ASSUME NEW t \in Threads, CheckExpiry(t) \/ CompareExpiry(t) PROVE RenewInv'
  <2>1. /\ pc[t] \in {"new", "compare"}
        /\ pc' = [pc EXCEPT ![t] = pc'[t]]
        /\ pc'[t] \in {"look", "compare", "crashed", "expired"}
        /\ UNCHANGED <<seen, used, header, expiry, issued, revoked>>
    BY <1>2 DEF CheckExpiry, CompareExpiry
  <2>2. LockInv'
    BY <2>1 DEF RenewInv, LockInv, LockPhases
  <2>3. ExpiryInv'
    BY <2>1 DEF RenewInv, ExpiryInv
  <2>4. ASSUME NEW u \in Threads PROVE HeaderInv(u)'
    BY <2>1 DEF RenewInv, HeaderInv
  <2> QED
    BY <2>2, <2>3, <2>4 DEF RenewInv
<1>3. ASSUME NEW t \in Threads, Refresh(t) PROVE RenewInv'
  BY <1>3 DEF Refresh, LockFree, RenewInv, LockInv, ExpiryInv, HeaderInv, LockPhases
<1>4. ASSUME NEW t \in Threads, Login(t) PROVE RenewInv'
  <2>0. /\ pc[t] \in LockPhases /\ pc' = [pc EXCEPT ![t] = pc'[t]]
        /\ pc'[t] \in {"stamp", "restamp", "refused"} /\ (pc'[t] = "stamp" => pc[t] = "login")
        /\ UNCHANGED <<expiry, revoked, seen, used>>
    BY <1>4 DEF Login, LockPhases
  <2>1. LockInv' /\ ExpiryInv'
    <3>1. \A v, w \in Threads :
             pc'[v] \in LockPhases /\ pc'[w] \in LockPhases => v = w
      BY <2>0 DEF RenewInv, LockInv
    <3>2. header' = issued' /\ revoked' \subseteq 1..issued'
      BY <1>4 DEF Login, RenewInv, LockInv
    <3>3. ExpiryInv'
      BY <2>0 DEF RenewInv, ExpiryInv
    <3> QED
      BY <3>1, <3>2, <3>3 DEF LockInv
  <2>2. header \in Nat /\ header' \in Nat /\ header <= header'
    BY <1>4 DEF Login, RenewInv, LockInv
  <2>3. HeaderInv(t)'
    BY <1>4, <2>2 DEF Login, RenewInv, LockInv, HeaderInv
  <2>4. ASSUME NEW u \in Threads \ {t} PROVE HeaderInv(u)'
    <3>1. pc'[u] = pc[u] /\ pc[u] # "relogin"
      BY <2>0 DEF RenewInv, LockInv, LockPhases
    <3>2. HeaderInv(u) /\ UNCHANGED <<seen, used, revoked>>
      BY <2>0 DEF RenewInv
    <3>3. seen[u] \in Nat /\ (Len(used[u]) = 1 => used[u][1] \in Nat)
      BY DEF TypeOK
    <3> QED
      BY <2>2, <3>1, <3>2, <3>3 DEF HeaderInv
  <2> QED
    BY <2>1, <2>3, <2>4 DEF RenewInv
<1>5. ASSUME NEW t \in Threads, Stamp(t) PROVE RenewInv'
  BY <1>5 DEF Stamp, RenewInv, LockInv, ExpiryInv, HeaderInv, LockPhases
<1>6. ASSUME NEW t \in Threads, Look(t) PROVE RenewInv'
  BY <1>6 DEF Look, RenewInv, LockInv, ExpiryInv, HeaderInv, LockPhases
<1>7. ASSUME NEW t \in Threads, Send(t) PROVE RenewInv'
  <2>1. LockInv' /\ ExpiryInv'
    BY <1>7 DEF Send, RenewInv, LockInv, ExpiryInv, LockPhases
  <2>2. /\ header \in Nat /\ seen[t] \in Nat
        /\ UNCHANGED <<seen, header, revoked>>
        /\ pc' = [pc EXCEPT ![t] = pc'[t]]
        /\ used' = [used EXCEPT ![t] = used'[t]]
    BY <1>7 DEF Send
  <2>3. ASSUME NEW u \in Threads \ {t} PROVE HeaderInv(u)'
    BY <2>2 DEF RenewInv, HeaderInv
  <2>4. CASE pc[t] = "send"
    <3>1. Len(used[t]) = 0 /\ seen[t] <= header
      BY <2>4 DEF RenewInv, HeaderInv
    <3>2. used'[t] = Append(used[t], header) /\ pc'[t] = "sent"
      BY <1>7, <2>4 DEF Send
    <3>3. Len(used'[t]) = 1 /\ used'[t][1] = header
      BY <2>2, <3>1, <3>2, AppendOne
    <3>4. HeaderInv(t)'
      BY <2>2, <3>1, <3>2, <3>3 DEF HeaderInv
    <3> QED
      BY <2>1, <2>3, <3>4 DEF RenewInv
  <2>5. CASE pc[t] = "resend"
    <3>1. Len(used[t]) = 1 /\ seen[t] < header
      BY <2>5 DEF RenewInv, HeaderInv
    <3>2. used'[t] = Append(used[t], header) /\ pc'[t] = "resent"
      BY <1>7, <2>5 DEF Send
    <3>3. Len(used'[t]) = 2 /\ used'[t][2] = header
      <4>1. used[t] \in Seq(Nat)
        OBVIOUS
      <4>2. /\ Len(Append(used[t], header)) = Len(used[t]) + 1
            /\ Append(used[t], header)[Len(used[t]) + 1] = header
        BY <2>2, <4>1, AppendOne
      <4>3. Len(used[t]) + 1 = 2
        BY <3>1
      <4> QED
        BY <3>2, <4>2, <4>3
    <3>4. HeaderInv(t)'
      BY <2>2, <3>1, <3>2, <3>3 DEF HeaderInv
    <3> QED
      BY <2>1, <2>3, <3>4 DEF RenewInv
  <2> QED
    BY <1>7, <2>4, <2>5 DEF Send
<1>8. ASSUME NEW t \in Threads, Answer(t) PROVE RenewInv'
  <2>1. /\ pc[t] \in {"sent", "resent"} /\ pc' = [pc EXCEPT ![t] = pc'[t]]
        /\ pc'[t] \in {"denied", "unauthorized", "answered"}
        /\ pc'[t] = "denied" => pc[t] = "sent" /\ used[t][Len(used[t])] \in revoked
        /\ UNCHANGED <<seen, used, header, expiry, issued, revoked>>
    BY <1>8 DEF Answer
  <2>2. LockInv'
    BY <2>1 DEF RenewInv, LockInv, LockPhases
  <2>3. ExpiryInv'
    BY <2>1 DEF RenewInv, ExpiryInv
  <2>4. ASSUME NEW u \in Threads PROVE HeaderInv(u)'
    <3>1. CASE u = t
      BY <2>1, <3>1 DEF RenewInv, HeaderInv
    <3>2. CASE u # t
      BY <2>1, <3>2 DEF RenewInv, HeaderInv
    <3> QED
      BY <3>1, <3>2
  <2> QED
    BY <2>2, <2>3, <2>4 DEF RenewInv
<1>9. ASSUME NEW t \in Threads, Renew(t) PROVE RenewInv'
  BY <1>9 DEF Renew, LockFree, RenewInv, LockInv, ExpiryInv, HeaderInv, LockPhases
<1> QED
  BY <1>1, <1>2, <1>3, <1>4, <1>5, <1>6, <1>7, <1>8, <1>9 DEF Next, Request

-----------------------------------------------------------------------------
(* The balance                                                             *)

\* A lifetime has run out, and no login for it has succeeded yet.
Overdue == expiry = "past" /\ \A t \in Threads : pc[t] # "stamp"

\* The tokens that are revoked and replaced.
Replaced == revoked \cap 1..(issued - 1)

Balance ==
    /\ ~Overdue => issued <= 1 + Cardinality(Replaced) + elapsed
    /\ Overdue => issued + 1 <= 1 + Cardinality(Replaced) + elapsed

LEMMA ReplacedFinite ==
    ASSUME TypeOK
    PROVE  /\ IsFiniteSet(Replaced) /\ Cardinality(Replaced) \in Nat
           /\ IsFiniteSet(revoked) /\ Cardinality(revoked) \in Nat
           /\ Cardinality(Replaced) <= Cardinality(revoked)
<1>1. IsFiniteSet(1..issued)
  BY FS_Interval DEF TypeOK
<1>2. IsFiniteSet(revoked)
  BY <1>1, FS_Subset DEF TypeOK
<1>3. Replaced \subseteq revoked
  BY DEF Replaced
<1> QED
  BY <1>2, <1>3, FS_Subset, FS_CardinalityType

LEMMA ReplacedGrows ==
    ASSUME TypeOK, TypeOK', Replaced \subseteq Replaced'
    PROVE  Cardinality(Replaced) <= Cardinality(Replaced')
<1>1. TypeOK' => IsFiniteSet(Replaced')
  <2>1. IsFiniteSet(1..issued')
    BY FS_Interval DEF TypeOK
  <2> QED
    BY <2>1, FS_Subset DEF TypeOK, Replaced
<1> QED
  BY <1>1, FS_Subset

LEMMA BalanceStep ==
    ASSUME TypeOK, TypeOK', RenewInv, Balance, [Next]_vars
    PROVE  Balance'
<1> DEFINE owed  == Cardinality(Replaced)
           owed1 == Cardinality(Replaced')
<1>0. owed \in Nat /\ owed1 \in Nat
  <2>1. IsFiniteSet(1..issued')
    BY FS_Interval DEF TypeOK
  <2>2. IsFiniteSet(Replaced')
    BY <2>1, FS_Subset DEF TypeOK, Replaced
  <2> QED
    BY <2>2, ReplacedFinite, FS_CardinalityType
<1>1. CASE Revoke
  <2>1. Replaced \subseteq Replaced'
    BY <1>1 DEF Revoke, Replaced
  <2>2. owed <= owed1
    BY <2>1, ReplacedGrows
  <2>3. UNCHANGED <<issued, elapsed>> /\ Overdue' = Overdue
    BY <1>1 DEF Revoke, Overdue
  <2> QED
    BY <1>0, <2>2, <2>3 DEF Balance, TypeOK
<1>2. CASE Elapse
  <2>1. owed1 = owed /\ elapsed' = elapsed + 1 /\ issued' = issued /\ ~Overdue
    BY <1>2 DEF Elapse, Replaced, Overdue
  <2> QED
    BY <1>0, <2>1 DEF Balance, TypeOK
<1>3. ASSUME NEW t \in Threads, Login(t), issued' = issued + 1 PROVE Balance'
  <2>1. CASE pc[t] = "login"
    <3>1. pc'[t] = "stamp" /\ elapsed' = elapsed
      BY <1>3, <2>1 DEF Login, Goto, TypeOK
    <3>2. Overdue
      BY <1>3, <2>1 DEF Overdue, RenewInv, ExpiryInv, LockInv, LockPhases, TypeOK
    <3>3. ~Overdue'
      BY <3>1 DEF Overdue
    <3>4. Replaced \subseteq Replaced'
      BY <1>3 DEF Login, Replaced, TypeOK
    <3>5. owed <= owed1
      BY <3>4, ReplacedGrows
    <3> QED
      BY <1>0, <1>3, <3>1, <3>2, <3>3, <3>5 DEF Balance, TypeOK
  <2>2. CASE pc[t] = "relogin"
    <3>1. pc'[t] = "restamp" /\ UNCHANGED <<elapsed, expiry, revoked>>
          /\ \A u \in Threads \ {t} : pc'[u] = pc[u]
      BY <1>3, <2>2 DEF Login, Goto, TypeOK
    <3>2. Overdue' = Overdue
      BY <2>2, <3>1 DEF Overdue
    <3>3. issued \in revoked /\ issued \notin Replaced
      BY <2>2 DEF RenewInv, LockInv, HeaderInv, Replaced, TypeOK
    <3>4. Replaced' = Replaced \cup {issued}
      BY <1>3, <3>1, <3>3 DEF Replaced, TypeOK
    <3>5. owed1 = owed + 1
      BY <3>3, <3>4, ReplacedFinite, FS_AddElement
    <3> QED
      BY <1>0, <1>3, <3>1, <3>2, <3>5, SMTT(30) DEF Balance, TypeOK
  <2> QED
    BY <1>3, <2>1, <2>2 DEF Login
<1>4. ASSUME NEW t \in Threads, Login(t), issued' # issued + 1 PROVE Balance'
  <2>1. UNCHANGED <<issued, revoked, elapsed, expiry>> /\ pc' = [pc EXCEPT ![t] = "refused"]
    BY <1>4 DEF Login, Goto
  <2>2. Overdue' = Overdue /\ Replaced' = Replaced
    BY <1>4, <2>1 DEF Login, Overdue, Replaced, TypeOK
  <2> QED
    BY <2>1, <2>2 DEF Balance
<1>5. ASSUME NEW t \in Threads, Stamp(t) PROVE Balance'
  <2>1. UNCHANGED <<issued, revoked, elapsed>> /\ expiry' # "past"
    BY <1>5 DEF Stamp
  <2>2. ~Overdue' /\ Replaced' = Replaced
    BY <2>1 DEF Overdue, Replaced
  <2> QED
    BY <1>0, <2>1, <2>2 DEF Balance, TypeOK
<1>6. ASSUME NEW t \in Threads,
             \/ CheckExpiry(t) \/ CompareExpiry(t) \/ Refresh(t)
             \/ Look(t) \/ Send(t) \/ Answer(t) \/ Renew(t)
      PROVE  Balance'
  <2>1. /\ UNCHANGED <<issued, revoked, elapsed, expiry>>
        /\ pc[t] # "stamp" /\ pc'[t] # "stamp"
        /\ \A u \in Threads \ {t} : pc'[u] = pc[u]
    BY <1>6 DEF CheckExpiry, CompareExpiry, Refresh, Look, Send, Answer, Renew, Goto, TypeOK
  <2>2. Overdue' = Overdue /\ Replaced' = Replaced
    BY <2>1 DEF Overdue, Replaced
  <2> QED
    BY <2>1, <2>2 DEF Balance
<1>7. CASE UNCHANGED vars
  BY <1>7 DEF vars, Balance, Overdue, Replaced
<1> QED
  BY <1>1, <1>2, <1>3, <1>4, <1>5, <1>6, <1>7 DEF Next, Request

\* "An expired token is replaced once, not once per thread" (connection.py:98-100), and
\* the retry after a 401 has a token other than the refused one, unless another thread
\* renewed it between the look at the header and the send (connection.py:172-182).
THEOREM OneLoginPerCause == Spec => []RenewedOncePerCause
<1>1. Init => RenewInv /\ Balance
  <2>1. ASSUME Init PROVE RenewInv
    BY <2>1 DEF Init, RenewInv, LockInv, ExpiryInv, HeaderInv, LockPhases
  <2>2. ASSUME Init PROVE ~Overdue /\ Replaced = {}
    BY <2>2 DEF Init, Overdue, Replaced
  <2>3. ASSUME Init PROVE Balance
    <3>1. Cardinality(Replaced) = 0
      BY <2>2, <2>3, FS_EmptySet
    <3>2. issued = 1 /\ elapsed = 0
      BY <2>3 DEF Init
    <3> QED
      BY <2>2, <2>3, <3>1, <3>2 DEF Balance
  <2> QED
    BY <2>1, <2>3
<1>2. TypeOK /\ TypeOK' /\ RenewInv /\ Balance /\ [Next]_vars => RenewInv' /\ Balance'
  BY RenewStep, BalanceStep
<1>3. TypeOK /\ RenewInv /\ Balance => RenewedOncePerCause
  <2>1. ASSUME TypeOK, Balance PROVE NoStampede
    BY <2>1, ReplacedFinite DEF Balance, NoStampede, TypeOK
  <2>2. ASSUME TypeOK, RenewInv PROVE RetryIsFresh
    BY <2>2 DEF RenewInv, HeaderInv, RetryIsFresh, TypeOK
  <2> QED
    BY <2>1, <2>2 DEF RenewedOncePerCause
<1> QED
  BY <1>1, <1>2, <1>3, TypeCorrect, PTL DEF Spec

-----------------------------------------------------------------------------
(* Subsequences                                                            *)

\* A set of naturals has a least one.
LEMMA LeastNatural ==
    ASSUME NEW T, T \subseteq Nat, T # {}
    PROVE  \E m \in T : \A k \in T : m <= k
<1>. DEFINE R == {ss \in Nat \X Nat : ss[1] < ss[2]}
<1>1. IsWellFoundedOn(R, Nat)
  BY NatLessThanWellFounded DEF OpToRel
<1>. HIDE DEF R
<1>2. PICK m \in T : \A k \in T : ~(<<k, m>> \in R)
  BY <1>1, WFMin
<1>3. \A k \in T : <<k, m>> \in R <=> k < m
  BY DEF R
<1>4. \A k \in T : m <= k
  <2>. SUFFICES ASSUME NEW k \in T PROVE m <= k
    OBVIOUS
  <2>1. ~(k < m) /\ k \in Nat /\ m \in Nat
    BY <1>2, <1>3
  <2>. QED
    BY <2>1
<1>. QED
  BY <1>4

\* A rank goes from nothing to the number of places, and grows at the places alone.
LEMMA RankSteps ==
    ASSUME NEW n \in Nat, NEW S, \A i \in S : i \in 1..n
    PROVE  /\ IsFiniteSet(S) /\ Cardinality(S) \in Nat
           /\ \A i \in Nat : Rank(S, i) \in Nat
           /\ Rank(S, 0) = 0
           /\ Rank(S, n) = Cardinality(S)
           /\ \A i \in Nat \ {0} :
                Rank(S, i) = IF i \in S THEN Rank(S, i - 1) + 1 ELSE Rank(S, i - 1)
           /\ \A i, j \in Nat : i <= j => Rank(S, i) <= Rank(S, j)
<1>1. IsFiniteSet(S) /\ Cardinality(S) \in Nat
  <2>1. S \in SUBSET (1..n) /\ IsFiniteSet(1..n)
    BY FS_Interval
  <2>. QED
    BY <2>1, FS_Subset, FS_CardinalityType
<1>. DEFINE Up(i) == {j \in S : j <= i}
<1>2. \A i : IsFiniteSet(Up(i)) /\ Cardinality(Up(i)) \in Nat
  BY <1>1, FS_Subset, FS_CardinalityType
<1>3. Up(0) = {} /\ Up(n) = S
  OBVIOUS
<1>4. ASSUME NEW i \in Nat \ {0}
      PROVE  /\ i \notin Up(i - 1)
             /\ i \in S => Up(i) = Up(i - 1) \cup {i}
             /\ i \notin S => Up(i) = Up(i - 1)
  <2>1. \A j \in Nat : j <= i <=> j <= i - 1 \/ j = i
    OBVIOUS
  <2>2. \A j \in S : j \in Nat
    OBVIOUS
  <2>. QED
    BY <2>1, <2>2
<1>5. ASSUME NEW i \in Nat, NEW j \in Nat, i <= j PROVE Up(i) \subseteq Up(j)
  BY <1>5
<1>6. \A i : Rank(S, i) = Cardinality(Up(i))
  BY DEF Rank
<1>. HIDE DEF Up
<1>7. ASSUME NEW i \in Nat \ {0}
      PROVE  Cardinality(Up(i)) =
               IF i \in S THEN Cardinality(Up(i - 1)) + 1 ELSE Cardinality(Up(i - 1))
  <2>1. CASE i \in S
    <3>1. IsFiniteSet(Up(i - 1)) /\ i \notin Up(i - 1) /\ Up(i) = Up(i - 1) \cup {i}
      BY <1>2, <1>4, <2>1
    <3>. QED
      BY <2>1, <3>1, FS_AddElement
  <2>2. CASE i \notin S
    BY <1>4, <2>2
  <2>. QED
    BY <2>1, <2>2
<1>8. ASSUME NEW i \in Nat, NEW j \in Nat, i <= j PROVE Cardinality(Up(i)) <= Cardinality(Up(j))
  BY <1>2, <1>5, <1>8, FS_Subset
<1>. QED
  BY <1>1, <1>2, <1>3, <1>6, <1>7, <1>8, FS_EmptySet

\* Every rank up to the number of places is that of one place, and of no other.
LEMMA NthPlace ==
    ASSUME NEW n \in Nat, NEW S, \A i \in S : i \in 1..n
    PROVE  /\ \A k \in 1..Cardinality(S) : Nth(S, k) \in S /\ Rank(S, Nth(S, k)) = k
           /\ \A i \in S : Rank(S, i) \in 1..Cardinality(S) /\ Nth(S, Rank(S, i)) = i
           /\ \A i, j \in S : i < j => Rank(S, i) < Rank(S, j)
<1>1. ASSUME NEW i \in S, NEW j \in S, i < j PROVE Rank(S, i) < Rank(S, j)
  <2>1. i \in Nat /\ j \in Nat \ {0} /\ j - 1 \in Nat /\ i <= j - 1
    BY <1>1
  <2>2. Rank(S, i) <= Rank(S, j - 1) /\ Rank(S, j) = Rank(S, j - 1) + 1
    BY <2>1, RankSteps
  <2>3. Rank(S, i) \in Nat /\ Rank(S, j - 1) \in Nat
    BY <2>1, RankSteps
  <2>. QED
    BY <2>2, <2>3
<1>2. ASSUME NEW k \in 1..Cardinality(S) PROVE \E i \in S : Rank(S, i) = k
  <2>. DEFINE W == {i \in Nat : k <= Rank(S, i)}
  <2>1. Cardinality(S) \in Nat /\ k \in Nat /\ 0 < k /\ k <= Cardinality(S)
    BY RankSteps
  <2>2. n \in W
    BY <2>1, RankSteps
  <2>3. PICK m \in W : \A i \in W : m <= i
    <3>1. W \subseteq Nat /\ W # {}
      BY <2>2
    <3>. HIDE DEF W
    <3>. QED
      BY <3>1, LeastNatural
  <2>4. m \in Nat /\ k <= Rank(S, m) /\ m # 0
    BY <2>1, <2>3, RankSteps
  <2>5. m \in Nat \ {0} /\ m - 1 \in Nat /\ Rank(S, m - 1) \in Nat
    BY <2>4, RankSteps
  <2>6. ~(k <= Rank(S, m - 1))
    <3>1. m - 1 \notin W
      <4>. HIDE DEF W
      <4>. QED
        BY <2>3, <2>4
    <3>. QED
      BY <2>5, <3>1
  <2>7. m \in S
    <3>1. m \notin S => Rank(S, m) = Rank(S, m - 1)
      BY <2>5, RankSteps
    <3>. QED
      BY <2>4, <2>6, <3>1
  <2>8. Rank(S, m) = Rank(S, m - 1) + 1
    BY <2>5, <2>7, RankSteps
  <2>9. Rank(S, m) = k
    BY <2>1, <2>4, <2>5, <2>6, <2>8
  <2>. QED
    BY <2>7, <2>9
<1>3. ASSUME NEW k \in 1..Cardinality(S) PROVE Nth(S, k) \in S /\ Rank(S, Nth(S, k)) = k
  BY <1>2 DEF Nth
<1>4. ASSUME NEW i \in S PROVE Rank(S, i) \in 1..Cardinality(S)
  <2>1. i \in Nat \ {0} /\ i - 1 \in Nat /\ i <= n
    OBVIOUS
  <2>2. Rank(S, i) = Rank(S, i - 1) + 1 /\ Rank(S, i - 1) \in Nat
    BY <2>1, RankSteps
  <2>3. Rank(S, i) <= Rank(S, n) /\ Rank(S, n) = Cardinality(S) /\ Cardinality(S) \in Nat
    BY <2>1, RankSteps
  <2>. QED
    BY <2>2, <2>3
<1>5. ASSUME NEW i \in S, NEW j \in S, Rank(S, i) = Rank(S, j) PROVE i = j
  <2>1. i \in Nat /\ j \in Nat /\ Rank(S, i) \in Nat /\ Rank(S, j) \in Nat
    BY RankSteps
  <2>2. ~(i < j) /\ ~(j < i)
    BY <1>1, <1>5, <2>1
  <2>. QED
    BY <2>1, <2>2
<1>6. ASSUME NEW i \in S PROVE Nth(S, Rank(S, i)) = i
  BY <1>3, <1>4, <1>5
<1>. QED
  BY <1>1, <1>3, <1>4, <1>6

\* What is picked is a sequence of the items at the places, in their order.
LEMMA PickedProperties ==
    ASSUME NEW A, NEW s \in Seq(A), NEW S, \A i \in S : i \in 1..Len(s)
    PROVE  /\ Picked(s, S) \in Seq(A)
           /\ Len(Picked(s, S)) = Cardinality(S) /\ Cardinality(S) \in Nat
           /\ \A k \in 1..Cardinality(S) :
                Nth(S, k) \in S /\ Picked(s, S)[k] = s[Nth(S, k)] /\ s[Nth(S, k)] \in A
           /\ \A i \in S : Rank(S, i) \in 1..Cardinality(S) /\ Picked(s, S)[Rank(S, i)] = s[i]
           /\ \A k, l \in 1..Cardinality(S) : Nth(S, k) = Nth(S, l) => k = l
<1>1. Len(s) \in Nat /\ \A i \in 1..Len(s) : s[i] \in A
  BY LenProperties, ElementOfSeq
<1>2. Cardinality(S) \in Nat
  BY <1>1, RankSteps
<1>3. \A k \in 1..Cardinality(S) : Nth(S, k) \in S /\ Rank(S, Nth(S, k)) = k
  BY <1>1, NthPlace
<1>4. \A i \in S : Rank(S, i) \in 1..Cardinality(S) /\ Nth(S, Rank(S, i)) = i
  BY <1>1, NthPlace
<1>5. Picked(s, S) = [k \in 1..Cardinality(S) |-> s[Nth(S, k)]]
  BY DEF Picked
<1>6. Picked(s, S) \in Seq(A) /\ Len(Picked(s, S)) = Cardinality(S)
  BY <1>1, <1>2, <1>3, <1>5
<1>. QED
  BY <1>1, <1>2, <1>3, <1>4, <1>5, <1>6

\* Picking every item leaves the sequence as it is.
LEMMA PickedAll ==
    ASSUME NEW A, NEW s \in Seq(A)
    PROVE  Picked(s, 1..Len(s)) = s
<1>1. Len(s) \in Nat /\ s = [i \in 1..Len(s) |-> s[i]]
  BY LenProperties
<1>. DEFINE S == 1..Len(s)
<1>2. Cardinality(S) = Len(s)
  BY <1>1, FS_Interval
<1>3. ASSUME NEW i \in 1..Len(s) PROVE Rank(S, i) = i
  <2>1. {j \in S : j <= i} = 1..i
    BY <1>1
  <2>2. i \in Nat /\ i >= 1 /\ Cardinality(1..i) = i
    BY <1>1, FS_Interval
  <2>. QED
    BY <2>1, <2>2 DEF Rank
<1>4. ASSUME NEW i \in 1..Len(s) PROVE Nth(S, i) = i
  BY <1>1, <1>3, NthPlace
<1>. QED
  BY <1>1, <1>2, <1>4 DEF Picked

\* One more place, behind the others, appends its item.
LEMMA PickedGrows ==
    ASSUME NEW A, NEW s \in Seq(A), NEW n \in Nat, n < Len(s), NEW S, \A i \in S : i \in 1..n
    PROVE  Picked(s, S \cup {n + 1}) = Append(Picked(s, S), s[n + 1])
<1>. DEFINE T == S \cup {n + 1}
            c == Cardinality(S)
<1>1. Len(s) \in Nat /\ n + 1 \in 1..Len(s) /\ s[n + 1] \in A
  BY LenProperties, ElementOfSeq
<1>2. (\A i \in S : i \in 1..Len(s)) /\ (\A i \in T : i \in 1..Len(s)) /\ n + 1 \notin S
  BY <1>1
<1>3. c \in Nat /\ Cardinality(T) = c + 1
  BY <1>2, RankSteps, FS_AddElement
<1>4. ASSUME NEW i \in S PROVE Rank(T, i) = Rank(S, i)
  <2>1. {j \in T : j <= i} = {j \in S : j <= i}
    OBVIOUS
  <2>. QED
    BY <2>1 DEF Rank
<1>5. Rank(T, n + 1) = c + 1
  <2>1. {j \in T : j <= n + 1} = T
    OBVIOUS
  <2>. QED
    BY <1>3, <2>1 DEF Rank
<1>. HIDE DEF T, c
<1>6. ASSUME NEW k \in 1..c PROVE Picked(s, T)[k] = Picked(s, S)[k]
  <2>1. Nth(S, k) \in S /\ Rank(S, Nth(S, k)) = k
    BY <1>2, NthPlace DEF c
  <2>2. Picked(s, S)[k] = s[Nth(S, k)]
    BY <1>2, PickedProperties DEF c
  <2>3. Nth(S, k) \in T /\ Rank(T, Nth(S, k)) = k
    BY <1>4, <2>1 DEF T
  <2>4. Picked(s, T)[k] = s[Nth(S, k)]
    BY <1>2, <2>3, PickedProperties
  <2>. QED
    BY <2>2, <2>4
<1>7. Picked(s, T)[c + 1] = s[n + 1]
  <2>1. n + 1 \in T
    BY DEF T
  <2>. QED
    BY <1>2, <1>5, <2>1, PickedProperties
<1>8. /\ Picked(s, T) \in Seq(A) /\ Len(Picked(s, T)) = c + 1
      /\ Picked(s, S) \in Seq(A) /\ Len(Picked(s, S)) = c
  BY <1>2, <1>3, PickedProperties DEF c
<1>. DEFINE p == Picked(s, T)
            q == Append(Picked(s, S), s[n + 1])
<1>9. /\ q \in Seq(A) /\ Len(q) = c + 1
      /\ \A k \in 1..c : q[k] = Picked(s, S)[k]
      /\ q[c + 1] = s[n + 1]
  BY <1>1, <1>8, AppendProperties
<1>10. \A k \in 1..(c + 1) : p[k] = q[k]
  BY <1>3, <1>6, <1>7, <1>9
<1>. HIDE DEF p, q
<1>. QED
  <2>1. p \in Seq(A) /\ Len(p) = c + 1
    BY <1>8 DEF p
  <2>2. p = q
    BY <1>3, <1>9, <1>10, <2>1, SeqEqual
  <2>. QED
    BY <2>2 DEF p, q, T

-----------------------------------------------------------------------------
(* Paging                                                                  *)

\* A collection is a sequence of items that are all different.
LEMMA CollectionType ==
    ASSUME NEW c \in Collections
    PROVE  /\ c \in Seq(Items) /\ Len(c) \in Nat
           /\ \A i \in 1..Len(c) : c[i] \in Items
           /\ \A i, j \in 1..Len(c) : c[i] = c[j] => i = j
<1>1. c \in Seq(Items)
  BY PagingAssumption
<1>. QED
  BY <1>1, LenProperties, ElementOfSeq, PagingAssumption

\* The places of a page whose items are new.
New(batch) ==
    {i \in 1..Len(batch) : batch[i] \in Anonymous \/ batch[i] \notin ItemsOf(collected)}

LEMMA FreshProperties ==
    ASSUME NEW batch \in Seq(Items)
    PROVE  /\ Fresh(batch) \in Seq(Items)
           /\ Fresh(batch) = Picked(batch, New(batch))
           /\ \A i \in New(batch) : i \in 1..Len(batch)
<1>1. Fresh(batch) = Picked(batch, New(batch))
  BY DEF Fresh, New
<1>2. \A i \in New(batch) : i \in 1..Len(batch)
  BY DEF New
<1>. QED
  BY <1>1, <1>2, PickedProperties

\* A response: some stretch of the collection, and what the read makes of it.
Response(from, n, total) ==
    LET batch == SubSeq(collection, from + 1, Smaller(from + n, Len(collection)))
        items == collected \o Fresh(batch)
    IN  /\ honours => /\ from = Smaller(skip, Len(collection))
                      /\ n \in Smaller(1, Len(collection))..Limit
        /\ status' = Verdict(batch, total, Len(items))
        /\ collected' = Kept(items)
        /\ skip' = Advance(batch)
        /\ told' = (told /\ total # NoNumber)

LEMMA BatchProperties ==
    ASSUME NEW c \in Seq(Items), NEW from \in 0..Len(c), NEW n \in 0..Len(c)
    PROVE  LET m == Smaller(from + n, Len(c))  batch == SubSeq(c, from + 1, m) IN
           /\ m \in Nat /\ from <= m /\ m <= Len(c)
           /\ batch \in Seq(Items) /\ Len(batch) = m - from
           /\ \A i \in 1..(m - from) : batch[i] = c[from + i]
<1>. DEFINE m == Smaller(from + n, Len(c))  batch == SubSeq(c, from + 1, m)
<1>1. Len(c) \in Nat /\ \A i \in 1..Len(c) : c[i] \in Items
  BY LenProperties, ElementOfSeq
<1>2. m \in Nat /\ from <= m /\ m <= Len(c)
  BY <1>1 DEF Smaller
<1>. HIDE DEF m
<1>3. /\ from + 1 \in 1..(Len(c) + 1) /\ m \in (from + 1 - 1)..Len(c)
      /\ m - (from + 1) + 1 = m - from
      /\ \A i \in 1..(m - from) : (from + 1) + i - 1 = from + i
  BY <1>1, <1>2
<1>4. /\ batch \in Seq(Items) /\ Len(batch) = m - (from + 1) + 1
      /\ \A i \in 1..(m - (from + 1) + 1) : batch[i] = c[(from + 1) + i - 1]
  BY <1>3, SubSeqProperties
<1>. QED
  BY <1>2, <1>3, <1>4 DEF m

\* What is kept of a list: all of it, or as many items as are wanted.
LEMMA KeptProperties ==
    ASSUME PagingTypeOK, NEW items \in Seq(Items)
    PROVE  /\ Kept(items) \in Seq(Items)
           /\ Len(Kept(items)) =
                IF want # NoNumber /\ Len(items) > want THEN want ELSE Len(items)
           /\ Len(Kept(items)) <= Len(items)
           /\ \A i \in 1..Len(Kept(items)) : Kept(items)[i] = items[i]
<1>1. Len(items) \in Nat
  BY LenProperties
<1>2. CASE want # NoNumber /\ Len(items) > want
  <2>1. want \in Nat /\ want <= Len(items) /\ Kept(items) = SubSeq(items, 1, want)
    BY <1>1, <1>2, PagingAssumption DEF PagingTypeOK, Kept
  <2>2. \A i \in 1..want : items[i] \in Items
    BY <1>1, <2>1, ElementOfSeq
  <2>3. Kept(items) = [i \in 1..want |-> items[i]]
    BY <1>1, <2>1
  <2>4. Kept(items) \in Seq(Items) /\ Len(Kept(items)) = want
    BY <2>1, <2>2, <2>3
  <2>. QED
    BY <1>1, <1>2, <2>1, <2>3, <2>4
<1>3. CASE ~(want # NoNumber /\ Len(items) > want)
  BY <1>1, <1>3 DEF Kept
<1>. QED
  BY <1>2, <1>3

LEMMA FetchResponds ==
    ASSUME Fetch
    PROVE  \E from \in 0..Len(collection), n \in 0..Len(collection),
              total \in {Len(collection), NoNumber} : Response(from, n, total)
BY DEF Fetch, Response

LEMMA PagingStep ==
    ASSUME PagingTypeOK, [PagingNext]_pagingVars
    PROVE  PagingTypeOK'
<1>1. CASE Fetch
  <2>1. PICK from \in 0..Len(collection), n \in 0..Len(collection),
             total \in {Len(collection), NoNumber} : Response(from, n, total)
    BY <1>1, FetchResponds
  <2>. DEFINE batch == SubSeq(collection, from + 1, Smaller(from + n, Len(collection)))
              items == collected \o Fresh(batch)
  <2>2. collection \in Seq(Items)
    BY CollectionType DEF PagingTypeOK
  <2>3. batch \in Seq(Items) /\ Len(batch) \in Nat
    BY <2>2, BatchProperties, LenProperties
  <2>4. /\ status' = Verdict(batch, total, Len(items))
        /\ collected' = Kept(items)
        /\ skip' = Advance(batch)
        /\ told' = (told /\ total # NoNumber)
    BY <2>1 DEF Response
  <2>. HIDE DEF batch
  <2>5. items \in Seq(Items)
    BY <2>3, FreshProperties, ConcatProperties DEF PagingTypeOK
  <2>. HIDE DEF items
  <2>6. collected' \in Seq(Items) /\ (want # NoNumber => Len(collected') <= want)
    <3>1. Len(items) \in Nat /\ (want # NoNumber => want \in Nat)
      BY <2>5, LenProperties, PagingAssumption DEF PagingTypeOK
    <3>. QED
      BY <2>4, <2>5, <3>1, KeptProperties
  <2>7. skip' \in Nat
    BY <2>3, <2>4 DEF Advance, PagingTypeOK
  <2>8. told' \in BOOLEAN
    BY <2>4
  <2>9. status' \in {"paging", "returned", "short", "repeated", "exhausted", "failed"}
    BY <2>4 DEF Verdict
  <2>10. page' \in 0..MaxPages
    BY <1>1, PagingAssumption DEF Fetch, PagingTypeOK
  <2>11. UNCHANGED <<collection, honours, changes, want, lazy>>
    BY <1>1 DEF Fetch
  <2>. QED
    BY <2>6, <2>7, <2>8, <2>9, <2>10, <2>11 DEF PagingTypeOK
<1>2. CASE RequestFails
  BY <1>2 DEF RequestFails, PagingTypeOK
<1>3. CASE Change
  BY <1>3, PagingAssumption DEF Change, PagingTypeOK
<1>4. CASE UNCHANGED pagingVars
  BY <1>4 DEF pagingVars, PagingTypeOK
<1>. QED
  BY <1>1, <1>2, <1>3, <1>4 DEF PagingNext

\* The variables of a read keep their types, and it never has more items than were asked
\* for (_paging.py:59-118).
THEOREM PagingTypes == PagingSpec => []PagingTypeOK
<1>1. PagingInit => PagingTypeOK
  <2>. SUFFICES ASSUME PagingInit PROVE PagingTypeOK
    OBVIOUS
  <2>1. collected \in Seq(Items) /\ Len(collected) = 0
    BY DEF PagingInit
  <2>2. want # NoNumber => 0 <= want
    BY PagingAssumption DEF PagingInit
  <2>3. changes \in 0..MaxChanges /\ page \in 0..MaxPages
    BY PagingAssumption DEF PagingInit
  <2>. QED
    BY <2>1, <2>2, <2>3 DEF PagingInit, PagingTypeOK
<1>2. PagingTypeOK /\ [PagingNext]_pagingVars => PagingTypeOK'
  BY PagingStep
<1>. QED
  BY <1>1, <1>2, PTL DEF PagingSpec

\* Only items without an id are in a list twice.
Unlike(s) == \A i, j \in 1..Len(s) : i < j /\ s[i] = s[j] => s[i] \in Anonymous

\* A collection of different items has as many as it is long.
LEMMA ItemsCounted ==
    ASSUME NEW A, NEW s \in Seq(A), \A i, j \in 1..Len(s) : s[i] = s[j] => i = j
    PROVE  IsFiniteSet(ItemsOf(s)) /\ Cardinality(ItemsOf(s)) = Len(s)
<1>1. Len(s) \in Nat
  BY LenProperties
<1>. DEFINE f == [i \in 1..Len(s) |-> s[i]]
<1>2. f \in Bijection(1..Len(s), ItemsOf(s))
  BY Fun_IsBij DEF ItemsOf
<1>3. ExistsBijection(1..Len(s), ItemsOf(s))
  BY <1>2 DEF ExistsBijection
<1>4. IsFiniteSet(1..Len(s)) /\ Cardinality(1..Len(s)) = Len(s)
  <2>1. /\ IsFiniteSet(1..Len(s))
        /\ Cardinality(1..Len(s)) = IF 1 > Len(s) THEN 0 ELSE Len(s) - 1 + 1
    BY <1>1, FS_Interval
  <2>. QED
    BY <1>1, <2>1
<1>. QED
  BY <1>3, <1>4, FS_Bijection

LEMMA FreshUnlike ==
    ASSUME NEW batch \in Seq(Items), collected \in Seq(Items), Unlike(collected),
           \A i, j \in 1..Len(batch) : batch[i] = batch[j] => i = j
    PROVE  Unlike(collected \o Fresh(batch))
<1>. DEFINE p == Fresh(batch)  S == New(batch)  items == collected \o p
<1>1. /\ p \in Seq(Items) /\ p = Picked(batch, S) /\ \A i \in S : i \in 1..Len(batch)
  BY FreshProperties
<1>2. /\ Len(p) = Cardinality(S)
      /\ \A k \in 1..Len(p) : Nth(S, k) \in S /\ p[k] = batch[Nth(S, k)]
      /\ \A k, l \in 1..Len(p) : Nth(S, k) = Nth(S, l) => k = l
  <2>. HIDE DEF p, S
  <2>. QED
    BY <1>1, PickedProperties
<1>3. \A i \in S : batch[i] \in Anonymous \/ batch[i] \notin ItemsOf(collected)
  BY DEF New
<1>4. Len(collected) \in Nat /\ Len(p) \in Nat
  BY <1>1, LenProperties
<1>. HIDE DEF p, S
<1>5. /\ Len(items) = Len(collected) + Len(p)
      /\ \A i \in 1..Len(items) :
           items[i] = IF i <= Len(collected) THEN collected[i] ELSE p[i - Len(collected)]
  BY <1>1, ConcatProperties
<1>. HIDE DEF items
<1>. SUFFICES ASSUME NEW i \in 1..Len(items), NEW j \in 1..Len(items), i < j, items[i] = items[j]
              PROVE  items[i] \in Anonymous
  BY DEF Unlike, items, p
<1>6. CASE j <= Len(collected)
  <2>1. i \in 1..Len(collected) /\ j \in 1..Len(collected)
    BY <1>4, <1>6
  <2>. QED
    BY <1>5, <1>6, <2>1 DEF Unlike
<1>7. CASE i <= Len(collected) /\ ~(j <= Len(collected))
  <2>1. i \in 1..Len(collected) /\ j - Len(collected) \in 1..Len(p)
    BY <1>4, <1>5, <1>7
  <2>2. items[i] = collected[i] /\ items[j] = p[j - Len(collected)]
    BY <1>5, <1>7
  <2>3. items[i] \in ItemsOf(collected)
    BY <2>1, <2>2 DEF ItemsOf
  <2>. QED
    BY <1>2, <1>3, <2>1, <2>2, <2>3
<1>8. CASE ~(i <= Len(collected)) /\ ~(j <= Len(collected))
  <2>. DEFINE k == i - Len(collected)  l == j - Len(collected)
  <2>1. k \in 1..Len(p) /\ l \in 1..Len(p) /\ k # l
    BY <1>4, <1>5, <1>8
  <2>2. items[i] = p[k] /\ items[j] = p[l]
    BY <1>5, <1>8
  <2>. HIDE DEF k, l
  <2>3. /\ Nth(S, k) \in S /\ p[k] = batch[Nth(S, k)]
        /\ Nth(S, l) \in S /\ p[l] = batch[Nth(S, l)]
        /\ Nth(S, k) # Nth(S, l)
    BY <1>2, <2>1
  <2>4. batch[Nth(S, k)] = batch[Nth(S, l)]
    BY <2>2, <2>3
  <2>. QED
    BY <1>1, <2>3, <2>4
<1>. QED
  BY <1>4, <1>6, <1>7, <1>8

\* A list of different items stays one when it is cut.
LEMMA KeptUnlike ==
    ASSUME PagingTypeOK, NEW items \in Seq(Items), Unlike(items)
    PROVE  Unlike(Kept(items))
<1>1. /\ Len(Kept(items)) <= Len(items)
      /\ \A i \in 1..Len(Kept(items)) : Kept(items)[i] = items[i]
  BY KeptProperties
<1>2. Len(items) \in Nat /\ Len(Kept(items)) \in Nat
  BY KeptProperties, LenProperties
<1>. SUFFICES ASSUME NEW i \in 1..Len(Kept(items)), NEW j \in 1..Len(Kept(items)),
                     i < j, Kept(items)[i] = Kept(items)[j]
              PROVE  Kept(items)[i] \in Anonymous
  BY DEF Unlike
<1>3. i \in 1..Len(items) /\ j \in 1..Len(items)
  BY <1>1, <1>2
<1>4. Kept(items)[i] = items[i] /\ Kept(items)[j] = items[j]
  BY <1>1
<1>. QED
  BY <1>3, <1>4 DEF Unlike

\* What a read that nothing disturbed has is from the collection; and if it returns with
\* everything, it has as many items as the collection.
CompleteInv ==
    /\ Unlike(collected)
    /\ changes = 0 => ItemsOf(collected) \subseteq ItemsOf(collection)
    /\ status = "returned" /\ want = NoNumber /\ told /\ changes = 0 =>
           Len(collected) >= Len(collection)

LEMMA CompleteFetch ==
    ASSUME PagingTypeOK, CompleteInv, Fetch
    PROVE  CompleteInv'
<1>1. PICK from \in 0..Len(collection), n \in 0..Len(collection),
           total \in {Len(collection), NoNumber} : Response(from, n, total)
  BY FetchResponds
<1>. DEFINE m == Smaller(from + n, Len(collection))
            batch == SubSeq(collection, from + 1, m)
            items == collected \o Fresh(batch)
<1>2. /\ status' = Verdict(batch, total, Len(items))
      /\ collected' = Kept(items)
      /\ told' = (told /\ total # NoNumber)
  BY <1>1 DEF Response
<1>3. UNCHANGED <<collection, changes, want>>
  BY DEF Fetch
<1>4. /\ collection \in Seq(Items) /\ Len(collection) \in Nat
      /\ \A i, j \in 1..Len(collection) : collection[i] = collection[j] => i = j
      /\ collected \in Seq(Items)
  BY CollectionType DEF PagingTypeOK
<1>5. /\ m \in Nat /\ from <= m /\ m <= Len(collection)
      /\ batch \in Seq(Items) /\ Len(batch) = m - from
      /\ \A i \in 1..(m - from) : batch[i] = collection[from + i]
  BY <1>4, BatchProperties
<1>. HIDE DEF batch, m
<1>6. \A i, j \in 1..Len(batch) : batch[i] = batch[j] => i = j
  <2>. SUFFICES ASSUME NEW i \in 1..(m - from), NEW j \in 1..(m - from), batch[i] = batch[j]
                PROVE  i = j
    BY <1>5
  <2>1. from + i \in 1..Len(collection) /\ from + j \in 1..Len(collection)
    BY <1>4, <1>5
  <2>2. from + i = from + j
    BY <1>4, <1>5, <2>1
  <2>. QED
    BY <2>2
<1>7. Unlike(items) /\ items \in Seq(Items)
  BY <1>4, <1>5, <1>6, FreshUnlike, FreshProperties, ConcatProperties DEF CompleteInv
<1>8. ASSUME changes = 0 PROVE ItemsOf(items) \subseteq ItemsOf(collection)
  <2>1. \A i \in 1..Len(batch) : batch[i] \in ItemsOf(collection)
    <3>. SUFFICES ASSUME NEW i \in 1..(m - from) PROVE batch[i] \in ItemsOf(collection)
      BY <1>5
    <3>1. from + i \in 1..Len(collection) /\ batch[i] = collection[from + i]
      BY <1>4, <1>5
    <3>. QED
      BY <3>1 DEF ItemsOf
  <2>. DEFINE p == Fresh(batch)  S == New(batch)
  <2>2. /\ p \in Seq(Items) /\ p = Picked(batch, S) /\ \A i \in S : i \in 1..Len(batch)
    BY <1>5, FreshProperties
  <2>. HIDE DEF p, S
  <2>3. \A k \in 1..Len(p) : p[k] \in ItemsOf(collection)
    <3>. DEFINE q == Picked(batch, S)
    <3>1. Len(q) = Cardinality(S) /\ \A k \in 1..Cardinality(S) : Nth(S, k) \in S /\ q[k] = batch[Nth(S, k)]
      <4>1. \A i \in S : i \in 1..Len(batch)
        BY <2>2
      <4>2. batch \in Seq(Items)
        BY <1>5
      <4>. QED
        BY <4>1, <4>2, PickedProperties
    <3>2. \A k \in 1..Len(p) : Nth(S, k) \in S /\ p[k] = batch[Nth(S, k)]
      BY <2>2, <3>1
    <3>. QED
      BY <2>1, <2>2, <3>2
  <2>4. \A i \in 1..Len(collected) : collected[i] \in ItemsOf(collection)
    BY <1>8 DEF CompleteInv, ItemsOf
  <2>5. /\ Len(items) = Len(collected) + Len(p) /\ Len(collected) \in Nat /\ Len(p) \in Nat
        /\ \A i \in 1..Len(items) :
             items[i] = IF i <= Len(collected) THEN collected[i] ELSE p[i - Len(collected)]
    BY <1>4, <2>2, ConcatProperties, LenProperties DEF p
  <2>. HIDE DEF items
  <2>6. ASSUME NEW i \in 1..Len(items) PROVE items[i] \in ItemsOf(collection)
    <3>1. CASE i <= Len(collected)
      BY <2>4, <2>5, <3>1
    <3>2. CASE ~(i <= Len(collected))
      <4>1. i - Len(collected) \in 1..Len(p)
        BY <2>5, <3>2
      <4>. QED
        BY <2>3, <2>5, <3>2, <4>1
    <3>. QED
      BY <3>1, <3>2
  <2>. QED
    BY <2>6 DEF ItemsOf
<1>. HIDE DEF items
<1>9. Len(items) \in Nat
  BY <1>7, LenProperties
<1>10. Unlike(collected')
  BY <1>2, <1>7, KeptUnlike
<1>11. changes' = 0 => ItemsOf(collected') \subseteq ItemsOf(collection')
  <2>1. /\ Len(Kept(items)) <= Len(items) /\ Len(Kept(items)) \in Nat
        /\ \A i \in 1..Len(Kept(items)) : Kept(items)[i] = items[i]
    BY <1>7, KeptProperties, LenProperties
  <2>2. ItemsOf(collected') \subseteq ItemsOf(items)
    BY <1>2, <1>9, <2>1 DEF ItemsOf
  <2>. QED
    BY <1>3, <1>8, <2>2
<1>12. ASSUME status' = "returned", want' = NoNumber, told' PROVE Len(collected') >= Len(collection')
  <2>1. total = Len(collection) /\ total # NoNumber /\ want = NoNumber
    BY <1>2, <1>3, <1>12
  <2>2. Satisfied(total, Len(items))
    BY <1>2, <1>12 DEF Verdict
  <2>3. Len(items) >= Len(collection) /\ collected' = items
    BY <1>2, <2>1, <2>2 DEF Satisfied, Kept
  <2>. QED
    BY <1>3, <2>3
<1>. QED
  BY <1>10, <1>11, <1>12 DEF CompleteInv

LEMMA CompleteStep == PagingTypeOK /\ CompleteInv /\ [PagingNext]_pagingVars => CompleteInv'
<1>1. ASSUME PagingTypeOK, CompleteInv, Change PROVE CompleteInv'
  <2>1. changes' # 0
    BY <1>1 DEF Change, PagingTypeOK
  <2>. QED
    BY <1>1, <2>1 DEF Change, CompleteInv
<1>2. ASSUME CompleteInv, RequestFails PROVE CompleteInv'
  BY <1>2 DEF RequestFails, CompleteInv
<1>3. ASSUME CompleteInv, UNCHANGED pagingVars PROVE CompleteInv'
  BY <1>3 DEF pagingVars, CompleteInv
<1>. QED
  BY <1>1, <1>2, <1>3, CompleteFetch DEF PagingNext

\* A full read that returns has every item of a collection that did not change under it,
\* and never has an item twice (_paging.py:9, 19-22).
THEOREM NeverPartial == PagingSpec => []CompleteOrError
<1>1. PagingInit => CompleteInv
  BY DEF PagingInit, CompleteInv, Unlike, ItemsOf
<1>2. PagingTypeOK /\ CompleteInv => CompleteOrError
  <2>. SUFFICES ASSUME PagingTypeOK, CompleteInv, status = "returned", want = NoNumber, told,
                       changes = 0, ItemsOf(collection) \cap Anonymous = {}
                PROVE  ItemsOf(collected) = ItemsOf(collection)
    BY DEF CompleteOrError, CompleteInv, Unlike
  <2>1. /\ collection \in Seq(Items) /\ Len(collection) \in Nat
        /\ \A i, j \in 1..Len(collection) : collection[i] = collection[j] => i = j
        /\ collected \in Seq(Items) /\ Len(collected) \in Nat
    BY CollectionType, LenProperties DEF PagingTypeOK
  <2>2. ItemsOf(collected) \subseteq ItemsOf(collection) /\ Len(collected) >= Len(collection)
    BY DEF CompleteInv
  <2>3. \A i, j \in 1..Len(collected) : collected[i] = collected[j] => i = j
    <3>1. \A i \in 1..Len(collected) : collected[i] \notin Anonymous
      BY <2>2 DEF ItemsOf
    <3>2. \A i, j \in 1..Len(collected) : i < j => collected[i] # collected[j]
      BY <3>1 DEF CompleteInv, Unlike
    <3>. QED
      BY <2>1, <3>2
  <2>4. IsFiniteSet(ItemsOf(collected)) /\ Cardinality(ItemsOf(collected)) = Len(collected)
    BY <2>1, <2>3, ItemsCounted
  <2>5. IsFiniteSet(ItemsOf(collection)) /\ Cardinality(ItemsOf(collection)) = Len(collection)
    BY <2>1, ItemsCounted
  <2>6. /\ Cardinality(ItemsOf(collected)) <= Cardinality(ItemsOf(collection))
        /\ Cardinality(ItemsOf(collection)) = Cardinality(ItemsOf(collected))
             => ItemsOf(collection) = ItemsOf(collected)
    BY <2>2, <2>5, FS_Subset
  <2>. QED
    BY <2>1, <2>2, <2>4, <2>5, <2>6
<1>. QED
  BY <1>1, <1>2, CompleteStep, PagingTypes, PTL DEF PagingSpec

-----------------------------------------------------------------------------
(* An honest server                                                        *)

\* While it goes on, the read of an honest server has the first items of the collection
\* and asks for the next one.
HonestInv ==
    honours /\ told /\ changes = 0 =>
        /\ HonestRead
        /\ Len(collected) <= Len(collection)
        /\ status = "paging" => skip = Len(collected)

LEMMA HonestFetch ==
    ASSUME PagingTypeOK, HonestInv, Fetch
    PROVE  HonestInv'
<1>. SUFFICES ASSUME honours', told', changes' = 0
              PROVE  /\ HonestRead'
                     /\ Len(collected') <= Len(collection')
                     /\ status' = "paging" => skip' = Len(collected')
  BY DEF HonestInv
<1>0. UNCHANGED <<collection, honours, changes, want>> /\ status = "paging"
  BY DEF Fetch
<1>1. PICK from \in 0..Len(collection), n \in 0..Len(collection),
           total \in {Len(collection), NoNumber} : Response(from, n, total)
  BY FetchResponds
<1>. DEFINE L == Len(collection)
            m == Smaller(from + n, Len(collection))
            batch == SubSeq(collection, from + 1, m)
            items == collected \o Fresh(batch)
<1>2. /\ status' = Verdict(batch, total, Len(items))
      /\ collected' = Kept(items)
      /\ skip' = skip + Len(batch)
      /\ told /\ total # NoNumber
      /\ from = Smaller(skip, Len(collection))
      /\ n \in Smaller(1, Len(collection))..Limit
  BY <1>0, <1>1 DEF Response, Advance
<1>3. honours /\ told /\ changes = 0 /\ total = L
  BY <1>0, <1>2
<1>4. /\ collection \in Seq(Items) /\ L \in Nat
      /\ \A i, j \in 1..L : collection[i] = collection[j] => i = j
      /\ collected \in Seq(Items)
  BY CollectionType DEF PagingTypeOK
<1>5. /\ skip = Len(collected) /\ skip \in Nat /\ skip <= L
      /\ \A i \in 1..skip : collected[i] = collection[i]
  BY <1>0, <1>3, <1>4 DEF HonestInv, HonestRead, PagingTypeOK
<1>6. /\ m \in Nat /\ from <= m /\ m <= L
      /\ batch \in Seq(Items) /\ Len(batch) = m - from
      /\ \A i \in 1..(m - from) : batch[i] = collection[from + i]
  BY <1>4, BatchProperties
<1>7. from = skip
  BY <1>2, <1>4, <1>5 DEF Smaller
<1>8. skip < L => m > skip
  <2>1. skip < L => n >= 1
    BY <1>2, <1>4, <1>5 DEF Smaller
  <2>. QED
    BY <1>4, <1>5, <1>7, <2>1 DEF Smaller
<1>. HIDE DEF batch, m
<1>9. Fresh(batch) = batch
  <2>1. ASSUME NEW i \in 1..Len(batch) PROVE batch[i] \notin ItemsOf(collected)
    <3>1. batch[i] = collection[skip + i] /\ skip + i \in 1..L
      BY <1>4, <1>5, <1>6, <1>7
    <3>2. \A j \in 1..skip : j \in 1..L /\ j # skip + i
      BY <1>4, <1>5
    <3>3. \A j \in 1..skip : collected[j] # batch[i]
      BY <1>4, <1>5, <3>1, <3>2
    <3>. QED
      BY <1>5, <3>3 DEF ItemsOf
  <2>2. New(batch) = 1..Len(batch)
    BY <2>1 DEF New
  <2>. QED
    BY <1>6, <2>2, FreshProperties, PickedAll
<1>10. /\ items \in Seq(Items) /\ Len(items) = m
       /\ \A i \in 1..m : items[i] = collection[i]
  <2>1. /\ items \in Seq(Items) /\ Len(items) = Len(collected) + Len(batch)
        /\ \A i \in 1..Len(items) :
             items[i] = IF i <= Len(collected) THEN collected[i] ELSE batch[i - Len(collected)]
    <3>1. /\ collected \in Seq(Items) /\ batch \in Seq(Items)
          /\ items = collected \o batch
      BY <1>4, <1>6, <1>9
    <3>. HIDE DEF items
    <3>2. Len(collected \o batch) = Len(collected) + Len(batch)
          /\ collected \o batch \in Seq(Items)
      BY <3>1, ConcatProperties
    <3>3. \A i \in 1..(Len(collected) + Len(batch)) :
            (collected \o batch)[i] =
               IF i <= Len(collected) THEN collected[i] ELSE batch[i - Len(collected)]
      BY <3>1, ConcatProperties
    <3>. QED
      BY <3>1, <3>2, <3>3
  <2>. HIDE DEF items
  <2>2. Len(items) = m
    <3>1. m \in Nat /\ skip \in Nat /\ Len(batch) = m - skip
      BY <1>5, <1>6, <1>7
    <3>2. Len(items) = skip + Len(batch)
      BY <1>5, <2>1
    <3>. QED
      BY <3>1, <3>2
  <2>3. ASSUME NEW i \in 1..m PROVE items[i] = collection[i]
    <3>1. CASE i <= skip
      BY <1>5, <2>1, <2>2, <3>1
    <3>2. CASE ~(i <= skip)
      <4>1. i - skip \in 1..(m - skip) /\ skip + (i - skip) = i
        BY <1>5, <1>6, <3>2
      <4>. QED
        BY <1>5, <1>6, <1>7, <2>1, <2>2, <3>2, <4>1
    <3>. QED
      BY <3>1, <3>2
  <2>. QED
    BY <2>1, <2>2, <2>3
<1>. HIDE DEF items
<1>11. Satisfied(L, m) <=> m >= L \/ (want # NoNumber /\ m >= want)
  BY <1>2, <1>3 DEF Satisfied
<1>12. want # NoNumber => want \in Nat
  BY PagingAssumption DEF PagingTypeOK
<1>13. /\ Len(collected') = IF want # NoNumber /\ m > want THEN want ELSE m
       /\ \A i \in 1..Len(collected') : collected'[i] = items[i]
       /\ Len(collected') <= m /\ Len(collected') \in Nat
  BY <1>2, <1>10, KeptProperties, LenProperties
<1>14. Len(collected') <= L /\ \A i \in 1..Len(collected') : i <= L /\ collected'[i] = collection[i]
  BY <1>4, <1>6, <1>10, <1>13
<1>15. CASE Satisfied(L, m)
  <2>1. status' = "returned"
    BY <1>2, <1>3, <1>10, <1>15 DEF Verdict
  <2>2. want # NoNumber => Len(collected') = Smaller(want, L)
    BY <1>4, <1>6, <1>11, <1>12, <1>13, <1>15 DEF Smaller
  <2>3. want = NoNumber => Len(collected') = L
    BY <1>4, <1>6, <1>11, <1>13, <1>15
  <2>. QED
    BY <1>0, <1>14, <2>1, <2>2, <2>3 DEF HonestRead
<1>16. CASE ~Satisfied(L, m)
  <2>1. m > skip /\ Len(batch) > 0
    BY <1>4, <1>5, <1>6, <1>7, <1>8, <1>11, <1>16
  <2>2. batch # <<>>
    BY <2>1
  <2>3. status' \notin {"short", "repeated", "returned"}
    BY <1>2, <1>3, <1>9, <1>10, <1>16, <2>2 DEF Verdict
  <2>4. Len(collected') = m
    BY <1>6, <1>11, <1>12, <1>13, <1>16
  <2>5. skip' = m
    BY <1>2, <1>5, <1>6, <1>7
  <2>. QED
    BY <1>0, <1>14, <2>3, <2>4, <2>5 DEF HonestRead
<1>. QED
  BY <1>15, <1>16

LEMMA HonestStep == PagingTypeOK /\ HonestInv /\ [PagingNext]_pagingVars => HonestInv'
<1>1. ASSUME PagingTypeOK, Change PROVE HonestInv'
  BY <1>1 DEF Change, PagingTypeOK, HonestInv
<1>2. ASSUME HonestInv, RequestFails PROVE HonestInv'
  BY <1>2 DEF RequestFails, HonestInv, HonestRead
<1>3. ASSUME HonestInv, UNCHANGED pagingVars PROVE HonestInv'
  BY <1>3 DEF pagingVars, HonestInv, HonestRead
<1>. QED
  BY <1>1, <1>2, <1>3, HonestFetch DEF PagingNext

\* The read of an honest server has its items in its order, as many as were asked for, and
\* blames it for nothing (_paging.py:13-15, 142-159).
THEOREM HonestIsRead == PagingSpec => []HonestRead
<1>1. PagingInit => HonestInv
  <2>. SUFFICES ASSUME PagingInit PROVE HonestInv
    OBVIOUS
  <2>1. Len(collected) = 0 /\ Len(collection) \in Nat /\ skip = 0 /\ status = "paging"
    BY CollectionType DEF PagingInit
  <2>. QED
    BY <2>1 DEF HonestInv, HonestRead
<1>2. HonestInv => HonestRead
  BY DEF HonestInv, HonestRead
<1>. QED
  BY <1>1, <1>2, HonestStep, PagingTypes, PTL DEF PagingSpec

-----------------------------------------------------------------------------
(* Storage: the scan                                                       *)

Delivered == {"read", "unreadable"}

BackupsOf(srv) == {srv.backups[k] : k \in DOMAIN srv.backups}

\* The scan reads different backups, all that are in scope unless it is cut; results are
\* delivered before they are folded, and a delivered result stays what it is.
ScanInv ==
    /\ server \in Servers
    /\ scanned \in Seq(BackupsOf(server))
    /\ \A i, j \in 1..Len(scanned) : scanned[i] = scanned[j] => i = j
    /\ DOMAIN job = 1..Len(scanned)
    /\ folded \in Nat /\ folded <= Len(scanned)
    /\ phase \in {"negotiate", "list"} => scanned = <<>>
    /\ phase \in {"negotiate", "list", "scan", "shutdown"} => folded = 0
    /\ \A i \in gathered : i \in 1..Len(scanned) /\ job[i] \in Delivered
    /\ phase \in {"fold", "lookup", "done"} => \A i \in 1..Len(scanned) : i \in gathered
    /\ phase = "fold" => folded < Len(scanned)
    /\ phase \in {"lookup", "done"} => folded = Len(scanned)
    /\ \A i \in 1..folded : job[i] \in Delivered
    /\ phase \in {"scan", "fold", "lookup", "done"} /\ Len(scanned) < MaxBackups =>
           \A k \in DOMAIN server.backups : server.backups[k] \in scope =>
               \E i \in 1..Len(scanned) : scanned[i] = server.backups[k]
    /\ stop => phase \in {"shutdown", "failed"}

LEMMA JobsAre == ASSUME ScanInv PROVE Jobs = 1..Len(scanned) /\ Len(scanned) \in Nat
<1>1. scanned \in Seq(BackupsOf(server))
  BY DEF ScanInv
<1>. QED
  BY <1>1, LenProperties DEF Jobs

\* A worker moves one job on that has not delivered its result, and nothing else but the
\* history of the late reads.
LEMMA WorkerMoves ==
    ASSUME NEW i, Worker(i)
    PROVE  /\ job[i] \notin Delivered
           /\ \E state : Put(i, state)
           /\ UNCHANGED <<server, scope, phase, session, scanned, gathered, stop, sumVars>>
<1>1. CASE Take(i)
  BY <1>1 DEF Take, Delivered, workerFrame
<1>2. CASE Start(i)
  BY <1>2 DEF Start, Delivered, workerFrame
<1>3. CASE OpenObjects(i)
  BY <1>3 DEF OpenObjects, Delivered, workerFrame
<1>4. CASE ReadObjects(i)
  BY <1>4 DEF ReadObjects, Delivered, workerFrame
<1>5. CASE OpenFiles(i)
  BY <1>5 DEF OpenFiles, Delivered, workerFrame
<1>6. CASE ReadFiles(i)
  BY <1>6 DEF ReadFiles, Delivered, workerFrame
<1>. QED
  BY <1>1, <1>2, <1>3, <1>4, <1>5, <1>6 DEF Worker

LEMMA PutProperties ==
    ASSUME NEW i, NEW state, Put(i, state)
    PROVE  /\ DOMAIN job' = DOMAIN job
           /\ \A k \in DOMAIN job : job'[k] = IF k = i THEN state ELSE job[k]
BY DEF Put

\* The backups to read, for a scope that selects any.
LEMMA ListProperties ==
    ASSUME server \in Servers, List
    PROVE  /\ scanned' \in Seq(BackupsOf(server)) /\ DOMAIN scanned' = 1..Len(scanned')
           /\ \A i, j \in 1..Len(scanned') : scanned'[i] = scanned'[j] => i = j
           /\ Len(scanned') < MaxBackups =>
                \A k \in DOMAIN server.backups : server.backups[k] \in scope =>
                    \E i \in 1..Len(scanned') : scanned'[i] = server.backups[k]
<1>. DEFINE A == BackupsOf(server)
            s == server.backups
            S == {k \in DOMAIN s : s[k] \in scope}
            chosen == Picked(s, S)
            n == IF MaxBackups < Len(chosen) THEN MaxBackups ELSE Len(chosen)
<1>1. s \in Seq(A) /\ \A k, l \in DOMAIN s : s[k] = s[l] => k = l
  BY RankingAssumption DEF Consistent, BackupsOf
<1>2. scanned' = SubSeq(chosen, 1, n)
  BY DEF List, Cut
<1>. HIDE DEF A, s
<1>3. Len(s) \in Nat /\ DOMAIN s = 1..Len(s)
  BY <1>1, LenProperties
<1>4. \A k \in S : k \in 1..Len(s)
  BY <1>3
<1>5. \A k \in DOMAIN s : s[k] \in scope => k \in S
  OBVIOUS
<1>. HIDE DEF S
<1>6. /\ chosen \in Seq(A) /\ Len(chosen) = Cardinality(S) /\ Cardinality(S) \in Nat
      /\ \A k \in 1..Cardinality(S) : Nth(S, k) \in S /\ chosen[k] = s[Nth(S, k)]
      /\ \A k \in S : Rank(S, k) \in 1..Cardinality(S) /\ chosen[Rank(S, k)] = s[k]
      /\ \A k, l \in 1..Cardinality(S) : Nth(S, k) = Nth(S, l) => k = l
  BY <1>1, <1>4, PickedProperties
<1>. HIDE DEF chosen
<1>7. MaxBackups \in Nat /\ n \in Nat /\ n <= Len(chosen) /\ (n < MaxBackups => n = Len(chosen))
  BY <1>6, RankingAssumption
<1>. HIDE DEF n
<1>8. /\ scanned' \in Seq(A) /\ Len(scanned') = n /\ DOMAIN scanned' = 1..n
      /\ \A i \in 1..n : scanned'[i] = chosen[i]
  <2>1. \A i \in 1..n : chosen[i] \in A
    BY <1>6, <1>7, ElementOfSeq
  <2>2. SubSeq(chosen, 1, n) = [i \in 1..n |-> chosen[i]]
    BY <1>6, <1>7
  <2>. QED
    BY <1>2, <1>7, <2>1, <2>2
<1>9. \A i, j \in 1..n : scanned'[i] = scanned'[j] => i = j
  <2>. SUFFICES ASSUME NEW i \in 1..n, NEW j \in 1..n, scanned'[i] = scanned'[j] PROVE i = j
    OBVIOUS
  <2>1. i \in 1..Cardinality(S) /\ j \in 1..Cardinality(S)
    BY <1>6, <1>7
  <2>2. s[Nth(S, i)] = s[Nth(S, j)] /\ Nth(S, i) \in S /\ Nth(S, j) \in S
    BY <1>6, <1>8, <2>1
  <2>3. Nth(S, i) = Nth(S, j)
    BY <1>1, <1>3, <1>4, <2>2
  <2>. QED
    BY <1>6, <2>1, <2>3
<1>10. ASSUME n < MaxBackups, NEW k \in DOMAIN s, s[k] \in scope
       PROVE  \E i \in 1..n : scanned'[i] = s[k]
  <2>1. Rank(S, k) \in 1..n /\ chosen[Rank(S, k)] = s[k]
    BY <1>5, <1>6, <1>7, <1>10
  <2>. QED
    BY <1>8, <2>1
<1>. QED
  BY <1>8, <1>9, <1>10 DEF A, s

LEMMA ScanInit == RankInit => ScanInv
<1>. SUFFICES ASSUME RankInit PROVE ScanInv
  OBVIOUS
<1>1. scanned = <<>> /\ job = <<>> /\ folded = 0 /\ gathered = {} /\ ~stop /\ phase = "negotiate"
      /\ server \in Servers
  BY DEF RankInit
<1>2. scanned \in Seq(BackupsOf(server)) /\ Len(scanned) = 0 /\ DOMAIN job = 1..Len(scanned)
  BY <1>1
<1>. QED
  BY <1>1, <1>2 DEF ScanInv

\* What moves one job on leaves the rest of the scan alone.
LEMMA ScanWorker == ASSUME ScanInv, NEW i \in Jobs, Worker(i) PROVE ScanInv'
<1>1. PICK state : Put(i, state)
  BY WorkerMoves
<1>2. /\ job[i] \notin Delivered
      /\ UNCHANGED <<server, scope, phase, scanned, gathered, stop, folded>>
  BY WorkerMoves DEF sumVars
<1>3. /\ DOMAIN job' = DOMAIN job
      /\ \A k \in DOMAIN job : job'[k] = IF k = i THEN state ELSE job[k]
  BY <1>1, PutProperties
<1>4. \A k \in DOMAIN job : job[k] \in Delivered => job'[k] \in Delivered
  BY <1>2, <1>3
<1>5. \A k \in 1..folded : k \in DOMAIN job
  BY JobsAre DEF ScanInv
<1>6. \A k \in gathered : k \in DOMAIN job
  BY DEF ScanInv
<1>. QED
  BY <1>2, <1>3, <1>4, <1>5, <1>6 DEF ScanInv

LEMMA ScanCollect == ASSUME ScanInv, NEW i \in Jobs, Collect(i) PROVE ScanInv'
<1>1. Jobs = 1..Len(scanned) /\ Len(scanned) \in Nat /\ i \in 1..Len(scanned)
  BY JobsAre
<1>2. /\ phase = "scan" /\ job[i] \in Delivered
      /\ gathered' = gathered \cup {i}
      /\ phase' = IF gathered' = 1..Len(scanned) THEN "fold" ELSE "scan"
      /\ UNCHANGED <<server, scope, scanned, job, stop, folded>>
  BY <1>1 DEF Collect, Delivered, sumVars
<1>3. folded = 0 /\ 0 < Len(scanned)
  BY <1>1, <1>2 DEF ScanInv
<1>4. \A k \in gathered' : k \in 1..Len(scanned) /\ job[k] \in Delivered
  BY <1>1, <1>2 DEF ScanInv
<1>. QED
  BY <1>2, <1>3, <1>4 DEF ScanInv

LEMMA ScanList == ASSUME ScanInv, List PROVE ScanInv'
<1>1. server \in Servers /\ folded = 0 /\ scanned = <<>> /\ ~stop
  BY DEF ScanInv, List
<1>2. /\ scanned' \in Seq(BackupsOf(server)) /\ DOMAIN scanned' = 1..Len(scanned')
      /\ \A i, j \in 1..Len(scanned') : scanned'[i] = scanned'[j] => i = j
      /\ Len(scanned') < MaxBackups =>
           \A k \in DOMAIN server.backups : server.backups[k] \in scope =>
               \E i \in 1..Len(scanned') : scanned'[i] = server.backups[k]
  BY <1>1, ListProperties
<1>3. /\ DOMAIN job' = DOMAIN scanned' /\ phase' = "scan"
      /\ UNCHANGED <<server, scope, gathered, stop, folded>>
  BY DEF List, sumVars
<1>4. gathered' = {}
  <2>1. \A i \in gathered : i \in 1..0
    BY <1>1 DEF ScanInv
  <2>. QED
    BY <1>3, <2>1
<1>5. Len(scanned') \in Nat
  BY <1>2, LenProperties
<1>. QED
  BY <1>1, <1>2, <1>3, <1>4, <1>5 DEF ScanInv

LEMMA ScanShutdown == ASSUME ScanInv, Shutdown PROVE ScanInv'
<1>1. /\ job' = Cancelled /\ phase' = "failed" /\ phase = "shutdown"
      /\ UNCHANGED <<server, scope, scanned, gathered, stop, folded>>
  BY DEF Shutdown, sumVars
<1>2. Jobs = 1..Len(scanned)
  BY JobsAre
<1>3. DOMAIN job' = DOMAIN job /\ \A k \in DOMAIN job : job[k] \in Delivered => job'[k] = job[k]
  BY <1>1, <1>2 DEF Cancelled, Delivered, ScanInv
<1>4. folded = 0
  BY <1>1 DEF ScanInv
<1>. QED
  BY <1>1, <1>3, <1>4 DEF ScanInv

LEMMA ScanFold == ASSUME ScanInv, FoldNext PROVE ScanInv'
<1>1. /\ phase = "fold" /\ folded' = folded + 1
      /\ phase' = IF folded' = Len(scanned) THEN "lookup" ELSE "fold"
      /\ UNCHANGED <<server, scope, scanned, job, gathered, stop>>
  BY DEF FoldNext, scanVars
<1>2. Len(scanned) \in Nat /\ folded \in Nat /\ folded < Len(scanned)
  BY <1>1, JobsAre DEF ScanInv
<1>3. \A i \in 1..(folded + 1) : job[i] \in Delivered
  BY <1>1, <1>2 DEF ScanInv
<1>. QED
  BY <1>1, <1>2, <1>3 DEF ScanInv

LEMMA ScanStep == ASSUME ScanInv, [RankNext]_rankVars PROVE ScanInv'
<1>1. ASSUME Raise PROVE ScanInv'
  BY <1>1 DEF Raise, ScanInv, scanVars, sumVars
<1>2. ASSUME Negotiate PROVE ScanInv'
  BY <1>2 DEF Negotiate, ScanInv, scanVars, sumVars
<1>3. ASSUME Abort PROVE ScanInv'
  BY <1>3 DEF Abort, ScanInv, sumVars
<1>4. ASSUME Lookup PROVE ScanInv'
  <2>1. UNCHANGED <<server, scope, phase, scanVars, folded>>
    BY <1>4 DEF Lookup
  <2>. QED
    BY <2>1 DEF ScanInv, scanVars
<1>5. ASSUME Finish PROVE ScanInv'
  <2>1. phase = "lookup" /\ phase' = "done" /\ UNCHANGED <<server, scope, scanVars, folded>>
    BY <1>5 DEF Finish
  <2>. QED
    BY <2>1 DEF ScanInv, scanVars
<1>6. ASSUME UNCHANGED rankVars PROVE ScanInv'
  BY <1>6 DEF rankVars, scanVars, sumVars, ScanInv
<1>7. ASSUME NEW i \in Jobs, Collect(i) \/ Worker(i) PROVE ScanInv'
  BY <1>7, ScanCollect, ScanWorker
<1>. QED
  BY <1>1, <1>2, <1>3, <1>4, <1>5, <1>6, <1>7, ScanList, ScanShutdown, ScanFold
     DEF RankNext, Caller

\* A storage read is a ranking to which a usage only adds variables of its own.
LEMMA StorageRanks ==
    /\ StorageInit => RankInit
    /\ [StorageNext]_storageVars => [RankNext]_rankVars
<1>1. StorageInit => RankInit
  BY DEF StorageInit
<1>2. ASSUME [StorageNext]_storageVars PROVE [RankNext]_rankVars
  <2>1. UseNext => UNCHANGED rankVars
    BY DEF UseNext
  <2>2. UNCHANGED storageVars => UNCHANGED rankVars
    BY DEF storageVars
  <2>. QED
    BY <1>2, <2>1, <2>2 DEF StorageNext
<1>. QED
  BY <1>1, <1>2

LEMMA ScanKept == StorageSpec => []ScanInv
<1>1. ScanInv /\ [StorageNext]_storageVars => ScanInv'
  BY StorageRanks, ScanStep
<1>2. StorageInit => ScanInv
  BY StorageRanks, ScanInit
<1>. QED
  BY <1>1, <1>2, PTL DEF StorageSpec

\* The reads that have passed the look at the event and have yet to begin.
Between == {k \in DOMAIN job : job[k] \in {"toObjects", "toFiles"}}

Collection(k) == IF job[k] = "toObjects" THEN "objects" ELSE "files"

Openings == {<<k, Collection(k)>> : k \in Between}

Occupied == {k \in DOMAIN job : job[k] \in Busy}

\* No more jobs are at work than there are workers; and once the event is set the late
\* reads, and those that can still become late, are no more than were at work then.
LateInv ==
    /\ Cardinality(Occupied) <= Workers
    /\ ~stop => late = {}
    /\ stop => IsFiniteSet(late \cup Openings) /\ Cardinality(late \cup Openings) <= Workers

LEMMA OccupiedFinite ==
    ASSUME ScanInv PROVE IsFiniteSet(Occupied) /\ Cardinality(Occupied) \in Nat
<1>1. DOMAIN job = 1..Len(scanned) /\ Len(scanned) \in Nat
  BY JobsAre DEF ScanInv
<1>2. IsFiniteSet(1..Len(scanned))
  BY <1>1, FS_Interval
<1>3. Occupied \subseteq 1..Len(scanned)
  BY <1>1 DEF Occupied
<1>. QED
  BY <1>2, <1>3, FS_Subset, FS_CardinalityType

\* Every job yet to begin its read has a worker.
LEMMA OpeningsFew ==
    ASSUME ScanInv
    PROVE  IsFiniteSet(Openings) /\ Cardinality(Openings) <= Cardinality(Occupied)
<1>1. IsFiniteSet(Occupied) /\ Between \subseteq Occupied
  BY OccupiedFinite DEF Occupied, Between, Busy
<1>2. IsFiniteSet(Between) /\ Cardinality(Between) <= Cardinality(Occupied)
  BY <1>1, FS_Subset
<1>. DEFINE f == [k \in Between |-> <<k, Collection(k)>>]
<1>3. f \in Surjection(Between, Openings)
  BY DEF Openings, Surjection
<1>. HIDE DEF f
<1>4. IsFiniteSet(Openings) /\ Cardinality(Openings) <= Cardinality(Between)
  BY <1>2, <1>3, FS_Surjection
<1>5. Cardinality(Openings) \in Nat /\ Cardinality(Between) \in Nat /\ Cardinality(Occupied) \in Nat
  BY <1>1, <1>2, <1>4, FS_CardinalityType
<1>. QED
  BY <1>2, <1>4, <1>5

\* What a worker does to its own job: it becomes busy only when a worker is free, comes
\* between the look and the read only while the event is not set, and a read that begins
\* is late only when the event is set, and then it was between the two.
LEMMA WorkerStates ==
    ASSUME NEW i \in DOMAIN job, ScanInv, Worker(i)
    PROVE  \E state :
             /\ Put(i, state)
             /\ state \in Busy => job[i] \in Busy \/ Cardinality(Occupied) < Workers
             /\ state \in {"toObjects", "toFiles"} => ~stop
             /\ \/ UNCHANGED late
                \/ i \in Between /\ stop /\ late' = late \cup {<<i, Collection(i)>>}
<1>1. CASE Take(i)
  <2>1. Jobs = DOMAIN job
    BY JobsAre DEF ScanInv
  <2>2. Cardinality(Occupied) < Workers
    BY <1>1, <2>1 DEF Take, Occupied
  <2>. QED
    BY <1>1, <2>2 DEF Take, Busy
<1>2. CASE Start(i)
  <2>1. CASE stop
    BY <1>2, <2>1 DEF Start, Busy
  <2>2. CASE ~stop
    BY <1>2, <2>2 DEF Start, Busy
  <2>. QED
    BY <2>1, <2>2
<1>3. CASE OpenObjects(i)
  <2>1. job[i] = "toObjects" /\ Put(i, "objects")
        /\ late' = IF stop THEN late \cup {<<i, "objects">>} ELSE late
    BY <1>3 DEF OpenObjects
  <2>2. i \in Between /\ Collection(i) = "objects" /\ job[i] \in Busy
    BY <2>1 DEF Between, Collection, Busy
  <2>. QED
    BY <2>1, <2>2
<1>4. CASE ReadObjects(i)
  <2>1. PICK state \in {IF stop THEN "aborted" ELSE "toFiles", "unreadable", "broken"} : Put(i, state)
    BY <1>4 DEF ReadObjects
  <2>2. state \in {"toObjects", "toFiles"} => ~stop
    BY <2>1
  <2>3. job[i] \in Busy /\ UNCHANGED late
    BY <1>4 DEF ReadObjects, Busy
  <2>. QED
    BY <2>1, <2>2, <2>3
<1>5. CASE OpenFiles(i)
  <2>1. job[i] = "toFiles" /\ Put(i, "files")
        /\ late' = IF stop THEN late \cup {<<i, "files">>} ELSE late
    BY <1>5 DEF OpenFiles
  <2>2. i \in Between /\ Collection(i) = "files" /\ job[i] \in Busy
    BY <2>1 DEF Between, Collection, Busy
  <2>. QED
    BY <2>1, <2>2
<1>6. CASE ReadFiles(i)
  BY <1>6 DEF ReadFiles, Busy
<1>. QED
  BY <1>1, <1>2, <1>3, <1>4, <1>5, <1>6 DEF Worker

\* A set of jobs or reads that does not grow stays within the number of the workers.
LEMMA StillFew ==
    ASSUME NEW S, IsFiniteSet(S), Cardinality(S) <= Workers, NEW T, T \subseteq S
    PROVE  IsFiniteSet(T) /\ Cardinality(T) <= Workers
<1>1. IsFiniteSet(T) /\ Cardinality(T) <= Cardinality(S)
  BY FS_Subset
<1>2. Cardinality(T) \in Nat /\ Cardinality(S) \in Nat /\ Workers \in Nat
  BY <1>1, FS_CardinalityType, RankingAssumption
<1>. QED
  BY <1>1, <1>2

LEMMA LateWorker ==
    ASSUME ScanInv, LateInv, NEW i \in Jobs, Worker(i) PROVE LateInv'
<1>0. i \in DOMAIN job
  BY JobsAre DEF ScanInv
<1>1. PICK state :
        /\ Put(i, state)
        /\ state \in Busy => job[i] \in Busy \/ Cardinality(Occupied) < Workers
        /\ state \in {"toObjects", "toFiles"} => ~stop
        /\ \/ UNCHANGED late
           \/ i \in Between /\ stop /\ late' = late \cup {<<i, Collection(i)>>}
  BY <1>0, WorkerStates
<1>2. DOMAIN job' = DOMAIN job /\ \A k \in DOMAIN job : job'[k] = IF k = i THEN state ELSE job[k]
  BY <1>1, PutProperties
<1>3. stop' = stop
  BY WorkerMoves
<1>4. Cardinality(Occupied') <= Workers
  <2>1. IsFiniteSet(Occupied) /\ Cardinality(Occupied) \in Nat /\ Workers \in Nat
        /\ Cardinality(Occupied) <= Workers
    BY OccupiedFinite, RankingAssumption DEF LateInv
  <2>2. CASE Occupied' \subseteq Occupied
    BY <2>1, <2>2, StillFew
  <2>3. CASE ~(Occupied' \subseteq Occupied)
    <3>1. Occupied' \subseteq Occupied \cup {i}
      BY <1>2 DEF Occupied
    <3>2. i \in Occupied' /\ i \notin Occupied
      BY <2>3, <3>1
    <3>3. state \in Busy /\ job[i] \notin Busy
      BY <1>0, <1>2, <3>2 DEF Occupied
    <3>4. Cardinality(Occupied) < Workers
      BY <1>1, <3>3
    <3>5. IsFiniteSet(Occupied \cup {i}) /\ Cardinality(Occupied \cup {i}) = Cardinality(Occupied) + 1
      BY <2>1, <3>2, FS_AddElement
    <3>6. Cardinality(Occupied \cup {i}) <= Workers
      BY <2>1, <3>4, <3>5
    <3>. QED
      BY <3>1, <3>5, <3>6, StillFew
  <2>. QED
    BY <2>2, <2>3
<1>5. ~stop' => late' = {}
  BY <1>1, <1>3 DEF LateInv
<1>6. ASSUME stop'
      PROVE  IsFiniteSet((late \cup Openings)') /\ Cardinality((late \cup Openings)') <= Workers
  <2>1. stop /\ IsFiniteSet(late \cup Openings) /\ Cardinality(late \cup Openings) <= Workers
    BY <1>3, <1>6 DEF LateInv
  <2>2. late' \subseteq late \cup Openings
    BY <1>1 DEF Openings
  <2>3. ASSUME NEW x \in Openings' PROVE x \in Openings
    <3>1. PICK k \in Between' : x = <<k, Collection(k)'>>
      BY <2>3 DEF Openings
    <3>2. k \in DOMAIN job /\ job'[k] \in {"toObjects", "toFiles"}
      BY <1>2, <3>1 DEF Between
    <3>3. k # i
      BY <1>1, <1>2, <2>1, <3>2
    <3>4. job'[k] = job[k]
      BY <1>2, <3>2, <3>3
    <3>5. k \in Between /\ Collection(k)' = Collection(k)
      BY <3>2, <3>4 DEF Between, Collection
    <3>. QED
      BY <3>1, <3>5 DEF Openings
  <2>4. (late \cup Openings)' \subseteq late \cup Openings
    BY <2>2, <2>3
  <2>. QED
    BY <2>1, <2>4, StillFew
<1>. QED
  BY <1>4, <1>5, <1>6 DEF LateInv

LEMMA LateAbort == ASSUME ScanInv, LateInv, Abort PROVE LateInv'
<1>1. stop' /\ UNCHANGED <<job, late>> /\ ~stop
  BY DEF Abort, ScanInv
<1>2. Occupied' = Occupied /\ Openings' = Openings
  BY <1>1 DEF Occupied, Openings, Between, Collection
<1>3. IsFiniteSet(Openings) /\ Cardinality(Openings) <= Cardinality(Occupied)
  BY OpeningsFew
<1>4. Cardinality(Occupied) \in Nat /\ Cardinality(Openings) \in Nat /\ Workers \in Nat
  BY <1>3, OccupiedFinite, FS_CardinalityType, RankingAssumption
<1>5. Cardinality(Openings) <= Workers
  BY <1>3, <1>4 DEF LateInv
<1>6. (late \cup Openings)' = Openings
  BY <1>1, <1>2 DEF LateInv
<1>. QED
  BY <1>1, <1>2, <1>3, <1>5, <1>6 DEF LateInv

\* A shutdown only takes jobs that nobody works on off the queue.
LEMMA LateShutdown == ASSUME ScanInv, LateInv, Shutdown PROVE LateInv'
<1>1. job' = Cancelled /\ UNCHANGED <<stop, late>>
  BY DEF Shutdown
<1>2. /\ DOMAIN job' = DOMAIN job
      /\ \A k \in DOMAIN job : job'[k] = IF job[k] = "queued" THEN "cancelled" ELSE job[k]
  BY <1>1, JobsAre DEF Cancelled, ScanInv
<1>3. Occupied' = Occupied
  BY <1>2 DEF Occupied, Busy
<1>4. Between' = Between /\ \A k \in Between : Collection(k)' = Collection(k)
  BY <1>2 DEF Between, Collection
<1>5. Openings' = Openings
  BY <1>4 DEF Openings
<1>. QED
  BY <1>1, <1>3, <1>5 DEF LateInv

LEMMA LateList == ASSUME ScanInv, LateInv, List PROVE LateInv'
<1>1. \A k \in DOMAIN job' : job'[k] = "queued"
  BY DEF List
<1>2. ~stop /\ UNCHANGED <<stop, late>>
  BY DEF List, ScanInv
<1>3. Occupied' = {}
  BY <1>1 DEF Occupied, Busy
<1>4. Cardinality(Occupied') <= Workers
  BY <1>3, FS_EmptySet, RankingAssumption
<1>. QED
  BY <1>2, <1>4 DEF LateInv

LEMMA LateStep == ASSUME ScanInv, LateInv, [RankNext]_rankVars PROVE LateInv'
<1>1. CASE UNCHANGED <<job, stop, late>>
  <2>1. Occupied' = Occupied /\ Openings' = Openings
    BY <1>1 DEF Occupied, Openings, Between, Collection
  <2>. QED
    BY <1>1, <2>1 DEF LateInv
<1>2. ASSUME Raise \/ Negotiate \/ FoldNext \/ Lookup \/ Finish \/ UNCHANGED rankVars
      PROVE  UNCHANGED <<job, stop, late>>
  BY <1>2 DEF Raise, Negotiate, FoldNext, Lookup, Finish, rankVars, scanVars
<1>3. ASSUME NEW i \in Jobs, Collect(i) PROVE UNCHANGED <<job, stop, late>>
  BY <1>3 DEF Collect
<1>. QED
  BY <1>1, <1>2, <1>3, LateWorker, LateAbort, LateShutdown, LateList DEF RankNext, Caller

\* However the event and the workers interleave, each worker begins at most one more read
\* of a collection once the event is set (ranking.py:125-142, 159).
THEOREM FewReadsBegin == StorageSpec => []AbortBoundsReads
<1>1. StorageInit => LateInv
  <2>. SUFFICES ASSUME RankInit PROVE LateInv
    BY StorageRanks
  <2>1. job = <<>> /\ late = {} /\ ~stop
    BY DEF RankInit
  <2>2. Occupied = {}
    BY <2>1 DEF Occupied
  <2>3. Cardinality(Occupied) <= Workers
    BY <2>2, FS_EmptySet, RankingAssumption
  <2>. QED
    BY <2>1, <2>3 DEF LateInv
<1>2. ScanInv /\ LateInv /\ [StorageNext]_storageVars => LateInv'
  BY StorageRanks, LateStep
<1>3. LateInv => AbortBoundsReads
  <2>. SUFFICES ASSUME LateInv PROVE Cardinality(late) <= Workers
    BY DEF AbortBoundsReads
  <2>1. CASE stop
    BY <2>1, StillFew DEF LateInv
  <2>2. CASE ~stop
    BY <2>2, FS_EmptySet, RankingAssumption DEF LateInv
  <2>. QED
    BY <2>1, <2>2
<1>. QED
  BY <1>1, <1>2, <1>3, ScanKept, PTL DEF StorageSpec

-----------------------------------------------------------------------------
(* Storage: whose the files are                                            *)

Lone(f, revision) == Cardinality(Owners(f, revision)) = 1

\* What a ranking takes from the listing of a backup.
ListedIn(srv, b) == {o.id : o \in {x \in srv.objects : x.backup = b}}

KnownIn(srv, revision, f) ==
    Lone(f, revision) /\ Owners(f, revision) \subseteq ListedIn(srv, f.backup)

ObjectIn(srv, id) == CHOOSE o \in srv.objects : o.id = id

\* The files of the backups that were read, of the first n results.
SeenIn(srv, order, jobs, n) ==
    {f \in srv.files : \E i \in 1..n : jobs[i] = "read" /\ order[i] = f.backup}

ChargedIn(charges, f) == \E c \in charges : c.file = f.id

\* Every file of the results folded so far is in the place that its owners call for.
SumInv ==
    LET revision == session.revision
        sofar    == SeenIn(server, scanned, job, folded)
    IN  /\ shared = {f \in sofar : Cardinality(Owners(f, revision)) > 1}
        /\ ownerless = {f \in sofar : Owners(f, revision) = {}}
        /\ \A f \in strangers \cup unmatched :
               /\ f \in sofar /\ Lone(f, revision)
               /\ ~KnownIn(server, revision, f)
               /\ ~ChargedIn(charged, f)
        /\ \A c \in charged : \E f \in sofar :
               /\ c.file = f.id /\ Owners(f, revision) = {c.owner}
               /\ c.machine = Identity(ObjectIn(server, c.owner))
        /\ \A f \in sofar : Lone(f, revision) =>
               ChargedIn(charged, f) \/ f \in strangers \cup unmatched
        /\ phase # "done" => strangers \cap unmatched = {}
        /\ phase = "done" => strangers \subseteq unmatched

LEMMA OwnersCounted ==
    ASSUME NEW srv \in Servers, NEW f \in srv.files, NEW revision
    PROVE  /\ IsFiniteSet(Owners(f, revision)) /\ Cardinality(Owners(f, revision)) \in Nat
           /\ Cardinality(Owners(f, revision)) = 0 <=> Owners(f, revision) = {}
           /\ Lone(f, revision) <=> \E o : Owners(f, revision) = {o}
<1>1. IsFiniteSet(f.owners)
  BY RankingAssumption DEF Consistent
<1>2. IsFiniteSet({}) /\ IsFiniteSet({f.single})
  BY FS_EmptySet, FS_Singleton
<1>3. IsFiniteSet(Owners(f, revision))
  BY <1>1, <1>2 DEF Owners
<1>. QED
  BY <1>3, FS_CardinalityType, FS_EmptySet, FS_Singleton DEF Lone

LEMMA UniqueIds ==
    ASSUME NEW srv \in Servers
    PROVE  /\ \A f, x \in srv.files : f.id = x.id => f = x
           /\ \A o, x \in srv.objects : o.id = x.id => o = x
           /\ \A o \in srv.objects : ObjectIn(srv, o.id) = o
           /\ \A rp, x \in srv.points : rp.id = x.id => rp = x
<1>1. Consistent(srv)
  BY RankingAssumption
<1>2. \A o, x \in srv.objects : o.id = x.id => o = x
  BY <1>1 DEF Consistent
<1>3. ASSUME NEW o \in srv.objects PROVE ObjectIn(srv, o.id) = o
  BY <1>2 DEF ObjectIn
<1>. QED
  BY <1>1, <1>2, <1>3 DEF Consistent

LEMMA Names ==
    /\ \A b : Listed(b) = ListedIn(server, b)
    /\ \A f : Claimed(f) <=> KnownIn(server, session.revision, f)
    /\ \A id : Object(id) = ObjectIn(server, id)
BY DEF Listed, ListedIn, Claimed, KnownIn, Lone, Object, ObjectIn

\* charge() of files that have one owner.
LEMMA ChargesProperties ==
    ASSUME server \in Servers, NEW fs, \A f \in fs : f \in server.files /\ Lone(f, session.revision)
    PROVE  /\ \A c \in Charges(fs) : \E f \in fs :
                /\ c.file = f.id /\ Owners(f, session.revision) = {c.owner}
                /\ c.machine = Identity(ObjectIn(server, c.owner))
           /\ \A f \in fs : ChargedIn(Charges(fs), f)
           /\ \A f \in server.files : ChargedIn(Charges(fs), f) => f \in fs
<1>1. ASSUME NEW f \in fs PROVE Owners(f, session.revision) = {Owner(f)}
  <2>1. f \in server.files /\ Lone(f, session.revision)
    OBVIOUS
  <2>2. PICK o : Owners(f, session.revision) = {o}
    BY <2>1, OwnersCounted
  <2>. QED
    BY <2>2 DEF Owner
<1>2. \A c \in Charges(fs) : \E f \in fs :
        c.file = f.id /\ c.owner = Owner(f) /\ c.machine = Identity(ObjectIn(server, Owner(f)))
  <2>. SUFFICES ASSUME NEW c \in Charges(fs)
                PROVE  \E f \in fs : /\ c.file = f.id /\ c.owner = Owner(f)
                                     /\ c.machine = Identity(ObjectIn(server, Owner(f)))
    OBVIOUS
  <2>1. PICK f \in fs :
          c = [file |-> f.id, owner |-> Owner(f), machine |-> Identity(Object(Owner(f)))]
    BY DEF Charges
  <2>2. Object(Owner(f)) = ObjectIn(server, Owner(f))
    BY DEF Object, ObjectIn
  <2>. QED
    BY <2>1, <2>2
<1>3. ASSUME NEW f \in fs PROVE ChargedIn(Charges(fs), f)
  <2>. DEFINE c == [file |-> f.id, owner |-> Owner(f), machine |-> Identity(Object(Owner(f)))]
  <2>1. c \in Charges(fs)
    BY DEF Charges
  <2>2. c.file = f.id
    OBVIOUS
  <2>. QED
    BY <2>1, <2>2 DEF ChargedIn
<1>4. ASSUME NEW f \in server.files, ChargedIn(Charges(fs), f) PROVE f \in fs
  <2>1. PICK x \in fs : x.id = f.id
    BY <1>2, <1>4 DEF ChargedIn
  <2>. QED
    BY <2>1, UniqueIds
<1>. QED
  BY <1>1, <1>2, <1>3, <1>4

LEMMA SumInit == RankInit => SumInv
<1>. SUFFICES ASSUME RankInit PROVE SumInv
  OBVIOUS
<1>1. /\ folded = 0 /\ phase = "negotiate" /\ charged = {} /\ shared = {} /\ ownerless = {}
      /\ unmatched = {} /\ strangers = {}
  BY DEF RankInit
<1>2. SeenIn(server, scanned, job, folded) = {}
  BY <1>1 DEF SeenIn
<1>. QED
  BY <1>1, <1>2 DEF SumInv

\* Until the first result is folded nothing is charged or counted.
LEMMA NothingYet ==
    ASSUME ScanInv, SumInv, folded = 0, UNCHANGED <<folded, charged, shared, ownerless, unmatched, strangers>>,
           phase # "done", phase' # "done"
    PROVE  SumInv'
<1>1. SeenIn(server, scanned, job, folded) = {} /\ SeenIn(server', scanned', job', folded') = {}
  BY DEF SeenIn
<1>2. charged = {} /\ shared = {} /\ ownerless = {} /\ unmatched = {} /\ strangers = {}
  BY <1>1 DEF SumInv
<1>. QED
  BY <1>1, <1>2 DEF SumInv

\* A step that folds nothing and charges nothing.
LEMMA SumsStand ==
    ASSUME ScanInv, SumInv,
           UNCHANGED <<server, session, scanned, folded, charged, shared, ownerless, unmatched, strangers>>,
           \A i \in 1..folded : job'[i] = job[i],
           phase # "done", phase' # "done"
    PROVE  SumInv'
<1>1. SeenIn(server', scanned', job', folded') = SeenIn(server, scanned, job, folded)
  BY DEF SeenIn
<1>. DEFINE revision == session.revision
            sofar == SeenIn(server, scanned, job, folded)
<1>2. /\ session'.revision = revision /\ server' = server
      /\ SeenIn(server', scanned', job', folded') = sofar
  BY <1>1
<1>. HIDE DEF sofar, revision
<1>3. /\ \A f \in strangers \cup unmatched :
            /\ f \in sofar /\ Lone(f, revision) /\ ~KnownIn(server, revision, f)
            /\ ~ChargedIn(charged, f)
      /\ strangers \cap unmatched = {}
  BY DEF SumInv, sofar, revision
<1>4. /\ \A c \in charged : \E f \in sofar :
            /\ c.file = f.id /\ Owners(f, revision) = {c.owner}
            /\ c.machine = Identity(ObjectIn(server, c.owner))
      /\ \A f \in sofar : Lone(f, revision) => ChargedIn(charged, f) \/ f \in strangers \cup unmatched
      /\ shared = {f \in sofar : Cardinality(Owners(f, revision)) > 1}
      /\ ownerless = {f \in sofar : Owners(f, revision) = {}}
  BY DEF SumInv, sofar, revision
<1>. QED
  BY <1>2, <1>3, <1>4 DEF SumInv

\* A result that is folded adds the files of its backup, each in its place.
LEMMA SumFold == ASSUME ScanInv, SumInv, FoldNext PROVE SumInv'
<1>. DEFINE i == folded + 1
            b == scanned[i]
            revision == session.revision
            sofar == SeenIn(server, scanned, job, folded)
            files == IF job[i] = "read" THEN Files(b) ELSE {}
            owned == {f \in files : Claimed(f)}
            rest == files \ owned
            many == {f \in rest : Cardinality(Owners(f, revision)) > 1}
            none == {f \in rest : Owners(f, revision) = {}}
            odd == rest \ (many \cup none)
<1>1. /\ phase = "fold" /\ folded' = i
      /\ phase' = IF folded' = Len(scanned) THEN "lookup" ELSE "fold"
      /\ UNCHANGED <<server, session, scanned, job, unmatched>>
      /\ Fold(i)
  BY DEF FoldNext, scanVars
<1>2. /\ charged' = charged \cup Charges(owned)
      /\ shared' = shared \cup many
      /\ ownerless' = ownerless \cup none
      /\ strangers' = strangers \cup odd
  BY <1>1 DEF Fold
<1>3. /\ server \in Servers /\ folded \in Nat /\ Len(scanned) \in Nat /\ i \in 1..Len(scanned)
      /\ \A k, l \in 1..Len(scanned) : scanned[k] = scanned[l] => k = l
  BY <1>1, JobsAre DEF ScanInv
<1>4. \A f : f \in files <=> f \in server.files /\ job[i] = "read" /\ f.backup = scanned[i]
  BY DEF Files
<1>5. \A f : f \in sofar <=>
        f \in server.files /\ \E k \in 1..folded : job[k] = "read" /\ scanned[k] = f.backup
  BY DEF SeenIn
<1>6. SeenIn(server', scanned', job', folded') = sofar \cup files
  <2>1. \A k : k \in 1..i <=> k \in 1..folded \/ k = i
    BY <1>3
  <2>2. SeenIn(server, scanned, job, i) = sofar \cup files
    BY <1>4, <1>5, <2>1 DEF SeenIn
  <2>. QED
    BY <1>1, <2>2
<1>7. sofar \cap files = {}
  <2>. SUFFICES ASSUME NEW f \in sofar, f \in files PROVE FALSE
    OBVIOUS
  <2>1. PICK k \in 1..folded : scanned[k] = f.backup
    BY <1>5
  <2>2. scanned[i] = f.backup
    BY <1>4
  <2>3. k \in 1..Len(scanned) /\ k # i
    BY <1>3
  <2>. QED
    BY <1>3, <2>1, <2>2, <2>3
<1>. HIDE DEF sofar, i
<1>8. \A f \in files : f \in server.files /\ (Claimed(f) <=> KnownIn(server, revision, f))
  BY <1>4, Names
<1>. HIDE DEF files
<1>9. \A f \in files :
        /\ Cardinality(Owners(f, revision)) \in Nat
        /\ Cardinality(Owners(f, revision)) = 0 <=> Owners(f, revision) = {}
  BY <1>3, <1>8, OwnersCounted
<1>10. owned = {f \in files : KnownIn(server, revision, f)}
  BY <1>8
<1>. HIDE DEF owned
<1>11. \A f \in owned : f \in files /\ Lone(f, revision)
  BY <1>10 DEF KnownIn
<1>12. many = {f \in files : Cardinality(Owners(f, revision)) > 1}
  BY <1>10 DEF KnownIn, Lone
<1>13. none = {f \in files : Owners(f, revision) = {}}
  BY <1>9, <1>10 DEF KnownIn, Lone
<1>14. odd = {f \in files : Lone(f, revision) /\ ~KnownIn(server, revision, f)}
  BY <1>9, <1>10, <1>12, <1>13 DEF Lone
<1>. HIDE DEF many, none, odd
<1>15. /\ \A c \in Charges(owned) : \E f \in owned :
            /\ c.file = f.id /\ Owners(f, revision) = {c.owner}
            /\ c.machine = Identity(ObjectIn(server, c.owner))
       /\ \A f \in owned : ChargedIn(Charges(owned), f)
       /\ \A f \in server.files : ChargedIn(Charges(owned), f) => f \in owned
  BY <1>3, <1>8, <1>11, ChargesProperties
<1>. HIDE DEF revision
<1>16. /\ shared = {f \in sofar : Cardinality(Owners(f, revision)) > 1}
       /\ ownerless = {f \in sofar : Owners(f, revision) = {}}
  BY DEF SumInv, sofar, revision
<1>17. \A f \in strangers \cup unmatched :
          /\ f \in sofar /\ Lone(f, revision) /\ ~KnownIn(server, revision, f)
          /\ ~ChargedIn(charged, f)
  BY DEF SumInv, sofar, revision
<1>18. \A c \in charged : \E f \in sofar :
          /\ c.file = f.id /\ Owners(f, revision) = {c.owner}
          /\ c.machine = Identity(ObjectIn(server, c.owner))
  BY DEF SumInv, sofar, revision
<1>19. \A f \in sofar : Lone(f, revision) => ChargedIn(charged, f) \/ f \in strangers \cup unmatched
  BY DEF SumInv, sofar, revision
<1>20. strangers \cap unmatched = {}
  BY <1>1 DEF SumInv
<1>21. \A f : ChargedIn(charged', f) <=> ChargedIn(charged, f) \/ ChargedIn(Charges(owned), f)
  BY <1>2 DEF ChargedIn
<1>22. \A f \in files : ~ChargedIn(charged, f)
  <2>. SUFFICES ASSUME NEW f \in files, NEW c \in charged, c.file = f.id PROVE FALSE
    BY DEF ChargedIn
  <2>1. PICK x \in sofar : c.file = x.id
    BY <1>18
  <2>2. x \in server.files /\ f \in server.files
    BY <1>5, <1>8
  <2>3. x = f
    BY <1>3, <2>1, <2>2, UniqueIds
  <2>. QED
    BY <1>7, <2>3
<1>23. \A f \in sofar : f \in server.files /\ f \notin files
  BY <1>5, <1>7
<1>24. /\ shared' = {f \in sofar \cup files : Cardinality(Owners(f, revision)) > 1}
       /\ ownerless' = {f \in sofar \cup files : Owners(f, revision) = {}}
  BY <1>2, <1>12, <1>13, <1>16
<1>25. ASSUME NEW f \in strangers' \cup unmatched'
       PROVE  /\ f \in sofar \cup files /\ Lone(f, revision) /\ ~KnownIn(server, revision, f)
              /\ ~ChargedIn(charged', f)
  <2>1. CASE f \in strangers \cup unmatched
    <3>1. f \in sofar /\ f \notin owned /\ f \in server.files
      BY <1>11, <1>17, <1>23, <2>1
    <3>. QED
      BY <1>15, <1>17, <1>21, <2>1, <3>1
  <2>2. CASE f \in odd
    <3>1. f \in files /\ f \notin owned /\ f \in server.files
      BY <1>8, <1>10, <1>14, <2>2
    <3>. QED
      BY <1>14, <1>15, <1>21, <1>22, <2>2, <3>1
  <2>. QED
    BY <1>1, <1>2, <2>1, <2>2
<1>26. \A c \in charged' : \E f \in sofar \cup files :
          /\ c.file = f.id /\ Owners(f, revision) = {c.owner}
          /\ c.machine = Identity(ObjectIn(server, c.owner))
  BY <1>2, <1>11, <1>15, <1>18
<1>27. ASSUME NEW f \in sofar \cup files, Lone(f, revision)
       PROVE  ChargedIn(charged', f) \/ f \in strangers' \cup unmatched'
  <2>1. CASE f \in sofar
    BY <1>1, <1>2, <1>19, <1>21, <1>27, <2>1
  <2>2. CASE f \in files
    BY <1>2, <1>10, <1>14, <1>15, <1>21, <1>27, <2>2
  <2>. QED
    BY <2>1, <2>2
<1>28. strangers' \cap unmatched' = {}
  BY <1>1, <1>2, <1>14, <1>17, <1>20, <1>23
<1>29. session'.revision = revision /\ server' = server /\ phase' # "done"
  BY <1>1 DEF revision
<1>. QED
  BY <1>6, <1>24, <1>25, <1>26, <1>27, <1>28, <1>29 DEF SumInv

\* The files of an owner that is looked up are charged, or counted as nobody's.
LEMMA SumLookup == ASSUME ScanInv, SumInv, Lookup PROVE SumInv'
<1>. DEFINE revision == session.revision
            sofar == SeenIn(server, scanned, job, folded)
<1>1. PICK o :
        /\ strangers' = strangers \ Of(o)
        /\ \/ charged' = charged \cup Charges(Of(o)) /\ UNCHANGED unmatched
           \/ unmatched' = unmatched \cup Of(o) /\ UNCHANGED charged
  BY DEF Lookup
<1>2. /\ phase = "lookup"
      /\ UNCHANGED <<server, phase, session, scanned, job, folded, shared, ownerless>>
  BY DEF Lookup, scanVars
<1>. DEFINE new == Of(o)
<1>3. \A f \in new : f \in strangers
  BY DEF Of
<1>. HIDE DEF new
<1>4. server \in Servers /\ \A f \in sofar : f \in server.files
  BY DEF ScanInv, SeenIn
<1>. HIDE DEF sofar, revision
<1>5. \A f \in strangers \cup unmatched :
          /\ f \in sofar /\ Lone(f, revision) /\ ~KnownIn(server, revision, f)
          /\ ~ChargedIn(charged, f)
  BY DEF SumInv, sofar, revision
<1>6. \A c \in charged : \E f \in sofar :
          /\ c.file = f.id /\ Owners(f, revision) = {c.owner}
          /\ c.machine = Identity(ObjectIn(server, c.owner))
  BY DEF SumInv, sofar, revision
<1>7. \A f \in sofar : Lone(f, revision) => ChargedIn(charged, f) \/ f \in strangers \cup unmatched
  BY DEF SumInv, sofar, revision
<1>8. strangers \cap unmatched = {}
  BY <1>2 DEF SumInv
<1>9. \A f \in new : f \in server.files /\ Lone(f, revision) /\ f \in sofar
  BY <1>3, <1>4, <1>5
<1>10. /\ \A c \in Charges(new) : \E f \in new :
             /\ c.file = f.id /\ Owners(f, revision) = {c.owner}
             /\ c.machine = Identity(ObjectIn(server, c.owner))
       /\ \A f \in new : ChargedIn(Charges(new), f)
       /\ \A f \in server.files : ChargedIn(Charges(new), f) => f \in new
  BY <1>4, <1>9, ChargesProperties DEF revision
<1>11. /\ \A f \in strangers' \cup unmatched' :
             /\ f \in sofar /\ Lone(f, revision) /\ ~KnownIn(server, revision, f)
             /\ ~ChargedIn(charged', f)
       /\ \A c \in charged' : \E f \in sofar :
             /\ c.file = f.id /\ Owners(f, revision) = {c.owner}
             /\ c.machine = Identity(ObjectIn(server, c.owner))
       /\ \A f \in sofar : Lone(f, revision) =>
             ChargedIn(charged', f) \/ f \in strangers' \cup unmatched'
       /\ strangers' \cap unmatched' = {}
  <2>1. CASE charged' = charged \cup Charges(new) /\ UNCHANGED unmatched
    <3>1. \A f : ChargedIn(charged', f) <=> ChargedIn(charged, f) \/ ChargedIn(Charges(new), f)
      BY <2>1 DEF ChargedIn
    <3>2. strangers' \cup unmatched' \subseteq strangers \cup unmatched
      BY <1>1, <2>1
    <3>3. \A f \in strangers' \cup unmatched' : f \notin new /\ f \in server.files
      BY <1>1, <1>3, <1>4, <1>5, <1>8, <2>1, <3>2 DEF new
    <3>4. \A f \in strangers' \cup unmatched' :
             /\ f \in sofar /\ Lone(f, revision) /\ ~KnownIn(server, revision, f)
             /\ ~ChargedIn(charged', f)
      BY <1>5, <1>10, <3>1, <3>2, <3>3
    <3>5. \A c \in charged' : \E f \in sofar :
             /\ c.file = f.id /\ Owners(f, revision) = {c.owner}
             /\ c.machine = Identity(ObjectIn(server, c.owner))
      BY <1>6, <1>9, <1>10, <2>1
    <3>6. \A f \in strangers \cup unmatched : f \in new \/ f \in strangers' \cup unmatched'
      BY <1>1, <2>1 DEF new
    <3>7. \A f \in sofar : Lone(f, revision) =>
             ChargedIn(charged', f) \/ f \in strangers' \cup unmatched'
      BY <1>7, <1>10, <3>1, <3>6
    <3>8. strangers' \cap unmatched' = {}
      BY <1>1, <1>8, <2>1
    <3>. QED
      BY <3>4, <3>5, <3>7, <3>8
  <2>2. CASE unmatched' = unmatched \cup new /\ UNCHANGED charged
    <3>1. strangers' \cup unmatched' = strangers \cup unmatched
      BY <1>1, <1>3, <2>2 DEF new
    <3>2. strangers' \cap unmatched' = {}
      BY <1>1, <1>8, <2>2 DEF new
    <3>. QED
      BY <1>5, <1>6, <1>7, <2>2, <3>1, <3>2
  <2>. QED
    BY <1>1, <2>1, <2>2 DEF new
<1>12. /\ session'.revision = revision /\ server' = server /\ phase' # "done"
       /\ SeenIn(server', scanned', job', folded') = sofar
  BY <1>2 DEF revision, sofar
<1>13. /\ shared' = {f \in sofar : Cardinality(Owners(f, revision)) > 1}
       /\ ownerless' = {f \in sofar : Owners(f, revision) = {}}
  BY <1>2 DEF SumInv, sofar, revision
<1>. QED
  BY <1>11, <1>12, <1>13 DEF SumInv

LEMMA SumFinish == ASSUME ScanInv, SumInv, Finish PROVE SumInv'
<1>. DEFINE revision == session.revision
            sofar == SeenIn(server, scanned, job, folded)
<1>1. /\ phase' = "done" /\ unmatched' = unmatched \cup strangers
      /\ UNCHANGED <<server, session, scanned, job, folded, charged, shared, ownerless, strangers>>
  BY DEF Finish, scanVars
<1>2. /\ session'.revision = revision /\ server' = server
      /\ SeenIn(server', scanned', job', folded') = sofar
  BY <1>1
<1>. HIDE DEF sofar, revision
<1>3. strangers' \cup unmatched' = strangers \cup unmatched /\ strangers' \subseteq unmatched'
  BY <1>1
<1>4. \A f \in strangers \cup unmatched :
          /\ f \in sofar /\ Lone(f, revision) /\ ~KnownIn(server, revision, f)
          /\ ~ChargedIn(charged, f)
  BY DEF SumInv, sofar, revision
<1>5. /\ \A c \in charged : \E f \in sofar :
            /\ c.file = f.id /\ Owners(f, revision) = {c.owner}
            /\ c.machine = Identity(ObjectIn(server, c.owner))
      /\ \A f \in sofar : Lone(f, revision) => ChargedIn(charged, f) \/ f \in strangers \cup unmatched
      /\ shared = {f \in sofar : Cardinality(Owners(f, revision)) > 1}
      /\ ownerless = {f \in sofar : Owners(f, revision) = {}}
  BY DEF SumInv, sofar, revision
<1>. QED
  BY <1>1, <1>2, <1>3, <1>4, <1>5 DEF SumInv

LEMMA SumStep == ASSUME ScanInv, SumInv, [RankNext]_rankVars PROVE SumInv'
<1>1. ASSUME Raise PROVE SumInv'
  BY <1>1, SumsStand DEF Raise, scanVars, sumVars
<1>2. ASSUME Negotiate \/ List PROVE SumInv'
  <2>1. folded = 0
    BY <1>2 DEF Negotiate, List, ScanInv
  <2>. QED
    BY <1>2, <2>1, NothingYet DEF Negotiate, List, scanVars, sumVars
<1>3. ASSUME Abort PROVE SumInv'
  BY <1>3, SumsStand DEF Abort, sumVars
<1>4. ASSUME Shutdown PROVE SumInv'
  <2>1. folded = 0
    BY <1>4 DEF Shutdown, ScanInv
  <2>. QED
    BY <1>4, <2>1, NothingYet DEF Shutdown, sumVars
<1>5. ASSUME NEW i \in Jobs, Collect(i) PROVE SumInv'
  BY <1>5, SumsStand DEF Collect, sumVars
<1>6. ASSUME NEW i \in Jobs, Worker(i) PROVE SumInv'
  <2>1. PICK state : Put(i, state)
    BY <1>6, WorkerMoves
  <2>2. /\ job[i] \notin Delivered
        /\ UNCHANGED <<server, scope, phase, session, scanned, gathered, stop, sumVars>>
    BY <1>6, WorkerMoves
  <2>3. \A k \in 1..folded : k \in DOMAIN job /\ job[k] \in Delivered
    BY JobsAre DEF ScanInv
  <2>4. \A k \in 1..folded : job'[k] = job[k]
    BY <2>1, <2>2, <2>3, PutProperties
  <2>5. CASE phase # "done"
    BY <2>2, <2>4, <2>5, SumsStand DEF sumVars
  <2>6. CASE phase = "done"
    <3>1. \A k \in gathered : job[k] \in Delivered
      BY DEF ScanInv
    <3>2. i \in gathered
      BY <2>6, JobsAre DEF ScanInv
    <3>. QED
      BY <2>2, <3>1, <3>2
  <2>. QED
    BY <2>5, <2>6
<1>7. ASSUME UNCHANGED rankVars PROVE SumInv'
  BY <1>7 DEF rankVars, scanVars, sumVars, SumInv
<1>. QED
  BY <1>1, <1>2, <1>3, <1>4, <1>5, <1>6, <1>7, SumFold, SumLookup, SumFinish DEF RankNext, Caller

LEMMA SumKept == StorageSpec => []SumInv
<1>1. ScanInv /\ SumInv /\ [StorageNext]_storageVars => SumInv'
  BY StorageRanks, SumStep
<1>2. StorageInit => SumInv
  BY StorageRanks, SumInit
<1>. QED
  BY <1>1, <1>2, ScanKept, PTL DEF StorageSpec

-----------------------------------------------------------------------------
(* Storage: the order of what is reported                                  *)

UnreadableUpTo(jobs, n) == {i \in 1..n : jobs[i] = "unreadable"}

\* The backups that could not be read, in the order of the scan.
OrderInv == unreadable = Picked(scanned, UnreadableUpTo(job, folded))

LEMMA PickedNone ==
    ASSUME NEW s, NEW S, \A i \in S : FALSE
    PROVE  Picked(s, S) = <<>>
<1>1. S = {} /\ Cardinality(S) = 0
  BY FS_EmptySet
<1>. QED
  BY <1>1 DEF Picked

LEMMA OrderInit == RankInit => OrderInv
<1>. SUFFICES ASSUME RankInit PROVE OrderInv
  OBVIOUS
<1>1. unreadable = <<>> /\ folded = 0
  BY DEF RankInit
<1>2. \A i \in UnreadableUpTo(job, folded) : FALSE
  BY <1>1 DEF UnreadableUpTo
<1>3. Picked(scanned, UnreadableUpTo(job, folded)) = <<>>
  BY <1>2, PickedNone
<1>. QED
  BY <1>1, <1>3 DEF OrderInv

LEMMA OrderFold == ASSUME ScanInv, OrderInv, FoldNext PROVE OrderInv'
<1>. DEFINE S == UnreadableUpTo(job, folded)
            T == UnreadableUpTo(job, folded + 1)
<1>1. /\ phase = "fold" /\ folded' = folded + 1 /\ UNCHANGED <<scanned, job>>
      /\ unreadable' = IF job[folded + 1] = "unreadable"
                       THEN Append(unreadable, scanned[folded + 1]) ELSE unreadable
  BY DEF FoldNext, Fold, scanVars
<1>2. /\ scanned \in Seq(BackupsOf(server)) /\ folded \in Nat /\ folded < Len(scanned)
  BY <1>1 DEF ScanInv
<1>3. \A i \in S : i \in 1..folded
  BY DEF UnreadableUpTo
<1>4. T = IF job[folded + 1] = "unreadable" THEN S \cup {folded + 1} ELSE S
  BY <1>2 DEF UnreadableUpTo
<1>5. unreadable = Picked(scanned, S)
  BY DEF OrderInv
<1>6. OrderInv' <=> unreadable' = Picked(scanned, T)
  BY <1>1 DEF OrderInv
<1>. HIDE DEF S, T
<1>7. Picked(scanned, S \cup {folded + 1}) = Append(Picked(scanned, S), scanned[folded + 1])
  BY <1>2, <1>3, PickedGrows
<1>. QED
  BY <1>1, <1>4, <1>5, <1>6, <1>7

LEMMA OrderStands ==
    ASSUME OrderInv, UNCHANGED <<scanned, folded, unreadable>>, \A i \in 1..folded : job'[i] = job[i]
    PROVE  OrderInv'
<1>1. UnreadableUpTo(job', folded') = UnreadableUpTo(job, folded)
  BY DEF UnreadableUpTo
<1>. QED
  BY <1>1 DEF OrderInv

LEMMA OrderEmpty ==
    ASSUME OrderInv, folded = 0, UNCHANGED <<folded, unreadable>>
    PROVE  OrderInv'
<1>1. /\ \A i \in UnreadableUpTo(job, folded) : FALSE
      /\ \A i \in UnreadableUpTo(job', folded') : FALSE
  BY DEF UnreadableUpTo
<1>2. unreadable = <<>> /\ Picked(scanned', UnreadableUpTo(job', folded')) = <<>>
  BY <1>1, PickedNone DEF OrderInv
<1>. QED
  BY <1>2 DEF OrderInv

LEMMA OrderStep == ASSUME ScanInv, OrderInv, [RankNext]_rankVars PROVE OrderInv'
<1>1. ASSUME Raise \/ Abort PROVE OrderInv'
  BY <1>1, OrderStands DEF Raise, Abort, scanVars, sumVars
<1>2. ASSUME Negotiate \/ List \/ Shutdown PROVE OrderInv'
  <2>1. folded = 0
    BY <1>2 DEF Negotiate, List, Shutdown, ScanInv
  <2>. QED
    BY <1>2, <2>1, OrderEmpty DEF Negotiate, List, Shutdown, scanVars, sumVars
<1>3. ASSUME Lookup \/ Finish PROVE OrderInv'
  BY <1>3, OrderStands DEF Lookup, Finish, scanVars
<1>4. ASSUME NEW i \in Jobs, Collect(i) PROVE OrderInv'
  BY <1>4, OrderStands DEF Collect, sumVars
<1>5. ASSUME NEW i \in Jobs, Worker(i) PROVE OrderInv'
  <2>1. PICK state : Put(i, state)
    BY <1>5, WorkerMoves
  <2>2. job[i] \notin Delivered /\ UNCHANGED <<scanned, folded, unreadable>>
    BY <1>5, WorkerMoves DEF sumVars
  <2>3. \A k \in 1..folded : k \in DOMAIN job /\ job[k] \in Delivered
    BY JobsAre DEF ScanInv
  <2>4. \A k \in 1..folded : job'[k] = job[k]
    BY <2>1, <2>2, <2>3, PutProperties
  <2>. QED
    BY <2>2, <2>4, OrderStands
<1>6. ASSUME UNCHANGED rankVars PROVE OrderInv'
  BY <1>6, OrderStands DEF rankVars, scanVars, sumVars
<1>. QED
  BY <1>1, <1>2, <1>3, <1>4, <1>5, <1>6, OrderFold DEF RankNext, Caller

LEMMA OrderKept == StorageSpec => []OrderInv
<1>1. ScanInv /\ OrderInv /\ [StorageNext]_storageVars => OrderInv'
  BY StorageRanks, OrderStep
<1>2. StorageInit => OrderInv
  BY StorageRanks, OrderInit
<1>. QED
  BY <1>1, <1>2, ScanKept, PTL DEF StorageSpec

HomeIn(srv, id) == ObjectIn(srv, id).backup

\* A charge for a file whose owner its backup lists.
ClaimIn(srv, revision, c) == \E f \in srv.files : f.id = c.file /\ KnownIn(srv, revision, f)

\* Every charge has a row, and the object that a row shows is in a backup not behind that
\* of any object with a listed file in the row.
RowInv ==
    /\ \A c \in charged : c.machine \in DOMAIN shown
    /\ phase \notin {"lookup", "done", "failed"} =>
           \A m \in DOMAIN shown : \E i \in 1..folded : scanned[i] = HomeIn(server, shown[m])
    /\ \A c \in charged : ClaimIn(server, session.revision, c) =>
           \E i, j \in 1..folded : /\ i <= j
                                   /\ scanned[i] = HomeIn(server, shown[c.machine])
                                   /\ scanned[j] = HomeIn(server, c.owner)

LEMMA RowInit == RankInit => RowInv
BY DEF RankInit, RowInv

LEMMA RowEmpty ==
    ASSUME RowInv, folded = 0, phase \in {"negotiate", "list", "scan", "shutdown"},
           UNCHANGED <<folded, charged, shown>>
    PROVE  RowInv'
<1>1. \A m \in DOMAIN shown : FALSE
  BY DEF RowInv
<1>2. charged = {}
  BY <1>1 DEF RowInv
<1>. QED
  BY <1>1, <1>2 DEF RowInv

LEMMA RowStands ==
    ASSUME RowInv, UNCHANGED <<server, session, scanned, folded, charged, shown>>,
           phase' \in {phase, "done", "failed"}
    PROVE  RowInv'
BY DEF RowInv

LEMMA ShownProperties ==
    ASSUME NEW new
    PROVE  /\ DOMAIN Shown(new) = DOMAIN shown \cup {c.machine : c \in new}
           /\ \A m \in DOMAIN shown : Shown(new)[m] = shown[m]
           /\ \A c \in new : c.machine \notin DOMAIN shown =>
                \E x \in new : x.machine = c.machine /\ Shown(new)[c.machine] = x.owner
<1>1. ASSUME NEW c \in new, c.machine \notin DOMAIN shown
      PROVE  \E x \in new : x.machine = c.machine /\ Shown(new)[c.machine] = x.owner
  <2>. DEFINE x == CHOOSE y \in new : y.machine = c.machine
  <2>1. x \in new /\ x.machine = c.machine
    OBVIOUS
  <2>2. Shown(new)[c.machine] = x.owner
    BY <1>1 DEF Shown
  <2>. QED
    BY <2>1, <2>2
<1>. QED
  BY <1>1 DEF Shown

LEMMA RowFold == ASSUME ScanInv, RowInv, FoldNext PROVE RowInv'
<1>. DEFINE i == folded + 1
            owned == {f \in IF job[i] = "read" THEN Files(scanned[i]) ELSE {} : Claimed(f)}
            new == Charges(owned)
<1>1. /\ phase = "fold" /\ folded' = i
      /\ UNCHANGED <<server, session, scanned>>
      /\ charged' = charged \cup new /\ shown' = Shown(new)
  BY DEF FoldNext, Fold, scanVars
<1>2. server \in Servers /\ folded \in Nat
  BY DEF ScanInv
<1>3. \A f \in owned : /\ f \in server.files /\ f.backup = scanned[i]
                      /\ KnownIn(server, session.revision, f)
  BY Names DEF Files
<1>. HIDE DEF owned
<1>4. ASSUME NEW c \in new PROVE scanned[i] = HomeIn(server, c.owner)
  <2>1. PICK f \in owned : Owners(f, session.revision) = {c.owner}
    BY <1>2, <1>3, ChargesProperties DEF KnownIn
  <2>2. c.owner \in ListedIn(server, scanned[i])
    BY <1>3, <2>1 DEF KnownIn
  <2>3. PICK o \in server.objects : o.id = c.owner /\ o.backup = scanned[i]
    BY <2>2 DEF ListedIn
  <2>4. ObjectIn(server, o.id) = o
    BY <1>2, UniqueIds
  <2>. QED
    BY <2>3, <2>4 DEF HomeIn
<1>. HIDE DEF new
<1>5. /\ DOMAIN shown' = DOMAIN shown \cup {c.machine : c \in new}
      /\ \A m \in DOMAIN shown : shown'[m] = shown[m]
      /\ \A c \in new : c.machine \notin DOMAIN shown =>
           \E x \in new : shown'[c.machine] = x.owner
  BY <1>1, ShownProperties, ZenonT(60)
<1>6. \A k : k \in 1..i <=> k \in 1..folded \/ k = i
  BY <1>2
<1>7. \A k \in 1..folded : k <= i
  BY <1>2
<1>8. \A m \in DOMAIN shown : \E k \in 1..folded : scanned[k] = HomeIn(server, shown[m])
  BY <1>1 DEF RowInv
<1>9. ASSUME NEW c \in new
      PROVE  \E k \in 1..i : k <= i /\ scanned[k] = HomeIn(server, shown'[c.machine])
  <2>1. CASE c.machine \in DOMAIN shown
    BY <1>5, <1>6, <1>7, <1>8, <2>1
  <2>2. CASE c.machine \notin DOMAIN shown
    <3>1. i \in 1..i /\ i <= i
      BY <1>2
    <3>. QED
      BY <1>4, <1>5, <2>2, <3>1
  <2>. QED
    BY <2>1, <2>2
<1>10. \A c \in charged' : c.machine \in DOMAIN shown'
  BY <1>1, <1>5 DEF RowInv
<1>11. ASSUME NEW m \in DOMAIN shown' PROVE \E k \in 1..i : scanned[k] = HomeIn(server, shown'[m])
  <2>1. CASE m \in DOMAIN shown
    BY <1>5, <1>6, <1>8, <2>1
  <2>2. CASE m \notin DOMAIN shown
    <3>1. PICK c \in new : m = c.machine
      BY <1>5, <2>2
    <3>. QED
      BY <1>9, <3>1
  <2>. QED
    BY <2>1, <2>2
<1>12. ASSUME NEW c \in charged', ClaimIn(server, session.revision, c)
       PROVE  \E k, j \in 1..i : /\ k <= j
                                 /\ scanned[k] = HomeIn(server, shown'[c.machine])
                                 /\ scanned[j] = HomeIn(server, c.owner)
  <2>1. CASE c \in charged
    <3>1. c.machine \in DOMAIN shown
      BY <2>1 DEF RowInv
    <3>2. PICK k \in 1..folded, j \in 1..folded :
            /\ k <= j
            /\ scanned[k] = HomeIn(server, shown[c.machine])
            /\ scanned[j] = HomeIn(server, c.owner)
      BY <1>12, <2>1 DEF RowInv
    <3>. QED
      BY <1>5, <1>6, <3>1, <3>2
  <2>2. CASE c \in new
    <3>1. i \in 1..i
      BY <1>2
    <3>. QED
      BY <1>4, <1>9, <2>2, <3>1
  <2>. QED
    BY <1>1, <2>1, <2>2
<1>. HIDE DEF i
<1>. QED
  BY <1>1, <1>10, <1>11, <1>12 DEF RowInv

LEMMA RowLookup == ASSUME ScanInv, SumInv, RowInv, Lookup PROVE RowInv'
<1>1. PICK o :
        \/ charged' = charged \cup Charges(Of(o)) /\ shown' = Shown(Charges(Of(o)))
        \/ UNCHANGED <<charged, shown>>
  BY DEF Lookup
<1>2. /\ phase = "lookup"
      /\ UNCHANGED <<server, phase, session, scanned, folded>>
  BY DEF Lookup, scanVars
<1>3. CASE UNCHANGED <<charged, shown>>
  BY <1>2, <1>3, RowStands
<1>. DEFINE new == Charges(Of(o))
<1>4. CASE charged' = charged \cup new /\ shown' = Shown(new)
  <2>1. server \in Servers
    BY DEF ScanInv
  <2>2. \A f \in Of(o) : /\ f \in server.files /\ Lone(f, session.revision)
                        /\ ~KnownIn(server, session.revision, f)
    BY DEF Of, SumInv, SeenIn
  <2>3. \A c \in new : \E f \in Of(o) : c.file = f.id
    BY <2>1, <2>2, ChargesProperties
  <2>. HIDE DEF new
  <2>4. ASSUME NEW c \in new PROVE ~ClaimIn(server, session.revision, c)
    <3>1. PICK f \in Of(o) : c.file = f.id
      BY <2>3
    <3>2. \A x \in server.files : x.id = f.id => x = f
      BY <2>1, <2>2, UniqueIds
    <3>. QED
      BY <2>2, <3>1, <3>2 DEF ClaimIn
  <2>5. /\ DOMAIN shown' = DOMAIN shown \cup {c.machine : c \in new}
        /\ \A m \in DOMAIN shown : shown'[m] = shown[m]
    BY <1>4, ShownProperties
  <2>6. \A c \in charged' : c.machine \in DOMAIN shown'
    BY <1>4, <2>5 DEF RowInv
  <2>7. ASSUME NEW c \in charged', ClaimIn(server, session.revision, c)
        PROVE  \E i, j \in 1..folded : /\ i <= j
                                       /\ scanned[i] = HomeIn(server, shown'[c.machine])
                                       /\ scanned[j] = HomeIn(server, c.owner)
    <3>1. c \in charged
      BY <1>4, <2>4, <2>7
    <3>2. c.machine \in DOMAIN shown /\ shown'[c.machine] = shown[c.machine]
      BY <2>5, <3>1 DEF RowInv
    <3>. QED
      BY <2>7, <3>1, <3>2 DEF RowInv
  <2>. QED
    BY <1>2, <2>6, <2>7 DEF RowInv
<1>. QED
  BY <1>1, <1>3, <1>4

LEMMA RowStep == ASSUME ScanInv, SumInv, RowInv, [RankNext]_rankVars PROVE RowInv'
<1>1. ASSUME Raise PROVE RowInv'
  BY <1>1, RowStands DEF Raise, scanVars, sumVars
<1>2. ASSUME Negotiate \/ List \/ Abort \/ Shutdown PROVE RowInv'
  <2>1. folded = 0 /\ phase \in {"negotiate", "list", "scan", "shutdown"}
    BY <1>2 DEF Negotiate, List, Abort, Shutdown, ScanInv
  <2>. QED
    BY <1>2, <2>1, RowEmpty DEF Negotiate, List, Abort, Shutdown, scanVars, sumVars
<1>3. ASSUME Finish PROVE RowInv'
  BY <1>3, RowStands DEF Finish, scanVars
<1>4. ASSUME NEW i \in Jobs, Collect(i) PROVE RowInv'
  <2>1. folded = 0 /\ phase = "scan"
    BY <1>4 DEF Collect, ScanInv
  <2>. QED
    BY <1>4, <2>1, RowEmpty DEF Collect, sumVars
<1>5. ASSUME NEW i \in Jobs, Worker(i) PROVE RowInv'
  <2>1. UNCHANGED <<server, phase, session, scanned, folded, charged, shown>>
    BY <1>5, WorkerMoves DEF sumVars
  <2>. QED
    BY <2>1, RowStands
<1>6. ASSUME UNCHANGED rankVars PROVE RowInv'
  BY <1>6, RowStands DEF rankVars, scanVars, sumVars
<1>. QED
  BY <1>1, <1>2, <1>3, <1>4, <1>5, <1>6, RowFold, RowLookup DEF RankNext, Caller

LEMMA RowKept == StorageSpec => []RowInv
<1>1. ScanInv /\ SumInv /\ RowInv /\ [StorageNext]_storageVars => RowInv'
  BY StorageRanks, RowStep
<1>2. StorageInit => RowInv
  BY StorageRanks, RowInit
<1>. QED
  BY <1>1, <1>2, ScanKept, SumKept, PTL DEF StorageSpec

\* What is missing from the report of unreadable backups was read.
LEMMA ReadAre ==
    ASSUME ScanInv, OrderInv, phase = "done"
    PROVE  \A i \in Jobs : (\A k \in DOMAIN unreadable : unreadable[k] # scanned[i]) <=> job[i] = "read"
<1>. DEFINE S == UnreadableUpTo(job, folded)
<1>1. /\ Jobs = 1..Len(scanned) /\ Len(scanned) \in Nat /\ folded = Len(scanned)
      /\ scanned \in Seq(BackupsOf(server))
      /\ \A i, j \in 1..Len(scanned) : scanned[i] = scanned[j] => i = j
      /\ \A i \in 1..Len(scanned) : job[i] \in Delivered
  BY JobsAre DEF ScanInv
<1>2. \A i : i \in S <=> i \in 1..Len(scanned) /\ job[i] = "unreadable"
  BY <1>1 DEF UnreadableUpTo
<1>3. unreadable = Picked(scanned, S)
  BY DEF OrderInv
<1>. HIDE DEF S
<1>4. \A i \in S : i \in 1..Len(scanned)
  BY <1>2
<1>5. /\ unreadable \in Seq(BackupsOf(server)) /\ Len(unreadable) = Cardinality(S)
      /\ \A k \in 1..Cardinality(S) : Nth(S, k) \in S /\ unreadable[k] = scanned[Nth(S, k)]
      /\ \A i \in S : Rank(S, i) \in 1..Cardinality(S) /\ unreadable[Rank(S, i)] = scanned[i]
  <2>. DEFINE A == BackupsOf(server)
              p == Picked(scanned, S)
  <2>1. scanned \in Seq(A)
    BY <1>1
  <2>. HIDE DEF A
  <2>2. p \in Seq(A) /\ Len(p) = Cardinality(S)
    BY <1>4, <2>1, PickedProperties
  <2>3. /\ \A k \in 1..Cardinality(S) : Nth(S, k) \in S /\ p[k] = scanned[Nth(S, k)]
        /\ \A i \in S : Rank(S, i) \in 1..Cardinality(S) /\ p[Rank(S, i)] = scanned[i]
    BY <1>4, <2>1, PickedProperties
  <2>. QED
    BY <1>3, <2>2, <2>3 DEF A
<1>6. DOMAIN unreadable = 1..Cardinality(S)
  BY <1>5, LenProperties
<1>7. ASSUME NEW i \in 1..Len(scanned)
      PROVE  i \in S <=> \E k \in DOMAIN unreadable : unreadable[k] = scanned[i]
  <2>1. ASSUME i \in S PROVE \E k \in DOMAIN unreadable : unreadable[k] = scanned[i]
    BY <1>5, <1>6, <2>1
  <2>2. ASSUME NEW k \in DOMAIN unreadable, unreadable[k] = scanned[i] PROVE i \in S
    <3>1. Nth(S, k) \in S /\ scanned[Nth(S, k)] = scanned[i]
      BY <1>5, <1>6, <2>2
    <3>2. Nth(S, k) = i
      BY <1>1, <1>4, <3>1
    <3>. QED
      BY <3>1, <3>2
  <2>. QED
    BY <2>1, <2>2
<1>. QED
  BY <1>1, <1>2, <1>7 DEF Delivered

\* In a finished ranking each file of each backup in scope is a machine's, or shared,
\* ownerless or unmatched, exactly one of them, unless its backup is named as unreadable
\* or the scan says that it was cut short (ranking.py:5-7, 160-177).
THEOREM NothingLost == StorageSpec => []Conserved
<1>1. ASSUME ScanInv, SumInv, OrderInv, phase = "done" PROVE Conserved
  <2>. DEFINE revision == session.revision
              sofar == SeenIn(server, scanned, job, folded)
              read == {i \in Jobs : \A k \in DOMAIN unreadable : unreadable[k] # scanned[i]}
              files == UNION {Files(scanned[i]) : i \in read}
              mine == {f \in files : \E c \in charged : c.file = f.id}
              buckets == <<mine, shared, ownerless, unmatched>>
  <2>1. Jobs = 1..Len(scanned) /\ folded = Len(scanned) /\ server \in Servers
    BY <1>1, JobsAre DEF ScanInv
  <2>2. read = {i \in Jobs : job[i] = "read"}
    BY <1>1, ReadAre
  <2>3. files = sofar
    <3>1. \A f : f \in files <=> \E i \in read : f \in server.files /\ f.backup = scanned[i]
      BY DEF Files
    <3>. HIDE DEF files
    <3>2. \A f : f \in files <=> f \in sofar
      BY <2>1, <2>2, <3>1 DEF SeenIn
    <3>. QED
      BY <3>2
  <2>4. \A f \in sofar : f \in server.files
    BY DEF SeenIn
  <2>. HIDE DEF sofar, files, revision
  <2>5. /\ shared = {f \in sofar : Cardinality(Owners(f, revision)) > 1}
        /\ ownerless = {f \in sofar : Owners(f, revision) = {}}
        /\ \A f \in unmatched : f \in sofar /\ Lone(f, revision) /\ ~ChargedIn(charged, f)
    BY <1>1 DEF SumInv, sofar, revision
  <2>6. \A c \in charged : \E f \in sofar : c.file = f.id /\ Owners(f, revision) = {c.owner}
    BY <1>1 DEF SumInv, sofar, revision
  <2>7. \A f \in sofar : Lone(f, revision) => ChargedIn(charged, f) \/ f \in unmatched
    BY <1>1 DEF SumInv, sofar, revision
  <2>8. \A f : f \in mine <=> f \in sofar /\ ChargedIn(charged, f)
    BY <2>3 DEF ChargedIn
  <2>. HIDE DEF mine
  <2>9. \A f \in sofar :
          /\ Cardinality(Owners(f, revision)) \in Nat
          /\ Cardinality(Owners(f, revision)) = 0 <=> Owners(f, revision) = {}
          /\ Lone(f, revision) <=> Cardinality(Owners(f, revision)) = 1
    BY <2>1, <2>4, OwnersCounted DEF Lone
  <2>10. ASSUME NEW c \in charged, NEW f \in sofar, c.file = f.id PROVE Owners(f, revision) = {c.owner}
    <3>1. PICK x \in sofar : c.file = x.id /\ Owners(x, revision) = {c.owner}
      BY <2>6
    <3>2. x = f
      BY <2>1, <2>4, <2>10, <3>1, UniqueIds
    <3>. QED
      BY <3>1, <3>2
  <2>11. \A f \in sofar : ChargedIn(charged, f) => Lone(f, revision)
    <3>. SUFFICES ASSUME NEW f \in sofar, NEW c \in charged, c.file = f.id PROVE Lone(f, revision)
      BY DEF ChargedIn
    <3>1. Owners(f, revision) = {c.owner} /\ f \in server.files
      BY <2>4, <2>10
    <3>. QED
      BY <2>1, <3>1, OwnersCounted
  <2>12. mine \cup shared \cup ownerless \cup unmatched = sofar
    <3>1. \A f \in sofar : f \in mine \/ f \in shared \/ f \in ownerless \/ f \in unmatched
      <4>. SUFFICES ASSUME NEW f \in sofar, f \notin shared, f \notin ownerless
                    PROVE  f \in mine \/ f \in unmatched
        OBVIOUS
      <4>1. Lone(f, revision)
        BY <2>5, <2>9
      <4>. QED
        BY <2>7, <2>8, <4>1
    <3>. QED
      BY <2>5, <2>8, <3>1
  <2>13. /\ mine \cap shared = {} /\ mine \cap ownerless = {} /\ mine \cap unmatched = {}
         /\ shared \cap ownerless = {} /\ shared \cap unmatched = {} /\ ownerless \cap unmatched = {}
    <3>1. \A f \in shared : ~Lone(f, revision) /\ f \in sofar
      BY <2>5, <2>9
    <3>2. \A f \in ownerless : ~Lone(f, revision) /\ f \in sofar
      BY <2>5, <2>9
    <3>3. \A f : ~(f \in shared /\ f \in ownerless)
      BY <2>5, <2>9
    <3>. QED
      BY <2>5, <2>8, <2>11, <3>1, <3>2, <3>3
  <2>14. /\ buckets[1] = mine /\ buckets[2] = shared /\ buckets[3] = ownerless
         /\ buckets[4] = unmatched /\ \A k \in 1..4 : k = 1 \/ k = 2 \/ k = 3 \/ k = 4
    OBVIOUS
  <2>. HIDE DEF buckets
  <2>15. UNION {buckets[k] : k \in 1..4} = files
    <3>1. UNION {buckets[k] : k \in 1..4} = mine \cup shared \cup ownerless \cup unmatched
      <4>1. 1 \in 1..4 /\ 2 \in 1..4 /\ 3 \in 1..4 /\ 4 \in 1..4
        OBVIOUS
      <4>. QED
        BY <2>14, <4>1
    <3>. QED
      BY <2>3, <2>12, <3>1
  <2>16. \A k, l \in 1..4 : k # l => buckets[k] \cap buckets[l] = {}
    BY <2>13, <2>14
  <2>17. \A c \in charged : \A f \in files : c.file = f.id => Owners(f, session.revision) = {c.owner}
    BY <2>3, <2>10 DEF revision
  <2>18. Len(scanned) < MaxBackups =>
           \A k \in DOMAIN server.backups : server.backups[k] \in scope =>
               \E i \in Jobs : scanned[i] = server.backups[k] /\ job[i] \in {"read", "unreadable"}
    <3>1. Len(scanned) < MaxBackups =>
            \A k \in DOMAIN server.backups : server.backups[k] \in scope =>
                \E i \in Jobs : scanned[i] = server.backups[k]
      BY <1>1, <2>1 DEF ScanInv
    <3>2. \A i \in Jobs : job[i] \in {"read", "unreadable"}
      BY <1>1, <2>1 DEF ScanInv, Delivered
    <3>. QED
      BY <3>1, <3>2
  <2>. QED
    BY <2>15, <2>16, <2>17, <2>18 DEF Conserved, buckets, mine, files
<1>2. ScanInv /\ SumInv /\ OrderInv => Conserved
  BY <1>1 DEF Conserved
<1>. QED
  BY <1>2, ScanKept, SumKept, OrderKept, PTL

\* The unreadable backups are reported in the order of the scan, and a row has the name
\* of the first object of its machine in that order (ranking.py:19-22, 197-224).
THEOREM OrderOfTheScan == StorageSpec => []PayloadInOrder
<1>1. ASSUME ScanInv, RowInv, OrderInv, phase = "done" PROVE PayloadInOrder
  <2>1. /\ Jobs = 1..Len(scanned) /\ folded = Len(scanned) /\ server \in Servers
        /\ Len(scanned) \in Nat
        /\ \A i, j \in 1..Len(scanned) : scanned[i] = scanned[j] => i = j
    BY <1>1, JobsAre DEF ScanInv
  <2>2. unreadable = Picked(scanned, {i \in Jobs : job[i] = "unreadable"})
    BY <1>1, <2>1 DEF OrderInv, UnreadableUpTo
  <2>3. ASSUME NEW m \in DOMAIN shown, NEW c \in charged, c.machine = m,
               \E f \in server.files : f.id = c.file /\ Claimed(f)
        PROVE  (CHOOSE i \in Jobs : scanned[i] = Object(shown[m]).backup)
                 <= (CHOOSE i \in Jobs : scanned[i] = Object(c.owner).backup)
    <3>1. ClaimIn(server, session.revision, c)
      BY <2>3, Names DEF ClaimIn
    <3>2. PICK i \in 1..folded, j \in 1..folded :
            /\ i <= j
            /\ scanned[i] = HomeIn(server, shown[m])
            /\ scanned[j] = HomeIn(server, c.owner)
      BY <1>1, <2>3, <3>1 DEF RowInv
    <3>3. Object(shown[m]).backup = scanned[i] /\ Object(c.owner).backup = scanned[j]
      BY <3>2, Names DEF HomeIn
    <3>4. \A k \in Jobs : (CHOOSE l \in Jobs : scanned[l] = scanned[k]) = k
      BY <2>1
    <3>. QED
      BY <2>1, <3>2, <3>3, <3>4
  <2>. QED
    BY <2>2, <2>3 DEF PayloadInOrder
<1>2. ScanInv /\ RowInv /\ OrderInv => PayloadInOrder
  BY <1>1 DEF PayloadInOrder
<1>. QED
  BY <1>2, ScanKept, RowKept, OrderKept, PTL

-----------------------------------------------------------------------------
(* Storage: the usage of an object                                         *)

MachinesOf(srv, name) == {Identity(o) : o \in {x \in srv.objects : x.name = name}}

IdsOf(srv, name, m) == {o.id : o \in {x \in srv.objects : x.name = name /\ Identity(x) = m}}

ReturnedOf(srv, name, m) ==
    IF srv.filters THEN {rp \in srv.points : rp.object \in IdsOf(srv, name, m)} ELSE srv.points

\* The points of a machine that are kept.
PointsOf(srv, name, proof, m) ==
    IF proof = "honoured" THEN ReturnedOf(srv, name, m)
    ELSE {rp \in ReturnedOf(srv, name, m) : rp.name \in {name, None}}

\* What a file of backup b is to a machine with the kept points pts[m].
VerdictOf(srv, name, revision, pts, m, b, f) ==
    Classify(f, revision, IdsOf(srv, name, m), {rp.file : rp \in {x \in pts[m] : x.backup = b}},
             {rp.id : rp \in pts[m]})

HoldingOf(srv, name, pts) ==
    {pair \in MachinesOf(srv, name) \X {rp.backup : rp \in srv.points} :
        \E rp \in pts[pair[1]] : rp.backup = pair[2]}

UsageOf(m, f, verdict) == [machine |-> m, file |-> f.id, verdict |-> verdict]

Early == {"negotiate", "find", "check", "points"}

\* Once the points are read they and the verdicts follow from what the server holds, and
\* a backup that was read left a verdict on each of its files.
UseInv ==
    /\ step \in Early => usage = {} /\ visited = {} /\ unread = {}
    /\ step = "files" \/ (step = "done" /\ MachinesOf(server, asked) # {}) =>
          /\ points = [m \in MachinesOf(server, asked) |-> PointsOf(server, asked, filter, m)]
          /\ \A pair \in visited : pair \in HoldingOf(server, asked, points)
    /\ step = "done" /\ MachinesOf(server, asked) # {} =>
          visited = HoldingOf(server, asked, points)
    /\ \A u \in usage :
          /\ u.machine \in MachinesOf(server, asked)
          /\ \E f \in server.files :
                u = UsageOf(u.machine, f, VerdictOf(server, asked, usession.revision, points,
                                                    u.machine, f.backup, f))
    /\ \A pair \in visited : pair \notin unread =>
          \A f \in server.files :
             f.backup = pair[2]
             /\ VerdictOf(server, asked, usession.revision, points, pair[1], pair[2], f) = "mine"
                => UsageOf(pair[1], f, "mine") \in usage

LEMMA UseNames ==
    /\ Machines = MachinesOf(server, asked)
    /\ \A m : Ids(m) = IdsOf(server, asked, m)
    /\ Holding = HoldingOf(server, asked, points)
<1>1. Machines = MachinesOf(server, asked)
  BY DEF Machines, Matches, MachinesOf
<1>2. ASSUME NEW m PROVE Ids(m) = IdsOf(server, asked, m)
  BY DEF Ids, Matches, IdsOf
<1>. QED
  BY <1>1, <1>2 DEF Holding, HoldingOf

LEMMA UseInit == StorageInit => UseInv
BY DEF StorageInit, FootprintInit, UseInv, Early

\* The server and the name asked for never change, nor does what is kept for the usage
\* while the ranking goes on.
LEMMA UseStands ==
    ASSUME UseInv, UNCHANGED <<server, asked, usession, filter, points, usage, visited, unread>>,
           step' = step \/ step' = "failed"
    PROVE  UseInv'
BY DEF UseInv, Early

LEMMA ServerStands == ASSUME [RankNext]_rankVars PROVE UNCHANGED server
<1>1. ASSUME Caller PROVE UNCHANGED server
  BY <1>1 DEF Caller, Raise, Negotiate, List, Abort, Shutdown, FoldNext, Lookup, Finish
<1>2. ASSUME NEW i \in Jobs, Collect(i) \/ Worker(i) PROVE UNCHANGED server
  BY <1>2, WorkerMoves DEF Collect
<1>3. ASSUME UNCHANGED rankVars PROVE UNCHANGED server
  BY <1>3 DEF rankVars
<1>. QED
  BY <1>1, <1>2, <1>3 DEF RankNext

LEMMA UseReadPoints == ASSUME UseInv, ReadPoints, UNCHANGED server PROVE UseInv'
<1>1. /\ step = "points" /\ step' = "files"
      /\ UNCHANGED <<server, asked, usession, filter, usage, visited, unread>>
  BY DEF ReadPoints
<1>2. usage = {} /\ visited = {} /\ unread = {}
  BY <1>1 DEF UseInv, Early
<1>3. points' = [m \in MachinesOf(server, asked) |-> PointsOf(server, asked, filter, m)]
  BY UseNames DEF ReadPoints, KeptPoints, PointsOf, ReturnedOf
<1>. QED
  BY <1>1, <1>2, <1>3 DEF UseInv, Early

LEMMA VerdictsProperties ==
    ASSUME NEW m, NEW b
    PROVE  /\ \A u \in Verdicts(m, b) : \E f \in server.files :
                f.backup = b
                /\ u = UsageOf(m, f, VerdictOf(server, asked, usession.revision, points, m, b, f))
           /\ \A f \in server.files :
                f.backup = b /\ VerdictOf(server, asked, usession.revision, points, m, b, f) = "mine"
                => UsageOf(m, f, "mine") \in Verdicts(m, b)
<1>. DEFINE v(f) == VerdictOf(server, asked, usession.revision, points, m, b, f)
<1>1. Verdicts(m, b) = {UsageOf(m, f, v(f)) : f \in {x \in Files(b) : v(x) # "foreign"}}
  BY UseNames DEF Verdicts, VerdictOf, UsageOf
<1>2. \A f : f \in Files(b) <=> f \in server.files /\ f.backup = b
  BY DEF Files
<1>. HIDE DEF v
<1>3. ASSUME NEW u \in Verdicts(m, b)
      PROVE  \E f \in server.files : f.backup = b /\ u = UsageOf(m, f, v(f))
  BY <1>1, <1>2
<1>4. ASSUME NEW f \in server.files, f.backup = b, v(f) = "mine"
      PROVE  UsageOf(m, f, "mine") \in Verdicts(m, b)
  <2>1. f \in {x \in Files(b) : v(x) # "foreign"}
    BY <1>2, <1>4
  <2>2. UsageOf(m, f, v(f)) \in Verdicts(m, b)
    BY <1>1, <2>1
  <2>. QED
    BY <1>4, <2>2
<1>. QED
  BY <1>3, <1>4 DEF v

LEMMA UseReadBackup == ASSUME UseInv, ReadBackup, UNCHANGED server PROVE UseInv'
<1>. DEFINE next == CHOOSE pair \in Holding \ visited : TRUE
            m == next[1]
            b == next[2]
<1>1. /\ step = "files" /\ visited # Holding /\ visited' = visited \cup {next}
      /\ \/ usage' = usage \cup Verdicts(m, b) /\ UNCHANGED unread
         \/ unread' = unread \cup {next} /\ UNCHANGED usage
      /\ UNCHANGED <<server, asked, step, usession, filter, points>>
  BY DEF ReadBackup
<1>2. /\ \A pair \in visited : pair \in Holding
      /\ points = [x \in MachinesOf(server, asked) |-> PointsOf(server, asked, filter, x)]
  BY <1>1, UseNames DEF UseInv
<1>3. next \in Holding /\ next \notin visited
  <2>1. \E pair : pair \in Holding \ visited
    BY <1>1, <1>2
  <2>. QED
    BY <2>1
<1>. HIDE DEF next
<1>4. next \in HoldingOf(server, asked, points) /\ m \in MachinesOf(server, asked)
  BY <1>3, UseNames DEF HoldingOf
<1>. HIDE DEF m, b
<1>5. /\ \A u \in Verdicts(m, b) : \E f \in server.files :
            f.backup = b
            /\ u = UsageOf(m, f, VerdictOf(server, asked, usession.revision, points, m, b, f))
      /\ \A f \in server.files :
            f.backup = b /\ VerdictOf(server, asked, usession.revision, points, m, b, f) = "mine"
            => UsageOf(m, f, "mine") \in Verdicts(m, b)
  BY VerdictsProperties
<1>6. ASSUME NEW u \in usage'
      PROVE  /\ u.machine \in MachinesOf(server, asked)
             /\ \E f \in server.files :
                   u = UsageOf(u.machine, f, VerdictOf(server, asked, usession.revision, points,
                                                       u.machine, f.backup, f))
  <2>1. CASE u \in usage
    BY <2>1 DEF UseInv
  <2>2. CASE u \in Verdicts(m, b)
    <3>1. PICK f \in server.files :
            f.backup = b
            /\ u = UsageOf(m, f, VerdictOf(server, asked, usession.revision, points, m, b, f))
      BY <1>5, <2>2
    <3>2. u.machine = m
      BY <3>1 DEF UsageOf
    <3>. QED
      BY <1>4, <3>1, <3>2
  <2>. QED
    BY <1>1, <2>1, <2>2
<1>7. ASSUME NEW pair \in visited', pair \notin unread', NEW f \in server.files, f.backup = pair[2],
             VerdictOf(server, asked, usession.revision, points, pair[1], pair[2], f) = "mine"
      PROVE  UsageOf(pair[1], f, "mine") \in usage'
  <2>1. CASE pair \in visited
    <3>1. pair \notin unread
      BY <1>1, <1>7
    <3>2. UsageOf(pair[1], f, "mine") \in usage
      BY <1>7, <2>1, <3>1 DEF UseInv
    <3>. QED
      BY <1>1, <3>2
  <2>2. CASE pair = next
    <3>1. usage' = usage \cup Verdicts(m, b)
      BY <1>1, <1>7, <2>2
    <3>2. UsageOf(m, f, "mine") \in Verdicts(m, b)
      BY <1>5, <1>7, <2>2 DEF m, b
    <3>. QED
      BY <2>2, <3>1, <3>2 DEF m
  <2>. QED
    BY <1>1, <1>7, <2>1, <2>2
<1>8. \A pair \in visited' : pair \in HoldingOf(server, asked, points)
  BY <1>1, <1>2, <1>4, UseNames
<1>. QED
  BY <1>1, <1>2, <1>6, <1>7, <1>8 DEF UseInv, Early

LEMMA UsageStep == ASSUME UseInv, [StorageNext]_storageVars PROVE UseInv'
<1>0. UNCHANGED server
  BY StorageRanks, ServerStands
<1>1. ASSUME UNCHANGED useVars PROVE UseInv'
  BY <1>0, <1>1, UseStands DEF useVars
<1>2. ASSUME UseRaise PROVE UseInv'
  BY <1>0, <1>2, UseStands DEF UseRaise
<1>3. ASSUME UseNegotiate \/ CheckFilter PROVE UseInv'
  <2>1. /\ usage = {} /\ visited = {} /\ unread = {} /\ step' \in Early
        /\ UNCHANGED <<asked, usage, visited, unread>>
    BY <1>3 DEF UseNegotiate, CheckFilter, UseInv, Early
  <2>. QED
    BY <1>0, <2>1 DEF UseInv, Early
<1>4. ASSUME Find PROVE UseInv'
  <2>1. /\ usage = {} /\ visited = {} /\ unread = {}
        /\ step' = IF Matches = {} THEN "done" ELSE "check"
        /\ UNCHANGED <<asked, usession, filter, points, usage, visited, unread>>
    BY <1>4 DEF Find, UseInv, Early
  <2>2. Matches = {} => MachinesOf(server, asked) = {}
    BY DEF Matches, MachinesOf
  <2>. QED
    BY <1>0, <2>1, <2>2 DEF UseInv, Early
<1>5. ASSUME Total PROVE UseInv'
  <2>1. /\ step = "files" /\ step' = "done" /\ visited = Holding
        /\ UNCHANGED <<asked, usession, filter, points, usage, visited, unread>>
    BY <1>5 DEF Total
  <2>. QED
    BY <1>0, <2>1, UseNames DEF UseInv, Early
<1>6. UNCHANGED storageVars => UNCHANGED useVars
  BY DEF storageVars
<1>. QED
  BY <1>0, <1>1, <1>2, <1>3, <1>4, <1>5, <1>6, UseReadPoints, UseReadBackup
     DEF StorageNext, UseNext, UseStep

LEMMA UseKept == StorageSpec => []UseInv
BY UseInit, UsageStep, PTL DEF StorageSpec

PointsIn(f) == IF f.points = None THEN {} ELSE f.points

LEMMA MineMeans ==
    ASSUME NEW f, NEW revision, NEW ids, NEW fileIds, NEW pointIds,
           Classify(f, revision, ids, fileIds, pointIds) = "mine"
    PROVE  /\ PointsIn(f) \subseteq pointIds
           /\ Owners(f, revision) # {} => Owners(f, revision) \subseteq ids
           /\ Owners(f, revision) = {} => PointsIn(f) # {}
<1>. DEFINE owners == Owners(f, revision)
            pts == PointsIn(f)
            touches == f.id \in fileIds \/ owners \cap ids # {} \/ pts \cap pointIds # {}
            others == pts \ pointIds # {} \/ (Cardinality(owners) > 1 /\ ~(owners \subseteq ids))
            alone == IF owners # {} THEN owners \subseteq ids ELSE pts # {}
<1>1. Classify(f, revision, ids, fileIds, pointIds) =
        CASE ~touches                     -> "foreign"
          [] touches /\ others            -> "shared"
          [] touches /\ ~others /\ alone  -> "mine"
          [] touches /\ ~others /\ ~alone -> "unattributed"
  BY DEF Classify, PointsIn
<1>. HIDE DEF touches, others, alone
<1>2. ~others /\ alone
  BY <1>1
<1>. QED
  BY <1>2 DEF others, alone

LEMMA MineIf ==
    ASSUME NEW f, NEW revision, NEW ids, NEW fileIds, NEW pointIds,
           Owners(f, revision) # {}, Owners(f, revision) \subseteq ids,
           PointsIn(f) \subseteq pointIds
    PROVE  Classify(f, revision, ids, fileIds, pointIds) = "mine"
<1>. DEFINE owners == Owners(f, revision)
            pts == PointsIn(f)
            touches == f.id \in fileIds \/ owners \cap ids # {} \/ pts \cap pointIds # {}
            others == pts \ pointIds # {} \/ (Cardinality(owners) > 1 /\ ~(owners \subseteq ids))
            alone == IF owners # {} THEN owners \subseteq ids ELSE pts # {}
<1>1. Classify(f, revision, ids, fileIds, pointIds) =
        CASE ~touches                     -> "foreign"
          [] touches /\ others            -> "shared"
          [] touches /\ ~others /\ alone  -> "mine"
          [] touches /\ ~others /\ ~alone -> "unattributed"
  BY DEF Classify, PointsIn
<1>2. touches /\ ~others /\ alone
  OBVIOUS
<1>. HIDE DEF touches, others, alone
<1>. QED
  BY <1>1, <1>2

LEMMA IdsAre ==
    ASSUME NEW srv \in Servers, NEW name
    PROVE  /\ \A m : \A id \in IdsOf(srv, name, m) :
                 /\ ObjectIn(srv, id) \in srv.objects /\ ObjectIn(srv, id).id = id
                 /\ ObjectIn(srv, id).name = name /\ Identity(ObjectIn(srv, id)) = m
           /\ \A o \in srv.objects : o.name = name => o.id \in IdsOf(srv, name, Identity(o))
           /\ \A m, n : m # n => IdsOf(srv, name, m) \cap IdsOf(srv, name, n) = {}
<1>1. ASSUME NEW m, NEW id \in IdsOf(srv, name, m)
      PROVE  /\ ObjectIn(srv, id) \in srv.objects /\ ObjectIn(srv, id).id = id
             /\ ObjectIn(srv, id).name = name /\ Identity(ObjectIn(srv, id)) = m
  <2>1. PICK o \in srv.objects : o.id = id /\ o.name = name /\ Identity(o) = m
    BY DEF IdsOf
  <2>2. ObjectIn(srv, o.id) = o
    BY UniqueIds
  <2>. QED
    BY <2>1, <2>2
<1>2. \A o \in srv.objects : o.name = name => o.id \in IdsOf(srv, name, Identity(o))
  BY DEF IdsOf
<1>3. \A m, n : m # n => IdsOf(srv, name, m) \cap IdsOf(srv, name, n) = {}
  BY <1>1
<1>. QED
  BY <1>1, <1>2, <1>3

\* A file whose points are all of one machine's objects stores that machine alone.
LEMMA StoredAlone ==
    ASSUME NEW srv \in Servers, NEW name, NEW m, NEW f,
           \A rp \in srv.points : rp.file = f.id => rp.object \in IdsOf(srv, name, m),
           \E rp \in srv.points : rp.file = f.id
    PROVE  Stored(srv, f) = {m}
<1>1. \A o : o \in Stored(srv, f) <=>
        \E x \in srv.objects : o = Identity(x) /\ \E rp \in srv.points : rp.file = f.id /\ rp.object = x.id
  BY DEF Stored
<1>2. ASSUME NEW x \in srv.objects, NEW rp \in srv.points, rp.file = f.id, rp.object = x.id
      PROVE  Identity(x) = m
  <2>1. x.id \in IdsOf(srv, name, m)
    BY <1>2
  <2>2. Identity(ObjectIn(srv, x.id)) = m /\ ObjectIn(srv, x.id) = x
    BY <2>1, IdsAre, UniqueIds
  <2>. QED
    BY <2>2
<1>3. m \in Stored(srv, f)
  <2>1. PICK rp \in srv.points : rp.file = f.id /\ rp.object \in IdsOf(srv, name, m)
    OBVIOUS
  <2>2. /\ ObjectIn(srv, rp.object) \in srv.objects
        /\ ObjectIn(srv, rp.object).id = rp.object
        /\ Identity(ObjectIn(srv, rp.object)) = m
    BY <2>1, IdsAre
  <2>. QED
    BY <1>1, <2>1, <2>2
<1>. QED
  BY <1>1, <1>2, <1>3

\* The kept points are points of the server, of the machine's objects if it filters.
LEMMA PointsAre ==
    ASSUME NEW srv, NEW name, NEW proof, NEW m, NEW rp \in PointsOf(srv, name, proof, m)
    PROVE  rp \in srv.points /\ (srv.filters => rp.object \in IdsOf(srv, name, m))
<1>1. rp \in ReturnedOf(srv, name, m)
  BY DEF PointsOf
<1>. QED
  BY <1>1 DEF ReturnedOf

\* The verdict that charges a machine with a file.
MineFor(srv, name, proof, revision, m, f) ==
    \E fileIds : Classify(f, revision, IdsOf(srv, name, m), fileIds,
                         {rp.id : rp \in PointsOf(srv, name, proof, m)}) = "mine"

LEMMA MineForMeans ==
    ASSUME NEW srv, NEW name, NEW proof, NEW revision, NEW m, NEW f,
           MineFor(srv, name, proof, revision, m, f)
    PROVE  /\ \A p \in PointsIn(f) : \E rp \in PointsOf(srv, name, proof, m) : rp.id = p
           /\ Owners(f, revision) # {} => Owners(f, revision) \subseteq IdsOf(srv, name, m)
           /\ Owners(f, revision) = {} => PointsIn(f) # {}
<1>. DEFINE ids == IdsOf(srv, name, m)
            pointIds == {rp.id : rp \in PointsOf(srv, name, proof, m)}
<1>1. PICK fileIds : Classify(f, revision, ids, fileIds, pointIds) = "mine"
  BY DEF MineFor
<1>2. \A p \in pointIds : \E rp \in PointsOf(srv, name, proof, m) : rp.id = p
  OBVIOUS
<1>. HIDE DEF ids, pointIds
<1>3. /\ PointsIn(f) \subseteq pointIds
      /\ Owners(f, revision) # {} => Owners(f, revision) \subseteq ids
      /\ Owners(f, revision) = {} => PointsIn(f) # {}
  BY <1>1, MineMeans
<1>. QED
  BY <1>2, <1>3 DEF ids

\* With a server that filters and says what is in a file, a file that is a machine's
\* stores no other.
LEMMA MineIsOwn ==
    ASSUME NEW srv \in Servers, NEW name, NEW proof, NEW m, NEW f \in srv.files, NEW revision,
           srv.filters, Honest(srv, f), MineFor(srv, name, proof, revision, m, f)
    PROVE  Stored(srv, f) = {m} \/ (Shape(f, revision) = "objectId" /\ f.points = None)
<1>. DEFINE ids == IdsOf(srv, name, m)
            kept == PointsOf(srv, name, proof, m)
            within == {x \in srv.points : x.file = f.id}
<1>1. /\ \A p \in PointsIn(f) : \E rp \in kept : rp.id = p
      /\ Owners(f, revision) # {} => Owners(f, revision) \subseteq ids
      /\ Owners(f, revision) = {} => PointsIn(f) # {}
  BY MineForMeans
<1>2. \A rp \in kept : rp \in srv.points /\ rp.object \in ids
  BY PointsAre
<1>. HIDE DEF kept
<1>3. f.owners = {rp.object : rp \in within} /\ f.points \in {None, {rp.id : rp \in within}}
  BY DEF Honest
<1>4. f.single \in f.owners \cup {None}
  BY RankingAssumption DEF Consistent
<1>5. Owners(f, revision) # {} => \E rp \in srv.points : rp.file = f.id
  BY <1>3, <1>4 DEF Owners
<1>6. CASE f.points # None
  <2>1. PointsIn(f) = {rp.id : rp \in within}
    BY <1>3, <1>6 DEF PointsIn
  <2>2. \E rp \in srv.points : rp.file = f.id
    BY <1>1, <1>5, <2>1
  <2>3. ASSUME NEW rp \in srv.points, rp.file = f.id PROVE rp.object \in ids
    <3>1. rp.id \in PointsIn(f)
      BY <2>1, <2>3
    <3>2. PICK x \in kept : x.id = rp.id
      BY <1>1, <3>1
    <3>3. x = rp
      BY <1>2, <3>2, UniqueIds
    <3>. QED
      BY <1>2, <3>3
  <2>. QED
    BY <2>2, <2>3, StoredAlone
<1>7. CASE f.points = None
  <2>1. Owners(f, revision) # {} /\ Owners(f, revision) \subseteq ids
    BY <1>1, <1>7 DEF PointsIn
  <2>2. CASE revision \in Plural
    <3>1. f.owners = Owners(f, revision)
      BY <2>2 DEF Owners
    <3>2. \A rp \in srv.points : rp.file = f.id => rp.object \in ids
      BY <1>3, <2>1, <3>1
    <3>3. \E rp \in srv.points : rp.file = f.id
      BY <1>5, <2>1
    <3>. QED
      BY <3>2, <3>3, StoredAlone
  <2>3. CASE revision \notin Plural
    BY <1>7, <2>1, <2>3 DEF Owners, Shape
  <2>. QED
    BY <2>2, <2>3
<1>. QED
  BY <1>6, <1>7

\* With a server that filters and lists what is in a file, the bytes a machine is charged
\* with are its own, and no file is charged to two machines (footprint.py:15-17).
THEOREM NobodyElsesBytes == StorageSpec => []ChargedBytesAreOwn
<1>1. ASSUME ScanInv, UseInv, step = "done", ~Overlap PROVE ChargedBytesAreOwn
  <2>. DEFINE mine == {u \in usage : u.verdict = "mine"}
              ms == MachinesOf(server, asked)
              v(m, f) == VerdictOf(server, asked, usession.revision, points, m, f.backup, f)
  <2>1. server \in Servers
    BY <1>1 DEF ScanInv
  <2>2. ASSUME NEW u \in mine
        PROVE  /\ u.machine \in ms
               /\ points = [m \in ms |-> PointsOf(server, asked, filter, m)]
               /\ \E f \in server.files : u = UsageOf(u.machine, f, "mine") /\ v(u.machine, f) = "mine"
    <3>1. /\ u \in usage /\ u.verdict = "mine" /\ u.machine \in ms
      BY <1>1 DEF UseInv
    <3>2. PICK f \in server.files : u = UsageOf(u.machine, f, v(u.machine, f))
      BY <1>1, <3>1 DEF UseInv
    <3>. HIDE DEF v
    <3>3. v(u.machine, f) = "mine"
      BY <3>1, <3>2 DEF UsageOf
    <3>4. points = [m \in ms |-> PointsOf(server, asked, filter, m)]
      BY <1>1, <3>1 DEF UseInv
    <3>. QED
      BY <3>1, <3>2, <3>3, <3>4
  <2>3. ASSUME NEW u \in mine, NEW f \in server.files, v(u.machine, f) = "mine"
        PROVE  MineFor(server, asked, filter, usession.revision, u.machine, f)
    <3>1. points[u.machine] = PointsOf(server, asked, filter, u.machine)
      BY <2>2
    <3>. QED
      BY <2>3, <3>1 DEF VerdictOf, MineFor
  <2>. HIDE DEF v
  <2>4. ASSUME NEW u \in mine, Honest(server, File(u.file)), server.filters
        PROVE  \/ Stored(server, File(u.file)) = {u.machine}
               \/ Shape(File(u.file), usession.revision) = "objectId" /\ File(u.file).points = None
    <3>1. PICK f \in server.files : u = UsageOf(u.machine, f, "mine") /\ v(u.machine, f) = "mine"
      BY <2>2
    <3>2. u.file = f.id
      BY <3>1 DEF UsageOf
    <3>3. File(u.file) = f
      BY <2>1, <3>2, UniqueIds DEF File
    <3>4. MineFor(server, asked, filter, usession.revision, u.machine, f)
      BY <2>3, <3>1
    <3>. QED
      BY <2>1, <2>4, <3>3, <3>4, MineIsOwn
  <2>5. ASSUME NEW u \in mine, NEW w \in mine, u.file = w.file PROVE u = w
    <3>1. PICK f \in server.files : u = UsageOf(u.machine, f, "mine") /\ v(u.machine, f) = "mine"
      BY <2>2
    <3>2. PICK x \in server.files : w = UsageOf(w.machine, x, "mine") /\ v(w.machine, x) = "mine"
      BY <2>2
    <3>3. u.file = f.id /\ w.file = x.id
      BY <3>1, <3>2 DEF UsageOf
    <3>4. x = f
      BY <2>1, <2>5, <3>3, UniqueIds
    <3>. DEFINE m == u.machine
                n == w.machine
                owners == Owners(f, usession.revision)
    <3>5. /\ \A p \in PointsIn(f) : \E rp \in PointsOf(server, asked, filter, m) : rp.id = p
          /\ owners # {} => owners \subseteq IdsOf(server, asked, m)
          /\ owners = {} => PointsIn(f) # {}
      <4>1. MineFor(server, asked, filter, usession.revision, m, f)
        BY <2>3, <3>1
      <4>. QED
        BY <4>1, MineForMeans
    <3>6. /\ \A p \in PointsIn(f) : \E rp \in PointsOf(server, asked, filter, n) : rp.id = p
          /\ owners # {} => owners \subseteq IdsOf(server, asked, n)
      <4>1. MineFor(server, asked, filter, usession.revision, n, f)
        BY <2>3, <3>2, <3>4
      <4>. QED
        BY <4>1, MineForMeans
    <3>. HIDE DEF owners
    <3>7. ASSUME m # n PROVE FALSE
      <4>1. IdsOf(server, asked, m) \cap IdsOf(server, asked, n) = {}
        BY <2>1, <3>7, IdsAre
      <4>2. owners = {} /\ PointsIn(f) # {}
        BY <3>5, <3>6, <4>1
      <4>3. PICK p : p \in PointsIn(f)
        BY <4>2
      <4>4. PICK rp \in PointsOf(server, asked, filter, m), y \in PointsOf(server, asked, filter, n) :
              rp.id = p /\ y.id = p
        BY <3>5, <3>6, <4>3
      <4>5. rp \in server.points /\ y \in server.points
        BY <4>4, PointsAre
      <4>6. rp = y
        BY <2>1, <4>4, <4>5, UniqueIds
      <4>7. /\ m \in DOMAIN points /\ n \in DOMAIN points
            /\ points[m] = PointsOf(server, asked, filter, m)
            /\ points[n] = PointsOf(server, asked, filter, n)
        BY <2>2
      <4>8. points[m] \cap points[n] # {}
        BY <4>4, <4>6, <4>7
      <4>. QED
        BY <1>1, <3>7, <4>7, <4>8 DEF Overlap
    <3>. QED
      BY <3>1, <3>2, <3>4, <3>7
  <2>. QED
    BY <2>4, <2>5 DEF ChargedBytesAreOwn
<1>2. ScanInv /\ UseInv => ChargedBytesAreOwn
  BY <1>1 DEF ChargedBytesAreOwn
<1>. QED
  BY <1>2, ScanKept, UseKept, PTL

\* Only objects of the server are charged.
OwnerInv == \A c \in charged : \E o \in server.objects : o.id = c.owner

LEMMA OwnerStep == ASSUME ScanInv, SumInv, OwnerInv, [StorageNext]_storageVars PROVE OwnerInv'
<1>0. UNCHANGED server /\ server \in Servers
  BY StorageRanks, ServerStands DEF ScanInv
<1>1. ASSUME UNCHANGED charged PROVE OwnerInv'
  BY <1>0, <1>1 DEF OwnerInv
<1>2. ASSUME FoldNext PROVE OwnerInv'
  <2>. DEFINE i == folded + 1
              owned == {f \in IF job[i] = "read" THEN Files(scanned[i]) ELSE {} : Claimed(f)}
  <2>1. charged' = charged \cup Charges(owned)
    BY <1>2 DEF FoldNext, Fold
  <2>2. \A f \in owned : f \in server.files /\ KnownIn(server, session.revision, f)
    BY Names DEF Files
  <2>. HIDE DEF owned
  <2>3. ASSUME NEW c \in Charges(owned) PROVE \E o \in server.objects : o.id = c.owner
    <3>1. PICK f \in owned : Owners(f, session.revision) = {c.owner}
      BY <1>0, <2>2, ChargesProperties DEF KnownIn
    <3>. QED
      BY <2>2, <3>1 DEF KnownIn, ListedIn
  <2>. QED
    BY <1>0, <2>1, <2>3 DEF OwnerInv
<1>3. ASSUME Lookup PROVE OwnerInv'
  <2>1. PICK o : charged' = charged \/ (o \in server.knows /\ charged' = charged \cup Charges(Of(o)))
    BY <1>3 DEF Lookup
  <2>2. server.knows \subseteq {x.id : x \in server.objects}
    BY <1>0, RankingAssumption DEF Consistent
  <2>3. ASSUME NEW c \in Charges(Of(o)) PROVE c.owner = o
    <3>1. PICK f \in Of(o) :
            c = [file |-> f.id, owner |-> Owner(f), machine |-> Identity(Object(Owner(f)))]
      BY DEF Charges
    <3>2. Owner(f) = o
      BY DEF Of
    <3>. QED
      BY <3>1, <3>2
  <2>. QED
    BY <1>0, <2>1, <2>2, <2>3 DEF OwnerInv
<1>4. [RankNext]_rankVars
  BY StorageRanks
<1>5. ASSUME NEW i \in Jobs, Worker(i) PROVE UNCHANGED charged
  BY <1>5, WorkerMoves DEF sumVars
<1>6. ASSUME Raise \/ Negotiate \/ List \/ Abort \/ Shutdown \/ Finish PROVE UNCHANGED charged
  BY <1>6 DEF Raise, Negotiate, List, Abort, Shutdown, Finish, sumVars
<1>7. ASSUME NEW i \in Jobs, Collect(i) PROVE UNCHANGED charged
  BY <1>7 DEF Collect, sumVars
<1>8. ASSUME UNCHANGED rankVars PROVE UNCHANGED charged
  BY <1>8 DEF rankVars, sumVars
<1>. QED
  BY <1>1, <1>2, <1>3, <1>4, <1>5, <1>6, <1>7, <1>8 DEF RankNext, Caller

LEMMA OwnerKept == StorageSpec => []OwnerInv
<1>1. StorageInit => OwnerInv
  BY DEF StorageInit, RankInit, OwnerInv
<1>. QED
  BY <1>1, OwnerStep, ScanKept, SumKept, PTL DEF StorageSpec

\* A ranking and a usage that both read everything, under a revision that lists every
\* owner, charge a machine with the same files (_backup_files.py:3-5).
THEOREM RankingMeetsUsage == StorageSpec => []NoDrift
<1>1. ASSUME ScanInv, SumInv, OwnerInv, UseInv, phase = "done", step = "done",
             session.revision = usession.revision, session.revision \in Plural,
             \A i \in Jobs : job[i] = "read",
             {scanned[i] : i \in Jobs} = {server.backups[k] : k \in DOMAIN server.backups},
             unread = {}, unmatched = {}, filter = "honoured",
             \A o, x \in server.objects : Identity(o) = Identity(x) => o.name = x.name,
             \A f \in server.files :
                /\ Honest(server, f)
                /\ \A o, x \in f.owners : o = x \/ Identity(Object(o)) # Identity(Object(x)),
             NEW m \in Machines
      PROVE  {c.file : c \in {c \in charged : c.machine = m}}
               = {u.file : u \in {u \in usage : u.machine = m /\ u.verdict = "mine"}}
  <2>. DEFINE r == session.revision
              ids == IdsOf(server, asked, m)
              within(f) == {x \in server.points : x.file = f.id}
  <2>1. /\ server \in Servers /\ Jobs = 1..Len(scanned) /\ folded = Len(scanned)
        /\ Consistent(server)
    BY <1>1, JobsAre, RankingAssumption DEF ScanInv
  <2>2. m \in MachinesOf(server, asked)
    BY UseNames
  <2>3. /\ points = [x \in MachinesOf(server, asked) |-> PointsOf(server, asked, filter, x)]
        /\ visited = HoldingOf(server, asked, points)
    BY <1>1, <2>2 DEF UseInv
  <2>4. points[m] = ReturnedOf(server, asked, m) /\ points[m] = PointsOf(server, asked, filter, m)
    BY <1>1, <2>2, <2>3 DEF PointsOf
  <2>5. \A f \in server.files : f \in SeenIn(server, scanned, job, folded)
    <3>. SUFFICES ASSUME NEW f \in server.files PROVE \E i \in Jobs : scanned[i] = f.backup
      BY <1>1, <2>1 DEF SeenIn
    <3>1. PICK k \in DOMAIN server.backups : server.backups[k] = f.backup
      BY <2>1 DEF Consistent
    <3>2. f.backup \in {scanned[i] : i \in Jobs}
      BY <1>1, <3>1
    <3>. QED
      BY <3>2
  <2>6. \A f : Owners(f, r) = f.owners
    BY <1>1 DEF Owners
  <2>7. \A f \in server.files : f.owners = {rp.object : rp \in within(f)}
                               /\ f.points \in {None, {rp.id : rp \in within(f)}}
    BY <1>1 DEF Honest
  <2>8. \A c \in charged : \E f \in server.files :
          c.file = f.id /\ f.owners = {c.owner} /\ c.machine = Identity(ObjectIn(server, c.owner))
    BY <1>1, <2>6 DEF SumInv, SeenIn
  <2>9. \A f \in server.files : Lone(f, r) => ChargedIn(charged, f)
    BY <1>1, <2>5 DEF SumInv
  <2>10. ASSUME NEW c \in charged, c.machine = m
         PROVE  \E u \in usage : u.machine = m /\ u.verdict = "mine" /\ u.file = c.file
    <3>1. PICK f \in server.files :
            c.file = f.id /\ f.owners = {c.owner} /\ c.machine = Identity(ObjectIn(server, c.owner))
      BY <2>8
    <3>2. c.owner \in ids
      <4>1. PICK o \in server.objects : o.id = c.owner
        BY <1>1 DEF OwnerInv
      <4>2. Identity(o) = m
        BY <2>1, <2>10, <3>1, <4>1, UniqueIds
      <4>3. PICK x \in server.objects : x.name = asked /\ Identity(x) = m
        BY <2>2 DEF MachinesOf
      <4>4. o.name = asked
        BY <1>1, <4>2, <4>3
      <4>. QED
        BY <4>1, <4>2, <4>4 DEF IdsOf
    <3>3. \A rp \in within(f) : rp \in points[m]
      <4>. SUFFICES ASSUME NEW rp \in within(f) PROVE rp \in ReturnedOf(server, asked, m)
        BY <2>4
      <4>1. rp.object = c.owner
        BY <2>7, <3>1
      <4>. QED
        BY <3>2, <4>1 DEF ReturnedOf
    <3>4. PICK rp \in within(f) : rp.object = c.owner
      BY <2>7, <3>1
    <3>5. rp.backup = f.backup
      BY <2>1 DEF Consistent
    <3>6. <<m, f.backup>> \in visited
      BY <2>2, <2>3, <3>3, <3>5 DEF HoldingOf
    <3>7. PointsIn(f) \subseteq {x.id : x \in points[m]}
      <4>1. PointsIn(f) \subseteq {x.id : x \in within(f)}
        BY <2>7 DEF PointsIn
      <4>. QED
        BY <3>3, <4>1
    <3>8. Owners(f, r) # {} /\ Owners(f, r) \subseteq ids
      BY <2>6, <3>1, <3>2
    <3>9. VerdictOf(server, asked, usession.revision, points, m, f.backup, f) = "mine"
      BY <1>1, <3>7, <3>8, MineIf DEF VerdictOf
    <3>10. UsageOf(m, f, "mine") \in usage
      <4>. DEFINE pair == <<m, f.backup>>
      <4>1. pair[1] = m /\ pair[2] = f.backup /\ pair \in visited /\ pair \notin unread
        BY <1>1, <3>6
      <4>. HIDE DEF pair
      <4>. QED
        BY <1>1, <3>9, <4>1 DEF UseInv
    <3>. QED
      BY <3>1, <3>10 DEF UsageOf
  <2>11. ASSUME NEW u \in usage, u.machine = m, u.verdict = "mine"
         PROVE  \E c \in charged : c.machine = m /\ c.file = u.file
    <3>1. PICK f \in server.files :
            u = UsageOf(m, f, VerdictOf(server, asked, usession.revision, points, m, f.backup, f))
      BY <1>1, <2>11 DEF UseInv
    <3>2. u.file = f.id /\ VerdictOf(server, asked, usession.revision, points, m, f.backup, f) = "mine"
      BY <2>11, <3>1 DEF UsageOf
    <3>3. MineFor(server, asked, filter, r, m, f)
      BY <1>1, <2>4, <3>2 DEF VerdictOf, MineFor
    <3>4. /\ \A p \in PointsIn(f) : \E rp \in PointsOf(server, asked, filter, m) : rp.id = p
          /\ Owners(f, r) # {} => Owners(f, r) \subseteq ids
          /\ Owners(f, r) = {} => PointsIn(f) # {}
      BY <3>3, MineForMeans
    <3>5. f.owners # {}
      <4>1. f.owners = {} => PointsIn(f) = {}
        BY <2>7 DEF PointsIn
      <4>. QED
        BY <2>6, <3>4, <4>1
    <3>6. f.owners \subseteq ids
      BY <2>6, <3>4, <3>5
    <3>7. \A o \in f.owners : Identity(Object(o)) = m
      BY <2>1, <3>6, IdsAre, Names
    <3>8. PICK o : f.owners = {o}
      BY <1>1, <3>5, <3>7
    <3>9. Lone(f, r)
      BY <2>1, <2>6, <3>8, OwnersCounted
    <3>10. PICK c \in charged : c.file = f.id
      BY <2>9, <3>9 DEF ChargedIn
    <3>11. PICK x \in server.files :
             c.file = x.id /\ x.owners = {c.owner} /\ c.machine = Identity(ObjectIn(server, c.owner))
      BY <2>8
    <3>12. x = f
      BY <2>1, <3>10, <3>11, UniqueIds
    <3>13. c.owner = o /\ c.machine = m
      BY <3>7, <3>8, <3>11, <3>12, Names
    <3>. QED
      BY <3>2, <3>10, <3>13
  <2>. QED
    BY <2>10, <2>11
<1>2. ScanInv /\ SumInv /\ OwnerInv /\ UseInv => NoDrift
  <2>. SUFFICES ASSUME ScanInv, SumInv, OwnerInv, UseInv PROVE NoDrift
    OBVIOUS
  <2>. QED
    BY <1>1 DEF NoDrift
<1>. QED
  BY <1>2, ScanKept, SumKept, OwnerKept, UseKept, PTL

=============================================================================
