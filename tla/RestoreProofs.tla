---------------------------- MODULE RestoreProofs ----------------------------
(***************************************************************************)
(* Theorems about Restore and the session reads beside it, for every       *)
(* number of sessions, every list of unfinished states and every set of    *)
(* names: the variables keep their types, no unfinished session is missing *)
(* without a reason, no failure goes unexplained, no restore runs over the *)
(* VBR server, and the dry run judges like the start.                      *)
(***************************************************************************)
EXTENDS Restore, TLAPS, SequenceTheorems, WellFoundedInduction

-----------------------------------------------------------------------------
(* Operators                                                               *)

\* A set of naturals that is not empty has a least one.
LEMMA LeastOf ==
    ASSUME NEW S \in SUBSET Nat, S # {}
    PROVE  \E i \in S : \A k \in S : i <= k
<1>1. PICK i \in S : \A k \in S : <<k, i>> \notin OpToRel(<, Nat)
  BY WFMin, NatLessThanWellFounded, Zenon
<1>2. \A k \in S : ~(k < i)
  BY <1>1, Zenon DEF OpToRel
<1>. QED
  BY <1>2

\* A cause is one of the rules', or "unclassified".
LEMMA ClassifyType ==
    ASSUME NEW lines
    PROVE  Classify(lines) \in Causes \cup {"unclassified"}
<1>. DEFINE hits == {i \in DOMAIN CauseRules : CauseRules[i] \in lines}
<1>1. CASE hits = {}
  BY <1>1 DEF Classify
<1>2. CASE hits # {}
  <2>1. hits \in SUBSET Nat
    BY SessionsAssumption
  <2>2. \E i \in hits : \A k \in hits : i <= k
    BY <1>2, <2>1, LeastOf
  <2>3. (CHOOSE i \in hits : \A k \in hits : i <= k) \in hits
    BY <2>2
  <2>. QED
    BY <1>2, <2>3 DEF Classify, Causes
<1>. QED
  BY <1>1, <1>2

\* The next state to be asked for is one of the unfinished ones, and to ask for it adds
\* it to the queried states; after the last one all of them were.
LEMMA AskedGrows ==
    ASSUME asked \in 0..Len(ActiveStates), asked < Len(ActiveStates)
    PROVE  /\ ActiveStates[asked + 1] \in Active
           /\ asked + 1 \in 0..Len(ActiveStates)
           /\ {ActiveStates[i] : i \in 1..(asked + 1)} = Asked \cup {ActiveStates[asked + 1]}
           /\ {ActiveStates[i] : i \in 1..Len(ActiveStates)} = Active
<1>1. Len(ActiveStates) \in Nat /\ DOMAIN ActiveStates = 1..Len(ActiveStates)
  BY SessionsAssumption
<1>2. 1..(asked + 1) = 1..asked \cup {asked + 1}
  BY <1>1
<1>3. {ActiveStates[i] : i \in 1..(asked + 1)} = Asked \cup {ActiveStates[asked + 1]}
  BY <1>2, Zenon DEF Asked
<1>. QED
  BY <1>1, <1>3 DEF Active

\* No unfinished state is that of a session that does not exist yet.
LEMMA AskedActive ==
    ASSUME asked \in 0..Len(ActiveStates)
    PROVE  Asked \subseteq Active /\ "absent" \notin Active /\ "Stopped" \notin Active
<1>1. 1..asked \subseteq DOMAIN ActiveStates
  BY SessionsAssumption
<1>2. Asked \subseteq Active
  BY <1>1 DEF Asked, Active
<1>. QED
  BY <1>2, SessionsAssumption DEF Active

-----------------------------------------------------------------------------
(* Types                                                                   *)

LEMMA Sizes ==
    /\ Limit \in Nat /\ Limit > 0 /\ MaxMoves \in Nat
    /\ Len(ActiveStates) \in Nat /\ 0 < Len(ActiveStates)
<1>1. ActiveStates \in Seq(STRING) /\ DOMAIN ActiveStates # {}
  BY SessionsAssumption
<1>. QED
  BY <1>1, SessionsAssumption

LEMMA StateNames ==
    /\ "Starting" \in Active /\ "Stopping" \in Active
    /\ "absent" \notin Active /\ "Stopped" \notin Active
    /\ Active \subseteq States /\ "Starting" \in States /\ "Stopping" \in States
    /\ "Stopped" \in States /\ "absent" \in States
<1>1. /\ "Starting" \in Active /\ "Stopping" \in Active
      /\ "absent" \notin Active /\ "Stopped" \notin Active
  BY SessionsAssumption DEF Active
<1>. QED
  BY <1>1 DEF States

LEMMA TypeInit == Init => TypeOK
<1>. SUFFICES ASSUME Init PROVE TypeOK
  OBVIOUS
<1>1. SessionsInit => /\ at \in [Ids -> States] /\ result \in [Ids -> Results]
                      /\ moves \in 0..MaxMoves
                      /\ asked \in 0..Len(ActiveStates) /\ asked < Len(ActiveStates)
  BY Sizes, StateNames DEF SessionsInit, Results
<1>2. RestoreInit => /\ name \in Names \cup {Blank} /\ stage = "idle"
                     /\ named \subseteq Names \cup {Blank}
                     /\ preview \in Calls /\ start \in Calls
  BY DEF RestoreInit, NoCall, Calls
<1>3. created \in Seq(Ids) /\ window \in Seq(SessionRows)
  BY DEF Init, SessionsInit
<1>. QED
  BY <1>1, <1>2, <1>3 DEF Init, SessionsInit, TypeOK, ServerTypes, ReadTypes, RestoreTypes

\* What the server does, with or without a request of the restore.
LEMMA TypeTick ==
    ASSUME TypeOK, Tick
    PROVE  moves' \in 0..MaxMoves
<1>1. moves \in 0..MaxMoves /\ MaxMoves \in Nat /\ moves < MaxMoves /\ moves' = moves + 1
  BY Sizes DEF TypeOK, ServerTypes, ReadTypes, RestoreTypes, Tick
<1>. QED
  BY <1>1

LEMMA TypeEnter ==
    ASSUME TypeOK, NEW s \in Ids, NEW state \in States, Enter(s, state)
    PROVE  at' \in [Ids -> States] /\ slipped' \subseteq Ids
BY DEF TypeOK, ServerTypes, ReadTypes, RestoreTypes, Enter

LEMMA TypeServer ==
    ASSUME TypeOK, NEW s \in Ids, Begin(s) \/ Move(s) \/ Finish(s)
    PROVE  /\ at' \in [Ids -> States] /\ result' \in [Ids -> Results]
           /\ created' \in Seq(Ids) /\ slipped' \subseteq Ids
<1>1. PICK state \in States : Enter(s, state)
  BY StateNames DEF Begin, Move, Finish
<1>2. at' \in [Ids -> States] /\ slipped' \subseteq Ids
  BY <1>1, TypeEnter
<1>3. created' \in Seq(Ids)
  <2>1. created \in Seq(Ids)
    BY Zenon DEF TypeOK, ServerTypes, ReadTypes, RestoreTypes
  <2>. QED
    BY <2>1 DEF Begin, Move, Finish
<1>4. result' \in [Ids -> Results]
  BY DEF TypeOK, ServerTypes, ReadTypes, RestoreTypes, Begin, Move, Finish, Results
<1>. QED
  BY <1>2, <1>3, <1>4

LEMMA TypeStop ==
    ASSUME TypeOK, NEW s \in Ids, StopSession(s)
    PROVE  /\ at' \in [Ids -> States] /\ moves' \in 0..MaxMoves
           /\ slipped' \subseteq Ids
<1>1. Tick /\ Enter(s, "Stopping")
  BY DEF StopSession
<1>. QED
  BY <1>1, TypeTick, TypeEnter, StateNames

LEMMA TypeWindow ==
    ASSUME TypeOK, ReadWindow
    PROVE  /\ task' \in {"overview", "rca"} /\ step' \in {"active", "logs", "failed"}
           /\ window' \in Seq(SessionRows)
           /\ truncated' \in BOOLEAN
<1>. DEFINE n == IF Len(Fetched) < Limit THEN Len(Fetched) ELSE Limit
<1>1. Fetched \in Seq(Ids)
  <2>. DEFINE m == IF Limit + 1 < Len(created) THEN Limit + 1 ELSE Len(created)
  <2>. created \in Seq(Ids)
    BY Zenon DEF TypeOK, ServerTypes, ReadTypes, RestoreTypes
  <2>1. Len(created) \in Nat
    OBVIOUS
  <2>2. m \in Nat /\ m <= Len(created)
    BY <2>1, Sizes
  <2>3. \A i \in 1..m : created[Len(created) + 1 - i] \in Ids
    BY <2>1, <2>2
  <2>4. [i \in 1..m |-> created[Len(created) + 1 - i]] \in Seq(Ids)
    BY <2>2, <2>3
  <2>. QED
    BY <2>4 DEF Fetched, Newest
<1>2. n \in Nat /\ n <= Len(Fetched)
  BY <1>1, Sizes
<1>3. ASSUME NEW i \in 1..n PROVE Row(Fetched[i]) \in SessionRows
  <2>1. Fetched[i] \in Ids
    BY <1>1, <1>2
  <2>2. at \in [Ids -> States] /\ result \in [Ids -> Results]
    BY Zenon DEF TypeOK, ServerTypes, ReadTypes, RestoreTypes
  <2>. QED
    BY <2>1, <2>2 DEF Row, SessionRows
<1>4. [i \in 1..n |-> Row(Fetched[i])] \in Seq(SessionRows)
  <2>. HIDE DEF n
  <2>. QED
    BY <1>2, <1>3
<1>5. (Len(Fetched) > Limit) \in BOOLEAN
  OBVIOUS
<1>. QED
  BY <1>4, <1>5 DEF ReadWindow, TypeOK, ServerTypes, ReadTypes, RestoreTypes

LEMMA TypeQuery ==
    ASSUME TypeOK, Query \/ QueryRefused
    PROVE  /\ asked' \in 0..Len(ActiveStates)
           /\ step' \in {"active", "done"}
           /\ step' = "active" => asked' < Len(ActiveStates)
           /\ found' \subseteq Ids /\ errors' \subseteq Active /\ ignored' \in BOOLEAN
           /\ hidden' \subseteq Ids
<1>1. asked < Len(ActiveStates) /\ Len(ActiveStates) \in Nat /\ asked \in 0..Len(ActiveStates)
  BY Sizes DEF TypeOK, ServerTypes, ReadTypes, RestoreTypes, Query, QueryRefused
<1>2. ActiveStates[asked + 1] \in Active /\ asked + 1 \in 0..Len(ActiveStates)
  BY <1>1, AskedGrows
<1>3. /\ asked' \in {asked + 1, Len(ActiveStates)}
      /\ step' = IF asked' = Len(ActiveStates) THEN "done" ELSE "active"
  BY DEF Query, QueryRefused
<1>4. /\ asked' \in 0..Len(ActiveStates)
      /\ step' \in {"active", "done"}
      /\ step' = "active" => asked' < Len(ActiveStates)
  BY <1>1, <1>2, <1>3
<1>5. found \subseteq Ids /\ errors \subseteq Active /\ ignored \in BOOLEAN /\ hidden \subseteq Ids
  BY Zenon DEF TypeOK, ServerTypes, ReadTypes, RestoreTypes
<1>6. found' \subseteq Ids /\ hidden' \subseteq Ids
  BY <1>5 DEF Query, QueryRefused, Rows
<1>7. errors' \subseteq Active /\ ignored' \in BOOLEAN
  BY <1>2, <1>5 DEF Query, QueryRefused, Reported, Strayed
<1>. QED
  BY <1>4, <1>6, <1>7

LEMMA TypeLog ==
    ASSUME TypeOK, ReadLog
    PROVE  /\ index' \subseteq Findings
           /\ unreadable' \subseteq Ids /\ incomplete' \subseteq Ids
<1>1. window \in Seq(SessionRows)
  BY Zenon DEF TypeOK, ServerTypes, ReadTypes, RestoreTypes
<1>2. ASSUME NEW k \in Failures PROVE window[k].id \in Ids
  <2>1. k \in DOMAIN window
    BY DEF Failures
  <2>2. window[k] \in SessionRows
    BY <1>1, <2>1
  <2>. QED
    BY <2>2 DEF SessionRows
<1>3. PICK k \in Failures, log \in SUBSET Causes :
        /\ \E lines : index' = index \cup {[id |-> window[k].id, cause |-> Classify(lines), log |-> log]}
        /\ incomplete' \in {incomplete, incomplete \cup {window[k].id}}
        /\ unreadable' \in {unreadable, unreadable \cup {window[k].id}}
  BY DEF ReadLog, Unreadable
<1>4. /\ index \subseteq Findings
      /\ unreadable \subseteq Ids /\ incomplete \subseteq Ids
  BY Zenon DEF TypeOK, ServerTypes, ReadTypes, RestoreTypes
<1>. QED
  BY <1>2, <1>3, <1>4, ClassifyType DEF Findings

LEMMA CallType ==
    ASSUME NEW read \in Names \cup {Blank, Unread}, NEW ack \in BOOLEAN
    PROVE  Judgement(read, ack) \in Calls
BY DEF Judgement, Verdict, Calls

\* A step of the restore, apart from the session that its request begins.
LEMMA TypeRestore ==
    ASSUME TypeOK, RestoreNext
    PROVE  /\ name' \in Names \cup {Blank} /\ named' \subseteq Names \cup {Blank}
           /\ stage' \in {"idle", "asked once", "asked twice", "declined", "called", "judged",
                         "refused", "posted", "failed", "over"}
           /\ preview' \in Calls /\ start' \in Calls
<1>1. /\ name \in Names \cup {Blank} /\ named \subseteq Names \cup {Blank}
      /\ stage \in {"idle", "asked once", "asked twice", "declined", "called", "judged",
                    "refused", "posted", "failed", "over"}
      /\ preview \in Calls /\ start \in Calls
  BY Zenon DEF TypeOK, ServerTypes, ReadTypes, RestoreTypes
<1>2. Resolved \subseteq Names \cup {Blank, Unread}
  BY <1>1 DEF Resolved
<1>3. CASE Preview
  BY <1>1, <1>2, <1>3, CallType DEF Preview, Previewed
<1>4. CASE Ask
  BY <1>1, <1>4 DEF Ask
<1>5. CASE Call
  BY <1>1, <1>5 DEF Call
<1>6. CASE Judged
  BY <1>1, <1>2, <1>6, CallType DEF Judged
<1>7. CASE Post
  BY <1>1, <1>7 DEF Post
<1>8. CASE Return
  BY <1>1, <1>8 DEF Return, NoCall, Calls
<1>9. CASE Rename
  BY <1>1, <1>9 DEF Rename
<1>. QED
  BY <1>3, <1>4, <1>5, <1>6, <1>7, <1>8, <1>9 DEF RestoreNext

LEMMA TypeStep == TypeOK /\ [Next]_vars => TypeOK'
<1>. SUFFICES ASSUME TypeOK, [Next]_vars PROVE TypeOK'
  OBVIOUS
<1>1. CASE SessionsChange /\ UNCHANGED restoreVars
  <2>1. /\ at' \in [Ids -> States] /\ result' \in [Ids -> Results]
        /\ created' \in Seq(Ids) /\ moves' \in 0..MaxMoves /\ slipped' \subseteq Ids
    <3>1. CASE ServerStep
      BY <3>1, TypeServer, TypeTick DEF ServerStep
    <3>2. ASSUME NEW s \in Ids, StopSession(s)
          PROVE  /\ at' \in [Ids -> States] /\ result' \in [Ids -> Results]
                 /\ created' \in Seq(Ids) /\ moves' \in 0..MaxMoves /\ slipped' \subseteq Ids
      <4>1. result \in [Ids -> Results] /\ created \in Seq(Ids)
        BY Zenon DEF TypeOK, ServerTypes, ReadTypes, RestoreTypes
      <4>. QED
        BY <3>2, <4>1, TypeStop DEF StopSession
    <3>. QED
      BY <1>1, <3>1, <3>2 DEF SessionsChange
  <2>2. UNCHANGED <<vbr, callVars, restoreVars>>
    BY <1>1 DEF SessionsChange, ServerStep, StopSession
  <2>3. ServerTypes'
    BY <2>1, <2>2 DEF TypeOK, ServerTypes
  <2>4. ReadTypes' /\ RestoreTypes'
    BY <2>2 DEF TypeOK, ReadTypes, RestoreTypes, callVars, activeVars, logVars, restoreVars
  <2>. QED
    BY <2>3, <2>4 DEF TypeOK
<1>2. CASE ReadWindow /\ UNCHANGED restoreVars
  <2>1. step = "idle" /\ UNCHANGED <<vbr, serverVars, slipped, activeVars, logVars, restoreVars>>
    BY <1>2 DEF ReadWindow
  <2>2. ServerTypes' /\ RestoreTypes'
    BY <2>1 DEF TypeOK, ServerTypes, RestoreTypes, serverVars, restoreVars
  <2>3. ReadTypes'
    BY <1>2, <2>1, TypeWindow DEF TypeOK, ReadTypes, activeVars, logVars
  <2>. QED
    BY <2>2, <2>3 DEF TypeOK
<1>3. CASE (Query \/ QueryRefused) /\ UNCHANGED restoreVars
  <2>1. UNCHANGED <<vbr, serverVars, slipped, task, window, truncated, logVars, restoreVars>>
    BY <1>3 DEF Query, QueryRefused
  <2>2. ServerTypes' /\ RestoreTypes'
    BY <2>1 DEF TypeOK, ServerTypes, RestoreTypes, serverVars, restoreVars
  <2>3. ReadTypes'
    BY <1>3, <2>1, TypeQuery DEF TypeOK, ReadTypes, logVars
  <2>. QED
    BY <2>2, <2>3 DEF TypeOK
<1>4. CASE ReadLog /\ UNCHANGED restoreVars
  <2>1. UNCHANGED <<vbr, serverVars, slipped, task, step, window, truncated, activeVars, restoreVars>>
    BY <1>4 DEF ReadLog
  <2>2. ServerTypes' /\ RestoreTypes'
    BY <2>1 DEF TypeOK, ServerTypes, RestoreTypes, serverVars, restoreVars
  <2>3. ReadTypes'
    BY <1>4, <2>1, TypeLog DEF TypeOK, ReadTypes, activeVars
  <2>. QED
    BY <2>2, <2>3 DEF TypeOK
<1>5. CASE Judge /\ UNCHANGED restoreVars
  <2>1. ServerTypes' /\ RestoreTypes'
    BY <1>5 DEF Judge, TypeOK, ServerTypes, RestoreTypes, serverVars, restoreVars
  <2>2. ReadTypes'
    BY <1>5 DEF Judge, TypeOK, ReadTypes, activeVars, logVars
  <2>. QED
    BY <2>1, <2>2 DEF TypeOK
<1>6. CASE RestoreNext
  <2>1. /\ at' \in [Ids -> States] /\ result' \in [Ids -> Results]
        /\ created' \in Seq(Ids) /\ moves' \in 0..MaxMoves /\ slipped' \subseteq Ids
    <3>1. /\ at \in [Ids -> States] /\ result \in [Ids -> Results]
          /\ created \in Seq(Ids) /\ moves \in 0..MaxMoves /\ slipped \subseteq Ids
      BY Zenon DEF TypeOK, ServerTypes, ReadTypes, RestoreTypes
    <3>2. ASSUME NEW s \in Ids, Begin(s), Tick
          PROVE  /\ at' \in [Ids -> States] /\ result' \in [Ids -> Results]
                 /\ created' \in Seq(Ids) /\ moves' \in 0..MaxMoves /\ slipped' \subseteq Ids
      BY <3>2, TypeServer, TypeTick
    <3>3. CASE Post
      BY <3>1, <3>2, <3>3 DEF Post, sessionVars, serverVars
    <3>4. CASE Rename
      BY <3>1, <3>4, TypeTick DEF Rename
    <3>. QED
      BY <1>6, <3>1, <3>3, <3>4
      DEF RestoreNext, Preview, Ask, Call, Judged, Return, sessionVars, serverVars
  <2>2. UNCHANGED <<vbr, callVars>>
    BY <1>6 DEF RestoreNext, Preview, Ask, Call, Judged, Post, Return, Rename, sessionVars
  <2>3. ServerTypes'
    BY <2>1, <2>2 DEF TypeOK, ServerTypes
  <2>4. ReadTypes'
    BY <2>2 DEF TypeOK, ReadTypes, callVars, activeVars, logVars
  <2>5. RestoreTypes'
    BY <1>6, TypeRestore DEF RestoreTypes
  <2>. QED
    BY <2>3, <2>4, <2>5 DEF TypeOK
<1>7. CASE UNCHANGED vars
  <2>1. ServerTypes' /\ RestoreTypes'
    BY <1>7 DEF TypeOK, ServerTypes, RestoreTypes, vars, sessionVars, serverVars, restoreVars
  <2>2. ReadTypes'
    BY <1>7 DEF TypeOK, ReadTypes, vars, sessionVars, callVars, activeVars, logVars
  <2>. QED
    BY <2>1, <2>2 DEF TypeOK
<1>. QED
  BY <1>1, <1>2, <1>3, <1>4, <1>5, <1>6, <1>7 DEF Next, SessionsRead

(***************************************************************************)
(* The variables keep their types (sessions.py:19-116,                     *)
(* diagnostics.py:95-178, restore.py:50-129).                              *)
(***************************************************************************)
THEOREM TypeCorrect == Spec => []TypeOK
BY TypeInit, TypeStep, PTL DEF Spec

-----------------------------------------------------------------------------
(* Unfinished sessions                                                     *)

\* While no query is made, a session that gets into a queried state slips there.
LEMMA FoundEnter ==
    ASSUME TypeOK, ActiveFound, NEW s \in Ids, NEW state, Enter(s, state),
           UNCHANGED activeVars
    PROVE  ActiveFound'
<1>1. at \in [Ids -> States]
  BY Zenon DEF TypeOK, ServerTypes, ReadTypes, RestoreTypes
<1>2. Asked' = Asked /\ found' = found /\ hidden' = hidden /\ errors' = errors
  BY DEF Asked, activeVars
<1>3. slipped \subseteq slipped'
  BY DEF Enter
<1>4. ASSUME NEW x \in Ids, at'[x] \in Asked'
      PROVE  x \in found' \/ x \in slipped' \/ (x \in hidden' /\ errors' # {})
  <2>1. CASE at[x] \in Asked
    BY <1>2, <1>3, <2>1 DEF ActiveFound
  <2>2. CASE at[x] \notin Asked
    BY <1>1, <1>2, <1>4, <2>2 DEF Enter
  <2>. QED
    BY <2>1, <2>2
<1>. QED
  BY <1>4 DEF ActiveFound

LEMMA FoundQuery ==
    ASSUME TypeOK, ActiveFound, Query
    PROVE  ActiveFound'
<1>. DEFINE state == ActiveStates[asked + 1]
<1>1. asked \in 0..Len(ActiveStates) /\ asked < Len(ActiveStates)
  BY DEF TypeOK, ServerTypes, ReadTypes, RestoreTypes, Query
<1>2. /\ UNCHANGED <<at, slipped, errors, hidden>>
      /\ found' = found \cup {s \in Rows(state) : at[s] \in Wanted(state)}
  BY DEF Query, serverVars
<1>3. state \in Active /\ "absent" \notin Active
  BY <1>1, AskedGrows, AskedActive
<1>4. CASE ~Strayed(state)
  <2>1. asked' = asked + 1
    BY <1>4 DEF Query
  <2>2. Asked' = Asked \cup {state}
    BY <1>1, <2>1, AskedGrows DEF Asked
  <2>3. ASSUME NEW s \in Ids, at[s] = state PROVE s \in found'
    BY <1>2, <1>3, <1>4, <2>3 DEF Rows, Wanted
  <2>. QED
    BY <1>2, <2>2, <2>3 DEF ActiveFound
<1>5. CASE Strayed(state)
  <2>1. asked' = Len(ActiveStates)
    BY <1>5 DEF Query
  <2>2. Asked' = Active
    BY <1>1, <2>1, AskedGrows DEF Asked
  <2>3. ~vbr.filters
    BY <1>5 DEF Strayed, Rows
  <2>4. ASSUME NEW s \in Ids, at[s] \in Active PROVE s \in found'
    BY <1>2, <1>3, <1>5, <2>3, <2>4 DEF Rows, Wanted
  <2>. QED
    BY <1>2, <2>2, <2>4 DEF ActiveFound
<1>. QED
  BY <1>4, <1>5

LEMMA FoundRefused ==
    ASSUME TypeOK, ActiveFound, QueryRefused
    PROVE  ActiveFound'
<1>. DEFINE state == ActiveStates[asked + 1]
<1>1. asked \in 0..Len(ActiveStates) /\ asked < Len(ActiveStates)
  BY DEF TypeOK, ServerTypes, ReadTypes, RestoreTypes, QueryRefused
<1>2. /\ UNCHANGED <<at, slipped, found>>
      /\ errors' = errors \cup {state}
      /\ hidden' = hidden \cup {s \in Ids : at[s] = state}
      /\ asked' = asked + 1
  BY DEF QueryRefused, Reported, serverVars
<1>3. Asked' = Asked \cup {state}
  BY <1>1, <1>2, AskedGrows DEF Asked
<1>. QED
  BY <1>2, <1>3 DEF ActiveFound

(***************************************************************************)
(* At every moment of the queries, a session in a state that was asked for *)
(* is found, or came there afterwards, or the refusal of the query that    *)
(* would have found it is reported (sessions.py:83-116).                   *)
(***************************************************************************)
THEOREM ActiveAlwaysFound == Spec => []ActiveFound
<1>1. Init => ActiveFound
  BY DEF Init, SessionsInit, ActiveFound, Asked
<1>2. ASSUME TypeOK, ActiveFound, [Next]_vars PROVE ActiveFound'
  <2>1. CASE UNCHANGED <<at, slipped, activeVars>>
    BY <1>2, <2>1 DEF ActiveFound, Asked, activeVars
  <2>2. ASSUME NEW s \in Ids, UNCHANGED activeVars, Begin(s) \/ Move(s) \/ Finish(s) \/ StopSession(s)
        PROVE  ActiveFound'
    <3>1. PICK state : Enter(s, state)
      BY <2>2 DEF Begin, Move, Finish, StopSession
    <3>. QED
      BY <1>2, <2>2, <3>1, FoundEnter
  <2>3. CASE SessionsChange
    BY <2>2, <2>3 DEF SessionsChange, ServerStep, StopSession, callVars
  <2>4. CASE ReadWindow \/ ReadLog \/ Judge
    BY <2>1, <2>4 DEF ReadWindow, ReadLog, Judge, serverVars
  <2>5. CASE RestoreNext
    <3>1. CASE Post
      BY <2>1, <2>2, <3>1 DEF Post, callVars, sessionVars, serverVars
    <3>. QED
      BY <2>1, <2>5, <3>1
      DEF RestoreNext, Preview, Ask, Call, Judged, Return, Rename, sessionVars, serverVars, callVars
  <2>6. CASE UNCHANGED vars
    BY <2>1, <2>6 DEF vars, sessionVars, serverVars, callVars
  <2>. QED
    BY <1>2, <2>3, <2>4, <2>5, <2>6, FoundQuery, FoundRefused DEF Next, SessionsRead
<1>. QED
  BY <1>1, <1>2, TypeCorrect, PTL DEF Spec

-----------------------------------------------------------------------------
(* Failure analysis                                                        *)

\* The window holds sessions that began, and those that began after one of them and
\* are not in it only if older ones are said to exist.
WindowInv ==
    /\ \A i \in DOMAIN created : at[created[i]] # "absent"
    /\ \A k \in DOMAIN window : \E i \in DOMAIN created : created[i] = window[k].id
    /\ \A i, k \in DOMAIN created :
          i < k /\ created[k] \in Windowed /\ created[i] \notin Windowed => truncated

LogInv ==
    /\ step = "active" => task = "overview"
    /\ task = "rca" /\ step = "done" =>
          \A k \in DOMAIN window : window[k].result = "Failed" => window[k].id \in Looked
    /\ vbr.totals /\ vbr.fits => \A finding \in index :
          \/ finding.id \in unreadable \cup incomplete
          \/ finding.cause = Classify(finding.log)

\* Sessions that begin are newer than all in the window.
LEMMA WindowBegins ==
    ASSUME TypeOK, WindowInv, NEW s \in Ids, Begin(s), UNCHANGED <<window, truncated>>
    PROVE  WindowInv'
<1>. DEFINE n == Len(created) + 1
<1>1. /\ created \in Seq(Ids) /\ Len(created) \in Nat /\ DOMAIN created = 1..Len(created)
      /\ at \in [Ids -> States] /\ at[s] = "absent"
      /\ at' = [at EXCEPT ![s] = "Starting"] /\ created' = Append(created, s)
  <2>1. created \in Seq(Ids) /\ at \in [Ids -> States]
    BY Zenon DEF TypeOK, ServerTypes, ReadTypes, RestoreTypes
  <2>. QED
    BY <2>1, LenProperties DEF Begin, Enter
<1>2. /\ DOMAIN created' = 1..n /\ created'[n] = s
      /\ \A i \in 1..Len(created) : created'[i] = created[i] /\ created[i] \in Ids
  <2>1. created' \in Seq(Ids) /\ Len(created') = n /\ created'[n] = s
        /\ \A i \in 1..Len(created) : created'[i] = created[i]
    BY <1>1, AppendProperties
  <2>. QED
    BY <1>1, <2>1, LenProperties, ElementOfSeq
<1>3. n \notin 1..Len(created) /\ n \in Nat /\ 1..n = (1..Len(created)) \cup {n}
  BY <1>1
<1>. HIDE DEF n
<1>4. \A i \in DOMAIN created' : at'[created'[i]] # "absent"
  BY <1>1, <1>2, <1>3 DEF WindowInv
<1>5. \A k \in DOMAIN window' : \E i \in DOMAIN created' : created'[i] = window'[k].id
  BY <1>1, <1>2, <1>3 DEF WindowInv
<1>6. Windowed' = Windowed /\ s \notin Windowed
  BY <1>1 DEF Windowed, WindowInv
<1>7. ASSUME NEW i \in DOMAIN created', NEW k \in DOMAIN created',
             i < k, created'[k] \in Windowed, created'[i] \notin Windowed
      PROVE  truncated
  <2>1. k \in 1..Len(created)
    BY <1>2, <1>3, <1>6, <1>7
  <2>2. i \in 1..Len(created)
    BY <1>1, <1>2, <1>3, <1>7, <2>1
  <2>. QED
    BY <1>1, <1>2, <1>7, <2>1, <2>2 DEF WindowInv
<1>. QED
  BY <1>4, <1>5, <1>6, <1>7 DEF WindowInv

LEMMA WindowRead ==
    ASSUME TypeOK, WindowInv, ReadWindow, step' # "failed"
    PROVE  WindowInv'
<1>. DEFINE L == Len(created)
            m == IF Limit + 1 < L THEN Limit + 1 ELSE L
            n == IF Len(Fetched) < Limit THEN Len(Fetched) ELSE Limit
<1>1. /\ created \in Seq(Ids) /\ L \in Nat /\ DOMAIN created = 1..L
      /\ UNCHANGED <<created, at>>
      /\ Limit \in Nat /\ Limit > 0
  <2>1. created \in Seq(Ids)
    BY Zenon DEF TypeOK, ServerTypes, ReadTypes, RestoreTypes
  <2>. QED
    BY <2>1, LenProperties, Sizes DEF ReadWindow, serverVars
<1>2. m \in Nat /\ m <= L /\ Fetched = [i \in 1..m |-> created[L + 1 - i]] /\ Len(Fetched) = m
  <2>1. m \in Nat /\ m <= L
    BY <1>1
  <2>2. Fetched = [i \in 1..m |-> created[L + 1 - i]]
    BY DEF Fetched, Newest
  <2>3. \A i \in 1..m : created[L + 1 - i] \in Ids
    BY <1>1, <2>1, ElementOfSeq
  <2>. HIDE DEF m, L
  <2>4. Fetched \in Seq(Ids) /\ Len(Fetched) = m
    BY <2>1, <2>2, <2>3
  <2>. QED
    BY <2>1, <2>2, <2>4
<1>3. /\ window' = [i \in 1..n |-> Row(Fetched[i])]
      /\ truncated' = (Len(Fetched) > Limit)
  BY DEF ReadWindow
<1>4. n \in Nat /\ n <= m
  BY <1>1, <1>2
<1>s. /\ L <= Limit => n = L
      /\ ~(L <= Limit) => Len(Fetched) > Limit
  <2>1. L \in Nat /\ Limit \in Nat /\ Len(Fetched) = m
    BY <1>1, <1>2
  <2>. HIDE DEF L
  <2>. QED
    BY <2>1 DEF m, n
<1>. HIDE DEF m, n
<1>5. \A k \in 1..n : window'[k].id = created[L + 1 - k] /\ L + 1 - k \in 1..L
  BY <1>1, <1>2, <1>3, <1>4 DEF Row
<1>6. DOMAIN window' = 1..n
  BY <1>3
<1>7. \A k \in DOMAIN window' : \E i \in DOMAIN created' : created'[i] = window'[k].id
  BY <1>1, <1>5, <1>6
<1>8. ASSUME NEW i \in 1..L, L <= Limit PROVE created[i] \in Windowed'
  <2>1. n = L
    BY <1>8, <1>s
  <2>2. L + 1 - i \in 1..n /\ L + 1 - (L + 1 - i) = i
    BY <1>1, <2>1
  <2>. QED
    BY <1>5, <1>6, <2>2 DEF Windowed
<1>9. ASSUME ~(L <= Limit) PROVE truncated'
  BY <1>3, <1>9, <1>s
<1>. QED
  BY <1>1, <1>7, <1>8, <1>9 DEF WindowInv

LEMMA WindowStep == TypeOK /\ WindowInv /\ [Next]_vars => WindowInv'
<1>. SUFFICES ASSUME TypeOK, WindowInv, [Next]_vars PROVE WindowInv'
  OBVIOUS
<1>1. CASE UNCHANGED <<at, created, window, truncated>>
  BY <1>1 DEF WindowInv, Windowed
<1>2. ASSUME NEW s \in Ids, NEW state, Enter(s, state), state # "absent",
             UNCHANGED <<created, window, truncated>>
      PROVE  WindowInv'
  <2>1. created \in Seq(Ids) /\ at \in [Ids -> States]
    BY Zenon DEF TypeOK, ServerTypes, ReadTypes, RestoreTypes
  <2>2. \A i \in DOMAIN created : at'[created[i]] # "absent"
    BY <1>2, <2>1, ElementOfSeq, LenProperties DEF WindowInv, Enter
  <2>. QED
    BY <1>2, <2>2 DEF WindowInv, Windowed
<1>3. ASSUME NEW s \in Ids, UNCHANGED <<window, truncated>>,
             Begin(s) \/ Move(s) \/ Finish(s) \/ (StopSession(s) /\ UNCHANGED created)
      PROVE  WindowInv'
  <2>1. CASE Begin(s)
    BY <1>3, <2>1, WindowBegins
  <2>2. CASE Move(s) \/ Finish(s) \/ (StopSession(s) /\ UNCHANGED created)
    <3>1. PICK state \in Active \cup {"Stopped"} : Enter(s, state) /\ UNCHANGED created
      BY <2>2, StateNames DEF Move, Finish, StopSession
    <3>. QED
      BY <1>2, <1>3, <3>1, StateNames
  <2>. QED
    BY <1>3, <2>1, <2>2
<1>4. CASE SessionsChange
  BY <1>3, <1>4 DEF SessionsChange, ServerStep, StopSession, callVars
<1>5. CASE ReadWindow
  <2>1. CASE step' = "failed"
    BY <1>1, <1>5, <2>1 DEF ReadWindow, serverVars
  <2>2. CASE step' # "failed"
    BY <1>5, <2>2, WindowRead
  <2>. QED
    BY <2>1, <2>2
<1>6. CASE Query \/ QueryRefused \/ ReadLog \/ Judge
  BY <1>1, <1>6 DEF Query, QueryRefused, ReadLog, Judge, serverVars
<1>7. CASE RestoreNext
  <2>1. CASE Post
    BY <1>1, <1>3, <2>1 DEF Post, callVars, sessionVars, serverVars
  <2>. QED
    BY <1>1, <1>7, <2>1
    DEF RestoreNext, Preview, Ask, Call, Judged, Return, Rename, sessionVars, serverVars, callVars
<1>8. CASE UNCHANGED vars
  BY <1>1, <1>8 DEF vars, sessionVars, serverVars, callVars
<1>. QED
  BY <1>4, <1>5, <1>6, <1>7, <1>8 DEF Next, SessionsRead

LEMMA LogStep == TypeOK /\ LogInv /\ [Next]_vars => LogInv'
<1>. SUFFICES ASSUME TypeOK, LogInv, [Next]_vars PROVE LogInv'
  OBVIOUS
<1>1. CASE UNCHANGED <<vbr, callVars>>
  BY <1>1 DEF LogInv, callVars, logVars, Looked
<1>2. CASE ReadWindow
  <2>1. UNCHANGED <<vbr, index, unreadable, incomplete>> /\ step' # "done"
        /\ (step' = "active" => task' = "overview")
    BY <1>2 DEF ReadWindow, logVars
  <2>. QED
    BY <2>1 DEF LogInv, Looked
<1>3. CASE Query \/ QueryRefused
  <2>1. UNCHANGED <<vbr, task, logVars>> /\ task = "overview"
    BY <1>3 DEF Query, QueryRefused, LogInv
  <2>. QED
    BY <2>1 DEF LogInv, logVars, Looked
<1>4. CASE Judge
  <2>1. UNCHANGED <<vbr, task, window, logVars>> /\ step' = "done"
        /\ \A k \in Failures : window[k].id \in Looked
    BY <1>4 DEF Judge
  <2>. QED
    BY <2>1 DEF LogInv, logVars, Looked, Failures
<1>5. CASE ReadLog
  <2>1. UNCHANGED <<vbr, task, step, window>> /\ step = "logs"
    BY <1>5 DEF ReadLog
  <2>2. PICK k \in Failures, log \in SUBSET Causes, lines \in SUBSET Causes :
          LET s == window[k].id
          IN  /\ index' = index \cup {[id |-> s, cause |-> Classify(lines), log |-> log]}
              /\ unreadable \subseteq unreadable' /\ incomplete \subseteq incomplete'
              /\ \/ lines = log \/ ~vbr.totals \/ ~vbr.fits
                 \/ s \in unreadable' \cup incomplete'
    <3>1. PICK k \in Failures, log \in SUBSET Causes :
             \/ \E sent \in SUBSET log :
                  /\ \E lines \in IF vbr.fits THEN {sent} ELSE SUBSET sent :
                       index' = index \cup {[id |-> window[k].id, cause |-> Classify(lines), log |-> log]}
                  /\ incomplete' = IF sent # log /\ vbr.totals
                                     THEN incomplete \cup {window[k].id} ELSE incomplete
                  /\ UNCHANGED unreadable
             \/ /\ index' = index \cup {[id |-> window[k].id, cause |-> Classify({}), log |-> log]}
                /\ unreadable' = unreadable \cup {window[k].id}
                /\ UNCHANGED incomplete
      BY <1>5, Zenon DEF ReadLog, Unreadable
    <3>2. ASSUME NEW sent \in SUBSET log, NEW lines \in IF vbr.fits THEN {sent} ELSE SUBSET sent,
                 index' = index \cup {[id |-> window[k].id, cause |-> Classify(lines), log |-> log]},
                 incomplete' = IF sent # log /\ vbr.totals
                                 THEN incomplete \cup {window[k].id} ELSE incomplete,
                 UNCHANGED unreadable
          PROVE  /\ lines \in SUBSET Causes
                 /\ unreadable \subseteq unreadable' /\ incomplete \subseteq incomplete'
                 /\ \/ lines = log \/ ~vbr.totals \/ ~vbr.fits
                    \/ window[k].id \in unreadable' \cup incomplete'
      <4>1. lines \subseteq sent /\ (vbr.fits => lines = sent)
        BY <3>2
      <4>. QED
        BY <3>2, <4>1
    <3>3. CASE /\ index' = index \cup {[id |-> window[k].id, cause |-> Classify({}), log |-> log]}
               /\ unreadable' = unreadable \cup {window[k].id}
               /\ UNCHANGED incomplete
      BY <3>3
    <3>. QED
      BY <3>1, <3>2, <3>3
  <2>. QED
    BY <2>1, <2>2 DEF LogInv
<1>6. CASE SessionsChange
  BY <1>1, <1>6 DEF SessionsChange, ServerStep, StopSession
<1>7. CASE RestoreNext
  BY <1>1, <1>7
  DEF RestoreNext, Preview, Ask, Call, Judged, Post, Return, Rename, sessionVars
<1>8. CASE UNCHANGED vars
  BY <1>1, <1>8 DEF vars, sessionVars
<1>. QED
  BY <1>2, <1>3, <1>4, <1>5, <1>6, <1>7, <1>8 DEF Next, SessionsRead

(***************************************************************************)
(* Once the failure analysis is done every failed session of its window    *)
(* is looked at, older ones are said to exist, and a cause that is not the *)
(* one of the whole log is listed as unreadable or incomplete              *)
(* (diagnostics.py:95-178, sessions.py:19-116).                            *)
(***************************************************************************)
THEOREM FailuresAccounted == Spec => []FailuresExplained
<1>1. Init => WindowInv /\ LogInv
  BY DEF Init, SessionsInit, WindowInv, LogInv, Windowed
<1>2. WindowInv /\ LogInv => FailuresExplained
  BY DEF WindowInv, LogInv, FailuresExplained
<1>. QED
  BY <1>1, <1>2, WindowStep, LogStep, TypeCorrect, PTL DEF Spec

-----------------------------------------------------------------------------
(* The guard of the restore                                                *)

\* What a verdict was given on, and what the machine was called meanwhile.
GuardInv ==
    /\ preview.verdict = "go" => preview.verdict = Verdict(preview.read, preview.ack)
    /\ stage = "called" => name \in named
    /\ stage \in {"judged", "posted", "failed", "refused"} =>
         /\ start.verdict = Verdict(start.read, start.ack)
         /\ start.verdict = "go" <=> stage # "refused"
         /\ start.read \in named \cup {Unread}

LEMMA GuardStep ==
    ASSUME TypeOK, GuardInv, [Next]_vars
    PROVE  GuardInv'
<1>1. CASE UNCHANGED restoreVars
  BY <1>1 DEF GuardInv, restoreVars
<1>2. CASE Preview
  BY <1>2 DEF GuardInv, Preview, Previewed, Judgement
<1>3. CASE Ask
  BY <1>3 DEF GuardInv, Ask
<1>4. CASE Call
  BY <1>4 DEF GuardInv, Call
<1>5. CASE Judged
  BY <1>5 DEF GuardInv, Judged, Judgement, Resolved
<1>6. CASE Post
  BY <1>6 DEF GuardInv, Post
<1>7. CASE Return
  BY <1>7 DEF GuardInv, Return, NoCall
<1>8. CASE Rename
  BY <1>8 DEF GuardInv, Rename
<1>. QED
  BY <1>1, <1>2, <1>3, <1>4, <1>5, <1>6, <1>7, <1>8 DEF Next, RestoreNext, vars

LEMMA Guarded == Spec => []GuardInv
<1>1. Init => GuardInv
  BY DEF Init, RestoreInit, GuardInv, NoCall
<1>. QED
  BY <1>1, GuardStep, TypeCorrect, PTL DEF Spec

(***************************************************************************)
(* No restore is posted over a machine that bore a name of the VBR server  *)
(* from the call to the request, but by an operator who accepted that its  *)
(* name could not be read (restore.py:50-73, 233-255).                     *)
(***************************************************************************)
THEOREM NeverOverTheServer == Spec => []NeverOverItself
<1>1. GuardInv => NeverOverItself
  BY RestoreAssumption DEF GuardInv, NeverOverItself, Verdict, SelfHostNames
<1>. QED
  BY <1>1, Guarded, PTL

(***************************************************************************)
(* A start refuses what a dry run let pass only if what they read or what  *)
(* the operator accepts differs (restore.py:193-250).                      *)
(***************************************************************************)
THEOREM PreviewJudgesAlike == Spec => []PreviewAgrees
<1>1. TypeOK /\ GuardInv => PreviewAgrees
  BY RestoreAssumption DEF TypeOK, RestoreTypes, Calls, GuardInv, PreviewAgrees, Verdict, SelfHostNames
<1>. QED
  BY <1>1, Guarded, TypeCorrect, PTL

=============================================================================
