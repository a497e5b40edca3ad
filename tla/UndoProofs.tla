------------------------------- MODULE UndoProofs -------------------------------
(***************************************************************************)
(* Proofs about UndoTokens and JobUndo, for any number of tokens, applies  *)
(* and servers.  The invariant follows an apply from its read to its mark: *)
(* what it read stays true of the token as far as the mark relies on it,   *)
(* and no apply that was over when it read had used the token up.          *)
(***************************************************************************)
EXTENDS JobUndo, SequenceTheorems, TLAPS

-----------------------------------------------------------------------------
(* Types                                                                   *)

\* An apply that went on after its read has a token that exists.
Chosen ==
    \A a \in Applies : pc[a] \in {"dispatch", "mark"} =>
        tok[a] \in Tokens /\ status[tok[a]] # "absent"

TypeInv == TypeOK /\ Chosen

LEMMA DestinationType ==
    ASSUME TypeInv, NEW a \in Applies, pc[a] = "dispatch"
    PROVE  Destination(a) \in Targets
BY UndoAssumption DEF TypeInv, TypeOK, Chosen, Destination, Optional

LEMMA LandingsType ==
    ASSUME TypeInv, NEW a \in Applies, pc[a] = "dispatch",
           UNCHANGED landings \/ Lands(a)
    PROVE  landings' \subseteq [by : Applies, on : Targets]
<1>1. Destination(a) \in Targets
  BY DestinationType
<1> QED
  BY <1>1 DEF TypeInv, TypeOK, Lands

LEMMA TypeInit == Init => TypeInv
BY UndoAssumption DEF Init, TypeInv, TypeOK, Chosen, Optional, Ways

LEMMA TypeStep ==
    ASSUME TypeInv, [Next]_vars
    PROVE  TypeInv'
<1>1. ASSUME NEW k \in Tokens, Record(k) PROVE TypeInv'
  BY <1>1, UndoAssumption DEF Record, TypeInv, TypeOK, Chosen, Optional, Ways
<1>2. CASE Reconfigure
  BY <1>2 DEF Reconfigure, TypeInv, TypeOK, Chosen
<1>3. ASSUME NEW a \in Applies, Fetch(a) PROVE TypeInv'
  <2>1. seen' \in [Applies -> SUBSET Applies]
    BY <1>3 DEF Fetch, TypeInv, TypeOK
  <2>2. TypeOK'
    BY <1>3, <2>1, UndoAssumption DEF Fetch, End, TypeInv, TypeOK, Optional, Ways
  <2>3. Chosen'
    BY <1>3 DEF Fetch, End, MayApply, TypeInv, TypeOK, Chosen
  <2> QED
    BY <2>2, <2>3 DEF TypeInv
<1>4. ASSUME NEW a \in Applies, InverseOk(a) \/ InverseError(a) \/ InverseRaises(a) \/ Crash(a)
      PROVE  TypeInv'
  <2>1. landings' \subseteq [by : Applies, on : Targets]
    BY <1>4, LandingsType DEF InverseOk, InverseError, InverseRaises, Crash, TypeInv, TypeOK
  <2>2. TypeOK'
    BY <1>4, <2>1, UndoAssumption
       DEF InverseOk, InverseError, InverseRaises, Crash, End, TypeInv, TypeOK, Optional, Ways
  <2>3. Chosen'
    BY <1>4 DEF InverseOk, InverseError, InverseRaises, Crash, End, TypeInv, TypeOK, Chosen
  <2> QED
    BY <2>2, <2>3 DEF TypeInv
<1>5. ASSUME NEW a \in Applies, Mark(a) PROVE TypeInv'
  BY <1>5 DEF Mark, End, TypeInv, TypeOK, Chosen, Ways
<1>6. ASSUME NEW a \in Applies, MarkFails(a) PROVE TypeInv'
  BY <1>6 DEF MarkFails, End, TypeInv, TypeOK, Chosen, Ways
<1>7. CASE UNCHANGED vars
  BY <1>7 DEF vars, TypeInv, TypeOK, Chosen
<1> QED
  BY <1>1, <1>2, <1>3, <1>4, <1>5, <1>6, <1>7 DEF Next, Apply

\* The variables of tokens and applies keep their types, and an apply that goes on has
\* a token that exists (undo.py:75-90, tools/undo.py:135-171).
THEOREM TypeCorrect == Spec => []TypeInv
<1>1. Init => TypeInv
  BY TypeInit
<1>2. TypeInv /\ [Next]_vars => TypeInv'
  BY TypeStep
<1> QED
  BY <1>1, <1>2, PTL DEF Spec

-----------------------------------------------------------------------------
(* Landings                                                                *)

\* A write that named its target ran there.
NamedInv == \A k \in Tokens : orig[k] # None => ran[k] = orig[k]

\* An inverse that landed is of an apply with a token that exists.
LandingInv ==
    \A l \in landings :
        pc[l.by] # "new" /\ tok[l.by] \in Tokens /\ status[tok[l.by]] # "absent"

\* An apply that is about to mark has landed where it should.
MarkInv == \A a \in Applies : pc[a] = "mark" => \E l \in landings : l.by = a /\ OnNamed(l)

LandInv == NamedInv /\ LandingInv /\ MarkInv /\ AppliedMeansLanded

\* A step after the reads and the records changes nothing that an old landing is judged by.
LEMMA LandedKept ==
    ASSUME UNCHANGED <<orig, ran, tok, asked>>, landings \subseteq landings',
           NEW l \in landings
    PROVE  l \in landings' /\ OnNamed(l)' = OnNamed(l)
BY DEF OnNamed

LEMMA LandStep ==
    ASSUME TypeInv, LandInv, [Next]_vars
    PROVE  LandInv'
<1> USE DEF TypeInv, TypeOK
<1>1. ASSUME NEW k \in Tokens, Record(k) PROVE LandInv'
  <2>1. \A l \in landings : tok[l.by] # k
    BY <1>1 DEF Record, LandInv, LandingInv
  <2>2. \A l \in landings : OnNamed(l)' = OnNamed(l)
    BY <1>1, <2>1 DEF Record, LandInv, LandingInv, OnNamed
  <2>3. NamedInv'
    BY <1>1 DEF Record, LandInv, NamedInv
  <2>4. LandingInv'
    BY <1>1, <2>1 DEF Record, LandInv, LandingInv
  <2>5. MarkInv'
    BY <1>1, <2>2 DEF Record, LandInv, MarkInv
  <2>6. AppliedMeansLanded'
    BY <1>1, <2>2 DEF Record, LandInv, AppliedMeansLanded, Landed
  <2> QED
    BY <2>3, <2>4, <2>5, <2>6 DEF LandInv
<1>2. CASE Reconfigure \/ UNCHANGED vars
  BY <1>2 DEF Reconfigure, vars, LandInv, NamedInv, LandingInv, MarkInv, AppliedMeansLanded,
              Landed, OnNamed
<1>3. ASSUME NEW a \in Applies, Fetch(a) PROVE LandInv'
  <2>1. \A l \in landings : l.by \in Applies /\ l.by # a
    BY <1>3 DEF Fetch, LandInv, LandingInv
  <2>2. \A l \in landings : tok'[l.by] = tok[l.by] /\ pc'[l.by] = pc[l.by] /\ asked'[l.by] = asked[l.by]
    BY <1>3, <2>1 DEF Fetch, End
  <2>3. UNCHANGED <<status, orig, ran, landings>>
    BY <1>3 DEF Fetch
  <2>4. \A l \in landings : OnNamed(l)' = OnNamed(l)
    BY <2>2, <2>3 DEF OnNamed
  <2>5. NamedInv' /\ LandingInv'
    BY <2>2, <2>3 DEF LandInv, NamedInv, LandingInv
  <2>6. \A b \in Applies : pc'[b] = "mark" => pc[b] = "mark"
    BY <1>3 DEF Fetch, End
  <2>7. MarkInv'
    BY <2>3, <2>4, <2>6 DEF LandInv, MarkInv
  <2>8. AppliedMeansLanded'
    BY <2>2, <2>3, <2>4 DEF LandInv, AppliedMeansLanded, Landed
  <2> QED
    BY <2>5, <2>7, <2>8 DEF LandInv
<1>4. ASSUME NEW a \in Applies,
             InverseOk(a) \/ InverseError(a) \/ InverseRaises(a) \/ Crash(a) \/ MarkFails(a)
      PROVE  LandInv'
  <2> DEFINE new == [by |-> a, on |-> Destination(a)]
  <2>1. UNCHANGED <<status, orig, ran, tok, asked>>
    BY <1>4 DEF InverseOk, InverseError, InverseRaises, Crash, MarkFails
  <2>2. pc[a] \in {"dispatch", "mark"} /\ tok[a] \in Tokens /\ status[tok[a]] # "absent"
    BY <1>4 DEF InverseOk, InverseError, InverseRaises, Crash, MarkFails, Chosen
  <2>3. /\ pc'[a] # "new"
        /\ \A b \in Applies \ {a} : pc'[b] = pc[b]
    BY <1>4 DEF InverseOk, InverseError, InverseRaises, Crash, MarkFails, End
  <2>4. landings \subseteq landings' /\ landings' \subseteq landings \cup {new}
    BY <1>4 DEF InverseOk, InverseError, InverseRaises, Crash, MarkFails, Lands
  <2>5. \A l \in landings : l \in landings' /\ OnNamed(l)' = OnNamed(l)
    BY <2>1, <2>4, LandedKept
  <2>6. NamedInv'
    BY <2>1 DEF LandInv, NamedInv
  <2>7. LandingInv'
    BY <2>1, <2>2, <2>3, <2>4 DEF LandInv, LandingInv
  <2>8. MarkInv'
    <3>1. ASSUME NEW b \in Applies \ {a}, pc'[b] = "mark"
          PROVE  \E l \in landings' : l.by = b /\ OnNamed(l)'
      BY <2>3, <2>5, <3>1 DEF LandInv, MarkInv
    <3>2. ASSUME pc'[a] = "mark" PROVE \E l \in landings' : l.by = a /\ OnNamed(l)'
      <4>1. InverseOk(a)
        BY <1>4, <3>2 DEF InverseError, InverseRaises, Crash, MarkFails, End
      <4>2. PICK m : m \in landings' /\ m = new
        BY <4>1 DEF InverseOk, Lands
      <4>3. m.by = a /\ m.on = Destination(a)
        BY <4>2
      <4>4. asked[a] = None /\ orig[tok[a]] # None => Destination(a) = ran[tok[a]]
        BY <2>2 DEF Destination, LandInv, NamedInv
      <4>5. OnNamed(m)'
        BY <2>1, <4>3, <4>4 DEF OnNamed
      <4> QED
        BY <4>2, <4>5, <4>3
    <3> QED
      BY <3>1, <3>2 DEF MarkInv
  <2>9. AppliedMeansLanded'
    BY <2>1, <2>5 DEF LandInv, AppliedMeansLanded, Landed
  <2> QED
    BY <2>6, <2>7, <2>8, <2>9 DEF LandInv
<1>5. ASSUME NEW a \in Applies, Mark(a) PROVE LandInv'
  <2>1. UNCHANGED <<orig, ran, tok, asked, landings>>
    BY <1>5 DEF Mark
  <2>2. \A l \in landings : l \in landings' /\ OnNamed(l)' = OnNamed(l)
    BY <2>1, LandedKept
  <2>3. tok[a] \in Tokens
    BY <1>5 DEF Mark, Chosen
  <2>4. \E l \in landings : l.by = a /\ OnNamed(l)
    BY <1>5 DEF Mark, LandInv, MarkInv
  <2>5. NamedInv'
    BY <2>1 DEF LandInv, NamedInv
  <2>6. LandingInv'
    BY <1>5, <2>1 DEF Mark, End, LandInv, LandingInv
  <2>7. MarkInv'
    BY <1>5, <2>1, <2>2 DEF Mark, End, LandInv, MarkInv
  <2>8. AppliedMeansLanded'
    BY <1>5, <2>1, <2>2, <2>3, <2>4 DEF Mark, LandInv, AppliedMeansLanded, Landed
  <2> QED
    BY <2>5, <2>6, <2>7, <2>8 DEF LandInv
<1> QED
  BY <1>1, <1>2, <1>3, <1>4, <1>5 DEF Next, Apply

\* A token is used up only by an inverse that took effect, on the server its write named
\* unless the caller of the apply named another (tools/undo.py:94-107, 182-194).
THEOREM UsedUpMeansLanded == Spec => []AppliedMeansLanded
<1>1. Init => LandInv
  BY DEF Init, LandInv, NamedInv, LandingInv, MarkInv, AppliedMeansLanded
<1>2. TypeInv /\ LandInv /\ [Next]_vars => LandInv'
  BY LandStep
<1>3. LandInv => AppliedMeansLanded
  BY DEF LandInv
<1> QED
  BY <1>1, <1>2, <1>3, TypeCorrect, PTL DEF Spec

-----------------------------------------------------------------------------
(* Late applies                                                            *)

\* The apply passed the checks.
Passed(a) == pc[a] \in {"dispatch", "mark"} \/ \E l \in landings : l.by = a

\* An apply that reports success is over, and its token is used up.
SuccessInv ==
    \A a \in Applies : ended[a] = "applied" =>
        pc[a] = "done" /\ tok[a] \in Tokens /\ status[tok[a]] = "applied"

\* Of the applies that were over when a passed its checks, none has used up its token.
ReadInv ==
    \A a \in Applies : Passed(a) =>
        \A b \in seen[a] : pc[b] = "done" /\ (tok[b] = tok[a] => ended[b] # "applied")

LateInv == LandingInv /\ SuccessInv /\ ReadInv

LEMMA LateStep ==
    ASSUME TypeInv, LandInv, LateInv, [Next]_vars
    PROVE  LateInv'
<1> USE DEF TypeInv, TypeOK
<1>0. LandingInv'
  BY LandStep DEF LandInv
<1>1. ASSUME NEW k \in Tokens, Record(k) PROVE SuccessInv' /\ ReadInv'
  BY <1>1 DEF Record, LateInv, SuccessInv, ReadInv, Passed
<1>2. CASE Reconfigure \/ UNCHANGED vars
  BY <1>0, <1>2 DEF Reconfigure, vars, LateInv, SuccessInv, ReadInv, Passed
<1>3. ASSUME NEW a \in Applies, Fetch(a) PROVE SuccessInv' /\ ReadInv'
  <2>1. /\ UNCHANGED <<status, landings>>
        /\ pc[a] = "new"
        /\ ended'[a] # "applied"
        /\ \A b \in Applies \ {a} : /\ pc'[b] = pc[b] /\ tok'[b] = tok[b]
                                    /\ ended'[b] = ended[b] /\ seen'[b] = seen[b]
    BY <1>3 DEF Fetch, End, LateInv, SuccessInv
  <2>2. SuccessInv'
    BY <2>1 DEF LateInv, SuccessInv
  <2>3. ASSUME NEW b \in Applies \ {a}, Passed(b)', NEW c \in seen'[b]
        PROVE  pc'[c] = "done" /\ (tok'[c] = tok'[b] => ended'[c] # "applied")
    <3>1. Passed(b) /\ c \in seen[b] /\ c \in Applies
      BY <2>1, <2>3 DEF Passed
    <3>2. pc[c] = "done" /\ (tok[c] = tok[b] => ended[c] # "applied")
      BY <3>1 DEF LateInv, ReadInv
    <3> QED
      BY <2>1, <3>1, <3>2
  <2>4. ASSUME Passed(a)', NEW c \in seen'[a]
        PROVE  pc'[c] = "done" /\ (tok'[c] = tok'[a] => ended'[c] # "applied")
    <3>1. c \in Applies /\ pc[c] = "done"
      BY <1>3, <2>4 DEF Fetch
    <3>2. ~\E l \in landings : l.by = a
      BY <2>1 DEF LateInv, LandingInv
    <3>3. pc'[a] \in {"dispatch", "mark"}
      BY <2>1, <2>4, <3>2 DEF Passed
    <3>4. status[tok'[a]] = "recorded"
      BY <1>3, <3>3 DEF Fetch, End, MayApply
    <3> QED
      BY <2>1, <3>1, <3>4 DEF LateInv, SuccessInv
  <2> QED
    BY <2>2, <2>3, <2>4 DEF ReadInv
<1>4. ASSUME NEW a \in Applies,
             \/ InverseOk(a) \/ InverseError(a) \/ InverseRaises(a)
             \/ Crash(a) \/ MarkFails(a) \/ Mark(a)
      PROVE  SuccessInv' /\ ReadInv'
  <2>1. /\ UNCHANGED <<tok, seen>>
        /\ pc[a] \in {"dispatch", "mark"}
        /\ \A b \in Applies \ {a} : pc'[b] = pc[b] /\ ended'[b] = ended[b]
    BY <1>4 DEF InverseOk, InverseError, InverseRaises, Crash, MarkFails, Mark, End
  <2>2. landings' \subseteq landings \cup {[by |-> a, on |-> Destination(a)]}
    BY <1>4 DEF InverseOk, InverseError, InverseRaises, Crash, MarkFails, Mark, Lands
  <2>3. \A k \in Tokens : status[k] = "applied" => status'[k] = "applied"
    BY <1>4 DEF InverseOk, InverseError, InverseRaises, Crash, MarkFails, Mark
  <2>4. ended'[a] = "applied" =>
            pc'[a] = "done" /\ tok[a] \in Tokens /\ status'[tok[a]] = "applied"
    BY <1>4 DEF InverseOk, InverseError, InverseRaises, Crash, MarkFails, Mark, End,
                Chosen, LateInv, SuccessInv
  <2>5. SuccessInv'
    BY <2>1, <2>3, <2>4 DEF LateInv, SuccessInv
  <2>6. ASSUME NEW b \in Applies, Passed(b)', NEW c \in seen'[b]
        PROVE  pc'[c] = "done" /\ (tok'[c] = tok'[b] => ended'[c] # "applied")
    <3>1. Passed(b)
      BY <2>1, <2>2, <2>6 DEF Passed
    <3>2. c \in seen[b] /\ c \in Applies
      BY <2>1, <2>6
    <3>3. pc[c] = "done" /\ (tok[c] = tok[b] => ended[c] # "applied")
      BY <3>1, <3>2 DEF LateInv, ReadInv
    <3>4. c # a
      BY <2>1, <3>3
    <3> QED
      BY <2>1, <3>2, <3>3, <3>4
  <2> QED
    BY <2>5, <2>6 DEF ReadInv
<1> QED
  BY <1>0, <1>1, <1>2, <1>3, <1>4 DEF Next, Apply, LateInv

\* An apply that reads its row after another one reported success changes nothing
\* (tools/undo.py:139-142, undo.py:196-208).
THEOREM LateIsRefused == Spec => []LateApplyRefused
<1>1. Init => LandInv /\ LateInv
  BY DEF Init, LandInv, LateInv, NamedInv, LandingInv, MarkInv, AppliedMeansLanded, SuccessInv,
         ReadInv, Passed
<1>2. TypeInv /\ LandInv /\ LateInv /\ [Next]_vars => LandInv' /\ LateInv'
  BY LandStep, LateStep
<1>3. TypeInv /\ LateInv => LateApplyRefused
  BY DEF TypeInv, TypeOK, LateInv, ReadInv, Passed, LateApplyRefused
<1> QED
  BY <1>1, <1>2, <1>3, TypeCorrect, PTL DEF Spec

-----------------------------------------------------------------------------
(* Jobs                                                                    *)

\* What is proved of the tokens holds with the jobs as well: JobUndo adds to what a step
\* does and nothing to when it may be taken (tools/jobs.py:44-193).
THEOREM JobsAreTokens == JobSpec => Spec
<1>1. JobInit => Init
  BY DEF JobInit
<1>2. [JobNext]_allVars => [Next]_vars
  BY DEF JobNext, Write, Elsewhere, Replay, Next, allVars
<1> QED
  BY <1>1, <1>2, PTL DEF JobSpec, Spec

-----------------------------------------------------------------------------
(* Undoing in reverse                                                      *)

Job == [running : BOOLEAN, enabled : BOOLEAN]

\* The job as the write of token k left it, from what tells of the writes.
Left(b, w, k) == Changed(b[k], w[k])

JobTypes ==
    /\ job \in [Targets -> Job]
    /\ wrote \in [Tokens -> Tools \cup {None}]
    /\ before \in [Tokens -> Job \cup {None}]
    /\ trail \in [Targets -> Seq(Tokens)]

\* A token that exists tells the write it is of.
Told == \A k \in Tokens : status[k] # "absent" => wrote[k] \in Tools /\ before[k] \in Job

\* The writes of a trail have happened.
Happened == \A v \in Targets : \A i \in 1..Len(trail[v]) : status[trail[v][i]] # "absent"

\* Each of them began with what the one before it had left, and the last one left the job
\* as it is.
Chained ==
    \A v \in Targets : \A i \in 1..Len(trail[v]) :
        Left(before, wrote, trail[v][i]) =
            IF i = Len(trail[v]) THEN job[v] ELSE before[trail[v][i + 1]]

TrailInv == JobTypes /\ Told /\ Happened /\ Chained

LEMMA ChangedType ==
    ASSUME NEW j \in Job, NEW tool \in JobTools
    PROVE  Changed(j, tool) \in Job
<1>1. CASE tool \in {"job_start", "job_retry"}
  BY <1>1 DEF Job, Changed
<1>2. CASE tool = "job_stop"
  BY <1>2 DEF Job, Changed
<1>3. CASE tool = "job_enable"
  BY <1>3 DEF Job, Changed
<1>4. CASE tool = "job_disable"
  BY <1>4 DEF Job, Changed
<1>. QED
  BY <1>1, <1>2, <1>3, <1>4 DEF JobTools

\* What a job tool changed its inverse changes back.
LEMMA InverseReverts ==
    ASSUME NEW j \in Job, NEW tool \in JobTools
    PROVE  /\ InverseTool(tool) \in JobTools
           /\ Changed(j, tool) # j => Changed(Changed(j, tool), InverseTool(tool)) = j
<1>0. /\ [j EXCEPT !.running = TRUE] \in Job /\ [j EXCEPT !.running = FALSE] \in Job
      /\ [j EXCEPT !.enabled = TRUE] \in Job /\ [j EXCEPT !.enabled = FALSE] \in Job
  BY DEF Job
<1>1. CASE tool \in {"job_start", "job_retry"}
  <2>1. InverseTool(tool) = "job_stop" /\ Changed(j, tool) = [j EXCEPT !.running = TRUE]
    BY <1>1 DEF InverseTool, Changed
  <2>2. Changed(Changed(j, tool), "job_stop") = [[j EXCEPT !.running = TRUE] EXCEPT !.running = FALSE]
    BY <2>1 DEF Changed
  <2>. QED
    BY <2>1, <2>2 DEF Job, JobTools
<1>2. CASE tool = "job_stop"
  <2>1. InverseTool(tool) = "job_start" /\ Changed(j, tool) = [j EXCEPT !.running = FALSE]
    BY <1>2 DEF InverseTool, Changed
  <2>2. Changed(Changed(j, tool), "job_start") = [[j EXCEPT !.running = FALSE] EXCEPT !.running = TRUE]
    BY <2>1 DEF Changed
  <2>. QED
    BY <2>1, <2>2 DEF Job, JobTools
<1>3. CASE tool = "job_enable"
  <2>1. InverseTool(tool) = "job_disable" /\ Changed(j, tool) = [j EXCEPT !.enabled = TRUE]
    BY <1>3 DEF InverseTool, Changed
  <2>2. Changed(Changed(j, tool), "job_disable") = [[j EXCEPT !.enabled = TRUE] EXCEPT !.enabled = FALSE]
    BY <2>1 DEF Changed
  <2>. QED
    BY <2>1, <2>2 DEF Job, JobTools
<1>4. CASE tool = "job_disable"
  <2>1. InverseTool(tool) = "job_enable" /\ Changed(j, tool) = [j EXCEPT !.enabled = FALSE]
    BY <1>4 DEF InverseTool, Changed
  <2>2. Changed(Changed(j, tool), "job_enable") = [[j EXCEPT !.enabled = FALSE] EXCEPT !.enabled = TRUE]
    BY <2>1 DEF Changed
  <2>. QED
    BY <2>1, <2>2 DEF Job, JobTools
<1>. QED
  BY <1>1, <1>2, <1>3, <1>4 DEF JobTools

LEMMA WriteKeepsTrail ==
    ASSUME TypeInv, TrailInv, NEW k \in Tokens, Write(k)
    PROVE  TrailInv'
<1>1. /\ status[k] = "absent" /\ status' = [status EXCEPT ![k] = "recorded"]
      /\ status \in [Tokens -> {"absent", "recorded", "applied"}]
  BY DEF Write, Record, TypeInv, TypeOK
<1>2. PICK v \in Targets, tool \in Tools :
        /\ job' = [job EXCEPT ![v] = Changed(job[v], tool)]
        /\ wrote' = [wrote EXCEPT ![k] = tool]
        /\ before' = [before EXCEPT ![k] = job[v]]
        /\ trail' = [trail EXCEPT ![v] = Append(trail[v], k)]
  <2>1. PICK named \in Optional(Targets) :
          ran' = [ran EXCEPT ![k] = IF named = None THEN default ELSE named]
    BY DEF Write, Record
  <2>2. ran'[k] \in Targets
    BY <2>1 DEF TypeInv, TypeOK, Optional
  <2>. QED
    BY <2>2 DEF Write
<1>3. tool \in JobTools
  BY JobAssumption
<1>4. job[v] \in Job /\ Changed(job[v], tool) \in Job
  BY <1>3, ChangedType DEF TrailInv, JobTypes
<1>5. /\ trail[v] \in Seq(Tokens) /\ Append(trail[v], k) \in Seq(Tokens)
      /\ Len(trail[v]) \in Nat /\ Len(Append(trail[v], k)) = Len(trail[v]) + 1
      /\ \A i \in 1..Len(trail[v]) : Append(trail[v], k)[i] = trail[v][i]
      /\ Append(trail[v], k)[Len(trail[v]) + 1] = k
  <2>1. trail[v] \in Seq(Tokens)
    BY DEF TrailInv, JobTypes
  <2>. QED
    BY <2>1, AppendProperties, LenProperties
<1>6. JobTypes'
  <2>1. job' \in [Targets -> Job] /\ before' \in [Tokens -> Job \cup {None}]
    BY <1>2, <1>4 DEF TrailInv, JobTypes
  <2>2. wrote' \in [Tokens -> Tools \cup {None}]
    BY <1>2 DEF TrailInv, JobTypes
  <2>3. trail' \in [Targets -> Seq(Tokens)]
    BY <1>2, <1>5 DEF TrailInv, JobTypes
  <2>. QED
    BY <2>1, <2>2, <2>3 DEF JobTypes
<1>7. Told'
  BY <1>1, <1>2, <1>4 DEF TrailInv, JobTypes, Told
<1>8. \A u \in Targets, i \in Nat : i \in 1..Len(trail[u]) =>
        trail[u][i] \in Tokens /\ trail[u][i] # k
  <2>1. ASSUME NEW u \in Targets, NEW i \in 1..Len(trail[u])
        PROVE  trail[u][i] \in Tokens /\ trail[u][i] # k
    <3>1. trail[u] \in Seq(Tokens)
      BY DEF TrailInv, JobTypes
    <3>2. trail[u][i] \in Tokens
      BY <3>1, ElementOfSeq
    <3>. QED
      BY <1>1, <3>2 DEF TrailInv, Happened
  <2>. QED
    BY <2>1
<1>9. \A m \in Tokens \ {k} :
        /\ Left(before', wrote', m) = Left(before, wrote, m)
        /\ before'[m] = before[m] /\ status'[m] = status[m]
  BY <1>1, <1>2 DEF Left, TrailInv, JobTypes
<1>10. /\ Left(before', wrote', k) = Changed(job[v], tool)
       /\ before'[k] = job[v] /\ job'[v] = Changed(job[v], tool)
       /\ status'[k] # "absent"
       /\ trail'[v] = Append(trail[v], k)
       /\ \A u \in Targets \ {v} : trail'[u] = trail[u] /\ job'[u] = job[u]
  BY <1>1, <1>2 DEF Left, TrailInv, JobTypes
<1>11. ASSUME NEW u \in Targets \ {v}, NEW i \in 1..Len(trail'[u])
       PROVE  /\ status'[trail'[u][i]] # "absent"
              /\ Left(before', wrote', trail'[u][i]) =
                   IF i = Len(trail'[u]) THEN job'[u] ELSE before'[trail'[u][i + 1]]
  <2>1. trail'[u] = trail[u] /\ job'[u] = job[u] /\ Len(trail[u]) \in Nat
    BY <1>10, LenProperties DEF TrailInv, JobTypes
  <2>2. trail[u][i] \in Tokens \ {k} /\ (i # Len(trail[u]) => trail[u][i + 1] \in Tokens \ {k})
    BY <1>8, <2>1
  <2>3. Left(before, wrote, trail[u][i]) = IF i = Len(trail[u]) THEN job[u] ELSE before[trail[u][i + 1]]
    BY <2>1 DEF TrailInv, Chained
  <2>4. status[trail[u][i]] # "absent"
    BY <2>1 DEF TrailInv, Happened
  <2>6. Left(before', wrote', trail'[u][i]) = Left(before, wrote, trail[u][i])
    BY <1>9, <2>1, <2>2
  <2>7. Left(before', wrote', trail'[u][i]) = IF i = Len(trail[u]) THEN job[u] ELSE before[trail[u][i + 1]]
    BY <2>3, <2>6
  <2>8. i # Len(trail[u]) => before'[trail[u][i + 1]] = before[trail[u][i + 1]]
    BY <1>9, <2>2
  <2>9. status'[trail'[u][i]] # "absent"
    BY <1>9, <2>1, <2>2, <2>4
  <2>. QED
    BY <2>1, <2>7, <2>8, <2>9
<1>12. ASSUME NEW i \in 1..Len(trail'[v])
       PROVE  /\ status'[trail'[v][i]] # "absent"
              /\ Left(before', wrote', trail'[v][i]) =
                   IF i = Len(trail'[v]) THEN job'[v] ELSE before'[trail'[v][i + 1]]
  <2>1. CASE i = Len(trail[v]) + 1
    <3>1. trail'[v][i] = k /\ Len(trail'[v]) = i
      BY <1>5, <1>10, <2>1
    <3>. QED
      BY <1>10, <3>1
  <2>2. CASE i # Len(trail[v]) + 1
    <3>1. i \in 1..Len(trail[v]) /\ i + 1 \in 1..(Len(trail[v]) + 1) /\ i # Len(trail'[v])
      BY <1>5, <1>10, <2>2
    <3>2. trail'[v][i] = trail[v][i] /\ trail[v][i] \in Tokens \ {k}
      BY <1>5, <1>8, <1>10, <3>1
    <3>4. Left(before', wrote', trail'[v][i]) = Left(before, wrote, trail[v][i])
      BY <1>9, <3>2
    <3>5. Left(before, wrote, trail[v][i]) = IF i = Len(trail[v]) THEN job[v] ELSE before[trail[v][i + 1]]
      BY <3>1 DEF TrailInv, Chained
    <3>6. CASE i = Len(trail[v])
      <4>1. trail'[v][i + 1] = k /\ before'[k] = job[v]
        BY <1>5, <1>10, <3>6
      <4>. QED
        BY <1>1, <1>9, <3>1, <3>2, <3>4, <3>5, <3>6, <4>1 DEF TrailInv, Happened
    <3>7. CASE i # Len(trail[v])
      <4>1. i + 1 \in 1..Len(trail[v])
        BY <1>5, <3>1, <3>7
      <4>2. trail'[v][i + 1] = trail[v][i + 1] /\ trail[v][i + 1] \in Tokens \ {k}
        BY <1>5, <1>8, <1>10, <4>1
      <4>. QED
        BY <1>9, <3>1, <3>2, <3>4, <3>5, <3>7, <4>2 DEF TrailInv, Happened
    <3>. QED
      BY <3>6, <3>7
  <2>. QED
    BY <2>1, <2>2
<1>13. Happened' /\ Chained'
  BY <1>11, <1>12 DEF Happened, Chained
<1>. QED
  BY <1>6, <1>7, <1>13 DEF TrailInv

\* Only an apply that has called its inverse lands.
LEMMA LandingSteps ==
    ASSUME NEW a \in Applies, Apply(a), landings' # landings
    PROVE  pc[a] = "dispatch" /\ UNCHANGED status
BY DEF Apply, Fetch, InverseOk, InverseError, InverseRaises, Mark, MarkFails, Crash

\* An inverse that follows the write of its token takes the job back to what it was.
LEMMA TakesBack ==
    ASSUME TypeInv, TrailInv, NEW a \in Applies, pc[a] = "dispatch",
           Last(Destination(a), tok[a]), ~Idle(tok[a])
    PROVE  Changed(job[Destination(a)], InverseTool(wrote[tok[a]])) = before[tok[a]]
<1>. DEFINE v == Destination(a)  k == tok[a]
<1>1. v \in Targets /\ k \in Tokens /\ status[k] # "absent"
  BY DestinationType DEF TypeInv, Chosen
<1>2. trail[v] \in Seq(Tokens) /\ Len(trail[v]) \in Nat /\ Len(trail[v]) # 0
  <2>1. trail[v] \in Seq(Tokens)
    BY <1>1 DEF TrailInv, JobTypes
  <2>. QED
    BY <2>1, LenProperties, EmptySeq DEF Last
<1>3. Left(before, wrote, k) = job[v]
  <2>1. Len(trail[v]) \in 1..Len(trail[v]) /\ trail[v][Len(trail[v])] = k
    BY <1>2 DEF Last
  <2>. QED
    BY <1>1, <2>1 DEF TrailInv, Chained
<1>4. before[k] \in Job /\ wrote[k] \in JobTools
  BY <1>1, JobAssumption DEF TrailInv, Told
<1>. QED
  BY <1>3, <1>4, InverseReverts DEF Left, Idle

LEMMA ReplayKeepsTrail ==
    ASSUME TypeInv, TrailInv, NEW a \in Applies, Replay(a)
    PROVE  TrailInv'
<1>. DEFINE v == Destination(a)  k == tok[a]
<1>0. UNCHANGED <<wrote, before>> /\ Apply(a)
  BY DEF Replay
<1>1. CASE landings' = landings
  <2>1. \A m \in Tokens : status'[m] # "absent" <=> status[m] # "absent"
    BY <1>0 DEF Apply, Fetch, InverseOk, InverseError, InverseRaises, Mark, MarkFails, Crash,
                TypeInv, TypeOK, Chosen
  <2>2. UNCHANGED <<job, trail>>
    BY <1>1 DEF Replay
  <2>3. \A u \in Targets : \A i \in 1..Len(trail[u]) : trail[u][i] \in Tokens
    <3>1. \A u \in Targets : trail[u] \in Seq(Tokens)
      BY DEF TrailInv, JobTypes
    <3>. QED
      BY <3>1, ElementOfSeq
  <2>4. JobTypes' /\ Told'
    BY <1>0, <2>1, <2>2 DEF TrailInv, JobTypes, Told
  <2>5. Happened' /\ Chained'
    BY <1>0, <2>1, <2>2, <2>3 DEF TrailInv, Happened, Chained
  <2>. QED
    BY <2>4, <2>5 DEF TrailInv
<1>2. CASE landings' # landings
  <2>1. pc[a] = "dispatch" /\ UNCHANGED status
    BY <1>0, <1>2, LandingSteps
  <2>2. v \in Targets /\ k \in Tokens /\ status[k] # "absent"
    BY <2>1, DestinationType DEF TypeInv, Chosen
  <2>3. /\ job' = [job EXCEPT ![v] = Changed(job[v], InverseTool(wrote[k]))]
        /\ trail' = [trail EXCEPT ![v] = IF Last(v, k) /\ ~Idle(k)
                                           THEN SubSeq(trail[v], 1, Len(trail[v]) - 1) ELSE <<>>]
    BY <1>2 DEF Replay
  <2>4. wrote[k] \in JobTools
    BY <2>2, JobAssumption DEF TrailInv, Told
  <2>. HIDE DEF v, k
  <2>5. job[v] \in Job /\ trail[v] \in Seq(Tokens) /\ Len(trail[v]) \in Nat
    BY <2>2, LenProperties DEF TrailInv, JobTypes
  <2>6. job' \in [Targets -> Job]
    <3>1. Changed(job[v], InverseTool(wrote[k])) \in Job
      BY <2>4, <2>5, InverseReverts, ChangedType
    <3>. QED
      BY <2>3, <3>1 DEF TrailInv, JobTypes
  <2>7. \A u \in Targets \ {v} : job'[u] = job[u] /\ trail'[u] = trail[u]
    BY <2>3 DEF TrailInv, JobTypes
  <2>8. ASSUME NEW u \in Targets \ {v}, NEW i \in 1..Len(trail'[u])
        PROVE  /\ status'[trail'[u][i]] # "absent"
               /\ Left(before', wrote', trail'[u][i]) =
                    IF i = Len(trail'[u]) THEN job'[u] ELSE before'[trail'[u][i + 1]]
    BY <1>0, <2>1, <2>7 DEF TrailInv, Happened, Chained
  <2>9. /\ trail'[v] \in Seq(Tokens)
        /\ \A i \in 1..Len(trail'[v]) :
             /\ status'[trail'[v][i]] # "absent"
             /\ Left(before', wrote', trail'[v][i]) =
                  IF i = Len(trail'[v]) THEN job'[v] ELSE before'[trail'[v][i + 1]]
    <3>1. CASE Last(v, k) /\ ~Idle(k)
      <4>. DEFINE n == Len(trail[v])
      <4>1. job'[v] = before[k]
        <5>1. Changed(job[v], InverseTool(wrote[k])) = before[k]
          BY <2>1, <3>1, TakesBack DEF v, k
        <5>. QED
          BY <2>2, <2>3, <5>1 DEF TrailInv, JobTypes
      <4>2. n \in Nat /\ n # 0 /\ trail[v][n] = k
        BY <2>5, <3>1, EmptySeq DEF Last
      <4>3. trail'[v] = SubSeq(trail[v], 1, n - 1)
        BY <2>2, <2>3, <3>1 DEF TrailInv, JobTypes
      <4>. HIDE DEF n
      <4>4. /\ trail'[v] \in Seq(Tokens) /\ Len(trail'[v]) = n - 1
            /\ \A i \in 1..(n - 1) : trail'[v][i] = trail[v][i]
        BY <2>5, <4>2, <4>3, SubSeqProperties DEF n
      <4>5. ASSUME NEW i \in 1..(n - 1)
            PROVE  /\ status'[trail'[v][i]] # "absent"
                   /\ Left(before', wrote', trail'[v][i]) =
                        IF i = n - 1 THEN job'[v] ELSE before'[trail'[v][i + 1]]
        <5>1. i \in 1..n /\ i # n /\ (i = n - 1 => i + 1 = n)
              /\ (i # n - 1 => i + 1 \in 1..(n - 1))
          BY <4>2
        <5>2. status[trail[v][i]] # "absent"
              /\ Left(before, wrote, trail[v][i]) = before[trail[v][i + 1]]
          BY <2>2, <5>1 DEF TrailInv, Happened, Chained, n
        <5>3. i = n - 1 => trail[v][i + 1] = k
          BY <4>2, <5>1
        <5>4. i # n - 1 => trail'[v][i + 1] = trail[v][i + 1]
          BY <4>4, <5>1
        <5>. QED
          BY <1>0, <2>1, <4>1, <4>4, <5>2, <5>3, <5>4
      <4>. QED
        BY <4>4, <4>5
    <3>2. CASE ~(Last(v, k) /\ ~Idle(k))
      <4>1. trail'[v] = <<>>
        BY <2>2, <2>3, <3>2 DEF TrailInv, JobTypes
      <4>. QED
        BY <4>1
    <3>. QED
      BY <3>1, <3>2
  <2>10. trail' \in [Targets -> Seq(Tokens)]
    BY <2>3, <2>7, <2>9 DEF TrailInv, JobTypes
  <2>11. JobTypes' /\ Told'
    BY <1>0, <2>1, <2>6, <2>10 DEF TrailInv, JobTypes, Told
  <2>12. Happened' /\ Chained'
    BY <2>8, <2>9 DEF Happened, Chained
  <2>. QED
    BY <2>11, <2>12 DEF TrailInv
<1>. QED
  BY <1>1, <1>2

LEMMA TrailStep ==
    ASSUME TypeInv, TrailInv, [JobNext]_allVars
    PROVE  TrailInv'
<1>1. ASSUME NEW k \in Tokens, Write(k) PROVE TrailInv'
  BY <1>1, WriteKeepsTrail
<1>2. ASSUME NEW v \in Targets, Elsewhere(v) PROVE TrailInv'
  <2>1. PICK j \in Jobs : job' = [job EXCEPT ![v] = j]
    BY <1>2 DEF Elsewhere
  <2>2. trail' = [trail EXCEPT ![v] = <<>>] /\ UNCHANGED <<status, wrote, before>>
    BY <1>2 DEF Elsewhere, vars
  <2>3. j \in Job
    BY JobAssumption DEF Job
  <2>4. JobTypes' /\ Told'
    <3>1. job' \in [Targets -> Job]
      BY <2>1, <2>3 DEF TrailInv, JobTypes
    <3>2. <<>> \in Seq(Tokens)
      OBVIOUS
    <3>3. trail' \in [Targets -> Seq(Tokens)]
      BY <2>2, <3>2 DEF TrailInv, JobTypes
    <3>. QED
      BY <2>2, <3>1, <3>3 DEF TrailInv, JobTypes, Told
  <2>5. trail'[v] = <<>> /\ \A u \in Targets \ {v} : trail'[u] = trail[u] /\ job'[u] = job[u]
    BY <2>1, <2>2 DEF TrailInv, JobTypes
  <2>6. Happened' /\ Chained'
    BY <2>2, <2>5 DEF TrailInv, Happened, Chained
  <2>. QED
    BY <2>4, <2>6 DEF TrailInv
<1>3. CASE (Reconfigure /\ UNCHANGED jobVars) \/ UNCHANGED allVars
  BY <1>3 DEF Reconfigure, allVars, vars, jobVars, TrailInv, JobTypes, Told, Happened, Chained
<1>4. ASSUME NEW a \in Applies, Replay(a) PROVE TrailInv'
  BY <1>4, ReplayKeepsTrail
<1>. QED
  BY <1>1, <1>2, <1>3, <1>4 DEF JobNext

\* A landing in which an apply leaves its call is a step of that apply.
LEMMA FollowsIsReplay ==
    ASSUME TypeInv, NEW a \in Applies, Follows(a), [JobNext]_allVars
    PROVE  Replay(a)
<1>1. landings' # landings /\ pc[a] = "dispatch" /\ pc'[a] # "dispatch"
  BY DEF Follows
<1>2. PICK b \in Applies : Replay(b)
  BY <1>1 DEF JobNext, Write, Record, Elsewhere, Reconfigure, allVars, vars
<1>3. \A c \in Applies \ {b} : pc'[c] = pc[c]
  BY <1>2 DEF Replay, Apply, Fetch, InverseOk, InverseError, InverseRaises, Mark, MarkFails,
              Crash, End, TypeInv, TypeOK
<1>. QED
  BY <1>1, <1>2, <1>3

\* Writes that changed the job and that are undone in reverse order take it back step by
\* step to what it was before each of them (tools/jobs.py:5-7, 44-193).
THEOREM ReverseRestores == JobSpec => UndoneInReverse
<1>. DEFINE Back == \A a \in Applies :
                      Follows(a) /\ ~Idle(tok[a]) => job'[Destination(a)] = before[tok[a]]
<1>1. JobInit => TrailInv
  <2>. SUFFICES ASSUME JobInit PROVE TrailInv
    OBVIOUS
  <2>1. JobTypes
    <3>1. job \in [Targets -> Job]
      BY JobAssumption DEF JobInit, Job
    <3>2. <<>> \in Seq(Tokens)
      OBVIOUS
    <3>3. trail \in [Targets -> Seq(Tokens)]
      BY <3>2 DEF JobInit
    <3>. QED
      BY <3>1, <3>3 DEF JobInit, JobTypes
  <2>2. Told
    BY DEF JobInit, Init, Told
  <2>3. Happened /\ Chained
    BY DEF JobInit, Happened, Chained
  <2>. QED
    BY <2>1, <2>2, <2>3 DEF TrailInv
<1>2. TypeInv /\ TrailInv /\ [JobNext]_allVars => TrailInv'
  BY TrailStep
<1>3. ASSUME TypeInv, TrailInv, [JobNext]_allVars, NEW a \in Applies,
             Follows(a), ~Idle(tok[a])
      PROVE  job'[Destination(a)] = before[tok[a]]
  <2>1. Replay(a) /\ landings' # landings /\ pc[a] = "dispatch"
    BY <1>3, FollowsIsReplay DEF Follows
  <2>2. job' = [job EXCEPT ![Destination(a)] =
                  Changed(job[Destination(a)], InverseTool(wrote[tok[a]]))]
    BY <2>1 DEF Replay
  <2>3. Changed(job[Destination(a)], InverseTool(wrote[tok[a]])) = before[tok[a]]
    BY <1>3, <2>1, TakesBack DEF Follows
  <2>4. Destination(a) \in Targets
    BY <1>3, <2>1, DestinationType
  <2>. QED
    BY <1>3, <2>2, <2>3, <2>4 DEF TrailInv, JobTypes
<1>4. TypeInv /\ TrailInv /\ [JobNext]_allVars => [Back]_allVars
  BY <1>3
<1>. HIDE DEF Back
<1>5. JobSpec => [][Back]_allVars
  BY <1>1, <1>2, <1>4, JobsAreTokens, TypeCorrect, PTL DEF JobSpec
<1>. QED
  BY <1>5 DEF UndoneInReverse, Back

=============================================================================
