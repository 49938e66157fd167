-------------------------- MODULE Triggers_proofs --------------------------
(***************************************************************************)
(* What TLAPS proves of Triggers, for any number of instances, deliveries, *)
(* templates and projects, and any bounds.                                 *)
(***************************************************************************)
EXTENDS Triggers, FiniteSetTheorems, TLAPS

Working  == [step : Steps, at : 0..MaxTime, todo : Seq(Entry)]
WorkType == Working \cup {Idle}

\* The steps that look at an entry.
Acting == {"check", "project", "insert", "create", "fail", "complete", "advance"}

WorkOK ==
  /\ work \in [Workers -> WorkType]
  /\ \A w \in Workers : work[w].step \in Acting => work[w].todo # <<>>

TypeInv == TypeOK /\ WorkOK

\* Sequences that are not empty.
LEMMA HasElements ==
  ASSUME NEW S, NEW q \in Seq(S), Len(q) > 0
  PROVE  q # <<>>
<1>1. Len(<<>>) = 0
  OBVIOUS
<1> QED
  BY <1>1

LEMMA LongTail ==
  ASSUME NEW S, NEW q \in Seq(S), Len(q) > 1
  PROVE  Tail(q) \in Seq(S) /\ Tail(q) # <<>>
<1>1. Len(q) \in Nat
  OBVIOUS
<1>2. q # <<>>
  BY <1>1, HasElements
<1>3. Tail(q) \in Seq(S) /\ Len(Tail(q)) = Len(q) - 1
  BY <1>2
<1>4. Len(Tail(q)) > 0
  BY <1>1, <1>3
<1> QED
  BY <1>3, <1>4, HasElements

LEMMA IdleApart ==
  /\ \A x \in WorkType : x # Idle => x \in Working
  /\ \A x \in WorkType : x.step \in Steps => x # Idle
  /\ Idle.step = "idle"
  BY DEF WorkType, Working, Idle, Steps

\* What a worker that is past its list looks at is an entry.
LEMMA EntryType ==
  ASSUME WorkOK, NEW w \in Workers, work[w].step \in Acting
  PROVE  /\ work[w] \in Working
         /\ work[w].todo # <<>>
         /\ Current(w) \in Entry
         /\ Occasion(w) \in Occasions
<1>1. work[w] \in Working
  BY IdleApart DEF WorkOK, Acting, Steps
<1>2. work[w].todo # <<>> /\ work[w].todo \in Seq(Entry)
  BY <1>1 DEF WorkOK, Working
<1>3. Current(w) \in Entry
  BY <1>2 DEF Current
<1> QED
  BY <1>1, <1>2, <1>3 DEF Occasion, Entry

\* The end of a worker's list, or of its work.
LEMMA EndsStep ==
  ASSUME WorkOK, NEW w \in Workers, work[w] # Idle, Ends(w)
  PROVE  /\ WorkOK'
         /\ work'[w].step \in {"release", "idle"}
         /\ \A v \in Workers \ {w} : work'[v] = work[v]
<1>1. work[w] \in Working
  BY IdleApart DEF WorkOK
<1>2. CASE w \in Instances
  <2> DEFINE r == [work[w] EXCEPT !.step = "release", !.todo = <<>>]
  <2>0. <<>> \in Seq(Entry) /\ "release" \in Steps
    BY DEF Steps
  <2>1. r \in Working /\ r.step = "release"
    BY <1>1, <2>0 DEF Working
  <2>2. work' = [work EXCEPT ![w] = r]
    BY <1>2 DEF Ends
  <2> HIDE DEF r
  <2> QED
    BY <2>1, <2>2 DEF WorkOK, WorkType, Acting
<1>3. CASE w \notin Instances
  <2>1. work' = [work EXCEPT ![w] = Idle]
    BY <1>3 DEF Ends
  <2> QED
    BY <2>1, IdleApart DEF WorkOK, WorkType, Acting
<1> QED
  BY <1>2, <1>3

\* Another step with the same entry.
LEMMA GoesStep ==
  ASSUME WorkOK, NEW w \in Workers, work[w].step \in Acting, NEW s \in Acting, Goes(w, s)
  PROVE  /\ WorkOK'
         /\ work'[w].step = s
         /\ work'[w].todo = work[w].todo
         /\ \A v \in Workers \ {w} : work'[v] = work[v]
<1> DEFINE r == [work[w] EXCEPT !.step = s]
<1>1. r \in Working /\ r.step = s /\ r.todo = work[w].todo /\ r.todo # <<>>
  BY EntryType DEF Working, Acting, Steps
<1>2. work' = [work EXCEPT ![w] = r]
  BY DEF Goes
<1> HIDE DEF r
<1> QED
  BY <1>1, <1>2 DEF WorkOK, WorkType

\* The next entry, or the end.
LEMMA TakesNextStep ==
  ASSUME WorkOK, NEW w \in Workers, work[w].step \in Acting, TakesNext(w)
  PROVE  /\ WorkOK'
         /\ work'[w].step \in {"release", "idle", "check"}
         /\ \A v \in Workers \ {w} : work'[v] = work[v]
<1>1. work[w] \in Working /\ work[w].todo # <<>> /\ work[w] # Idle
  BY EntryType, IdleApart DEF Acting
<1>2. CASE Len(work[w].todo) > 1
  <2> DEFINE r == [work[w] EXCEPT !.step = "check", !.todo = Tail(work[w].todo)]
  <2>0. work[w].todo \in Seq(Entry)
    BY <1>1 DEF Working
  <2>1. Tail(work[w].todo) \in Seq(Entry) /\ Tail(work[w].todo) # <<>>
    BY <1>2, <2>0, LongTail
  <2>2. r \in Working /\ r.step = "check" /\ r.todo # <<>>
    BY <1>1, <2>1 DEF Working, Steps
  <2>5. work' = [work EXCEPT ![w] = r]
    BY <1>2 DEF TakesNext, Begins
  <2> HIDE DEF r
  <2> QED
    BY <2>2, <2>5 DEF WorkOK, WorkType
<1>3. CASE ~(Len(work[w].todo) > 1)
  BY <1>1, <1>3, EndsStep DEF TakesNext
<1> QED
  BY <1>2, <1>3

LEMMA AnsweredStep ==
  ASSUME WorkOK, NEW w \in Workers, work[w].step \in Acting, Answered(w)
  PROVE  /\ WorkOK'
         /\ work'[w].step \in {"release", "idle", "check", "advance"}
         /\ \A v \in Workers \ {w} : work'[v] = work[v]
<1>1. CASE w \in Instances
  <2>1. Goes(w, "advance") /\ "advance" \in Acting
    BY <1>1 DEF Answered, Acting
  <2> QED
    BY <2>1, GoesStep
<1>2. CASE w \notin Instances
  BY <1>2, TakesNextStep DEF Answered
<1> QED
  BY <1>1, <1>2

-----------------------------------------------------------------------------
\* The steps that leave the tables alone.

\* The list that a job has selected is one of entries.
LEMMA ListDueStep ==
  ASSUME TypeInv, NEW i \in Instances, ListDue(i)
  PROVE  /\ WorkOK'
         /\ work'[i].step \in {"release", "check"}
         /\ \A v \in Workers \ {i} : work'[v] = work[v]
<1> USE TriggersAssumption
<1> DEFINE due == {t \in Scheduled : DueAt(t, work[i].at)}
<1>1. i \in Workers /\ work[i] \in Working
  BY IdleApart DEF ListDue, At, Workers, TypeInv, WorkOK, Steps
<1>0. PICK size \in 0..Batch : \E listed \in [1..size -> due] :
        IF size = 0
        THEN Ends(i)
        ELSE Begins(i, [n \in 1..size |->
               [of |-> Key(i, listed[n]), project |-> config[listed[n]]]])
  BY DEF ListDue
<1>2. PICK listed \in [1..size -> due] :
        IF size = 0
        THEN Ends(i)
        ELSE Begins(i, [n \in 1..size |->
               [of |-> Key(i, listed[n]), project |-> config[listed[n]]]])
  BY <1>0
<1>3. CASE size = 0
  <2>1. Ends(i) /\ work[i] # Idle
    BY <1>1, <1>2, <1>3, IdleApart DEF ListDue, At
  <2>2. work'[i].step = "release"
    BY <1>1, <2>1 DEF Ends, TypeInv, WorkOK, Working
  <2> QED
    BY <1>1, <2>1, <2>2, EndsStep DEF TypeInv
<1>4. CASE size # 0
  <2> DEFINE todo == [n \in 1..size |-> [of |-> Key(i, listed[n]), project |-> config[listed[n]]]]
             r    == [work[i] EXCEPT !.step = "check", !.todo = todo]
  <2>1. size \in Nat
    OBVIOUS
  <2>2. ASSUME NEW n \in 1..size
        PROVE  [of |-> Key(i, listed[n]), project |-> config[listed[n]]] \in Entry
    <3>1. listed[n] \in due
      OBVIOUS
    <3>2. listed[n] \in Scheduled /\ next[listed[n]] # None
      BY <3>1 DEF DueAt
    <3>3. next[listed[n]] \in Times /\ config[listed[n]] \in Configs
      BY <3>2 DEF TypeInv, TypeOK, Templates
    <3>4. Key(i, listed[n]) \in Occasions
      BY <3>2, <3>3 DEF Key, Occasions
    <3> QED
      BY <3>3, <3>4 DEF Entry
  <2>3. todo \in [1..size -> Entry]
    BY <2>2
  <2>4. todo \in Seq(Entry) /\ Len(todo) = size
    BY <2>1, <2>3
  <2>5. todo # <<>>
    BY <1>4, <2>4
  <2> HIDE DEF todo
  <2>6. r \in Working /\ r.step = "check" /\ r.todo # <<>>
    BY <1>1, <2>4, <2>5 DEF Working, Steps
  <2>7. work' = [work EXCEPT ![i] = r]
    BY <1>2, <1>4 DEF Begins, todo
  <2> HIDE DEF r
  <2> QED
    BY <1>1, <2>6, <2>7 DEF TypeInv, WorkOK, WorkType
<1> QED
  BY <1>3, <1>4

\* So is the list of a delivery.
LEMMA DeliverStep ==
  ASSUME TypeInv, NEW d \in Deliveries, Deliver(d)
  PROVE  /\ WorkOK'
         /\ work'[d].step = "check"
         /\ \A v \in Workers \ {d} : work'[v] = work[v]
<1> USE TriggersAssumption
<1> DEFINE size == Cardinality(OnIssue \cap templates)
<1>1. PICK listed \in [1..size -> OnIssue \cap templates] :
        work' = [work EXCEPT ![d] =
          [step |-> "check", at |-> 0,
           todo |-> [n \in 1..size |->
             [of |-> <<listed[n], Issue>>, project |-> config[listed[n]]]]]]
  BY DEF Deliver
<1>2. size \in Nat /\ size > 0
  <2>1. IsFiniteSet(OnIssue \cap templates)
    BY FS_Subset
  <2> QED
    BY <2>1, FS_CardinalityType DEF Deliver
<1> HIDE DEF size
<1> DEFINE todo == [n \in 1..size |-> [of |-> <<listed[n], Issue>>, project |-> config[listed[n]]]]
           r    == [step |-> "check", at |-> 0, todo |-> todo]
<1>3. ASSUME NEW n \in 1..size
      PROVE  [of |-> <<listed[n], Issue>>, project |-> config[listed[n]]] \in Entry
  <2>1. listed[n] \in OnIssue
    BY <1>1
  <2>2. config[listed[n]] \in Configs /\ <<listed[n], Issue>> \in Occasions
    BY <2>1 DEF TypeInv, TypeOK, Templates, Occasions
  <2> QED
    BY <2>2 DEF Entry
<1>4. todo \in [1..size -> Entry]
  BY <1>3
<1>5. todo \in Seq(Entry) /\ Len(todo) = size
  BY <1>2, <1>4
<1>6. todo # <<>>
  BY <1>2, <1>5, HasElements
<1>7. work' = [work EXCEPT ![d] = r]
  BY <1>1
<1> HIDE DEF todo
<1>8. r \in Working /\ r.step = "check" /\ r.todo # <<>>
  BY <1>5, <1>6 DEF Working, Steps
<1> HIDE DEF r
<1> QED
  BY <1>7, <1>8 DEF TypeInv, WorkOK, WorkType, Workers

\* A statement that fails, or a process that stops.
LEMMA FaultStep ==
  ASSUME TypeInv, NEW w \in Workers, StatementFails(w) \/ Crash(w)
  PROVE  /\ WorkOK'
         /\ work'[w].step \in {"release", "idle", "fail"}
         /\ work'[w].step = "fail" => work[w].step = "create" /\ work'[w].todo = work[w].todo
         /\ \A v \in Workers \ {w} : work'[v] = work[v]
<1> USE DEF TypeInv
<1>1. ASSUME work' = [work EXCEPT ![w] = Idle]
      PROVE  /\ WorkOK'
             /\ work'[w].step = "idle"
             /\ \A v \in Workers \ {w} : work'[v] = work[v]
  BY <1>1, IdleApart DEF WorkOK, WorkType, Acting
<1>2. CASE StatementFails(w) /\ At(w, "create")
  <2>1. work[w].step = "create" /\ "fail" \in Acting /\ work[w].step \in Acting
    BY <1>2 DEF At, Acting
  <2>2. Goes(w, "fail")
    BY <1>2 DEF StatementFails, At
  <2> QED
    BY <2>1, <2>2, GoesStep
<1>3. CASE StatementFails(w) /\ At(w, "release")
  BY <1>1, <1>3 DEF StatementFails, At
<1>4. CASE StatementFails(w) /\ ~At(w, "create") /\ ~At(w, "release")
  <2>1. Ends(w) /\ work[w] # Idle
    BY <1>4 DEF StatementFails
  <2> QED
    BY <2>1, EndsStep
<1>5. CASE Crash(w)
  BY <1>1, <1>5 DEF Crash
<1> QED
  BY <1>2, <1>3, <1>4, <1>5

\* The lock: its holder starts with an empty list.
LEMMA LockStep ==
  ASSUME TypeInv, NEW i \in Instances, Acquire(i) \/ Release(i)
  PROVE  /\ WorkOK'
         /\ work'[i].step \in {"list", "idle"}
         /\ \A v \in Workers \ {i} : work'[v] = work[v]
<1> USE TriggersAssumption DEF TypeInv, Workers
<1>1. CASE Acquire(i)
  <2> DEFINE r == [step |-> "list", at |-> now, todo |-> <<>>]
  <2>0. <<>> \in Seq(Entry)
    OBVIOUS
  <2>1. r \in Working /\ r.step = "list"
    BY <2>0 DEF Working, Steps, TypeOK
  <2>2. work' = [work EXCEPT ![i] = r]
    BY <1>1 DEF Acquire
  <2> HIDE DEF r
  <2> QED
    BY <2>1, <2>2 DEF WorkOK, WorkType, Acting
<1>2. CASE Release(i)
  <2>1. work' = [work EXCEPT ![i] = Idle]
    BY <1>2 DEF Release
  <2> QED
    BY <2>1, IdleApart DEF WorkOK, WorkType, Acting
<1> QED
  BY <1>1, <1>2

\* A schedule is advanced.
LEMMA AdvanceStep ==
  ASSUME TypeInv, NEW i \in Instances, Advance(i)
  PROVE  /\ WorkOK'
         /\ work'[i].step \in {"release", "idle", "check"}
         /\ \A v \in Workers \ {i} : work'[v] = work[v]
         /\ next' \in [Scheduled -> Times \cup {None}]
<1> USE TriggersAssumption DEF TypeInv, Workers
<1>1. work[i].step \in Acting /\ work[i] # Idle
  BY IdleApart DEF Advance, At, Acting
<1>2. next' \in [Scheduled -> Times \cup {None}]
  <2>1. work[i].at \in 0..MaxTime
    BY <1>1, EntryType DEF Working
  <2>2. work[i].at + Interval \in Times
    BY <2>1 DEF Times
  <2> QED
    BY <2>2 DEF Advance, TypeOK
<1>3. Ends(i) \/ TakesNext(i)
  BY DEF Advance
<1> QED
  BY <1>1, <1>2, <1>3, EndsStep, TakesNextStep

\* The statements of createTaskFromTrigger.
LEMMA WorkerStep ==
  ASSUME TypeInv, NEW w \in Workers, OfWorker(w)
  PROVE  /\ WorkOK'
         /\ work[w].step \in Acting
         /\ \A v \in Workers \ {w} : work'[v] = work[v]
<1> USE DEF TypeInv
<1>1. work[w].step \in Acting /\ work[w] # Idle
  BY IdleApart DEF OfWorker, Check, GetProject, InsertRun, CreateTask, MarkFailed, MarkCompleted,
                   At, Acting
<1>2. \/ Ends(w)
      \/ Answered(w)
      \/ \E s \in Acting : Goes(w, s)
  BY DEF OfWorker, Check, GetProject, InsertRun, CreateTask, MarkFailed, MarkCompleted, Acting
<1> QED
  BY <1>1, <1>2, EndsStep, AnsweredStep, GoesStep

-----------------------------------------------------------------------------
\* Types.

\* A row stays a row, or there is none.
LEMMA MarkedType ==
  ASSUME TypeInv, NEW w \in Workers, work[w].step \in Acting,
         NEW status \in {"completed", "failed"}, Marked(w, status)
  PROVE  runs' \in [Occasions -> RunRows \cup {NoRun}]
<1>1. CASE Mine(w)
  <2>1. Occasion(w) \in Occasions
    BY EntryType DEF TypeInv
  <2>2. runs[Occasion(w)] \in RunRows
    BY <1>1, <2>1 DEF Mine, TypeInv, TypeOK
  <2> DEFINE r == [runs[Occasion(w)] EXCEPT !.status = status]
  <2>3. r \in RunRows
    BY <2>2 DEF RunRows
  <2>4. runs' = [runs EXCEPT ![Occasion(w)] = r]
    BY <1>1 DEF Marked
  <2> HIDE DEF r
  <2> QED
    BY <2>3, <2>4 DEF TypeInv, TypeOK
<1>2. CASE ~Mine(w)
  BY <1>2 DEF Marked, TypeInv, TypeOK
<1> QED
  BY <1>1, <1>2

LEMMA WorkerTypes ==
  ASSUME TypeInv, NEW w \in Workers, OfWorker(w)
  PROVE  TypeInv'
<1>1. WorkOK' /\ work[w].step \in Acting
  BY WorkerStep
<1>2. Current(w) \in Entry /\ Occasion(w) \in Occasions
  BY <1>1, EntryType DEF TypeInv
<1>3. runs' \in [Occasions -> RunRows \cup {NoRun}]
  <2>1. CASE InsertRun(w) /\ Insertable(w)
    <3> DEFINE r == [status |-> "started", project |-> Current(w).project]
    <3>1. r \in RunRows
      BY <2>1 DEF Insertable, RunRows, TypeInv, TypeOK
    <3>2. runs' = [runs EXCEPT ![Occasion(w)] = r]
      BY <2>1 DEF InsertRun
    <3> HIDE DEF r
    <3> QED
      BY <3>1, <3>2 DEF TypeInv, TypeOK
  <2>2. CASE InsertRun(w) /\ ~Insertable(w)
    BY <2>2 DEF InsertRun, TypeInv, TypeOK
  <2>3. CASE MarkFailed(w) \/ MarkCompleted(w)
    BY <1>1, <2>3, MarkedType DEF MarkFailed, MarkCompleted
  <2>4. CASE Check(w) \/ GetProject(w) \/ CreateTask(w)
    BY <2>4 DEF Check, GetProject, CreateTask, TypeInv, TypeOK
  <2> QED
    BY <2>1, <2>2, <2>3, <2>4 DEF OfWorker
<1>4. tasks' \in [Occasions \X Projects -> Nat]
  <2>1. CASE CreateTask(w) /\ Current(w).project \in projects
    <3> DEFINE x == <<Occasion(w), Current(w).project>>
    <3>1. x \in Occasions \X Projects
      BY <1>2, <2>1 DEF TypeInv, TypeOK
    <3>2. tasks' = [tasks EXCEPT ![x] = tasks[x] + 1]
      BY <2>1 DEF CreateTask
    <3> HIDE DEF x
    <3> QED
      BY <3>1, <3>2 DEF TypeInv, TypeOK
  <2>2. CASE CreateTask(w) /\ Current(w).project \notin projects
    BY <2>2 DEF CreateTask, TypeInv, TypeOK
  <2>3. CASE ~CreateTask(w)
    BY <2>3 DEF OfWorker, Check, GetProject, InsertRun, MarkFailed, MarkCompleted, TypeInv, TypeOK
  <2> QED
    BY <2>1, <2>2, <2>3
<1>5. /\ UNCHANGED <<now, byHand, templates, next, config, projects>>
      /\ UNCHANGED <<lock, draft, faults, overruns, edits>>
  BY DEF OfWorker, Check, GetProject, InsertRun, CreateTask, MarkFailed, MarkCompleted,
         clockVars, rowVars, counters
<1> QED
  BY <1>1, <1>3, <1>4, <1>5 DEF TypeInv, TypeOK, WorkOK, WorkType, Working

\* The requests of the web.
LEMMA EditTypes ==
  ASSUME TypeInv,
         \/ \E t \in Scheduled : SetTrigger(t) \/ ReadTrigger(t)
         \/ WriteTrigger
         \/ \E t \in Templates : DeleteTemplate(t)
         \/ \E p \in Projects : DeleteProject(p)
  PROVE  TypeInv'
<1> USE TriggersAssumption
<1>0. TypeOK /\ WorkOK /\ Scheduled \subseteq Templates
  BY DEF TypeInv, Templates
<1>1. ASSUME NEW t \in Scheduled, SetTrigger(t)
      PROVE  TypeInv'
  <2>1. edits' \in 0..MaxEdits
    BY <1>0, <1>1 DEF SetTrigger, Edit, TypeOK
  <2>2. PICK n \in {now, now + 1, None}, c \in Configs :
          /\ next' = [next EXCEPT ![t] = n]
          /\ config' = [config EXCEPT ![t] = c]
    BY <1>1 DEF SetTrigger
  <2>3. n \in Times \cup {None}
    BY <1>0, <2>2 DEF TypeOK, Times
  <2>4. next' \in [Scheduled -> Times \cup {None}] /\ config' \in [Templates -> Configs]
    BY <1>0, <2>2, <2>3 DEF TypeOK
  <2>5. byHand' \subseteq Scheduled
    BY <1>0, <1>1 DEF SetTrigger, TypeOK
  <2> QED
    BY <1>0, <1>1, <2>1, <2>4, <2>5 DEF SetTrigger, TypeInv, TypeOK, WorkOK
<1>2. ASSUME NEW t \in Scheduled, ReadTrigger(t)
      PROVE  TypeInv'
  <2>1. edits' \in 0..MaxEdits
    BY <1>0, <1>2 DEF ReadTrigger, Edit, TypeOK
  <2>2. draft' \in [template : Scheduled, next : Times \cup {None}, config : Configs]
    BY <1>0, <1>2 DEF ReadTrigger, TypeOK
  <2> QED
    BY <1>0, <1>2, <2>1, <2>2 DEF ReadTrigger, TypeInv, TypeOK, WorkOK, clockVars, rowVars
<1>3. CASE WriteTrigger
  <2>1. draft \in [template : Scheduled, next : Times \cup {None}, config : Configs]
    BY <1>0, <1>3 DEF WriteTrigger, TypeOK
  <2>2. next' \in [Scheduled -> Times \cup {None}] /\ config' \in [Templates -> Configs]
    BY <1>0, <1>3, <2>1 DEF WriteTrigger, TypeOK
  <2> QED
    BY <1>0, <1>3, <2>2 DEF WriteTrigger, TypeInv, TypeOK, WorkOK, clockVars, counters
<1>4. ASSUME NEW t \in Templates, DeleteTemplate(t)
      PROVE  TypeInv'
  <2>1. edits' \in 0..MaxEdits
    BY <1>0, <1>4 DEF DeleteTemplate, Edit, TypeOK
  <2>2. runs' \in [Occasions -> RunRows \cup {NoRun}] /\ templates' \subseteq Templates
    BY <1>0, <1>4 DEF DeleteTemplate, TypeOK
  <2> QED
    BY <1>0, <1>4, <2>1, <2>2 DEF DeleteTemplate, TypeInv, TypeOK, WorkOK, clockVars
<1>5. ASSUME NEW p \in Projects, DeleteProject(p)
      PROVE  TypeInv'
  <2>1. edits' \in 0..MaxEdits
    BY <1>0, <1>5 DEF DeleteProject, Edit, TypeOK
  <2>2. runs' \in [Occasions -> RunRows \cup {NoRun}] /\ projects' \subseteq Projects
    BY <1>0, <1>5 DEF DeleteProject, TypeOK
  <2>3. tasks' \in [Occasions \X Projects -> Nat]
    BY <1>0, <1>5 DEF DeleteProject, TypeOK
  <2> QED
    BY <1>0, <1>5, <2>1, <2>2, <2>3 DEF DeleteProject, TypeInv, TypeOK, WorkOK, clockVars
<1> QED
  BY <1>1, <1>2, <1>3, <1>4, <1>5

LEMMA TypeStep ==
  ASSUME TypeInv, [Next]_vars
  PROVE  TypeInv'
<1> USE TriggersAssumption
<1>0. TypeOK /\ WorkOK
  BY DEF TypeInv
<1>1. CASE Tick
  BY <1>0, <1>1 DEF Tick, TypeInv, TypeOK, WorkOK, rowVars, counters
<1>2. ASSUME NEW i \in Instances, Acquire(i) \/ Release(i)
      PROVE  TypeInv'
  <2>1. lock' \in Instances \cup {None}
    BY <1>2 DEF Acquire, Release
  <2> QED
    BY <1>0, <1>2, <2>1, LockStep
       DEF Acquire, Release, TypeInv, TypeOK, WorkOK, WorkType, Working, clockVars, rowVars, counters
<1>3. ASSUME NEW i \in Instances, ListDue(i)
      PROVE  TypeInv'
  BY <1>0, <1>3, ListDueStep
     DEF ListDue, TypeInv, TypeOK, WorkOK, WorkType, Working, clockVars, rowVars, counters
<1>4. ASSUME NEW i \in Instances, Advance(i)
      PROVE  TypeInv'
  BY <1>0, <1>4, AdvanceStep
     DEF Advance, TypeInv, TypeOK, WorkOK, WorkType, Working, clockVars, counters
<1>5. CASE Expire
  <2>1. overruns' \in 0..MaxOverruns
    BY <1>0, <1>5 DEF Expire, TypeOK
  <2> QED
    BY <1>0, <1>5, <2>1 DEF Expire, TypeInv, TypeOK, WorkOK, clockVars, rowVars
<1>6. ASSUME NEW d \in Deliveries, Deliver(d)
      PROVE  TypeInv'
  BY <1>0, <1>6, DeliverStep
     DEF Deliver, TypeInv, TypeOK, WorkOK, WorkType, Working, clockVars, rowVars, counters
<1>7. ASSUME NEW w \in Workers, StatementFails(w) \/ Crash(w)
      PROVE  TypeInv'
  <2>1. faults' \in 0..MaxFaults
    BY <1>0, <1>7 DEF StatementFails, Crash, TypeOK
  <2> QED
    BY <1>0, <1>7, <2>1, FaultStep
       DEF StatementFails, Crash, TypeInv, TypeOK, WorkOK, WorkType, Working, clockVars, rowVars
<1>8. CASE UNCHANGED vars
  BY <1>0, <1>8 DEF vars, TypeInv, TypeOK, WorkOK, clockVars, rowVars, counters
<1> QED
  BY <1>1, <1>2, <1>3, <1>4, <1>5, <1>6, <1>7, <1>8, WorkerTypes, EditTypes
     DEF Next, OfJob, Workers

LEMMA TypeInit == Init => TypeInv
<1> SUFFICES ASSUME Init
             PROVE  TypeInv
  OBVIOUS
<1> USE TriggersAssumption
<1>1. next \in [Scheduled -> Times \cup {None}]
  <2>1. {0, 1} \subseteq Times
    BY DEF Times
  <2> QED
    BY <2>1 DEF Init
<1>2. /\ runs \in [Occasions -> RunRows \cup {NoRun}]
      /\ tasks \in [Occasions \X Projects -> Nat]
      /\ work \in [Workers -> WorkType]
      /\ \A w \in Workers : work[w].step = "idle"
  BY IdleApart DEF Init, WorkType
<1>3. WorkOK
  BY <1>2 DEF WorkOK, Acting
<1> QED
  BY <1>1, <1>2, <1>3 DEF Init, TypeInv, TypeOK, WorkType, Working, Configs, Templates

\* Every state of the triggers is well formed: lists name templates and
\* projects, next_run_at stays a time, and a row says what happened.
THEOREM TriggerTypes == Spec => []TypeOK
<1>1. TypeInv => TypeOK
  BY DEF TypeInv
<1> QED
  BY <1>1, TypeInit, TypeStep, PTL DEF Spec

-----------------------------------------------------------------------------
\* The lock.

\* A job that runs has the lock, until one outlives it.
LockInv == overruns = 0 => \A i \in Instances : work[i] # Idle => lock = i

LEMMA LockInvStep ==
  ASSUME TypeInv, LockInv, [Next]_vars
  PROVE  LockInv'
<1> USE TriggersAssumption
<1>0. Instances \subseteq Workers /\ None \notin Instances /\ Instances \cap Deliveries = {}
  BY DEF Workers
<1>1. ASSUME UNCHANGED <<lock, overruns>>,
             NEW w \in Workers, work[w] # Idle \/ w \notin Instances,
             \A v \in Workers \ {w} : work'[v] = work[v]
      PROVE  LockInv'
  BY <1>0, <1>1 DEF LockInv
<1>2. ASSUME NEW i \in Instances, Acquire(i)
      PROVE  LockInv'
  BY <1>0, <1>2, LockStep DEF Acquire, LockInv, counters
<1>3. ASSUME NEW i \in Instances, Release(i)
      PROVE  LockInv'
  <2>1. work[i] # Idle /\ work'[i] = Idle
    BY <1>0, <1>3, IdleApart DEF Release, At, TypeInv, WorkOK
  <2> QED
    BY <1>0, <1>3, <2>1, LockStep DEF Release, LockInv, counters
<1>4. CASE Expire
  <2>1. CASE work[lock] = Idle
    BY <1>0, <1>4, <2>1 DEF Expire, LockInv
  <2>2. CASE work[lock] # Idle
    <3>1. overruns' # 0
      BY <1>4, <2>2 DEF Expire, TypeInv, TypeOK
    <3> QED
      BY <3>1 DEF LockInv
  <2> QED
    BY <2>1, <2>2
<1>5. ASSUME NEW i \in Instances, ListDue(i) \/ Advance(i)
      PROVE  LockInv'
  <2>1. work[i] # Idle
    BY <1>5, IdleApart DEF ListDue, Advance, At
  <2>2. UNCHANGED <<lock, overruns>>
    BY <1>5 DEF ListDue, Advance, counters
  <2> QED
    BY <1>0, <1>1, <1>5, <2>1, <2>2, ListDueStep, AdvanceStep
<1>6. ASSUME NEW d \in Deliveries, Deliver(d)
      PROVE  LockInv'
  <2>1. UNCHANGED <<lock, overruns>> /\ d \in Workers /\ d \notin Instances
    BY <1>0, <1>6 DEF Deliver, counters, Workers
  <2> QED
    BY <1>1, <1>6, <2>1, DeliverStep
<1>7. ASSUME NEW w \in Workers, OfWorker(w)
      PROVE  LockInv'
  <2>1. work[w] # Idle
    BY <1>7, WorkerStep, IdleApart DEF Acting
  <2>2. UNCHANGED <<lock, overruns>>
    BY <1>7 DEF OfWorker, Check, GetProject, InsertRun, CreateTask, MarkFailed, MarkCompleted, counters
  <2> QED
    BY <1>1, <1>7, <2>1, <2>2, WorkerStep
<1>8. ASSUME NEW w \in Workers, StatementFails(w) \/ Crash(w)
      PROVE  LockInv'
  <2>1. work[w] # Idle /\ UNCHANGED <<lock, overruns>>
    BY <1>8 DEF StatementFails, Crash
  <2> QED
    BY <1>1, <1>8, <2>1, FaultStep
<1>9. ASSUME UNCHANGED <<work, lock, overruns>>
      PROVE  LockInv'
  BY <1>9 DEF LockInv
<1>10. ASSUME \/ Tick
              \/ \E t \in Scheduled : SetTrigger(t) \/ ReadTrigger(t)
              \/ WriteTrigger
              \/ \E t \in Templates : DeleteTemplate(t)
              \/ \E p \in Projects : DeleteProject(p)
              \/ UNCHANGED vars
       PROVE  LockInv'
  BY <1>9, <1>10 DEF Tick, SetTrigger, ReadTrigger, WriteTrigger, DeleteTemplate, DeleteProject,
                     vars, counters
<1> QED
  BY <1>0, <1>2, <1>3, <1>4, <1>5, <1>6, <1>7, <1>8, <1>10 DEF Next, OfJob, Workers

\* A job runs on one instance at a time, for any number of instances, crashes and
\* failures, unless one outlives the time to live of its lock.
THEOREM OneJob == Spec => []OneJobAtATime
<1>1. Init => LockInv
  BY IdleApart DEF Init, LockInv, Workers
<1>2. LockInv => OneJobAtATime
  BY DEF LockInv, OneJobAtATime
<1> QED
  BY <1>1, <1>2, TypeInit, TypeStep, LockInvStep, PTL DEF Spec

-----------------------------------------------------------------------------
\* The history.

Recording == {"create", "fail", "complete"}

\* A worker between its INSERT and its last statement, whose project still exists.
Holds(w) == work[w].step \in Recording /\ Current(w).project \in projects

HasTask(o, p) == tasks[<<o, p>>] # 0

\* A task is the only one of its occasion, and has a row as long as the template.
TasksInv ==
  \A o \in Occasions, p \in Projects : HasTask(o, p) =>
    /\ tasks[<<o, p>>] = 1
    /\ p \in projects
    /\ \A q \in Projects : HasTask(o, q) => q = p
    /\ o[1] \in templates => /\ runs[o] # NoRun
                             /\ runs[o].project = p
                             /\ runs[o].status # "failed"

RunsInv ==
  \A o \in Occasions : runs[o] # NoRun =>
    /\ runs[o].project \in projects
    /\ o[1] \in templates
    /\ runs[o].status = "completed" => HasTask(o, runs[o].project)

\* Its row has started, and whether there is a task follows from its step.
Holding(w) ==
  /\ Template(w) \in templates =>
       runs[Occasion(w)] = [status |-> "started", project |-> Current(w).project]
  /\ IF work[w].step = "complete"
     THEN HasTask(Occasion(w), Current(w).project)
     ELSE \A q \in Projects : ~HasTask(Occasion(w), q)

\* And it is alone with the occasion.
HoldsInv ==
  \A w \in Workers : Holds(w) =>
    /\ Holding(w)
    /\ \A v \in Workers : Holds(v) /\ Occasion(v) = Occasion(w) => v = w

HistoryInv == TasksInv /\ RunsInv /\ HoldsInv

tableVars == <<templates, projects, runs, tasks>>

\* What no worker begins, and no table shows, does no harm.
LEMMA QuietStep ==
  ASSUME TypeInv, HistoryInv, UNCHANGED tableVars,
         \A v \in Workers : work'[v].step \in Recording =>
            /\ work[v].step \in Recording
            /\ work'[v].todo = work[v].todo
            /\ work'[v].step = "complete" <=> work[v].step = "complete"
  PROVE  HistoryInv'
<1> USE DEF tableVars
<1>1. TasksInv' /\ RunsInv'
  BY DEF HistoryInv, TasksInv, RunsInv, HasTask
<1>2. ASSUME NEW v \in Workers, Holds(v)'
      PROVE  /\ Holds(v)
             /\ Occasion(v)' = Occasion(v)
             /\ Current(v)' = Current(v)
             /\ Template(v)' = Template(v)
             /\ work'[v].step = "complete" <=> work[v].step = "complete"
  BY <1>2 DEF Holds, Current, Occasion, Template
<1>3. HoldsInv'
  <2> SUFFICES ASSUME NEW w \in Workers, Holds(w)'
               PROVE  /\ Holding(w)'
                      /\ \A v \in Workers : Holds(v)' /\ Occasion(v)' = Occasion(w)' => v = w
    BY DEF HoldsInv
  <2>1. /\ Holds(w)
        /\ Occasion(w)' = Occasion(w)
        /\ Current(w)' = Current(w)
        /\ Template(w)' = Template(w)
        /\ work'[w].step = "complete" <=> work[w].step = "complete"
    BY <1>2
  <2>2. \A v \in Workers : Holds(v)' /\ Occasion(v)' = Occasion(w)' => v = w
    <3> SUFFICES ASSUME NEW v \in Workers, Holds(v)', Occasion(v)' = Occasion(w)'
                 PROVE  v = w
      OBVIOUS
    <3>1. Holds(v) /\ Occasion(v)' = Occasion(v)
      BY <1>2
    <3>2. Occasion(v) = Occasion(w)
      BY <2>1, <3>1
    <3> QED
      BY <2>1, <3>1, <3>2 DEF HistoryInv, HoldsInv
  <2>3. /\ HasTask(Occasion(w), Current(w).project)' <=> HasTask(Occasion(w), Current(w).project)
        /\ \A q \in Projects : HasTask(Occasion(w), q)' <=> HasTask(Occasion(w), q)
    BY <2>1 DEF HasTask
  <2> QED
    BY <2>1, <2>2, <2>3 DEF HistoryInv, HoldsInv, Holding
<1> QED
  BY <1>1, <1>3 DEF HistoryInv

\* What a worker holds that is not the one of the step.
LEMMA Others ==
  ASSUME NEW w \in Workers, \A v \in Workers \ {w} : work'[v] = work[v],
         NEW v \in Workers \ {w}
  PROVE  /\ Occasion(v)' = Occasion(v)
         /\ Current(v)' = Current(v)
         /\ Template(v)' = Template(v)
         /\ projects' \subseteq projects => (Holds(v)' => Holds(v))
         /\ work'[v].step = work[v].step
  BY DEF Holds, Current, Occasion, Template

\* A step of w that is about an occasion of which no other worker is holder
\* leaves the other holders alone.
LEMMA OtherHolders ==
  ASSUME TypeInv, HistoryInv, UNCHANGED <<templates, projects>>,
         NEW w \in Workers, \A v \in Workers \ {w} : work'[v] = work[v],
         NEW o, \A v \in Workers \ {w} : Holds(v) => Occasion(v) # o,
         \A y \in Occasions \ {o} :
            runs'[y] = runs[y] /\ \A q \in Projects : tasks'[<<y, q>>] = tasks[<<y, q>>]
  PROVE  \A x \in Workers \ {w} : Holds(x)' =>
           /\ Occasion(x)' # o
           /\ Holding(x)'
           /\ \A v \in Workers \ {w} : Holds(v)' /\ Occasion(v)' = Occasion(x)' => v = x
<1> SUFFICES ASSUME NEW x \in Workers \ {w}, Holds(x)'
             PROVE  /\ Occasion(x)' # o
                    /\ Holding(x)'
                    /\ \A v \in Workers \ {w} : Holds(v)' /\ Occasion(v)' = Occasion(x)' => v = x
  OBVIOUS
<1>1. /\ Holds(x)
      /\ Occasion(x)' = Occasion(x)
      /\ Current(x)' = Current(x)
      /\ Template(x)' = Template(x)
      /\ work'[x].step = work[x].step
      /\ Occasion(x) # o
  BY Others
<1>2. work[x].step \in Acting
  BY <1>1 DEF Holds, Recording, Acting
<1>3. Occasion(x) \in Occasions /\ Current(x).project \in Projects
  BY <1>1, <1>2, EntryType DEF TypeInv, TypeOK, Holds
<1>4. runs'[Occasion(x)'] = runs[Occasion(x)]
  BY <1>1, <1>3
<1>5. \A q \in Projects : HasTask(Occasion(x), q)' <=> HasTask(Occasion(x), q)
  BY <1>1, <1>3 DEF HasTask
<1>6. HasTask(Occasion(x), Current(x).project)' <=> HasTask(Occasion(x), Current(x).project)
  BY <1>1, <1>3 DEF HasTask
<1>7. Holding(x)'
  BY <1>1, <1>4, <1>5, <1>6 DEF HistoryInv, HoldsInv, Holding
<1>8. ASSUME NEW v \in Workers \ {w}, Holds(v)', Occasion(v)' = Occasion(x)'
      PROVE  v = x
  <2>1. Holds(v) /\ Occasion(v)' = Occasion(v)
    BY <1>8, Others
  <2>2. Occasion(v) = Occasion(x)
    BY <1>1, <1>8, <2>1
  <2> QED
    BY <1>1, <2>1, <2>2 DEF HistoryInv, HoldsInv
<1> QED
  BY <1>1, <1>7, <1>8

\* The INSERT: there was no row, so nobody holds the occasion, and it has no task.
LEMMA InsertStep ==
  ASSUME TypeInv, HistoryInv, NEW w \in Workers, InsertRun(w), Insertable(w)
  PROVE  HistoryInv'
<1> DEFINE o   == Occasion(w)
           p   == Current(w).project
           row == [status |-> "started", project |-> p]
<1>1. /\ o \in Occasions
      /\ p \in projects
      /\ o[1] \in templates
      /\ runs[o] = NoRun
      /\ work[w].step = "insert"
  BY EntryType DEF InsertRun, Insertable, At, Acting, TypeInv, Template
<1>2. /\ WorkOK'
      /\ work'[w].step = "create"
      /\ work'[w].todo = work[w].todo
      /\ \A v \in Workers \ {w} : work'[v] = work[v]
  BY <1>1, GoesStep DEF InsertRun, TypeInv, Acting
<1>3. runs' = [runs EXCEPT ![o] = row] /\ UNCHANGED <<templates, projects, tasks>>
  BY DEF InsertRun, rowVars
<1>4. Occasion(w)' = o /\ Current(w)' = Current(w)
  BY <1>2 DEF Occasion, Current
<1>5. row # NoRun /\ row.project = p /\ row.status = "started"
  BY DEF NoRun
<1>6. \A q \in Projects : ~HasTask(o, q)
  BY <1>1 DEF HistoryInv, TasksInv
<1>7. \A v \in Workers : Holds(v) => Occasion(v) # o
  <2> SUFFICES ASSUME NEW v \in Workers, Holds(v), Occasion(v) = o
               PROVE  FALSE
    OBVIOUS
  <2>1. Template(v) \in templates
    BY <1>1 DEF Template
  <2>2. runs[o] = [status |-> "started", project |-> Current(v).project]
    BY <2>1 DEF HistoryInv, HoldsInv, Holding
  <2> QED
    BY <1>1, <2>2 DEF NoRun
<1>8. runs'[o] = row /\ \A y \in Occasions \ {o} : runs'[y] = runs[y]
  BY <1>1, <1>3 DEF TypeInv, TypeOK
<1> HIDE DEF o, p
<1>9. Holding(w)'
  <2>1. \A q \in Projects : ~HasTask(Occasion(w), q)'
    BY <1>3, <1>4, <1>6 DEF HasTask
  <2> QED
    BY <1>2, <1>4, <1>8, <2>1 DEF Holding, p
<1> HIDE DEF row
<1>10. TasksInv'
  BY <1>3, <1>5, <1>6, <1>8 DEF HistoryInv, TasksInv, HasTask
<1>11. RunsInv'
  BY <1>1, <1>3, <1>5, <1>8 DEF HistoryInv, RunsInv, HasTask
<1>12. HoldsInv'
  BY <1>2, <1>3, <1>4, <1>7, <1>8, <1>9, OtherHolders DEF HoldsInv
<1> QED
  BY <1>10, <1>11, <1>12 DEF HistoryInv

\* The task: the worker holds the occasion, which has none yet.
LEMMA CreateStep ==
  ASSUME TypeInv, HistoryInv, NEW w \in Workers, CreateTask(w), Current(w).project \in projects
  PROVE  HistoryInv'
<1>0. /\ Occasion(w) \in Occasions
      /\ Current(w).project \in Projects
  BY EntryType DEF CreateTask, At, Acting, TypeInv, TypeOK
<1>0a. PICK o \in Occasions, p \in Projects : o = Occasion(w) /\ p = Current(w).project
  BY <1>0
<1> DEFINE x == <<o, p>>
<1>1. /\ p \in projects
      /\ work[w].step = "create"
      /\ Holds(w)
      /\ o[1] = Template(w)
  BY <1>0a DEF CreateTask, At, Template, Holds, Recording
<1>2. /\ WorkOK'
      /\ work'[w].step = "complete"
      /\ work'[w].todo = work[w].todo
      /\ \A v \in Workers \ {w} : work'[v] = work[v]
  BY <1>1, GoesStep DEF CreateTask, TypeInv, Acting
<1>3. tasks' = [tasks EXCEPT ![x] = tasks[x] + 1] /\ UNCHANGED <<templates, projects, runs>>
  BY <1>0a DEF CreateTask, rowVars
<1>4. Occasion(w)' = o /\ Current(w)' = Current(w)
  BY <1>0a, <1>2 DEF Occasion, Current
<1>5. /\ \A q \in Projects : ~HasTask(o, q)
      /\ o[1] \in templates => runs[o] = [status |-> "started", project |-> p]
      /\ \A v \in Workers \ {w} : Holds(v) => Occasion(v) # o
  BY <1>0a, <1>1 DEF HistoryInv, HoldsInv, Holding
<1>6. x \in Occasions \X Projects
  BY <1>1
<1>7. tasks[x] = 0
  BY <1>1, <1>5 DEF HasTask
<1>8. /\ tasks'[<<o, p>>] = 1
      /\ \A y \in Occasions, q \in Projects : <<y, q>> # <<o, p>> => tasks'[<<y, q>>] = tasks[<<y, q>>]
  BY <1>3, <1>6, <1>7 DEF TypeInv, TypeOK
<1>9. /\ HasTask(o, p)'
      /\ \A y \in Occasions, q \in Projects : HasTask(y, q)' <=> HasTask(y, q) \/ (y = o /\ q = p)
  BY <1>8 DEF HasTask
<1>10. TasksInv'
  <2> SUFFICES ASSUME NEW y \in Occasions, NEW q \in Projects, HasTask(y, q)'
               PROVE  /\ tasks'[<<y, q>>] = 1
                      /\ q \in projects'
                      /\ \A r \in Projects : HasTask(y, r)' => r = q
                      /\ y[1] \in templates' => /\ runs'[y] # NoRun
                                                /\ runs'[y].project = q
                                                /\ runs'[y].status # "failed"
    BY DEF TasksInv
  <2>1. CASE y = o
    <3>1. q = p
      BY <1>5, <1>9, <2>1
    <3>2. \A r \in Projects : HasTask(y, r)' => r = q
      BY <1>5, <1>9, <2>1, <3>1
    <3> QED
      BY <1>1, <1>3, <1>5, <1>8, <2>1, <3>1, <3>2 DEF NoRun
  <2>2. CASE y # o
    <3>1. HasTask(y, q) /\ tasks'[<<y, q>>] = tasks[<<y, q>>]
      BY <1>8, <1>9, <2>2
    <3>2. \A r \in Projects : HasTask(y, r)' => HasTask(y, r)
      BY <1>9, <2>2
    <3> QED
      BY <1>3, <3>1, <3>2 DEF HistoryInv, TasksInv
  <2> QED
    BY <2>1, <2>2
<1>11. RunsInv'
  <2> SUFFICES ASSUME NEW y \in Occasions, runs'[y] # NoRun
               PROVE  /\ runs'[y].project \in projects'
                      /\ y[1] \in templates'
                      /\ runs'[y].status = "completed" => HasTask(y, runs[y].project)'
    BY DEF RunsInv
  <2>1. /\ runs[y].project \in projects
        /\ y[1] \in templates
        /\ runs[y].status = "completed" => HasTask(y, runs[y].project)
    BY <1>3 DEF HistoryInv, RunsInv
  <2>2. runs[y].project \in Projects
    BY <2>1 DEF TypeInv, TypeOK
  <2>3. HasTask(y, runs[y].project) => HasTask(y, runs[y].project)'
    BY <1>3, <1>8, <2>2 DEF HasTask
  <2> QED
    BY <1>3, <2>1, <2>3
<1>12. Holding(w)'
  <2>1. HasTask(Occasion(w), Current(w).project)'
    BY <1>0a, <1>4, <1>9 DEF HasTask
  <2> QED
    BY <1>0a, <1>1, <1>2, <1>3, <1>4, <1>5, <2>1 DEF Holding, Template
<1>13. HoldsInv'
  <2>1. \A y \in Occasions \ {o} :
            runs'[y] = runs[y] /\ \A q \in Projects : tasks'[<<y, q>>] = tasks[<<y, q>>]
    BY <1>3, <1>8
  <2>2. \A v \in Workers \ {w} : Holds(v) => Occasion(v) # o
    BY <1>5
  <2>3. \A v \in Workers \ {w} : Holds(v)' =>
          /\ Occasion(v)' # o
          /\ Holding(v)'
          /\ \A u \in Workers \ {w} : Holds(u)' /\ Occasion(u)' = Occasion(v)' => u = v
    BY <1>2, <1>3, <2>1, <2>2, OtherHolders
  <2> QED
    BY <1>4, <1>12, <2>3 DEF HoldsInv
<1> QED
  BY <1>10, <1>11, <1>13 DEF HistoryInv

\* The last statement, when the row is still there: the worker held it.
LEMMA MarkStep ==
  ASSUME TypeInv, HistoryInv, NEW w \in Workers, MarkFailed(w) \/ MarkCompleted(w), Mine(w)
  PROVE  HistoryInv'
<1>0. work[w].step \in Acting /\ work[w].step \in Recording
  BY DEF MarkFailed, MarkCompleted, At, Acting, Recording
<1>1. PICK o \in Occasions, p \in Configs : o = Occasion(w) /\ p = Current(w).project
  BY <1>0, EntryType DEF TypeInv, Entry
<1>2. /\ runs[o] # NoRun
      /\ runs[o].project = p
      /\ p \in projects
      /\ o[1] \in templates
  BY <1>1 DEF Mine, HistoryInv, RunsInv
<1>3. Holds(w)
  BY <1>0, <1>1, <1>2 DEF Holds
<1>4. /\ work[w].step = "complete" => HasTask(o, p)
      /\ work[w].step = "fail" => \A q \in Projects : ~HasTask(o, q)
      /\ \A v \in Workers \ {w} : Holds(v) => Occasion(v) # o
  BY <1>1, <1>3 DEF HistoryInv, HoldsInv, Holding
<1>5. PICK status \in {"failed", "completed"} :
        /\ runs' = [runs EXCEPT ![o].status = status]
        /\ status = "completed" => work[w].step = "complete"
        /\ status = "failed" => work[w].step = "fail"
  BY <1>1 DEF MarkFailed, MarkCompleted, Marked, At
<1>6. /\ runs'[o].project = p
      /\ runs'[o].status = status
      /\ runs'[o] # NoRun
      /\ \A y \in Occasions \ {o} : runs'[y] = runs[y]
  <2>1. runs[o] \in RunRows
    BY <1>2 DEF TypeInv, TypeOK
  <2> DEFINE r == [runs[o] EXCEPT !.status = status]
  <2>2. r.project = p /\ r.status = status
    BY <1>2, <2>1 DEF RunRows
  <2>3. runs' = [runs EXCEPT ![o] = r]
    BY <1>5
  <2> HIDE DEF r
  <2> QED
    BY <2>2, <2>3 DEF TypeInv, TypeOK, NoRun
<1>7. UNCHANGED <<templates, projects, tasks>>
  BY DEF MarkFailed, MarkCompleted, rowVars
<1>8. /\ work'[w].step \notin Recording
      /\ \A v \in Workers \ {w} : work'[v] = work[v]
  <2>1. Ends(w) \/ Answered(w)
    BY DEF MarkFailed, MarkCompleted
  <2>2. work[w] # Idle
    BY <1>0, IdleApart DEF Recording
  <2> QED
    BY <1>0, <2>1, <2>2, EndsStep, AnsweredStep DEF TypeInv, Recording
<1>9. \A y \in Occasions, q \in Projects : HasTask(y, q)' <=> HasTask(y, q)
  BY <1>7 DEF HasTask
<1>10. TasksInv'
  <2>1. ASSUME NEW q \in Projects, HasTask(o, q)
        PROVE  status # "failed" /\ q = p
    BY <1>2, <1>4, <1>5, <2>1 DEF HistoryInv, TasksInv
  <2> QED
    BY <1>6, <1>7, <1>9, <2>1 DEF HistoryInv, TasksInv
<1>11. RunsInv'
  <2> SUFFICES ASSUME NEW y \in Occasions, runs'[y] # NoRun
               PROVE  /\ runs'[y].project \in projects'
                      /\ y[1] \in templates'
                      /\ runs'[y].status = "completed" => HasTask(y, runs[y].project)'
    BY DEF RunsInv
  <2>1. CASE y = o
    BY <1>2, <1>4, <1>5, <1>6, <1>7, <2>1 DEF HasTask
  <2>2. CASE y # o
    BY <1>6, <1>7, <2>2 DEF HistoryInv, RunsInv, HasTask
  <2> QED
    BY <2>1, <2>2
<1>12. HoldsInv'
  <2>1. \A y \in Occasions \ {o} :
            runs'[y] = runs[y] /\ \A q \in Projects : tasks'[<<y, q>>] = tasks[<<y, q>>]
    BY <1>6, <1>7
  <2>2. \A v \in Workers \ {w} : Holds(v)' =>
          /\ Occasion(v)' # o
          /\ Holding(v)'
          /\ \A u \in Workers \ {w} : Holds(u)' /\ Occasion(u)' = Occasion(v)' => u = v
    BY <1>4, <1>7, <1>8, <2>1, OtherHolders
  <2>3. ~Holds(w)'
    BY <1>8 DEF Holds
  <2> QED
    BY <2>2, <2>3 DEF HoldsInv
<1> QED
  BY <1>10, <1>11, <1>12 DEF HistoryInv

\* With a template go its rows; its tasks stay, and nobody can insert a row again.
LEMMA DeleteTemplateStep ==
  ASSUME TypeInv, HistoryInv, NEW t \in Templates, DeleteTemplate(t)
  PROVE  HistoryInv'
<1>1. /\ templates' = templates \ {t}
      /\ \A o \in Occasions : runs'[o] = IF o[1] = t THEN NoRun ELSE runs[o]
      /\ UNCHANGED <<projects, tasks, work>>
  BY DEF DeleteTemplate
<1>2. TasksInv' /\ RunsInv'
  BY <1>1 DEF HistoryInv, TasksInv, RunsInv, HasTask
<1>3. HoldsInv'
  <2> SUFFICES ASSUME NEW w \in Workers, Holds(w)'
               PROVE  /\ Holding(w)'
                      /\ \A v \in Workers : Holds(v)' /\ Occasion(v)' = Occasion(w)' => v = w
    BY DEF HoldsInv
  <2>1. \A v \in Workers : /\ Holds(v)' <=> Holds(v)
                           /\ Occasion(v)' = Occasion(v)
                           /\ Current(v)' = Current(v)
                           /\ Template(v)' = Template(v)
    BY <1>1 DEF Holds, Occasion, Current, Template
  <2>2. Occasion(w) \in Occasions
    BY <2>1, EntryType DEF TypeInv, Holds, Recording, Acting
  <2>3. Holding(w)'
    BY <1>1, <2>1, <2>2 DEF HistoryInv, HoldsInv, Holding, HasTask, Template
  <2> QED
    BY <2>1, <2>3 DEF HistoryInv, HoldsInv
<1> QED
  BY <1>2, <1>3 DEF HistoryInv

\* With a project go the rows and the tasks, and whoever worked for it holds
\* nothing any more.
LEMMA DeleteProjectStep ==
  ASSUME TypeInv, HistoryInv, NEW p \in Projects, DeleteProject(p)
  PROVE  HistoryInv'
<1>1. /\ projects' = projects \ {p}
      /\ \A o \in Occasions : runs'[o] = IF runs[o] # NoRun /\ runs[o].project = p
                                        THEN NoRun ELSE runs[o]
      /\ \A o \in Occasions, q \in Projects : tasks'[<<o, q>>] = IF q = p THEN 0 ELSE tasks[<<o, q>>]
      /\ UNCHANGED <<templates, work>>
  BY DEF DeleteProject, rowVars
<1>2. \A o \in Occasions, q \in Projects : HasTask(o, q)' <=> HasTask(o, q) /\ q # p
  BY <1>1 DEF HasTask
<1>3. TasksInv'
  BY <1>1, <1>2 DEF HistoryInv, TasksInv
<1>4. RunsInv'
  <2> SUFFICES ASSUME NEW o \in Occasions, runs'[o] # NoRun
               PROVE  /\ runs'[o].project \in projects'
                      /\ o[1] \in templates'
                      /\ runs'[o].status = "completed" => HasTask(o, runs[o].project)'
    BY DEF RunsInv
  <2>1. runs'[o] = runs[o] /\ runs[o] # NoRun /\ runs[o].project # p
    BY <1>1
  <2>2. runs[o].project \in projects /\ o[1] \in templates
    BY <2>1 DEF HistoryInv, RunsInv
  <2>3. runs[o].project \in Projects
    BY <2>2 DEF TypeInv, TypeOK
  <2>4. runs[o].status = "completed" => tasks'[<<o, runs[o].project>>] # 0
    BY <1>1, <2>1, <2>3 DEF HistoryInv, RunsInv, HasTask
  <2> QED
    BY <1>1, <2>1, <2>2, <2>4 DEF HasTask
<1>5. HoldsInv'
  <2> SUFFICES ASSUME NEW w \in Workers, Holds(w)'
               PROVE  /\ Holding(w)'
                      /\ \A v \in Workers : Holds(v)' /\ Occasion(v)' = Occasion(w)' => v = w
    BY DEF HoldsInv
  <2>1. \A v \in Workers : /\ Holds(v)' => Holds(v) /\ Current(v).project # p
                           /\ Occasion(v)' = Occasion(v)
                           /\ Current(v)' = Current(v)
                           /\ Template(v)' = Template(v)
    BY <1>1 DEF Holds, Occasion, Current, Template
  <2>2. Occasion(w) \in Occasions /\ Current(w).project \in Projects
    BY <2>1, EntryType DEF TypeInv, TypeOK, Holds, Recording, Acting
  <2>3. /\ HasTask(Occasion(w), Current(w).project)' <=> HasTask(Occasion(w), Current(w).project)
        /\ \A q \in Projects : HasTask(Occasion(w), q)' => HasTask(Occasion(w), q)
    BY <1>1, <2>1, <2>2 DEF HasTask
  <2>4. Holding(w) /\ \A v \in Workers : Holds(v) /\ Occasion(v) = Occasion(w) => v = w
    BY <2>1 DEF HistoryInv, HoldsInv
  <2>5. Template(w) \in templates => runs'[Occasion(w)] = runs[Occasion(w)]
    BY <1>1, <2>1, <2>2, <2>4 DEF Holding
  <2>6. Holding(w)'
    BY <1>1, <2>1, <2>3, <2>4, <2>5 DEF Holding
  <2> QED
    BY <2>1, <2>4, <2>6
<1> QED
  BY <1>3, <1>4, <1>5 DEF HistoryInv

LEMMA HistoryStep ==
  ASSUME TypeInv, HistoryInv, [Next]_vars
  PROVE  HistoryInv'
<1> USE TriggersAssumption
<1>1. ASSUME UNCHANGED tableVars,
             NEW w \in Workers, \A v \in Workers \ {w} : work'[v] = work[v],
             work'[w].step \in Recording =>
               /\ work[w].step \in Recording
               /\ work'[w].todo = work[w].todo
               /\ work'[w].step = "complete" <=> work[w].step = "complete"
      PROVE  HistoryInv'
  BY <1>1, QuietStep
<1>2. ASSUME UNCHANGED tableVars, UNCHANGED work
      PROVE  HistoryInv'
  BY <1>2, QuietStep
<1>3. ASSUME NEW i \in Instances, Acquire(i) \/ Release(i) \/ ListDue(i) \/ Advance(i)
      PROVE  HistoryInv'
  <2>1. UNCHANGED tableVars
    BY <1>3 DEF Acquire, Release, ListDue, Advance, tableVars, rowVars
  <2>2. work'[i].step \notin Recording /\ \A v \in Workers \ {i} : work'[v] = work[v]
    BY <1>3, LockStep, ListDueStep, AdvanceStep DEF Recording
  <2> QED
    BY <1>1, <2>1, <2>2 DEF Workers
<1>4. ASSUME NEW d \in Deliveries, Deliver(d)
      PROVE  HistoryInv'
  <2>1. UNCHANGED tableVars
    BY <1>4 DEF Deliver, tableVars, rowVars
  <2> QED
    BY <1>1, <1>4, <2>1, DeliverStep DEF Workers, Recording
<1>5. ASSUME NEW w \in Workers, StatementFails(w) \/ Crash(w)
      PROVE  HistoryInv'
  <2>1. UNCHANGED tableVars
    BY <1>5 DEF StatementFails, Crash, tableVars, rowVars
  <2>2. work'[w].step \in Recording => /\ work'[w].step = "fail"
                                       /\ work[w].step = "create"
                                       /\ work'[w].todo = work[w].todo
    BY <1>5, FaultStep DEF Recording
  <2> QED
    BY <1>1, <1>5, <2>1, <2>2, FaultStep DEF Recording
<1>6. ASSUME NEW w \in Workers, OfWorker(w)
      PROVE  HistoryInv'
  <2>1. CASE InsertRun(w) /\ Insertable(w)
    BY <2>1, InsertStep
  <2>2. CASE CreateTask(w) /\ Current(w).project \in projects
    BY <2>2, CreateStep
  <2>3. CASE (MarkFailed(w) \/ MarkCompleted(w)) /\ Mine(w)
    BY <2>3, MarkStep
  <2>4. CASE CreateTask(w) /\ Current(w).project \notin projects
    <3>1. Goes(w, "fail") /\ work[w].step = "create" /\ UNCHANGED tableVars
      BY <2>4 DEF CreateTask, At, tableVars, rowVars
    <3>2. /\ work'[w].step = "fail"
          /\ work'[w].todo = work[w].todo
          /\ \A v \in Workers \ {w} : work'[v] = work[v]
      BY <3>1, GoesStep DEF TypeInv, Acting
    <3> QED
      BY <1>1, <3>1, <3>2 DEF Recording
  <2>5. CASE \/ Check(w)
             \/ GetProject(w)
             \/ InsertRun(w) /\ ~Insertable(w)
             \/ (MarkFailed(w) \/ MarkCompleted(w)) /\ ~Mine(w)
    <3>1. UNCHANGED tableVars
      BY <2>5 DEF Check, GetProject, InsertRun, MarkFailed, MarkCompleted, Marked, tableVars, rowVars
    <3>2. Ends(w) \/ Answered(w) \/ Goes(w, "project") \/ Goes(w, "insert")
      BY <2>5 DEF Check, GetProject, InsertRun, MarkFailed, MarkCompleted
    <3>3. work[w].step \in Acting /\ work[w] # Idle
      BY <1>6, WorkerStep, IdleApart DEF Acting
    <3>4. work'[w].step \notin Recording /\ \A v \in Workers \ {w} : work'[v] = work[v]
      BY <3>2, <3>3, EndsStep, AnsweredStep, GoesStep DEF TypeInv, Recording, Acting
    <3> QED
      BY <1>1, <3>1, <3>4
  <2> QED
    BY <1>6, <2>1, <2>2, <2>3, <2>4, <2>5 DEF OfWorker
<1>7. ASSUME \/ Tick
             \/ Expire
             \/ \E t \in Scheduled : SetTrigger(t) \/ ReadTrigger(t)
             \/ WriteTrigger
             \/ UNCHANGED vars
      PROVE  HistoryInv'
  BY <1>2, <1>7 DEF Tick, Expire, SetTrigger, ReadTrigger, WriteTrigger, vars, tableVars, rowVars
<1> QED
  BY <1>3, <1>4, <1>5, <1>6, <1>7, DeleteTemplateStep, DeleteProjectStep DEF Next, OfJob, Workers

LEMMA HistoryInit == Init => HistoryInv
<1> SUFFICES ASSUME Init
             PROVE  HistoryInv
  OBVIOUS
<1>1. /\ \A o \in Occasions : runs[o] = NoRun
      /\ \A o \in Occasions, p \in Projects : ~HasTask(o, p)
      /\ \A w \in Workers : work[w].step = "idle"
  BY IdleApart DEF Init, HasTask
<1> QED
  BY <1>1 DEF HistoryInv, TasksInv, RunsInv, HoldsInv, Holds, Recording

\* A trigger creates one task for an occasion, for any number of instances and
\* deliveries at once, whatever lock expires, fails, stops or is deleted.
THEOREM OneTask == Spec => []OneTaskPerOccasion
<1>1. TypeInv /\ HistoryInv => OneTaskPerOccasion
  <2> SUFFICES ASSUME TypeInv, HistoryInv, NEW o \in Occasions, NEW p \in Projects, NEW q \in Projects
               PROVE  /\ tasks[<<o, p>>] <= 1
                      /\ p # q => tasks[<<o, p>>] = 0 \/ tasks[<<o, q>>] = 0
    BY DEF OneTaskPerOccasion
  <2>1. tasks[<<o, p>>] \in Nat /\ tasks[<<o, q>>] \in Nat
    BY DEF TypeInv, TypeOK
  <2> QED
    BY <2>1 DEF HistoryInv, TasksInv, HasTask
<1> QED
  BY <1>1, TypeInit, TypeStep, HistoryInit, HistoryStep, PTL DEF Spec

\* In every state the history says of a run what is true of its task.
THEOREM HistoryIsTrue == Spec => []HistoryTellsTasks
<1>1. TypeInv /\ HistoryInv => HistoryTellsTasks
  <2> SUFFICES ASSUME TypeInv, HistoryInv, NEW o \in Occasions, runs[o] # NoRun
               PROVE  /\ runs[o].status = "completed" => tasks[<<o, runs[o].project>>] = 1
                      /\ runs[o].status = "failed" => tasks[<<o, runs[o].project>>] = 0
    BY DEF HistoryTellsTasks
  <2>1. runs[o].project \in Projects
    BY DEF HistoryInv, RunsInv, TypeInv, TypeOK
  <2> QED
    BY <2>1 DEF HistoryInv, TasksInv, RunsInv, HasTask
<1> QED
  BY <1>1, TypeInit, TypeStep, HistoryInit, HistoryStep, PTL DEF Spec
-----------------------------------------------------------------------------
\* The times of a schedule that no edit has set by hand.

Ran(t, k)   == runs[<<t, k>>] # NoRun
Entries(w)  == {work[w].todo[n] : n \in DOMAIN work[w].todo}
Drafted(t)  == draft # Idle /\ draft.template = t
Served(t)   == t \in templates /\ config[t] \in projects

\* A time of which there is a run, or may be one.
Held(t, k) ==
  \/ Ran(t, k)
  \/ next[t] = k
  \/ Drafted(t) /\ draft.next = k
  \/ \E i \in Instances : work[i] # Idle /\ \E e \in Entries(i) : e.of = <<t, k>>

\* Its project stays, and no time is far away.
Steady(t) ==
  /\ next[t] # None
  /\ next[t] <= now + Interval
  /\ \A k \in Times : Ran(t, k) => k <= now /\ runs[<<t, k>>].project = config[t]
  /\ Drafted(t) => /\ draft.next # None
                   /\ draft.next <= next[t]
                   /\ draft.config = config[t]

\* Nor is it for a job, whose clock stands still.
Timely(i, t) ==
  /\ work[i].at <= now
  /\ next[t] <= work[i].at + Interval
  /\ \A k \in Times : Ran(t, k) => k <= work[i].at
  /\ \A e \in Entries(i) : e.of[1] = t => /\ e.of[2] <= work[i].at
                                          /\ next[t] <= e.of[2]
                                          /\ e.project = config[t]
  /\ At(i, "advance") /\ Template(i) = t /\ Served(t) => runs[Occasion(i)] # NoRun

\* A list has a schedule once.
Once(i) == \A m, n \in DOMAIN work[i].todo :
             work[i].todo[m].of[1] = work[i].todo[n].of[1] => m = n

\* Only the last of the times may be one that has no run yet, and the others are apart.
Apart(t) ==
  Served(t) => \A a, b \in Times : Held(t, a) /\ Held(t, b) /\ a < b
                                     => Ran(t, a) /\ a + Interval <= b

SpacedInv ==
  /\ \A d \in Deliveries : work[d] # Idle => \A e \in Entries(d) : e.of[1] \in OnIssue
  /\ overruns = 0 =>
       /\ \A i \in Instances : work[i] # Idle => Once(i)
       /\ \A t \in Scheduled \ byHand :
            /\ Steady(t)
            /\ Apart(t)
            /\ \A i \in Instances : work[i] # Idle => Timely(i, t)

\* A step that takes nothing up: a worker goes on with its list or with the rest
\* of it, and is past its task only with a run.
Calm(w) ==
  work'[w] # Idle =>
    /\ work[w] # Idle
    /\ work'[w].at = work[w].at
    /\ \E s \in Nat : \A n \in DOMAIN work'[w].todo :
         n + s \in DOMAIN work[w].todo /\ work'[w].todo[n] = work[w].todo[n + s]
    /\ work'[w].step = "advance" => /\ work'[w].todo = work[w].todo
                                    /\ At(w, "advance") \/ runs'[Occasion(w)] # NoRun

\* The list of a worker that is busy is a sequence.
LEMMA SameTodo ==
  ASSUME WorkOK, NEW w \in Workers, work[w] # Idle
  PROVE  /\ work[w] \in Working
         /\ DOMAIN work[w].todo \subseteq Nat
         /\ DOMAIN work[w].todo = 1..Len(work[w].todo)
         /\ work[w].todo \in Seq(Entry)
<1>1. work[w] \in Working
  BY IdleApart DEF WorkOK
<1> QED
  BY <1>1 DEF Working

\* A worker that stays as it is, stops or ends is calm.
LEMMA CalmSame ==
  ASSUME WorkOK, NEW w \in Workers, work'[w] = work[w]
  PROVE  Calm(w)
<1> SUFFICES ASSUME work[w] # Idle
             PROVE  \E s \in Nat : \A n \in DOMAIN work'[w].todo :
                      n + s \in DOMAIN work[w].todo /\ work'[w].todo[n] = work[w].todo[n + s]
  BY DEF Calm, At
<1>1. \A n \in DOMAIN work[w].todo : n + 0 = n
  BY SameTodo
<1> QED
  BY <1>1

LEMMA CalmIdle ==
  ASSUME NEW w \in Workers, work'[w] = Idle
  PROVE  Calm(w)
  BY DEF Calm

LEMMA CalmEnd ==
  ASSUME WorkOK, NEW w \in Workers, work[w] # Idle, Ends(w)
  PROVE  Calm(w)
<1>1. work[w] \in Working
  BY SameTodo
<1>2. CASE w \in Instances
  <2> DEFINE r == [work[w] EXCEPT !.step = "release", !.todo = <<>>]
  <2>1. r.step = "release" /\ r.at = work[w].at /\ r.todo = <<>>
    BY <1>1 DEF Working
  <2>2. work' = [work EXCEPT ![w] = r]
    BY <1>2 DEF Ends
  <2> HIDE DEF r
  <2>3. work'[w] = r
    BY <2>2 DEF WorkOK
  <2>4. DOMAIN r.todo = {} /\ 0 \in Nat
    BY <2>1
  <2>5. \E s \in Nat : \A n \in DOMAIN work'[w].todo :
          n + s \in DOMAIN work[w].todo /\ work'[w].todo[n] = work[w].todo[n + s]
    BY <2>3, <2>4
  <2> QED
    BY <2>1, <2>3, <2>5 DEF Calm
<1>3. CASE w \notin Instances
  <2>1. work'[w] = Idle
    BY <1>3 DEF Ends, WorkOK
  <2> QED
    BY <2>1, CalmIdle
<1> QED
  BY <1>2, <1>3

\* So is one that goes on with its entry.
LEMMA CalmGoes ==
  ASSUME WorkOK, NEW w \in Workers, work[w].step \in Acting, NEW s \in Acting, Goes(w, s),
         s = "advance" => runs'[Occasion(w)] # NoRun
  PROVE  Calm(w)
<1>1. work[w] \in Working /\ work[w] # Idle
  BY EntryType, IdleApart DEF Acting
<1> DEFINE r == [work[w] EXCEPT !.step = s]
<1>2. r.step = s /\ r.at = work[w].at /\ r.todo = work[w].todo
  BY <1>1 DEF Working
<1>3. work' = [work EXCEPT ![w] = r]
  BY DEF Goes
<1> HIDE DEF r
<1>4. work'[w] = r
  BY <1>3 DEF WorkOK
<1>5. \A n \in DOMAIN work[w].todo : n + 0 = n
  BY <1>1, SameTodo
<1>6. \E x \in Nat : \A n \in DOMAIN work'[w].todo :
        n + x \in DOMAIN work[w].todo /\ work'[w].todo[n] = work[w].todo[n + x]
  BY <1>2, <1>4, <1>5
<1> QED
  BY <1>1, <1>2, <1>4, <1>6 DEF Calm

\* The next entry is not past its task.
LEMMA CalmNext ==
  ASSUME WorkOK, NEW w \in Workers, work[w].step \in Acting, TakesNext(w)
  PROVE  /\ Calm(w)
         /\ work'[w] # Idle =>
              /\ work'[w].step # "advance"
              /\ work'[w].todo # <<>> => work'[w].todo = Tail(work[w].todo)
<1>1. work[w] \in Working /\ work[w] # Idle
  BY EntryType, IdleApart DEF Acting
<1>2. CASE Len(work[w].todo) > 1
  <2> DEFINE r == [work[w] EXCEPT !.step = "check", !.todo = Tail(work[w].todo)]
  <2>1. r.step = "check" /\ r.at = work[w].at /\ r.todo = Tail(work[w].todo)
    BY <1>1 DEF Working
  <2>2. work' = [work EXCEPT ![w] = r]
    BY <1>2 DEF TakesNext, Begins
  <2> HIDE DEF r
  <2>3. work'[w] = r
    BY <2>2 DEF WorkOK
  <2>4. work[w].todo \in Seq(Entry) /\ work[w].todo # <<>>
    BY <1>1, EntryType DEF Working
  <2>5. \A n \in DOMAIN Tail(work[w].todo) :
          n + 1 \in DOMAIN work[w].todo /\ Tail(work[w].todo)[n] = work[w].todo[n + 1]
    BY <1>2, <2>4
  <2>6. \E x \in Nat : \A n \in DOMAIN work'[w].todo :
          n + x \in DOMAIN work[w].todo /\ work'[w].todo[n] = work[w].todo[n + x]
    BY <2>1, <2>3, <2>5
  <2> QED
    BY <1>1, <2>1, <2>3, <2>6 DEF Calm
<1>3. CASE ~(Len(work[w].todo) > 1)
  <2>1. Ends(w)
    BY <1>3 DEF TakesNext
  <2>2. work'[w] # Idle => work'[w].step = "release" /\ work'[w].todo = <<>>
    BY <1>1, <2>1 DEF Ends, WorkOK, Working
  <2> QED
    BY <1>1, <2>1, <2>2, CalmEnd
<1> QED
  BY <1>2, <1>3

\* Nothing new is on a list.
LEMMA CalmEntries ==
  ASSUME NEW w \in Workers, Calm(w), work'[w] # Idle
  PROVE  Entries(w)' \subseteq Entries(w)
  BY DEF Calm, Entries

\* Nor is anything on it twice.
LEMMA CalmOnce ==
  ASSUME WorkOK, WorkOK', NEW w \in Workers, Calm(w), work'[w] # Idle, Once(w)
  PROVE  Once(w)'
<1>1. DOMAIN work'[w].todo \subseteq Nat
  <2>1. work'[w] \in Working
    BY IdleApart DEF WorkOK
  <2> QED
    BY <2>1 DEF Working
<1>2. PICK s \in Nat : \A n \in DOMAIN work'[w].todo :
        n + s \in DOMAIN work[w].todo /\ work'[w].todo[n] = work[w].todo[n + s]
  BY DEF Calm
<1> SUFFICES ASSUME NEW m \in DOMAIN work'[w].todo, NEW n \in DOMAIN work'[w].todo,
                    work'[w].todo[m].of[1] = work'[w].todo[n].of[1]
             PROVE  m = n
  BY DEF Once
<1>3. m + s = n + s
  BY <1>2 DEF Once
<1> QED
  BY <1>1, <1>3

\* What is left of the times when nothing new is held.
LEMMA ApartKept ==
  ASSUME NEW t \in Scheduled, Apart(t),
         Served(t)' => Served(t),
         \A k \in Times : Served(t)' /\ Ran(t, k) => Ran(t, k)',
         \A k \in Times : Held(t, k)' => Held(t, k)
  PROVE  Apart(t)'
  BY DEF Apart

\* The steps of the server that leave the schedules alone, and list nothing.
CalmStep ==
  /\ UNCHANGED <<byHand, next, config, draft>>
  /\ now' >= now
  /\ templates' \subseteq templates
  /\ projects' \subseteq projects
  /\ overruns' = 0 => overruns = 0
  /\ \A t \in Scheduled, k \in Times :
       /\ Ran(t, k)' => Ran(t, k) /\ runs'[<<t, k>>].project = runs[<<t, k>>].project
       /\ Served(t)' /\ Ran(t, k) /\ runs[<<t, k>>].project = config[t] => Ran(t, k)'
  /\ \A i \in Instances : Calm(i)
  /\ \A d \in Deliveries : Calm(d) \/ \A e \in Entries(d)' : e.of[1] \in OnIssue

\* The occasion of a schedule is a time.
LEMMA TimeOf ==
  ASSUME NEW o \in Occasions, o[1] \in Scheduled
  PROVE  o[2] \in Times /\ o = <<o[1], o[2]>>
  BY TriggersAssumption DEF Occasions

\* Such a step keeps the times as they are.
LEMMA SpacedCalm ==
  ASSUME TypeInv, TypeInv', SpacedInv, CalmStep
  PROVE  SpacedInv'
<1> USE TriggersAssumption
<1>0. Instances \subseteq Workers /\ Deliveries \subseteq Workers /\ WorkOK /\ WorkOK'
  BY DEF Workers, TypeInv
<1>1. ASSUME NEW d \in Deliveries, work'[d] # Idle, NEW e \in Entries(d)'
      PROVE  e.of[1] \in OnIssue
  <2>1. CASE Calm(d)
    <3>1. work[d] # Idle /\ Entries(d)' \subseteq Entries(d)
      BY <1>0, <1>1, <2>1, CalmEntries DEF Calm
    <3> QED
      BY <1>1, <3>1 DEF SpacedInv
  <2>2. CASE \A x \in Entries(d)' : x.of[1] \in OnIssue
    BY <1>1, <2>2
  <2> QED
    BY <2>1, <2>2 DEF CalmStep
<1>2. ASSUME overruns' = 0, NEW i \in Instances, work'[i] # Idle
      PROVE  Once(i)'
  BY <1>0, <1>2, CalmOnce DEF CalmStep, SpacedInv, Calm
<1>3. ASSUME overruns' = 0, NEW t \in Scheduled \ byHand
      PROVE  /\ Steady(t)'
             /\ Apart(t)'
             /\ \A i \in Instances : work'[i] # Idle => Timely(i, t)'
  <2>1. /\ Steady(t) /\ Apart(t)
        /\ \A i \in Instances : work[i] # Idle => Timely(i, t)
    BY <1>3 DEF CalmStep, SpacedInv
  <2>2. now \in Nat /\ now' \in Nat /\ next[t] \in Times /\ next'[t] = next[t] /\ config'[t] = config[t]
    BY <1>3, <2>1 DEF TypeInv, TypeOK, Steady, CalmStep
  <2>3. next[t] \in Nat /\ \A k \in Times : k \in Nat
    BY <2>2 DEF Times
  <2>4. Served(t)' => Served(t)
    BY <2>2 DEF Served, CalmStep
  <2>5. \A k \in Times : Ran(t, k)' => Ran(t, k) /\ runs'[<<t, k>>].project = runs[<<t, k>>].project
    BY DEF CalmStep
  <2>6. \A k \in Times : Served(t)' /\ Ran(t, k) => Ran(t, k)'
    BY <2>1 DEF CalmStep, Steady
  <2>7. \A i \in Instances : work'[i] # Idle => work[i] # Idle /\ Entries(i)' \subseteq Entries(i)
    BY <1>0, CalmEntries DEF CalmStep, Calm
  <2>8. Drafted(t)' <=> Drafted(t)
    BY DEF Drafted, CalmStep
  <2>9. \A k \in Times : Held(t, k)' => Held(t, k)
    BY <2>2, <2>5, <2>7, <2>8 DEF Held, CalmStep
  <2>10. Apart(t)'
    BY <1>3, <2>1, <2>4, <2>6, <2>9, ApartKept
  <2>11. Steady(t)'
    <3>1. \A k \in Times : Ran(t, k)' => k <= now' /\ runs'[<<t, k>>].project = config'[t]
      BY <2>1, <2>2, <2>3, <2>5 DEF Steady, CalmStep
    <3>2. next'[t] # None /\ next'[t] <= now' + Interval
      BY <2>1, <2>2, <2>3 DEF Steady, CalmStep
    <3>3. Drafted(t)' => draft'.next # None /\ draft'.next <= next'[t] /\ draft'.config = config'[t]
      BY <2>1, <2>2, <2>8 DEF Steady, CalmStep
    <3> QED
      BY <3>1, <3>2, <3>3 DEF Steady
  <2>12. ASSUME NEW i \in Instances, work'[i] # Idle
         PROVE  Timely(i, t)'
    <3>1. work[i] # Idle /\ work'[i].at = work[i].at /\ Timely(i, t) /\ Entries(i)' \subseteq Entries(i)
      BY <2>1, <2>7, <2>12 DEF CalmStep, Calm
    <3>2. work[i].at \in Nat
      BY <1>0, <3>1, SameTodo DEF Working
    <3>3. work'[i].at <= now' /\ next'[t] <= work'[i].at + Interval
      BY <2>2, <2>3, <3>1, <3>2 DEF Timely, CalmStep
    <3>4. \A k \in Times : Ran(t, k)' => k <= work'[i].at
      BY <2>5, <3>1 DEF Timely
    <3>5. \A e \in Entries(i)' : e.of[1] = t => /\ e.of[2] <= work'[i].at
                                                /\ next'[t] <= e.of[2]
                                                /\ e.project = config'[t]
      BY <2>2, <3>1 DEF Timely
    <3>6. ASSUME At(i, "advance")', Template(i)' = t, Served(t)'
          PROVE  runs'[Occasion(i)'] # NoRun
      <4>1. work'[i].todo = work[i].todo /\ (At(i, "advance") \/ runs'[Occasion(i)] # NoRun)
        BY <2>12, <3>6 DEF At, CalmStep, Calm
      <4>2. Occasion(i)' = Occasion(i) /\ Template(i) = t
        BY <3>6, <4>1 DEF Occasion, Template, Current
      <4>3. CASE At(i, "advance")
        <5>1. Occasion(i) \in Occasions
          BY <1>0, <4>3, EntryType DEF At, Acting
        <5>2. PICK k \in Times : Occasion(i) = <<t, k>>
          BY <4>2, <5>1, TimeOf DEF Template
        <5>3. Ran(t, k)
          BY <2>4, <3>1, <3>6, <4>2, <4>3, <5>2 DEF Timely, Ran
        <5>4. runs'[<<t, k>>] # NoRun
          BY <2>6, <3>6, <5>3 DEF Ran
        <5> QED
          BY <4>2, <5>2, <5>4
      <4> QED
        BY <4>1, <4>2, <4>3
    <3> QED
      BY <3>3, <3>4, <3>5, <3>6 DEF Timely
  <2> QED
    BY <2>10, <2>11, <2>12
<1>4. byHand' = byHand
  BY DEF CalmStep
<1> QED
  BY <1>1, <1>2, <1>3, <1>4 DEF SpacedInv

\* Most steps are calm.
LEMMA FaultCalm ==
  ASSUME TypeInv, NEW w \in Workers, StatementFails(w) \/ Crash(w)
  PROVE  CalmStep
<1>0. WorkOK /\ Instances \subseteq Workers /\ Deliveries \subseteq Workers /\ work[w] # Idle
  BY DEF TypeInv, Workers, StatementFails, Crash
<1>1. UNCHANGED <<clockVars, rowVars, runs, draft, overruns>>
  BY DEF StatementFails, Crash
<1>2. Calm(w)
  <2>1. CASE work' = [work EXCEPT ![w] = Idle]
    BY <1>0, <2>1, CalmIdle DEF WorkOK
  <2>2. CASE StatementFails(w) /\ At(w, "create")
    <3>1. Goes(w, "fail") /\ work[w].step \in Acting /\ "fail" \in Acting
      BY <2>2 DEF StatementFails, At, Acting
    <3> QED
      BY <1>0, <3>1, CalmGoes
  <2>3. CASE StatementFails(w) /\ Ends(w)
    BY <1>0, <2>3, CalmEnd
  <2>4. CASE StatementFails(w) /\ ~At(w, "create") /\ ~At(w, "release")
    BY <2>3, <2>4 DEF StatementFails
  <2>5. CASE StatementFails(w) /\ At(w, "release")
    BY <2>1, <2>5 DEF StatementFails, At
  <2> QED
    BY <2>1, <2>2, <2>4, <2>5 DEF Crash
<1>3. \A v \in Workers : Calm(v)
  BY <1>0, <1>2, FaultStep, CalmSame
<1>4. now' >= now
  BY <1>1 DEF clockVars, TypeInv, TypeOK
<1> QED
  BY <1>0, <1>1, <1>3, <1>4 DEF CalmStep, clockVars, rowVars, Ran

\* A mark leaves a row where it is.
LEMMA MarkKeeps ==
  ASSUME TypeInv, NEW w \in Workers, work[w].step \in Acting, NEW s \in {"completed", "failed"},
         Marked(w, s), NEW o \in Occasions
  PROVE  /\ runs'[o] # NoRun <=> runs[o] # NoRun
         /\ runs[o] # NoRun => runs'[o].project = runs[o].project
<1>1. CASE Mine(w) /\ o = Occasion(w)
  <2>1. runs[o] \in RunRows /\ runs[o] # NoRun
    BY <1>1 DEF Mine, TypeInv, TypeOK
  <2> DEFINE r == [runs[o] EXCEPT !.status = s]
  <2>2. r.project = runs[o].project /\ r.status # "none"
    BY <2>1 DEF RunRows
  <2>3. runs' = [runs EXCEPT ![o] = r]
    BY <1>1 DEF Marked
  <2> HIDE DEF r
  <2>4. runs'[o] = r
    BY <2>3 DEF TypeInv, TypeOK
  <2> QED
    BY <2>1, <2>2, <2>4 DEF NoRun
<1>2. CASE Mine(w) /\ o # Occasion(w)
  BY <1>2 DEF Marked, TypeInv, TypeOK
<1>3. CASE ~Mine(w)
  BY <1>3 DEF Marked
<1> QED
  BY <1>1, <1>2, <1>3

\* Unless a job inserts a run.
LEMMA WorkerCalm ==
  ASSUME TypeInv, SpacedInv, NEW w \in Workers, OfWorker(w),
         ~(w \in Instances /\ InsertRun(w) /\ Insertable(w))
  PROVE  CalmStep
<1> USE TriggersAssumption
<1>0. WorkOK /\ Instances \subseteq Workers /\ Deliveries \subseteq Workers
  BY DEF TypeInv, Workers
<1>1. work[w].step \in Acting /\ work[w] # Idle /\ \A v \in Workers \ {w} : work'[v] = work[v]
  BY WorkerStep, IdleApart DEF Acting
<1>2. UNCHANGED <<clockVars, rowVars, draft, counters>>
  BY DEF OfWorker, Check, GetProject, InsertRun, CreateTask, MarkFailed, MarkCompleted
<1>3. Current(w) \in Entry /\ Occasion(w) \in Occasions
  BY <1>0, <1>1, EntryType
<1>4. \A t \in Scheduled, k \in Times : <<t, k>> \in Occasions
  BY DEF Occasions
<1>5. \A t \in Scheduled, k \in Times :
        /\ Ran(t, k)' <=> Ran(t, k)
        /\ Ran(t, k) => runs'[<<t, k>>].project = runs[<<t, k>>].project
  <2>1. CASE UNCHANGED runs
    BY <2>1 DEF Ran
  <2>2. CASE MarkFailed(w) \/ MarkCompleted(w)
    <3>1. Marked(w, "failed") \/ Marked(w, "completed")
      BY <2>2 DEF MarkFailed, MarkCompleted
    <3> QED
      BY <1>1, <1>4, <3>1, MarkKeeps DEF Ran
  <2>3. CASE InsertRun(w) /\ Insertable(w)
    <3>1. w \in Deliveries
      BY <2>3 DEF Workers
    <3>2. work[w].todo # <<>> /\ work[w].todo \in Seq(Entry)
      BY <1>0, <1>1, EntryType, SameTodo
    <3>3. Current(w) \in Entries(w)
      BY <3>2 DEF Current, Entries
    <3>4. Occasion(w)[1] \notin Scheduled
      BY <1>1, <3>1, <3>3 DEF SpacedInv, Occasion
    <3> DEFINE r == [status |-> "started", project |-> Current(w).project]
    <3>5. runs' = [runs EXCEPT ![Occasion(w)] = r]
      BY <2>3 DEF InsertRun
    <3> HIDE DEF r
    <3>6. \A t \in Scheduled, k \in Times : runs'[<<t, k>>] = runs[<<t, k>>]
      <4> SUFFICES ASSUME NEW t \in Scheduled, NEW k \in Times
                   PROVE  runs'[<<t, k>>] = runs[<<t, k>>]
        OBVIOUS
      <4>1. <<t, k>>[1] = t /\ <<t, k>> \in Occasions
        BY <1>4
      <4>2. <<t, k>> # Occasion(w)
        BY <3>4, <4>1
      <4> QED
        BY <3>5, <4>1, <4>2 DEF TypeInv, TypeOK
    <3> QED
      BY <3>6 DEF Ran
  <2> QED
    BY <2>1, <2>2, <2>3 DEF OfWorker, Check, GetProject, InsertRun, CreateTask
<1>6. Calm(w)
  <2>1. CASE Ends(w)
    BY <1>0, <1>1, <2>1, CalmEnd
  <2>2. CASE TakesNext(w)
    BY <1>0, <1>1, <2>2, CalmNext
  <2>3. ASSUME Goes(w, "advance"), runs'[Occasion(w)] # NoRun
        PROVE  Calm(w)
    BY <1>0, <1>1, <2>3, CalmGoes DEF Acting
  <2>4. CASE \E s \in {"project", "insert", "create", "complete", "fail"} : Goes(w, s)
    BY <1>0, <1>1, <2>4, CalmGoes DEF Acting
  <2>5. CASE Check(w)
    BY <2>1, <2>2, <2>3, <2>4, <2>5 DEF Check, Answered, FindsRun
  <2>6. CASE MarkCompleted(w)
    <3>1. Marked(w, "completed")
      BY <2>6 DEF MarkCompleted
    <3>2. runs[Occasion(w)] # NoRun => runs'[Occasion(w)] # NoRun
      BY <1>1, <1>3, <3>1, MarkKeeps
    <3> QED
      BY <2>1, <2>2, <2>3, <2>6, <3>2 DEF MarkCompleted, Answered, Mine
  <2>7. CASE GetProject(w) \/ InsertRun(w) \/ CreateTask(w) \/ MarkFailed(w)
    BY <2>1, <2>4, <2>7 DEF GetProject, InsertRun, CreateTask, MarkFailed
  <2> QED
    BY <2>5, <2>6, <2>7 DEF OfWorker
<1>7. \A v \in Workers : Calm(v)
  BY <1>0, <1>1, <1>6, CalmSame
<1>8. UNCHANGED <<byHand, next, config, draft, now, templates, projects, overruns>>
  BY <1>2 DEF clockVars, rowVars, counters
<1>9. now' >= now
  BY <1>8 DEF TypeInv, TypeOK
<1> QED
  BY <1>0, <1>5, <1>7, <1>8, <1>9 DEF CalmStep

\* What is deleted takes its own runs with it.
LEMMA DeletionCalm ==
  ASSUME TypeInv, \/ \E t \in Templates : DeleteTemplate(t)
                  \/ \E p \in Projects : DeleteProject(p)
  PROVE  CalmStep
<1> USE TriggersAssumption
<1>0. WorkOK /\ Instances \subseteq Workers /\ Deliveries \subseteq Workers
      /\ \A t \in Scheduled, k \in Times : <<t, k>> \in Occasions /\ <<t, k>>[1] = t
  BY DEF TypeInv, Workers, Occasions
<1>1. ASSUME NEW t \in Templates, DeleteTemplate(t)
      PROVE  CalmStep
  <2>1. \A o \in Occasions : runs'[o] = IF o[1] = t THEN NoRun ELSE runs[o]
    BY <1>1 DEF DeleteTemplate
  <2>2. \A v \in Workers : Calm(v)
    BY <1>0, <1>1, CalmSame DEF DeleteTemplate
  <2>3. \A u \in Scheduled, k \in Times :
          /\ Ran(u, k)' => Ran(u, k) /\ runs'[<<u, k>>].project = runs[<<u, k>>].project
          /\ u # t /\ Ran(u, k) => Ran(u, k)'
    BY <1>0, <2>1 DEF Ran
  <2>4. \A u \in Scheduled : Served(u)' => u # t
    BY <1>1 DEF Served, DeleteTemplate
  <2>5. /\ UNCHANGED <<byHand, next, config, draft, now, projects, overruns>>
        /\ templates' \subseteq templates
    BY <1>1 DEF DeleteTemplate, clockVars
  <2>6. now' >= now
    BY <2>5 DEF TypeInv, TypeOK
  <2>7. \A u \in Scheduled, k \in Times :
          Served(u)' /\ Ran(u, k) /\ runs[<<u, k>>].project = config[u] => Ran(u, k)'
    BY <2>3, <2>4
  <2> QED
    BY <1>0, <2>2, <2>3, <2>5, <2>6, <2>7 DEF CalmStep
<1>2. ASSUME NEW p \in Projects, DeleteProject(p)
      PROVE  CalmStep
  <2>1. \A o \in Occasions : runs'[o] = IF runs[o] # NoRun /\ runs[o].project = p
                                        THEN NoRun ELSE runs[o]
    BY <1>2 DEF DeleteProject
  <2>2. \A v \in Workers : Calm(v)
    BY <1>0, <1>2, CalmSame DEF DeleteProject
  <2>3. \A u \in Scheduled, k \in Times :
          /\ Ran(u, k)' => Ran(u, k) /\ runs'[<<u, k>>].project = runs[<<u, k>>].project
          /\ Ran(u, k) /\ runs[<<u, k>>].project # p => Ran(u, k)'
    BY <1>0, <2>1 DEF Ran
  <2>4. \A u \in Scheduled : Served(u)' => config[u] # p
    BY <1>2 DEF Served, DeleteProject
  <2>5. /\ UNCHANGED <<byHand, next, config, draft, now, templates, overruns>>
        /\ projects' \subseteq projects
    BY <1>2 DEF DeleteProject, clockVars
  <2>6. now' >= now
    BY <2>5 DEF TypeInv, TypeOK
  <2>7. \A u \in Scheduled, k \in Times :
          Served(u)' /\ Ran(u, k) /\ runs[<<u, k>>].project = config[u] => Ran(u, k)'
    BY <2>3, <2>4
  <2> QED
    BY <1>0, <2>2, <2>3, <2>5, <2>6, <2>7 DEF CalmStep
<1> QED
  BY <1>1, <1>2

\* So are the clock, the lock that goes, and a delivery that comes.
LEMMA OtherCalm ==
  ASSUME TypeInv, \/ Tick
                  \/ Expire
                  \/ \E i \in Instances : Release(i)
                  \/ \E d \in Deliveries : Deliver(d)
                  \/ UNCHANGED vars
  PROVE  CalmStep
<1> USE TriggersAssumption
<1>0. WorkOK /\ Instances \subseteq Workers /\ Deliveries \subseteq Workers /\ now \in Nat
      /\ overruns \in Nat
  BY DEF TypeInv, TypeOK, Workers
<1>1. ASSUME \A i \in Instances : Calm(i),
             \A d \in Deliveries : Calm(d) \/ \A e \in Entries(d)' : e.of[1] \in OnIssue,
             UNCHANGED <<byHand, rowVars, runs, draft>>, now' \in {now, now + 1},
             overruns' \in {overruns, overruns + 1}
      PROVE  CalmStep
  BY <1>0, <1>1 DEF CalmStep, rowVars, Ran
<1>2. CASE Tick \/ Expire \/ UNCHANGED vars
  <2>1. \A v \in Workers : Calm(v)
    BY <1>0, <1>2, CalmSame DEF Tick, Expire, vars
  <2> QED
    BY <1>0, <1>1, <1>2, <2>1 DEF Tick, Expire, vars, clockVars, rowVars, counters
<1>3. ASSUME NEW i \in Instances, Release(i)
      PROVE  CalmStep
  <2>1. work'[i] = Idle /\ \A v \in Workers \ {i} : work'[v] = work[v]
    BY <1>0, <1>3, LockStep DEF Release, WorkOK
  <2>2. \A v \in Workers : Calm(v)
    BY <1>0, <2>1, CalmSame, CalmIdle
  <2> QED
    BY <1>0, <1>1, <1>3, <2>2 DEF Release, clockVars, counters
<1>4. ASSUME NEW d \in Deliveries, Deliver(d)
      PROVE  CalmStep
  <2>1. \A v \in Workers \ {d} : Calm(v)
    BY <1>0, <1>4, DeliverStep, CalmSame
  <2> DEFINE size == Cardinality(OnIssue \cap templates)
  <2>2. PICK listed \in [1..size -> OnIssue \cap templates] :
          work' = [work EXCEPT ![d] =
            [step |-> "check", at |-> 0,
             todo |-> [n \in 1..size |->
               [of |-> <<listed[n], Issue>>, project |-> config[listed[n]]]]]]
    BY <1>4 DEF Deliver
  <2> HIDE DEF size
  <2>3. work'[d].todo = [n \in 1..size |-> [of |-> <<listed[n], Issue>>, project |-> config[listed[n]]]]
    BY <1>0, <2>2 DEF WorkOK
  <2>4. ASSUME NEW e \in Entries(d)'
        PROVE  e.of[1] \in OnIssue
    <3>1. PICK n \in 1..size : e = work'[d].todo[n]
      BY <2>3, <2>4 DEF Entries
    <3>2. e.of = <<listed[n], Issue>>
      BY <2>3, <3>1
    <3> QED
      BY <2>2, <3>1, <3>2
  <2> QED
    BY <1>0, <1>1, <1>4, <2>1, <2>4 DEF Deliver, clockVars, rowVars, counters
<1> QED
  BY <1>2, <1>3, <1>4

\* Without an overrun one job is at work.
LEMMA OnlyJob ==
  ASSUME LockInv, overruns = 0, NEW i \in Instances, NEW j \in Instances,
         work[i] # Idle, work[j] # Idle
  PROVE  i = j
  BY DEF LockInv

\* A job begins at a time that no run is after.
LEMMA AcquireSpaced ==
  ASSUME TypeInv, LockInv, SpacedInv, NEW i \in Instances, Acquire(i)
  PROVE  SpacedInv'
<1> USE TriggersAssumption
<1>0. WorkOK /\ Instances \subseteq Workers /\ Deliveries \subseteq Workers /\ i \notin Deliveries
  BY DEF TypeInv, Workers
<1>1. UNCHANGED <<clockVars, rowVars, runs, draft, counters>>
  BY DEF Acquire
<1>2. \A v \in Workers \ {i} : work'[v] = work[v]
  BY LockStep
<1> DEFINE r == [step |-> "list", at |-> now, todo |-> <<>>]
<1>3. r.step = "list" /\ r.at = now /\ r.todo = <<>>
  OBVIOUS
<1>4. work'[i] = r
  BY <1>0 DEF Acquire, WorkOK
<1> HIDE DEF r
<1>5. DOMAIN work'[i].todo = {} /\ Entries(i)' = {} /\ work'[i].at = now /\ ~At(i, "advance")'
  BY <1>3, <1>4 DEF Entries, At
<1>6. \A d \in Deliveries : work'[d] # Idle => \A e \in Entries(d)' : e.of[1] \in OnIssue
  BY <1>0, <1>2 DEF SpacedInv, Entries
<1>7. ASSUME overruns' = 0
      PROVE  /\ \A j \in Instances : work'[j] # Idle => Once(j)'
             /\ \A t \in Scheduled \ byHand' :
                  /\ Steady(t)'
                  /\ Apart(t)'
                  /\ \A j \in Instances : work'[j] # Idle => Timely(j, t)'
  <2>1. overruns = 0
    BY <1>1, <1>7 DEF counters
  <2>2. \A j \in Instances : work'[j] # Idle => j = i
    <3> SUFFICES ASSUME NEW j \in Instances, work'[j] # Idle, j # i
                 PROVE  FALSE
      OBVIOUS
    <3>1. work[j] # Idle
      BY <1>0, <1>2
    <3> QED
      BY <2>1, <3>1 DEF LockInv, Acquire
  <2>3. Once(i)'
    BY <1>5 DEF Once
  <2>4. ASSUME NEW t \in Scheduled \ byHand'
        PROVE  Steady(t)' /\ Apart(t)' /\ Timely(i, t)'
    <3>1. Steady(t) /\ Apart(t)
      BY <1>1, <2>1 DEF SpacedInv, clockVars
    <3>2. Steady(t)'
      BY <1>1, <3>1 DEF Steady, Ran, Drafted, clockVars, rowVars
    <3>3. \A k \in Times : Held(t, k)' => Held(t, k)
      BY <1>1, <1>5, <2>2 DEF Held, Ran, Drafted, rowVars
    <3>4. Apart(t)'
      BY <1>1, <3>1, <3>3, ApartKept DEF Served, Ran, rowVars
    <3>5. Timely(i, t)'
      <4>1. now \in Nat /\ now' = now
        BY <1>1 DEF TypeInv, TypeOK, clockVars
      <4>2. /\ next'[t] <= now' + Interval
            /\ \A k \in Times : Ran(t, k)' => k <= now'
        BY <3>2 DEF Steady
      <4>3. work'[i].at <= now'
        BY <1>5, <4>1
      <4> QED
        BY <1>5, <4>1, <4>2, <4>3 DEF Timely
    <3> QED
      BY <3>2, <3>4, <3>5
  <2> QED
    BY <2>2, <2>3, <2>4
<1> QED
  BY <1>6, <1>7 DEF SpacedInv

\* A run is inserted for a time that was held.
LEMMA InsertSpaced ==
  ASSUME TypeInv, TypeInv', LockInv, SpacedInv,
         NEW i \in Instances, InsertRun(i), Insertable(i)
  PROVE  SpacedInv'
<1> USE TriggersAssumption
<1>0. WorkOK /\ WorkOK' /\ Instances \subseteq Workers /\ Deliveries \subseteq Workers /\ i \notin Deliveries
      /\ \A t \in Scheduled, k \in Times : <<t, k>> \in Occasions /\ <<t, k>>[1] = t /\ <<t, k>>[2] = k
  BY DEF TypeInv, Workers, Occasions
<1>1. UNCHANGED <<clockVars, rowVars, draft, counters>>
  BY DEF InsertRun
<1>2. work[i].step \in Acting /\ Goes(i, "create") /\ "create" \in Acting
  BY DEF InsertRun, At, Acting
<1>3. /\ work'[i].step = "create"
      /\ work'[i].todo = work[i].todo
      /\ \A v \in Workers \ {i} : work'[v] = work[v]
  BY <1>0, <1>2, GoesStep
<1>4. Calm(i)
  BY <1>0, <1>2, CalmGoes
<1>5. work[i] # Idle /\ work[i].todo \in Seq(Entry) /\ work[i].todo # <<>>
  BY <1>0, <1>2, EntryType, SameTodo, IdleApart DEF Acting
<1>6. Current(i) \in Entries(i) /\ Occasion(i) \in Occasions
  BY <1>0, <1>2, <1>5, EntryType DEF Current, Entries
<1> DEFINE o == Occasion(i)
           r == [status |-> "started", project |-> Current(i).project]
<1>7. r # NoRun /\ r.project = Current(i).project
  BY DEF NoRun
<1>8. runs' = [runs EXCEPT ![o] = r]
  BY DEF InsertRun
<1>9. Current(i).of = o
  BY DEF Occasion
<1> HIDE DEF r, o
<1>10. \A d \in Deliveries : work'[d] # Idle => \A e \in Entries(d)' : e.of[1] \in OnIssue
  BY <1>0, <1>3 DEF SpacedInv, Entries
<1>11. ASSUME overruns' = 0
       PROVE  /\ \A j \in Instances : work'[j] # Idle => Once(j)'
              /\ \A t \in Scheduled \ byHand' :
                   /\ Steady(t)'
                   /\ Apart(t)'
                   /\ \A j \in Instances : work'[j] # Idle => Timely(j, t)'
  <2>1. overruns = 0
    BY <1>1, <1>11 DEF counters
  <2>2. \A j \in Instances : work'[j] # Idle => j = i
    BY <1>0, <1>3, <1>5, <2>1, OnlyJob
  <2>3. \A j \in Instances : work'[j] # Idle => Once(j)'
    BY <1>0, <1>4, <1>5, <2>1, <2>2, CalmOnce DEF SpacedInv
  <2>4. ASSUME NEW t \in Scheduled \ byHand'
        PROVE  Steady(t)' /\ Apart(t)' /\ (work'[i] # Idle => Timely(i, t)')
    <3>1. Steady(t) /\ Apart(t) /\ Timely(i, t)
      BY <1>1, <1>5, <2>1, <2>4 DEF SpacedInv, clockVars
    <3>2. \A k \in Times : /\ <<t, k>> = o => runs'[<<t, k>>] = r
                           /\ <<t, k>> # o => runs'[<<t, k>>] = runs[<<t, k>>]
      BY <1>0, <1>8 DEF TypeInv, TypeOK
    <3>3. \A k \in Times : Ran(t, k)' <=> Ran(t, k) \/ <<t, k>> = o
      BY <1>7, <3>2 DEF Ran
    <3>4. ASSUME NEW k \in Times, <<t, k>> = o
          PROVE  /\ Current(i).of = <<t, k>>
                 /\ k <= work[i].at
                 /\ Current(i).project = config[t]
      <4>1. Current(i).of = <<t, k>> /\ Current(i).of[1] = t /\ Current(i).of[2] = k
        BY <1>0, <1>9, <3>4
      <4> QED
        BY <1>6, <3>1, <4>1 DEF Timely
    <3>5. \A k \in Times : Held(t, k)' => Held(t, k)
      <4> SUFFICES ASSUME NEW k \in Times, Held(t, k)'
                   PROVE  Held(t, k)
        OBVIOUS
      <4>1. CASE Ran(t, k)'
        BY <1>5, <1>6, <3>3, <3>4, <4>1 DEF Held
      <4>2. CASE next'[t] = k \/ (Drafted(t)' /\ draft'.next = k)
        BY <1>1, <4>2 DEF Held, Drafted, rowVars
      <4>3. ASSUME NEW j \in Instances, work'[j] # Idle, NEW e \in Entries(j)', e.of = <<t, k>>
            PROVE  Held(t, k)
        <5>1. j = i /\ e \in Entries(i)
          BY <1>3, <2>2, <4>3 DEF Entries
        <5> QED
          BY <1>5, <4>3, <5>1 DEF Held
      <4> QED
        BY <4>1, <4>2, <4>3 DEF Held
    <3>6. Apart(t)'
      BY <1>1, <3>1, <3>3, <3>5, ApartKept DEF Served, rowVars
    <3>7. work[i].at \in Nat /\ now \in Nat /\ \A k \in Times : k \in Nat
      BY <1>0, <1>5, SameTodo DEF Working, TypeInv, TypeOK, Times
    <3>8. \A k \in Times : Ran(t, k)' => /\ k <= work[i].at
                                         /\ runs'[<<t, k>>].project = config[t]
      BY <1>7, <3>1, <3>2, <3>3, <3>4 DEF Timely, Steady
    <3>9. work[i].at <= now
      BY <3>1 DEF Timely
    <3>10. Steady(t)'
      BY <1>1, <3>1, <3>7, <3>8, <3>9 DEF Steady, Drafted, clockVars, rowVars
    <3>11. ASSUME work'[i] # Idle
           PROVE  Timely(i, t)'
      <4>1. work'[i].at = work[i].at /\ Entries(i)' = Entries(i) /\ ~At(i, "advance")'
        BY <1>3, <1>4, <3>11 DEF Calm, Entries, At
      <4> QED
        BY <1>1, <3>1, <3>8, <4>1 DEF Timely, clockVars, rowVars
    <3> QED
      BY <3>6, <3>10, <3>11
  <2> QED
    BY <2>2, <2>3, <2>4
<1> QED
  BY <1>10, <1>11 DEF SpacedInv

\* A job lists each schedule that is due once, with the time that is next.
LEMMA ListDueSpaced ==
  ASSUME TypeInv, TypeInv', LockInv, SpacedInv, NEW i \in Instances, ListDue(i)
  PROVE  SpacedInv'
<1> USE TriggersAssumption
<1>0. WorkOK /\ WorkOK' /\ Instances \subseteq Workers /\ Deliveries \subseteq Workers /\ i \notin Deliveries
  BY DEF TypeInv, Workers
<1>1. UNCHANGED <<clockVars, rowVars, runs, draft, counters>>
  BY DEF ListDue
<1>2. \A v \in Workers \ {i} : work'[v] = work[v]
  BY ListDueStep
<1>3. work[i] # Idle /\ work[i] \in Working
  BY <1>0, IdleApart, SameTodo DEF ListDue, At
<1> DEFINE due == {t \in Scheduled : DueAt(t, work[i].at)}
<1>4. PICK size \in 0..Batch : \E listed \in [1..size -> due] :
        /\ \A m, n \in 1..size : m < n => Before(listed[m], listed[n])
        /\ IF size = 0
           THEN Ends(i)
           ELSE Begins(i, [n \in 1..size |->
                  [of |-> Key(i, listed[n]), project |-> config[listed[n]]]])
  BY DEF ListDue
<1>5. PICK listed \in [1..size -> due] :
        /\ \A m, n \in 1..size : m < n => Before(listed[m], listed[n])
        /\ IF size = 0
           THEN Ends(i)
           ELSE Begins(i, [n \in 1..size |->
                  [of |-> Key(i, listed[n]), project |-> config[listed[n]]]])
  BY <1>4
<1>6. \A t \in Scheduled : next[t] # None => next[t] \in Nat
  BY DEF TypeInv, TypeOK, Times
<1>7. CASE size = 0
  <2>1. \A v \in Workers : Calm(v)
    BY <1>0, <1>2, <1>3, <1>5, <1>7, CalmEnd, CalmSame
  <2>2. now' >= now
    BY <1>1 DEF clockVars, TypeInv, TypeOK
  <2>3. CalmStep
    BY <1>0, <1>1, <2>1, <2>2 DEF CalmStep, clockVars, rowVars, counters, Ran
  <2> QED
    BY <2>3, SpacedCalm
<1>8. CASE size # 0
  <2> DEFINE todo == [n \in 1..size |-> [of |-> Key(i, listed[n]), project |-> config[listed[n]]]]
             r    == [work[i] EXCEPT !.step = "check", !.todo = todo]
  <2>1. r.step = "check" /\ r.at = work[i].at /\ r.todo = todo
    BY <1>3 DEF Working
  <2>2. work' = [work EXCEPT ![i] = r]
    BY <1>5, <1>8 DEF Begins
  <2> HIDE DEF r
  <2>3. work'[i] = r
    BY <1>0, <2>2 DEF WorkOK
  <2>4. work'[i].todo = todo /\ work'[i].at = work[i].at /\ ~At(i, "advance")'
    BY <2>1, <2>3 DEF At
  <2>5. ASSUME NEW n \in 1..size
        PROVE  /\ listed[n] \in Scheduled
               /\ next[listed[n]] \in Nat
               /\ next[listed[n]] <= work[i].at
               /\ todo[n].of[1] = listed[n]
               /\ todo[n].of[2] = next[listed[n]]
               /\ todo[n].project = config[listed[n]]
    <3>1. listed[n] \in due
      BY <1>5
    <3>2. listed[n] \in Scheduled /\ next[listed[n]] # None /\ next[listed[n]] <= work[i].at
      BY <3>1 DEF DueAt
    <3>3. next[listed[n]] \in Nat
      BY <1>6, <3>2
    <3> QED
      BY <3>2, <3>3 DEF Key
  <2>6. \A m, n \in 1..size : listed[m] = listed[n] => m = n
    <3> SUFFICES ASSUME NEW m \in 1..size, NEW n \in 1..size, m < n
                 PROVE  listed[m] # listed[n]
      OBVIOUS
    <3>1. Before(listed[m], listed[n])
      BY <1>5
    <3>2. listed[m] \in Nat /\ next[listed[m]] \in Nat
      BY <2>5
    <3> QED
      BY <3>1, <3>2 DEF Before
  <2>7. DOMAIN todo = 1..size
    OBVIOUS
  <2> HIDE DEF todo, due
  <2>8. Once(i)'
    BY <2>4, <2>5, <2>6, <2>7 DEF Once
  <2>9. ASSUME NEW e \in Entries(i)'
        PROVE  \E n \in 1..size : e = todo[n]
    BY <2>4, <2>7, <2>9 DEF Entries
  <2>10. \A d \in Deliveries : work'[d] # Idle => \A e \in Entries(d)' : e.of[1] \in OnIssue
    BY <1>0, <1>2 DEF SpacedInv, Entries
  <2>11. ASSUME overruns' = 0
         PROVE  /\ \A j \in Instances : work'[j] # Idle => Once(j)'
                /\ \A t \in Scheduled \ byHand' :
                     /\ Steady(t)'
                     /\ Apart(t)'
                     /\ \A j \in Instances : work'[j] # Idle => Timely(j, t)'
    <3>1. overruns = 0
      BY <1>1, <2>11 DEF counters
    <3>2. \A j \in Instances : work'[j] # Idle => j = i
      BY <1>0, <1>2, <1>3, <3>1, OnlyJob
    <3>3. ASSUME NEW t \in Scheduled \ byHand'
          PROVE  Steady(t)' /\ Apart(t)' /\ Timely(i, t)'
      <4>1. Steady(t) /\ Apart(t) /\ Timely(i, t)
        BY <1>1, <1>3, <3>1, <3>3 DEF SpacedInv, clockVars
      <4>2. Steady(t)'
        BY <1>1, <4>1 DEF Steady, Ran, Drafted, clockVars, rowVars
      <4>3. \A e \in Entries(i)' : e.of[1] = t => /\ e.of[2] = next[t]
                                                  /\ next[t] \in Nat
                                                  /\ next[t] <= work[i].at
                                                  /\ e.project = config[t]
        BY <2>5, <2>9
      <4>4. Timely(i, t)'
        BY <1>1, <2>4, <4>1, <4>3 DEF Timely, Ran, clockVars, rowVars
      <4>5. \A k \in Times : Held(t, k)' => Held(t, k)
        <5> SUFFICES ASSUME NEW k \in Times, Held(t, k)'
                     PROVE  Held(t, k)
          OBVIOUS
        <5>1. CASE Ran(t, k)' \/ next'[t] = k \/ (Drafted(t)' /\ draft'.next = k)
          BY <1>1, <5>1 DEF Held, Drafted, Ran, rowVars
        <5>2. ASSUME NEW j \in Instances, work'[j] # Idle, NEW e \in Entries(j)', e.of = <<t, k>>
              PROVE  Held(t, k)
          <6>1. e \in Entries(i)' /\ e.of[1] = t /\ e.of[2] = k
            BY <3>2, <5>2
          <6> QED
            BY <4>3, <6>1 DEF Held
        <5> QED
          BY <5>1, <5>2 DEF Held
      <4>6. Apart(t)'
        BY <1>1, <4>1, <4>5, ApartKept DEF Served, Ran, rowVars
      <4> QED
        BY <4>2, <4>4, <4>6
    <3> QED
      BY <2>8, <3>2, <3>3
  <2> QED
    BY <2>10, <2>11 DEF SpacedInv
<1> QED
  BY <1>7, <1>8

\* A schedule is advanced when every time that is held has a run.
LEMMA AdvanceApart ==
  ASSUME TypeInv, NEW i \in Instances, work[i] # Idle, At(i, "advance"),
         NEW t \in Scheduled, Template(i) = t, Served(t), Steady(t), Apart(t), Timely(i, t)
  PROVE  /\ Drafted(t) => Ran(t, draft.next) /\ draft.next <= work[i].at
         /\ Drafted(t) => draft.next \in Times
<1> SUFFICES ASSUME Drafted(t)
             PROVE  Ran(t, draft.next) /\ draft.next <= work[i].at /\ draft.next \in Times
  OBVIOUS
<1>0. WorkOK /\ i \in Workers
  BY DEF TypeInv, Workers
<1>1. /\ work[i].step \in Acting /\ work[i] \in Working
      /\ Occasion(i) \in Occasions /\ work[i].todo # <<>> /\ work[i].todo \in Seq(Entry)
  BY <1>0, EntryType, SameTodo DEF At, Acting
<1>2. Current(i) \in Entries(i) /\ Current(i).of = Occasion(i) /\ Occasion(i)[1] = t
  BY <1>1 DEF Current, Entries, Occasion, Template
<1>3. PICK k \in Times : Occasion(i) = <<t, k>>
  BY <1>1, <1>2, TimeOf
<1>4. Current(i).of[1] = t /\ Current(i).of[2] = k
  BY <1>2, <1>3
<1>5. next[t] <= k /\ k <= work[i].at
  BY <1>2, <1>4 DEF Timely
<1>6. Ran(t, k)
  BY <1>3 DEF Timely, Ran
<1>7. draft.next # None /\ draft.next <= next[t]
  BY DEF Steady
<1>8. draft.next \in Times /\ next[t] \in Times
  BY <1>7 DEF Drafted, Steady, TypeInv, TypeOK
<1>9. \A x \in Times : x \in Nat
  BY DEF Times
<1>10. work[i].at \in Nat
  BY <1>1 DEF Working
<1>11. draft.next <= k
  BY <1>5, <1>7, <1>8, <1>9
<1>12. Held(t, draft.next) /\ Held(t, k)
  BY <1>6 DEF Held
<1>13. Ran(t, draft.next)
  BY <1>6, <1>8, <1>9, <1>11, <1>12 DEF Apart
<1> QED
  BY <1>5, <1>8, <1>9, <1>10, <1>11, <1>13

\* The list of a job has no other entry of the schedule that it advances.
LEMMA NotAgain ==
  ASSUME TypeInv, NEW i \in Instances, work[i] # Idle, At(i, "advance"), Once(i), TakesNext(i),
         work'[i] # Idle, NEW e \in Entries(i)'
  PROVE  e.of[1] # Template(i)
<1>0. WorkOK /\ i \in Workers /\ work[i].step \in Acting
  BY DEF TypeInv, Workers, At, Acting
<1>1. work[i].todo # <<>> /\ work[i].todo \in Seq(Entry)
  BY <1>0, EntryType, SameTodo
<1>2. PICK n \in DOMAIN work'[i].todo : e = work'[i].todo[n]
  BY DEF Entries
<1>3. work'[i].todo = Tail(work[i].todo)
  <2>1. work'[i].todo # <<>>
    BY <1>2
  <2> QED
    BY <1>0, <2>1, CalmNext
<1>4. /\ n \in Nat \ {0}
      /\ n + 1 \in DOMAIN work[i].todo
      /\ 1 \in DOMAIN work[i].todo
      /\ e = work[i].todo[n + 1]
  BY <1>1, <1>2, <1>3
<1>5. Template(i) = work[i].todo[1].of[1]
  BY <1>1 DEF Template, Occasion, Current
<1>6. n + 1 # 1
  BY <1>4
<1> QED
  BY <1>4, <1>5, <1>6 DEF Once

\* The new time is an interval after the job's, and so after every run.
LEMMA AdvanceSpaced ==
  ASSUME TypeInv, TypeInv', LockInv, SpacedInv, NEW i \in Instances, Advance(i)
  PROVE  SpacedInv'
<1> USE TriggersAssumption
<1>0. WorkOK /\ WorkOK' /\ Instances \subseteq Workers /\ Deliveries \subseteq Workers /\ i \notin Deliveries
  BY DEF TypeInv, Workers
<1>1. UNCHANGED <<clockVars, templates, config, projects, runs, draft, counters>>
  BY DEF Advance
<1>2. work[i].step \in Acting /\ At(i, "advance") /\ work[i] # Idle
  BY IdleApart DEF Advance, At, Acting
<1>3. \A v \in Workers \ {i} : work'[v] = work[v]
  BY AdvanceStep
<1>4. now' >= now
  BY <1>1 DEF clockVars, TypeInv, TypeOK
<1>5. CASE Ends(i) /\ UNCHANGED next
  <2>1. \A v \in Workers : Calm(v)
    BY <1>0, <1>2, <1>3, <1>5, CalmEnd, CalmSame
  <2>2. CalmStep
    BY <1>0, <1>1, <1>4, <1>5, <2>1 DEF CalmStep, clockVars, counters, Ran
  <2> QED
    BY <2>2, SpacedCalm
<1>6. CASE TakesNext(i) /\ next' = [next EXCEPT ![Template(i)] = work[i].at + Interval]
  <2>1. Calm(i) /\ (work'[i] # Idle => ~At(i, "advance")')
    BY <1>0, <1>2, <1>6, CalmNext DEF At
  <2>2. \A d \in Deliveries : work'[d] # Idle => \A e \in Entries(d)' : e.of[1] \in OnIssue
    BY <1>0, <1>3 DEF SpacedInv, Entries
  <2>3. ASSUME overruns' = 0
        PROVE  /\ \A j \in Instances : work'[j] # Idle => Once(j)'
               /\ \A t \in Scheduled \ byHand' :
                    /\ Steady(t)'
                    /\ Apart(t)'
                    /\ \A j \in Instances : work'[j] # Idle => Timely(j, t)'
    <3>1. overruns = 0
      BY <1>1, <2>3 DEF counters
    <3>2. \A j \in Instances : work'[j] # Idle => j = i
      BY <1>0, <1>2, <1>3, <3>1, OnlyJob
    <3>3. Once(i)
      BY <1>2, <3>1 DEF SpacedInv
    <3>4. \A j \in Instances : work'[j] # Idle => Once(j)'
      BY <1>0, <2>1, <3>2, <3>3, CalmOnce
    <3>5. ASSUME NEW t \in Scheduled \ byHand'
          PROVE  Steady(t)' /\ Apart(t)' /\ (work'[i] # Idle => Timely(i, t)')
      <4>1. Steady(t) /\ Apart(t) /\ Timely(i, t)
        BY <1>1, <1>2, <3>1, <3>5 DEF SpacedInv, clockVars
      <4>2. /\ work[i].at \in Nat
            /\ now \in Nat
            /\ next[t] \in Nat
            /\ work[i].at <= now
            /\ next[t] <= work[i].at + Interval
            /\ None # work[i].at + Interval
        <5>1. work[i].at \in Nat /\ now \in Nat
          BY <1>0, <1>2, SameTodo DEF Working, TypeInv, TypeOK
        <5>2. next[t] \in Nat
          BY <4>1 DEF Steady, TypeInv, TypeOK, Times
        <5> QED
          BY <4>1, <5>1, <5>2 DEF Timely
      <4>3. next'[t] = IF t = Template(i) THEN work[i].at + Interval ELSE next[t]
        BY <1>6 DEF TypeInv, TypeOK
      <4>4. \A k \in Times : /\ Ran(t, k)' <=> Ran(t, k)
                             /\ Ran(t, k) => k <= work[i].at
                             /\ k \in Nat
        BY <1>1, <4>1 DEF Ran, Timely, Times
      <4>5. ASSUME work'[i] # Idle
            PROVE  /\ work'[i].at = work[i].at
                   /\ Entries(i)' \subseteq Entries(i)
                   /\ \A e \in Entries(i)' : e.of[1] # Template(i)
        BY <1>0, <1>2, <1>6, <2>1, <3>3, <4>5, CalmEntries, NotAgain DEF Calm
      <4>6. Steady(t)'
        <5>1. next'[t] # None /\ next'[t] <= now + Interval
          BY <4>1, <4>2, <4>3 DEF Steady
        <5>2. \A k \in Times : Ran(t, k)' => k <= now' /\ runs'[<<t, k>>].project = config'[t]
          BY <1>1, <4>1 DEF Steady, Ran, clockVars
        <5>3. ASSUME Drafted(t)'
              PROVE  draft'.next # None /\ draft'.next <= next'[t] /\ draft'.config = config'[t]
          <6>1. Drafted(t) /\ draft' = draft /\ config' = config
            BY <1>1, <5>3 DEF Drafted
          <6>2. draft.next # None /\ draft.next <= next[t] /\ draft.config = config[t]
            BY <4>1, <6>1 DEF Steady
          <6>3. draft.next \in Nat
            BY <6>1, <6>2 DEF Drafted, TypeInv, TypeOK, Times
          <6> QED
            BY <4>2, <4>3, <6>1, <6>2, <6>3
        <5> QED
          BY <1>1, <5>1, <5>2, <5>3 DEF Steady, clockVars
      <4>7. ASSUME work'[i] # Idle
            PROVE  Timely(i, t)'
        <5>1. work'[i].at <= now' /\ next'[t] <= work'[i].at + Interval
          BY <1>1, <4>2, <4>3, <4>5, <4>7 DEF clockVars
        <5>2. \A k \in Times : Ran(t, k)' => k <= work'[i].at
          BY <4>4, <4>5, <4>7
        <5>3. \A e \in Entries(i)' : e.of[1] = t => /\ e.of[2] <= work'[i].at
                                                    /\ next'[t] <= e.of[2]
                                                    /\ e.project = config'[t]
          BY <1>1, <4>1, <4>3, <4>5, <4>7 DEF Timely
        <5> QED
          BY <2>1, <4>7, <5>1, <5>2, <5>3 DEF Timely
      <4>8. Served(t)' <=> Served(t)
        BY <1>1 DEF Served
      <4>9. CASE t # Template(i)
        <5>1. \A k \in Times : Held(t, k)' => Held(t, k)
          <6> SUFFICES ASSUME NEW k \in Times, Held(t, k)'
                       PROVE  Held(t, k)
            OBVIOUS
          <6>1. CASE Ran(t, k)' \/ next'[t] = k \/ (Drafted(t)' /\ draft'.next = k)
            BY <1>1, <4>3, <4>4, <4>9, <6>1 DEF Held, Drafted
          <6>2. ASSUME NEW j \in Instances, work'[j] # Idle, NEW e \in Entries(j)', e.of = <<t, k>>
                PROVE  Held(t, k)
            BY <1>2, <3>2, <4>5, <6>2 DEF Held
          <6> QED
            BY <6>1, <6>2 DEF Held
        <5>2. Apart(t)'
          BY <4>1, <4>4, <4>8, <5>1, ApartKept
        <5> QED
          BY <4>6, <4>7, <5>2
      <4>10. CASE t = Template(i)
        <5>1. ASSUME Served(t), NEW k \in Times, Held(t, k)'
              PROVE  k = work[i].at + Interval \/ (Ran(t, k) /\ k <= work[i].at)
          <6>1. CASE Ran(t, k)' \/ next'[t] = k
            BY <4>3, <4>4, <4>10, <6>1
          <6>2. CASE Drafted(t)' /\ draft'.next = k
            <7>1. Drafted(t) /\ draft.next = k
              BY <1>1, <6>2 DEF Drafted
            <7> QED
              BY <1>2, <4>1, <4>10, <5>1, <7>1, AdvanceApart
          <6>3. ASSUME NEW j \in Instances, work'[j] # Idle, NEW e \in Entries(j)', e.of = <<t, k>>
                PROVE  FALSE
            <7>1. j = i /\ e.of[1] = t
              BY <3>2, <6>3
            <7> QED
              BY <4>5, <4>10, <6>3, <7>1
          <6> QED
            BY <5>1, <6>1, <6>2, <6>3 DEF Held
        <5>2. Apart(t)'
          <6> SUFFICES ASSUME Served(t), NEW a \in Times, NEW b \in Times,
                              Held(t, a)', Held(t, b)', a < b
                       PROVE  Ran(t, a) /\ a + Interval <= b
            BY <4>4, <4>8 DEF Apart
          <6>1. a \in Nat /\ b \in Nat
            BY <4>4
          <6>2. CASE b = work[i].at + Interval
            BY <4>2, <5>1, <6>1, <6>2
          <6>3. CASE Ran(t, b) /\ b <= work[i].at
            <7>1. Ran(t, a)
              BY <4>2, <5>1, <6>1, <6>3
            <7> QED
              BY <4>1, <6>3, <7>1 DEF Apart, Held
          <6> QED
            BY <5>1, <6>2, <6>3
        <5> QED
          BY <4>6, <4>7, <5>2
      <4> QED
        BY <4>9, <4>10
    <3> QED
      BY <3>2, <3>4, <3>5
  <2> QED
    BY <2>2, <2>3 DEF SpacedInv
<1> QED
  BY <1>5, <1>6 DEF Advance

\* Edits, of which one that is late writes back a time that was held all along.
LEMMA EditSpaced ==
  ASSUME TypeInv, SpacedInv,
         \/ \E t \in Scheduled : SetTrigger(t) \/ ReadTrigger(t)
         \/ WriteTrigger
  PROVE  SpacedInv'
<1> USE TriggersAssumption
<1>1. UNCHANGED <<now, templates, projects, runs, work, overruns>>
  BY DEF SetTrigger, ReadTrigger, WriteTrigger, clockVars, rowVars, counters
<1>2. byHand \subseteq byHand'
  BY DEF SetTrigger, ReadTrigger, WriteTrigger, clockVars
<1>3. ASSUME NEW t \in Scheduled \ byHand', Steady(t)
      PROVE  /\ config'[t] = config[t]
             /\ \/ next'[t] = next[t]
                \/ Drafted(t) /\ next'[t] = draft.next
             /\ \/ ~Drafted(t)'
                \/ /\ next'[t] = next[t]
                   /\ \/ Drafted(t) /\ draft' = draft
                      \/ draft'.next = next[t] /\ draft'.config = config[t]
  <2>1. ASSUME NEW u \in Scheduled, SetTrigger(u)
        PROVE  next'[t] = next[t] /\ config'[t] = config[t] /\ draft' = draft
    <3>1. t # u
      BY <1>3, <2>1 DEF SetTrigger
    <3> QED
      BY <2>1, <3>1 DEF SetTrigger, TypeInv, TypeOK, Templates
  <2>2. ASSUME NEW u \in Scheduled, ReadTrigger(u)
        PROVE  /\ next' = next
               /\ config' = config
               /\ Drafted(t)' => draft'.next = next[t] /\ draft'.config = config[t]
    BY <2>2 DEF ReadTrigger, rowVars, Drafted
  <2>3. CASE WriteTrigger
    <3>1. draft' = Idle /\ draft # Idle
      BY <2>3 DEF WriteTrigger
    <3>2. CASE draft.template = t
      <4>1. Drafted(t) /\ draft.config = config[t]
        BY <1>3, <3>1, <3>2 DEF Drafted, Steady
      <4> QED
        BY <2>3, <3>1, <3>2, <4>1 DEF WriteTrigger, Drafted, TypeInv, TypeOK, Templates
    <3>3. CASE draft.template # t
      BY <2>3, <3>1, <3>3 DEF WriteTrigger, Drafted, TypeInv, TypeOK, Templates
    <3> QED
      BY <3>2, <3>3
  <2> QED
    BY <2>1, <2>2, <2>3 DEF Drafted
<1>4. ASSUME overruns' = 0, NEW t \in Scheduled \ byHand'
      PROVE  /\ Steady(t)'
             /\ Apart(t)'
             /\ \A i \in Instances : work'[i] # Idle => Timely(i, t)'
  <2>1. Steady(t) /\ Apart(t) /\ \A i \in Instances : work[i] # Idle => Timely(i, t)
    BY <1>1, <1>2, <1>4 DEF SpacedInv
  <2>2. /\ config'[t] = config[t]
        /\ \/ next'[t] = next[t]
           \/ Drafted(t) /\ next'[t] = draft.next
        /\ \/ ~Drafted(t)'
           \/ /\ next'[t] = next[t]
              /\ \/ Drafted(t) /\ draft' = draft
                 \/ draft'.next = next[t] /\ draft'.config = config[t]
    BY <1>3, <2>1
  <2>3. /\ next[t] \in Nat /\ now \in Nat
        /\ Drafted(t) => draft.next \in Nat
        /\ next'[t] # None /\ next'[t] \in Nat /\ next'[t] <= next[t]
    <3>1. next[t] \in Nat /\ now \in Nat
      BY <2>1 DEF Steady, TypeInv, TypeOK, Times
    <3>2. Drafted(t) => draft.next \in Nat /\ draft.next <= next[t] /\ draft.next # None
      BY <2>1 DEF Steady, Drafted, TypeInv, TypeOK, Times
    <3> QED
      BY <2>1, <2>2, <3>1, <3>2
  <2>4. Steady(t)'
    <3>1. next'[t] <= now' + Interval
      BY <1>1, <2>1, <2>3 DEF Steady
    <3>2. Drafted(t)' => draft'.next # None /\ draft'.next <= next'[t] /\ draft'.config = config'[t]
      BY <2>1, <2>2, <2>3 DEF Steady
    <3>3. \A k \in Times : Ran(t, k)' => k <= now' /\ runs'[<<t, k>>].project = config'[t]
      BY <1>1, <2>1, <2>2 DEF Steady, Ran
    <3> QED
      BY <2>3, <3>1, <3>2, <3>3 DEF Steady
  <2>5. ASSUME NEW k \in Times, Held(t, k)'
        PROVE  Held(t, k)
    BY <1>1, <2>2, <2>5 DEF Held, Ran, Entries
  <2>6. Apart(t)'
    BY <1>1, <2>1, <2>2, <2>5, ApartKept DEF Served, Ran
  <2>7. ASSUME NEW i \in Instances, work'[i] # Idle
        PROVE  Timely(i, t)'
    <3>1. Timely(i, t) /\ work[i].at \in Nat
      <4>1. i \in Workers /\ WorkOK
        BY DEF Workers, TypeInv
      <4> QED
        BY <1>1, <2>1, <2>7, <4>1, SameTodo DEF Working
    <3>2. ASSUME NEW e \in Entries(i)', e.of[1] = t
          PROVE  /\ e.of[2] <= work'[i].at
                 /\ next'[t] <= e.of[2]
                 /\ e.project = config'[t]
      <4>1. e \in Entries(i) /\ work[i] # Idle /\ i \in Workers /\ WorkOK
        BY <1>1, <2>7, <3>2 DEF Entries, Workers, TypeInv
      <4>2. /\ e.of[2] <= work[i].at
            /\ next[t] <= e.of[2]
            /\ e.project = config[t]
        BY <3>1, <3>2, <4>1 DEF Timely
      <4>3. e.of[2] \in Nat
        <5>1. e \in Entry
          BY <4>1, SameTodo DEF Entries
        <5>2. e.of \in Occasions
          BY <5>1 DEF Entry
        <5> QED
          BY <3>2, <5>2, TimeOf DEF Times
      <4> QED
        BY <1>1, <2>2, <2>3, <4>2, <4>3
    <3>3. Served(t)' <=> Served(t)
      BY <1>1, <2>2 DEF Served
    <3>4. work'[i].at <= now' /\ next'[t] <= work'[i].at + Interval
      BY <1>1, <2>3, <3>1 DEF Timely
    <3>5. /\ \A k \in Times : Ran(t, k)' => k <= work'[i].at
          /\ At(i, "advance")' /\ Template(i)' = t /\ Served(t)' => runs'[Occasion(i)'] # NoRun
      BY <1>1, <3>1, <3>3 DEF Timely, Ran, At, Template, Occasion, Current
    <3> QED
      BY <3>2, <3>4, <3>5 DEF Timely
  <2> QED
    BY <2>4, <2>6, <2>7
<1> QED
  BY <1>1, <1>4 DEF SpacedInv, Once, Entries

\* All steps together, and the beginning.
LEMMA SpacedStep ==
  ASSUME TypeInv, LockInv, SpacedInv, [Next]_vars
  PROVE  SpacedInv'
<1>1. TypeInv'
  BY TypeStep
<1>2. ASSUME CalmStep
      PROVE  SpacedInv'
  BY <1>1, <1>2, SpacedCalm
<1>3. ASSUME NEW w \in Workers, OfWorker(w)
      PROVE  SpacedInv'
  BY <1>1, <1>2, <1>3, WorkerCalm, InsertSpaced
<1>4. ASSUME NEW i \in Instances, Acquire(i) \/ OfJob(i)
      PROVE  SpacedInv'
  BY <1>1, <1>2, <1>3, <1>4, AcquireSpaced, ListDueSpaced, AdvanceSpaced, OtherCalm DEF OfJob, Workers
<1>5. ASSUME \/ Tick
             \/ Expire
             \/ \E d \in Deliveries : Deliver(d)
             \/ \E w \in Workers : StatementFails(w) \/ Crash(w)
             \/ \E t \in Templates : DeleteTemplate(t)
             \/ \E p \in Projects : DeleteProject(p)
             \/ UNCHANGED vars
      PROVE  SpacedInv'
  BY <1>2, <1>5, OtherCalm, FaultCalm, DeletionCalm
<1> QED
  BY <1>3, <1>4, <1>5, EditSpaced DEF Next, Workers

LEMMA SpacedInit == Init => SpacedInv
<1> SUFFICES ASSUME Init
             PROVE  SpacedInv
  OBVIOUS
<1> USE TriggersAssumption
<1>1. \A w \in Workers : work[w] = Idle
  BY DEF Init
<1>2. ASSUME NEW t \in Scheduled
      PROVE  Steady(t) /\ Apart(t)
  <2>1. next[t] \in {0, 1} /\ now = 0 /\ ~Drafted(t)
    BY DEF Init, Drafted
  <2>2. \A k \in Times : ~Ran(t, k)
    BY DEF Init, Ran, Occasions
  <2>3. Steady(t)
    BY <2>1, <2>2 DEF Steady
  <2>4. \A k \in Times : Held(t, k) => k = next[t]
    BY <1>1, <2>1, <2>2 DEF Held, Workers
  <2>5. Apart(t)
    BY <2>1, <2>4 DEF Apart
  <2> QED
    BY <2>3, <2>5
<1> QED
  BY <1>1, <1>2 DEF SpacedInv, Workers

\* A schedule fires no more often than its interval, for any number of
\* instances, schedules and batches and any crashes, failures and late edits,
\* unless a job outlives its lock or an edit sets the time.
THEOREM RunsAreApart == Spec => []RunsAreSpaced
<1>1. TypeInv /\ HistoryInv /\ SpacedInv => RunsAreSpaced
  <2> SUFFICES ASSUME TypeInv, HistoryInv, SpacedInv, overruns = 0,
                      NEW t \in Scheduled \ byHand, NEW k \in Times, NEW l \in Times,
                      Ran(t, k), Ran(t, l), k < l
               PROVE  l - k >= Interval
    BY DEF RunsAreSpaced, Ran
  <2>1. <<t, k>> \in Occasions /\ <<t, k>>[1] = t
    BY DEF Occasions
  <2>2. Steady(t) /\ Apart(t)
    BY DEF SpacedInv
  <2>3. Served(t)
    BY <2>1, <2>2 DEF HistoryInv, RunsInv, Steady, Served, Ran
  <2>4. k + Interval <= l
    BY <2>2, <2>3 DEF Apart, Held
  <2> QED
    BY <2>4, TriggersAssumption DEF Times
<1>2. Init => LockInv
  BY IdleApart DEF Init, LockInv, Workers
<1> QED
  BY <1>1, <1>2, TypeInit, TypeStep, LockInvStep, HistoryInit, HistoryStep, SpacedInit, SpacedStep,
     PTL DEF Spec
=============================================================================
