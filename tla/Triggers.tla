------------------------------ MODULE Triggers ------------------------------
(***************************************************************************)
(* Tasks that are created by a clock or by a webhook.  Every instance runs *)
(* the job "workflow_triggers" under a lock in Redis; the job goes through *)
(* the templates whose next_run_at has come.  A delivery of GitHub goes    *)
(* through the templates of the repository.  Both create a task in four    *)
(* separate statements, and record them in workflow_trigger_runs, where a  *)
(* template and a key are unique.  Meanwhile templates are edited, they    *)
(* and projects are deleted, statements fail and processes stop.           *)
(*                                                                         *)
(* A template that is disabled, or has no next_run_at, is one whose next   *)
(* time is None.  Seconds and minutes are ticks of the one clock.          *)
(***************************************************************************)
EXTENDS Naturals, Sequences, FiniteSets

CONSTANTS
  Instances,   \* of the server
  Deliveries,  \* webhook requests that may be under way at once
  Scheduled,   \* templates with trigger_type schedule: numbers, in order of created_at
  OnIssue,     \* templates with trigger_type github_issue, of one repository
  Projects,    \* of the workspace
  Interval,    \* interval_minutes of every schedule
  Batch,       \* due templates per run of the job (100)
  MaxTime,     \* bound: where the clock stops
  MaxFaults,   \* bound: statements that fail, processes that stop
  MaxOverruns, \* bound: locks that expire under a running job
  MaxEdits,    \* bound: edits and deletions
  Issue,       \* an opened issue
  Bad,         \* a trigger_config that cannot be used
  None         \* no time, nobody

ASSUME TriggersAssumption ==
  /\ Scheduled \subseteq Nat
  /\ Scheduled \cap OnIssue = {}
  /\ IsFiniteSet(OnIssue)
  /\ Instances \cap Deliveries = {}
  /\ Interval \in Nat \ {0}
  /\ Batch \in Nat \ {0}
  /\ {MaxTime, MaxFaults, MaxOverruns, MaxEdits} \subseteq Nat
  /\ Issue \notin Nat
  /\ None \notin Nat \cup Instances
  /\ Bad \notin Projects

VARIABLES
  now,        \* the clock
  templates,  \* those that exist
  next,       \* next_run_at of a schedule
  config,     \* the project that trigger_config names, or Bad
  projects,   \* those that exist
  runs,       \* workflow_trigger_runs: the row of an occasion
  tasks,      \* how many tasks a project has for an occasion
  lock,       \* whose SETNX the key in Redis is from (the code does not store it)
  work,       \* what a job or a delivery is doing
  draft,      \* the row that an edit has read
  faults, overruns, edits,  \* so far
  byHand      \* schedules whose next_run_at an edit has set

clockVars == <<now, byHand>>
rowVars   == <<templates, next, config, projects>>
counters  == <<faults, overruns, edits>>
vars == <<clockVars, rowVars, runs, tasks, lock, work, draft, counters>>

Templates == Scheduled \cup OnIssue
Workers   == Instances \cup Deliveries
Times     == 0..(MaxTime + Interval)
Configs   == Projects \cup {Bad}

\* What happens once: the external_key with its template.
Occasions == (Scheduled \X Times) \cup (OnIssue \X {Issue})
NoRun     == [status |-> "none"]
RunRows   == [status : {"started", "completed", "failed"}, project : Projects]

\* A template as a worker has read it, and the occasion.
Entry == [of : Occasions, project : Configs]
Steps == {"list", "check", "project", "insert", "create", "fail", "complete",
          "advance", "release"}
Idle  == [step |-> "idle"]

TypeOK ==
  /\ now \in 0..MaxTime
  /\ templates \subseteq Templates
  /\ next \in [Scheduled -> Times \cup {None}]
  /\ config \in [Templates -> Configs]
  /\ projects \subseteq Projects
  /\ runs \in [Occasions -> RunRows \cup {NoRun}]
  /\ tasks \in [Occasions \X Projects -> Nat]
  /\ lock \in Instances \cup {None}
  /\ work \in [Workers -> [step : Steps, at : 0..MaxTime, todo : Seq(Entry)] \cup {Idle}]
  /\ draft \in [template : Scheduled, next : Times \cup {None}, config : Configs] \cup {Idle}
  /\ faults \in 0..MaxFaults
  /\ overruns \in 0..MaxOverruns
  /\ edits \in 0..MaxEdits
  /\ byHand \subseteq Scheduled

Init ==
  /\ now = 0
  /\ templates = Templates
  /\ next \in [Scheduled -> {0, 1}]
  /\ config \in [Templates -> Projects]
  /\ projects = Projects
  /\ runs = [o \in Occasions |-> NoRun]
  /\ tasks = [o \in Occasions \X Projects |-> 0]
  /\ lock = None
  /\ work = [w \in Workers |-> Idle]
  /\ draft = Idle
  /\ faults = 0
  /\ overruns = 0
  /\ edits = 0
  /\ byHand = {}

-----------------------------------------------------------------------------
Tick ==
  /\ now < MaxTime
  /\ now' = now + 1
  /\ UNCHANGED <<byHand, rowVars, runs, tasks, lock, work, draft, counters>>

\* What becomes of a worker.
Goes(w, step) == work' = [work EXCEPT ![w].step = step]
Begins(w, todo) == work' = [work EXCEPT ![w] = [@ EXCEPT !.step = "check", !.todo = todo]]
Ends(w)       == work' = [work EXCEPT ![w] = IF w \in Instances
                                              THEN [@ EXCEPT !.step = "release", !.todo = <<>>]
                                              ELSE Idle]
TakesNext(w)  == IF Len(work[w].todo) > 1
                 THEN Begins(w, Tail(work[w].todo))
                 ELSE Ends(w)

At(w, step)  == work[w].step = step
Current(w)   == Head(work[w].todo)
Occasion(w)  == Current(w).of
Template(w)  == Occasion(w)[1]

-----------------------------------------------------------------------------
\* WithLock.

\* Mutant: SET in place of SETNX.
SetLock(i) ==
  /\ work[i] = Idle
  /\ lock' = i
  /\ work' = [work EXCEPT ![i] = [step |-> "list", at |-> now, todo |-> <<>>]]
  /\ UNCHANGED <<clockVars, rowVars, runs, tasks, draft, counters>>

\* SETNX, and the clock that the job reads first of all.
Acquire(i) ==
  /\ work[i] = Idle
  /\ lock = None
  /\ lock' = i
  /\ work' = [work EXCEPT ![i] = [step |-> "list", at |-> now, todo |-> <<>>]]
  /\ UNCHANGED <<clockVars, rowVars, runs, tasks, draft, counters>>

\* The deferred DEL: whoever's lock is there.
Release(i) ==
  /\ At(i, "release")
  /\ lock' = None
  /\ work' = [work EXCEPT ![i] = Idle]
  /\ UNCHANGED <<clockVars, rowVars, runs, tasks, draft, counters>>

\* The time to live is over.
Expire ==
  /\ lock # None
  /\ lock' = None
  /\ \/ /\ work[lock] = Idle
        /\ UNCHANGED overruns
     \/ /\ work[lock] # Idle
        /\ overruns < MaxOverruns
        /\ overruns' = overruns + 1
  /\ UNCHANGED <<clockVars, rowVars, runs, tasks, work, draft, faults, edits>>

-----------------------------------------------------------------------------
\* ProcessDueSchedules.

DueAt(t, time) == /\ t \in templates
                  /\ next[t] # None
                  /\ next[t] <= time

\* ORDER BY next_run_at ASC, created_at ASC
Before(t, u) == \/ next[t] < next[u]
                \/ next[t] = next[u] /\ t < u

\* Mutant: the key is the time of the job.
KeyOfNow(w, t) == <<t, work[w].at>>

Key(w, t) == <<t, next[t]>>

\* The first rows in that order, with what the job will need of each.
ListDue(i) ==
  /\ At(i, "list")
  /\ LET due == {t \in Scheduled : DueAt(t, work[i].at)}
     IN \E size \in 0..Batch : \E listed \in [1..size -> due] :
          /\ \A m, n \in 1..size : m < n => Before(listed[m], listed[n])
          /\ \/ \A t \in due : \E n \in 1..size : listed[n] = t
             \/ /\ size = Batch
                /\ \A t \in due : \/ \E n \in 1..size : listed[n] = t
                                  \/ Before(listed[size], t)
          /\ IF size = 0
             THEN Ends(i)
             ELSE Begins(i, [n \in 1..size |->
                    [of |-> Key(i, listed[n]), project |-> config[listed[n]]]])
  /\ UNCHANGED <<clockVars, rowVars, runs, tasks, lock, draft, counters>>

\* Mutant: off by one.
AdvanceTooFar(i) ==
  /\ At(i, "advance")
  /\ \/ /\ Template(i) \in templates
        /\ next' = [next EXCEPT ![Template(i)] = work[i].at + Interval + 1]
        /\ TakesNext(i)
     \/ /\ Template(i) \notin templates
        /\ Ends(i)
        /\ UNCHANGED next
  /\ UNCHANGED <<clockVars, templates, config, projects, runs, tasks, lock, draft, counters>>

\* A schedule is advanced from the time of the job; one that is gone by now is
\* an error, which ends the job.
Advance(i) ==
  /\ At(i, "advance")
  /\ \/ /\ Template(i) \in templates
        /\ next' = [next EXCEPT ![Template(i)] = work[i].at + Interval]
        /\ TakesNext(i)
     \/ /\ Template(i) \notin templates
        /\ Ends(i)
        /\ UNCHANGED next
  /\ UNCHANGED <<clockVars, templates, config, projects, runs, tasks, lock, draft, counters>>

-----------------------------------------------------------------------------
\* HandleGitHubIssue: a delivery, or one that GitHub repeats.

\* The rows come in any order; the clock plays no part.
Deliver(d) ==
  /\ work[d] = Idle
  /\ LET size == Cardinality(OnIssue \cap templates)
     IN /\ size > 0
        /\ \E listed \in [1..size -> OnIssue \cap templates] :
             /\ \A m, n \in 1..size : listed[m] = listed[n] => m = n
             /\ work' = [work EXCEPT ![d] =
                   [step |-> "check", at |-> 0,
                    todo |-> [n \in 1..size |->
                      [of |-> <<listed[n], Issue>>, project |-> config[listed[n]]]]]]
  /\ UNCHANGED <<clockVars, rowVars, runs, tasks, lock, draft, counters>>

-----------------------------------------------------------------------------
\* createTaskFromTrigger, a statement at a time.

\* After the task of an occasion, or when it has a run already.
Answered(w) == IF w \in Instances THEN Goes(w, "advance") ELSE TakesNext(w)

\* Mutant: a run that failed is not found.
FindsUnfailed(w) == runs[Occasion(w)].status \in {"started", "completed"}

FindsRun(w) == runs[Occasion(w)] # NoRun

Check(w) ==
  /\ At(w, "check")
  /\ \/ /\ Current(w).project = Bad
        /\ Ends(w)
     \/ /\ Current(w).project # Bad
        /\ FindsRun(w)
        /\ Answered(w)
     \/ /\ Current(w).project # Bad
        /\ ~FindsRun(w)
        /\ Goes(w, "project")
  /\ UNCHANGED <<clockVars, rowVars, runs, tasks, lock, draft, counters>>

GetProject(w) ==
  /\ At(w, "project")
  /\ IF Current(w).project \in projects THEN Goes(w, "insert") ELSE Ends(w)
  /\ UNCHANGED <<clockVars, rowVars, runs, tasks, lock, draft, counters>>

\* Mutant: no UNIQUE(workflow_template_id, external_key).
ReferencesOnly(w) ==
  /\ Template(w) \in templates
  /\ Current(w).project \in projects

\* What the table accepts.
Insertable(w) ==
  /\ Template(w) \in templates
  /\ Current(w).project \in projects
  /\ runs[Occasion(w)] = NoRun

InsertRun(w) ==
  /\ At(w, "insert")
  /\ \/ /\ Insertable(w)
        /\ runs' = [runs EXCEPT ![Occasion(w)] =
                      [status |-> "started", project |-> Current(w).project]]
        /\ Goes(w, "create")
     \/ /\ ~Insertable(w)
        /\ Ends(w)
        /\ UNCHANGED runs
  /\ UNCHANGED <<clockVars, rowVars, tasks, lock, draft, counters>>

\* TaskService.Create: a transaction, which needs the project.  Without the
\* template there are no nodes, and still a task.
CreateTask(w) ==
  /\ At(w, "create")
  /\ \/ /\ Current(w).project \in projects
        /\ tasks' = [tasks EXCEPT ![<<Occasion(w), Current(w).project>>] = @ + 1]
        /\ Goes(w, "complete")
     \/ /\ Current(w).project \notin projects
        /\ Goes(w, "fail")
        /\ UNCHANGED tasks
  /\ UNCHANGED <<clockVars, rowVars, runs, lock, draft, counters>>

\* The row that this worker inserted, unless its template or its project has been
\* deleted since, and the row with it.
Mine(w) == /\ runs[Occasion(w)] # NoRun
           /\ runs[Occasion(w)].project = Current(w).project

Marked(w, status) ==
  IF Mine(w) THEN runs' = [runs EXCEPT ![Occasion(w)].status = status] ELSE UNCHANGED runs

\* Mutant: the wrong mark.
MarkCompletedInstead(w) ==
  /\ At(w, "fail")
  /\ Marked(w, "completed")
  /\ Ends(w)
  /\ UNCHANGED <<clockVars, rowVars, tasks, lock, draft, counters>>

MarkFailed(w) ==
  /\ At(w, "fail")
  /\ Marked(w, "failed")
  /\ Ends(w)
  /\ UNCHANGED <<clockVars, rowVars, tasks, lock, draft, counters>>

MarkCompleted(w) ==
  /\ At(w, "complete")
  /\ Marked(w, "completed")
  /\ IF Mine(w) THEN Answered(w) ELSE Ends(w)
  /\ UNCHANGED <<clockVars, rowVars, tasks, lock, draft, counters>>

-----------------------------------------------------------------------------
\* Failures.

\* A statement fails.  Only that of CreateTask has a handler; a DEL that fails
\* leaves the lock to its time to live.
StatementFails(w) ==
  /\ work[w] # Idle
  /\ faults < MaxFaults
  /\ faults' = faults + 1
  /\ CASE At(w, "create")  -> Goes(w, "fail")
       [] At(w, "release") -> work' = [work EXCEPT ![w] = Idle]
       [] OTHER            -> Ends(w)
  /\ UNCHANGED <<clockVars, rowVars, runs, tasks, lock, draft, overruns, edits>>

\* The process stops, and is started again.
Crash(w) ==
  /\ work[w] # Idle
  /\ faults < MaxFaults
  /\ faults' = faults + 1
  /\ work' = [work EXCEPT ![w] = Idle]
  /\ UNCHANGED <<clockVars, rowVars, runs, tasks, lock, draft, overruns, edits>>

-----------------------------------------------------------------------------
\* Requests of the web.

Edit == /\ edits < MaxEdits
        /\ edits' = edits + 1

\* UpdateWorkflowTemplate with a trigger_type: one statement.
SetTrigger(t) ==
  /\ Edit
  /\ t \in templates
  /\ \E n \in {now, now + 1, None}, c \in Configs :
       /\ next' = [next EXCEPT ![t] = n]
       /\ config' = [config EXCEPT ![t] = c]
  /\ byHand' = byHand \cup {t}
  /\ UNCHANGED <<now, templates, projects, runs, tasks, lock, work, draft, faults, overruns>>

\* Without one: the trigger is read, and written back with the rest.
ReadTrigger(t) ==
  /\ Edit
  /\ draft = Idle
  /\ t \in templates
  /\ draft' = [template |-> t, next |-> next[t], config |-> config[t]]
  /\ UNCHANGED <<clockVars, rowVars, runs, tasks, lock, work, faults, overruns>>

WriteTrigger ==
  /\ draft # Idle
  /\ draft' = Idle
  /\ \/ /\ draft.template \in templates
        /\ next' = [next EXCEPT ![draft.template] = draft.next]
        /\ config' = [config EXCEPT ![draft.template] = draft.config]
     \/ /\ draft.template \notin templates
        /\ UNCHANGED <<next, config>>
  /\ UNCHANGED <<clockVars, templates, projects, runs, tasks, lock, work, counters>>

\* The runs go with it.
DeleteTemplate(t) ==
  /\ Edit
  /\ t \in templates
  /\ templates' = templates \ {t}
  /\ runs' = [o \in Occasions |-> IF o[1] = t THEN NoRun ELSE runs[o]]
  /\ UNCHANGED <<clockVars, next, config, projects, tasks, lock, work, draft, faults, overruns>>

\* The runs and the tasks go with it.
DeleteProject(p) ==
  /\ Edit
  /\ p \in projects
  /\ projects' = projects \ {p}
  /\ runs' = [o \in Occasions |-> IF runs[o] # NoRun /\ runs[o].project = p
                                 THEN NoRun ELSE runs[o]]
  /\ tasks' = [x \in Occasions \X Projects |-> IF x[2] = p THEN 0 ELSE tasks[x]]
  /\ UNCHANGED <<clockVars, templates, next, config, lock, work, draft, faults, overruns>>

-----------------------------------------------------------------------------
OfWorker(w) ==
  \/ Check(w)
  \/ GetProject(w)
  \/ InsertRun(w)
  \/ CreateTask(w)
  \/ MarkFailed(w)
  \/ MarkCompleted(w)

OfJob(i) ==
  \/ ListDue(i)
  \/ OfWorker(i)
  \/ Advance(i)
  \/ Release(i)

Next ==
  \/ Tick
  \/ \E i \in Instances : Acquire(i) \/ OfJob(i)
  \/ Expire
  \/ \E d \in Deliveries : Deliver(d) \/ OfWorker(d)
  \/ \E w \in Workers : StatementFails(w) \/ Crash(w)
  \/ \E t \in Scheduled : SetTrigger(t) \/ ReadTrigger(t)
  \/ WriteTrigger
  \/ \E t \in Templates : DeleteTemplate(t)
  \/ \E p \in Projects : DeleteProject(p)

Spec == Init /\ [][Next]_vars

\* Goroutines run, and every instance repeats the job; a lock whose job is over
\* expires, one under a running job may.
FairSpec ==
  /\ Spec
  /\ WF_vars(\E i \in Instances : Acquire(i))
  /\ \A i \in Instances : WF_vars(OfJob(i))
  /\ WF_vars(Expire /\ UNCHANGED overruns)
-----------------------------------------------------------------------------
\* Properties.

\* An occasion has at most one task, although two jobs may run at once when a
\* lock has expired, deliveries are repeated, and what failed or crashed halfway
\* is met again.
OneTaskPerOccasion ==
  \A o \in Occasions, p, q \in Projects :
    /\ tasks[o, p] <= 1
    /\ p # q => tasks[o, p] = 0 \/ tasks[o, q] = 0

\* The history tells the truth, whatever step the process stopped at: a run
\* that is completed has its task, and one that failed has none.
HistoryTellsTasks ==
  \A o \in Occasions : runs[o] # NoRun =>
    /\ runs[o].status = "completed" => tasks[o, runs[o].project] = 1
    /\ runs[o].status = "failed" => tasks[o, runs[o].project] = 0

\* The job runs once at a time, as long as no job outlives its lock.
OneJobAtATime ==
  overruns = 0 =>
    \A i, j \in Instances : work[i] # Idle /\ work[j] # Idle => i = j

\* A schedule fires no more often than its interval, as long as no job outlives
\* its lock and nobody sets the time by hand: not after a crash between the task
\* and the next time, and not when an edit writes an old time back.
RunsAreSpaced ==
  overruns = 0 =>
    \A t \in Scheduled \ byHand, k, l \in Times :
      runs[<<t, k>>] # NoRun /\ runs[<<t, l>>] # NoRun /\ k < l => l - k >= Interval

Due(t) == DueAt(t, now)

\* Its run fails before there is a task, or its task cannot be made.
Broken(t) == config[t] \notin projects

\* A schedule that is due is advanced, or switched off, unless a broken one is
\* due before it: crashes and failures delay it, other schedules do not.
DueIsAdvanced ==
  \A t \in Scheduled :
    Due(t) ~> (~Due(t) \/ \E u \in Scheduled : Due(u) /\ Broken(u) /\ ~Before(t, u))
=============================================================================
