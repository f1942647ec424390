----------------------------- MODULE ForecastDesk -----------------------------
(***************************************************************************)
(* The page "Demand Planning": it asks for forecasts of one dish or of all *)
(* of them, polls the jobs every 3 seconds while it knows of one that is   *)
(* under way, and shows the latest forecast of each dish.  A dish has one  *)
(* job a day, which the worker runs (JobQueue); here a job is under way,   *)
(* queued or running or tried again, until it settles.  Bound: one day.    *)
(***************************************************************************)
EXTENDS Integers, FiniteSets

CONSTANTS Dishes,     \* the dishes of the menu, 1 .. n
          MaxEvents,  \* bound: choices of the manager and failed calls
          Slots       \* bound: reads under way at once, 1 .. n

VARIABLES jobs,     \* the server: the job of each dish today
          runs,     \* the forecast of each dish
          history,  \* the recorded or imported sales cover six months
          panel,    \* the state of ForecastsPanel
          reads,    \* one read per slot, or NoRead
          command,  \* the command under way, or NoCommand
          events    \* bound

vars == <<jobs, runs, history, panel, reads, command, events>>

NoRead == [kind |-> "none"]
NoCommand == [kind |-> "none"]
Follow == {"one", "all"}

Jobs == [Dishes -> {"none", "underway", "settled"}]
Runs == [Dishes -> {"none", "completed", "insufficient_history"}]
NoJobs == [d \in Dishes |-> "none"]

TypeOK ==
  /\ jobs \in Jobs /\ runs \in Runs /\ history \in BOOLEAN
  /\ panel.jobs \in Jobs /\ panel.runs \in Runs
  /\ panel.selected \in Dishes \cup {0} /\ panel.search \in Dishes \cup {0}
  /\ panel.triggering \in Dishes \cup {0}
  /\ \A s \in Slots : reads[s].kind \in {"none", "data", "poll"} \cup Follow
  /\ command.kind \in {"none", "import"} \cup Follow
  /\ events \in 0 .. MaxEvents

Event == events < MaxEvents /\ events' = events + 1

-----------------------------------------------------------------------------
\* What the page makes of what it has read.

hasActiveJobs == \E d \in Dishes : panel.jobs[d] = "underway"

filteredMenuItems == {d \in panel.menu : panel.search \in {0, d}}

\* A dish without a forecast offers to run one, one with too little history
\* offers the import as well as the header does.
OffersRun(d) == d \in panel.menu /\ panel.triggering # d
OffersImport == panel.modal = "closed"

-----------------------------------------------------------------------------
\* The server.

\* forecast_enqueue: the job of a dish that has one today is kept, whatever
\* became of it (the deduplication key of enqueue_job).
Queued(dishes) == [d \in Dishes |-> IF d \in dishes /\ jobs[d] = "none" THEN "underway" ELSE jobs[d]]

Plan == IF history THEN "completed" ELSE "insufficient_history"
Settle(d, completed) ==
  /\ jobs[d] = "underway"
  /\ jobs' = [jobs EXCEPT ![d] = "settled"]
  /\ runs' = IF completed THEN [runs EXCEPT ![d] = Plan] ELSE runs
  /\ UNCHANGED <<history, panel, reads, command, events>>

-----------------------------------------------------------------------------
\* Reading: "data" is menu, runs and jobs, "poll" is jobs and runs, and the jobs
\* are read after a command for one dish or for all.  Bound: the calls of one read
\* are answered at one moment; they are shown together later.  "blank" tells that
\* no dish was selected when the loadData() that is called was made.

NewRead(kind, blank) ==
  [kind |-> kind, blank |-> blank, jobs |-> NoJobs, runs |-> NoJobs, answered |-> FALSE]
Asked(s, kind, blank) == reads' = [reads EXCEPT ![s] = NewRead(kind, blank)]
Free(s) == reads[s] = NoRead /\ \A t \in Slots : t < s => reads[t] # NoRead
Asks(s, kind, blank) == Free(s) /\ Asked(s, kind, blank)

\* The timer runs while the page knows of a job under way.
TimerRuns_WhileAsking == hasActiveJobs /\ panel.triggering # 0
TimerRuns == hasActiveJobs
Poll(s) ==
  /\ TimerRuns
  /\ Asks(s, "poll", FALSE)
  /\ UNCHANGED <<jobs, runs, history, panel, command, events>>

Answered(s) ==
  /\ reads[s] # NoRead /\ ~reads[s].answered
  /\ reads' = [reads EXCEPT ![s].jobs = jobs, ![s].runs = runs, ![s].answered = TRUE]
  /\ UNCHANGED <<jobs, runs, history, panel, command, events>>

\* The button of a command works again when its read has come to an end.
Over(p, kind) ==
  [p EXCEPT !.triggering = IF kind = "one" THEN 0 ELSE @, !.batch = @ /\ kind # "all"]

\* The first answer selects a dish; that is another loadData(), called at once.
Shown(s) ==
  LET r == reads[s]
  IN  /\ panel' = [Over(panel, r.kind) EXCEPT !.jobs = r.jobs,
                                !.runs = IF r.kind \in Follow THEN @ ELSE r.runs,
                                !.menu = IF r.kind = "data" THEN Dishes ELSE @,
                                !.selected = IF r.blank THEN 1 ELSE @]
      /\ IF panel'.selected # panel.selected THEN Asked(s, "data", FALSE)
         ELSE reads' = [reads EXCEPT ![s] = NoRead]
Show(s) ==
  /\ reads[s] # NoRead /\ reads[s].answered
  /\ Shown(s)
  /\ UNCHANGED <<jobs, runs, history, command, events>>

\* A poll fails silently.
ReadFails(s) ==
  /\ Event
  /\ reads[s] # NoRead
  /\ panel' = Over(panel, reads[s].kind)
  /\ reads' = [reads EXCEPT ![s] = NoRead]
  /\ UNCHANGED <<jobs, runs, history, command>>

-----------------------------------------------------------------------------
\* The manager.

Select(d, s) ==
  /\ Event
  /\ d \in filteredMenuItems \ {panel.selected}
  /\ panel' = [panel EXCEPT !.selected = d]
  /\ Asks(s, "data", FALSE)
  /\ UNCHANGED <<jobs, runs, history, command>>

\* A name that one of the dishes has, or none.
Search(d) ==
  /\ Event
  /\ panel.search # d
  /\ panel' = [panel EXCEPT !.search = d]
  /\ UNCHANGED <<jobs, runs, history, reads, command>>

\* One dish, or all dishes of the menu, which have a button of their own.
\* Bound: one command at a time; the first plan for all is no counted choice.
handleRun(dishes, batch) ==
  /\ Event \/ (batch /\ jobs = NoJobs /\ UNCHANGED events)
  /\ panel.modal = "closed" /\ command = NoCommand
  /\ IF batch THEN dishes = panel.menu /\ ~panel.batch
     ELSE \E d \in dishes : OffersRun(d) /\ dishes = {d}
  /\ dishes # {}
  /\ command' = [kind |-> IF batch THEN "all" ELSE "one", dishes |-> dishes]
  /\ panel' = IF batch THEN [panel EXCEPT !.batch = TRUE]
              ELSE [panel EXCEPT !.triggering = CHOOSE d \in dishes : TRUE]
  /\ UNCHANGED <<jobs, runs, history, reads>>

\* The command is carried out, and answered or not; then the jobs are read.
RunCommits(answered, s) ==
  /\ command.kind \in Follow
  /\ jobs' = Queued(command.dishes)
  /\ command' = NoCommand
  /\ IF answered THEN Asks(s, command.kind, FALSE) /\ UNCHANGED panel
     ELSE panel' = Over(panel, command.kind) /\ UNCHANGED reads
  /\ UNCHANGED <<runs, history, events>>

ImportModal(open) ==
  /\ Event
  /\ IF open THEN OffersImport ELSE command.kind # "import"
  /\ panel' = [panel EXCEPT !.modal = IF open THEN "open" ELSE "closed"]
  /\ UNCHANGED <<jobs, runs, history, reads, command>>

\* Text has been pasted; after a success the text is gone and must be pasted again.
handleImportSubmit ==
  /\ panel.modal = "open" /\ command = NoCommand
  /\ command' = [kind |-> "import", blank |-> panel.selected = 0]
  /\ UNCHANGED <<jobs, runs, history, panel, reads, events>>

ImportCommits(s) ==
  /\ command.kind = "import"
  /\ history' = TRUE
  /\ command' = NoCommand
  /\ panel' = [panel EXCEPT !.modal = "imported"]
  /\ Asks(s, "data", command.blank)
  /\ UNCHANGED <<jobs, runs, events>>

CommandFails ==
  /\ Event
  /\ command # NoCommand
  /\ command' = NoCommand
  /\ panel' = Over(panel, command.kind)
  /\ UNCHANGED <<jobs, runs, history, reads>>

-----------------------------------------------------------------------------
Init ==
  /\ jobs = NoJobs /\ runs = NoJobs /\ history = FALSE /\ events = 0
  /\ panel = [menu |-> {}, jobs |-> NoJobs, runs |-> NoJobs, selected |-> 0, search |-> 0,
              triggering |-> 0, batch |-> FALSE, modal |-> "closed"]
  /\ reads = [s \in Slots |-> IF s = 1 THEN NewRead("data", TRUE) ELSE NoRead]
  /\ command = NoCommand

Works == \E d \in Dishes, completed \in BOOLEAN : Settle(d, completed)
Polls == \E s \in Slots : Poll(s)
Answers(s) == Answered(s) \/ Show(s)

Next ==
  \/ Works \/ Polls \/ CommandFails \/ handleImportSubmit
  \/ \E s \in Slots : \/ Answers(s) \/ ReadFails(s) \/ ImportCommits(s)
                      \/ \E d \in Dishes : Select(d, s)
                      \/ \E answered \in BOOLEAN : RunCommits(answered, s)
  \/ \E d \in {0, 1} : Search(d)
  \/ \E dishes \in {{d} : d \in Dishes} \cup {panel.menu}, batch \in BOOLEAN : handleRun(dishes, batch)
  \/ \E open \in BOOLEAN : ImportModal(open)

\* The worker settles its jobs, the timer fires and every call is answered.
Fairness == WF_vars(Works) /\ WF_vars(Polls) /\ \A s \in Slots : WF_vars(Answers(s))

Spec == Init /\ [][Next]_vars /\ Fairness

-----------------------------------------------------------------------------
\* A job that the page shows under way is in the end shown no longer so, however
\* often its polls failed or overtook each other (the effect on [jobs]).
SpinnerStops == []<>~hasActiveJobs

=============================================================================
