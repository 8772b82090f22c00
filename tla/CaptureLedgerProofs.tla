------------------------ MODULE CaptureLedgerProofs ------------------------
(***************************************************************************)
(* The marker, the cursor and the records of a source are safe for any     *)
(* number of processes, runs, items and pages.  IInv is the inductive      *)
(* invariant of the leases and the marker: a process that is past the      *)
(* staging of a page and still holds the lease finds the marker in place,  *)
(* because no other process can hold a lease at the same time; and a       *)
(* marker stands for all events of some page.  RInv, further down, adds    *)
(* how the sink and the ledger stay within one event of each other.        *)
(***************************************************************************)
EXTENDS CaptureLedger, FiniteSetTheorems, TLAPS

Started(p) == runner[p].pc \notin {"idle", "begin"}
Marking == {"event", "commit", "commit_page"}

RunType    == run \in [Runs -> {"none", "live", "expired", "over"}]
RunnerType == /\ runner = [p \in Runners |-> runner[p]]
              /\ \A p \in Runners :
                   DOMAIN runner[p] = {"pc", "run", "recovering", "page", "todo"}
CheckpointType == DOMAIN checkpoint = {"generation", "order", "cursor", "pending"}

(* Runs are numbered as they begin, and each is the run of one process.    *)
Numbered == \E k \in 0 .. MaxRuns : \A r \in Runs : run[r] = "none" <=> r > k
OwnRun   == \A p \in Runners : Started(p) =>
              /\ runner[p].run \in Runs /\ run[runner[p].run] # "none"
              /\ \A q \in Runners \ {p} : Started(q) => runner[q].run # runner[p].run
OneLive  == \A q, r \in Runs : run[q] = "live" /\ run[r] = "live" => q = r

InHand == \A p \in Runners :
            runner[p].pc \in {"validate", "stage"} => runner[p].page \in Pages
Marked == \A p \in Runners :
            runner[p].pc \in Marking /\ run[runner[p].run] = "live" => checkpoint.pending # None
MarkerWhole ==
  checkpoint.pending # None =>
    \E page \in Pages : /\ page.next = checkpoint.pending.cursor
                        /\ \A e \in EventsOf(page) :
                             \E i \in DOMAIN checkpoint.pending.events :
                               checkpoint.pending.events[i] = e.id

IInv == /\ RunType /\ RunnerType /\ CheckpointType
        /\ Numbered /\ OwnRun /\ OneLive /\ InHand /\ Marked /\ MarkerWhole

-----------------------------------------------------------------------------
(* A process goes on with its run, or has none.                            *)
Moves(q) ==
  \/ runner'[q] = runner[q]
  \/ runner'[q].pc \in {"idle", "begin"}
  \/ /\ Started(q) /\ runner'[q].run = runner[q].run
     /\ runner'[q].pc \in {"validate", "stage"} => runner'[q].page \in Pages
     /\ runner'[q].pc \in Marking => runner[q].pc \in Marking \/ checkpoint.pending # None

(* Runs only end.                                                          *)
RunsEnd == /\ RunType'
           /\ \A r \in Runs : \/ run'[r] = run[r]
                              \/ run[r] # "none" /\ run'[r] \in {"expired", "over"}

(* A step in which runs only end and the marker stays keeps the invariant. *)
LEMMA QuietStep ==
  ASSUME IInv, RunsEnd, RunnerType', CheckpointType',
         checkpoint'.pending = checkpoint.pending,
         \A q \in Runners : Moves(q)
  PROVE  IInv'
<1>1. Numbered'
  BY DEF IInv, Numbered, RunsEnd, RunType, Runs
<1>2. OwnRun'
  <2> SUFFICES ASSUME NEW p \in Runners, Started(p)'
               PROVE  /\ runner'[p].run \in Runs /\ run'[runner'[p].run] # "none"
                      /\ \A q \in Runners \ {p} : Started(q)' => runner'[q].run # runner'[p].run
    BY DEF OwnRun
  <2>1. \A q \in Runners : Started(q)' => Started(q) /\ runner'[q].run = runner[q].run
    BY DEF Moves, Started
  <2>2. /\ runner[p].run \in Runs /\ run[runner[p].run] # "none"
        /\ \A q \in Runners \ {p} : Started(q) => runner[q].run # runner[p].run
    BY <2>1 DEF IInv, OwnRun
  <2> QED
    BY <2>1, <2>2 DEF RunsEnd
<1>3. OneLive'
  BY DEF IInv, OneLive, RunsEnd
<1>4. InHand'
  BY DEF IInv, InHand, Moves
<1>5. Marked'
  <2> SUFFICES ASSUME NEW p \in Runners, runner'[p].pc \in Marking,
                      run'[runner'[p].run] = "live"
               PROVE  checkpoint.pending # None
    BY DEF Marked
  <2>1. /\ Started(p) /\ runner'[p].run = runner[p].run
        /\ runner[p].pc \in Marking \/ checkpoint.pending # None
    BY DEF Moves, Marking, Started
  <2>2. run[runner[p].run] = "live"
    BY <2>1 DEF RunsEnd, IInv, OwnRun
  <2> QED
    BY <2>1, <2>2 DEF IInv, Marked
<1>6. MarkerWhole'
  BY DEF IInv, MarkerWhole
<1> QED
  BY <1>1, <1>2, <1>3, <1>4, <1>5, <1>6 DEF IInv, RunsEnd

(* How the actions change one process.                                     *)
LEMMA RunnerChange ==
  ASSUME RunnerType, NEW p \in Runners, NEW x,
         DOMAIN x = {"pc", "run", "recovering", "page", "todo"},
         runner' = [runner EXCEPT ![p] = x]
  PROVE  /\ RunnerType' /\ runner'[p] = x
         /\ \A q \in Runners \ {p} : runner'[q] = runner[q]
BY DEF RunnerType

(* A step of process p alone that leaves runs and marker.                  *)
LEMMA RunnerStep ==
  ASSUME IInv, NEW p \in Runners, NEW x,
         DOMAIN x = {"pc", "run", "recovering", "page", "todo"},
         runner' = [runner EXCEPT ![p] = x], Moves(p),
         UNCHANGED run, CheckpointType', checkpoint'.pending = checkpoint.pending
  PROVE  IInv'
<1>1. /\ RunnerType' /\ \A q \in Runners \ {p} : runner'[q] = runner[q]
  BY RunnerChange DEF IInv
<1>2. RunsEnd
  BY DEF IInv, RunsEnd, RunType
<1> QED
  BY <1>1, <1>2, QuietStep DEF Moves

LEMMA IdleShape == DOMAIN Idle = {"pc", "run", "recovering", "page", "todo"} /\ Idle.pc = "idle"
BY DEF Idle

(* The runs that end when the source changes hands.                        *)
LEMMA EndRunsInv ==
  ASSUME IInv, NEW S, \A r \in S \cap Runs : run[r] # "none", EndRuns(S)
  PROVE  RunsEnd
BY DEF EndRuns, RunsEnd, IInv, RunType

LEMMA RecoverRunsInv ==
  ASSUME IInv, RecoverRuns
  PROVE  RunsEnd
BY EndRunsInv DEF RecoverRuns

-----------------------------------------------------------------------------
LEMMA InitInv == Init => IInv
<1> SUFFICES ASSUME Init PROVE IInv
  OBVIOUS
<1>1. RunType /\ RunnerType /\ CheckpointType
  BY DEF Init, RunType, RunnerType, CheckpointType, Idle
<1>2. Numbered
  <2>1. 0 \in 0 .. MaxRuns /\ \A r \in Runs : run[r] = "none" /\ r > 0
    BY ConstantAssumption DEF Init, Runs
  <2> QED
    BY <2>1 DEF Numbered
<1>3. OwnRun /\ InHand /\ Marked
  BY DEF Init, OwnRun, InHand, Marked, Started, Marking, Idle
<1>4. OneLive /\ MarkerWhole
  BY DEF Init, OneLive, MarkerWhole
<1> QED
  BY <1>1, <1>2, <1>3, <1>4 DEF IInv

(* The beginning of a run: its number is new, so no process has it, and no *)
(* other run is live.                                                      *)
LEMMA BeginRunInv ==
  ASSUME IInv, NEW p \in Runners, BeginRun(p)
  PROVE  IInv'
<1> DEFINE r == Cardinality({x \in Runs : run[x] # "none"}) + 1
<1>1. /\ r \in Runs /\ run' = [run EXCEPT ![r] = "live"]
      /\ runner' = [runner EXCEPT ![p] = [Idle EXCEPT !.pc = "pending", !.run = r]]
      /\ checkpoint' = checkpoint /\ \A x \in Runs : run[x] # "live"
  BY DEF BeginRun, NewRun
<1>2. PICK k \in 0 .. MaxRuns : \A x \in Runs : run[x] = "none" <=> x > k
  BY DEF IInv, Numbered
<1>3. r = k + 1
  <2>1. {x \in Runs : run[x] # "none"} = 1 .. k
    BY <1>2, ConstantAssumption DEF Runs
  <2>2. Cardinality(1 .. k) = k
    BY <1>2, FS_Interval, ConstantAssumption
  <2> QED
    BY <2>1, <2>2
<1>4. run[r] = "none"
  BY <1>1, <1>2, <1>3 DEF Runs
<1>5. /\ RunnerType' /\ runner'[p] = [Idle EXCEPT !.pc = "pending", !.run = r]
      /\ \A q \in Runners \ {p} : runner'[q] = runner[q]
  BY <1>1, RunnerChange, IdleShape DEF IInv
<1>6. runner'[p].pc = "pending" /\ runner'[p].run = r
  BY <1>5 DEF Idle
<1>7. RunType' /\ CheckpointType'
  BY <1>1 DEF IInv, RunType, CheckpointType
<1>8. Numbered'
  <2>1. k + 1 \in 0 .. MaxRuns /\ \A x \in Runs : run'[x] = "none" <=> x > k + 1
    BY <1>1, <1>2, <1>3, ConstantAssumption DEF Runs, IInv, RunType
  <2> QED
    BY <2>1 DEF Numbered
<1>9. OwnRun'
  <2>1. \A q \in Runners \ {p} : Started(q)' =>
          /\ runner'[q].run = runner[q].run /\ runner[q].run # r /\ runner[q].run \in Runs
          /\ run'[runner[q].run] # "none"
          /\ \A o \in Runners \ {p, q} : Started(o)' => runner'[o].run # runner'[q].run
    BY <1>1, <1>4, <1>5 DEF IInv, OwnRun, Started, RunType
  <2>2. run'[r] # "none"
    BY <1>1 DEF IInv, RunType
  <2> QED
    BY <1>1, <1>6, <2>1, <2>2 DEF OwnRun
<1>10. OneLive'
  BY <1>1 DEF OneLive, IInv, RunType
<1>11. InHand'
  BY <1>5, <1>6 DEF InHand, IInv
<1>12. Marked'
  BY <1>1, <1>4, <1>5, <1>6 DEF Marked, Marking, IInv, OwnRun, Started, RunType
<1>13. MarkerWhole'
  BY <1>1 DEF MarkerWhole, IInv
<1> QED
  BY <1>5, <1>7, <1>8, <1>9, <1>10, <1>11, <1>12, <1>13 DEF IInv

-----------------------------------------------------------------------------
(* Steps of a process that leave runs and marker.                          *)
LEMMA GotoInv ==
  ASSUME IInv, NEW p \in Runners, NEW pc, Goto(p, pc), Started(p),
         pc \in {"validate", "stage"} => runner[p].page \in Pages,
         pc \in Marking => runner[p].pc \in Marking,
         UNCHANGED <<run, checkpoint>>
  PROVE  IInv'
<1> DEFINE x == [runner[p] EXCEPT !.pc = pc]
<1>1. /\ runner' = [runner EXCEPT ![p] = x]
      /\ DOMAIN x = {"pc", "run", "recovering", "page", "todo"}
      /\ x.pc = pc /\ x.run = runner[p].run /\ x.page = runner[p].page
  BY DEF Goto, IInv, RunnerType
<1>2. Moves(p)
  BY <1>1, RunnerChange DEF Moves, IInv
<1> QED
  BY <1>1, <1>2, RunnerStep DEF IInv, CheckpointType

LEMMA IdleInv ==
  ASSUME IInv, NEW p \in Runners, runner' = [runner EXCEPT ![p] = Idle],
         UNCHANGED <<run, checkpoint>>
  PROVE  IInv'
BY RunnerStep, RunnerChange, IdleShape DEF IInv, Moves, CheckpointType

LEMMA FailInv ==
  ASSUME IInv, NEW p \in Runners, Fail(p), Started(p), UNCHANGED <<run, checkpoint>>
  PROVE  IInv'
<1> DEFINE x == [Idle EXCEPT !.pc = "failed", !.run = runner[p].run]
<1>1. /\ DOMAIN x = {"pc", "run", "recovering", "page", "todo"}
      /\ x.pc = "failed" /\ x.run = runner[p].run
  BY DEF Idle
<1>2. runner' = [runner EXCEPT ![p] = x] /\ runner'[p] = x
  BY <1>1, RunnerChange DEF Fail, IInv
<1>3. Moves(p)
  BY <1>1, <1>2 DEF Moves, Marking
<1> QED
  BY <1>1, <1>2, <1>3, RunnerStep DEF IInv, CheckpointType

LEMMA LoadInv ==
  ASSUME IInv, NEW p \in Runners, NEW page, NEW todo, NEW recovering,
         Load(p, page, todo, recovering), Started(p)
  PROVE  /\ RunnerType' /\ \A q \in Runners \ {p} : runner'[q] = runner[q]
         /\ runner'[p].pc \in Marking /\ runner'[p].run = runner[p].run
<1> DEFINE x == [runner[p] EXCEPT !.page = page, !.todo = todo, !.recovering = recovering,
                                  !.pc = AfterStaging(todo)]
<1>1. /\ runner' = [runner EXCEPT ![p] = x]
      /\ DOMAIN x = {"pc", "run", "recovering", "page", "todo"}
      /\ x.pc = AfterStaging(todo) /\ x.run = runner[p].run
  BY DEF Load, IInv, RunnerType
<1>2. AfterStaging(todo) \in Marking
  BY DEF AfterStaging, Marking
<1> QED
  BY <1>1, <1>2, RunnerChange DEF IInv

LEMMA ReadPendingInv ==
  ASSUME IInv, NEW p \in Runners, ReadPending(p)
  PROVE  IInv'
<1>1. Started(p) /\ UNCHANGED <<run, checkpoint>>
  BY DEF ReadPending, At, Started, ledger
<1>2. CASE checkpoint.pending = None
  <2>1. Goto(p, "fetch")
    BY <1>2 DEF ReadPending
  <2> QED
    BY <1>1, <2>1, GotoInv DEF Marking
<1>3. CASE checkpoint.pending # None
  <2>1. Load(p, PendingPage, DOMAIN PendingPage.events, TRUE)
    BY <1>3 DEF ReadPending
  <2>2. /\ RunnerType' /\ \A q \in Runners \ {p} : runner'[q] = runner[q]
        /\ runner'[p].pc \in Marking /\ runner'[p].run = runner[p].run
    BY <1>1, <2>1, LoadInv
  <2>3. \A q \in Runners : Moves(q)
    BY <1>1, <1>3, <2>2 DEF Moves, Marking
  <2>4. RunsEnd /\ CheckpointType'
    BY <1>1 DEF RunsEnd, IInv, RunType, CheckpointType
  <2> QED
    BY <1>1, <2>2, <2>3, <2>4, QuietStep
<1> QED
  BY <1>2, <1>3

LEMMA FetchInv ==
  ASSUME IInv, NEW p \in Runners, NEW page \in Pages, Fetch(p, page)
  PROVE  IInv'
<1> DEFINE x == [runner[p] EXCEPT !.pc = "validate", !.page = page]
<1>1. /\ runner' = [runner EXCEPT ![p] = x]
      /\ DOMAIN x = {"pc", "run", "recovering", "page", "todo"}
      /\ x.pc = "validate" /\ x.run = runner[p].run /\ x.page = page
      /\ Started(p) /\ UNCHANGED <<run, checkpoint>>
  BY DEF Fetch, At, Started, ledger, IInv, RunnerType
<1>2. Moves(p)
  BY <1>1, RunnerChange DEF Moves, Marking, IInv
<1> QED
  BY <1>1, <1>2, RunnerStep DEF IInv, CheckpointType

(* The marker that staging sets stands for the whole page.                 *)
LEMMA StageInv ==
  ASSUME IInv, NEW p \in Runners, Stage(p)
  PROVE  IInv'
<1> DEFINE page == runner[p].page
           marker == [generation |-> page.generation, cursor |-> page.next,
                      events |-> [i \in DOMAIN page.events |-> page.events[i].id]]
<1>1. /\ Started(p) /\ page \in Pages /\ UNCHANGED run
      /\ checkpoint' = [checkpoint EXCEPT !.pending = marker]
      /\ Load(p, page, New(page), FALSE)
  BY DEF Stage, At, Started, IInv, InHand
<1>2. /\ RunnerType' /\ \A q \in Runners \ {p} : runner'[q] = runner[q]
      /\ runner'[p].pc \in Marking /\ runner'[p].run = runner[p].run
  BY <1>1, LoadInv
<1>3. CheckpointType' /\ checkpoint'.pending = marker
  BY <1>1 DEF IInv, CheckpointType
<1>4. marker # None
  <2>1. \A i \in DOMAIN page.events : page.events[i].id \in Ids
    BY <1>1 DEF Ids, Events, EventsOf
  <2>2. [i \in DOMAIN page.events |-> page.events[i].id] \in Seq(Ids)
    <3>1. PICK n \in Nat : DOMAIN page.events = 1 .. n
      BY <1>1, ConstantAssumption
    <3> QED
      BY <2>1, <3>1
  <2>3. marker \in Pending
    BY <1>1, <2>2 DEF Pending, Generations, Cursors
  <2> QED
    BY <2>3, ConstantAssumption
<1>5. RunType' /\ Numbered' /\ OneLive'
  BY <1>1 DEF IInv, RunType, Numbered, OneLive
<1>6. OwnRun'
  BY <1>1, <1>2 DEF IInv, OwnRun, Started, Marking
<1>7. InHand'
  BY <1>2 DEF IInv, InHand, Marking
<1>8. Marked'
  BY <1>3, <1>4 DEF Marked
<1>9. MarkerWhole'
  <2>1. \A e \in EventsOf(page) : \E i \in DOMAIN marker.events : marker.events[i] = e.id
    BY DEF EventsOf
  <2>2. \E pg \in Pages : /\ pg.next = marker.cursor
                          /\ \A e \in EventsOf(pg) :
                               \E i \in DOMAIN marker.events : marker.events[i] = e.id
    BY <1>1, <2>1
  <2> HIDE DEF marker
  <2> QED
    BY <1>3, <2>2 DEF MarkerWhole
<1> QED
  BY <1>2, <1>3, <1>5, <1>6, <1>7, <1>8, <1>9 DEF IInv

LEMMA CommitInv ==
  ASSUME IInv, NEW p \in Runners, Commit(p)
  PROVE  IInv'
<1> DEFINE rest == runner[p].todo \ First(runner[p].todo)
           x == [runner[p] EXCEPT !.todo = rest, !.pc = AfterStaging(rest)]
<1>1. /\ runner' = [runner EXCEPT ![p] = x]
      /\ DOMAIN x = {"pc", "run", "recovering", "page", "todo"}
      /\ x.pc = AfterStaging(rest) /\ x.run = runner[p].run
      /\ runner[p].pc = "commit" /\ UNCHANGED run
  BY DEF Commit, At, IInv, RunnerType
<1>2. x.pc \in Marking
  BY <1>1 DEF AfterStaging, Marking
<1>3. \E e \in AtHand(p) :
        \/ checkpoint' = [checkpoint EXCEPT !.generation = e.generation, !.order = e.order]
        \/ checkpoint' = checkpoint
  BY DEF Commit
<1>4. CheckpointType' /\ checkpoint'.pending = checkpoint.pending
  BY <1>3 DEF IInv, CheckpointType
<1>5. Moves(p)
  BY <1>1, <1>2, RunnerChange DEF Moves, Started, Marking, IInv
<1> QED
  BY <1>1, <1>4, <1>5, RunnerStep

(* Only the process that holds the lease clears the marker, so no other    *)
(* one that is past staging is left without it.                            *)
LEMMA CommitPageInv ==
  ASSUME IInv, NEW p \in Runners, CommitPage(p)
  PROVE  IInv'
<1> DEFINE page == runner[p].page
           pc == IF (IF runner[p].recovering THEN page.next = 0 ELSE page.done)
                 THEN "finish" ELSE "fetch"
           x == [Idle EXCEPT !.run = runner[p].run, !.pc = pc]
<1>1. /\ runner' = [runner EXCEPT ![p] = x]
      /\ DOMAIN x = {"pc", "run", "recovering", "page", "todo"}
      /\ x.pc = pc /\ x.run = runner[p].run
      /\ Started(p) /\ UNCHANGED run /\ run[runner[p].run] = "live"
  BY DEF CommitPage, At, Started, Owned, Idle
<1>2. pc \in {"finish", "fetch"}
  OBVIOUS
<1>3. CheckpointType' /\ checkpoint'.pending = None
  BY DEF CommitPage, PageCommitted, MoveTo, CheckpointType
<1>4. /\ RunnerType' /\ runner'[p] = x
      /\ \A q \in Runners \ {p} : runner'[q] = runner[q]
  BY <1>1, RunnerChange DEF IInv
<1> HIDE DEF pc, x
<1>5. RunType' /\ Numbered' /\ OneLive'
  BY <1>1 DEF IInv, RunType, Numbered, OneLive
<1>6. OwnRun'
  BY <1>1, <1>4 DEF IInv, OwnRun, Started
<1>7. InHand'
  BY <1>1, <1>2, <1>4 DEF IInv, InHand
<1>8. Marked'
  <2> SUFFICES ASSUME NEW q \in Runners, runner'[q].pc \in Marking,
                      run[runner'[q].run] = "live"
               PROVE  FALSE
    BY <1>1 DEF Marked
  <2>1. q # p /\ runner'[q] = runner[q] /\ Started(q)
    BY <1>1, <1>2, <1>4 DEF Marking, Started
  <2>2. /\ runner[p].run \in Runs /\ runner[q].run \in Runs
        /\ runner[q].run # runner[p].run
    BY <1>1, <2>1 DEF IInv, OwnRun
  <2> QED
    BY <1>1, <2>1, <2>2 DEF IInv, OneLive
<1>9. MarkerWhole'
  BY <1>3 DEF MarkerWhole
<1> QED
  BY <1>3, <1>4, <1>5, <1>6, <1>7, <1>8, <1>9 DEF IInv

(* A run that ends takes its process to rest.                              *)
LEMMA RestInv ==
  ASSUME IInv, NEW p \in Runners, RunsEnd, runner' = [runner EXCEPT ![p] = Idle],
         UNCHANGED checkpoint
  PROVE  IInv'
<1>1. /\ RunnerType' /\ runner'[p] = Idle
      /\ \A q \in Runners \ {p} : runner'[q] = runner[q]
  BY RunnerChange, IdleShape DEF IInv
<1>2. \A q \in Runners : Moves(q)
  BY <1>1, IdleShape DEF Moves
<1> QED
  BY <1>1, <1>2, QuietStep DEF IInv, CheckpointType

LEMMA FinishInv ==
  ASSUME IInv, NEW p \in Runners, Finish(p) \/ FinishFailed(p)
  PROVE  IInv'
<1>1. /\ EndRuns({runner[p].run}) /\ UNCHANGED checkpoint
      /\ runner' = [runner EXCEPT ![p] = Idle] /\ Started(p)
  BY DEF Finish, FinishFailed, At, Started
<1>2. RunsEnd
  BY <1>1, EndRunsInv DEF IInv, OwnRun
<1> QED
  BY <1>1, <1>2, RestInv

LEMMA StartRunInv ==
  ASSUME IInv, NEW p \in Runners, StartRun(p)
  PROVE  IInv'
<1> DEFINE x == [runner[p] EXCEPT !.pc = "begin"]
<1>1. /\ runner' = [runner EXCEPT ![p] = x]
      /\ DOMAIN x = {"pc", "run", "recovering", "page", "todo"} /\ x.pc = "begin"
      /\ UNCHANGED checkpoint /\ RunsEnd
  BY RecoverRunsInv DEF StartRun, Goto, IInv, RunnerType
<1>2. /\ RunnerType' /\ runner'[p] = x
      /\ \A q \in Runners \ {p} : runner'[q] = runner[q]
  BY <1>1, RunnerChange DEF IInv
<1>3. \A q \in Runners : Moves(q)
  BY <1>1, <1>2 DEF Moves
<1> QED
  BY <1>1, <1>2, <1>3, QuietStep DEF IInv, CheckpointType

(* One step of a process.                                                  *)
LEMMA RunInv ==
  ASSUME IInv, NEW p \in Runners, Run(p)
  PROVE  IInv'
<1>1. CASE StartRun(p)
  BY <1>1, StartRunInv
<1>2. CASE BeginRun(p)
  BY <1>2, BeginRunInv
<1>3. CASE BeginRefused(p) \/ Stale(p) \/ Crash(p)
  BY <1>3, IdleInv DEF BeginRefused, Stale, Crash, ledger
<1>4. CASE ReadPending(p)
  BY <1>4, ReadPendingInv
<1>5. CASE \E page \in Pages : Fetch(p, page)
  BY <1>5, FetchInv
<1>6. CASE Validate(p)
  BY <1>6, GotoInv DEF Validate, At, Started, Marking, ledger, IInv, InHand
<1>7. CASE Stage(p)
  BY <1>7, StageInv
<1>8. CASE Apply(p)
  BY <1>8, GotoInv DEF Apply, At, Started, Marking, ledger
<1>9. CASE Commit(p)
  BY <1>9, CommitInv
<1>10. CASE CommitPage(p)
  BY <1>10, CommitPageInv
<1>11. CASE Finish(p) \/ FinishFailed(p)
  BY <1>11, FinishInv
<1>12. CASE LoseRun(p) \/ Refused(p) \/ Fault(p)
  BY <1>12, FailInv DEF LoseRun, Refused, Fault, Working, Started, ledger
<1> QED
  BY <1>1, <1>2, <1>3, <1>4, <1>5, <1>6, <1>7, <1>8, <1>9, <1>10, <1>11, <1>12 DEF Run

(* Steps of the clock, the user and the adapter.                           *)
LEMMA OutsideInv ==
  ASSUME IInv, RunsEnd, UNCHANGED <<checkpoint, runner>>
  PROVE  IInv'
<1>1. RunnerType' /\ CheckpointType' /\ \A q \in Runners : Moves(q)
  BY DEF IInv, RunnerType, CheckpointType, Moves
<1> QED
  BY <1>1, QuietStep

LEMMA NextInv ==
  ASSUME IInv, [Next]_vars
  PROVE  IInv'
<1>1. CASE \E p \in Runners : Run(p)
  BY <1>1, RunInv
<1>2. CASE \E r \in Runs : Expire(r)
  <2>1. RunsEnd /\ UNCHANGED <<checkpoint, runner>>
    BY <1>2 DEF Expire, RunsEnd, IInv, RunType
  <2> QED
    BY <2>1, OutsideInv
<1>3. CASE RecoverExpired
  BY <1>3, RecoverRunsInv, OutsideInv DEF RecoverExpired
<1>4. CASE \E target \in {"enabled", "paused", "disabled", "revoked", "reconciling"} :
             Transition(target)
  <2>1. RunsEnd
    <3>1. CASE source.state = "reconciling"
      BY <1>4, <3>1, EndRunsInv DEF Transition, Running
    <3>2. CASE source.state # "reconciling"
      BY <1>4, <3>2 DEF Transition, RunsEnd, IInv, RunType
    <3> QED
      BY <3>1, <3>2
  <2> QED
    BY <1>4, <2>1, OutsideInv DEF Transition
<1>5. CASE MarkUnavailable \/ RecoverAdapter \/ (\E i \in Items : Touch(i)) \/ UNCHANGED vars
  <2>1. UNCHANGED <<run, checkpoint, runner>>
    BY <1>5 DEF MarkUnavailable, RecoverAdapter, Touch, ledger, vars
  <2>2. RunsEnd
    BY <2>1 DEF RunsEnd, IInv, RunType
  <2> QED
    BY <2>1, <2>2, OutsideInv
<1> QED
  BY <1>1, <1>2, <1>3, <1>4, <1>5 DEF Next

(* The inductive invariant holds in every state.                           *)
THEOREM Invariance == Spec => []IInv
<1>1. Init => IInv
  BY InitInv
<1>2. IInv /\ [Next]_vars => IInv'
  BY NextInv
<1> QED
  BY <1>1, <1>2, PTL DEF Spec

-----------------------------------------------------------------------------
CursorStep ==
  checkpoint'.cursor # checkpoint.cursor =>
    /\ \E page \in Pages : /\ page.next = checkpoint'.cursor
                           /\ \A e \in EventsOf(page) : e.id \in applied
    /\ checkpoint.pending # None => checkpoint'.cursor = checkpoint.pending.cursor

PendingStep ==
  checkpoint.pending # None /\ checkpoint'.pending # checkpoint.pending =>
    /\ checkpoint'.pending = None
    /\ \A i \in DOMAIN checkpoint.pending.events : checkpoint.pending.events[i] \in applied

(* The steps that touch the checkpoint at all.                             *)
LEMMA CheckpointSteps ==
  ASSUME [Next]_vars
  PROVE  \/ checkpoint' = checkpoint
         \/ \E p \in Runners : Stage(p) \/ Commit(p) \/ CommitPage(p)
<1>1. ASSUME NEW p \in Runners, Run(p), ~Stage(p), ~Commit(p), ~CommitPage(p)
      PROVE  checkpoint' = checkpoint
  <2>1. CASE StartRun(p) \/ BeginRun(p) \/ BeginRefused(p) \/ ReadPending(p)
    BY <2>1 DEF StartRun, BeginRun, NewRun, BeginRefused, ReadPending, ledger
  <2>2. CASE (\E page \in Pages : Fetch(p, page)) \/ Validate(p) \/ Apply(p)
    BY <2>2 DEF Fetch, Validate, Apply, ledger
  <2>3. CASE Finish(p) \/ FinishFailed(p) \/ Stale(p)
    BY <2>3 DEF Finish, FinishFailed, Stale, ledger
  <2>4. CASE LoseRun(p) \/ Refused(p) \/ Fault(p) \/ Crash(p)
    BY <2>4 DEF LoseRun, Refused, Fault, Crash, ledger
  <2> QED
    BY <1>1, <2>1, <2>2, <2>3, <2>4 DEF Run
<1>2. CASE ~\E p \in Runners : Run(p)
  BY <1>2 DEF Next, Expire, RecoverExpired, Transition, MarkUnavailable, RecoverAdapter, Touch,
              ledger, vars
<1> QED
  BY <1>1, <1>2

(* The process that moves the cursor holds the lease, so the marker is     *)
(* there, it is that of the page, and all its events are applied.          *)
LEMMA CommitPageStep ==
  ASSUME IInv, NEW p \in Runners, CommitPage(p)
  PROVE  CursorStep /\ PendingStep
<1> DEFINE marker == checkpoint.pending
<1>1. marker # None
  BY DEF CommitPage, At, Owned, Marking, IInv, Marked
<1>2. /\ checkpoint'.cursor = marker.cursor /\ checkpoint'.pending = None
      /\ \A i \in DOMAIN marker.events : marker.events[i] \in applied
  BY DEF CommitPage, PageCommitted, Matches, MoveTo
<1>3. \E page \in Pages : /\ page.next = marker.cursor
                          /\ \A e \in EventsOf(page) :
                               \E i \in DOMAIN marker.events : marker.events[i] = e.id
  BY <1>1 DEF IInv, MarkerWhole
<1>4. CursorStep
  BY <1>2, <1>3 DEF CursorStep
<1>5. PendingStep
  BY <1>2 DEF PendingStep
<1> QED
  BY <1>4, <1>5

LEMMA NextStep ==
  ASSUME IInv, [Next]_vars
  PROVE  CursorStep /\ PendingStep
<1>1. CASE checkpoint' = checkpoint
  BY <1>1 DEF CursorStep, PendingStep
<1>2. ASSUME NEW p \in Runners, Stage(p)
      PROVE  CursorStep /\ PendingStep
  BY <1>2 DEF Stage, CursorStep, PendingStep, IInv, CheckpointType
<1>3. ASSUME NEW p \in Runners, Commit(p)
      PROVE  CursorStep /\ PendingStep
  <2>1. \E e \in AtHand(p) :
          \/ checkpoint' = [checkpoint EXCEPT !.generation = e.generation, !.order = e.order]
          \/ checkpoint' = checkpoint
    BY <1>3 DEF Commit
  <2>2. checkpoint'.cursor = checkpoint.cursor /\ checkpoint'.pending = checkpoint.pending
    BY <2>1 DEF IInv, CheckpointType
  <2> QED
    BY <2>2 DEF CursorStep, PendingStep
<1> QED
  BY <1>1, <1>2, <1>3, CheckpointSteps, CommitPageStep

(* docs/protocols/CAPTURE.md: the committed cursor (checkpoint.cursor)     *)
(* only ever takes the position of a page whose events are all applied.    *)
THEOREM CursorCorrect == Spec => CursorBehindApplied
<1>1. IInv /\ [Next]_vars => [CursorStep]_vars
  BY NextStep
<1>2. [][CursorStep]_vars <=> CursorBehindApplied
  BY DEF CursorStep, CursorBehindApplied
<1> QED
  BY <1>1, <1>2, Invariance, PTL DEF Spec

(* docs/protocols/CAPTURE.md: an existing pending page is never            *)
(* overwritten, and goes only when its events are applied.                 *)
THEOREM PendingCorrect == Spec => PendingStands
<1>1. IInv /\ [Next]_vars => [PendingStep]_vars
  BY NextStep
<1>2. [][PendingStep]_vars <=> PendingStands
  BY DEF PendingStep, PendingStands
<1> QED
  BY <1>1, <1>2, Invariance, PTL DEF Spec

(* docs/protocols/CAPTURE.md: only one live lease can be held per source   *)
(* (begin_run).                                                            *)
THEOREM LeaseCorrect == Spec => []OneLive
<1>1. IInv => OneLive
  BY DEF IInv
<1> QED
  BY <1>1, Invariance, PTL

-----------------------------------------------------------------------------
(***************************************************************************)
(* The records.  Only the process that holds the lease moves them, and it  *)
(* takes the events of the marked page in turn, so the sink is at most one *)
(* event ahead of the ledger: the first one of the page still to be        *)
(* applied.                                                                *)
(***************************************************************************)
Left == {k \in DOMAIN checkpoint.pending.events : checkpoint.pending.events[k] \notin applied}
Staged(k) == stored[checkpoint.pending.events[k]]
Holds(p) == Started(p) /\ run[runner[p].run] = "live"

(* What an event makes of the record of its item.                          *)
Effect(e, r) == IF e.op = "upsert" THEN r = LiveRecord(e) ELSE r.state # "live"

(* An event that is not applied belongs to the marked page.                *)
StoredOK ==
  /\ \A id \in DOMAIN stored : stored[id] \in Events /\ stored[id].id = id
  /\ applied \subseteq DOMAIN stored
  /\ \A id \in DOMAIN stored \ applied :
       /\ checkpoint.pending # None
       /\ \E k \in DOMAIN checkpoint.pending.events : checkpoint.pending.events[k] = id

(* The checkpoint is at or past every applied event.                       *)
AppliedBehind ==
  /\ checkpoint.generation \in Nat /\ checkpoint.order \in Nat
  /\ \A id \in applied : /\ stored[id].generation \in Nat
                         /\ \/ stored[id].generation < checkpoint.generation
                            \/ /\ stored[id].generation = checkpoint.generation
                               /\ stored[id].order <= checkpoint.order

MarkerOK ==
  checkpoint.pending # None =>
    /\ checkpoint.pending.generation \in Nat
    /\ checkpoint.generation <= checkpoint.pending.generation
    /\ DOMAIN checkpoint.pending.events \subseteq Nat
    /\ \A k \in DOMAIN checkpoint.pending.events :
         /\ checkpoint.pending.events[k] \in DOMAIN stored
         /\ Staged(k).generation = checkpoint.pending.generation
    /\ \A j, k \in DOMAIN checkpoint.pending.events :
         checkpoint.pending.events[j] = checkpoint.pending.events[k] => j = k

(* The events still to be applied follow the checkpoint and one another.   *)
InTurn ==
  checkpoint.pending # None =>
    \A k \in Left : LET before == {j \in Left : j < k} IN
      /\ before = {} /\ checkpoint.order # 0
            /\ checkpoint.generation = checkpoint.pending.generation =>
           Staged(k).order = checkpoint.order + 1
      /\ \A j \in before : (\A l \in before : l <= j) => Staged(k).order = Staged(j).order + 1

(* A candidate of an event that is not applied is of the event in turn.    *)
CandidatesOK ==
  \A c \in candidates : c \notin applied =>
    /\ checkpoint.pending # None
    /\ \E k \in First(Left) : checkpoint.pending.events[k] = c
    /\ c \in DOMAIN stored /\ stored[c].op = "upsert"
    /\ record[stored[c].item].state = "user" \/ record[stored[c].item] = LiveRecord(stored[c])

Settled(i) ==
  /\ LastApplied(i) = {} => record[i] = Absent
  /\ \A id \in LastApplied(i) : Effect(stored[id], record[i])

RecordsOK ==
  /\ record = [i \in Items |-> record[i]]
  /\ \A i \in Items : record[i].state # "user" =>
       \/ Settled(i)
       \/ /\ checkpoint.pending # None
          /\ \E k \in First(Left) : Staged(k).item = i /\ Effect(Staged(k), record[i])

(* What the process that holds the lease has in hand.                      *)
AtPage(p) == runner[p].pc = "stage" => Valid(runner[p].page)
AtEvents(p) ==
  runner[p].pc \in Marking =>
    /\ Left \subseteq runner[p].todo
    /\ \A i \in runner[p].todo : /\ i \in DOMAIN checkpoint.pending.events
                                 /\ runner[p].page.events[i] = Staged(i)
AtCommit(p) ==
  runner[p].pc = "commit" =>
    \A e \in AtHand(p) : \/ e.id \in applied \/ record[e.item].state = "user"
                         \/ Effect(e, record[e.item])
RunnerOK(p) == Holds(p) => AtPage(p) /\ AtEvents(p) /\ AtCommit(p)
RunnersOK == \A p \in Runners : RunnerOK(p)

RInv == /\ StoredOK /\ AppliedBehind /\ MarkerOK /\ InTurn
        /\ CandidatesOK /\ RecordsOK /\ RunnersOK

LEMMA EventFacts ==
  ASSUME NEW e \in Events
  PROVE  e.item \in Items /\ e.op \in {"upsert", "delete"} /\ e.order \in Nat \ {0} /\ e.id \in Ids
BY ConstantAssumption DEF Ids

LEMMA PageEvents ==
  ASSUME NEW page \in Pages
  PROVE  /\ EventsOf(page) \subseteq Events /\ DOMAIN page.events \subseteq Nat
         /\ \A i \in DOMAIN page.events : page.events[i] \in EventsOf(page)
<1>1. page.events \in Seq(EventsOf(page))
  BY ConstantAssumption
<1>2. DOMAIN page.events = 1 .. Len(page.events) /\ Len(page.events) \in Nat
  BY <1>1
<1>3. DOMAIN page.events \subseteq Nat
  BY <1>2
<1> QED
  BY <1>3 DEF Events, EventsOf

LEMMA FirstOne ==
  ASSUME NEW S, S \subseteq Nat, NEW i \in First(S), NEW j \in First(S)
  PROVE  i = j
BY DEF First

(* The lease has one holder.                                               *)
LEMMA Alone ==
  ASSUME IInv, NEW p \in Runners, Holds(p), NEW q \in Runners \ {p}
  PROVE  ~Holds(q)
BY DEF IInv, OwnRun, OneLive, Holds

(* A process that keeps its place in a step that moves no other part of    *)
(* the ledger or the vault, except that the user may take records.         *)
RecordsKept ==
  /\ UNCHANGED <<checkpoint, stored, applied, candidates>>
  /\ record' = [i \in Items |-> record'[i]]
  /\ \A i \in Items : record'[i] = record[i] \/ record'[i].state = "user"

LEMMA StagedEvents ==
  ASSUME RInv, checkpoint.pending # None, NEW k \in DOMAIN checkpoint.pending.events
  PROVE  Staged(k) \in Events /\ Staged(k).id = checkpoint.pending.events[k] /\ k \in Nat
BY DEF RInv, MarkerOK, StoredOK, Staged

LEMMA RunnerKept ==
  ASSUME IInv, RInv, RecordsKept, NEW q \in Runners, runner'[q] = runner[q],
         Holds(q)' => Holds(q)
  PROVE  RunnerOK(q)'
<1> SUFFICES ASSUME Holds(q)' PROVE AtPage(q)' /\ AtEvents(q)' /\ AtCommit(q)'
  BY DEF RunnerOK
<1>1. AtPage(q) /\ AtEvents(q) /\ AtCommit(q) /\ Holds(q)
  BY DEF RInv, RunnersOK, RunnerOK
<1>2. AtPage(q)'
  BY <1>1 DEF AtPage, Valid, Consistent, New, RecordsKept
<1>3. AtEvents(q)'
  BY <1>1 DEF AtEvents, Left, Staged, RecordsKept
<1>4. AtCommit(q)'
  <2> SUFFICES ASSUME runner[q].pc = "commit", NEW e \in AtHand(q)
               PROVE  \/ e.id \in applied \/ record'[e.item].state = "user"
                      \/ Effect(e, record'[e.item])
    BY DEF AtCommit, AtHand, RecordsKept
  <2>1. e \in Events
    <3>1. PICK i \in First(runner[q].todo) : e = runner[q].page.events[i]
      BY DEF AtHand
    <3>2. checkpoint.pending # None
      BY <1>1 DEF IInv, Marked, Holds, Marking
    <3>3. i \in DOMAIN checkpoint.pending.events /\ e = Staged(i)
      BY <1>1, <3>1 DEF AtEvents, Marking, First
    <3> QED
      BY <3>2, <3>3, StagedEvents
  <2>2. record'[e.item] = record[e.item] \/ record'[e.item].state = "user"
    BY <2>1, EventFacts DEF RecordsKept
  <2>3. \/ e.id \in applied \/ record[e.item].state = "user"
        \/ Effect(e, record[e.item])
    BY <1>1 DEF AtCommit
  <2> QED
    BY <2>2, <2>3
<1> QED
  BY <1>2, <1>3, <1>4

(* A step that leaves ledger and vault to the processes.                   *)
LEMMA KeptInv ==
  ASSUME RInv, RecordsKept, \A q \in Runners : RunnerOK(q)'
  PROVE  RInv'
<1>1. StoredOK' /\ AppliedBehind' /\ MarkerOK'
  BY DEF RInv, RecordsKept, StoredOK, AppliedBehind, MarkerOK, Staged
<1>2. InTurn'
  BY DEF RInv, RecordsKept, InTurn, Left, Staged
<1>3. CandidatesOK'
  <2> SUFFICES ASSUME NEW c \in candidates, c \notin applied
               PROVE  /\ checkpoint.pending # None
                      /\ \E k \in First(Left) : checkpoint.pending.events[k] = c
                      /\ c \in DOMAIN stored /\ stored[c].op = "upsert"
                      /\ \/ record'[stored[c].item].state = "user"
                         \/ record'[stored[c].item] = LiveRecord(stored[c])
    BY DEF CandidatesOK, RecordsKept, Left
  <2>1. /\ checkpoint.pending # None
        /\ \E k \in First(Left) : checkpoint.pending.events[k] = c
        /\ c \in DOMAIN stored /\ stored[c].op = "upsert"
        /\ record[stored[c].item].state = "user" \/ record[stored[c].item] = LiveRecord(stored[c])
    BY DEF RInv, CandidatesOK
  <2>2. stored[c].item \in Items
    BY <2>1, EventFacts DEF RInv, StoredOK
  <2> QED
    BY <2>1, <2>2 DEF RecordsKept
<1>4. RecordsOK'
  <2> SUFFICES ASSUME NEW i \in Items, record'[i].state # "user"
               PROVE  (\/ Settled(i)
                       \/ /\ checkpoint.pending # None
                          /\ \E k \in First(Left) : Staged(k).item = i /\ Effect(Staged(k), record[i]))'
    BY DEF RecordsOK, RecordsKept
  <2>1. record'[i] = record[i]
    BY DEF RecordsKept
  <2>2. \/ Settled(i)
        \/ /\ checkpoint.pending # None
           /\ \E k \in First(Left) : Staged(k).item = i /\ Effect(Staged(k), record[i])
    BY <2>1 DEF RInv, RecordsOK
  <2> QED
    BY <2>1, <2>2 DEF RecordsKept, Settled, LastApplied, Left, Staged
<1> QED
  BY <1>1, <1>2, <1>3, <1>4 DEF RInv, RunnersOK

(* A step of process p that leaves the other processes, ledger and vault.  *)
LEMMA RunnerOnly ==
  ASSUME IInv, RInv, NEW p \in Runners, RunnerOK(p)',
         UNCHANGED <<checkpoint, stored, applied, candidates, record>>,
         \A q \in Runners \ {p} : runner'[q] = runner[q] /\ (Holds(q)' => Holds(q))
  PROVE  RInv'
<1>1. RecordsKept
  BY DEF RecordsKept, RInv, RecordsOK
<1>2. \A q \in Runners \ {p} : RunnerOK(q)'
  BY <1>1, RunnerKept
<1> QED
  BY <1>1, <1>2, KeptInv

(* The step leaves the ledger beside the runs, and the vault.              *)
Untouched == UNCHANGED <<checkpoint, stored, applied, candidates, record>>

(* A process that comes to a place where it has nothing in hand.           *)
LEMMA EmptyHands ==
  ASSUME IInv, RInv, Untouched, NEW p \in Runners, NEW x,
         DOMAIN x = {"pc", "run", "recovering", "page", "todo"},
         runner' = [runner EXCEPT ![p] = x], x.pc \notin Marking \cup {"stage"},
         \A q \in Runners \ {p} : Holds(q)' => Holds(q)
  PROVE  RInv'
<1>1. runner'[p] = x /\ \A q \in Runners \ {p} : runner'[q] = runner[q]
  BY RunnerChange DEF IInv
<1>2. RunnerOK(p)'
  BY <1>1 DEF RunnerOK, AtPage, AtEvents, AtCommit, Marking
<1> QED
  BY <1>1, <1>2, RunnerOnly DEF Untouched

LEMMA RunsEndHolds ==
  ASSUME IInv, RunsEnd, NEW q \in Runners, runner'[q] = runner[q]
  PROVE  Holds(q)' => Holds(q)
BY DEF IInv, RunsEnd, Holds, OwnRun, Started

LEMMA StartRunRecords ==
  ASSUME IInv, RInv, NEW p \in Runners, StartRun(p)
  PROVE  RInv'
<1> DEFINE x == [runner[p] EXCEPT !.pc = "begin"]
<1>1. /\ runner' = [runner EXCEPT ![p] = x]
      /\ DOMAIN x = {"pc", "run", "recovering", "page", "todo"} /\ x.pc = "begin"
      /\ Untouched /\ RunsEnd
  BY RecoverRunsInv DEF StartRun, Goto, IInv, RunnerType, Untouched, vault
<1>2. \A q \in Runners \ {p} : Holds(q)' => Holds(q)
  BY <1>1, RunsEndHolds, RunnerChange DEF IInv
<1> QED
  BY <1>1, <1>2, EmptyHands DEF Marking

(* The number of a new run is nobody's.                                    *)
LEMMA BeginRunRecords ==
  ASSUME IInv, RInv, NEW p \in Runners, BeginRun(p)
  PROVE  RInv'
<1> DEFINE r == Cardinality({x \in Runs : run[x] # "none"}) + 1
           y == [Idle EXCEPT !.pc = "pending", !.run = r]
<1>1. /\ r \in Runs /\ run' = [run EXCEPT ![r] = "live"]
      /\ runner' = [runner EXCEPT ![p] = y]
      /\ Untouched /\ \A x \in Runs : run[x] # "live"
  BY DEF BeginRun, NewRun, Untouched, vault
<1>2. DOMAIN y = {"pc", "run", "recovering", "page", "todo"} /\ y.pc = "pending" /\ y.run = r
  BY DEF Idle
<1>3. run[r] = "none"
  <2>1. PICK k \in 0 .. MaxRuns : \A x \in Runs : run[x] = "none" <=> x > k
    BY DEF IInv, Numbered
  <2>2. {x \in Runs : run[x] # "none"} = 1 .. k
    BY <2>1, ConstantAssumption DEF Runs
  <2>3. Cardinality(1 .. k) = k
    BY <2>1, FS_Interval, ConstantAssumption
  <2>4. r = k + 1
    BY <2>2, <2>3
  <2> QED
    BY <1>1, <2>1, <2>4 DEF Runs
<1> HIDE DEF r, y
<1>4. \A q \in Runners \ {p} : Holds(q)' => Holds(q)
  BY <1>1, <1>2, <1>3, RunnerChange DEF IInv, OwnRun, Holds, Started, RunType
<1> QED
  BY <1>1, <1>2, <1>4, EmptyHands DEF Marking

LEMMA ReadPendingRecords ==
  ASSUME IInv, RInv, NEW p \in Runners, ReadPending(p)
  PROVE  RInv'
<1>1. UNCHANGED run /\ Untouched /\ Started(p)
  BY DEF ReadPending, ledger, vault, Untouched, At, Started
<1>2. CASE checkpoint.pending = None
  <2> DEFINE x == [runner[p] EXCEPT !.pc = "fetch"]
  <2>1. /\ runner' = [runner EXCEPT ![p] = x]
        /\ DOMAIN x = {"pc", "run", "recovering", "page", "todo"} /\ x.pc = "fetch"
    BY <1>2 DEF ReadPending, Goto, IInv, RunnerType
  <2>2. \A q \in Runners \ {p} : Holds(q)' => Holds(q)
    BY <1>1, <2>1, RunnerChange DEF IInv, Holds, Started
  <2> QED
    BY <1>1, <2>1, <2>2, EmptyHands DEF Marking
<1>3. CASE checkpoint.pending # None
  <2> DEFINE page == PendingPage
             x == [runner[p] EXCEPT !.page = page, !.todo = DOMAIN page.events,
                     !.recovering = TRUE, !.pc = AfterStaging(DOMAIN page.events)]
  <2>1. /\ runner' = [runner EXCEPT ![p] = x]
        /\ DOMAIN x = {"pc", "run", "recovering", "page", "todo"}
        /\ x.pc \in {"event", "commit_page"} /\ x.page = page /\ x.todo = DOMAIN page.events
    BY <1>3 DEF ReadPending, Load, AfterStaging, IInv, RunnerType
  <2>2. runner'[p] = x /\ \A q \in Runners \ {p} : runner'[q] = runner[q]
    BY <2>1, RunnerChange DEF IInv
  <2>3. page.events = [k \in DOMAIN checkpoint.pending.events |-> Staged(k)]
    BY DEF PendingPage, Staged
  <2> HIDE DEF page, x
  <2>4. DOMAIN page.events = DOMAIN checkpoint.pending.events
        /\ \A k \in DOMAIN checkpoint.pending.events : page.events[k] = Staged(k)
    BY <2>3
  <2>5. Left' = Left /\ \A k : Staged(k)' = Staged(k)
    BY <1>1 DEF Untouched, Left, Staged
  <2>6. AtEvents(p)'
    <3>1. Left \subseteq DOMAIN page.events
      BY <2>4 DEF Left
    <3> QED
      BY <1>1, <2>1, <2>2, <2>4, <2>5, <3>1 DEF AtEvents, Untouched
  <2>7. RunnerOK(p)'
    BY <2>1, <2>2, <2>6 DEF RunnerOK, AtPage, AtCommit
  <2> QED
    BY <1>1, <2>2, <2>7, RunnerOnly DEF Untouched, Holds, Started
<1> QED
  BY <1>2, <1>3

LEMMA FetchRecords ==
  ASSUME IInv, RInv, NEW p \in Runners, NEW page \in Pages, Fetch(p, page)
  PROVE  RInv'
<1> DEFINE x == [runner[p] EXCEPT !.pc = "validate", !.page = page]
<1>1. /\ runner' = [runner EXCEPT ![p] = x]
      /\ DOMAIN x = {"pc", "run", "recovering", "page", "todo"} /\ x.pc = "validate"
      /\ Untouched /\ UNCHANGED run
  BY DEF Fetch, ledger, vault, Untouched, IInv, RunnerType
<1>2. \A q \in Runners \ {p} : Holds(q)' => Holds(q)
  BY <1>1, RunnerChange DEF IInv, Holds, Started
<1> QED
  BY <1>1, <1>2, EmptyHands DEF Marking

(* A page that was found valid stays so while the lease is held.           *)
LEMMA ValidateRecords ==
  ASSUME IInv, RInv, NEW p \in Runners, Validate(p)
  PROVE  RInv'
<1> DEFINE x == [runner[p] EXCEPT !.pc = "stage"]
<1>1. /\ runner' = [runner EXCEPT ![p] = x]
      /\ DOMAIN x = {"pc", "run", "recovering", "page", "todo"} /\ x.pc = "stage"
      /\ x.page = runner[p].page /\ Valid(runner[p].page)
      /\ Untouched /\ UNCHANGED run
  BY DEF Validate, Goto, ledger, vault, Untouched, IInv, RunnerType
<1>2. runner'[p] = x /\ \A q \in Runners \ {p} : runner'[q] = runner[q]
  BY <1>1, RunnerChange DEF IInv
<1> HIDE DEF x
<1>3. AtPage(p)'
  BY <1>1, <1>2 DEF AtPage, Valid, Consistent, New, Untouched
<1>4. RunnerOK(p)'
  BY <1>1, <1>2, <1>3 DEF RunnerOK, AtEvents, AtCommit, Marking
<1> QED
  BY <1>1, <1>2, <1>4, RunnerOnly DEF Untouched, Holds, Started

LEMMA RestRecords ==
  ASSUME IInv, RInv, NEW p \in Runners,
         BeginRefused(p) \/ Stale(p) \/ Crash(p) \/ Finish(p) \/ FinishFailed(p)
  PROVE  RInv'
<1>1. runner' = [runner EXCEPT ![p] = Idle] /\ Untouched /\ RunsEnd
  <2>1. CASE BeginRefused(p) \/ Stale(p) \/ Crash(p)
    BY <2>1 DEF BeginRefused, Stale, Crash, ledger, vault, Untouched, RunsEnd, IInv, RunType
  <2>2. CASE Finish(p) \/ FinishFailed(p)
    BY <2>2, EndRunsInv DEF Finish, FinishFailed, At, Started, vault, Untouched, IInv, OwnRun
  <2> QED
    BY <2>1, <2>2
<1>2. \A q \in Runners \ {p} : Holds(q)' => Holds(q)
  BY <1>1, RunsEndHolds, RunnerChange, IdleShape DEF IInv
<1> QED
  BY <1>1, <1>2, EmptyHands, IdleShape DEF Marking

LEMMA FailRecords ==
  ASSUME IInv, RInv, NEW p \in Runners, LoseRun(p) \/ Refused(p) \/ Fault(p)
  PROVE  RInv'
<1> DEFINE x == [Idle EXCEPT !.pc = "failed", !.run = runner[p].run]
<1>1. runner' = [runner EXCEPT ![p] = x] /\ Untouched /\ UNCHANGED run
  BY DEF LoseRun, Refused, Fault, Fail, ledger, vault, Untouched
<1>2. DOMAIN x = {"pc", "run", "recovering", "page", "todo"} /\ x.pc = "failed"
  BY DEF Idle
<1> HIDE DEF x
<1>3. \A q \in Runners \ {p} : Holds(q)' => Holds(q)
  BY <1>1, <1>2, RunnerChange DEF IInv, Holds, Started
<1> QED
  BY <1>1, <1>2, <1>3, EmptyHands DEF Marking

(* Steps of the clock, the user and the adapter.                           *)
LEMMA OutsideRecords ==
  ASSUME IInv, RInv, RecordsKept, RunsEnd, UNCHANGED runner
  PROVE  RInv'
<1>1. \A q \in Runners : RunnerOK(q)'
  BY RunnerKept, RunsEndHolds
<1> QED
  BY <1>1, KeptInv

-----------------------------------------------------------------------------
(* The sink and the ledger.                                                *)

(* When nothing is marked, every stored event is applied.                  *)
LEMMA AllApplied ==
  ASSUME RInv, checkpoint.pending = None
  PROVE  DOMAIN stored = applied /\ candidates \subseteq applied /\ \A i \in Items :
           record[i].state # "user" => Settled(i)
BY DEF RInv, StoredOK, CandidatesOK, RecordsOK

LEMMA StageRecords ==
  ASSUME IInv, RInv, NEW p \in Runners, Stage(p)
  PROVE  RInv'
<1> DEFINE page == runner[p].page
           ids == [i \in DOMAIN page.events |-> page.events[i].id]
           marker == [generation |-> page.generation, cursor |-> page.next, events |-> ids]
           x == [runner[p] EXCEPT !.page = page, !.todo = New(page), !.recovering = FALSE,
                                  !.pc = AfterStaging(New(page))]
<1>1. /\ Holds(p) /\ runner[p].pc = "stage"
      /\ checkpoint.pending = None /\ Consistent(page)
      /\ stored' = [id \in DOMAIN stored \cup {e.id : e \in EventsOf(page)} |->
                      IF id \in DOMAIN stored THEN stored[id]
                      ELSE CHOOSE e \in EventsOf(page) : e.id = id]
      /\ checkpoint' = [checkpoint EXCEPT !.pending = marker]
      /\ runner' = [runner EXCEPT ![p] = x]
      /\ UNCHANGED <<run, applied, candidates, record>>
  BY DEF Stage, Load, At, Started, Owned, Holds, vault
<1>2. page \in Pages /\ Valid(page)
  BY <1>1 DEF IInv, InHand, RInv, RunnersOK, RunnerOK, AtPage
<1>3. /\ DOMAIN x = {"pc", "run", "recovering", "page", "todo"}
      /\ x.pc \in {"event", "commit_page"} /\ x.page = page /\ x.todo = New(page)
      /\ x.run = runner[p].run
  BY DEF IInv, RunnerType, AfterStaging
<1>4. runner'[p] = x /\ \A q \in Runners \ {p} : runner'[q] = runner[q]
  BY <1>1, <1>3, RunnerChange DEF IInv
<1>5. /\ checkpoint'.pending = marker /\ checkpoint'.generation = checkpoint.generation
      /\ checkpoint'.order = checkpoint.order
  BY <1>1 DEF IInv, CheckpointType
<1>6. /\ DOMAIN stored = applied /\ candidates \subseteq applied
      /\ \A i \in Items : record[i].state # "user" => Settled(i)
  BY <1>1, AllApplied
<1>7. \A e \in EventsOf(page) : stored'[e.id] = e /\ e.id \in DOMAIN stored'
  <2> SUFFICES ASSUME NEW e \in EventsOf(page)
               PROVE  stored'[e.id] = e /\ e.id \in DOMAIN stored'
    OBVIOUS
  <2>1. \A f \in EventsOf(page) : f.id = e.id => f = e
    BY <1>1 DEF Consistent, EventsOf
  <2>2. e.id \in DOMAIN stored => stored[e.id] = e
    BY <1>1 DEF Consistent
  <2> QED
    BY <1>1, <2>1, <2>2
<1>8. \A id \in DOMAIN stored : stored'[id] = stored[id]
  BY <1>1
<1>9. \A i \in DOMAIN page.events :
        page.events[i] \in EventsOf(page) /\ page.events[i] \in Events /\ i \in Nat
  BY <1>2, PageEvents
<1>10. /\ checkpoint'.pending.generation = page.generation
       /\ DOMAIN checkpoint'.pending.events = DOMAIN page.events
       /\ \A i \in DOMAIN page.events : checkpoint'.pending.events[i] = page.events[i].id
  BY <1>5
<1> HIDE DEF page, ids, marker, x
<1>11. \A i \in DOMAIN page.events : Staged(i)' = page.events[i]
  BY <1>7, <1>9, <1>10 DEF Staged
<1>12. Left' = New(page)
  BY <1>1, <1>10 DEF Left, New
<1>13. checkpoint'.pending # None
  <2>1. IInv'
    BY StageInv
  <2> QED
    BY <1>1, <1>3, <1>4, <2>1 DEF IInv, Marked, Marking, Holds
<1>14. StoredOK'
  <2>0. applied' \subseteq DOMAIN stored'
    BY <1>1, <1>6
  <2> SUFFICES ASSUME NEW id \in DOMAIN stored'
               PROVE  /\ stored'[id] \in Events /\ stored'[id].id = id
                      /\ id \notin applied =>
                           \E k \in DOMAIN page.events : page.events[k].id = id
    <3>1. \A id : (\E k \in DOMAIN page.events : page.events[k].id = id) =>
             \E k \in DOMAIN checkpoint'.pending.events : checkpoint'.pending.events[k] = id
      BY <1>10
    <3> QED
      BY <1>1, <1>13, <2>0, <3>1 DEF StoredOK
  <2>1. CASE id \in DOMAIN stored
    BY <1>6, <1>8, <2>1 DEF RInv, StoredOK
  <2>2. CASE id \notin DOMAIN stored
    <3>1. PICK e \in EventsOf(page) : e.id = id
      BY <1>1, <2>2
    <3>2. e \in Events /\ \E k \in DOMAIN page.events : page.events[k] = e
      BY <1>2, PageEvents DEF EventsOf
    <3> QED
      BY <1>7, <3>1, <3>2
  <2> QED
    BY <2>1, <2>2
<1>15. AppliedBehind'
  BY <1>1, <1>5, <1>6, <1>8 DEF RInv, AppliedBehind
<1>16. MarkerOK'
  <2>1. page.generation \in Nat /\ checkpoint.generation <= page.generation
    BY <1>2, ConstantAssumption DEF Valid, RInv, AppliedBehind
  <2>2. \A i \in DOMAIN page.events : page.events[i].generation = page.generation
    BY <1>2, <1>9 DEF Valid
  <2>3. \A i, j \in DOMAIN page.events : page.events[i].id = page.events[j].id => i = j
    BY <1>1 DEF Consistent
  <2>4. \A i \in DOMAIN page.events : page.events[i].id \in DOMAIN stored'
    BY <1>7, <1>9
  <2>5. DOMAIN page.events \subseteq Nat
    BY <1>9
  <2> QED
    BY <1>5, <1>10, <1>11, <2>1, <2>2, <2>3, <2>4, <2>5 DEF MarkerOK
<1>17. InTurn'
  <2> SUFFICES ASSUME NEW k \in New(page)
               PROVE  LET before == {j \in New(page) : j < k} IN
                        /\ before = {} /\ checkpoint.order # 0
                              /\ checkpoint.generation = page.generation =>
                             page.events[k].order = checkpoint.order + 1
                        /\ \A j \in before : (\A l \in before : l <= j) =>
                             page.events[k].order = page.events[j].order + 1
    <3>1. \A k \in New(page) : Staged(k)' = page.events[k]
      BY <1>11 DEF New
    <3> QED
      BY <1>5, <1>10, <1>12, <3>1 DEF InTurn
  <2> DEFINE before == {j \in New(page) : j < k}
  <2>1. /\ before = {} => Follows(IF page.generation = checkpoint.generation
                                  THEN checkpoint.order ELSE 0, page.events[k])
        /\ \A j \in before : (\A l \in before : l <= j) =>
                               Follows(page.events[j].order, page.events[k])
    BY <1>2 DEF Valid
  <2>2. \A j \in before : page.events[j].order # 0
    BY <1>9, EventFacts DEF New
  <2> QED
    BY <2>1, <2>2 DEF Follows
<1>18. CandidatesOK'
  BY <1>1, <1>6 DEF CandidatesOK
<1>19. RecordsOK'
  <2> SUFFICES ASSUME NEW i \in Items, record[i].state # "user" PROVE Settled(i)'
    BY <1>1 DEF RecordsOK, RInv
  <2>1. Settled(i)
    BY <1>6
  <2>2. LastApplied(i)' = LastApplied(i)
    BY <1>1, <1>6, <1>8 DEF LastApplied
  <2>3. \A id \in LastApplied(i) : stored'[id] = stored[id]
    BY <1>6, <1>8 DEF LastApplied
  <2> QED
    BY <1>1, <2>1, <2>2, <2>3 DEF Settled
<1>20. RunnersOK'
  <2>1. RunnerOK(p)'
    <3>1. AtEvents(p)'
      BY <1>3, <1>4, <1>10, <1>11, <1>12 DEF AtEvents, New
    <3> QED
      BY <1>3, <1>4, <3>1 DEF RunnerOK, AtPage, AtCommit
  <2>2. \A q \in Runners \ {p} : ~Holds(q)'
    BY <1>1, <1>4, Alone DEF Holds, Started
  <2> QED
    BY <2>1, <2>2 DEF RunnersOK, RunnerOK
<1> QED
  BY <1>14, <1>15, <1>16, <1>17, <1>18, <1>19, <1>20 DEF RInv

(* The event the holder of the lease has at hand: one that is not applied  *)
(* is the first one of the page that is left.                              *)
LEMMA HandFacts ==
  ASSUME IInv, RInv, NEW p \in Runners, Holds(p), runner[p].pc \in Marking,
         NEW i \in First(runner[p].todo)
  PROVE  /\ checkpoint.pending # None /\ i \in DOMAIN checkpoint.pending.events /\ i \in Nat
         /\ runner[p].page.events[i] = Staged(i) /\ Staged(i) \in Events
         /\ Staged(i).id = checkpoint.pending.events[i]
         /\ Staged(i).generation = checkpoint.pending.generation
         /\ Left \subseteq Nat /\ runner[p].todo \subseteq Nat
         /\ AtHand(p) = {Staged(i)} /\ First(runner[p].todo) = {i}
         /\ Staged(i).id \notin applied => i \in First(Left) /\ First(Left) = {i}
<1>1. checkpoint.pending # None
  BY DEF IInv, Marked, Holds
<1>2. AtEvents(p)
  BY DEF RInv, RunnersOK, RunnerOK
<1>3. i \in DOMAIN checkpoint.pending.events /\ runner[p].page.events[i] = Staged(i)
  BY <1>2 DEF AtEvents, First
<1>4. i \in Nat /\ Staged(i) \in Events /\ Staged(i).id = checkpoint.pending.events[i]
  BY <1>1, <1>3, StagedEvents
<1>5. Staged(i).generation = checkpoint.pending.generation
  BY <1>1, <1>3 DEF RInv, MarkerOK
<1>6. Left \subseteq Nat /\ runner[p].todo \subseteq Nat
  BY <1>1, <1>2 DEF RInv, MarkerOK, Left, AtEvents
<1>7. First(runner[p].todo) = {i}
  BY <1>6, FirstOne
<1>8. AtHand(p) = {Staged(i)}
  BY <1>3, <1>7 DEF AtHand
<1>9. ASSUME Staged(i).id \notin applied
      PROVE  i \in First(Left) /\ First(Left) = {i}
  <2>1. i \in First(Left)
    BY <1>2, <1>3, <1>4, <1>9 DEF First, Left, AtEvents
  <2>2. \A j \in First(Left) : j = i
    BY <1>6, <2>1, FirstOne
  <2> QED
    BY <2>1, <2>2
<1> QED
  BY <1>1, <1>3, <1>4, <1>5, <1>6, <1>7, <1>8, <1>9

LEMMA ApplyRecords ==
  ASSUME IInv, RInv, NEW p \in Runners, Apply(p)
  PROVE  RInv'
<1> DEFINE x == [runner[p] EXCEPT !.pc = "commit"]
<1>1. PICK i \in First(runner[p].todo) :
        LET e == runner[p].page.events[i] IN
        /\ Holds(p) /\ runner[p].pc = "event"
        /\ \E new \in Outcomes(e) : record' = [record EXCEPT ![e.item] = new]
        /\ candidates' = IF e.op = "upsert" THEN candidates \cup {e.id} ELSE candidates
        /\ runner' = [runner EXCEPT ![p] = x]
        /\ UNCHANGED <<run, checkpoint, stored, applied>>
  BY DEF Apply, AtHand, Goto, At, Started, Owned, Holds, ledger, IInv, RunnerType
<1> DEFINE e == Staged(i)
<1>2. /\ checkpoint.pending # None /\ i \in DOMAIN checkpoint.pending.events /\ i \in Nat
      /\ runner[p].page.events[i] = e /\ e \in Events
      /\ e.id = checkpoint.pending.events[i]
      /\ AtHand(p) = {e} /\ First(runner[p].todo) = {i}
      /\ e.id \notin applied => i \in First(Left) /\ First(Left) = {i}
  BY <1>1, HandFacts DEF Marking
<1>3. PICK new \in Outcomes(e) : record' = [record EXCEPT ![e.item] = new]
  BY <1>1, <1>2
<1>4. Projected(e, record[e.item], new)
  BY DEF Outcomes
<1>5. e.item \in Items /\ e.op \in {"upsert", "delete"}
  BY <1>2, EventFacts
<1>6. /\ record' = [j \in Items |-> record'[j]] /\ record'[e.item] = new
      /\ \A j \in Items \ {e.item} : record'[j] = record[j]
  BY <1>3, <1>5 DEF RInv, RecordsOK
<1>7. /\ candidates' = IF e.op = "upsert" THEN candidates \cup {e.id} ELSE candidates
      /\ e.id \in DOMAIN stored /\ stored[e.id] = e
  BY <1>1, <1>2 DEF RInv, MarkerOK, Staged
<1>8. /\ DOMAIN x = {"pc", "run", "recovering", "page", "todo"} /\ x.pc = "commit"
      /\ x.page = runner[p].page /\ x.todo = runner[p].todo
  BY DEF IInv, RunnerType
<1>9. runner'[p] = x /\ \A q \in Runners \ {p} : runner'[q] = runner[q]
  BY <1>1, <1>8, RunnerChange DEF IInv
<1>10. UNCHANGED <<run, checkpoint, stored, applied>> /\ Holds(p) /\ runner[p].pc = "event"
  BY <1>1
<1>11. Left' = Left /\ \A k : Staged(k)' = Staged(k)
  BY <1>10 DEF Left, Staged
<1> HIDE DEF e, x
<1>12. \/ e.id \in applied /\ new = record[e.item]
       \/ record[e.item].state = "user" /\ new = record[e.item]
       \/ e.id \notin applied /\ record[e.item].state # "user" /\ Effect(e, new)
  BY <1>4, <1>5 DEF Projected, Effect
<1>13. StoredOK' /\ AppliedBehind' /\ MarkerOK'
  BY <1>10 DEF RInv, StoredOK, AppliedBehind, MarkerOK, Staged
<1>14. InTurn'
  BY <1>10, <1>11 DEF RInv, InTurn
<1>15. CandidatesOK'
  <2> SUFFICES ASSUME NEW c \in candidates', c \notin applied
               PROVE  /\ \E k \in First(Left) : checkpoint.pending.events[k] = c
                      /\ c \in DOMAIN stored /\ stored[c].op = "upsert"
                      /\ \/ record'[stored[c].item].state = "user"
                         \/ record'[stored[c].item] = LiveRecord(stored[c])
    BY <1>2, <1>10, <1>11 DEF CandidatesOK
  <2>1. CASE e.id \in applied
    <3>1. c \in candidates
      BY <1>7, <2>1
    <3>2. record' = record
      BY <1>6, <1>12, <2>1 DEF RInv, RecordsOK
    <3> QED
      BY <3>1, <3>2 DEF RInv, CandidatesOK
  <2>2. CASE e.id \notin applied
    <3>1. c = e.id
      BY <1>2, <1>7, <2>2 DEF RInv, CandidatesOK
    <3>2. stored[c] = e /\ e.op = "upsert"
      <4>1. CASE c \in candidates
        BY <1>7, <3>1, <4>1 DEF RInv, CandidatesOK
      <4>2. CASE c \notin candidates
        BY <1>7, <3>1, <4>2
      <4> QED
        BY <4>1, <4>2
    <3> QED
      BY <1>2, <1>6, <1>7, <1>12, <2>2, <3>1, <3>2 DEF Effect
  <2> QED
    BY <2>1, <2>2
<1>16. RecordsOK'
  <2> SUFFICES ASSUME NEW j \in Items, record'[j].state # "user"
               PROVE  (\/ Settled(j)
                       \/ /\ checkpoint.pending # None
                          /\ \E k \in First(Left) : Staged(k).item = j /\ Effect(Staged(k), record[j]))'
    BY <1>6 DEF RecordsOK
  <2>1. CASE record'[j] = record[j]
    <3>1. \/ Settled(j)
          \/ /\ checkpoint.pending # None
             /\ \E k \in First(Left) : Staged(k).item = j /\ Effect(Staged(k), record[j])
      BY <2>1 DEF RInv, RecordsOK
    <3> QED
      BY <1>10, <1>11, <2>1, <3>1 DEF Settled, LastApplied
  <2>2. CASE record'[j] # record[j]
    <3>1. j = e.item /\ e.id \notin applied /\ Effect(e, new)
      BY <1>6, <1>12, <2>2
    <3> QED
      BY <1>2, <1>6, <1>10, <1>11, <3>1 DEF e
  <2> QED
    BY <2>1, <2>2
<1>17. RunnersOK'
  <2>1. AtEvents(p)' /\ AtPage(p)'
    BY <1>8, <1>9, <1>10, <1>11 DEF RInv, RunnersOK, RunnerOK, AtEvents, AtPage, Marking
  <2>2. AtCommit(p)'
    <3>1. AtHand(p)' = {e}
      BY <1>2, <1>8, <1>9 DEF AtHand
    <3> QED
      BY <1>6, <1>10, <1>12, <3>1 DEF AtCommit
  <2>3. \A q \in Runners \ {p} : ~Holds(q)'
    BY <1>9, <1>10, Alone DEF Holds, Started
  <2> QED
    BY <2>1, <2>2, <2>3 DEF RunnersOK, RunnerOK
<1> QED
  BY <1>13, <1>14, <1>15, <1>16, <1>17 DEF RInv

(* The applied event was in turn: the checkpoint moves on to it, and it is *)
(* the last one of its item.                                               *)
LEMMA CommitRecords ==
  ASSUME IInv, RInv, NEW p \in Runners, Commit(p)
  PROVE  RInv'
<1> DEFINE rest == runner[p].todo \ First(runner[p].todo)
           x == [runner[p] EXCEPT !.todo = rest, !.pc = AfterStaging(rest)]
<1>1. PICK i \in First(runner[p].todo) :
        LET e == runner[p].page.events[i] IN
        /\ Holds(p) /\ runner[p].pc = "commit"
        /\ applied' = applied \cup {e.id}
        /\ checkpoint' =
             IF \/ checkpoint.order = 0 \/ e.generation > checkpoint.generation
                \/ e.generation = checkpoint.generation /\ checkpoint.order < e.order
             THEN [checkpoint EXCEPT !.generation = e.generation, !.order = e.order]
             ELSE checkpoint
        /\ runner' = [runner EXCEPT ![p] = x]
        /\ UNCHANGED <<run, stored, candidates, record>>
  <2>1. PICK e \in AtHand(p) :
          /\ applied' = applied \cup {e.id}
          /\ checkpoint' =
               IF \/ checkpoint.order = 0 \/ e.generation > checkpoint.generation
                  \/ e.generation = checkpoint.generation /\ checkpoint.order < e.order
               THEN [checkpoint EXCEPT !.generation = e.generation, !.order = e.order]
               ELSE checkpoint
    BY DEF Commit
  <2>2. /\ Holds(p) /\ runner[p].pc = "commit"
        /\ runner' = [runner EXCEPT ![p] = x]
        /\ UNCHANGED <<run, stored, candidates, record>>
    BY DEF Commit, At, Started, Owned, Holds, vault
  <2>3. PICK i \in First(runner[p].todo) : e = runner[p].page.events[i]
    BY DEF AtHand
  <2> HIDE DEF x
  <2> QED
    BY <2>1, <2>2, <2>3
<1> DEFINE e == Staged(i)
<1>2. /\ checkpoint.pending # None /\ i \in DOMAIN checkpoint.pending.events /\ i \in Nat
      /\ runner[p].page.events[i] = e /\ e \in Events
      /\ e.id = checkpoint.pending.events[i] /\ e.generation = checkpoint.pending.generation
      /\ Left \subseteq Nat /\ AtHand(p) = {e} /\ First(runner[p].todo) = {i}
      /\ e.id \notin applied => i \in First(Left) /\ First(Left) = {i}
  BY <1>1, HandFacts DEF Marking
<1>3. /\ applied' = applied \cup {e.id}
      /\ checkpoint' =
           IF \/ checkpoint.order = 0 \/ e.generation > checkpoint.generation
              \/ e.generation = checkpoint.generation /\ checkpoint.order < e.order
           THEN [checkpoint EXCEPT !.generation = e.generation, !.order = e.order]
           ELSE checkpoint
  BY <1>1, <1>2
<1>4. /\ Holds(p) /\ runner[p].pc = "commit" /\ UNCHANGED <<run, stored, candidates, record>>
  BY <1>1
<1>5. e.item \in Items /\ e.op \in {"upsert", "delete"} /\ e.order \in Nat \ {0}
  BY <1>2, EventFacts
<1>6. e.id \in DOMAIN stored /\ stored[e.id] = e
  BY <1>2 DEF RInv, MarkerOK, Staged
<1>7. /\ DOMAIN x = {"pc", "run", "recovering", "page", "todo"}
      /\ x.pc \in {"event", "commit_page"} /\ x.page = runner[p].page /\ x.todo = rest
  BY DEF IInv, RunnerType, AfterStaging
<1>8. runner'[p] = x /\ \A q \in Runners \ {p} : runner'[q] = runner[q]
  BY <1>1, <1>7, RunnerChange DEF IInv
<1>9. /\ checkpoint.generation \in Nat /\ checkpoint.order \in Nat
      /\ e.generation \in Nat /\ checkpoint.generation <= e.generation
  BY <1>2 DEF RInv, AppliedBehind, MarkerOK
<1>10. checkpoint'.pending = checkpoint.pending
  BY <1>3 DEF IInv, CheckpointType
<1>11. \A k : Staged(k)' = Staged(k)
  BY <1>4, <1>10 DEF Staged
<1>12. Left \subseteq runner[p].todo
       /\ \A j \in runner[p].todo : /\ j \in DOMAIN checkpoint.pending.events
                                    /\ runner[p].page.events[j] = Staged(j)
  BY <1>4 DEF RInv, RunnersOK, RunnerOK, AtEvents, Marking
<1>13. \A q \in Runners \ {p} : ~Holds(q)'
  BY <1>4, <1>8, Alone DEF Holds, Started
<1> HIDE DEF e, x
<1>14. Left' = Left \ {i}
  <2>1. \A k \in DOMAIN checkpoint.pending.events :
          checkpoint.pending.events[k] = e.id <=> k = i
    BY <1>2 DEF RInv, MarkerOK
  <2> QED
    BY <1>3, <1>10, <2>1 DEF Left
<1>15. RunnersOK'
  <2>1. AtEvents(p)'
    <3>1. Left' \subseteq rest /\ rest \subseteq runner[p].todo
      BY <1>2, <1>12, <1>14
    <3> QED
      BY <1>7, <1>8, <1>10, <1>11, <1>12, <3>1 DEF AtEvents
  <2>2. RunnerOK(p)'
    BY <1>7, <1>8, <2>1 DEF RunnerOK, AtPage, AtCommit
  <2> QED
    BY <1>13, <2>2 DEF RunnersOK, RunnerOK
<1>16. CASE e.id \in applied
  <2>1. applied' = applied
    BY <1>3, <1>16
  <2>2. checkpoint' = checkpoint
    <3>1. \/ e.generation < checkpoint.generation
          \/ e.generation = checkpoint.generation /\ e.order <= checkpoint.order
      BY <1>6, <1>16 DEF RInv, AppliedBehind
    <3> QED
      BY <1>3, <1>5, <1>9, <3>1
  <2>3. RecordsKept
    BY <1>4, <2>1, <2>2 DEF RecordsKept, RInv, RecordsOK
  <2> QED
    BY <1>15, <2>3, KeptInv DEF RunnersOK
<1>17. CASE e.id \notin applied
  <2>1. i \in First(Left) /\ First(Left) = {i} /\ i \in Left
    BY <1>2, <1>17 DEF First
  <2>2. e.generation = checkpoint.generation /\ checkpoint.order # 0 =>
           e.order = checkpoint.order + 1
    <3>1. \A j \in Left : i <= j /\ j \in Nat /\ i \in Nat
      BY <1>2, <2>1 DEF First
    <3>2. {j \in Left : j < i} = {}
      BY <3>1
    <3> QED
      BY <1>2, <2>1, <3>2 DEF RInv, InTurn, e
  <2>3. checkpoint'.generation = e.generation /\ checkpoint'.order = e.order
    BY <1>3, <1>5, <1>9, <2>2 DEF IInv, CheckpointType
  <2>4. StoredOK'
    BY <1>3, <1>4, <1>6, <1>10 DEF RInv, StoredOK
  <2>5. \A id \in applied : Precedes(stored[id], e) /\ stored[id].generation \in Nat
                            /\ stored[id].order \in Nat
    <3> SUFFICES ASSUME NEW id \in applied
                 PROVE  Precedes(stored[id], e) /\ stored[id].generation \in Nat
                        /\ stored[id].order \in Nat
      OBVIOUS
    <3>1. /\ stored[id].generation \in Nat
          /\ \/ stored[id].generation < checkpoint.generation
             \/ /\ stored[id].generation = checkpoint.generation
                /\ stored[id].order <= checkpoint.order
      BY DEF RInv, AppliedBehind
    <3>2. stored[id].order \in Nat \ {0}
      BY EventFacts DEF RInv, StoredOK
    <3> QED
      BY <1>5, <1>9, <2>2, <3>1, <3>2 DEF Precedes
  <2>6. AppliedBehind'
    <3> SUFFICES ASSUME NEW id \in applied'
                 PROVE  /\ stored[id].generation \in Nat
                        /\ \/ stored[id].generation < e.generation
                           \/ /\ stored[id].generation = e.generation
                              /\ stored[id].order <= e.order
      BY <1>4, <1>5, <1>9, <2>3 DEF AppliedBehind
    <3>1. id \in applied \/ id = e.id
      BY <1>3
    <3>2. CASE id \in applied
      BY <1>5, <2>5, <3>2 DEF Precedes
    <3>3. CASE id = e.id
      BY <1>5, <1>6, <1>9, <3>3
    <3> QED
      BY <3>1, <3>2, <3>3
  <2>7. MarkerOK'
    BY <1>2, <1>4, <1>9, <1>10, <1>11, <2>3 DEF RInv, MarkerOK
  <2>8. InTurn'
    <3> SUFFICES ASSUME NEW k \in Left \ {i}
                 PROVE  LET before == {j \in Left \ {i} : j < k} IN
                          /\ before = {} => Staged(k).order = e.order + 1
                          /\ \A j \in before : (\A l \in before : l <= j) =>
                               Staged(k).order = Staged(j).order + 1
      BY <1>10, <1>11, <1>14, <2>3 DEF InTurn
    <3> DEFINE before == {j \in Left : j < k}
               after == {j \in Left \ {i} : j < k}
    <3>1. \A j \in before : (\A l \in before : l <= j) => Staged(k).order = Staged(j).order + 1
      BY <1>2 DEF RInv, InTurn
    <3>2. i \in before /\ before = after \cup {i} /\ \A j \in after : i <= j
      BY <1>2, <2>1 DEF First
    <3> HIDE DEF before, after
    <3>3. after = {} => Staged(k).order = e.order + 1
      BY <1>2, <3>1, <3>2 DEF e
    <3>4. ASSUME NEW j \in after, \A l \in after : l <= j
          PROVE  Staged(k).order = Staged(j).order + 1
      BY <3>1, <3>2, <3>4
    <3> QED
      BY <3>3, <3>4 DEF after
  <2>9. CandidatesOK'
    <3>1. \A c \in candidates : c \in applied'
      BY <1>2, <1>3, <2>1 DEF RInv, CandidatesOK
    <3> QED
      BY <1>4, <3>1 DEF CandidatesOK
  <2>10. RecordsOK'
    <3> SUFFICES ASSUME NEW j \in Items, record[j].state # "user" PROVE Settled(j)'
      BY <1>4 DEF RecordsOK, RInv
    <3>1. CASE j = e.item
      <4>1. \A id \in applied : Precedes(stored[id], stored[e.id])
        BY <1>6, <2>5
      <4>2. ~Precedes(e, e) /\ \A id \in applied : ~Precedes(e, stored[id])
        BY <1>5, <1>9, <2>5 DEF Precedes
      <4>3. \A old \in applied' : ~Precedes(stored[e.id], stored[old])
        BY <1>3, <1>6, <4>2
      <4>4. e.id \in applied' /\ \A id \in applied' : id = e.id \/ id \in applied
        BY <1>3
      <4>5. LastApplied(j)' = {e.id}
        BY <1>4, <1>6, <3>1, <4>1, <4>3, <4>4 DEF LastApplied
      <4>6. Effect(e, record[j])
        <5>1. e.id \in applied \/ record[e.item].state = "user" \/ Effect(e, record[e.item])
          BY <1>2, <1>4 DEF RInv, RunnersOK, RunnerOK, AtCommit
        <5> QED
          BY <1>17, <3>1, <5>1
      <4> QED
        BY <1>4, <1>6, <4>5, <4>6 DEF Settled
    <3>2. CASE j # e.item
      <4>1. Settled(j)
        BY <1>2, <2>1, <3>2 DEF RInv, RecordsOK, e
      <4>2. LastApplied(j)' = LastApplied(j)
        BY <1>3, <1>4, <1>6, <3>2 DEF LastApplied
      <4> QED
        BY <1>4, <4>1, <4>2 DEF Settled
    <3> QED
      BY <3>1, <3>2
  <2> QED
    BY <1>15, <2>4, <2>6, <2>7, <2>8, <2>9, <2>10 DEF RInv
<1> QED
  BY <1>16, <1>17

(* The marker goes with every event of its page applied.                   *)
LEMMA CommitPageRecords ==
  ASSUME IInv, RInv, NEW p \in Runners, CommitPage(p)
  PROVE  RInv'
<1> DEFINE page == runner[p].page
           pc == IF (IF runner[p].recovering THEN page.next = 0 ELSE page.done)
                 THEN "finish" ELSE "fetch"
           x == [Idle EXCEPT !.run = runner[p].run, !.pc = pc]
<1>1. /\ runner' = [runner EXCEPT ![p] = x]
      /\ DOMAIN x = {"pc", "run", "recovering", "page", "todo"}
      /\ x.pc = pc /\ Holds(p) /\ runner[p].pc = "commit_page"
      /\ UNCHANGED <<run, stored, applied, candidates, record>>
  BY DEF CommitPage, At, Started, Owned, Holds, Idle, vault
<1>2. x.pc \notin Marking \cup {"stage"}
  BY <1>1 DEF Marking
<1>3. runner'[p] = x /\ \A q \in Runners \ {p} : runner'[q] = runner[q]
  BY <1>1, RunnerChange DEF IInv
<1>4. checkpoint.pending # None
  BY <1>1 DEF IInv, Marked, Holds, Marking
<1>5. /\ checkpoint.pending.generation = page.generation
      /\ \A k \in DOMAIN checkpoint.pending.events : checkpoint.pending.events[k] \in applied
      /\ checkpoint'.pending = None /\ checkpoint'.generation = page.generation
      /\ checkpoint'.order = IF page.generation > checkpoint.generation
                                /\ checkpoint.pending.events = <<>> THEN 0 ELSE checkpoint.order
  BY DEF CommitPage, PageCommitted, Matches, MoveTo
<1> HIDE DEF x, pc, page
<1>6. Left = {} /\ First(Left) = {}
  BY <1>5 DEF Left, First
<1>7. StoredOK'
  <2>1. \A id \in DOMAIN stored : id \in applied
    BY <1>5 DEF RInv, StoredOK
  <2> QED
    BY <1>1, <2>1 DEF RInv, StoredOK
<1>8. AppliedBehind'
  BY <1>1, <1>4, <1>5 DEF RInv, AppliedBehind, MarkerOK
<1>9. MarkerOK' /\ InTurn'
  BY <1>5 DEF MarkerOK, InTurn
<1>10. CandidatesOK'
  <2>1. candidates \subseteq applied
    BY <1>6 DEF RInv, CandidatesOK
  <2> QED
    BY <1>1, <2>1 DEF CandidatesOK
<1>11. RecordsOK'
  <2>1. \A i \in Items : record[i].state # "user" => Settled(i)
    BY <1>6 DEF RInv, RecordsOK
  <2> QED
    BY <1>1, <2>1 DEF RInv, RecordsOK, Settled, LastApplied
<1>12. RunnersOK'
  <2>1. RunnerOK(p)'
    BY <1>2, <1>3 DEF RunnerOK, AtPage, AtEvents, AtCommit, Marking
  <2>2. \A q \in Runners \ {p} : ~Holds(q)'
    BY <1>1, <1>3, Alone DEF Holds, Started
  <2> QED
    BY <2>1, <2>2 DEF RunnersOK, RunnerOK
<1> QED
  BY <1>7, <1>8, <1>9, <1>10, <1>11, <1>12 DEF RInv

LEMMA RecordsInit == Init => RInv
<1> SUFFICES ASSUME Init PROVE RInv
  OBVIOUS
<1>1. StoredOK /\ AppliedBehind /\ MarkerOK /\ InTurn /\ CandidatesOK
  BY DEF Init, StoredOK, AppliedBehind, MarkerOK, InTurn, CandidatesOK
<1>2. RecordsOK
  BY DEF Init, RecordsOK, Settled, LastApplied
<1>3. RunnersOK
  BY DEF Init, RunnersOK, RunnerOK, Holds, Started, Idle
<1> QED
  BY <1>1, <1>2, <1>3 DEF RInv

LEMMA RecordsNext ==
  ASSUME IInv, RInv, [Next]_vars
  PROVE  RInv'
<1>1. ASSUME NEW p \in Runners, Run(p) PROVE RInv'
  BY <1>1, StartRunRecords, BeginRunRecords, ReadPendingRecords, FetchRecords, ValidateRecords,
     StageRecords, ApplyRecords, CommitRecords, CommitPageRecords, RestRecords, FailRecords
  DEF Run
<1>2. CASE (\E r \in Runs : Expire(r)) \/ RecoverExpired
           \/ \E target \in {"enabled", "paused", "disabled", "revoked", "reconciling"} :
                Transition(target)
  <2>1. UNCHANGED <<checkpoint, stored, applied, candidates, record, runner>>
    BY <1>2 DEF Expire, RecoverExpired, Transition, vault
  <2>2. RunsEnd
    <3>1. CASE \E r \in Runs : Expire(r)
      BY <3>1 DEF Expire, RunsEnd, IInv, RunType
    <3>2. CASE RecoverExpired
      BY <3>2, RecoverRunsInv DEF RecoverExpired
    <3>3. CASE \E target \in {"enabled", "paused", "disabled", "revoked", "reconciling"} :
                 Transition(target)
      <4>1. CASE source.state = "reconciling"
        BY <3>3, <4>1, EndRunsInv DEF Transition, Running
      <4>2. CASE source.state # "reconciling"
        BY <3>3, <4>2 DEF Transition, RunsEnd, IInv, RunType
      <4> QED
        BY <4>1, <4>2
    <3> QED
      BY <1>2, <3>1, <3>2, <3>3
  <2>3. RecordsKept
    BY <2>1 DEF RecordsKept, RInv, RecordsOK
  <2> QED
    BY <2>1, <2>2, <2>3, OutsideRecords
<1>3. CASE MarkUnavailable \/ RecoverAdapter \/ UNCHANGED vars
  <2>1. UNCHANGED <<checkpoint, stored, applied, candidates, record, runner, run>>
    BY <1>3 DEF MarkUnavailable, RecoverAdapter, ledger, vault, vars
  <2>2. RunsEnd /\ RecordsKept
    BY <2>1 DEF RunsEnd, IInv, RunType, RecordsKept, RInv, RecordsOK
  <2> QED
    BY <2>1, <2>2, OutsideRecords
<1>4. ASSUME NEW i \in Items, Touch(i) PROVE RInv'
  <2>1. UNCHANGED <<checkpoint, stored, applied, candidates, runner, run>>
    BY <1>4 DEF Touch, ledger
  <2>2. RunsEnd
    BY <2>1 DEF RunsEnd, IInv, RunType
  <2>3. RecordsKept
    BY <1>4, <2>1 DEF Touch, RecordsKept, RInv, RecordsOK
  <2> QED
    BY <2>1, <2>2, <2>3, OutsideRecords
<1> QED
  BY <1>1, <1>2, <1>3, <1>4 DEF Next

(* The sink never refuses the event in turn.                               *)
LEMMA InTurnTaken ==
  ASSUME RInv, checkpoint.pending # None, NEW i \in DOMAIN checkpoint.pending.events
  PROVE  Outcomes(Staged(i)) # {}
<1> DEFINE e == Staged(i)
<1>1. e \in Events /\ e.id = checkpoint.pending.events[i] /\ i \in Nat
  BY StagedEvents
<1>2. e.op \in {"upsert", "delete"}
  BY <1>1, EventFacts
<1>3. stored[e.id] = e
  BY <1>1 DEF Staged
<1> HIDE DEF e
<1>4. CASE record[e.item].state = "user" \/ e.id \in applied
  <2>1. record[e.item] \in Outcomes(e)
    BY <1>4 DEF Outcomes, Projected
  <2> QED
    BY <2>1 DEF e
<1>5. CASE record[e.item].state # "user" /\ e.id \notin applied /\ e.op = "delete"
  <2> DEFINE new == IF record[e.item].state = "live" THEN [state |-> "withdrawn", event |-> None]
                    ELSE record[e.item]
  <2>1. new \in Outcomes(e)
    BY <1>5 DEF Outcomes, Projected
  <2> QED
    BY <2>1 DEF e
<1>6. CASE record[e.item].state # "user" /\ e.id \notin applied /\ e.op = "upsert"
  <2>1. e.id \in candidates => record[e.item] = LiveRecord(e)
    BY <1>3, <1>6 DEF RInv, CandidatesOK
  <2>2. LiveRecord(e) \in Outcomes(e)
    BY <1>6, <2>1 DEF Outcomes, Projected
  <2> QED
    BY <2>2 DEF e
<1> QED
  BY <1>2, <1>4, <1>5, <1>6

(* Between pages the records are what the last applied event of their item *)
(* made them, and a marked page can always be finished: the sink and the   *)
(* ledger (capture.py, registered_source_admission.py) are never more than *)
(* the event in turn apart, for any pages a provider returns.              *)
THEOREM RecordsCorrect == Spec => []RecordsFollow
<1>1. Init => RInv
  BY RecordsInit
<1>2. IInv /\ RInv /\ [Next]_vars => RInv'
  BY RecordsNext
<1>3. RInv => RecordsFollow
  <2> SUFFICES ASSUME RInv PROVE RecordsFollow
    OBVIOUS
  <2>1. RecordCurrent
    <3> SUFFICES ASSUME checkpoint.pending = None, NEW i \in Items, record[i].state # "user"
                 PROVE  /\ LastApplied(i) = {} => record[i] = Absent
                        /\ \A id \in LastApplied(i) :
                             IF stored[id].op = "upsert" THEN record[i] = LiveRecord(stored[id])
                             ELSE record[i].state # "live"
      BY DEF RecordCurrent
    <3>1. Settled(i)
      BY AllApplied
    <3> QED
      BY <3>1 DEF Settled, Effect
  <2>2. PendingRecoverable
    <3> SUFFICES ASSUME checkpoint.pending # None
                 PROVE  /\ checkpoint.pending.generation >= checkpoint.generation
                        /\ \A i \in DOMAIN checkpoint.pending.events : Outcomes(Staged(i)) # {}
      BY DEF PendingRecoverable, Staged
    <3> QED
      BY InTurnTaken DEF RInv, MarkerOK, AppliedBehind
  <2> QED
    BY <2>1, <2>2 DEF RecordsFollow
<1> QED
  BY <1>1, <1>2, <1>3, Invariance, PTL DEF Spec

=============================================================================
