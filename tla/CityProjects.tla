---------------------------- MODULE CityProjects ----------------------------
(***************************************************************************)
(* The projects of a city (city_projects_queue.gd, construction_project.gd): *)
(* the order they are served in, what they take from the resources of a    *)
(* turn, when they are finished, and what a save keeps of them.            *)
(*                                                                         *)
(* All projects are construction projects, which are always possible.      *)
(* Progress estimates and the signals for the user interface play no part. *)
(***************************************************************************)
EXTENDS Integers, Sequences, FiniteSets, SequencesExt, FiniteSetsExt

CONSTANTS
    Projects,           \* the construction projects ever created
    Resources,          \* resources other than workforce, in the order of the costs
    Workforce,
    Cost,               \* Cost[p][r]; that of workforce is the assembly cost
    Pools               \* resources a turn may offer; debts are negative

Kinds == ToSet(Resources) \cup {Workforce}
Nothing == [r \in Kinds |-> 0]

ASSUME CostAssumption == Cost \in [Projects -> [Kinds -> Nat]]
\* The costs are a dictionary: no resource is named twice.
ASSUME ResourcesAssumption ==
    /\ Resources \in Seq(ToSet(Resources))
    /\ \A i, j \in DOMAIN Resources : Resources[i] = Resources[j] => i = j
    /\ Workforce \notin ToSet(Resources)
ASSUME PoolsAssumption == Pools \subseteq [Kinds -> Int]

VARIABLES
    queue,
    accumulated,        \* accumulated[p][r]
    ready,              \* projects that are finished
    bare,               \* projects that were loaded: no cost, no civilization
    finishers,          \* history: how often execute_finisher ran
    turn,               \* history: the last turn, if that was the last step but for saves:
                        \* whom it served, what it gave to whom and what was left
    saved               \* the last save: the queue, and the history at that time

NoTurn == [served |-> <<>>, gave |-> [p \in Projects |-> Nothing], left |-> Nothing]

vars == <<queue, accumulated, ready, bare, finishers, turn, saved>>

-----------------------------------------------------------------------------
(* Construction projects.  s holds what a turn works on: the pool, what    *)
(* projects have accumulated, which of them are ready, the finishers run.  *)

CostOf(p) == IF p \in bare THEN Nothing ELSE Cost[p]
Needs(s, p, r) == CostOf(p)[r] - s.accumulated[p][r]

TakeAmount(s, p, r, amount) ==
    [s EXCEPT !.accumulated[p][r] = @ + amount, !.pool[r] = @ - amount]

\* Fault: the resource is taken whether or not there is workforce to move it.
TakeUnmoved(s, p, r) ==
    LET amount == Min({Needs(s, p, r), s.pool[r]})
    IN  IF s.pool[r] > 0 /\ amount > 0 THEN TakeAmount(s, p, r, amount) ELSE s

\* One of workforce for one of the resource.
TakeOneResource(s, p, r) ==
    LET amount == Min({Needs(s, p, r), s.pool[r], s.pool[Workforce]})
    IN  IF s.pool[r] > 0 /\ amount > 0
        THEN TakeAmount(TakeAmount(s, p, r, amount), p, Workforce, amount)
        ELSE s

\* Workforce spent on resources counts towards the assembly cost.
TakeAssemblyCost(s, p) ==
    LET amount == Min({Needs(s, p, Workforce), s.pool[Workforce]})
    IN  IF amount > 0 THEN TakeAmount(s, p, Workforce, amount) ELSE s

HasResources(s, p) == \A r \in ToSet(Resources) : Needs(s, p, r) <= 0

TakeEachResource(s, p) ==
    LET taken[n \in 0..Len(Resources)] ==
            IF n = 0 THEN s ELSE TakeOneResource(taken[n - 1], p, Resources[n])
    IN  taken[Len(Resources)]

TakeResources(s, p) ==
    LET served == TakeEachResource(s, p)
        paid == IF HasResources(served, p) THEN TakeAssemblyCost(served, p) ELSE served
        done == HasResources(paid, p) /\ Needs(paid, p, Workforce) <= 0
    IN  IF s.pool[Workforce] <= 0 THEN s
        ELSE [paid EXCEPT !.ready = IF done THEN @ \cup {p} ELSE @ \ {p}]

ExecuteFinisher(s, p) ==
    IF p \in s.ready THEN [s EXCEPT !.finishers[p] = @ + 1] ELSE s

\* A project that was ready before is finished and takes nothing.
Serve(s, p) ==
    IF p \in s.ready THEN ExecuteFinisher(s, p)
    ELSE ExecuteFinisher(TakeResources(s, p), p)

\* Fault: the queue is served from its end.
ServeBackwards(s) == FoldLeft(Serve, s, Reverse(queue))

ServeAll(s) ==
    LET after[n \in 0..Len(queue)] == IF n = 0 THEN s ELSE Serve(after[n - 1], queue[n])
    IN  after[Len(queue)]

-----------------------------------------------------------------------------
(* The queue.                                                              *)

Init ==
    /\ queue = <<>>
    /\ accumulated = [p \in Projects |-> Nothing]
    /\ ready = {}
    /\ bare = {}
    /\ finishers = [p \in Projects |-> 0]
    /\ turn = NoTurn
    /\ saved = [queue |-> <<>>, ready |-> {}, finishers |-> finishers]

\* A project is created and added at the index given; a city adds it at the end.
AddProject(p, index) ==
    /\ p \notin ToSet(queue) /\ finishers[p] = 0
    /\ queue' = InsertAt(queue, index, p)
    /\ accumulated' = [accumulated EXCEPT ![p] = Nothing]
    /\ bare' = bare \ {p}
    /\ turn' = NoTurn
    /\ UNCHANGED <<ready, finishers, saved>>

\* An index equal to the size passes the check and the access fails: no change.
SwapProjects(source, target) ==
    /\ source \in DOMAIN queue /\ target \in DOMAIN queue
    /\ queue' = [queue EXCEPT ![source] = queue[target], ![target] = queue[source]]
    /\ turn' = NoTurn
    /\ UNCHANGED <<accumulated, ready, bare, finishers, saved>>

\* Fault: cleaning up steps over the project that moves into a freed place.
KeepAfterFinished(projects, finished) ==
    SelectSeq(projects, LAMBDA p :
        p \notin finished
          \/ \E i \in 2..Len(projects) : projects[i] = p /\ projects[i - 1] \in finished)

RemoveFinished(projects, finished) ==
    LET kept[n \in 0..Len(projects)] ==
            IF n = 0 THEN <<>>
            ELSE IF projects[n] \in finished THEN kept[n - 1]
            ELSE Append(kept[n - 1], projects[n])
    IN  kept[Len(projects)]

Process(offered) ==
    LET s == ServeAll([pool |-> offered, accumulated |-> accumulated, ready |-> ready,
                       finishers |-> finishers])
    IN  /\ accumulated' = s.accumulated
        /\ ready' = s.ready
        /\ finishers' = s.finishers
        /\ turn' = [served |-> queue,
                    gave |-> [p \in Projects |->
                        [r \in Kinds |-> s.accumulated[p][r] - accumulated[p][r]]],
                    left |-> s.pool]
        /\ queue' = RemoveFinished(queue, s.ready)
        /\ UNCHANGED <<bare, saved>>

Save ==
    /\ saved' = [queue |-> queue, ready |-> ready, finishers |-> finishers]
    /\ UNCHANGED <<queue, accumulated, ready, bare, finishers, turn>>

\* A saved project has its improvement, place and progress, and whether it is ready;
\* it has neither cost nor what it accumulated.
Load ==
    /\ queue' = saved.queue
    /\ ready' = saved.ready
    /\ finishers' = saved.finishers
    /\ accumulated' = [p \in Projects |-> Nothing]
    /\ bare' = ToSet(saved.queue)
    /\ turn' = NoTurn
    /\ UNCHANGED saved

Next ==
    \/ \E p \in Projects : \E index \in 1..(Len(queue) + 1) : AddProject(p, index)
    \/ \E source, target \in DOMAIN queue : SwapProjects(source, target)
    \/ \E offered \in Pools : Process(offered)
    \/ Save
    \/ Load

Spec == Init /\ [][Next]_vars

-----------------------------------------------------------------------------
(* Properties.                                                             *)

\* Type correctness.
CityProjectsTypeOK ==
    /\ queue \in Seq(Projects)
    /\ accumulated \in [Projects -> [Kinds -> Nat]]
    /\ ready \subseteq Projects /\ bare \subseteq Projects
    /\ finishers \in [Projects -> Nat]
    /\ turn \in [served : Seq(Projects), gave : [Projects -> [Kinds -> Nat]],
                 left : [Kinds -> Int]]

\* How much was moved, if a says how much of everything there is.
Moved(a) ==
    LET sum[n \in 0..Len(Resources)] ==
            IF n = 0 THEN 0 ELSE sum[n - 1] + a[Resources[n]]
    IN  sum[Len(Resources)]

\* Workforce moves resources one for one and is never spent in advance: a project has
\* accumulated more workforce than resources only when it has all resources, and
\* never less.
WorkforceMovesResources ==
    \A p \in Projects :
        LET moved == Moved(accumulated[p])
        IN  /\ accumulated[p][Workforce] >= moved
            /\ accumulated[p][Workforce] > moved =>
                  \A r \in ToSet(Resources) : accumulated[p][r] = Cost[p][r]

\* A project is finished once, and when it is, all of its cost has been paid, workforce
\* for its resources included, unless it was loaded from a save.
FinishedOncePaid ==
    \A p \in Projects :
        /\ finishers[p] <= 1
        /\ finishers[p] = 1 => p \notin ToSet(queue)
        /\ finishers[p] = 1 /\ saved.finishers[p] = 0 /\ p \notin bare =>
              \A r \in Kinds : accumulated[p][r] >= Cost[p][r]

\* Projects are served in the order of the queue, and nobody waits for what is there:
\* what a turn left over or gave to a later project, an earlier one did not need any
\* more; if that is workforce, the earlier one is finished or lacks a resource.
ServedInOrder ==
    \A i \in DOMAIN turn.served :
        LET p == turn.served[i]
            Offered(r) ==
                \/ turn.left[r] > 0 /\ turn.left[Workforce] > 0
                \/ \E j \in (i + 1)..Len(turn.served) : turn.gave[turn.served[j]][r] > 0
            missing == {r \in ToSet(Resources) : accumulated[p][r] < CostOf(p)[r]}
        IN  /\ \A r \in missing : ~Offered(r)
            /\ Offered(Workforce) /\ missing = {} => p \in ready
=============================================================================
