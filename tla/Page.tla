-------------------------------- MODULE Page --------------------------------
(***************************************************************************)
(* The page of demo-ui (static/app.js) fetches three answers of its server *)
(* and then asks Prometheus through it, every six seconds, whether or not  *)
(* it has done with the refresh before.  The server (main.go) answers with *)
(* what kubectl says of the pods and gives each request a deadline.        *)
(*                                                                         *)
(* Time is in whole seconds.  It does not pass a deadline or a timer, nor  *)
(* a promise that is settled: handlers and the page answer in the second   *)
(* they are due.                                                           *)
(***************************************************************************)
EXTENDS Integers, FiniteSets

CONSTANTS
    Pods,           \* pods of Prometheus and of Grafana that may exist
    ComponentOf,    \* which of the two a pod is of
    Interval,       \* of setInterval: 6 s
    StatusTimeout,  \* of handleStatus: 5 s
    PromTimeout,    \* of handlePromQuery: 4 s
    MaxTime,        \* bound: how long the page is watched
    MaxChanges      \* bound: how often the pods change

Components == {"prometheus", "grafana"}

\* As 5 < 6 < 5 + 4 < 2 * 6.
ASSUME TimesAssumption ==
    /\ {Interval, StatusTimeout, PromTimeout, MaxTime, MaxChanges} \subseteq Nat
    /\ StatusTimeout < Interval
    /\ StatusTimeout + PromTimeout < 2 * Interval
ASSUME PodsAssumption == ComponentOf \in [Pods -> Components]

VARIABLES
    now,      \* seconds since the page was loaded
    pods,     \* pod -> "absent", "unready" or "ready"
    changes,  \* history: how often the pods have changed, and when they last did
    due,      \* when the next refresh begins, if that is settled
    refresh,  \* the refreshes, those to come included
    page      \* what the panels show

vars == <<now, pods, changes, due, refresh, page>>

Unknown  == [connected |-> FALSE, health |-> "unknown", components |-> {}]
Never    == MaxTime + Interval + 1
Refreshes == 1 .. MaxTime \div Interval + 2

\* at: when the fetches under way began.  looked: what kubectl has read, if it has.
\* files: the answers of /api/faults and /api/benchmarks/latest, taken together.
NotBegun == [pc |-> "none", at |-> 0, looked |-> {}, status |-> {}, files |-> "asked"]

\* of: the refresh whose answer is shown.  newest, of all that were, is history.
Blank == [status |-> Unknown, of |-> 0, failed |-> FALSE,
          metrics |-> "--", metricsOf |-> 0, newest |-> 0]

Init ==
    /\ now = 0
    /\ pods \in [Pods -> {"absent", "ready"}]
    /\ changes = [count |-> 0, last |-> 0]
    /\ due = 0
    /\ refresh = [k \in Refreshes |-> NotBegun]
    /\ page = Blank

\* The pods of the cluster come, get ready, and go.
PodsChange ==
    /\ changes.count < MaxChanges
    /\ \E p \in Pods, s \in {"absent", "unready", "ready"} :
           s # pods[p] /\ pods' = [pods EXCEPT ![p] = s]
    /\ changes' = [count |-> changes.count + 1, last |-> now]
    /\ UNCHANGED <<now, due, refresh, page>>

-----------------------------------------------------------------------------
(* handleStatus.                                                           *)

\* mutant: pods are counted that are not ready.
CountedPods(ps) == {p \in Pods : ps[p] # "absent"}

ReadyPods(ps) == {p \in Pods : ps[p] = "ready"}

\* It counts the ready pods, of whichever component.
Health(ps) ==
    LET obsReady == Cardinality(ReadyPods(ps))
    IN  IF obsReady >= 2 THEN "healthy" ELSE IF obsReady = 1 THEN "degraded" ELSE "down"

Status(ps) ==
    [connected |-> TRUE, health |-> Health(ps),
     components |-> {ComponentOf[p] : p \in {x \in Pods : ps[x] # "absent"}}]

In(k, pc)    == refresh[k].pc = pc
StatusOpen(k) == In(k, "fetch") /\ refresh[k].status = {}

\* mutant: the handler waits for kubectl as long as it takes.
NoStatusDeadline(k) == Never

StatusDeadline(k) == refresh[k].at + StatusTimeout

\* The API server answers kubectl.
KubectlLooks(k) ==
    /\ StatusOpen(k) /\ refresh[k].looked = {}
    /\ refresh' = [refresh EXCEPT ![k].looked = {Status(pods)}]
    /\ UNCHANGED <<now, pods, changes, due, page>>

\* What runCommand and the parsing of its output make of it: kubectl is done; or it
\* failed, was killed at the deadline, or made no sense.
StatusAnswers(k) == refresh[k].looked \cup {Unknown}

StatusAnswered(k) ==
    /\ StatusOpen(k)
    /\ \E s \in StatusAnswers(k) :
           refresh' = [refresh EXCEPT ![k].status = {s}, ![k].looked = {}]
    /\ UNCHANGED <<now, pods, changes, due, page>>

\* The other two handlers read files of the repository.  They have no deadline; they
\* are taken to be no slower than that of handleStatus.
FilesAnswered(k) ==
    /\ In(k, "fetch") /\ refresh[k].files = "asked"
    /\ refresh' = [refresh EXCEPT ![k].files = "ok"]
    /\ UNCHANGED <<now, pods, changes, due, page>>

Settled(k)  == refresh[k].status # {} /\ refresh[k].files = "ok"
Rejected(k) == refresh[k].files = "failed"

\* They answer 500, or the server dies under any of the three fetches.
FetchFails(k) ==
    /\ In(k, "fetch") /\ ~Settled(k) /\ ~Rejected(k)
    /\ refresh' = [refresh EXCEPT ![k].files = "failed"]
    /\ UNCHANGED <<now, pods, changes, due, page>>

-----------------------------------------------------------------------------
(* handlePromQuery.                                                        *)

\* mutant: the query has no deadline of its own.
NoPromDeadline(k) == Never

PromDeadline(k) == refresh[k].at + PromTimeout

\* What the four queries come to: numbers, or dashes if there is no sample or one of
\* them is answered with an error, as it is with 502 at the deadline.
PromAnswers == {"numbers", "--"}

-----------------------------------------------------------------------------
(* The page.                                                               *)

\* bootstrap, and then the timer.
BeginRefresh(k) ==
    /\ now = due /\ In(k, "none")
    /\ \A j \in 1 .. k - 1 : ~In(j, "none")
    /\ refresh' = [refresh EXCEPT ![k].pc = "fetch", ![k].at = now]
    /\ due' = IF k = 1 THEN Never ELSE due + Interval
    /\ UNCHANGED <<now, pods, changes, page>>

Query(k) == refresh' = [refresh EXCEPT ![k] = [NotBegun EXCEPT !.pc = "query", !.at = now]]

\* Promise.all has all three: they are rendered at once.
Render(k) ==
    /\ In(k, "fetch") /\ Settled(k)
    /\ \E s \in refresh[k].status :
           page' = [page EXCEPT !.status = s, !.of = k, !.failed = FALSE]
    /\ Query(k)
    /\ UNCHANGED <<now, pods, changes, due>>

\* mutant: the exception leaves refreshAll, and bootstrap.
ThrownAfterFailure(k) == refresh' = [refresh EXCEPT ![k] = [NotBegun EXCEPT !.pc = "threw"]]

AfterFailure(k) == Query(k)

\* Promise.all has one that failed: only the headline says so.
RenderFailure(k) ==
    /\ In(k, "fetch") /\ Rejected(k)
    /\ page' = [page EXCEPT !.failed = TRUE]
    /\ AfterFailure(k)
    /\ UNCHANGED <<now, pods, changes, due>>

\* The end of a refresh, when all four queries are answered or one has failed; that of
\* the first refresh starts the timer.
RenderMetrics(k) ==
    /\ In(k, "query")
    /\ \E shown \in PromAnswers :
           page' = [page EXCEPT !.metrics = shown, !.metricsOf = k,
                                !.newest = IF k > @ THEN k ELSE @]
    /\ refresh' = [refresh EXCEPT ![k] = [NotBegun EXCEPT !.pc = "ended"]]
    /\ due' = IF k = 1 THEN now + Interval ELSE due
    /\ UNCHANGED <<now, pods, changes>>

\* What the second cannot end without.
Urgent(k) ==
    \/ now = due
    \/ In(k, "fetch") /\ (Settled(k) \/ Rejected(k))
    \/ In(k, "fetch") /\ now = StatusDeadline(k)
    \/ In(k, "query") /\ now = PromDeadline(k)

Tick ==
    /\ now < MaxTime
    /\ \A k \in Refreshes : ~Urgent(k)
    /\ now' = now + 1
    /\ UNCHANGED <<pods, changes, due, refresh, page>>

Work(k) ==
    \/ KubectlLooks(k) \/ StatusAnswered(k) \/ FilesAnswered(k) \/ FetchFails(k)
    \/ BeginRefresh(k) \/ Render(k) \/ RenderFailure(k) \/ RenderMetrics(k)

Next ==
    \/ PodsChange \/ Tick
    \/ \E k \in Refreshes : Work(k)

\* Time passes, deadlines are kept, and the browser runs what is due.
Fairness == WF_vars(Tick) /\ \A k \in Refreshes : WF_vars(Work(k))

Spec == Init /\ [][Next]_vars /\ Fairness

-----------------------------------------------------------------------------
(* Properties.                                                             *)

\* How long an answer may stay on the page: until the next refresh, which for the
\* first begins an interval after its queries are over, is done.
Stay(k) == IF k = 1 THEN Interval + 2 * StatusTimeout + PromTimeout
                    ELSE Interval + StatusTimeout

OnePodEach == \A p, q \in Pods :
    pods[p] # "absent" /\ pods[q] # "absent" /\ ComponentOf[p] = ComponentOf[q] => p = q
Up(c) == \E p \in Pods : ComponentOf[p] = c /\ pods[p] = "ready"

\* If the pods have not changed for that long, and no component has two, a page that
\* says neither that a refresh failed nor that the cluster is not connected is right:
\* healthy if both components are up, down if none is, degraded if one is, and the
\* components listed are those that have a pod.
SteadyWorldShown ==
    page.status.connected /\ ~page.failed /\ OnePodEach /\ now - changes.last > Stay(page.of)
        => /\ page.status.health = "healthy" <=> \A c \in Components : Up(c)
           /\ page.status.health = "down" <=> ~ \E c \in Components : Up(c)
           /\ page.status.components = {ComponentOf[p] : p \in {x \in Pods : pods[x] # "absent"}}

\* The panels of a refresh are never put back over those of a later one.
StatusNeverGoesBack == [][page'.of >= page.of]_vars

\* Metrics may be: an interval is shorter than the deadlines of both halves of a
\* refresh.  But never by more than one refresh.
MetricsGoBackOneAtMost == page.metricsOf >= page.newest - 1

\* Whatever fails in the first refresh, the second comes.
SecondComes == <>(refresh[2].pc # "none")
=============================================================================
