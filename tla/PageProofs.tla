------------------------------ MODULE PageProofs ------------------------------
(***************************************************************************)
(* What the page shows, for every interval and all deadlines that are      *)
(* ordered as the code's are (TimesAssumption): a refresh is over before   *)
(* the one after the next begins, and its first half before the next.      *)
(***************************************************************************)
EXTENDS Page, FiniteSetTheorems, TLAPS

-----------------------------------------------------------------------------
(* The invariant.                                                          *)

Statuses == [connected : BOOLEAN, health : {"unknown", "healthy", "degraded", "down"},
             components : SUBSET Components]

RefreshRecord ==
    [pc : {"none", "fetch", "query", "ended"}, at : Nat, looked : SUBSET Statuses,
     status : SUBSET Statuses, files : {"asked", "ok", "failed"}]

PageRecord ==
    [status : Statuses, of : Nat, failed : BOOLEAN, metrics : PromAnswers,
     metricsOf : Nat, newest : Nat]

PageTypes ==
    /\ now \in Nat /\ now <= MaxTime /\ due \in Nat
    /\ pods \in [Pods -> {"absent", "unready", "ready"}]
    /\ changes \in [count : Nat, last : Nat] /\ changes.last <= now
    /\ refresh \in [Refreshes -> RefreshRecord]
    /\ page \in PageRecord

Begun(k)  == ~In(k, "none")
Latest(k) == k \in Refreshes /\ Begun(k) /\ \A j \in Refreshes : j > k => ~Begun(j)

\* Refreshes begin in turn, and none before the first is over.
Turns ==
    /\ \A j, k \in Refreshes : j < k /\ Begun(k) => Begun(j)
    /\ ~Begun(1) => now = 0 /\ due = 0
    /\ In(1, "fetch") \/ In(1, "query") => due = Never

\* When they do.  The latest but the first began an interval before due.
Times ==
    /\ now <= due
    /\ In(1, "ended") /\ Latest(1) => due <= StatusTimeout + PromTimeout + Interval
    /\ Latest(2) => due <= StatusTimeout + PromTimeout + 2 * Interval
    /\ \A k \in Refreshes : k >= 2 /\ Latest(k) => due - Interval <= now

\* The fetches are the latest refresh's, the queries its or those of the one before.
FetchTimes(k) ==
    In(k, "fetch") =>
        /\ Latest(k) /\ now <= refresh[k].at + StatusTimeout
        /\ refresh[k].at = IF k = 1 THEN 0 ELSE due - Interval

QueryTimes(k) ==
    In(k, "query") =>
        /\ now <= refresh[k].at + PromTimeout
        /\ \/ k = 1 /\ Latest(1) /\ refresh[k].at <= StatusTimeout
           \/ k >= 2 /\ Latest(k) /\ refresh[k].at <= due - Interval + StatusTimeout
           \/ k >= 2 /\ Latest(k + 1) /\ refresh[k].at <= due - 2 * Interval + StatusTimeout

TimeInv ==
    /\ PageTypes /\ Turns /\ Times
    /\ \A k \in Refreshes : FetchTimes(k) /\ QueryTimes(k)

\* The panels are of a refresh that has begun, the metrics of one of the two latest.
Panels ==
    /\ page.of # 0 => page.of \in Refreshes /\ Begun(page.of)
    /\ page.newest # 0 => page.newest \in Refreshes /\ Begun(page.newest)
    /\ MetricsGoBackOneAtMost

\* A status is that of the pods unless they have changed since it was asked for.
Read(k) ==
    /\ \A s \in refresh[k].looked \cup refresh[k].status :
           s.connected /\ changes.last < refresh[k].at => s = Status(pods)
    /\ ~In(k, "fetch") => refresh[k].looked = {} /\ refresh[k].status = {}

\* The same of the status that is shown, which is the latest unless that is still
\* being fetched or has failed.
Shown ==
    /\ page.of = 0 => ~page.status.connected
    /\ page.of # 0 /\ ~page.failed =>
           Latest(page.of) \/ (Latest(page.of + 1) /\ In(page.of + 1, "fetch"))
    /\ page.of >= 2 /\ page.status.connected =>
           /\ Latest(page.of) /\ changes.last < due - Interval =>
                  page.status = Status(pods)
           /\ Latest(page.of + 1) /\ changes.last < due - 2 * Interval =>
                  page.status = Status(pods)

PageInv == TimeInv /\ Panels /\ Shown /\ \A k \in Refreshes : Read(k)

-----------------------------------------------------------------------------
(* Constants.                                                              *)

LEMMA Params ==
    /\ Interval \in Nat /\ StatusTimeout \in Nat /\ PromTimeout \in Nat /\ MaxTime \in Nat
    /\ MaxChanges \in Nat
    /\ StatusTimeout < Interval /\ StatusTimeout + PromTimeout < 2 * Interval
    /\ Interval > 0
    /\ Never \in Nat /\ MaxTime + Interval < Never
  <1>1. /\ Interval \in Nat /\ StatusTimeout \in Nat /\ PromTimeout \in Nat
        /\ MaxTime \in Nat /\ MaxChanges \in Nat
    BY TimesAssumption
  <1>2. StatusTimeout < Interval /\ StatusTimeout + PromTimeout < 2 * Interval
    BY TimesAssumption
  <1> QED
    BY <1>1, <1>2 DEF Never

LEMMA RefreshNumbers ==
    /\ 1 \in Refreshes
    /\ \A k \in Refreshes : k \in Nat /\ k >= 1
    /\ \A k \in Refreshes, j \in Nat : 1 <= j /\ j < k => j \in Refreshes
  <1>1. MaxTime \div Interval \in Nat
    BY Params
  <1> QED
    BY <1>1 DEF Refreshes

LEMMA LatestIsOne ==
    ASSUME NEW k \in Nat, NEW j \in Nat, Latest(k), Latest(j)
    PROVE  k = j
  BY DEF Latest

LEMMA LatestSame ==
    ASSUME \A j \in Refreshes : Begun(j)' <=> Begun(j), NEW k
    PROVE  Latest(k)' <=> Latest(k)
  BY DEF Latest

\* The fields of a refresh.
LEMMA RefreshFields ==
    ASSUME PageTypes, NEW k \in Refreshes
    PROVE  /\ refresh[k] \in RefreshRecord /\ refresh[k].at \in Nat
           /\ refresh[k].looked \in SUBSET Statuses /\ refresh[k].status \in SUBSET Statuses
  BY DEF PageTypes, RefreshRecord

-----------------------------------------------------------------------------
(* Time.                                                                   *)

\* A step that settles neither times nor what the refreshes are at.
LEMMA SameTimes ==
    ASSUME TimeInv, PageTypes', now' = now, due' = due,
           \A k \in Refreshes : refresh'[k].pc = refresh[k].pc /\ refresh'[k].at = refresh[k].at
    PROVE  TimeInv'
  <1>1. \A k \in Refreshes, pc \in {"none", "fetch", "query", "ended"} : In(k, pc)' <=> In(k, pc)
    BY DEF In
  <1>2. \A k \in Refreshes : Begun(k)' <=> Begun(k)
    BY <1>1 DEF Begun
  <1>3. \A k : Latest(k)' <=> Latest(k)
    BY <1>2, LatestSame
  <1>4. Turns'
    BY <1>1, <1>2, RefreshNumbers DEF TimeInv, Turns
  <1>5. Times'
    BY <1>1, <1>3, RefreshNumbers DEF TimeInv, Times
  <1>6. \A k \in Refreshes : FetchTimes(k)' /\ QueryTimes(k)'
    BY <1>1, <1>3 DEF TimeInv, FetchTimes, QueryTimes
  <1> QED
    BY <1>4, <1>5, <1>6 DEF TimeInv

LEMMA TickTimes ==
    ASSUME TimeInv, Tick
    PROVE  TimeInv'
  <1>1. /\ now < MaxTime /\ now' = now + 1 /\ due' = due /\ refresh' = refresh
        /\ pods' = pods /\ changes' = changes /\ page' = page
        /\ \A k \in Refreshes : ~Urgent(k)
    BY DEF Tick
  <1>2. /\ now \in Nat /\ due \in Nat /\ now # due
        /\ \A k \in Refreshes : refresh[k].at \in Nat
    BY <1>1, RefreshNumbers, RefreshFields DEF TimeInv, PageTypes, Urgent
  <1>3. PageTypes'
    BY <1>1, <1>2, Params DEF TimeInv, PageTypes
  <1>4. \A k \in Refreshes, pc \in {"none", "fetch", "query", "ended"} : In(k, pc)' <=> In(k, pc)
    BY <1>1 DEF In
  <1>5. \A k \in Refreshes : Begun(k)' <=> Begun(k)
    BY <1>4 DEF Begun
  <1>6. \A k : Latest(k)' <=> Latest(k)
    BY <1>5, LatestSame
  <1>7. now < due
    BY <1>2 DEF TimeInv, Times
  <1>8. Turns'
    BY <1>1, <1>2, <1>4, <1>5, <1>7, RefreshNumbers DEF TimeInv, Turns
  <1>9. Times'
    BY <1>1, <1>2, <1>4, <1>6, <1>7, RefreshNumbers, Params DEF TimeInv, Times
  <1>10. ASSUME NEW k \in Refreshes PROVE FetchTimes(k)' /\ QueryTimes(k)'
    <2>1. CASE In(k, "fetch")
      <3>1. now # refresh[k].at + StatusTimeout /\ ~In(k, "query")
        BY <1>1, <2>1 DEF Urgent, StatusDeadline, In
      <3> QED
        BY <1>1, <1>2, <1>4, <1>6, <2>1, <3>1, Params DEF TimeInv, FetchTimes, QueryTimes
    <2>2. CASE In(k, "query")
      <3>1. now # refresh[k].at + PromTimeout /\ ~In(k, "fetch")
        BY <1>1, <2>2 DEF Urgent, PromDeadline, In
      <3> QED
        BY <1>1, <1>2, <1>4, <1>6, <2>2, <3>1, Params DEF TimeInv, FetchTimes, QueryTimes
    <2>3. CASE ~In(k, "fetch") /\ ~In(k, "query")
      BY <1>4, <2>3 DEF FetchTimes, QueryTimes
    <2> QED
      BY <2>1, <2>2, <2>3
  <1> QED
    BY <1>3, <1>8, <1>9, <1>10 DEF TimeInv

\* What BeginRefresh does to the refreshes.
LEMMA BeginFacts ==
    ASSUME PageTypes, NEW k \in Refreshes, BeginRefresh(k)
    PROVE  /\ now = due /\ now' = now /\ In(k, "none") /\ In(k, "fetch")'
           /\ refresh'[k].at = now /\ refresh'[k].looked = refresh[k].looked
           /\ refresh'[k].status = refresh[k].status
           /\ \A j \in Refreshes : j < k => Begun(j)
           /\ \A j \in Refreshes : j # k => refresh'[j] = refresh[j]
           /\ due' = IF k = 1 THEN Never ELSE due + Interval
           /\ PageTypes' /\ UNCHANGED <<pods, changes, page>>
  <1>1. /\ now = due /\ now' = now /\ In(k, "none")
        /\ \A j \in 1 .. k - 1 : ~In(j, "none")
        /\ refresh' = [refresh EXCEPT ![k].pc = "fetch", ![k].at = now]
        /\ due' = IF k = 1 THEN Never ELSE due + Interval
        /\ UNCHANGED <<pods, changes, page>>
    BY DEF BeginRefresh
  <1>2. now \in Nat /\ due \in Nat /\ refresh \in [Refreshes -> RefreshRecord]
    BY DEF PageTypes
  <1>3. refresh[k] \in RefreshRecord
    BY <1>2
  <1>4. /\ refresh' = [refresh EXCEPT ![k] = [refresh[k] EXCEPT !.pc = "fetch", !.at = now]]
        /\ [refresh[k] EXCEPT !.pc = "fetch", !.at = now] \in RefreshRecord
    BY <1>1, <1>2, <1>3 DEF RefreshRecord
  <1>5. /\ refresh'[k] = [refresh[k] EXCEPT !.pc = "fetch", !.at = now]
        /\ \A j \in Refreshes : j # k => refresh'[j] = refresh[j]
        /\ refresh' \in [Refreshes -> RefreshRecord]
    BY <1>2, <1>4
  <1>6. /\ In(k, "fetch")' /\ refresh'[k].at = now
        /\ refresh'[k].looked = refresh[k].looked /\ refresh'[k].status = refresh[k].status
    BY <1>3, <1>5 DEF RefreshRecord, In
  <1>7. \A j \in Refreshes : j < k => Begun(j)
    BY <1>1, RefreshNumbers DEF Begun
  <1>8. due' \in Nat
    BY <1>1, <1>2, Params
  <1>9. PageTypes'
    BY <1>1, <1>5, <1>8 DEF PageTypes
  <1> QED
    BY <1>1, <1>5, <1>6, <1>7, <1>9

LEMMA BeginTimes ==
    ASSUME TimeInv, NEW k \in Refreshes, BeginRefresh(k)
    PROVE  /\ TimeInv' /\ Latest(k)'
           /\ k > 1 => k - 1 \in Refreshes /\ Latest(k - 1)
           /\ \A j \in Nat : Latest(j)' => j = k
  <1>1. /\ now = due /\ now' = now /\ In(k, "none") /\ In(k, "fetch")'
        /\ refresh'[k].at = now
        /\ \A j \in Refreshes : j < k => Begun(j)
        /\ \A j \in Refreshes : j # k => refresh'[j] = refresh[j]
        /\ due' = IF k = 1 THEN Never ELSE due + Interval
        /\ PageTypes'
    BY BeginFacts DEF TimeInv
  <1>2. now \in Nat /\ due \in Nat /\ now <= MaxTime /\ k \in Nat /\ k >= 1
        /\ \A j \in Refreshes : refresh[j].at \in Nat
    BY RefreshNumbers, RefreshFields DEF TimeInv, PageTypes
  <1>3. ~Begun(k) /\ Begun(k)' /\ \A j \in Refreshes : j # k => (Begun(j)' <=> Begun(j))
    BY <1>1 DEF Begun, In
  <1>4. \A j \in Refreshes : j > k => ~Begun(j)
    BY <1>3, RefreshNumbers DEF TimeInv, Turns
  <1>5. Latest(k)'
    BY <1>3, <1>4, RefreshNumbers DEF Latest
  <1>6. \A j \in Nat : Latest(j)' => j = k
    BY <1>5, <1>2, LatestIsOne DEF Latest
  <1>7. k > 1 => k - 1 \in Refreshes /\ Latest(k - 1)
    <2> SUFFICES ASSUME k > 1 PROVE k - 1 \in Refreshes /\ Latest(k - 1)
      OBVIOUS
    <2>1. k - 1 \in Refreshes /\ k - 1 \in Nat /\ k - 1 >= 1
      BY <1>2, RefreshNumbers
    <2>2. \A j \in Refreshes : j > k - 1 => j = k \/ j > k
      BY <1>2, RefreshNumbers
    <2>3. Begun(k - 1)
      BY <1>1, <1>2, <2>1
    <2> QED
      BY <1>3, <1>4, <2>1, <2>2, <2>3 DEF Latest
  <1>8. k > 1 => ~In(1, "fetch") /\ ~In(1, "query") /\ Begun(1)
    <2>1. due # Never
      BY <1>1, <1>2, Params
    <2> QED
      BY <1>1, <2>1, RefreshNumbers DEF TimeInv, Turns
  <1>9. Turns'
    <2>1. \A i, j \in Refreshes : i < j /\ Begun(j)' => Begun(i)'
      BY <1>1, <1>3, <1>4, RefreshNumbers DEF TimeInv, Turns
    <2>2. CASE k = 1
      BY <1>1, <1>3, <2>1, <2>2 DEF Turns
    <2>3. CASE k > 1
      <3>1. Begun(1)' /\ ~In(1, "fetch")' /\ ~In(1, "query")'
        BY <1>1, <1>8, <2>3, RefreshNumbers DEF Begun, In
      <3> QED
        BY <2>1, <3>1 DEF Turns
    <2> QED
      BY <1>2, <2>2, <2>3
  <1>10. now' <= due'
    BY <1>1, <1>2, Params
  <1>11. Latest(2)' => due' <= StatusTimeout + PromTimeout + 2 * Interval
    <2> SUFFICES ASSUME Latest(2)' PROVE due' <= StatusTimeout + PromTimeout + 2 * Interval
      OBVIOUS
    <2>1. k = 2
      BY <1>6
    <2>2. Latest(1) /\ In(1, "ended")
      <3>1. Latest(1) /\ ~In(1, "fetch") /\ ~In(1, "query") /\ ~In(1, "none")
        BY <1>7, <1>8, <2>1 DEF Begun
      <3>2. refresh[1] \in RefreshRecord
        BY RefreshNumbers, RefreshFields DEF TimeInv
      <3> QED
        BY <3>1, <3>2 DEF In, RefreshRecord
    <2>3. due <= StatusTimeout + PromTimeout + Interval
      BY <2>2 DEF TimeInv, Times
    <2> QED
      BY <1>1, <1>2, <2>1, <2>3, Params
  <1>12. Times'
    <2>1. In(1, "ended")' /\ Latest(1)' => FALSE
      BY <1>1, <1>6 DEF In
    <2>2. \A j \in Refreshes : j >= 2 /\ Latest(j)' => due' - Interval <= now'
      BY <1>1, <1>2, <1>6, RefreshNumbers, Params
    <2> QED
      BY <1>10, <1>11, <2>1, <2>2 DEF Times
  <1>13. k > 1 => \A j \in Refreshes : Latest(j) => j = k - 1
    BY <1>2, <1>7, RefreshNumbers, LatestIsOne
  <1>14. FetchTimes(k)' /\ QueryTimes(k)'
    <2>1. refresh'[k].at = IF k = 1 THEN 0 ELSE due' - Interval
      <3>1. CASE k = 1
        BY <1>1, <1>3, <3>1 DEF TimeInv, Turns
      <3>2. CASE k # 1
        BY <1>1, <1>2, <3>2, Params
      <3> QED
        BY <3>1, <3>2
    <2>2. now' <= refresh'[k].at + StatusTimeout
      BY <1>1, <1>2, Params
    <2> QED
      BY <1>1, <1>5, <2>1, <2>2 DEF FetchTimes, QueryTimes, In
  <1>15. ASSUME NEW j \in Refreshes, j # k PROVE FetchTimes(j)' /\ QueryTimes(j)'
    <2>1. refresh'[j] = refresh[j] /\ j \in Nat /\ j >= 1 /\ refresh[j].at \in Nat
      BY <1>1, <1>2, <1>15, RefreshNumbers
    <2>2. \A pc \in {"fetch", "query"} : In(j, pc)' <=> In(j, pc)
      BY <2>1 DEF In
    <2>3. CASE k = 1
      <3>1. ~Begun(j)
        BY <1>4, <1>15, <2>1, <2>3
      <3> QED
        BY <2>2, <3>1 DEF Begun, In, FetchTimes, QueryTimes
    <2>4. CASE k > 1
      <3>1. ~In(j, "fetch")
        <4> SUFFICES ASSUME In(j, "fetch") PROVE FALSE
          OBVIOUS
        <4>1. /\ Latest(j) /\ now <= refresh[j].at + StatusTimeout
              /\ refresh[j].at = IF j = 1 THEN 0 ELSE due - Interval
          BY DEF TimeInv, FetchTimes
        <4>2. j # 1
          BY <1>8, <2>4
        <4> QED
          BY <1>1, <1>2, <4>1, <4>2, Params
      <3>2. QueryTimes(j)'
        <4> SUFFICES ASSUME In(j, "query") PROVE QueryTimes(j)'
          BY <2>2 DEF QueryTimes
        <4>1. /\ now <= refresh[j].at + PromTimeout /\ j # 1
              /\ \/ Latest(j) /\ refresh[j].at <= due - Interval + StatusTimeout
                 \/ Latest(j + 1) /\ refresh[j].at <= due - 2 * Interval + StatusTimeout
          BY <1>8, <2>4 DEF TimeInv, QueryTimes
        <4>2. refresh[j].at > due - 2 * Interval + StatusTimeout
          BY <1>1, <1>2, <2>1, <4>1, Params
        <4>3. Latest(j) /\ refresh[j].at <= due - Interval + StatusTimeout
          BY <1>2, <2>1, <4>1, <4>2, Params
        <4>4. j + 1 = k
          BY <1>2, <1>13, <2>1, <2>4, <4>3
        <4>5. due - Interval + StatusTimeout = due' - 2 * Interval + StatusTimeout
          BY <1>1, <1>2, <2>4, Params
        <4> QED
          BY <1>1, <1>5, <2>1, <4>1, <4>3, <4>4, <4>5 DEF QueryTimes
      <3> QED
        BY <2>2, <3>1, <3>2 DEF FetchTimes
    <2> QED
      BY <1>2, <2>3, <2>4
  <1> QED
    BY <1>1, <1>5, <1>6, <1>7, <1>9, <1>12, <1>14, <1>15 DEF TimeInv

-----------------------------------------------------------------------------
(* The halves of a refresh end.                                            *)

LEMMA HandedOn ==
    ASSUME PageTypes, NEW k \in Refreshes, NEW r \in RefreshRecord,
           refresh' = [refresh EXCEPT ![k] = r]
    PROVE  /\ refresh' \in [Refreshes -> RefreshRecord] /\ refresh'[k] = r
           /\ \A j \in Refreshes : j # k => refresh'[j] = refresh[j]
  BY DEF PageTypes

LEMMA QueryTakesOver ==
    ASSUME TimeInv, PageTypes', NEW k \in Refreshes, In(k, "fetch"), Query(k),
           now' = now, due' = due
    PROVE  /\ TimeInv' /\ Latest(k)' /\ In(k, "query")'
           /\ \A j \in Nat : Latest(j)' <=> Latest(j)
           /\ \A j \in Refreshes : Begun(j)' <=> Begun(j)
           /\ refresh'[k].looked = {} /\ refresh'[k].status = {}
           /\ \A j \in Refreshes : j # k => refresh'[j] = refresh[j]
  <1>1. /\ In(k, "query")' /\ Begun(k)' /\ refresh'[k].at = now
        /\ refresh'[k].looked = {} /\ refresh'[k].status = {}
        /\ \A j \in Refreshes : j # k => refresh'[j] = refresh[j]
    <2> DEFINE r == [NotBegun EXCEPT !.pc = "query", !.at = now]
    <2>1. /\ r \in RefreshRecord /\ r.pc = "query" /\ r.at = now
          /\ r.looked = {} /\ r.status = {}
      BY DEF NotBegun, RefreshRecord, TimeInv, PageTypes
    <2>2. refresh' = [refresh EXCEPT ![k] = r]
      BY DEF Query
    <2> HIDE DEF r
    <2>3. refresh'[k] = r /\ \A j \in Refreshes : j # k => refresh'[j] = refresh[j]
      BY <2>1, <2>2, HandedOn DEF TimeInv
    <2> QED
      BY <2>1, <2>3 DEF In, Begun
  <1>2. Begun(k)
    BY DEF Begun, In
  <1>3. \A j \in Refreshes : Begun(j)' <=> Begun(j)
    BY <1>1, <1>2 DEF Begun, In
  <1>4. \A j : Latest(j)' <=> Latest(j)
    BY <1>3, LatestSame
  <1>5. /\ Latest(k) /\ now <= refresh[k].at + StatusTimeout
        /\ refresh[k].at = IF k = 1 THEN 0 ELSE due - Interval
    BY DEF TimeInv, FetchTimes
  <1>6. now \in Nat /\ due \in Nat /\ k \in Nat /\ k >= 1
    BY RefreshNumbers DEF TimeInv, PageTypes
  <1>7. Turns'
    <2>1. In(1, "fetch")' \/ In(1, "query")' => due = Never
      BY <1>1, RefreshNumbers DEF TimeInv, Turns, In
    <2> QED
      BY <1>3, <2>1, RefreshNumbers DEF TimeInv, Turns
  <1>8. Times'
    <2>1. In(1, "ended")' => In(1, "ended")
      BY <1>1, RefreshNumbers DEF In
    <2> QED
      BY <1>4, <2>1 DEF TimeInv, Times
  <1>9. FetchTimes(k)' /\ QueryTimes(k)'
    <2>1. ~In(k, "fetch")'
      BY <1>1 DEF In
    <2>2. now <= now + PromTimeout
      BY <1>6, Params
    <2>3. \/ k = 1 /\ now <= StatusTimeout
          \/ k >= 2 /\ now <= due - Interval + StatusTimeout
      <3>1. CASE k = 1
        <4>1. refresh[k].at = 0 /\ now <= refresh[k].at + StatusTimeout
          BY <1>5, <3>1
        <4>2. now <= 0 + StatusTimeout
          BY <4>1
        <4> QED
          BY <1>6, <3>1, <4>2, Params
      <3>2. CASE k # 1
        <4>1. refresh[k].at = due - Interval /\ k >= 2
          BY <1>5, <1>6, <3>2
        <4> QED
          BY <1>5, <4>1
      <3> QED
        BY <3>1, <3>2
    <2> QED
      BY <1>1, <1>4, <1>5, <2>1, <2>2, <2>3 DEF FetchTimes, QueryTimes
  <1>10. ASSUME NEW j \in Refreshes, j # k PROVE FetchTimes(j)' /\ QueryTimes(j)'
    <2>1. refresh'[j] = refresh[j]
      BY <1>1, <1>10
    <2>2. \A pc \in {"fetch", "query"} : In(j, pc)' <=> In(j, pc)
      BY <2>1 DEF In
    <2> QED
      BY <1>4, <2>1, <2>2 DEF TimeInv, FetchTimes, QueryTimes
  <1> QED
    BY <1>1, <1>3, <1>4, <1>5, <1>7, <1>8, <1>9, <1>10 DEF TimeInv

\* The first refresh's end starts the timer.
LEMMA EndTimes ==
    ASSUME TimeInv, PageTypes', NEW k \in Refreshes, RenderMetrics(k)
    PROVE  /\ TimeInv' /\ In(k, "ended")'
           /\ k # 1 => due' = due
           /\ k = 1 => Latest(1)
           /\ Latest(k) \/ Latest(k + 1)
           /\ \A j \in Nat : Latest(j)' <=> Latest(j)
           /\ \A j \in Refreshes : Begun(j)' <=> Begun(j)
           /\ refresh'[k].looked = {} /\ refresh'[k].status = {}
           /\ \A j \in Refreshes : j # k => refresh'[j] = refresh[j]
  <1>1. /\ In(k, "query") /\ now' = now
        /\ refresh' = [refresh EXCEPT ![k] = [NotBegun EXCEPT !.pc = "ended"]]
        /\ due' = IF k = 1 THEN now + Interval ELSE due
    BY DEF RenderMetrics
  <1>3. /\ In(k, "ended")' /\ Begun(k)'
        /\ refresh'[k].looked = {} /\ refresh'[k].status = {}
        /\ \A j \in Refreshes : j # k => refresh'[j] = refresh[j]
    <2> DEFINE r == [NotBegun EXCEPT !.pc = "ended"]
    <2>1. /\ r \in RefreshRecord /\ r.pc = "ended" /\ r.looked = {} /\ r.status = {}
      BY DEF NotBegun, RefreshRecord
    <2>2. refresh' = [refresh EXCEPT ![k] = r]
      BY <1>1
    <2> HIDE DEF r
    <2>3. refresh'[k] = r /\ \A j \in Refreshes : j # k => refresh'[j] = refresh[j]
      BY <2>1, <2>2, HandedOn DEF TimeInv
    <2> QED
      BY <2>1, <2>3 DEF In, Begun
  <1>4. Begun(k)
    BY <1>1 DEF Begun, In
  <1>5. \A j \in Refreshes : Begun(j)' <=> Begun(j)
    BY <1>3, <1>4 DEF Begun, In
  <1>6. \A j : Latest(j)' <=> Latest(j)
    BY <1>5, LatestSame
  <1>7. /\ now <= refresh[k].at + PromTimeout
        /\ \/ k = 1 /\ Latest(1) /\ refresh[k].at <= StatusTimeout
           \/ k >= 2 /\ Latest(k)
           \/ k >= 2 /\ Latest(k + 1)
    BY <1>1 DEF TimeInv, QueryTimes
  <1>8. now \in Nat /\ due \in Nat /\ k \in Nat /\ k >= 1 /\ refresh[k].at \in Nat
    BY RefreshNumbers, RefreshFields DEF TimeInv, PageTypes
  <1>9. Turns'
    <2>1. k = 1 => ~In(1, "fetch")' /\ ~In(1, "query")' /\ Begun(1)'
      BY <1>3 DEF In
    <2>2. k # 1 => due' = due /\ \A pc \in {"fetch", "query"} : In(1, pc)' <=> In(1, pc)
      BY <1>1, <1>3, RefreshNumbers DEF In
    <2> QED
      BY <1>1, <1>5, <2>1, <2>2, RefreshNumbers DEF TimeInv, Turns
  <1>10. CASE k = 1
    <2>1. Latest(1) /\ now <= StatusTimeout + PromTimeout
      BY <1>7, <1>8, <1>10, Params
    <2>2. due' = now + Interval
      BY <1>1, <1>10
    <2>3. \A j \in Refreshes : j # 1 => ~Begun(j) /\ ~Latest(j) /\ ~Latest(j + 1)
      BY <2>1, RefreshNumbers DEF Latest
    <2>4. ~Latest(2)
      BY <2>1 DEF Latest
    <2>5. Times'
      <3>1. now' <= due' /\ due' <= StatusTimeout + PromTimeout + Interval
        BY <1>1, <1>8, <2>1, <2>2, Params
      <3> QED
        BY <1>6, <2>3, <2>4, <3>1 DEF Times
    <2>6. \A j \in Refreshes : ~In(j, "fetch")' /\ ~In(j, "query")'
      BY <1>3, <1>5, <1>10, <2>3 DEF In, Begun
    <2>7. \A j \in Refreshes : FetchTimes(j)' /\ QueryTimes(j)'
      BY <2>6 DEF FetchTimes, QueryTimes
    <2> QED
      BY <1>3, <1>5, <1>6, <1>9, <1>10, <2>1, <2>5, <2>7 DEF TimeInv
  <1>11. CASE k # 1
    <2>1. due' = due
      BY <1>1, <1>11
    <2>2. Times'
      <3>1. In(1, "ended")' => In(1, "ended")
        BY <1>3, <1>11, RefreshNumbers DEF In
      <3> QED
        BY <1>1, <1>6, <2>1, <3>1 DEF TimeInv, Times
    <2>3. ASSUME NEW j \in Refreshes, j # k PROVE FetchTimes(j)' /\ QueryTimes(j)'
      <3>1. refresh'[j] = refresh[j]
        BY <1>3, <2>3
      <3>2. \A pc \in {"fetch", "query"} : In(j, pc)' <=> In(j, pc)
        BY <3>1 DEF In
      <3> QED
        BY <1>1, <1>6, <2>1, <3>1, <3>2 DEF TimeInv, FetchTimes, QueryTimes
    <2>4. FetchTimes(k)' /\ QueryTimes(k)'
      BY <1>3 DEF FetchTimes, QueryTimes, In
    <2> QED
      BY <1>3, <1>5, <1>6, <1>7, <1>9, <1>11, <2>1, <2>2, <2>3, <2>4 DEF TimeInv
  <1> QED
    BY <1>10, <1>11

-----------------------------------------------------------------------------
(* What is read and shown.                                                 *)

LEMMA StatusType ==
    ASSUME NEW ps \in [Pods -> {"absent", "unready", "ready"}]
    PROVE  Status(ps) \in Statuses
  <1>1. {ComponentOf[p] : p \in {x \in Pods : ps[x] # "absent"}} \subseteq Components
    BY PodsAssumption
  <1>2. Health(ps) \in {"unknown", "healthy", "degraded", "down"}
    BY DEF Health
  <1> QED
    BY <1>1, <1>2 DEF Status, Statuses

LEMMA UnknownType == Unknown \in Statuses /\ ~Unknown.connected
  BY DEF Unknown, Statuses

LEMMA PanelsSame ==
    ASSUME Panels, page' = page, \A j \in Refreshes : Begun(j) => Begun(j)'
    PROVE  Panels'
  BY DEF Panels, MetricsGoBackOneAtMost

LEMMA ShownSame ==
    ASSUME TimeInv, Shown, page' = page, due' = due, changes' = changes, pods' = pods,
           \A j \in Nat : Latest(j)' <=> Latest(j),
           \A j \in Refreshes : In(j, "fetch") => In(j, "fetch")'
    PROVE  Shown'
  <1>1. page.of \in Nat /\ page.of + 1 \in Nat
    BY DEF TimeInv, PageTypes, PageRecord
  <1>2. Latest(page.of + 1) => page.of + 1 \in Refreshes
    BY DEF Latest
  <1> QED
    BY <1>1, <1>2 DEF Shown

\* A step in which no refresh goes on and nothing is rendered.
LEMMA QuietStep ==
    ASSUME PageInv, TimeInv', page' = page, due' = due, changes' = changes, pods' = pods,
           \A j \in Refreshes : refresh'[j].pc = refresh[j].pc /\ Read(j)'
    PROVE  PageInv'
  <1>1. \A j \in Refreshes : (Begun(j)' <=> Begun(j)) /\ (In(j, "fetch")' <=> In(j, "fetch"))
    BY DEF Begun, In
  <1>2. \A j : Latest(j)' <=> Latest(j)
    BY <1>1, LatestSame
  <1>3. Panels'
    BY <1>1, PanelsSame DEF PageInv
  <1>4. Shown'
    BY <1>1, <1>2, ShownSame DEF PageInv
  <1> QED
    BY <1>3, <1>4 DEF PageInv

\* A fetch in which something is answered.
LEMMA FetchStep ==
    ASSUME PageInv, NEW k \in Refreshes, NEW r \in RefreshRecord, In(k, "fetch"),
           refresh' = [refresh EXCEPT ![k] = r],
           r.pc = refresh[k].pc, r.at = refresh[k].at,
           \A s \in r.looked \cup r.status :
               s.connected /\ changes.last < r.at => s = Status(pods),
           UNCHANGED <<now, pods, changes, due, page>>
    PROVE  PageInv'
  <1>1. /\ refresh' \in [Refreshes -> RefreshRecord] /\ refresh'[k] = r
        /\ \A j \in Refreshes : j # k => refresh'[j] = refresh[j]
    BY HandedOn DEF PageInv, TimeInv
  <1>2. PageTypes'
    BY <1>1 DEF PageInv, TimeInv, PageTypes
  <1>3. \A j \in Refreshes : refresh'[j].pc = refresh[j].pc /\ refresh'[j].at = refresh[j].at
    BY <1>1
  <1>4. TimeInv'
    BY <1>2, <1>3, SameTimes DEF PageInv
  <1>5. \A j \in Refreshes : Read(j)'
    <2>1. Read(k)'
      BY <1>1 DEF Read, In
    <2>2. ASSUME NEW j \in Refreshes, j # k PROVE Read(j)'
      BY <1>1, <2>2 DEF PageInv, Read, In
    <2> QED
      BY <2>1, <2>2
  <1> QED
    BY <1>3, <1>4, <1>5, QuietStep

LEMMA AnswersKeep ==
    ASSUME PageInv, NEW k \in Refreshes,
           \/ KubectlLooks(k) \/ StatusAnswered(k) \/ FilesAnswered(k) \/ FetchFails(k)
    PROVE  PageInv'
  <1>1. /\ refresh \in [Refreshes -> RefreshRecord] /\ refresh[k] \in RefreshRecord
        /\ Read(k) /\ Status(pods) \in Statuses
    BY StatusType DEF PageInv, TimeInv, PageTypes
  <1>2. CASE KubectlLooks(k)
    <2> DEFINE r == [refresh[k] EXCEPT !.looked = {Status(pods)}]
    <2>1. /\ r \in RefreshRecord /\ r.pc = refresh[k].pc /\ r.at = refresh[k].at
          /\ r.looked = {Status(pods)} /\ r.status = refresh[k].status
      BY <1>1 DEF RefreshRecord
    <2>2. /\ refresh' = [refresh EXCEPT ![k] = r] /\ In(k, "fetch")
          /\ UNCHANGED <<now, pods, changes, due, page>>
      BY <1>1, <1>2 DEF KubectlLooks, StatusOpen
    <2> HIDE DEF r
    <2>3. \A s \in r.looked \cup r.status :
              s.connected /\ changes.last < r.at => s = Status(pods)
      BY <1>1, <2>1 DEF Read
    <2> QED
      BY <2>1, <2>2, <2>3, FetchStep
  <1>3. CASE StatusAnswered(k)
    <2>1. PICK s \in StatusAnswers(k) :
              refresh' = [refresh EXCEPT ![k].status = {s}, ![k].looked = {}]
      BY <1>3 DEF StatusAnswered
    <2>2. /\ s \in Statuses
          /\ s.connected /\ changes.last < refresh[k].at => s = Status(pods)
      BY <1>1, UnknownType DEF StatusAnswers, Read, RefreshRecord
    <2> DEFINE r == [refresh[k] EXCEPT !.status = {s}, !.looked = {}]
    <2>3. /\ r \in RefreshRecord /\ r.pc = refresh[k].pc /\ r.at = refresh[k].at
          /\ r.looked = {} /\ r.status = {s}
      BY <1>1, <2>2 DEF RefreshRecord
    <2>4. /\ refresh' = [refresh EXCEPT ![k] = r] /\ In(k, "fetch")
          /\ UNCHANGED <<now, pods, changes, due, page>>
      BY <1>1, <1>3, <2>1 DEF StatusAnswered, StatusOpen
    <2> HIDE DEF r
    <2> QED
      BY <2>2, <2>3, <2>4, FetchStep
  <1>4. ASSUME NEW f \in {"ok", "failed"}, In(k, "fetch"),
               refresh' = [refresh EXCEPT ![k].files = f],
               UNCHANGED <<now, pods, changes, due, page>>
        PROVE  PageInv'
    <2> DEFINE r == [refresh[k] EXCEPT !.files = f]
    <2>1. /\ r \in RefreshRecord /\ r.pc = refresh[k].pc /\ r.at = refresh[k].at
          /\ r.looked = refresh[k].looked /\ r.status = refresh[k].status
      BY <1>1 DEF RefreshRecord
    <2>2. refresh' = [refresh EXCEPT ![k] = r]
      BY <1>1, <1>4
    <2> HIDE DEF r
    <2>3. \A s \in r.looked \cup r.status :
              s.connected /\ changes.last < r.at => s = Status(pods)
      BY <1>1, <2>1 DEF Read
    <2> QED
      BY <1>4, <2>1, <2>2, <2>3, FetchStep
  <1>5. CASE FilesAnswered(k)
    BY <1>4, <1>5 DEF FilesAnswered
  <1>6. CASE FetchFails(k)
    BY <1>4, <1>6 DEF FetchFails
  <1> QED
    BY <1>2, <1>3, <1>5, <1>6

LEMMA TickKeeps ==
    ASSUME PageInv, Tick
    PROVE  PageInv'
  <1>1. /\ refresh' = refresh /\ pods' = pods /\ changes' = changes /\ page' = page
        /\ due' = due
    BY DEF Tick
  <1>2. TimeInv'
    BY TickTimes DEF PageInv
  <1>3. \A j \in Refreshes : Read(j)'
    BY <1>1 DEF PageInv, Read, In
  <1> QED
    BY <1>1, <1>2, <1>3, QuietStep

\* A change after a status was asked for: what is on its way, or shown, need not be
\* true any more, and nothing is claimed of it.
LEMMA PodsChangeKeeps ==
    ASSUME PageInv, PodsChange
    PROVE  PageInv'
  <1>1. /\ changes' = [count |-> changes.count + 1, last |-> now]
        /\ now' = now /\ due' = due /\ refresh' = refresh /\ page' = page
        /\ pods' \in [Pods -> {"absent", "unready", "ready"}]
    BY DEF PodsChange, PageInv, TimeInv, PageTypes
  <1>2. /\ changes'.last = now /\ now \in Nat /\ due \in Nat
        /\ \A k \in Refreshes : refresh[k].at \in Nat
    BY <1>1, RefreshFields DEF PageInv, TimeInv, PageTypes
  <1>3. PageTypes'
    BY <1>1 DEF PageInv, TimeInv, PageTypes
  <1>4. TimeInv'
    BY <1>1, <1>3, SameTimes DEF PageInv
  <1>5. \A j : Latest(j)' <=> Latest(j)
    BY <1>1, LatestSame DEF Begun, In
  <1>6. \A j \in Refreshes : j >= 2 /\ Latest(j) =>
            ~(now < due - Interval) /\ ~(now < due - 2 * Interval)
    BY <1>2, Params DEF PageInv, TimeInv, Times
  <1>7. ASSUME NEW j \in Refreshes PROVE Read(j)'
    <2>1. CASE In(j, "fetch")
      <3>1. Latest(j) /\ refresh[j].at = IF j = 1 THEN 0 ELSE due - Interval
        BY <2>1 DEF PageInv, TimeInv, FetchTimes
      <3>2. ~(now < refresh[j].at)
        BY <1>2, <1>6, <3>1, RefreshNumbers
      <3> QED
        BY <1>1, <1>2, <2>1, <3>2 DEF Read, In
    <2>2. CASE ~In(j, "fetch")
      BY <1>1, <2>2 DEF PageInv, Read, In
    <2> QED
      BY <2>1, <2>2
  <1>8. Panels'
    BY <1>1, PanelsSame DEF PageInv, Begun, In
  <1>9. Shown'
    <2>1. page.of \in Nat /\ page.of + 1 \in Nat
      BY DEF PageInv, TimeInv, PageTypes, PageRecord
    <2>2. page.of # 0 /\ ~page.failed =>
              Latest(page.of)' \/ (Latest(page.of + 1)' /\ In(page.of + 1, "fetch")')
      BY <1>1, <1>5, <2>1 DEF PageInv, Shown, In
    <2>3. page.of >= 2 => /\ Latest(page.of) => ~(now < due - Interval)
                          /\ Latest(page.of + 1) => ~(now < due - 2 * Interval)
      BY <1>6, <2>1 DEF Latest
    <2> QED
      BY <1>1, <1>2, <1>5, <2>1, <2>2, <2>3 DEF PageInv, Shown
  <1> QED
    BY <1>4, <1>7, <1>8, <1>9 DEF PageInv

LEMMA QueryTypes ==
    ASSUME PageTypes, NEW k \in Refreshes, Query(k), page' \in PageRecord,
           UNCHANGED <<now, pods, changes, due>>
    PROVE  PageTypes'
  <1> DEFINE r == [NotBegun EXCEPT !.pc = "query", !.at = now]
  <1>1. r \in RefreshRecord
    BY DEF NotBegun, RefreshRecord, PageTypes
  <1>2. refresh' = [refresh EXCEPT ![k] = r]
    BY DEF Query
  <1> HIDE DEF r
  <1>3. refresh' \in [Refreshes -> RefreshRecord]
    BY <1>1, <1>2, HandedOn
  <1> QED
    BY <1>3 DEF PageTypes

LEMMA ReadAfter ==
    ASSUME PageInv, NEW k \in Refreshes, refresh'[k].looked = {}, refresh'[k].status = {},
           \A j \in Refreshes : j # k => refresh'[j] = refresh[j],
           UNCHANGED <<pods, changes>>
    PROVE  \A j \in Refreshes : Read(j)'
  <1>1. Read(k)'
    BY DEF Read
  <1>2. ASSUME NEW j \in Refreshes, j # k PROVE Read(j)'
    BY <1>2 DEF PageInv, Read, In
  <1> QED
    BY <1>1, <1>2

LEMMA RenderKeeps ==
    ASSUME PageInv, NEW k \in Refreshes, Render(k)
    PROVE  PageInv' /\ page'.of = k /\ Latest(k)
  <1>1. PICK s \in refresh[k].status :
            page' = [page EXCEPT !.status = s, !.of = k, !.failed = FALSE]
    BY DEF Render
  <1>2. In(k, "fetch") /\ Query(k) /\ UNCHANGED <<now, pods, changes, due>>
    BY DEF Render
  <1>3. s \in Statuses /\ k \in Nat /\ k >= 1 /\ page \in PageRecord
    BY RefreshFields, RefreshNumbers DEF PageInv, TimeInv, PageTypes
  <1>4. /\ page' \in PageRecord /\ page'.status = s /\ page'.of = k /\ ~page'.failed
        /\ page'.metricsOf = page.metricsOf /\ page'.newest = page.newest
    BY <1>1, <1>3 DEF PageRecord
  <1>5. PageTypes'
    BY <1>2, <1>4, QueryTypes DEF PageInv, TimeInv
  <1>6. /\ TimeInv' /\ Latest(k)'
        /\ \A j \in Nat : Latest(j)' <=> Latest(j)
        /\ \A j \in Refreshes : Begun(j)' <=> Begun(j)
        /\ refresh'[k].looked = {} /\ refresh'[k].status = {}
        /\ \A j \in Refreshes : j # k => refresh'[j] = refresh[j]
    BY <1>2, <1>5, QueryTakesOver DEF PageInv
  <1>7. Latest(k) /\ ~Latest(k + 1)
    BY <1>3, <1>6, LatestIsOne
  <1>8. Panels'
    BY <1>4, <1>6, <1>7 DEF PageInv, Panels, MetricsGoBackOneAtMost, Latest
  <1>9. Shown'
    <2>1. k >= 2 /\ s.connected /\ changes.last < due - Interval => s = Status(pods)
      <3>1. k >= 2 => refresh[k].at = due - Interval
        BY <1>2, <1>3 DEF PageInv, TimeInv, FetchTimes
      <3> QED
        BY <3>1 DEF PageInv, Read
    <2>2. ~Latest(k + 1)'
      BY <1>3, <1>6, <1>7
    <2> QED
      BY <1>2, <1>3, <1>4, <1>6, <2>1, <2>2 DEF Shown
  <1>10. \A j \in Refreshes : Read(j)'
    BY <1>2, <1>6, ReadAfter
  <1> QED
    BY <1>4, <1>6, <1>7, <1>8, <1>9, <1>10 DEF PageInv

LEMMA RenderFailureKeeps ==
    ASSUME PageInv, NEW k \in Refreshes, RenderFailure(k)
    PROVE  PageInv' /\ page'.of = page.of
  <1>1. /\ In(k, "fetch") /\ Query(k) /\ page' = [page EXCEPT !.failed = TRUE]
        /\ UNCHANGED <<now, pods, changes, due>>
    BY DEF RenderFailure, AfterFailure
  <1>2. /\ page' \in PageRecord /\ page'.status = page.status /\ page'.of = page.of
        /\ page'.failed /\ page'.metricsOf = page.metricsOf /\ page'.newest = page.newest
        /\ page.of \in Nat /\ page.of + 1 \in Nat
    <2>1. page \in PageRecord
      BY DEF PageInv, TimeInv, PageTypes
    <2>2. /\ page' \in PageRecord /\ page'.status = page.status /\ page'.of = page.of
          /\ page'.failed /\ page'.metricsOf = page.metricsOf /\ page'.newest = page.newest
      BY <1>1, <2>1 DEF PageRecord
    <2>3. page.of \in Nat
      BY <2>1 DEF PageRecord
    <2> QED
      BY <2>2, <2>3
  <1>3. PageTypes'
    BY <1>1, <1>2, QueryTypes DEF PageInv, TimeInv
  <1>4. /\ TimeInv'
        /\ \A j \in Nat : Latest(j)' <=> Latest(j)
        /\ \A j \in Refreshes : Begun(j)' <=> Begun(j)
        /\ refresh'[k].looked = {} /\ refresh'[k].status = {}
        /\ \A j \in Refreshes : j # k => refresh'[j] = refresh[j]
    BY <1>1, <1>3, QueryTakesOver DEF PageInv
  <1>5. Panels'
    BY <1>2, <1>4 DEF PageInv, Panels, MetricsGoBackOneAtMost
  <1>6. Shown'
    BY <1>1, <1>2, <1>4 DEF PageInv, Shown
  <1>7. \A j \in Refreshes : Read(j)'
    BY <1>1, <1>4, ReadAfter
  <1> QED
    BY <1>2, <1>4, <1>5, <1>6, <1>7 DEF PageInv

LEMMA RenderMetricsKeeps ==
    ASSUME PageInv, NEW k \in Refreshes, RenderMetrics(k)
    PROVE  PageInv' /\ page'.of = page.of
  <1>1. PICK shown \in PromAnswers :
            page' = [page EXCEPT !.metrics = shown, !.metricsOf = k,
                                 !.newest = IF k > @ THEN k ELSE @]
    BY DEF RenderMetrics
  <1>2. /\ In(k, "query") /\ UNCHANGED <<now, pods, changes>>
        /\ refresh' = [refresh EXCEPT ![k] = [NotBegun EXCEPT !.pc = "ended"]]
        /\ due' = IF k = 1 THEN now + Interval ELSE due
    BY DEF RenderMetrics
  <1>3. k \in Nat /\ k >= 1 /\ page \in PageRecord /\ page.newest \in Nat
        /\ page.of \in Nat /\ now \in Nat
    BY RefreshNumbers DEF PageInv, TimeInv, PageTypes, PageRecord
  <1>4. /\ page' \in PageRecord /\ page'.status = page.status /\ page'.of = page.of
        /\ page'.failed = page.failed /\ page'.metricsOf = k
        /\ page'.newest = IF k > page.newest THEN k ELSE page.newest
    BY <1>1, <1>3 DEF PageRecord
  <1>5. PageTypes'
    <2> DEFINE r == [NotBegun EXCEPT !.pc = "ended"]
    <2>1. r \in RefreshRecord
      BY DEF NotBegun, RefreshRecord
    <2>2. refresh' = [refresh EXCEPT ![k] = r]
      BY <1>2
    <2> HIDE DEF r
    <2>3. refresh' \in [Refreshes -> RefreshRecord]
      BY <2>1, <2>2, HandedOn DEF PageInv, TimeInv
    <2>4. due' \in Nat
      BY <1>2, <1>3, Params DEF PageInv, TimeInv, PageTypes
    <2> QED
      BY <1>2, <1>4, <2>3, <2>4 DEF PageInv, TimeInv, PageTypes
  <1>6. /\ TimeInv'
        /\ k # 1 => due' = due
    BY <1>5, EndTimes DEF PageInv
  <1>7. /\ k = 1 => Latest(1)
        /\ Latest(k) \/ Latest(k + 1)
        /\ \A j \in Nat : Latest(j)' <=> Latest(j)
        /\ \A j \in Refreshes : Begun(j)' <=> Begun(j)
        /\ refresh'[k].looked = {} /\ refresh'[k].status = {}
        /\ \A j \in Refreshes : j # k => refresh'[j] = refresh[j]
    BY <1>5, EndTimes DEF PageInv
  <1>8. Panels'
    <2>1. page.newest <= k + 1
      <3>1. CASE page.newest = 0
        BY <1>3, <3>1
      <3>2. CASE page.newest # 0
        <4>1. page.newest \in Refreshes /\ Begun(page.newest)
          BY <3>2 DEF PageInv, Panels
        <4>2. ~(page.newest > k) \/ ~(page.newest > k + 1)
          BY <1>7, <4>1 DEF Latest
        <4> QED
          BY <1>3, <4>2
      <3> QED
        BY <3>1, <3>2
    <2>2. page'.metricsOf >= page'.newest - 1
      BY <1>3, <1>4, <2>1
    <2>3. (page.newest # 0 => page.newest \in Refreshes /\ Begun(page.newest))'
      <3>1. CASE k > page.newest
        <4>1. Begun(k)'
          BY <1>2, <1>7 DEF Begun, In
        <4>2. page'.newest = k
          BY <1>4, <3>1
        <4> QED
          BY <4>1, <4>2 DEF Begun, In
      <3>2. CASE ~(k > page.newest)
        <4>1. page'.newest = page.newest
          BY <1>4, <3>2
        <4>2. page.newest # 0 => page.newest \in Refreshes /\ Begun(page.newest)
          BY DEF PageInv, Panels
        <4> QED
          BY <1>7, <4>1, <4>2 DEF Begun, In
      <3> QED
        BY <3>1, <3>2
    <2>4. (page.of # 0 => page.of \in Refreshes /\ Begun(page.of))'
      <3>1. page.of # 0 => page.of \in Refreshes /\ Begun(page.of)
        BY DEF PageInv, Panels
      <3> QED
        BY <1>4, <1>7, <3>1 DEF Begun, In
    <2> QED
      BY <2>2, <2>3, <2>4 DEF Panels, MetricsGoBackOneAtMost
  <1>9. Shown'
    <2>1. CASE k = 1
      <3>1. page.of = 0 \/ page.of = 1
        <4>1. page.of # 0 => page.of \in Refreshes /\ Begun(page.of)
          BY DEF PageInv, Panels
        <4>2. ~(page.of > 1) \/ page.of = 0
          BY <1>7, <2>1, <4>1 DEF Latest
        <4> QED
          BY <1>3, <4>2
      <3> QED
        BY <1>4, <1>7, <2>1, <3>1 DEF PageInv, Shown
    <2>2. CASE k # 1
      <3>1. \A j \in Refreshes : In(j, "fetch") => In(j, "fetch")'
        BY <1>2, <1>7 DEF In
      <3>2. due' = due
        BY <1>6, <2>2
      <3>3. page.of + 1 \in Nat /\ (Latest(page.of + 1) => page.of + 1 \in Refreshes)
        BY <1>3 DEF Latest
      <3> QED
        BY <1>2, <1>3, <1>4, <1>7, <3>1, <3>2, <3>3 DEF PageInv, Shown
    <2> QED
      BY <2>1, <2>2
  <1>10. \A j \in Refreshes : Read(j)'
    BY <1>2, <1>7, ReadAfter
  <1> QED
    BY <1>4, <1>6, <1>8, <1>9, <1>10 DEF PageInv

LEMMA BeginKeeps ==
    ASSUME PageInv, NEW k \in Refreshes, BeginRefresh(k)
    PROVE  PageInv' /\ page'.of = page.of
  <1>1. /\ now = due /\ In(k, "none") /\ In(k, "fetch")'
        /\ refresh'[k].looked = refresh[k].looked
        /\ refresh'[k].status = refresh[k].status
        /\ \A j \in Refreshes : j # k => refresh'[j] = refresh[j]
        /\ due' = IF k = 1 THEN Never ELSE due + Interval
        /\ UNCHANGED <<pods, changes, page>>
    BY BeginFacts DEF PageInv, TimeInv
  <1>2. /\ TimeInv' /\ Latest(k)'
        /\ k > 1 => k - 1 \in Refreshes /\ Latest(k - 1)
        /\ \A j \in Nat : Latest(j)' => j = k
    BY BeginTimes DEF PageInv
  <1>3. k \in Nat /\ k >= 1 /\ page.of \in Nat /\ due \in Nat
    BY RefreshNumbers DEF PageInv, TimeInv, PageTypes, PageRecord
  <1>4. ~Begun(k) /\ \A j \in Refreshes : Begun(j) => Begun(j)'
    BY <1>1 DEF Begun, In
  <1>5. Panels'
    BY <1>1, <1>4, PanelsSame DEF PageInv
  <1>6. \A j \in Refreshes : Read(j)'
    <2>1. refresh'[k].looked = {} /\ refresh'[k].status = {}
      BY <1>1 DEF PageInv, Read, In
    <2> QED
      BY <1>1, <2>1, ReadAfter
  <1>7. page.of # 0 => page.of \in Refreshes /\ Begun(page.of) /\ k > 1
    <2> SUFFICES ASSUME page.of # 0
                 PROVE  page.of \in Refreshes /\ Begun(page.of) /\ k > 1
      OBVIOUS
    <2>1. page.of \in Refreshes /\ Begun(page.of)
      BY DEF PageInv, Panels
    <2>2. Begun(1)
      BY <1>3, <2>1, RefreshNumbers DEF PageInv, TimeInv, Turns
    <2> QED
      BY <1>3, <1>4, <2>1, <2>2
  <1>8. page.of # 0 => ~(Latest(page.of + 1) /\ In(page.of + 1, "fetch"))
    <2> SUFFICES ASSUME page.of # 0, Latest(page.of + 1), In(page.of + 1, "fetch")
                 PROVE  FALSE
      OBVIOUS
    <2>1. page.of + 1 \in Refreshes /\ page.of + 1 # k
      BY <1>4 DEF Latest
    <2>2. In(page.of + 1, "fetch")'
      BY <1>1, <2>1 DEF In
    <2>3. PICK j \in Refreshes : j = page.of + 1
      BY <2>1
    <2>4. In(j, "fetch")'
      BY <1>1, <2>2, <2>3 DEF In
    <2>5. Latest(j)'
      BY <1>2, <2>4 DEF TimeInv, FetchTimes
    <2> QED
      BY <1>2, <2>1, <2>3, <2>5, RefreshNumbers
  <1>9. page.of # 0 /\ Latest(page.of) => page.of + 1 = k
    <2> SUFFICES ASSUME page.of # 0, Latest(page.of) PROVE page.of + 1 = k
      OBVIOUS
    <2>1. k - 1 \in Nat /\ Latest(k - 1)
      BY <1>2, <1>3, <1>7
    <2>2. page.of = k - 1
      BY <1>3, <2>1, LatestIsOne
    <2> QED
      BY <1>3, <2>2
  <1>10. Shown'
    <2>1. page.of # 0 /\ ~page.failed =>
              Latest(page.of + 1)' /\ In(page.of + 1, "fetch")'
      BY <1>1, <1>2, <1>8, <1>9 DEF PageInv, Shown, In
    <2>2. page.of # 0 => ~Latest(page.of)'
      <3> SUFFICES ASSUME page.of # 0, Latest(page.of)' PROVE FALSE
        OBVIOUS
      <3>1. PICK j \in Nat : j = page.of
        BY <1>3
      <3>2. Latest(j)'
        BY <1>1, <3>1 DEF Latest, Begun, In
      <3>3. Begun(j) /\ j = k
        BY <1>2, <1>7, <3>1, <3>2
      <3> QED
        BY <1>4, <3>3
    <2>3. page.of >= 2 /\ Latest(page.of + 1)' =>
              Latest(page.of) /\ due' - 2 * Interval = due - Interval
      <3> SUFFICES ASSUME page.of >= 2, Latest(page.of + 1)'
                   PROVE  Latest(page.of) /\ due' - 2 * Interval = due - Interval
        OBVIOUS
      <3>1. PICK j \in Nat : j = page.of + 1
        BY <1>3
      <3>2. Latest(j)'
        BY <1>1, <3>1 DEF Latest, Begun, In
      <3>3. k = page.of + 1
        BY <1>2, <3>1, <3>2
      <3>4. Latest(k - 1) /\ k - 1 = page.of
        BY <1>2, <1>3, <3>3
      <3> QED
        BY <1>1, <1>3, <3>3, <3>4, Params
    <2> QED
      BY <1>1, <1>3, <2>1, <2>2, <2>3 DEF PageInv, Shown
  <1> QED
    BY <1>1, <1>2, <1>5, <1>6, <1>10 DEF PageInv

LEMMA InitKeeps == Init => PageInv
  <1> SUFFICES ASSUME Init PROVE PageInv
    OBVIOUS
  <1>1. /\ now = 0 /\ due = 0 /\ changes = [count |-> 0, last |-> 0] /\ page = Blank
        /\ pods \in [Pods -> {"absent", "ready"}]
        /\ refresh = [k \in Refreshes |-> NotBegun]
    BY DEF Init
  <1>2. NotBegun \in RefreshRecord /\ Blank \in PageRecord
    BY UnknownType DEF NotBegun, RefreshRecord, Blank, PageRecord, PromAnswers
  <1>3. \A k \in Refreshes : /\ ~Begun(k) /\ ~In(k, "fetch") /\ ~In(k, "query") /\ ~In(k, "ended")
                             /\ refresh[k].looked = {} /\ refresh[k].status = {}
    BY <1>1 DEF Begun, In, NotBegun
  <1>4. \A k : ~Latest(k)
    BY <1>3 DEF Latest
  <1>5. PageTypes
    BY <1>1, <1>2, Params DEF PageTypes
  <1>6. Turns
    BY <1>1, <1>3, RefreshNumbers DEF Turns
  <1>7. Times
    BY <1>1, <1>4 DEF Times
  <1>8. \A k \in Refreshes : FetchTimes(k) /\ QueryTimes(k) /\ Read(k)
    BY <1>3 DEF FetchTimes, QueryTimes, Read
  <1>9. page.of = 0 /\ page.newest = 0 /\ page.metricsOf = 0 /\ ~page.status.connected
    BY <1>1 DEF Blank, Unknown
  <1>10. Panels
    BY <1>9 DEF Panels, MetricsGoBackOneAtMost
  <1>11. Shown
    BY <1>9 DEF Shown
  <1> QED
    BY <1>5, <1>6, <1>7, <1>8, <1>10, <1>11 DEF PageInv, TimeInv

\* Only Render shows another refresh's panels, and those of the latest.
LEMMA NextKeeps ==
    ASSUME PageInv, [Next]_vars
    PROVE  PageInv' /\ page'.of >= page.of
  <1>1. page.of \in Nat
    BY DEF PageInv, TimeInv, PageTypes, PageRecord
  <1>2. CASE UNCHANGED vars
    <2>1. UNCHANGED <<now, pods, changes, due, refresh, page>>
      BY <1>2 DEF vars
    <2>2. PageTypes'
      BY <2>1 DEF PageInv, TimeInv, PageTypes
    <2>3. TimeInv'
      BY <2>1, <2>2, SameTimes DEF PageInv
    <2>4. \A j \in Refreshes : Read(j)'
      BY <2>1 DEF PageInv, Read, In
    <2>5. PageInv'
      BY <2>1, <2>3, <2>4, QuietStep
    <2> QED
      BY <1>1, <2>1, <2>5
  <1>3. CASE PodsChange
    <2>1. page' = page
      BY <1>3 DEF PodsChange
    <2> QED
      BY <1>1, <1>3, <2>1, PodsChangeKeeps
  <1>4. CASE Tick
    <2>1. page' = page
      BY <1>4 DEF Tick
    <2> QED
      BY <1>1, <1>4, <2>1, TickKeeps
  <1>5. ASSUME NEW k \in Refreshes, Work(k) PROVE PageInv' /\ page'.of >= page.of
    <2>1. CASE KubectlLooks(k) \/ StatusAnswered(k) \/ FilesAnswered(k) \/ FetchFails(k)
      <3>1. page' = page
        BY <2>1 DEF KubectlLooks, StatusAnswered, FilesAnswered, FetchFails
      <3> QED
        BY <1>1, <2>1, <3>1, AnswersKeep
    <2>2. CASE BeginRefresh(k)
      BY <1>1, <2>2, BeginKeeps
    <2>3. CASE Render(k)
      <3>1. PageInv' /\ page'.of = k /\ Latest(k)
        BY <2>3, RenderKeeps
      <3>2. page.of # 0 => page.of \in Refreshes /\ Begun(page.of)
        BY DEF PageInv, Panels
      <3>3. ~(page.of > k)
        BY <3>1, <3>2, RefreshNumbers DEF Latest
      <3> QED
        BY <1>1, <3>1, <3>3, RefreshNumbers
    <2>4. CASE RenderFailure(k)
      BY <1>1, <2>4, RenderFailureKeeps
    <2>5. CASE RenderMetrics(k)
      BY <1>1, <2>5, RenderMetricsKeeps
    <2> QED
      BY <1>5, <2>1, <2>2, <2>3, <2>4, <2>5 DEF Work
  <1> QED
    BY <1>2, <1>3, <1>4, <1>5 DEF Next

LEMMA PageInvariant == Spec => []PageInv
  <1>1. PageInv /\ [Next]_vars => PageInv'
    BY NextKeeps
  <1> QED
    BY <1>1, InitKeeps, PTL DEF Spec

-----------------------------------------------------------------------------
(* What a status says of the pods it was made of.                          *)

LEMMA ComponentsAreTwo ==
    Components = {"prometheus", "grafana"} /\ \A p \in Pods : ComponentOf[p] \in Components
  BY PodsAssumption DEF Components

\* As long as no component has two pods, to count ready pods is to count components.
LEMMA HealthIsRight ==
    ASSUME OnePodEach
    PROVE  /\ Health(pods) = "healthy" <=> \A c \in Components : Up(c)
           /\ Health(pods) = "down" <=> ~ \E c \in Components : Up(c)
  <1> DEFINE R == ReadyPods(pods)
  <1>1. /\ \A p : p \in R <=> p \in Pods /\ pods[p] = "ready"
        /\ \A p, q \in R : ComponentOf[p] = ComponentOf[q] => p = q
    BY DEF ReadyPods, OnePodEach
  <1>2. \A p \in R : ComponentOf[p] \in {"prometheus", "grafana"}
    BY <1>1, ComponentsAreTwo
  <1>3. \A c : Up(c) <=> \E p \in R : ComponentOf[p] = c
    BY <1>1 DEF Up
  <1>4. Health(pods) = IF Cardinality(R) >= 2 THEN "healthy"
                       ELSE IF Cardinality(R) = 1 THEN "degraded" ELSE "down"
    BY DEF Health
  <1> HIDE DEF R
  <1>5. CASE Up("prometheus") /\ Up("grafana")
    <2>1. PICK p \in R, q \in R : ComponentOf[p] = "prometheus" /\ ComponentOf[q] = "grafana"
      BY <1>3, <1>5
    <2>2. R = {p} \cup {q} /\ q \notin {p}
      BY <1>1, <1>2, <2>1
    <2>3. Cardinality({p}) = 1 /\ IsFiniteSet({p})
      BY FS_Singleton
    <2>4. Cardinality(R) = 2
      BY <2>2, <2>3, FS_AddElement
    <2> QED
      BY <1>4, <1>5, <2>4, ComponentsAreTwo
  <1>6. ASSUME NEW p \in R, NEW c, c \in Components, ~Up(c)
        PROVE  Health(pods) = "degraded"
    <2>1. R = {p}
      BY <1>1, <1>2, <1>3, <1>6, ComponentsAreTwo
    <2>2. Cardinality(R) = 1
      BY <2>1, FS_Singleton
    <2> QED
      BY <1>4, <2>2
  <1>7. CASE R = {}
    <2>1. Cardinality(R) = 0
      BY <1>7, FS_EmptySet
    <2>2. \A c : ~Up(c)
      BY <1>3, <1>7
    <2> QED
      BY <1>4, <2>1, <2>2, ComponentsAreTwo
  <1>8. CASE R # {} /\ ~(Up("prometheus") /\ Up("grafana"))
    <2>1. PICK p \in R : TRUE
      BY <1>8
    <2>2. Health(pods) = "degraded"
      BY <1>6, <1>8, <2>1, ComponentsAreTwo
    <2>3. Up(ComponentOf[p]) /\ ComponentOf[p] \in Components
      BY <1>2, <1>3, <2>1, ComponentsAreTwo
    <2> QED
      BY <1>8, <2>2, <2>3, ComponentsAreTwo
  <1> QED
    BY <1>5, <1>7, <1>8

\* A page that has stood for longer than Stay shows what the pods still are.
LEMMA LongStanding ==
    ASSUME PageInv, page.status.connected, ~page.failed, now - changes.last > Stay(page.of)
    PROVE  page.status = Status(pods)
  <1> DEFINE o == page.of
  <1>1. /\ o \in Nat /\ o # 0 /\ o \in Refreshes
        /\ Latest(o) \/ (Latest(o + 1) /\ In(o + 1, "fetch"))
    BY DEF PageInv, TimeInv, PageTypes, PageRecord, Shown, Panels
  <1>2. /\ now \in Nat /\ due \in Nat /\ changes.last \in Nat /\ now <= due
        /\ \A k \in Refreshes : refresh[k].at \in Nat /\ refresh[k] \in RefreshRecord
    BY RefreshFields DEF PageInv, TimeInv, PageTypes, Times
  <1>3. \A k \in Refreshes : FetchTimes(k) /\ QueryTimes(k)
    BY DEF PageInv, TimeInv
  <1>4. ASSUME Latest(o + 1), In(o + 1, "fetch") PROVE now <= due - Interval + StatusTimeout
    <2>1. o + 1 \in Refreshes /\ o + 1 # 1
      BY <1>1, <1>4 DEF Latest
    <2>2. /\ now <= refresh[o + 1].at + StatusTimeout
          /\ refresh[o + 1].at = due - Interval
      BY <1>3, <1>4, <2>1 DEF FetchTimes
    <2> QED
      BY <2>2
  <1>5. CASE o = 1
    <2>1. Stay(o) = Interval + 2 * StatusTimeout + PromTimeout
      BY <1>5 DEF Stay
    <2>2. now <= Interval + 2 * StatusTimeout + PromTimeout
      <3>1. CASE Latest(1)
        <4>1. CASE In(1, "fetch")
          <5>1. now <= refresh[1].at + StatusTimeout /\ refresh[1].at = 0
            BY <1>3, <4>1, RefreshNumbers DEF FetchTimes
          <5> QED
            BY <1>2, <5>1, Params
        <4>2. CASE In(1, "query")
          <5>1. now <= refresh[1].at + PromTimeout /\ refresh[1].at <= StatusTimeout
            BY <1>3, <4>2, RefreshNumbers DEF QueryTimes
          <5> QED
            BY <1>2, <5>1, RefreshNumbers, Params
        <4>3. CASE In(1, "ended")
          <5>1. due <= StatusTimeout + PromTimeout + Interval
            BY <3>1, <4>3 DEF PageInv, TimeInv, Times
          <5> QED
            BY <1>2, <5>1, Params
        <4> QED
          BY <1>2, <3>1, <4>1, <4>2, <4>3 DEF RefreshRecord, In, Latest, Begun
      <3>2. CASE Latest(o + 1) /\ In(o + 1, "fetch")
        <4>1. due <= StatusTimeout + PromTimeout + 2 * Interval
          BY <1>5, <3>2 DEF PageInv, TimeInv, Times
        <4>2. now <= due - Interval + StatusTimeout
          BY <1>4, <3>2
        <4> QED
          BY <1>2, <4>1, <4>2, Params
      <3> QED
        BY <1>1, <1>5, <3>1, <3>2
    <2> QED
      BY <1>2, <2>1, <2>2, Params
  <1>6. CASE o # 1
    <2>1. Stay(o) = Interval + StatusTimeout /\ o >= 2
      BY <1>1, <1>6 DEF Stay
    <2>2. changes.last < now - Interval - StatusTimeout
      BY <1>2, <2>1, Params
    <2>3. CASE Latest(o)
      <3>1. changes.last < due - Interval
        BY <1>2, <2>2, Params
      <3> QED
        BY <2>1, <2>3, <3>1 DEF PageInv, Shown
    <2>4. CASE Latest(o + 1) /\ In(o + 1, "fetch")
      <3>1. changes.last < due - 2 * Interval
        BY <1>2, <1>4, <2>2, <2>4, Params
      <3> QED
        BY <2>1, <2>4, <3>1 DEF PageInv, Shown
    <2> QED
      BY <1>1, <2>3, <2>4
  <1> QED
    BY <1>5, <1>6

-----------------------------------------------------------------------------
(* The theorems.                                                           *)

\* renderStatus never puts an earlier refresh's panels over a later one's: its answers
\* are all in, or given up, before the timer fires again.
THEOREM PanelsOnlyAdvance == Spec => StatusNeverGoesBack
  <1>1. PageInv /\ [Next]_vars => [page'.of >= page.of]_vars
    BY NextKeeps
  <1> QED
    BY <1>1, PageInvariant, PTL DEF Spec, StatusNeverGoesBack

\* renderMetrics may put the metrics of a refresh over those of the next, as the four
\* queries outlast the interval, but never over those of the one after it.
THEOREM MetricsLagOneAtMost == Spec => []MetricsGoBackOneAtMost
  <1>1. PageInv => MetricsGoBackOneAtMost
    BY DEF PageInv, Panels
  <1> QED
    BY <1>1, PageInvariant, PTL

\* In a cluster that has not changed for Stay, a connected headline is right.
THEOREM SteadyWorldIsShown == Spec => []SteadyWorldShown
  <1>1. PageInv => SteadyWorldShown
    <2> SUFFICES ASSUME PageInv, page.status.connected, ~page.failed, OnePodEach,
                        now - changes.last > Stay(page.of)
                 PROVE  /\ page.status.health = "healthy" <=> \A c \in Components : Up(c)
                        /\ page.status.health = "down" <=> ~ \E c \in Components : Up(c)
                        /\ page.status.components =
                               {ComponentOf[p] : p \in {x \in Pods : pods[x] # "absent"}}
      BY DEF SteadyWorldShown
    <2>1. page.status = Status(pods)
      BY LongStanding
    <2>2. /\ page.status.health = Health(pods)
          /\ page.status.components =
                 {ComponentOf[p] : p \in {x \in Pods : pods[x] # "absent"}}
      BY <2>1 DEF Status
    <2> QED
      BY <2>2, HealthIsRight
  <1> QED
    BY <1>1, PageInvariant, PTL
=============================================================================
