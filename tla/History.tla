------------------------------- MODULE History -------------------------------
(* Historical bars: requests that download what the disk cache does not have  *)
(* (series/api.rs) and the cache itself (cache/data_series.rs).               *)
(*                                                                            *)
(* The cache of one series is a set of files, each named for the range of ids *)
(* it holds.  A request looks which part of its window no file covers,        *)
(* downloads the first such part page by page without the lock, stores it,    *)
(* and looks again; when nothing is missing it merges adjacent files, reads   *)
(* the window and evicts old files.  Two locks guard the cache: one inside a  *)
(* process, one between processes; eviction takes the first only.             *)
(* "Mutant" marks a definition that changes the one after it for the runs.    *)
EXTENDS RangeSets, FiniteSets, Functions

CONSTANTS
    Users,      \* tasks that request windows
    Process,    \* the process of each user
    Time,       \* the datetime of each bar, by id
    Dur,        \* the duration of a bar (of ticks: 100 ns)
    PageWidth,  \* PAGE_VIEW_WIDTH
    None,       \* no value
    Loads       \* the loads explored (a bound): per user its windows, whether they
                \*   use the cache, download directly or page for a replay, whether
                \*   files are evicted, how many bars arrive and processes crash

ASSUME HistoryAssumption ==
    /\ PageWidth \in Nat \ {0, 1} /\ Dur \in Nat \ {0}
    /\ \A i \in 1 .. Len(Time) - 1 : Time[i] + Dur <= Time[i + 1]

VARIABLES
    load,
    live,       \* the newest bar of the server, still growing
    files,      \* the data files, oldest modification first: name and rows
    holder,     \* who holds the lock of the series
    user,       \* per user the request it is in
    crashes,
    gone,       \* history: bars whose file was evicted or lost in a crash
    frozen      \* history: unfinished bars no later request downloads again

vars == <<load, live, files, holder, user, crashes, gone, frozen>>

Ids == DOMAIN Time
Row(i) == [id |-> i, whole |-> i < live]
IdsOf(rows) == {rows[k].id : k \in DOMAIN rows}

Idle == [pc |-> "idle", window |-> None, names |-> <<>>, missing |-> None, next |-> None,
         rows |-> <<>>, groups |-> <<>>, base |-> 0, gaveUp |-> None, lost |-> {}, stale |-> {}]

Init ==
    /\ load \in Loads
    /\ live = load.live
    /\ files = <<>>
    /\ holder = None
    /\ user = [u \in Users |-> [left |-> load.windows[u]] @@ Idle]
    /\ crashes = 0
    /\ gone = {}
    /\ frozen = {}

-----------------------------------------------------------------------------
(* The files                                                                  *)

Holds(name) == \E k \in DOMAIN files : files[k].name = name
RowsOf(name) == LET k == CHOOSE k \in DOMAIN files : files[k].name = name IN files[k].rows

(* get_rangeset_id                                                            *)
RangesetId ==
    SortSeq([k \in DOMAIN files |-> files[k].name],
            LAMBDA r, s : r.start < s.start \/ (r.start = s.start /\ r.end < s.end))

(* range_from_ids                                                             *)
RangeFromIds(rows) == RangeOf(Min(IdsOf(rows)), Max(IdsOf(rows)) + 1)

(* A written file is renamed to its name and replaces a file of that name.    *)
Without(names) == SelectSeq(files, LAMBDA f : f.name \notin names)
Replaced(name, rows) == Append(Without({name}), [name |-> name, rows |-> rows])

(* get_rangeset_dt: from the first and the last row of every file             *)
DtRange(rows) == RangeOf(Time[rows[1].id], Time[Last(rows).id] + Dur)
RangesetDt(names) == [k \in DOMAIN names |-> DtRange(RowsOf(names[k]))]

(* Opening a file that was evicted since it was listed fails.                 *)
AllOpen(names) == \A k \in DOMAIN names : Holds(names[k])

(* Mutant: the last bar, which may still have been growing, counts as cached. *)
Untrimmed(ranges) == ranges

(* trim_last_datetime_range                                                   *)
Trimmed(ranges) ==
    IF ranges = <<>> THEN ranges
    ELSE LET end == Max({Last(ranges).end - Dur, Last(ranges).start})
             last == [Last(ranges) EXCEPT !.end = end]
         IN  IF IsEmptyRange(last) THEN Front(ranges) ELSE Append(Front(ranges), last)

(* next_missing_kline_ranges                                                  *)
NextMissing(names, window) == RangesetDifference(<<window>>, Trimmed(RangesetDt(names)))

(* last_index_where: the binary search over the rows of a file                *)
LastIndexWhere(rows, Test(_)) ==
    LET hits == {k \in DOMAIN rows : Test(Time[rows[k].id])} IN
    IF hits = {} THEN 0 ELSE Max(hits)

(* read_window, and dedup_klines: the row of the later file counts            *)
ReadFile(name, window) ==
    LET rows == RowsOf(name)
        target == RangesetIntersection(<<window>>, <<DtRange(rows)>>)
    IN  IF target = <<>> THEN <<>>
        ELSE LET first == LastIndexWhere(rows, LAMBDA dt : dt <= target[1].start)
                 last == LastIndexWhere(rows, LAMBDA dt : dt < target[1].end)
             IN  IF first = 0 \/ last = 0 THEN <<>> ELSE SubSeq(rows, first, last)

Dedup(rows) ==
    LET last(i) == Max({k \in DOMAIN rows : rows[k].id = i}) IN
    [k \in 1 .. Cardinality(IdsOf(rows)) |-> rows[last(SetToSortSeq(IdsOf(rows), <)[k])]]

ReadWindow(names, window) ==
    Dedup(FlattenSeq([k \in DOMAIN names |-> ReadFile(names[k], window)]))

(* Mutant: files between which one bar is missing are joined.                 *)
FollowsLoosely(r, previous) == r.start \in {previous.end, previous.end + 1}

Follows(r, previous) == r.start = previous.end

(* build_merge_groups: files that follow each other, or overlap in one bar,   *)
(* with the rows to copy of each; a group of one file is left alone.          *)
Grouped(names) ==
    LET Part(r) == [name |-> r, copy |-> r.end - r.start]
        Shorter(p) == [p EXCEPT !.copy = Max({@ - 1, 0})]
        Grouping(groups, r) ==
            LET group == Last(groups)
                previous == Last(group)
                Joined(g) == Append(Front(groups), Append(g, Part(r)))
            IN  CASE Follows(r, previous.name) -> Joined(group)
                  [] r.start = previous.name.end - 1 -> Joined(Append(Front(group), Shorter(previous)))
                  [] OTHER -> Append(groups, <<Part(r)>>)
    IN  IF Len(names) <= 1 THEN <<>>
        ELSE SelectSeq(FoldLeft(Grouping, <<<<Part(names[1])>>>>, Tail(names)),
                       LAMBDA g : Len(g) > 1)

(* copy_rows                                                                  *)
CopyRows(part) ==
    LET rows == RowsOf(part.name) IN SubSeq(rows, 1, Min({part.copy, Len(rows)}))

NamesOf(group) == [k \in DOMAIN group |-> group[k].name]

-----------------------------------------------------------------------------
(* The server: a page has up to PageWidth bars, from the bar at or before the *)
(* focus or from an id.                                                       *)

PageFrom(id) == [k \in 1 .. Min({PageWidth, live - id + 1}) |-> Row(id + k - 1)]
PageById(id) == IF id > live THEN <<>> ELSE PageFrom(id)
PageByFocus(focus) == PageFrom(Max({1} \cup {i \in 1 .. live : Time[i] <= focus}))

(* extend_klines_in_window: the rows of the page before the end of the range, *)
(* and the id after them                                                      *)
BeforeEnd(page, range) == SelectSeq(page, LAMBDA r : Time[r.id] < range.end)
InRanges(rows, ranges) ==
    SelectSeq(rows, LAMBDA r : \E k \in DOMAIN ranges :
                        ranges[k].start <= Time[r.id] /\ Time[r.id] < ranges[k].end)
ExtendRows(rows, page, range) == rows \o InRanges(page, <<range>>)
NextId(page, range) ==
    LET seen == BeforeEnd(page, range) IN IF seen = <<>> THEN None ELSE Last(seen).id + 1

-----------------------------------------------------------------------------
(* The requests.  Every part under the lock lists the files and then opens    *)
(* them; an eviction by another process may come in between.                  *)

Update(u, record) == user' = [user EXCEPT ![u] = record @@ user[u]]
Done(u) == [left |-> user[u].left] @@ Idle
Fail(u) == user' = [user EXCEPT ![u] = Done(u)]

(* kline_data_series, tick_data_series                                        *)
StartRequest(u) ==
    /\ user[u].pc = "idle" /\ user[u].left # <<>>
    /\ LET window == Head(user[u].left) IN
       Update(u, [pc |-> IF load.kind = "cached" THEN "look" ELSE "page", window |-> window,
               missing |-> window, base |-> live, left |-> Tail(user[u].left)])
    /\ UNCHANGED <<load, live, files, holder, crashes, gone, frozen>>

(* lock_series, and get_rangeset_id                                           *)
Lock(u) ==
    /\ user[u].pc \in {"look", "store", "merge"} /\ holder = None
    /\ holder' = u
    /\ Update(u, [names |-> RangesetId,
               pc |-> CASE user[u].pc = "look" -> "looking"
                        [] user[u].pc = "store" -> "storing"
                        [] user[u].pc = "merge" -> "grouping"])
    /\ UNCHANGED <<load, live, files, crashes, gone, frozen>>

(* A file that was listed cannot be opened any more: the request fails.       *)
OpenFails(u) ==
    /\ \/ user[u].pc \in {"looking", "storing", "reading"} /\ ~AllOpen(user[u].names)
       \/ user[u].pc = "copying" /\ ~AllOpen(NamesOf(Head(user[u].groups)))
    /\ Fail(u)
    /\ holder' = None
    /\ UNCHANGED <<load, live, files, crashes, gone, frozen>>

Look(u) ==
    LET missing == SelectSeq(NextMissing(user[u].names, user[u].window),
                             LAMBDA r : ~IsEmptyRange(r))
    IN
    /\ user[u].pc = "looking" /\ AllOpen(user[u].names)
    /\ holder' = None
    /\ IF missing = <<>> THEN Update(u, [pc |-> "merge", names |-> <<>>, missing |-> None])
       ELSE Update(u, [pc |-> "page", names |-> <<>>, missing |-> missing[1], next |-> None])
    /\ UNCHANGED <<load, live, files, crashes, gone, frozen>>

(* A download is over: without the cache it is the result; with it, a range   *)
(* for which the server has nothing ends the search for missing ranges.       *)
Downloaded(u, rows) ==
    IF load.kind # "cached" THEN Update(u, [pc |-> "result", rows |-> Dedup(rows)])
    ELSE IF rows = <<>> THEN Update(u, [pc |-> "merge", rows |-> <<>>, gaveUp |-> user[u].missing,
                                     next |-> None])
    ELSE Update(u, [pc |-> "store", rows |-> Dedup(rows), next |-> None])

(* download_kline_range: one page                                             *)
FetchPage(u) ==
    LET me == user[u]
        page == IF me.next = None THEN PageByFocus(me.missing.start) ELSE PageById(me.next)
        next == NextId(page, me.missing)
        rows == IF next = None THEN me.rows ELSE ExtendRows(me.rows, page, me.missing)
    IN
    /\ me.pc = "page" /\ load.kind # "replay"
    /\ IF next = None \/ next = me.next \/ Len(page) < PageWidth
         THEN Downloaded(u, rows)
         ELSE Update(u, [next |-> next, rows |-> rows])
    /\ UNCHANGED <<load, live, files, holder, crashes, gone, frozen>>

(* replay_kline_data_series: the next page starts with the last bar of this    *)
(* one, until the window's end or the newest bar the client knows is reached. *)
FetchReplayPage(u) ==
    LET me == user[u]
        page == IF me.next = None THEN PageByFocus(me.window.start) ELSE PageById(me.next)
        rows == me.rows \o InRanges(page, <<me.window>>)
        rightId == Last(page).id
    IN
    /\ me.pc = "page" /\ load.kind = "replay"
    /\ IF Time[rightId] >= me.window.end \/ rightId >= live \/ rightId = me.next
         THEN Downloaded(u, rows)
         ELSE Update(u, [next |-> rightId, rows |-> rows])
    /\ UNCHANGED <<load, live, files, holder, crashes, gone, frozen>>

(* fetch_history_snapshot_with_subscription: no answer in time, or no          *)
(* connection                                                                 *)
PageFails(u) ==
    /\ user[u].pc = "page"
    /\ Fail(u)
    /\ UNCHANGED <<load, live, files, holder, crashes, gone, frozen>>

(* Unfinished bars that the cache will take for finished ones from now on: a  *)
(* newer bar is stored, and they come with an older request or lie before the *)
(* window of this one; or a file that is read later has them unfinished.      *)
Unfinished(f) == {r.id : r \in {x \in Range(f.rows) : ~x.whole}}
Freezes(u, fs, stored) ==
    UNION {{i \in Unfinished(f) :
              \E g \in Range(fs) :
                \/ g.name.end > i + 1 /\ (i \in stored \/ Time[i] < user[u].window.start)
                \/ g.name.start < f.name.start /\ i < g.name.end} : f \in Range(fs)}

(* What is still missing under the lock is stored, the rest dropped.          *)
Store(u) ==
    LET me == user[u]
        ranges == RangesetIntersection(<<me.missing>>, NextMissing(me.names, me.window))
        rows == InRanges(me.rows, ranges)
    IN
    /\ me.pc = "storing" /\ AllOpen(me.names)
    /\ files' = IF rows = <<>> THEN files ELSE Replaced(RangeFromIds(rows), rows)
    /\ gone' = gone \ IdsOf(rows)
    /\ frozen' = (frozen \ {r.id : r \in {x \in Range(rows) : x.whole}})
                   \cup Freezes(u, files', IdsOf(rows))
    /\ holder' = None
    /\ Update(u, [pc |-> "look", rows |-> <<>>, names |-> <<>>, missing |-> None])
    /\ UNCHANGED <<load, live, crashes>>

(* merge_adjacent_files                                                       *)
Group(u) ==
    LET groups == Grouped(user[u].names) IN
    /\ user[u].pc = "grouping"
    /\ Update(u, [pc |-> IF groups = <<>> THEN "listing" ELSE "copying", groups |-> groups])
    /\ UNCHANGED <<load, live, files, holder, crashes, gone, frozen>>

CopyGroup(u) ==
    LET group == Head(user[u].groups) IN
    /\ user[u].pc = "copying" /\ AllOpen(NamesOf(group))
    /\ Update(u, [pc |-> "removing", names |-> NamesOf(group),
               rows |-> FlattenSeq([k \in DOMAIN group |-> CopyRows(group[k])])])
    /\ UNCHANGED <<load, live, files, holder, crashes, gone, frozen>>

(* The merged files are removed one by one.                                   *)
RemoveMerged(u) ==
    /\ user[u].pc = "removing" /\ user[u].names # <<>>
    /\ files' = Without({Head(user[u].names)})
    /\ Update(u, [names |-> Tail(user[u].names)])
    /\ UNCHANGED <<load, live, holder, crashes, gone, frozen>>

RenameMerged(u) ==
    LET group == Head(user[u].groups)
        name == RangeOf(group[1].name.start, Last(group).name.end)
    IN
    /\ user[u].pc = "removing" /\ user[u].names = <<>>
    /\ files' = Replaced(name, user[u].rows)
    /\ gone' = gone \ IdsOf(user[u].rows)
    /\ Update(u, [groups |-> Tail(user[u].groups), rows |-> <<>>,
               pc |-> IF Len(user[u].groups) = 1 THEN "listing" ELSE "copying"])
    /\ UNCHANGED <<load, live, holder, crashes, frozen>>

(* read_kline_window                                                          *)
ListForRead(u) ==
    /\ user[u].pc = "listing"
    /\ Update(u, [pc |-> "reading", names |-> RangesetId])
    /\ UNCHANGED <<load, live, files, holder, crashes, gone, frozen>>

Read(u) ==
    /\ user[u].pc = "reading" /\ AllOpen(user[u].names)
    /\ holder' = None
    /\ Update(u, [pc |-> "result", rows |-> ReadWindow(user[u].names, user[u].window),
                  names |-> <<>>, lost |-> gone, stale |-> frozen])
    /\ UNCHANGED <<load, live, files, crashes, gone, frozen>>

(* enforce_limits: old files go, expired ones or until the rest fits, under    *)
(* the lock of the process only.                                              *)
Oldest == {SubSeq(files, 1, n) : n \in 0 .. IF load.evicts THEN Len(files) ELSE 0}

EnforceLimits(u) ==
    /\ user[u].pc = "result" /\ load.kind = "cached"
    /\ \A v \in Users : holder = v => Process[v] # Process[u]
    /\ \E old \in Oldest :
          /\ files' = SubSeq(files, Len(old) + 1, Len(files))
          /\ gone' = gone \cup UNION {IdsOf(f.rows) : f \in Range(old)}
    /\ user' = [user EXCEPT ![u] = Done(u)]
    /\ UNCHANGED <<load, live, holder, crashes, frozen>>

ReturnRows(u) ==
    /\ user[u].pc = "result" /\ load.kind # "cached"
    /\ user' = [user EXCEPT ![u] = Done(u)]
    /\ UNCHANGED <<load, live, files, holder, crashes, gone, frozen>>

(* The market goes on.                                                        *)
NewBar ==
    /\ live < load.live + load.bars
    /\ live' = live + 1
    /\ UNCHANGED <<load, files, holder, user, crashes, gone, frozen>>

(* A process dies: its locks are released, its temporary file is an orphan.   *)
Crash(p) ==
    LET dead == {u \in Users : Process[u] = p} IN
    /\ crashes < load.crashes
    /\ crashes' = crashes + 1
    /\ holder' = IF holder \in dead THEN None ELSE holder
    /\ user' = [u \in Users |-> IF u \in dead THEN Done(u) ELSE user[u]]
    /\ gone' = gone \cup UNION {IdsOf(user[u].rows) : u \in {d \in dead : user[d].pc = "removing"}}
    /\ UNCHANGED <<load, live, files, frozen>>

-----------------------------------------------------------------------------
RequestStep(u) ==
    \/ StartRequest(u) \/ Lock(u) \/ OpenFails(u) \/ Look(u) \/ FetchPage(u) \/ FetchReplayPage(u)
    \/ Store(u)
    \/ Group(u) \/ CopyGroup(u) \/ RemoveMerged(u) \/ RenameMerged(u)
    \/ ListForRead(u) \/ Read(u) \/ EnforceLimits(u) \/ ReturnRows(u)

Next ==
    \/ \E u \in Users : RequestStep(u) \/ PageFails(u)
    \/ NewBar
    \/ \E p \in Range(Process) : Crash(p)

Spec == Init /\ [][Next]_vars

(* A task that can go on does, and the server answers.                        *)
LiveSpec == Spec /\ \A u \in Users : WF_vars(RequestStep(u))

-----------------------------------------------------------------------------
(* The bars in files, and those of the group that is being merged.            *)
Cached == UNION {IdsOf(files[k].rows) : k \in DOMAIN files}
Merging == UNION {IdsOf(user[u].rows) : u \in {x \in Users : user[x].pc = "removing"}}

(* A range of time that the files say they cover is covered: every bar of the *)
(* server in it is in a file, whatever was merged, crashed or stored side by  *)
(* side, unless its file was evicted or lost in a crash                       *)
(* (cache/data_series.rs: get_rangeset_dt trusts the first and last row).     *)
CacheIsHonest ==
    \A k \in DOMAIN files : \A i \in 1 .. live :
        LET dt == DtRange(files[k].rows) IN
        (dt.start <= Time[i] /\ Time[i] < dt.end) => i \in Cached \cup Merging \cup gone

(* A result holds every bar of the window that existed when it was requested, *)
(* and in its final form if it was finished then.  Exceptions: what lies      *)
(* after a range the server had nothing for, what was evicted, and bars that  *)
(* were unfinished when a newer one was stored (series/api.rs).  Of the bars  *)
(* outside the window at most the last one before it is returned.             *)
WindowIsWhole ==
    \A u \in Users : user[u].pc = "result" =>
        LET me == user[u]
            wanted == {i \in 1 .. me.base :
                          me.window.start <= Time[i] /\ Time[i] < me.window.end}
            reached(i) == me.gaveUp = None \/ Time[i] < me.gaveUp.end
        IN
        /\ \A i \in wanted : reached(i) =>
              \/ i \in me.lost
              \/ \E r \in Range(me.rows) : r.id = i /\ (r.whole \/ i >= me.base \/ i \in me.stale)
        /\ \A i \in IdsOf(me.rows) : Time[i] < me.window.end
        /\ Cardinality({i \in IdsOf(me.rows) : Time[i] < me.window.start}) <= 1

(* A request ends.  TLC refutes it (README, Findings).                        *)
RequestEnds == \A u \in Users : user[u].pc # "idle" ~> user[u].pc = "idle"
=============================================================================
