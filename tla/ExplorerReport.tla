----------------------------- MODULE ExplorerReport -----------------------------
(* The readers of the explorer's database, while an indexer writes to it: the  *)
(* revenue report of the command line, nine queries per window that each see   *)
(* the store of their moment (store/query.rs, commands/explorer/report.rs),    *)
(* and the dashboard, which reduces one read transaction to panels             *)
(* (explorer/dashboard).                                                       *)
(*                                                                             *)
(* What a block holds is given by its height and version. An amount that may   *)
(* be NULL is a sequence of at most one number. Sorting matters only where a   *)
(* list is cut, and rows are sets otherwise.                                   *)
EXTENDS ExplorerStore, Integers, Sequences, FiniteSets, FiniteSetsExt, SequencesExt, TLC

CONSTANTS
    OpsOf,          \* <<height, version>> -> the mev_ops rows of the block
    ReasonOf,       \* <<height, version>> -> reject_reason of its rejects row
    Ts,             \* height -> ts of the block
    Now,            \* the time at which readers start
    Windows,        \* seconds the report looks back, 0 for all
    DashWindows,    \* the same for the dashboard
    Filters,        \* --kind and --confidence, [kind, confidence]
    Kinds,          \* MevKind::ALL
    Catalogue,      \* known tags
    BlockTime,      \* block_time_secs
    Top,            \* --top
    MaxOps, MaxEvidence,    \* how many events and drill-downs a page carries
    Budget,         \* bytes of the page, in events
    EvidenceSize,   \* size of a drill-down, in events
    MinEvents,      \* below which events are not trimmed (50)
    GapLimit,       \* gap_block_limit
    MaxGapRanges,   \* ranges listed (50)
    MaxWrites       \* bound: transactions of the indexer

ASSUME ReportAssumption ==
    /\ {Now, BlockTime, Top, MaxOps, MaxEvidence, Budget, MinEvents, GapLimit, MaxGapRanges,
        MaxWrites, EvidenceSize} \subseteq Nat
    /\ Heights \subseteq Nat /\ Ts \in [Heights -> Nat]
    /\ BlockTime > 0 /\ Windows \subseteq Nat /\ DashWindows \subseteq Nat

VARIABLES
    writes,
    report,     \* the report under way
    dash,       \* the dashboard under way
    unwound     \* history: the store was unwound since the report began

vars == <<storeVars, writes, report, dash, unwound>>

Every == "any"
None == 0
Val(x) == IF x = <<>> THEN 0 ELSE x[1]
Sum(S, F(_)) == MapThenSumSet(F, S)
Lesser(a, b) == IF a < b THEN a ELSE b

Present(s) == {h \in Heights : s[h] # Missing}
Rows(s) == UNION {OpsOf[<<h, s[h]>>] : h \in Present(s)}

-------------------------------------------------------------------------------
(* What both make of a set of rows.                                            *)

NetOf(o) == IF o.excluded THEN 0 ELSE Val(o.net)
Competitor(o) == IF o.contract = None THEN o.eoa ELSE o.contract
Priced(S) == {o \in S : o.gross # <<>>}

Cells(S, label) ==
    {[label |-> l, ops |-> Cardinality(T), gross |-> Sum(T, LAMBDA o : Val(o.gross)),
      net |-> Sum(T, LAMBDA o : NetOf(o))]
        : <<l, T>> \in {<<k, {o \in S : label[o] = k}>> : k \in {label[o] : o \in S}}}

Costs(S) ==
    [volume |-> Sum(S, LAMBDA o : Val(o.volume)), gas |-> Sum(S, LAMBDA o : Val(o.gas)),
     fee |-> Sum(S, LAMBDA o : Val(o.fee))]

Quality(S) ==
    [priced |-> Cardinality(Priced(S)), unpriced |-> Cardinality(S \ Priced(S)),
     exact |-> Cardinality({o \in S : o.confidence = "exact"}),
     netExact |-> Sum({o \in S : o.confidence = "exact"}, LAMBDA o : NetOf(o)),
     flags |-> Sum(S, LAMBDA o : Cardinality(o.flags)),
     excluded |-> Cardinality({o \in S : o.excluded})]

Totals(S, highest) ==
    Costs(S) @@ Quality(S) @@
    [ops |-> Cardinality(S), gross |-> Sum(S, LAMBDA o : Val(o.gross)),
     net |-> Sum(S, LAMBDA o : NetOf(o)), highest |-> highest,
     searchers |-> Cardinality({o.eoa : o \in S}),
     competitors |-> Cardinality({Competitor(o) : o \in S})]

PoolsIn(o) == {o.route[k].pool : k \in DOMAIN o.route} \ {None}
Day(ts) == ts \div 86400

-------------------------------------------------------------------------------
(* The queries of the report.                                                  *)

Selected(s, since, filter) ==
    {o \in Rows(s) : /\ o.ts >= since
                     /\ filter.kind \in {Every, o.kind}
                     /\ filter.confidence \in {Every, o.confidence}}

Overview(S) == Totals(S, IF Priced(S) = {} THEN 0 ELSE Max({o.gross[1] : o \in Priced(S)}))

Grouped(S, label) ==
    {c @@ Costs({o \in S : label[o] = c.label}) : c \in Cells(S, label)}

(* A leaderboard: the first Top labels by what they grossed. A pool is joined  *)
(* once for each leg that it has in a route, and sums the row that often.      *)
Leaders(cells) ==
    LET ahead(c) == {d \in cells : d.gross > c.gross \/ (d.gross = c.gross /\ d.label < c.label)}
    IN  {c \in cells : Cardinality(ahead(c)) < Top}

LegsAt(o, p) == {k \in DOMAIN o.route : o.route[k].pool = p}
PoolCells(S) ==
    {[label |-> p, ops |-> Cardinality({o \in S : p \in PoolsIn(o)}),
      gross |-> Sum(S, LAMBDA o : Cardinality(LegsAt(o, p)) * Val(o.gross)),
      net |-> Sum(S, LAMBDA o : Cardinality(LegsAt(o, p)) * NetOf(o))]
        : p \in UNION {PoolsIn(o) : o \in S}}

TopOps(S) ==
    LET kept == {o \in S : ~o.excluded}
        ahead(o) == {p \in kept : Val(p.net) > Val(o.net) \/ (Val(p.net) = Val(o.net) /\ p.id > o.id)}
    IN  {o \in kept : Cardinality(ahead(o)) < Top}

BlocksIn(s, since) == {h \in Present(s) : Ts[h] >= since}

(* A reject row is of the time of its block, or of when it was written when    *)
(* there is no such block.                                                     *)
RejectCounts(s, rej, since, until) ==
    LET at(r) == IF s[r[1]] # Missing THEN Ts[r[1]] ELSE Now
        in    == {r \in rej : since <= at(r) /\ at(r) <= until}
    IN  [reason \in {ReasonOf[r] : r \in in} |-> Cardinality({r \in in : ReasonOf[r] = reason})]

Forever == Now + 1000000

\* Mutant: the blocks are counted first.
SectionsBlocksFirst ==
    <<"blocks", "overview", "kinds", "daily", "competitors", "senders", "pools", "top", "rejects">>

Sections ==
    <<"overview", "kinds", "daily", "competitors", "senders", "pools", "top", "blocks", "rejects">>

Answer(section, since, filter) ==
    LET S == Selected(stored, since, filter) IN
    CASE section = "overview"    -> Overview(S)
      [] section = "kinds"       -> Grouped(S, [o \in S |-> o.kind])
      [] section = "daily"       -> Grouped(S, [o \in S |-> Day(o.ts)])
      [] section = "competitors" -> Leaders(Cells(S, [o \in S |-> Competitor(o)]))
      [] section = "senders"     -> Leaders(Cells(S, [o \in S |-> o.eoa]))
      [] section = "pools"       -> Leaders(PoolCells(S))
      [] section = "top"         -> TopOps(S)
      [] section = "blocks"      -> Cardinality(BlocksIn(stored, since))
      [] section = "rejects"     -> RejectCounts(stored, rejects, since, Forever)

Since(secs) == IF secs = 0 \/ secs > Now THEN 0 ELSE Now - secs

(* Percent of the blocks that the window should hold.                          *)
Coverage(secs, blocks) ==
    LET expected == secs \div BlockTime
    IN  IF expected = 0 THEN 100 ELSE Lesser(100, (100 * blocks) \div expected)

Off == [at |-> 0]

BeginReport ==
    /\ report = Off /\ dash = Off
    /\ \E w \in Windows, f \in Filters :
          report' = [at |-> 1, secs |-> w, filter |-> f, out |-> <<>>, coverage |-> -1]
    /\ unwound' = FALSE
    /\ UNCHANGED <<storeVars, writes, dash>>

Query ==
    /\ report # Off /\ report.at \in DOMAIN Sections
    /\ LET section == Sections[report.at]
           answer  == Answer(section, Since(report.secs), report.filter)
       IN  report' = [report EXCEPT !.at = @ + 1, !.out = (section :> answer) @@ @,
                                    !.coverage = IF section = "blocks" /\ report.secs # 0
                                                 THEN Coverage(report.secs, answer) ELSE @]
    /\ UNCHANGED <<storeVars, writes, dash, unwound>>

PrintReport ==
    /\ report # Off /\ report.at = Len(Sections) + 1
    /\ report' = Off
    /\ UNCHANGED <<storeVars, writes, dash, unwound>>

-------------------------------------------------------------------------------
(* The reduction of a page.                                                    *)

InTurn(S) ==
    SetToSortSeq(S, LAMBDA a, b : \/ a.block < b.block
                                  \/ a.block = b.block /\ a.tx < b.tx
                                  \/ a.block = b.block /\ a.tx = b.tx /\ a.id < b.id)

(* A window that starts at the epoch is narrowed to what there is.             *)
Clamped(window, S, blocks) ==
    LET times == {o.ts : o \in S} \cup {Ts[h] : h \in blocks}
    IN  IF window.since # 0 \/ times = {} THEN window
        ELSE [since |-> Min(times), until |-> Max(times)]

BucketSecs(window) ==
    LET span == IF window.until = window.since THEN 1 ELSE window.until - window.since
        secs == CASE span <= 3600 -> 60
                  [] span > 3600 /\ span <= 6 * 3600 -> 300
                  [] span > 6 * 3600 /\ span <= 86400 -> 900
                  [] span > 86400 /\ span <= 7 * 86400 -> 3600
                  [] OTHER -> 86400
    IN  IF span \div secs + 1 > 720 /\ span \div 720 > secs THEN span \div 720 ELSE secs

Floor(ts, secs) == (ts \div secs) * secs

Starts(window, secs) ==
    LET start == Floor(window.since, secs)
    IN  {start + k * secs : k \in 0..Lesser(1999, (window.until - start) \div secs)}

Series(S, blocks, window, secs) ==
    {[bucket |-> t, ops |-> Cardinality(T), net |-> Sum(T, LAMBDA o : NetOf(o)),
      blocks |-> Cardinality({h \in blocks : Floor(Ts[h], secs) = t})]
        : <<t, T>> \in {<<u, {o \in S : Floor(o.ts, secs) = u}>> :
              u \in Starts(window, secs) \cap ({Floor(o.ts, secs) : o \in S}
                                                \cup {Floor(Ts[h], secs) : h \in blocks})}}

(* The kinds that did not occur are listed with nothing.                       *)
KindMatrix(S) ==
    LET cells == Cells(S, [o \in S |-> <<o.kind, o.sub, o.confidence>>])
    IN  cells \cup {[label |-> l, ops |-> 0, gross |-> 0, net |-> 0] :
                      l \in {<<k, None, c>> : k \in Kinds, c \in {"exact", "inferred"}}
                            \ {c.label : c \in cells}}

(* An actor goes by the sender of its first row.                               *)
Actors(seq) ==
    {c @@ [eoa |-> seq[Min({k \in DOMAIN seq : Competitor(seq[k]) = c.label})].eoa]
        : c \in Cells(ToSet(seq), [o \in ToSet(seq) |-> Competitor(o)])}

(* A pool counts a row once, but the AMMs of every leg of it.                  *)
AmmMix(S, p) ==
    LET legs == UNION {{<<o.id, k, o.route[k].amm>> : k \in DOMAIN o.route} :
                          o \in {r \in S : p \in PoolsIn(r)}}
    IN  [amm \in {l[3] : l \in legs} |-> Cardinality({l \in legs : l[3] = amm})]

Pools(S) ==
    {LET T == {o \in S : p \in PoolsIn(o)}
     IN  [pool |-> p, ops |-> Cardinality(T), gross |-> Sum(T, LAMBDA o : Val(o.gross)),
          net |-> Sum(T, LAMBDA o : NetOf(o)), priced |-> Cardinality(Priced(T)),
          competitors |-> Cardinality({Competitor(o) : o \in T}), mix |-> AmmMix(S, p)]
        : p \in UNION {PoolsIn(o) : o \in S}}

Tokens(S) == LET T == {o \in S : o.token # None} IN Cells(T, [o \in T |-> o.token])

Facets(S) ==
    {LET T == {o \in S : tag \in o.tags}
     IN  [value |-> tag, ops |-> Cardinality(T), net |-> Sum(T, LAMBDA o : NetOf(o)),
          unknown |-> Catalogue # {} /\ tag \notin Catalogue]
        : tag \in UNION {o.tags : o \in S}}

(* Over budget the drill-downs go first, then half of the events, and again.   *)
Halved[n \in Nat] == IF n > MinEvents /\ n > Budget THEN Halved[n \div 2] ELSE n
Emitted(seq) ==
    LET n == Lesser(Len(seq), MaxOps)
        e == Lesser(n, MaxEvidence)
    IN  IF n + EvidenceSize * e <= Budget
        THEN [events |-> SubSeq(seq, 1, n), evidence |-> e,
              hit |-> Len(seq) > MaxOps \/ Len(seq) > MaxEvidence]
        ELSE [events |-> SubSeq(seq, 1, Halved[n]), evidence |-> 0, hit |-> TRUE]

Panels(S, blocks, window) ==
    [kpi |-> Totals(S, Max({0} \cup {o.gross[1] : o \in Priced(S)})),
     series |-> Series(S, blocks, window, BucketSecs(window)),
     matrix |-> KindMatrix(S), actors |-> Actors(InTurn(S)), pools |-> Pools(S),
     tokens |-> Tokens(S), facets |-> Facets(S), emitted |-> Emitted(InTurn(S))]

(* What the page says as CSV: the kinds from the matrix with costs from the    *)
(* events, the days from the events, senders from the actors.                  *)
CsvKinds(p) ==
    {[label |-> k,
      ops |-> Sum({c \in p.matrix : c.label[1] = k}, LAMBDA c : c.ops),
      net |-> Sum({c \in p.matrix : c.label[1] = k}, LAMBDA c : c.net),
      volume |-> Costs({o \in ToSet(p.emitted.events) : o.kind = k}).volume]
        : k \in {c.label[1] : c \in {d \in p.matrix : d.ops > 0}}}
CsvDays(p) == LET T == ToSet(p.emitted.events) IN Cells(T, [o \in T |-> Day(o.ts)])
CsvSenders(p) ==
    {[label |-> e, ops |-> Sum({a \in p.actors : a.eoa = e}, LAMBDA a : a.ops),
      net |-> Sum({a \in p.actors : a.eoa = e}, LAMBDA a : a.net)] : e \in {a.eoa : a \in p.actors}}

-------------------------------------------------------------------------------
(* The gaps below the checkpoint.                                              *)

Unclassified(s, from, to) == {h \in from..to : h \notin Heights \/ s[h] = Missing}

Runs(gaps) ==
    {r \in gaps \X gaps : /\ r[1] <= r[2] /\ r[1]..r[2] \subseteq gaps
                          /\ r[1] - 1 \notin gaps /\ r[2] + 1 \notin gaps}
Gaps(s, to) ==
    LET from == IF to < GapLimit THEN 0 ELSE to - GapLimit
        gaps == Unclassified(s, from, to)
    IN  [from |-> from, to |-> to, count |-> Cardinality(gaps),
         ranges |-> {r \in Runs(gaps) : Cardinality({q \in Runs(gaps) : q[1] < r[1]}) < MaxGapRanges}]

-------------------------------------------------------------------------------
(* The dashboard: the first read fixes what the transaction sees.              *)

Stores == [stored |-> stored, rejects |-> rejects, indexedTo |-> indexedTo]

\* Mutant: the reads are not in one transaction.
VisibleNow(d) == Stores

Visible(d) == d.seen

BeginPage ==
    /\ report = Off /\ dash = Off
    /\ \E w \in DashWindows :
          dash' = [at |-> 1, seen |-> Stores, out |-> <<>>,
                   window |-> IF w = 0 THEN [since |-> 0, until |-> Now + 3600]
                              ELSE [since |-> Since(w), until |-> Now + 60]]
    /\ UNCHANGED <<storeVars, writes, report, unwound>>

(* A store that stays locked over the one retry leaves the last page alone.    *)
PageFails ==
    /\ dash # Off /\ dash.at = 1
    /\ dash' = Off
    /\ UNCHANGED <<storeVars, writes, report, unwound>>

OpsIn(s, window) == {o \in Rows(s) : window.since <= o.ts /\ o.ts <= window.until}
BlocksOf(s, window) == {h \in Present(s) : window.since <= Ts[h] /\ Ts[h] <= window.until}

Loads == <<"ops", "blocks", "panels", "rejects", "gaps">>
LoadedBy(d, load) ==
    LET s == Visible(d) IN
    CASE load = "ops"     -> OpsIn(s.stored, d.window)
      [] load = "blocks"  -> BlocksOf(s.stored, d.window)
      [] load = "panels"  -> Panels(d.out["ops"], d.out["blocks"],
                                    Clamped(d.window, d.out["ops"], d.out["blocks"]))
      [] load = "rejects" -> RejectCounts(s.stored, s.rejects, d.window.since, d.window.until)
      [] load = "gaps"    -> Gaps(s.stored, s.indexedTo)

Load ==
    /\ dash # Off /\ dash.at \in DOMAIN Loads
    /\ dash' = [dash EXCEPT !.at = @ + 1,
                            !.out = (Loads[dash.at] :> LoadedBy(dash, Loads[dash.at])) @@ @]
    /\ UNCHANGED <<storeVars, writes, report, unwound>>

WritePage ==
    /\ dash # Off /\ dash.at = Len(Loads) + 1
    /\ dash' = Off
    /\ UNCHANGED <<storeVars, writes, report, unwound>>

-------------------------------------------------------------------------------
Init ==
    /\ StoreInit /\ rejects = {}
    /\ writes = 0 /\ report = Off /\ dash = Off /\ unwound = FALSE

Write ==
    /\ writes < MaxWrites /\ writes' = writes + 1
    /\ StoreNext
    /\ unwound' = (unwound \/ \E h \in Heights : stored[h] # Missing /\ stored'[h] = Missing)
    /\ UNCHANGED <<report, dash>>

Next ==
    \/ Write
    \/ BeginReport \/ Query \/ PrintReport
    \/ BeginPage \/ PageFails \/ Load \/ WritePage

Spec == Init /\ [][Next]_vars

-------------------------------------------------------------------------------
(* A report that is read while blocks come in never says of the coverage less  *)
(* than of what it covers: a later section has all that an earlier one counted, *)
(* and the blocks are counted last, so that each row shown is of a block that  *)
(* is. Only an unwind in between breaks it (cmd_explorer_report).              *)
OpsIn1(cells) == Sum(cells, LAMBDA c : c.ops)
Shown(section) == section \in DOMAIN report.out

SectionsNest ==
    report # Off /\ ~unwound =>
        /\ Shown("kinds") => report.out["overview"].ops <= OpsIn1(report.out["kinds"])
        /\ Shown("daily") => OpsIn1(report.out["kinds"]) <= OpsIn1(report.out["daily"])
        /\ Shown("top") /\ Shown("blocks") =>
              Cardinality({o.block : o \in report.out["top"]}) <= report.out["blocks"]

(* A page is of one moment: its panels count the same rows and sum the same    *)
(* net, the series leaves no row and no block out, the CSV says what the       *)
(* panels say unless events were cut, and the gaps are those below the         *)
(* checkpoint of that moment (build, "Single consistent read snapshot").       *)
PanelsAgree ==
    dash # Off /\ dash.at > Len(Loads) =>
        LET p == dash.out["panels"]
            g == dash.out["gaps"]
            cut == Len(p.emitted.events) < p.kpi.ops
            Agree(cells) == OpsIn1(cells) = p.kpi.ops /\ Sum(cells, LAMBDA c : c.net) = p.kpi.net
        IN  /\ Agree(p.series) /\ Agree(p.matrix) /\ Agree(p.actors)
            /\ Agree(CsvKinds(p)) /\ Agree(CsvSenders(p)) /\ (~cut => Agree(CsvDays(p)))
            /\ Sum(p.series, LAMBDA c : c.blocks) = Cardinality(dash.out["blocks"])
            /\ cut => p.emitted.hit
            /\ {o.block : o \in dash.out["ops"]} \subseteq dash.out["blocks"]
            /\ \A h \in dash.out["blocks"] : \A r \in g.ranges : h \notin r[1]..r[2]
            /\ g.count >= Sum(g.ranges, LAMBDA r : r[2] - r[1] + 1)
===============================================================================
