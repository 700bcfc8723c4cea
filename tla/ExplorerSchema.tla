----------------------------- MODULE ExplorerSchema -----------------------------
(* The schema of the explorer's database (explorer/store/schema.rs): a file is *)
(* brought to the head version by whoever opens it for writing, one statement  *)
(* at a time and each committed on its own but for the two rebuilds of mev_ops, *)
(* while others open and write the same file. A file is its version, tables,   *)
(* the shape of mev_ops and of the paper tables, the two natural keys, the op  *)
(* rows and how often each reject is held. Columns that one version adds are   *)
(* one column; the report indexes (V9) change no answer and are left out.      *)
EXTENDS Integers, Sequences, FiniteSets

CONSTANTS
    Openers,        \* processes that open the file for writing
    Files,          \* the files there may be when the first of them does
    NewOps,         \* ops that are indexed later: [key, copy, kind, tag]
    MaxOpens,       \* bound: times the file is opened
    MaxDeaths       \* bound: openers killed while they migrate

ASSUME SchemaAssumption == MaxOpens \in Nat /\ MaxDeaths \in Nat

VARIABLES
    file,
    opener,         \* opener -> [phase, v, k]: version reached, next V1 table
    opens, deaths,
    born,           \* history: op rows as they were first written, rejects held
    torn            \* history: one died while others were ahead of it

schemaVars == <<file, opener, opens, deaths, born, torn>>

SchemaHead == 13
V1Tables == <<"ops", "classified", "rejects", "paper">>
V1Columns == {"fee", "volume", "excluded"}
OpColumns == V1Columns \cup {"subkind", "flags"}
PaperColumns == {"fill", "exec", "cost"}
SkimKinds == {"arb", "skim", "unknown"}
UtilityKinds == {"arb", "skim", "utility"}

(* The table and the column that a version adds with ensure_column.            *)
Added == [v \in {2, 3, 4, 10, 11, 12, 13} |->
    CASE v = 2 -> <<"ops", "fee">> [] v = 3 -> <<"ops", "volume">> [] v = 4 -> <<"ops", "excluded">>
      [] v = 10 -> <<"ops", "flags">> [] v = 11 -> <<"paper", "fill">>
      [] v = 12 -> <<"paper", "exec">> [] v = 13 -> <<"paper", "cost">>]

Has(f, table) == table \in f.tables
Columns(f, table) == IF table = "ops" THEN f.cols ELSE f.paper
WithColumn(f, table, c) ==
    IF table = "ops" THEN [f EXCEPT !.cols = @ \cup {c}] ELSE [f EXCEPT !.paper = @ \cup {c}]

DuplicateOps(f) == \E r \in f.ops, s \in f.ops : r # s /\ r.key = s.key
DuplicateRejects(f) == \E r \in DOMAIN f.rejects : f.rejects[r] > 1

Created(f, table) ==
    IF Has(f, table) THEN f ELSE
    LET g == [f EXCEPT !.tables = @ \cup {table}]
    IN  CASE table = "ops"   -> [g EXCEPT !.kinds = SkimKinds, !.cols = V1Columns]
          [] table = "paper" -> [g EXCEPT !.paper = {"fill"}]
          [] OTHER           -> g

(* The two rebuilds copy each row into a table of the shape of their version,  *)
(* in one transaction: a row that the new CHECK or key refuses undoes it all.  *)
SkimRebuild(f) ==
    [f EXCEPT !.kinds = SkimKinds, !.cols = V1Columns, !.natural = FALSE,
              !.ops = {[r EXCEPT !.sub = "none"] : r \in @}]
Renamed(kind) == IF kind = "unknown" THEN "utility" ELSE kind
UtilityRebuildLosesKey(f) ==
    [f EXCEPT !.kinds = UtilityKinds, !.cols = V1Columns \cup {"subkind"}, !.natural = FALSE,
              !.ops = {[r EXCEPT !.kind = Renamed(r.kind), !.sub = r.tag] : r \in @}]
UtilityRebuild(f) ==
    [f EXCEPT !.kinds = UtilityKinds, !.cols = V1Columns \cup {"subkind"}, !.natural = TRUE,
              !.ops = {[r EXCEPT !.kind = Renamed(r.kind), !.sub = r.tag] : r \in @}]
Rebuilt(f, v) == IF v = 5 THEN SkimRebuild(f) ELSE UtilityRebuild(f)
Fits(f) == \A r \in f.ops : r.kind \in f.kinds

(* The key, the copy and the tag of a row are what a migration carries over;   *)
(* of a row with the natural key there is one copy.                            *)
Known(r) == [key |-> r.key, copy |-> r.copy, tag |-> r.tag]

(* A file, of whatever version, holds rows that the tables it has allow.       *)
IsRow(r) == DOMAIN r = {"key", "copy", "kind", "tag", "sub"}
ASSUME FilesAssumption ==
    /\ \A f \in Files :
        /\ DOMAIN f = {"version", "tables", "kinds", "cols", "paper", "natural", "rejectKey",
                       "ops", "rejects"}
        /\ f.version \in Nat /\ IsFiniteSet(f.ops)
        /\ \A r \in f.ops : IsRow(r)
        /\ \A r, s \in f.ops : Known(r) = Known(s) => r = s
        /\ ~ Has(f, "ops") => f.ops = {} /\ ~ f.natural
        /\ "utility" \in f.kinds => /\ f.kinds = UtilityKinds /\ Fits(f)
                                    /\ \A r \in f.ops : r.sub = r.tag
        /\ f.rejects \in [DOMAIN f.rejects -> Nat]
        /\ f.rejectKey => ~ DuplicateRejects(f)
    /\ \A r \in NewOps : IsRow(r)
RebuildHolds(f, v) ==
    /\ V1Columns \subseteq f.cols
    /\ Fits(Rebuilt(f, v))
    /\ v = 8 => ~ DuplicateOps(f)

(* What a step sees when it asks whether there is something to do.             *)
Needed(f, v) ==
    IF v \in DOMAIN Added
    THEN LET t == Added[v][1] IN Has(f, t) /\ Added[v][2] \notin Columns(f, t)
    ELSE CASE v = 5 -> Has(f, "ops") /\ "skim" \notin f.kinds
           [] v = 7 -> Has(f, "ops")
           [] v = 8 -> Has(f, "ops") /\ ("utility" \notin f.kinds \/ "subkind" \notin f.cols)
           [] OTHER -> FALSE

Idle == [phase |-> "off", v |-> 0, k |-> 1]
Migrating(o) == opener[o].phase \notin {"off", "open", "failed"}
Reached(v) == IF v = SchemaHead THEN "open" ELSE "look"
Ahead(o) == opener[o].v < file.version \/ \E p \in Openers \ {o} : opener[p].phase # "off"

Go(o, phase) == opener' = [opener EXCEPT ![o].phase = phase]
Fail(o) == Go(o, "failed") /\ UNCHANGED <<file, torn>>
Leave(o, f, phase) == file' = f /\ Go(o, phase) /\ UNCHANGED torn

SchemaInit ==
    /\ file \in Files
    /\ opener = [o \in Openers |-> Idle]
    /\ opens = 0 /\ deaths = 0 /\ born = [ops |-> file.ops, rejects |-> {r \in DOMAIN file.rejects : file.rejects[r] > 0}]
    /\ torn = FALSE

(* ExplorerStore::open: the version is read once; a file without one that has  *)
(* the classified blocks is an older one, stamped V1 and never given V1 again. *)
OpenFile(o) ==
    /\ opener[o].phase = "off" /\ opens < MaxOpens
    /\ opens' = opens + 1
    /\ opener' = [opener EXCEPT ![o] =
           [phase |-> IF file.version = 0 THEN "legacy" ELSE Reached(file.version),
            v |-> file.version, k |-> 1]]
    /\ UNCHANGED <<file, deaths, born, torn>>

LookForTables(o) ==
    /\ opener[o].phase = "legacy"
    /\ Go(o, IF Has(file, "classified") THEN "stamp" ELSE "create")
    /\ UNCHANGED <<file, opens, deaths, born, torn>>

StampLegacy(o) ==
    /\ opener[o].phase = "stamp"
    /\ file' = [file EXCEPT !.version = 1]
    /\ opener' = [opener EXCEPT ![o].phase = "look", ![o].v = 1]
    /\ UNCHANGED <<opens, deaths, born, torn>>

(* migrate_v1_create: a batch of statements, each of which is committed.       *)
CreateTable(o) ==
    LET k == opener[o].k
    IN  /\ opener[o].phase = "create"
        /\ file' = Created(file, V1Tables[k])
        /\ opener' = [opener EXCEPT ![o].k = k + 1,
                                    ![o].phase = IF k = Len(V1Tables) THEN "mark" ELSE "create"]
        /\ UNCHANGED <<opens, deaths, born, torn>>

(* Duplicate ops refuse V7 before it starts; V6 tries its index at once.       *)
LookAtStep(o) ==
    LET v == opener[o].v + 1
    IN  /\ opener[o].phase = "look" /\ v # 6
        /\ IF v = 7 /\ Has(file, "ops") /\ DuplicateOps(file) THEN Fail(o)
           ELSE Leave(o, file, IF Needed(file, v) THEN "do" ELSE "mark")
        /\ UNCHANGED <<opens, deaths, born>>

IndexRejects(o) ==
    /\ opener[o].v = 5 /\ opener[o].phase \in {"look", "again"}
    /\ \/ Has(file, "rejects") /\ ~ DuplicateRejects(file)
          /\ Leave(o, [file EXCEPT !.rejectKey = TRUE], "mark")
       \/ Has(file, "rejects") /\ DuplicateRejects(file)
          /\ IF opener[o].phase = "look" THEN Leave(o, file, "do") ELSE Fail(o)
       \/ ~ Has(file, "rejects") /\ Fail(o)
    /\ UNCHANGED <<opens, deaths, born>>

CollapsesAway(rejects) == [r \in DOMAIN rejects |-> IF rejects[r] = 1 THEN 1 ELSE 0]
Collapsed(rejects) == [r \in DOMAIN rejects |-> IF rejects[r] = 0 THEN 0 ELSE 1]
CollapseRejects(o) ==
    /\ opener[o].v = 5 /\ opener[o].phase = "do"
    /\ Leave(o, [file EXCEPT !.rejects = Collapsed(@)], "again")
    /\ UNCHANGED <<opens, deaths, born>>

(* What was seen may no longer be so: a column that another has added is an    *)
(* error, and a rebuild takes the file back to the shape of its version.       *)
DoStep(o) ==
    LET v == opener[o].v + 1
    IN  /\ opener[o].phase = "do" /\ v # 6
        /\ \/ /\ v \in DOMAIN Added
              /\ LET t == Added[v][1] c == Added[v][2]
                 IN  IF c \in Columns(file, t) THEN Fail(o)
                     ELSE Leave(o, WithColumn(file, t, c), "mark")
           \/ /\ v = 7
              /\ IF DuplicateOps(file) THEN Fail(o)
                 ELSE Leave(o, [file EXCEPT !.natural = TRUE], "mark")
           \/ /\ v \in {5, 8}
              /\ IF RebuildHolds(file, v) THEN Leave(o, Rebuilt(file, v), "mark") ELSE Fail(o)
        /\ UNCHANGED <<opens, deaths, born>>

MarkVersion(o) ==
    LET v == opener[o].v + 1
    IN  /\ opener[o].phase = "mark"
        /\ file' = [file EXCEPT !.version = v]
        /\ opener' = [opener EXCEPT ![o].v = v, ![o].phase = Reached(v)]
        /\ UNCHANGED <<opens, deaths, born, torn>>

CloseFile(o) ==
    /\ opener[o].phase \in {"open", "failed"}
    /\ opener' = [opener EXCEPT ![o] = Idle]
    /\ UNCHANGED <<file, opens, deaths, born, torn>>

Die(o) ==
    /\ Migrating(o) /\ deaths < MaxDeaths
    /\ deaths' = deaths + 1 /\ torn' = (torn \/ Ahead(o))
    /\ opener' = [opener EXCEPT ![o] = Idle]
    /\ UNCHANGED <<file, opens, born>>

(* insert_block_facts names every column and the natural key: on a file of     *)
(* another shape it is an error and nothing is written.                        *)
WriteOp(o) ==
    /\ opener[o].phase = "open" /\ file.cols = OpColumns /\ file.natural
    /\ \E r \in NewOps :
        /\ r.kind \in file.kinds /\ \A s \in file.ops : s.key # r.key
        /\ file' = [file EXCEPT !.ops = @ \cup {[r EXCEPT !.sub = r.tag]}]
        /\ born' = [born EXCEPT !.ops = @ \cup {r}]
    /\ UNCHANGED <<opener, opens, deaths, torn>>

(* insert_rejected_candidate: INSERT OR IGNORE, on whatever key there is.      *)
WriteReject(o) ==
    /\ opener[o].phase = "open" /\ Has(file, "rejects")
    /\ \E r \in DOMAIN file.rejects :
        /\ file.rejects[r] < (IF file.rejectKey THEN 1 ELSE 2)
        /\ file' = [file EXCEPT !.rejects[r] = @ + 1]
        /\ born' = [born EXCEPT !.rejects = @ \cup {r}]
    /\ UNCHANGED <<opener, opens, deaths, torn>>

EnsurePaperTables(o) ==
    /\ opener[o].phase = "open" /\ ~ Has(file, "paper")
    /\ file' = [file EXCEPT !.tables = @ \cup {"paper"}, !.paper = PaperColumns]
    /\ UNCHANGED <<opener, opens, deaths, born, torn>>

SchemaNext ==
    \E o \in Openers :
        \/ OpenFile(o) \/ LookForTables(o) \/ StampLegacy(o) \/ CreateTable(o)
        \/ LookAtStep(o) \/ DoStep(o) \/ IndexRejects(o) \/ CollapseRejects(o) \/ MarkVersion(o)
        \/ CloseFile(o) \/ Die(o) \/ WriteOp(o) \/ WriteReject(o) \/ EnsurePaperTables(o)

SchemaSpec == SchemaInit /\ [][SchemaNext]_schemaVars

-------------------------------------------------------------------------------
AtHead(f) ==
    /\ f.version = SchemaHead /\ {"ops", "classified", "rejects"} \subseteq f.tables
    /\ f.kinds = UtilityKinds /\ f.cols = OpColumns /\ f.natural /\ f.rejectKey
    /\ Has(f, "paper") => f.paper = PaperColumns

(* Whoever holds the file open finds it in the shape its statements are        *)
(* written for, however many opened it at once and in whatever order their     *)
(* statements came: one that lags may rebuild mev_ops back to an older shape   *)
(* and lower the version, but then goes through the later steps again          *)
(* (migrate, ensure_mev_ops_kind_skim, migrate_v8_utility_subkind). Only one   *)
(* that lags and is killed on its way leaves the file behind.                  *)
OpenIsHead ==
    /\ \E o \in Openers : opener[o].phase = "open"
    /\ \A o \in Openers : ~ Migrating(o)
    /\ ~ torn
    => AtHead(file)

(* No migration, rebuild or collapse loses an event: each op row that was ever *)
(* written is there, once, under its kind or the name that V8 gave it, with    *)
(* the tag its details hold as its subkind, and a reject is still held, once   *)
(* when its key is unique (ensure_rejected_candidates_unique).                 *)
RowsSurvive ==
    /\ {Known(r) : r \in file.ops} = {Known(r) : r \in born.ops}
    /\ Cardinality(file.ops) = Cardinality(born.ops)
    /\ \A r \in file.ops, b \in born.ops : Known(r) = Known(b) =>
          IF "utility" \in file.kinds THEN r.kind = Renamed(b.kind) /\ r.sub = r.tag
          ELSE r.kind = b.kind
    /\ \A r \in DOMAIN file.rejects :
          /\ r \in born.rejects => file.rejects[r] >= 1
          /\ file.rejectKey => file.rejects[r] <= 1
=============================================================================
