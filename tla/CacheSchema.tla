------------------------------ MODULE CacheSchema -------------------------------
(* The schema of the scanner's block cache (cache/store/mod.rs): opening a     *)
(* cache creates the tables and runs the list of migrations from the version   *)
(* the file records. The list holds one statement per entry, more of them than *)
(* the schema has versions, and the version is only ever updated in a table    *)
(* that nothing puts a row in. A column is the entry that adds it.             *)
EXTENDS Integers

CONSTANTS
    CacheOpeners,       \* processes that open the cache
    Entries,            \* migrations in the list
    CacheVersion,       \* SCHEMA_VERSION
    FreshEntries,       \* entries whose column the CREATE statements have too
    CacheFiles,         \* columns of the caches there may be, {} for no file
    MaxCacheOpens       \* bound: times the cache is opened

ASSUME CacheAssumption ==
    /\ Entries \in Nat /\ CacheVersion \in 1..Entries
    /\ MaxCacheOpens \in Nat /\ FreshEntries \subseteq 1..Entries
    /\ \A c \in CacheFiles : c \subseteq 1..Entries

VARIABLES
    columns,            \* columns of the file
    tables,             \* its tables are there
    recorded,           \* rows of schema_version: the version, or none
    cacher,             \* opener -> [phase, from, next]
    cacheOpens

cacheVars == <<columns, tables, recorded, cacher, cacheOpens>>

Shut == [phase |-> "shut", from |-> 0, next |-> 1]
MaxRecorded == IF recorded = {} THEN 0 ELSE CHOOSE v \in recorded : \A w \in recorded : w <= v
Entered(from, i) ==
    IF i > Entries THEN [phase |-> "ready", from |-> from, next |-> i]
    ELSE [phase |-> "entry", from |-> from, next |-> i]

CacheInit ==
    /\ columns \in CacheFiles /\ tables = (columns # {}) /\ recorded = {}
    /\ cacher = [o \in CacheOpeners |-> Shut] /\ cacheOpens = 0

(* initialize_tables: tables that are there are left as they are.              *)
CreateTables(o) ==
    /\ cacher[o].phase = "shut" /\ cacheOpens < MaxCacheOpens
    /\ cacheOpens' = cacheOpens + 1
    /\ columns' = IF tables THEN columns ELSE FreshEntries
    /\ tables' = TRUE
    /\ cacher' = [cacher EXCEPT ![o].phase = "version"]
    /\ UNCHANGED recorded

ReadVersion(o) ==
    /\ cacher[o].phase = "version"
    /\ cacher' = [cacher EXCEPT ![o] =
           IF MaxRecorded < CacheVersion THEN Entered(MaxRecorded, MaxRecorded + 1)
           ELSE Entered(MaxRecorded, Entries + 1)]
    /\ UNCHANGED <<columns, tables, recorded, cacheOpens>>

(* run_migrations: a column that is there already is no error.                 *)
RunEntry(o) ==
    /\ cacher[o].phase = "entry"
    /\ columns' = columns \cup {cacher[o].next}
    /\ cacher' = [cacher EXCEPT ![o].phase = "update"]
    /\ UNCHANGED <<tables, recorded, cacheOpens>>

UpdateVersion(o) ==
    /\ cacher[o].phase = "update"
    /\ recorded' = {cacher[o].next : v \in recorded}
    /\ cacher' = [cacher EXCEPT ![o] = Entered(@.from, @.next + 1)]
    /\ UNCHANGED <<columns, tables, cacheOpens>>

(* The process ends, or a statement fails on a locked file.                    *)
Shuts(o) ==
    /\ cacher[o].phase # "shut"
    /\ cacher' = [cacher EXCEPT ![o] = Shut]
    /\ UNCHANGED <<columns, tables, recorded, cacheOpens>>

CacheNext ==
    \E o \in CacheOpeners :
        CreateTables(o) \/ ReadVersion(o) \/ RunEntry(o) \/ UpdateVersion(o) \/ Shuts(o)

CacheSpec == CacheInit /\ [][CacheNext]_cacheVars

-------------------------------------------------------------------------------
(* A cache that was opened has every column its queries name, whatever older   *)
(* file it was, wherever an earlier open of it was cut short and whoever else  *)
(* migrates it: as no version is ever recorded, every open runs the whole list *)
(* (SqliteStore::open, run_migrations, row_to_pool_info).                      *)
ReadyIsComplete ==
    \A o \in CacheOpeners : cacher[o].phase = "ready" => columns = 1..Entries
=============================================================================
