-------------------------- MODULE RefdataSnapshot --------------------------
(***************************************************************************)
(* quant/refdata: the publisher's snapshot of a schema in Redis and a      *)
(* process's reader of it.  A publication reads the tables one after the   *)
(* other and writes them, with the next version stamp, in one MULTI.  The  *)
(* reader of a process is shared by its threads: it compares the stamp,    *)
(* drops its rows when it moved, and loads a table it does not hold; each  *)
(* is a call of its own and nothing locks them.  A table's rows are the    *)
(* number of the edit they show; 0 is an empty list.                       *)
(***************************************************************************)
EXTENDS Naturals

CONSTANTS
    Table,        \* tables of the schema
    Thread,       \* threads of the reading process
    MaxEdits,     \* bound on the edits of the database
    MaxPublished  \* bound on the publications

VARIABLES
    db,           \* rows of each table in Postgres
    draft,        \* a publication that has read some tables, or << >>
    redis,        \* published rows of each table and the stamp they came with
    version,      \* published stamp
    store,        \* the reader's local rows, Nothing when it has none
    stamp,        \* the reader's stamp
    thread,       \* each thread: where its _get stands
    edits,        \* edits so far
    crossedLoads  \* history: tables an older load was still to be stored for
                  \* when the reader last dropped its rows

refVars == <<db, draft, redis, version, store, stamp, thread, edits, crossedLoads>>

Nothing == [rows |-> 0, ver |-> 0]
\* excused is history: the rows a thread took were of a table in crossedLoads.
Waiting == [pc |-> "idle", t |-> "none", got |-> Nothing, seen |-> 0, excused |-> FALSE]

RefInit ==
    /\ db = [t \in Table |-> 1] /\ draft = << >>
    /\ redis = [t \in Table |-> Nothing] /\ version = 0
    /\ store = [t \in Table |-> Nothing] /\ stamp = 0
    /\ thread = [h \in Thread |-> Waiting]
    /\ edits = 1 /\ crossedLoads = {}

Turn(h, rec) == thread' = [thread EXCEPT ![h] = rec]
Reading(h, pc) == thread[h].pc = pc

\* An administrator edits a table.
Edit(t) ==
    /\ edits < MaxEdits /\ edits' = edits + 1
    /\ db' = [db EXCEPT ![t] = edits + 1]
    /\ UNCHANGED <<draft, redis, version, store, stamp, thread, crossedLoads>>

\* publish: _fetch_enum of the next table; one that fails counts as empty.
PublishRead(t) ==
    /\ t \notin DOMAIN draft /\ version < MaxPublished
    /\ \E rows \in {db[t], 0} :
         draft' = [u \in DOMAIN draft \cup {t} |-> IF u = t THEN rows ELSE draft[u]]
    /\ UNCHANGED <<db, redis, version, store, stamp, thread, edits, crossedLoads>>

\* ... and its transaction: every table and the next stamp at once, or none.
Publish ==
    /\ DOMAIN draft = Table /\ draft' = << >>
    /\ \/ /\ version' = version + 1
          /\ redis' = [t \in Table |-> [rows |-> draft[t], ver |-> version + 1]]
       \/ UNCHANGED <<version, redis>>
    /\ UNCHANGED <<db, store, stamp, thread, edits, crossedLoads>>

\* _get begins: _check_version reads the stamp.
ReadVersion(h, t) ==
    /\ Reading(h, "idle")
    /\ Turn(h, [Waiting EXCEPT !.pc = "check", !.t = t, !.seen = version])
    /\ UNCHANGED <<db, draft, redis, version, store, stamp, edits, crossedLoads>>

\* A plausible bug: the stamp is recorded and the rows are kept.
check_version_KeepRows(seen) == store

\* The local rows once the stamp read has been compared with the reader's.
check_version(seen) == IF seen = stamp THEN store ELSE [t \in Table |-> Nothing]

\* ... compares it and looks for local rows; none, or an empty list, is a load.
CheckVersion(h) ==
    /\ Reading(h, "check")
    /\ LET seen == thread[h].seen
           late == {thread[u].t : u \in {v \in Thread : Reading(v, "store") /\ thread[v].got.ver < seen}}
           held == check_version(seen)[thread[h].t]
       IN  /\ store' = check_version(seen) /\ stamp' = seen
           /\ crossedLoads' = IF seen = stamp THEN crossedLoads ELSE late
           /\ Turn(h, [thread[h] EXCEPT !.pc = IF held.rows = 0 THEN "load" ELSE "got", !.got = held,
                                         !.excused = held.rows # 0 /\ thread[h].t \in crossedLoads])
    /\ UNCHANGED <<db, draft, redis, version, edits>>

\* _load_table: its GET.  A table never published is an error.
LoadTable(h) ==
    /\ Reading(h, "load")
    /\ LET read == redis[thread[h].t]
       IN  Turn(h, IF read = Nothing THEN Waiting
                   ELSE [thread[h] EXCEPT !.pc = "store", !.got = read])
    /\ UNCHANGED <<db, draft, redis, version, store, stamp, edits, crossedLoads>>

\* ... and, once parsed, the rows put into the store.  Empty rows are an error.
StoreRows(h) ==
    /\ Reading(h, "store")
    /\ store' = [store EXCEPT ![thread[h].t] = thread[h].got]
    /\ Turn(h, IF thread[h].got.rows = 0 THEN Waiting ELSE [thread[h] EXCEPT !.pc = "got"])
    /\ UNCHANGED <<db, draft, redis, version, stamp, edits, crossedLoads>>

\* The caller has its rows and looks its name, id or setting up in them, found
\* or a RuntimeError.
Resolve(h) ==
    /\ Reading(h, "got") /\ Turn(h, Waiting)
    /\ UNCHANGED <<db, draft, redis, version, store, stamp, edits, crossedLoads>>

\* Redis does not answer one of the two GETs: RuntimeError.
Unavailable(h) ==
    /\ thread[h].pc \in {"check", "load"} /\ Turn(h, Waiting)
    /\ UNCHANGED <<db, draft, redis, version, store, stamp, edits, crossedLoads>>

RefNext ==
    \/ Publish
    \/ \E t \in Table : Edit(t) \/ PublishRead(t)
    \/ \E h \in Thread :
         \/ \E t \in Table : ReadVersion(h, t)
         \/ CheckVersion(h) \/ LoadTable(h) \/ StoreRows(h) \/ Resolve(h) \/ Unavailable(h)

(* The rows _get hands out are at least as new as the publication whose     *)
(* stamp it compared, whichever thread loaded them: only a load that        *)
(* crossed the drop of the rows (its GET before the publication, its store  *)
(* after another thread's drop) leaves older ones, until the next stamp.    *)
NeverOlderThanStamp ==
    \A h \in Thread : Reading(h, "got") => thread[h].excused \/ thread[h].got.ver >= thread[h].seen
=============================================================================
