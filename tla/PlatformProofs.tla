--------------------------- MODULE PlatformProofs ---------------------------
(***************************************************************************)
(* Components of the platform, each for any number of actors and any       *)
(* bounds: an instrument that was answered for stays served, what a reader *)
(* of the refdata snapshot hands out is current, a revoked credential      *)
(* serves no keys, a revoked token is refused in time, a provider's series *)
(* keeps one row, a quantity is held to a lot of its own market, and the   *)
(* sessions of an API key end clean and forget no refusal.                 *)
(***************************************************************************)
EXTENDS InstrumentCache, RefdataSnapshot, Credentials, AuthSessions, SeriesSubscr, VenueLimits,
        KeyRouting, SequenceTheorems, TLAPS

-----------------------------------------------------------------------------
(* The instrument cache.                                                   *)

InstSpec == InstInit /\ [][InstNext]_instVars

InstPc == Reloading \cup {"idle", "xref", "answer"}

\* Every variable keeps the type of the value it stands for.
InstTypeOK ==
    /\ product \subseteq Cusip /\ xref \subseteq product
    /\ mem \in [products : SUBSET Cusip, xrefs : SUBSET Cusip,
                by_product_id : SUBSET Cusip, xref_index : SUBSET Cusip]
    /\ caller \in [InstCaller -> [pc : InstPc, cusip : Cusip \cup {NoCusip}, rows : SUBSET Cusip]]
    /\ answered \subseteq xref /\ denied \subseteq xref /\ raced \subseteq xref

\* A thread that writes an instrument has its product row; one that reloads for
\* an instrument, or answers for it, has both rows.
HandsKnown ==
    \A c \in InstCaller :
        /\ caller[c].pc = "idle" => caller[c].cusip = NoCusip
        /\ caller[c].pc = "xref" => caller[c].cusip \in product
        /\ caller[c].pc \in Reloading => caller[c].cusip \in xref \cup {NoCusip}
        /\ caller[c].pc = "answer" => caller[c].cusip \in xref

\* Instruments no reload was under way for when they were written.
Settled == xref \ raced

\* Rows in a thread's hand hold every settled instrument: they were read after
\* it was written.
RowsFresh ==
    \A c \in InstCaller : caller[c].pc \in {"products_set", "xrefs_set"} => Settled \subseteq caller[c].rows

\* How far the reload of a thread has brought the settled instrument it is for.
Reached ==
    \A c \in InstCaller : caller[c].cusip \in Settled =>
        /\ caller[c].pc \in {"xrefs", "xrefs_set", "by_id", "index", "answer"} => caller[c].cusip \in mem.products
        /\ caller[c].pc \in {"by_id", "index", "answer"} => caller[c].cusip \in mem.xrefs
        /\ caller[c].pc \in {"index", "answer"} => caller[c].cusip \in mem.by_product_id
        /\ caller[c].pc = "answer" => caller[c].cusip \in mem.xref_index

\* What was answered is in all four attributes.
AnsweredInMemory ==
    /\ answered \ raced \subseteq mem.products
    /\ answered \ raced \subseteq mem.xrefs
    /\ answered \ raced \subseteq mem.by_product_id
    /\ answered \ raced \subseteq mem.xref_index

InstInv ==
    /\ InstTypeOK /\ HandsKnown /\ RowsFresh /\ Reached /\ AnsweredInMemory
    /\ denied \subseteq raced

-----------------------------------------------------------------------------
\* Nothing was created or answered yet.
LEMMA InstInitially == InstInit => InstInv
  BY DEF InstInit, InstInv, InstTypeOK, HandsKnown, RowsFresh, Reached, AnsweredInMemory,
         Settled, Resting, InstPc, Reloading

\* Every step of a writing or reloading thread keeps the invariant.
LEMMA InstStep == InstInv /\ [InstNext]_instVars => InstInv'
<1> SUFFICES ASSUME InstInv, [InstNext]_instVars PROVE InstInv'
  OBVIOUS
<1> USE DEF InstInv, Settled, InstPc, Reloading
<1>1. CASE UNCHANGED instVars
  BY <1>1 DEF instVars, InstTypeOK, HandsKnown, RowsFresh, Reached, AnsweredInMemory
<1>2. ASSUME NEW c \in InstCaller, NEW k \in Cusip, sp_ins_product(c, k) PROVE InstInv'
  BY <1>2 DEF sp_ins_product, InstTypeOK, HandsKnown, RowsFresh, Reached, AnsweredInMemory
<1>3. ASSUME NEW c \in InstCaller, sp_ins_product_xref(c) PROVE InstInv'
  <2>1. caller[c].cusip \in product /\ caller[c].pc = "xref"
    BY <1>3 DEF sp_ins_product_xref, HandsKnown
  <2>2. InstTypeOK' /\ HandsKnown'
    BY <1>3, <2>1 DEF sp_ins_product_xref, Proceed, InstTypeOK, HandsKnown
  <2>3. \A b \in InstCaller : caller'[b].pc \in Reloading \ {"products"} =>
                                caller'[b] = caller[b] /\ xref' \ raced' \subseteq xref \ raced
    BY <1>3, <2>1 DEF sp_ins_product_xref, Proceed, InstTypeOK
  <2>4. RowsFresh' /\ Reached'
    BY <1>3, <2>1, <2>3 DEF sp_ins_product_xref, Proceed, InstTypeOK, HandsKnown, RowsFresh, Reached
  <2>5. AnsweredInMemory' /\ denied' \subseteq raced'
    BY <1>3 DEF sp_ins_product_xref, InstTypeOK, AnsweredInMemory
  <2> QED BY <2>2, <2>4, <2>5
<1>4. ASSUME NEW c \in InstCaller, XrefRejected(c) PROVE InstInv'
  BY <1>4 DEF XrefRejected, Resting, InstTypeOK, HandsKnown, RowsFresh, Reached, AnsweredInMemory
<1>5. ASSUME NEW c \in InstCaller, refresh_inst(c) PROVE InstInv'
  BY <1>5 DEF refresh_inst, Proceed, InstTypeOK, HandsKnown, RowsFresh, Reached, AnsweredInMemory
<1>6. ASSUME NEW c \in InstCaller, ReadTable(c) PROVE InstInv'
  <2>1. CASE caller[c].pc = "products"
    BY <1>6, <2>1 DEF ReadTable, InstTypeOK, HandsKnown, RowsFresh, Reached, AnsweredInMemory
  <2>2. CASE caller[c].pc = "xrefs"
    BY <1>6, <2>2 DEF ReadTable, InstTypeOK, HandsKnown, RowsFresh, Reached, AnsweredInMemory
  <2> QED BY <1>6, <2>1, <2>2 DEF ReadTable
<1>7. ASSUME NEW c \in InstCaller, load_all(c) PROVE InstInv'
  <2>1. CASE caller[c].pc = "products_set"
    BY <1>7, <2>1 DEF load_all, Proceed, InstTypeOK, HandsKnown, RowsFresh, Reached, AnsweredInMemory
  <2>2. CASE caller[c].pc = "xrefs_set"
    <3>1. /\ caller' = [caller EXCEPT ![c].pc = "by_id"]
          /\ mem' = [mem EXCEPT !.xrefs = caller[c].rows]
          /\ UNCHANGED <<product, xref, reloads, answered, denied, raced>>
      BY <1>7, <2>2 DEF load_all, Proceed
    <3>2. InstTypeOK' BY <3>1 DEF InstTypeOK
    <3>3. HandsKnown' /\ RowsFresh' BY <2>2, <3>1 DEF InstTypeOK, HandsKnown, RowsFresh
    <3>4. Reached' BY <2>2, <3>1 DEF InstTypeOK, RowsFresh, Reached
    <3>5. AnsweredInMemory' BY <2>2, <3>1 DEF InstTypeOK, RowsFresh, AnsweredInMemory
    <3> QED BY <3>1, <3>2, <3>3, <3>4, <3>5
  <2>3. CASE caller[c].pc = "by_id"
    BY <1>7, <2>3 DEF load_all, Proceed, InstTypeOK, HandsKnown, RowsFresh, Reached, AnsweredInMemory
  <2>4. CASE caller[c].pc = "index"
    <3>1. /\ mem' = [mem EXCEPT !.xref_index = mem.xrefs]
          /\ IF caller[c].cusip = NoCusip THEN caller' = [caller EXCEPT ![c] = Resting]
             ELSE caller' = [caller EXCEPT ![c].pc = "answer"]
          /\ UNCHANGED <<product, xref, reloads, answered, denied, raced>>
      BY <1>7, <2>4 DEF load_all, Proceed
    <3>2. InstTypeOK' BY <3>1 DEF InstTypeOK, Resting
    <3>3. HandsKnown' /\ RowsFresh' BY <2>4, <3>1 DEF InstTypeOK, HandsKnown, RowsFresh, Resting
    <3>4. Reached' BY <2>4, <3>1 DEF InstTypeOK, Reached, Resting
    <3>5. AnsweredInMemory' BY <3>1 DEF InstTypeOK, AnsweredInMemory
    <3> QED BY <3>1, <3>2, <3>3, <3>4, <3>5
  <2> QED BY <1>7, <2>1, <2>2, <2>3, <2>4 DEF load_all
<1>8. ASSUME NEW c \in InstCaller, ReloadFails(c) PROVE InstInv'
  BY <1>8 DEF ReloadFails, Resting, InstTypeOK, HandsKnown, RowsFresh, Reached, AnsweredInMemory
<1>9. ASSUME NEW c \in InstCaller, Answer(c) PROVE InstInv'
  BY <1>9 DEF Answer, Resting, InstTypeOK, HandsKnown, RowsFresh, Reached, AnsweredInMemory
<1> QED
  BY <1>1, <1>2, <1>3, <1>4, <1>5, <1>6, <1>7, <1>8, <1>9 DEF InstNext

\* create_instrument's promise: what was answered with 201 is offered and
\* resolved from then on, unless another thread was reloading when it was
\* written, and only such an instrument is denied though written.
THEOREM AnsweredStaysServed == InstSpec => []CreatedIsServed
<1>1. InstInv => CreatedIsServed
  BY DEF InstInv, CreatedIsServed, AnsweredInMemory, get_app_products, resolve_vendor_symbol
<1> QED BY <1>1, InstInitially, InstStep, PTL DEF InstSpec

-----------------------------------------------------------------------------
(* The refdata reader.                                                     *)

RefSpec == RefInit /\ [][RefNext]_refVars

Rows == [rows : Nat, ver : Nat]

ThreadRec == [pc : {"idle", "check", "load", "store", "got"}, t : Table \cup {"none"},
              got : Rows, seen : Nat, excused : BOOLEAN]

\* Every variable keeps the type of the value it stands for.
RefTypeOK ==
    /\ db \in [Table -> Nat] /\ edits \in Nat
    /\ \A t \in DOMAIN draft : draft[t] \in Nat
    /\ redis \in [Table -> Rows] /\ version \in Nat
    /\ store \in [Table -> Rows] /\ stamp \in Nat
    /\ thread \in [Thread -> ThreadRec]
    /\ \A h \in Thread : thread[h].pc # "idle" => thread[h].t \in Table

\* Stamps that were read are not ahead of the published one, and what is
\* published carries it.
StampsPublished ==
    /\ stamp =< version
    /\ \A h \in Thread : thread[h].seen =< version
    /\ \A t \in Table : redis[t] = Nothing \/ redis[t].ver = version

\* Rows older than the reader's stamp, in the store or on their way to it, are
\* of a table in crossedLoads.
OldIsCrossed ==
    /\ \A t \in Table : store[t].rows # 0 => store[t].ver >= stamp \/ t \in crossedLoads
    /\ \A h \in Thread : Reading(h, "store") =>
         thread[h].got.ver >= stamp \/ thread[h].t \in crossedLoads

\* A thread's own load is not older than the stamp it read before.
OwnLoadIsNew == \A h \in Thread : Reading(h, "store") => thread[h].got.ver >= thread[h].seen

RefInv == RefTypeOK /\ StampsPublished /\ OldIsCrossed /\ OwnLoadIsNew /\ NeverOlderThanStamp

-----------------------------------------------------------------------------
\* The reader starts empty.
LEMMA RefInitially == RefInit => RefInv
  BY DEF RefInit, RefInv, RefTypeOK, StampsPublished, OldIsCrossed, OwnLoadIsNew,
         NeverOlderThanStamp, Reading, Waiting, Nothing, Rows, ThreadRec

\* A thread that moves on alone keeps the invariant when what it holds fits.
LEMMA ThreadMoves ==
    ASSUME RefInv, NEW h \in Thread, NEW rec \in ThreadRec,
           thread' = [thread EXCEPT ![h] = rec],
           UNCHANGED <<db, draft, redis, version, store, stamp, edits, crossedLoads>>,
           rec.pc # "idle" => rec.t \in Table,
           rec.seen =< version,
           rec.pc = "store" => (rec.got.ver >= stamp \/ rec.t \in crossedLoads) /\ rec.got.ver >= rec.seen,
           rec.pc = "got" => rec.excused \/ rec.got.ver >= rec.seen
    PROVE  RefInv'
<1>1. \A u \in Thread : thread'[u] = IF u = h THEN rec ELSE thread[u]
  BY DEF RefInv, RefTypeOK
<1>2. RefTypeOK'
  BY <1>1 DEF RefInv, RefTypeOK
<1>3. StampsPublished'
  BY <1>1 DEF RefInv, StampsPublished
<1>4. OldIsCrossed' /\ OwnLoadIsNew' /\ NeverOlderThanStamp'
  BY <1>1 DEF RefInv, OldIsCrossed, OwnLoadIsNew, NeverOlderThanStamp, Reading
<1> QED BY <1>2, <1>3, <1>4 DEF RefInv

\* Nobody holds anything between two calls of _get.
LEMMA WaitingFits == Waiting \in ThreadRec /\ Waiting.pc = "idle" /\ Waiting.seen = 0
  BY DEF Waiting, ThreadRec, Rows, Nothing

\* Every step of the administrator, the publisher and a reading thread keeps
\* the invariant.
LEMMA RefStep == RefInv /\ [RefNext]_refVars => RefInv'
<1> SUFFICES ASSUME RefInv, [RefNext]_refVars PROVE RefInv'
  OBVIOUS
<1> USE DEF RefInv, Reading
<1>1. CASE UNCHANGED refVars
  BY <1>1 DEF refVars, RefTypeOK, StampsPublished, OldIsCrossed, OwnLoadIsNew, NeverOlderThanStamp
<1>2. CASE Publish
  <2>1. UNCHANGED <<db, store, stamp, thread, edits, crossedLoads>> /\ draft' = << >>
    BY <1>2 DEF Publish
  <2>2. /\ version' \in {version, version + 1} /\ redis' \in [Table -> Rows]
        /\ \A t \in Table : redis'[t] = Nothing \/ redis'[t].ver = version'
    <3>1. CASE UNCHANGED <<version, redis>>
      BY <3>1 DEF RefTypeOK, StampsPublished
    <3>2. CASE /\ version' = version + 1
               /\ redis' = [t \in Table |-> [rows |-> draft[t], ver |-> version + 1]]
      <4>1. \A t \in Table : [rows |-> draft[t], ver |-> version + 1] \in Rows
        BY <1>2 DEF Publish, RefTypeOK, Rows
      <4> QED BY <3>2, <4>1
    <3> QED BY <1>2, <3>1, <3>2 DEF Publish
  <2>3. \A h \in Thread : thread[h].seen \in Nat
    BY DEF RefTypeOK, ThreadRec
  <2>4. RefTypeOK' /\ StampsPublished'
    BY <2>1, <2>2, <2>3 DEF RefTypeOK, StampsPublished
  <2> QED BY <2>1, <2>4 DEF OldIsCrossed, OwnLoadIsNew, NeverOlderThanStamp
<1>3. ASSUME NEW t \in Table, Edit(t) PROVE RefInv'
  BY <1>3 DEF Edit, RefTypeOK, StampsPublished, OldIsCrossed, OwnLoadIsNew, NeverOlderThanStamp
<1>4. ASSUME NEW t \in Table, PublishRead(t) PROVE RefInv'
  BY <1>4 DEF PublishRead, RefTypeOK, StampsPublished, OldIsCrossed, OwnLoadIsNew, NeverOlderThanStamp
<1>5. ASSUME NEW h \in Thread, NEW t \in Table, ReadVersion(h, t) PROVE RefInv'
  <2> DEFINE rec == [Waiting EXCEPT !.pc = "check", !.t = t, !.seen = version]
  <2>1. rec \in ThreadRec /\ rec.pc = "check" /\ rec.t = t /\ rec.seen = version
    BY DEF Waiting, ThreadRec, Rows, Nothing, RefTypeOK
  <2> HIDE DEF rec
  <2>2. thread' = [thread EXCEPT ![h] = rec]
    BY <1>5 DEF ReadVersion, Turn, rec
  <2>3. UNCHANGED <<db, draft, redis, version, store, stamp, edits, crossedLoads>>
    BY <1>5 DEF ReadVersion
  <2>4. version =< version
    BY DEF RefTypeOK
  <2> QED BY <2>1, <2>2, <2>3, <2>4, ThreadMoves
<1>6. ASSUME NEW h \in Thread, CheckVersion(h) PROVE RefInv'
  <2> DEFINE seen == thread[h].seen
             held == check_version(seen)[thread[h].t]
             late == {thread[u].t : u \in {v \in Thread : Reading(v, "store") /\ thread[v].got.ver < seen}}
  <2>1. /\ thread[h].pc = "check" /\ thread[h].t \in Table /\ seen \in Nat
        /\ store' = check_version(seen) /\ stamp' = seen
        /\ crossedLoads' = IF seen = stamp THEN crossedLoads ELSE late
        /\ thread' = [thread EXCEPT ![h] =
                       [thread[h] EXCEPT !.pc = IF held.rows = 0 THEN "load" ELSE "got", !.got = held,
                                         !.excused = held.rows # 0 /\ thread[h].t \in crossedLoads]]
        /\ UNCHANGED <<db, draft, redis, version, edits>>
    BY <1>6 DEF CheckVersion, Turn, RefTypeOK, ThreadRec
  <2>2. store' \in [Table -> Rows] /\ held \in Rows
    BY <2>1 DEF check_version, Nothing, RefTypeOK, Rows
  <2>3. RefTypeOK' /\ StampsPublished'
    <3> DEFINE rec == [thread[h] EXCEPT !.pc = IF held.rows = 0 THEN "load" ELSE "got", !.got = held,
                                        !.excused = held.rows # 0 /\ thread[h].t \in crossedLoads]
    <3>1. rec \in ThreadRec /\ rec.t = thread[h].t /\ rec.seen = seen
      BY <2>2 DEF RefTypeOK, ThreadRec
    <3> HIDE DEF rec
    <3>2. thread' = [thread EXCEPT ![h] = rec]
      BY <2>1 DEF rec
    <3> QED BY <2>1, <2>2, <3>1, <3>2 DEF RefTypeOK, StampsPublished
  <2>4. \A u \in Thread \ {h} : thread'[u] = thread[u]
    BY <2>1 DEF RefTypeOK
  <2>5. thread'[h].pc \in {"load", "got"} /\ thread'[h].seen = seen /\ thread'[h].got = held
        /\ thread'[h].excused = (held.rows # 0 /\ thread[h].t \in crossedLoads)
        /\ (thread'[h].pc = "got" => held.rows # 0)
    BY <2>1 DEF RefTypeOK
  <2>6. OldIsCrossed'
    <3>1. CASE seen = stamp
      BY <2>1, <2>4, <2>5, <3>1 DEF check_version, OldIsCrossed
    <3>2. CASE seen # stamp
      <4>1. \A t \in Table : store'[t].rows = 0
        BY <2>1, <3>2 DEF check_version, Nothing
      <4>2. \A u \in Thread \ {h} : Reading(u, "store") /\ ~(thread[u].got.ver < seen)
                                      => thread[u].got.ver >= seen
        BY <2>1 DEF RefTypeOK, ThreadRec, Rows
      <4> QED BY <2>1, <2>4, <2>5, <3>2, <4>1, <4>2 DEF OldIsCrossed
    <3> QED BY <3>1, <3>2
  <2>7. OwnLoadIsNew'
    BY <2>4, <2>5 DEF OwnLoadIsNew
  <2>8. held.rows # 0 => seen = stamp /\ held = store[thread[h].t]
    BY <2>1 DEF check_version, Nothing
  <2>9. NeverOlderThanStamp'
    BY <2>1, <2>4, <2>5, <2>8 DEF NeverOlderThanStamp, OldIsCrossed
  <2> QED BY <2>3, <2>6, <2>7, <2>9
<1>7. ASSUME NEW h \in Thread, LoadTable(h) PROVE RefInv'
  <2> DEFINE read == redis[thread[h].t]
             rec == [thread[h] EXCEPT !.pc = "store", !.got = read]
  <2>1. thread[h].pc = "load" /\ thread[h].t \in Table /\ thread[h] \in ThreadRec /\ read \in Rows
    BY <1>7 DEF LoadTable, RefTypeOK
  <2>2. CASE read = Nothing
    <3>1. thread' = [thread EXCEPT ![h] = Waiting]
      BY <1>7, <2>2 DEF LoadTable, Turn
    <3>2. UNCHANGED <<db, draft, redis, version, store, stamp, edits, crossedLoads>>
      BY <1>7 DEF LoadTable
    <3>3. 0 =< version
      BY DEF RefTypeOK
    <3> QED BY <3>1, <3>2, <3>3, WaitingFits, ThreadMoves
  <2>3. CASE read # Nothing
    <3>1. /\ rec \in ThreadRec /\ rec.pc = "store" /\ rec.t = thread[h].t
          /\ rec.seen = thread[h].seen /\ rec.got = read
      BY <2>1 DEF ThreadRec
    <3>2. read.ver = version /\ version >= stamp /\ version >= thread[h].seen
      BY <2>1, <2>3 DEF StampsPublished, RefTypeOK, ThreadRec
    <3> HIDE DEF rec
    <3>3. thread' = [thread EXCEPT ![h] = rec]
      BY <1>7, <2>3 DEF LoadTable, Turn, rec
    <3>4. UNCHANGED <<db, draft, redis, version, store, stamp, edits, crossedLoads>>
      BY <1>7 DEF LoadTable
    <3> QED BY <2>1, <3>1, <3>2, <3>3, <3>4, ThreadMoves
  <2> QED BY <2>2, <2>3
<1>8. ASSUME NEW h \in Thread, StoreRows(h) PROVE RefInv'
  <2> DEFINE rec == IF thread[h].got.rows = 0 THEN Waiting ELSE [thread[h] EXCEPT !.pc = "got"]
  <2>1. /\ thread[h].pc = "store" /\ thread[h].t \in Table /\ thread[h] \in ThreadRec
        /\ thread[h].got \in Rows
    BY <1>8 DEF StoreRows, RefTypeOK, ThreadRec
  <2>2. rec \in ThreadRec /\ rec.pc \in {"idle", "got"} /\ rec.seen \in {0, thread[h].seen}
    BY <2>1, WaitingFits DEF ThreadRec
  <2>3. rec.pc = "got" => /\ rec.t = thread[h].t /\ rec.got = thread[h].got
                          /\ rec.seen = thread[h].seen
    BY <2>1, WaitingFits DEF ThreadRec
  <2> HIDE DEF rec
  <2>4. /\ store' = [store EXCEPT ![thread[h].t] = thread[h].got]
        /\ thread' = [thread EXCEPT ![h] = rec]
        /\ UNCHANGED <<db, draft, redis, version, stamp, edits, crossedLoads>>
    BY <1>8 DEF StoreRows, Turn, rec
  <2>5. \A u \in Thread : thread'[u] = IF u = h THEN rec ELSE thread[u]
    BY <2>4 DEF RefTypeOK
  <2>6. RefTypeOK'
    BY <2>1, <2>2, <2>3, <2>4, <2>5 DEF RefTypeOK
  <2>7. StampsPublished'
    BY <2>2, <2>4, <2>5 DEF StampsPublished, RefTypeOK
  <2>8. OldIsCrossed'
    BY <2>1, <2>2, <2>4, <2>5 DEF OldIsCrossed, RefTypeOK
  <2>9. OwnLoadIsNew' /\ NeverOlderThanStamp'
    BY <2>1, <2>2, <2>3, <2>5 DEF OwnLoadIsNew, NeverOlderThanStamp
  <2> QED BY <2>6, <2>7, <2>8, <2>9
<1>9. ASSUME NEW h \in Thread, Resolve(h) \/ Unavailable(h) PROVE RefInv'
  BY <1>9, WaitingFits, ThreadMoves DEF Resolve, Unavailable, Turn, RefTypeOK
<1> QED
  BY <1>1, <1>2, <1>3, <1>4, <1>5, <1>6, <1>7, <1>8, <1>9 DEF RefNext

\* _get never hands out rows older than the stamp it compared, but for a load
\* that crossed another thread's drop.
THEOREM RowsAreCurrent == RefSpec => []NeverOlderThanStamp
<1>1. RefInv => NeverOlderThanStamp
  BY DEF RefInv
<1> QED BY <1>1, RefInitially, RefStep, PTL DEF RefSpec

-----------------------------------------------------------------------------
(* The credentials.                                                        *)

CredSpec == CredInit /\ [][CredNext]_credVars

CredRow == [key : Nat, active : BOOLEAN]
CredEdit == [c : Cred, op : {"rotate", "revoke"}]

\* Every variable keeps the type of the value it stands for.
CredTypeOK ==
    /\ row \in [Cred -> CredRow \cup {NoCred}]
    /\ editing \in [Editor -> CredEdit \cup {NoCred}]
    /\ nkeys \in Nat

\* A request holds an id that has a row.
EditedExists == \A e \in Editor : editing[e] # NoCred => row[editing[e].c] # NoCred

\* A revoked row stays closed, because no rotation that would open it again
\* holds its id.
RevokedClosed ==
    \A c \in revoked \ overtaken :
        /\ c \in Cred /\ row[c] # NoCred /\ ~ row[c].active
        /\ \A e \in Editor : editing[e] # NoCred => ~(editing[e].c = c /\ editing[e].op = "rotate")

CredInv == CredTypeOK /\ EditedExists /\ RevokedClosed

\* No credential and no request yet.
LEMMA CredInitially == CredInit => CredInv
  BY DEF CredInit, CredInv, CredTypeOK, EditedExists, RevokedClosed

\* Every step of an owner's request keeps the invariant.
LEMMA CredStep == CredInv /\ [CredNext]_credVars => CredInv'
<1> SUFFICES ASSUME CredInv, [CredNext]_credVars PROVE CredInv'
  OBVIOUS
<1> USE NoCredAssumption DEF CredInv, CredTypeOK, CredRow, CredEdit, EditedExists, RevokedClosed
<1>1. CASE UNCHANGED credVars
  BY <1>1 DEF credVars
<1>2. CASE RestartKeyless
  BY <1>2 DEF RestartKeyless
<1>3. ASSUME NEW c \in Cred, Create(c) PROVE CredInv'
  BY <1>3 DEF Create
<1>4. ASSUME NEW e \in Editor, NEW c \in Cred, NEW op \in {"rotate", "revoke"}, EditRead(e, c, op)
      PROVE  CredInv'
  BY <1>4 DEF EditRead, get_credential
<1>5. ASSUME NEW e \in Editor, Rotate(e) PROVE CredInv'
  <2> DEFINE c == editing[e].c
  <2>1. c \in Cred /\ row[c] # NoCred /\ c \notin revoked \ overtaken
    BY <1>5 DEF Rotate
  <2>2. /\ editing' = [editing EXCEPT ![e] = NoCred]
        /\ UNCHANGED <<revoked, overtaken>>
    BY <1>5 DEF Rotate
  <2>3. CASE UNCHANGED <<row, nkeys>>
    BY <2>2, <2>3
  <2>4. CASE nkeys' = nkeys + 1 /\ row' = [row EXCEPT ![c] = [key |-> nkeys + 1, active |-> TRUE]]
    <3>1. CredTypeOK'
      BY <2>1, <2>2, <2>4
    <3>2. /\ \A d \in Cred : d # c => row'[d] = row[d]
          /\ row'[c] # NoCred
          /\ \A u \in Editor : editing'[u] = IF u = e THEN NoCred ELSE editing[u]
      <4>1. [key |-> nkeys + 1, active |-> TRUE] \in CredRow
        OBVIOUS
      <4>2. [key |-> nkeys + 1, active |-> TRUE] # NoCred
        BY <4>1
      <4> QED BY <2>1, <2>2, <2>4, <4>2
    <3>3. EditedExists' /\ RevokedClosed'
      BY <2>1, <2>2, <3>2
    <3> QED BY <3>1, <3>3
  <2> QED BY <1>5, <2>3, <2>4 DEF Rotate
<1>6. ASSUME NEW e \in Editor, Revoke(e) PROVE CredInv'
  <2> DEFINE c == editing[e].c
             holders == {u \in Editor \ {e} : editing[u] # NoCred /\ editing[u].c = c
                                                /\ editing[u].op = "rotate"}
  <2>1. c \in Cred /\ row[c] # NoCred
    BY <1>6 DEF Revoke
  <2>2. editing' = [editing EXCEPT ![e] = NoCred] /\ UNCHANGED nkeys
    BY <1>6 DEF Revoke
  <2>3. CASE UNCHANGED <<row, revoked, overtaken>>
    BY <2>2, <2>3
  <2>4. CASE /\ row' = [row EXCEPT ![c] = [key |-> 0, active |-> FALSE]]
             /\ revoked' = revoked \cup {c}
             /\ overtaken' = IF holders = {} THEN overtaken ELSE overtaken \cup {c}
    <3>1. CredTypeOK'
      BY <2>1, <2>2, <2>4
    <3>2. /\ \A d \in Cred : d # c => row'[d] = row[d]
          /\ row'[c] # NoCred /\ ~ row'[c].active
          /\ \A u \in Editor : editing'[u] = IF u = e THEN NoCred ELSE editing[u]
      <4>1. [key |-> 0, active |-> FALSE] \in CredRow
        OBVIOUS
      <4>2. [key |-> 0, active |-> FALSE] # NoCred
        BY <4>1
      <4> QED BY <2>1, <2>2, <2>4, <4>2
    <3>3. EditedExists'
      BY <2>1, <3>2
    <3>4. c \in revoked' \ overtaken' =>
            \A u \in Editor : editing'[u] # NoCred => ~(editing'[u].c = c /\ editing'[u].op = "rotate")
      BY <2>4, <3>2
    <3>5. \A d \in revoked' \ overtaken' : d = c \/ d \in revoked \ overtaken
      BY <2>4
    <3>6. RevokedClosed'
      BY <2>1, <3>2, <3>4, <3>5
    <3> QED BY <3>1, <3>3, <3>6
  <2> QED BY <1>6, <2>3, <2>4 DEF Revoke
<1> QED
  BY <1>1, <1>2, <1>3, <1>4, <1>5, <1>6 DEF CredNext

\* decrypt_credential gives the broker adapter no keys of a credential its owner
\* revoked, unless a rotation had read the row before.
THEOREM RevokedStaysClosed == CredSpec => []RevokedNotServed
<1>1. CredInv => RevokedNotServed
  BY DEF CredInv, RevokedClosed, RevokedNotServed, decrypt_credential, get_credential
<1> QED BY <1>1, CredInitially, CredStep, PTL DEF CredSpec

-----------------------------------------------------------------------------
(* The sessions.                                                           *)

AuthSpec == AuthInit /\ [][AuthNext]_authVars

UserRow == [active : BOOLEAN, gen : Gen]

\* Every variable keeps the type of the value it stands for.
AuthTypeOK ==
    /\ user \in UserRow /\ tokens \subseteq Gen
    /\ cache \in [row : UserRow, left : Int] \cup {NoUser}
    /\ req \in [HttpRequest -> [pc : {"free", "login", "resolve"}, row : UserRow \cup {NoUser}, gen : Gen]]
    /\ \A r \in HttpRequest : req[r].pc # "free" => req[r].row \in UserRow
    /\ lapsed \in [Gen -> Nat] /\ longest \in Nat

\* Tokens of the row as it is, and of an active row a request holds, were good
\* within this tick.
HeldIsFresh ==
    /\ user.active => lapsed[user.gen] = 0
    /\ \A r \in HttpRequest : req[r].pc # "free" /\ req[r].row.active => lapsed[req[r].row.gen] = 0

\* What an entry of the cache has left, and how long ago its row was true, make
\* up its lifetime.
EntryAge ==
    cache # NoUser /\ cache.left >= 0 =>
        /\ cache.left =< CacheTtl
        /\ cache.row.active => lapsed[cache.row.gen] + cache.left =< CacheTtl

AuthInv == AuthTypeOK /\ HeldIsFresh /\ EntryAge /\ RevokedIsRefused

\* Nobody has logged in.
LEMMA AuthInitially == AuthInit => AuthInv
  BY AuthAssumption DEF AuthInit, AuthInv, AuthTypeOK, HeldIsFresh, EntryAge, RevokedIsRefused,
     UserRow, NoRequest, Gen

\* Every request, every change of the row and every tick keeps the invariant.
LEMMA AuthStep == AuthInv /\ [AuthNext]_authVars => AuthInv'
<1> SUFFICES ASSUME AuthInv, [AuthNext]_authVars PROVE AuthInv'
  OBVIOUS
<1> USE AuthAssumption DEF AuthInv, UserRow
<1>0. NoRequest.pc = "free" /\ NoRequest.row = NoUser /\ NoRequest.gen \in Gen
      /\ NoRequest \in [pc : {"free", "login", "resolve"}, row : UserRow \cup {NoUser}, gen : Gen]
  BY DEF NoRequest, Gen
<1> USE DEF AuthTypeOK, HeldIsFresh, EntryAge, RevokedIsRefused
<1>1. CASE UNCHANGED authVars
  BY <1>1 DEF authVars
<1>2. CASE ChangeUser
  <2>1. /\ user' \in UserRow
        /\ lapsed' = [g \in Gen |-> IF user'.active /\ user'.gen = g THEN 0 ELSE lapsed[g]]
        /\ UNCHANGED <<tokens, cache, req, longest>>
    <3>1. user.gen + 1 \in Gen
      BY <1>2 DEF ChangeUser, Gen
    <3>2. PICK active \in BOOLEAN : user' = [user EXCEPT !.active = active, !.gen = user.gen + 1]
      BY <1>2 DEF ChangeUser
    <3>3. user' \in UserRow
      BY <3>1, <3>2
    <3> QED BY <1>2, <3>3 DEF ChangeUser
  <2>2. lapsed' \in [Gen -> Nat] /\ \A g \in Gen : lapsed'[g] \in {0, lapsed[g]}
    BY <2>1
  <2>3. user'.active => lapsed'[user'.gen] = 0
    BY <2>1
  <2>4. HeldIsFresh'
    BY <2>1, <2>2, <2>3
  <2>5. EntryAge'
    BY <2>1, <2>2
  <2> QED BY <2>1, <2>2, <2>4, <2>5
<1>3. CASE TimePasses
  <2>1. /\ lapsed' = [g \in Gen |-> IF good(g) THEN 0
                                     ELSE IF lapsed[g] < MaxLapse THEN lapsed[g] + 1 ELSE MaxLapse]
        /\ tokens' \subseteq tokens /\ UNCHANGED <<user, req, longest>>
        /\ \A r \in HttpRequest : req[r].pc = "free"
    BY <1>3 DEF TimePasses
  <2>2. \A g \in Gen : lapsed'[g] \in Nat /\ (lapsed[g] =< CacheTtl => lapsed'[g] =< lapsed[g] + 1)
    BY <2>1 DEF MaxLapse
  <2>3. lapsed' \in [Gen -> Nat]
    BY <2>1, <2>2
  <2>4. user.active => lapsed'[user.gen] = 0
    BY <2>1 DEF good
  <2>5. CASE cache = NoUser
    BY <1>3, <2>1, <2>3, <2>4, <2>5 DEF TimePasses
  <2>6. CASE cache # NoUser
    <3>1. cache' = [cache EXCEPT !.left = IF cache.left < 0 THEN cache.left ELSE cache.left - 1]
      BY <1>3, <2>6 DEF TimePasses
    <3>2. /\ cache' \in [row : UserRow, left : Int] /\ cache'.row = cache.row
          /\ cache'.left = IF cache.left < 0 THEN cache.left ELSE cache.left - 1
      BY <2>6, <3>1
    <3>3. EntryAge'
      BY <2>2, <2>6, <3>2
    <3> QED BY <2>1, <2>3, <2>4, <3>2, <3>3
  <2> QED BY <2>5, <2>6
<1>4. CASE RestartApi
  BY <1>0, <1>4 DEF RestartApi
<1>5. ASSUME NEW r \in HttpRequest, LoginRead(r) PROVE AuthInv'
  BY <1>5 DEF LoginRead, Handle, Gen
<1>6. ASSUME NEW r \in HttpRequest, Login(r) PROVE AuthInv'
  BY <1>0, <1>6 DEF Login, Handle, cached
<1>7. ASSUME NEW r \in HttpRequest, RequestCached(r) PROVE AuthInv'
  BY <1>7 DEF RequestCached, LetIn, allows, cache_get
<1>8. ASSUME NEW r \in HttpRequest, RequestRead(r) PROVE AuthInv'
  BY <1>8 DEF RequestRead, Handle
<1>9. ASSUME NEW r \in HttpRequest, RequestResolve(r) PROVE AuthInv'
  BY <1>0, <1>9 DEF RequestResolve, LetIn, allows, Handle, cached
<1>10. ASSUME NEW r \in HttpRequest, Logout(r) PROVE AuthInv'
  BY <1>10 DEF Logout
<1> QED
  BY <1>1, <1>2, <1>3, <1>4, <1>5, <1>6, <1>7, <1>8, <1>9, <1>10 DEF AuthNext

\* require_user lets a token in at most the cache's lifetime after it ended,
\* however requests, logins and changes of the row interleave.
THEOREM RevokedEndsInTime == AuthSpec => []RevokedIsRefused
<1>1. AuthInv => RevokedIsRefused
  BY DEF AuthInv
<1> QED BY <1>1, AuthInitially, AuthStep, PTL DEF AuthSpec

-----------------------------------------------------------------------------
(* The subscriptions.                                                      *)

SubscrSpec == SubscrInit /\ [][SubscrNext]_subscrVars

SubscrRow == [s : Subscribed, metric : BOOLEAN, enabled : BOOLEAN]
SubscrChoice == [s : Subscribed, id : SubscrId]

\* Every variable keeps the type of the value it stands for.
SubscrTypeOK ==
    /\ subscr \in [SubscrId -> SubscrRow \cup {NoSubscr}]
    /\ choosing \in [Asker -> SubscrChoice \cup {NoSubscr}]

\* One request at a time is about to write a series that did not move, ...
OneChooser ==
    \A a, b \in Asker :
        choosing[a] # NoSubscr /\ choosing[b] # NoSubscr /\ choosing[a].s = choosing[b].s
        /\ choosing[a].s \notin moved => a = b

\* ... and it writes the id that is open, where one is.
ChoosesTheOpenId ==
    \A a \in Asker : choosing[a] # NoSubscr /\ choosing[a].s \notin moved =>
        \A i \in open_provider_ids(choosing[a].s) : i = choosing[a].id

SubscrInv == SubscrTypeOK /\ OneChooser /\ ChoosesTheOpenId /\ OneProviderRow

\* At the start no series is subscribed.
LEMMA SubscrInitially == SubscrInit => SubscrInv
  BY DEF SubscrInit, SubscrInv, SubscrTypeOK, OneChooser, ChoosesTheOpenId, OneProviderRow, open_ids,
         open_provider_ids

\* Every step preserves the invariant of the subscriptions.
LEMMA SubscrStep == SubscrInv /\ [SubscrNext]_subscrVars => SubscrInv'
<1> SUFFICES ASSUME SubscrInv, [SubscrNext]_subscrVars PROVE SubscrInv'
  OBVIOUS
<1> USE SubscrAssumption
<1>0. /\ subscr \in [SubscrId -> SubscrRow \cup {NoSubscr}] /\ choosing \in [Asker -> SubscrChoice \cup {NoSubscr}]
      /\ NoSubscr \notin SubscrRow /\ NoSubscr \notin SubscrChoice
  BY DEF SubscrInv, SubscrTypeOK, SubscrRow, SubscrChoice
<1>1. CASE UNCHANGED subscrVars
  BY <1>1 DEF subscrVars, SubscrInv, SubscrTypeOK, OneChooser, ChoosesTheOpenId, OneProviderRow, open_ids,
              open_provider_ids
<1>2. ASSUME NEW s \in Subscribed, NEW enabled \in BOOLEAN, SubscribeVenue(s, enabled) PROVE SubscrInv'
  <2> DEFINE r == [s |-> s, metric |-> FALSE, enabled |-> enabled]
  <2>1. PICK i \in SubscrId : subscr' = [subscr EXCEPT ![i] = r]
    BY <1>2 DEF SubscribeVenue, sp_ins_series_subscr, fresh_ids, open_ids
  <2>2. r \in SubscrRow /\ ~r.metric /\ UNCHANGED <<choosing, moved>>
    BY <1>2 DEF SubscrRow, SubscribeVenue
  <2> HIDE DEF r
  <2>3. subscr' \in [SubscrId -> SubscrRow \cup {NoSubscr}] /\ \A j \in SubscrId : subscr'[j] = IF j = i THEN r ELSE subscr[j]
    BY <1>0, <2>1, <2>2
  <2>4. \A j \in open_ids' : subscr'[j].metric => j \in open_ids /\ subscr'[j] = subscr[j]
    BY <2>2, <2>3 DEF open_ids
  <2>5. OneProviderRow'
    BY <2>2, <2>4 DEF OneProviderRow, SubscrInv
  <2>6. ChoosesTheOpenId'
    BY <2>2, <2>4 DEF ChoosesTheOpenId, SubscrInv, open_provider_ids
  <2> QED BY <1>0, <2>2, <2>3, <2>5, <2>6 DEF SubscrInv, SubscrTypeOK, OneChooser
<1>3. ASSUME NEW a \in Asker, NEW s \in Subscribed, ChooseProvider(a, s) PROVE SubscrInv'
  <2> DEFINE found == IF open_provider_ids(s) # {} THEN open_provider_ids(s) ELSE fresh_ids
             others == {b \in Asker : choosing[b] # NoSubscr /\ choosing[b].s = s}
  <2>1. PICK i \in SubscrId :
          /\ choosing' = [choosing EXCEPT ![a] = [s |-> s, id |-> i]]
          /\ moved' = IF i \notin found \/ others # {} THEN moved \cup {s} ELSE moved
    BY <1>3 DEF ChooseProvider, open_provider_ids, fresh_ids, open_ids
  <2>2. UNCHANGED <<subscr, versions>> /\ choosing[a] = NoSubscr
    BY <1>3 DEF ChooseProvider
  <2>3. [s |-> s, id |-> i] \in SubscrChoice
    BY DEF SubscrChoice
  <2>4. /\ choosing' \in [Asker -> SubscrChoice \cup {NoSubscr}]
        /\ \A b \in Asker : choosing'[b] = IF b = a THEN [s |-> s, id |-> i] ELSE choosing[b]
    BY <1>0, <2>1, <2>3
  <2>5. s \notin moved' => i \in found /\ others = {} /\ moved' = moved
    BY <2>1
  <2>6. \A t : t \notin moved' => t \notin moved
    BY <2>1
  <2>7. OneChooser'
    <3> SUFFICES ASSUME NEW b \in Asker, NEW c \in Asker, choosing'[b] # NoSubscr, choosing'[c] # NoSubscr,
                        choosing'[b].s = choosing'[c].s, choosing'[b].s \notin moved'
                 PROVE  b = c
      BY DEF OneChooser
    <3>1. CASE b # a /\ c # a
      BY <2>4, <2>6, <3>1 DEF SubscrInv, OneChooser
    <3>2. CASE b = a /\ c # a
      BY <2>4, <2>5, <3>2
    <3>3. CASE b # a /\ c = a
      BY <2>4, <2>5, <3>3
    <3> QED BY <3>1, <3>2, <3>3
  <2>8. open_ids' = open_ids /\ \A t : open_provider_ids(t)' = open_provider_ids(t)
    BY <2>2 DEF open_ids, open_provider_ids
  <2>9. OneProviderRow'
    BY <2>2, <2>6, <2>8 DEF SubscrInv, OneProviderRow
  <2>10. ChoosesTheOpenId'
    <3> SUFFICES ASSUME NEW b \in Asker, choosing'[b] # NoSubscr, choosing'[b].s \notin moved',
                        NEW j \in SubscrId, subscr[j] # NoSubscr, subscr[j].metric, subscr[j].s = choosing'[b].s
                 PROVE  j = choosing'[b].id
      BY <2>2 DEF ChoosesTheOpenId, open_provider_ids, open_ids
    <3>1. CASE b # a
      BY <2>4, <2>6, <3>1 DEF SubscrInv, ChoosesTheOpenId, open_provider_ids, open_ids
    <3>2. CASE b = a
      <4>1. choosing'[b].s = s /\ choosing'[b].id = i
        BY <2>4, <3>2
      <4>2. j \in open_provider_ids(s)
        BY <4>1 DEF open_provider_ids, open_ids
      <4>3. i \in open_provider_ids(s)
        BY <2>5, <4>1, <4>2
      <4> QED BY <2>5, <4>1, <4>2, <4>3 DEF SubscrInv, OneProviderRow, open_provider_ids
    <3> QED BY <3>1, <3>2
  <2> QED BY <1>0, <2>2, <2>4, <2>7, <2>9, <2>10 DEF SubscrInv, SubscrTypeOK
<1>4. ASSUME NEW a \in Asker, NEW enabled \in BOOLEAN, SubscribeProvider(a, enabled) PROVE SubscrInv'
  <2> DEFINE r == [s |-> choosing[a].s, metric |-> TRUE, enabled |-> enabled]
             i == choosing[a].id
  <2>1. /\ choosing[a] # NoSubscr /\ choosing[a] \in SubscrChoice
        /\ subscr' = [subscr EXCEPT ![i] = r] /\ choosing' = [choosing EXCEPT ![a] = NoSubscr] /\ moved' = moved
    BY <1>0, <1>4 DEF SubscribeProvider, sp_ins_series_subscr
  <2>2. i \in SubscrId /\ choosing[a].s \in Subscribed
    BY <2>1 DEF SubscrChoice
  <2>3. r \in SubscrRow /\ r.metric /\ r.s = choosing[a].s
    BY <2>2 DEF SubscrRow
  <2> HIDE DEF r
  <2>4. subscr' \in [SubscrId -> SubscrRow \cup {NoSubscr}] /\ \A j \in SubscrId : subscr'[j] = IF j = i THEN r ELSE subscr[j]
    BY <1>0, <2>1, <2>2, <2>3
  <2>5. /\ choosing' \in [Asker -> SubscrChoice \cup {NoSubscr}]
        /\ \A b \in Asker : choosing'[b] = IF b = a THEN NoSubscr ELSE choosing[b]
    BY <1>0, <2>1
  <2>6. OneChooser'
    BY <2>1, <2>5 DEF SubscrInv, OneChooser
  <2>7. OneProviderRow'
    <3> SUFFICES ASSUME NEW j \in SubscrId, NEW k \in SubscrId, subscr'[j] # NoSubscr, subscr'[k] # NoSubscr,
                        subscr'[j].metric, subscr'[k].metric, subscr'[j].s = subscr'[k].s,
                        subscr'[j].s \notin moved
                 PROVE  j = k
      BY <2>1 DEF OneProviderRow, open_ids
    <3>1. CASE j # i /\ k # i
      BY <2>4, <3>1 DEF SubscrInv, OneProviderRow, open_ids
    <3>2. CASE j = i /\ k # i
      <4>1. k \in open_provider_ids(choosing[a].s) /\ choosing[a].s \notin moved
        BY <2>3, <2>4, <3>2 DEF open_provider_ids, open_ids
      <4> QED BY <2>1, <3>2, <4>1 DEF SubscrInv, ChoosesTheOpenId
    <3>3. CASE j # i /\ k = i
      <4>1. j \in open_provider_ids(choosing[a].s) /\ choosing[a].s \notin moved
        BY <2>3, <2>4, <3>3 DEF open_provider_ids, open_ids
      <4> QED BY <2>1, <3>3, <4>1 DEF SubscrInv, ChoosesTheOpenId
    <3> QED BY <3>1, <3>2, <3>3
  <2>8. ChoosesTheOpenId'
    <3> SUFFICES ASSUME NEW b \in Asker, choosing'[b] # NoSubscr, choosing'[b].s \notin moved,
                        NEW j \in SubscrId, subscr'[j] # NoSubscr, subscr'[j].metric, subscr'[j].s = choosing'[b].s
                 PROVE  j = choosing'[b].id
      BY <2>1 DEF ChoosesTheOpenId, open_provider_ids, open_ids
    <3>1. b # a /\ choosing'[b] = choosing[b]
      BY <2>5
    <3>2. j # i
      BY <2>1, <2>3, <2>4, <3>1 DEF SubscrInv, OneChooser
    <3> QED BY <2>4, <3>1, <3>2 DEF SubscrInv, ChoosesTheOpenId, open_provider_ids, open_ids
  <2> QED BY <1>0, <2>4, <2>5, <2>6, <2>7, <2>8 DEF SubscrInv, SubscrTypeOK
<1> QED BY <1>1, <1>2, <1>3, <1>4 DEF SubscrNext

\* However many requests subscribe, version, disable and move series
\* (SeriesSubscrRepo.subscribe, series_subscr.py), a provider's series has one
\* open row unless two requests chose at once or an id was given by hand.
THEOREM ProviderRowIsUnique == SubscrSpec => []OneProviderRow
<1>1. SubscrInv => OneProviderRow
  BY DEF SubscrInv
<1> QED BY <1>1, SubscrInitially, SubscrStep, PTL DEF SubscrSpec

-----------------------------------------------------------------------------
(* The venues' minimum lots.                                               *)

LimitSpec == LimitInit /\ [][LimitNext]_limitVars

\* What was ever published for an app.
Snapshots == {NoLimit} \cup {history[v][app] : v \in 0..limits.ver, app \in BrokerApp}

CheckRec ==
    [pc : {"idle", "compare", "load", "loaded", "answer"}, market : Market \cup {NoLimit}, seen : Nat,
     snap : Snapshots, ver : Nat, excused : BOOLEAN]

\* Every variable keeps the type of the value it stands for.
LimitTypeOK ==
    /\ limits.ver \in Nat /\ localStamp \in 0..limits.ver
    /\ local \in [BrokerApp -> [has : BOOLEAN, snap : Snapshots, ver : Nat]]
    /\ check \in [Edition -> CheckRec]

\* What is read of a venue, and what is published, is what the venue had.
PublishedTrue ==
    /\ \A app \in DOMAIN fetched : fetched[app].limits \in {NoLimit, fetched[app].venue}
    /\ \A app \in BrokerApp : limits.byApp[app] = history[limits.ver][app]

\* A local snapshot is of its stamp, and not before the thread's last drop
\* unless its load crossed that drop.
LocalTrue ==
    \A app \in BrokerApp : local[app].has =>
        /\ local[app].ver <= limits.ver
        /\ local[app].snap # NoLimit => local[app].snap = history[local[app].ver][app]
        /\ app \notin crossed => localStamp <= local[app].ver

\* The locals of one get.
CheckTrue(c) ==
    /\ c.pc # "idle" => c.market \in Market
    /\ c.seen <= limits.ver
    /\ c.pc = "loaded" => /\ c.seen <= c.ver /\ c.ver <= limits.ver
                          /\ c.snap # NoLimit => c.snap = history[c.ver][c.market.app]
                          /\ c.market.app \notin crossed => localStamp <= c.ver
    /\ c.pc = "answer" /\ c.snap # NoLimit =>
         c.excused \/ \E v \in c.seen..limits.ver : history[v][c.market.app] = c.snap

LimitInv == LimitTypeOK /\ PublishedTrue /\ LocalTrue /\ \A e \in Edition : CheckTrue(check[e])

\* At the start no request holds a snapshot.
LEMMA LimitInitially == LimitInit => LimitInv
<1> SUFFICES ASSUME LimitInit PROVE LimitInv
  OBVIOUS
<1>1. limits.ver = 0 /\ localStamp = 0 /\ NoLimit \in Snapshots
  BY DEF LimitInit, Snapshots
<1>2. \A e \in Edition : check[e] = Unchecked
  BY DEF LimitInit
<1>3. Unchecked \in CheckRec
  BY <1>1 DEF Unchecked, CheckRec
<1>4. LimitTypeOK
  BY <1>1, <1>3 DEF LimitInit, LimitTypeOK, Dropped
<1>5. PublishedTrue
  BY DEF LimitInit, PublishedTrue, Nowhere
<1>6. LocalTrue
  BY DEF LimitInit, LocalTrue, Dropped
<1>7. \A e \in Edition : CheckTrue(check[e])
  BY <1>1, <1>2 DEF CheckTrue, Unchecked
<1> QED BY <1>4, <1>5, <1>6, <1>7 DEF LimitInv

\* A step of one thread's get that publishes nothing.
LEMMA CheckMoves ==
    ASSUME LimitInv, NEW e \in Edition, NEW x, x \in CheckRec, check' = [check EXCEPT ![e] = x],
           UNCHANGED <<lots, fetched, limits, history>>,
           localStamp' \in 0..limits.ver, local' \in [BrokerApp -> [has : BOOLEAN, snap : Snapshots, ver : Nat]],
           LocalTrue', CheckTrue(x)',
           \A u \in Edition : u # e /\ check[u].pc = "loaded" /\ check[u].market.app \notin crossed'
                                => localStamp' <= check[u].ver
    PROVE  LimitInv'
<1>1. Snapshots' = Snapshots
  BY DEF Snapshots
<1>2. CheckRec' = CheckRec
  BY <1>1 DEF CheckRec
<1>3. check \in [Edition -> CheckRec] /\ limits.ver \in Nat
  BY DEF LimitInv, LimitTypeOK
<1>4. check' \in [Edition -> CheckRec] /\ \A u \in Edition : check'[u] = IF u = e THEN x ELSE check[u]
  BY <1>3
<1>5. LimitTypeOK'
  BY <1>1, <1>2, <1>3, <1>4 DEF LimitTypeOK
<1>6. PublishedTrue'
  BY DEF LimitInv, PublishedTrue
<1>7. ASSUME NEW u \in Edition PROVE CheckTrue(check[u])'
  <2>1. CASE u = e
    BY <1>4, <2>1 DEF CheckTrue
  <2>2. CASE u # e
    <3>1. CheckTrue(check[u]) /\ check'[u] = check[u]
      BY <1>4, <2>2 DEF LimitInv
    <3> QED BY <2>2, <3>1 DEF CheckTrue
  <2> QED BY <2>1, <2>2
<1> QED BY <1>5, <1>6, <1>7 DEF LimitInv

\* A publication or a fetch: the past is kept, and so is what was read of it.
LEMMA PublisherMoves ==
    ASSUME LimitInv, PublishedTrue', UNCHANGED <<local, localStamp, check, crossed>>,
           limits'.ver \in Nat, limits.ver <= limits'.ver,
           \A v \in 0..limits.ver : \A app \in BrokerApp : history'[v][app] = history[v][app]
    PROVE  LimitInv'
<1>1. limits.ver \in Nat /\ localStamp \in 0..limits.ver
  BY DEF LimitInv, LimitTypeOK
<1>2. Snapshots \subseteq Snapshots'
  <2> SUFFICES ASSUME NEW v \in 0..limits.ver, NEW app \in BrokerApp PROVE history[v][app] \in Snapshots'
    BY DEF Snapshots
  <2>1. v \in 0..limits'.ver /\ history'[v][app] = history[v][app]
    BY <1>1
  <2> QED BY <2>1 DEF Snapshots
<1>3. \A c \in CheckRec : c \in CheckRec'
  BY <1>2 DEF CheckRec
<1>4. LimitTypeOK'
  <2>1. local' \in [BrokerApp -> [has : BOOLEAN, snap : Snapshots', ver : Nat]]
    <3>1. local \in [BrokerApp -> [has : BOOLEAN, snap : Snapshots, ver : Nat]]
      BY DEF LimitInv, LimitTypeOK
    <3>2. \A r \in [has : BOOLEAN, snap : Snapshots, ver : Nat] : r \in [has : BOOLEAN, snap : Snapshots', ver : Nat]
      BY <1>2
    <3> QED BY <3>1, <3>2
  <2>2. check' \in [Edition -> CheckRec']
    <3>1. check \in [Edition -> CheckRec]
      BY DEF LimitInv, LimitTypeOK
    <3> QED BY <1>3, <3>1
  <2>3. limits'.ver \in Nat /\ localStamp' \in 0..limits'.ver
    BY <1>1
  <2> QED BY <2>1, <2>2, <2>3 DEF LimitTypeOK
<1>5. LocalTrue'
  <2> SUFFICES ASSUME NEW app \in BrokerApp, local[app].has
               PROVE  /\ local[app].ver <= limits'.ver
                      /\ local[app].snap # NoLimit => local[app].snap = history'[local[app].ver][app]
                      /\ app \notin crossed => localStamp <= local[app].ver
    BY DEF LocalTrue
  <2>1. /\ local[app].ver <= limits.ver /\ local[app].ver \in Nat
        /\ local[app].snap # NoLimit => local[app].snap = history[local[app].ver][app]
        /\ app \notin crossed => localStamp <= local[app].ver
    BY DEF LimitInv, LocalTrue, LimitTypeOK
  <2>2. local[app].ver \in 0..limits.ver
    BY <1>1, <2>1
  <2> QED BY <1>1, <2>1, <2>2
<1>6. ASSUME NEW e \in Edition PROVE CheckTrue(check[e])'
  <2> DEFINE c == check[e]
  <2>1. CheckTrue(c) /\ c \in CheckRec
    BY DEF LimitInv, LimitTypeOK
  <2>2. c.seen \in Nat /\ c.ver \in Nat
    BY <2>1 DEF CheckRec
  <2>3. check'[e] = c
    OBVIOUS
  <2> HIDE DEF c
  <2>4. c.seen <= limits.ver /\ c.seen <= limits'.ver /\ (c.pc # "idle" => c.market \in Market)
    BY <1>1, <2>1, <2>2 DEF CheckTrue
  <2>5. ASSUME c.pc = "loaded"
        PROVE  /\ c.seen <= c.ver /\ c.ver <= limits'.ver
               /\ c.snap # NoLimit => c.snap = history'[c.ver][c.market.app]
               /\ c.market.app \notin crossed => localStamp <= c.ver
    <3>1. c.ver \in 0..limits.ver /\ c.market.app \in BrokerApp
      BY <1>1, <2>1, <2>2, <2>4, <2>5, MarketAssumption DEF CheckTrue
    <3> QED BY <1>1, <2>1, <2>2, <2>5, <3>1 DEF CheckTrue
  <2>6. ASSUME c.pc = "answer", c.snap # NoLimit, ~c.excused
        PROVE  \E v \in c.seen..limits'.ver : history'[v][c.market.app] = c.snap
    <3>1. PICK v \in c.seen..limits.ver : history[v][c.market.app] = c.snap
      BY <2>1, <2>6 DEF CheckTrue
    <3>2. v \in 0..limits.ver /\ v \in c.seen..limits'.ver /\ c.market.app \in BrokerApp
      BY <1>1, <2>2, <2>4, <2>6, <3>1, MarketAssumption
    <3> QED BY <3>1, <3>2
  <2> QED BY <2>3, <2>4, <2>5, <2>6 DEF CheckTrue
<1> QED BY <1>4, <1>5, <1>6 DEF LimitInv

\* Every step preserves the invariant of the venue limits.
LEMMA LimitStep == LimitInv /\ [LimitNext]_limitVars => LimitInv'
<1> SUFFICES ASSUME LimitInv, [LimitNext]_limitVars PROVE LimitInv'
  OBVIOUS
<1>0. /\ limits.ver \in Nat /\ localStamp \in 0..limits.ver
      /\ local \in [BrokerApp -> [has : BOOLEAN, snap : Snapshots, ver : Nat]]
      /\ check \in [Edition -> CheckRec] /\ \A e \in Edition : CheckTrue(check[e])
  BY DEF LimitInv, LimitTypeOK
<1>1. CASE UNCHANGED limitVars
  <2>1. PublishedTrue' /\ UNCHANGED <<local, localStamp, check, crossed, limits, history>>
    BY <1>1 DEF limitVars, LimitInv, PublishedTrue
  <2> QED BY <1>0, <2>1, PublisherMoves
<1>2. ASSUME NEW app \in BrokerApp, FetchLimits(app) PROVE LimitInv'
  <2>1. UNCHANGED <<local, localStamp, check, crossed, limits, history, lots>>
    BY <1>2 DEF FetchLimits
  <2> DEFINE venue == [t \in Types(app) |-> lots[[app |-> app, type |-> t]]]
  <2>2. PICK got \in {venue, NoLimit} :
          fetched' = [a \in DOMAIN fetched \cup {app} |->
                        IF a = app THEN [limits |-> got, venue |-> venue] ELSE fetched[a]]
    BY <1>2 DEF FetchLimits, _fetch
  <2> HIDE DEF venue
  <2>3. \A a \in DOMAIN fetched' : fetched'[a].limits \in {NoLimit, fetched'[a].venue}
    BY <2>2 DEF LimitInv, PublishedTrue
  <2>4. PublishedTrue'
    BY <2>1, <2>3 DEF LimitInv, PublishedTrue
  <2> QED BY <1>0, <2>1, <2>4, PublisherMoves
<1>3. CASE PublishLimits
  <2> DEFINE replied == {app \in BrokerApp : fetched[app].limits # NoLimit}
             merged == [app \in BrokerApp |-> IF app \in replied THEN fetched[app].limits ELSE limits.byApp[app]]
             venue == [app \in BrokerApp |-> IF app \in replied THEN fetched[app].venue ELSE history[limits.ver][app]]
  <2>1. /\ UNCHANGED <<local, localStamp, check, crossed, lots>>
        /\ DOMAIN fetched = BrokerApp /\ fetched' = [app \in {} |-> NoLimit]
        /\ \/ /\ limits' = [byApp |-> merged, ver |-> limits.ver + 1]
              /\ history' = [v \in 0..limits.ver + 1 |-> IF v > limits.ver THEN venue ELSE history[v]]
           \/ UNCHANGED <<limits, history>>
    BY <1>3 DEF PublishLimits
  <2>2. merged = venue
    BY <2>1 DEF LimitInv, PublishedTrue
  <2> HIDE DEF merged, venue
  <2>3. CASE UNCHANGED <<limits, history>>
    <3>1. PublishedTrue'
      BY <2>1, <2>3 DEF LimitInv, PublishedTrue
    <3> QED BY <1>0, <2>1, <2>3, <3>1, PublisherMoves
  <2>4. CASE /\ limits' = [byApp |-> merged, ver |-> limits.ver + 1]
             /\ history' = [v \in 0..limits.ver + 1 |-> IF v > limits.ver THEN venue ELSE history[v]]
    <3>1. limits'.ver = limits.ver + 1 /\ limits'.byApp = merged
      BY <2>4
    <3>2. history'[limits.ver + 1] = venue /\ \A v \in 0..limits.ver : history'[v] = history[v]
      BY <1>0, <2>4
    <3>3. PublishedTrue'
      BY <2>1, <2>2, <3>1, <3>2 DEF PublishedTrue
    <3>4. limits'.ver \in Nat /\ limits.ver <= limits'.ver
      BY <1>0, <3>1
    <3> QED BY <2>1, <3>2, <3>3, <3>4, PublisherMoves
  <2> QED BY <2>1, <2>3, <2>4
<1>4. ASSUME NEW m \in Market, ChangeLot(m) PROVE LimitInv'
  <2>1. UNCHANGED <<fetched, local, localStamp, check, crossed, limits, history>>
    BY <1>4 DEF ChangeLot
  <2>2. PublishedTrue'
    BY <2>1 DEF LimitInv, PublishedTrue
  <2> QED BY <1>0, <2>1, <2>2, PublisherMoves
<1>5. ASSUME NEW m \in Market, NEW e \in Edition, ReadStamp(e, m) PROVE LimitInv'
  <2>0. PICK x : x = [Unchecked EXCEPT !.pc = "compare", !.market = m, !.seen = limits.ver]
    OBVIOUS
  <2>1. check' = [check EXCEPT ![e] = x] /\ UNCHANGED <<lots, fetched, limits, history, local, localStamp, crossed>>
    BY <1>5, <2>0 DEF ReadStamp, To
  <2>2. x \in CheckRec /\ x.pc = "compare" /\ x.market = m /\ x.seen = limits.ver
    <3>1. NoLimit \in Snapshots /\ Unchecked \in CheckRec
      BY DEF Unchecked, CheckRec, Snapshots
    <3> QED BY <1>0, <2>0, <3>1 DEF CheckRec
  <2>3. LocalTrue'
    BY <2>1 DEF LimitInv, LocalTrue
  <2>4. CheckTrue(x)'
    BY <1>0, <2>1, <2>2 DEF CheckTrue
  <2>5. \A u \in Edition : u # e /\ check[u].pc = "loaded" /\ check[u].market.app \notin crossed'
                             => localStamp' <= check[u].ver
    BY <1>0, <2>1 DEF CheckTrue
  <2> QED BY <1>0, <2>1, <2>2, <2>3, <2>4, <2>5, CheckMoves
<1>6. ASSUME NEW e \in Edition, CompareStamp(e) PROVE LimitInv'
  <2> DEFINE seen == check[e].seen
             app == check[e].market.app
             late == {check[u].market.app : u \in {x \in Edition : check[x].pc = "loaded" /\ check[x].ver < seen}}
             gone(readable) == readable /\ seen # localStamp
             kept(readable) == IF gone(readable) THEN Dropped ELSE local
             rec(readable) == [check[e] EXCEPT !.pc = IF kept(readable)[app].has THEN "answer" ELSE "load",
                                               !.snap = kept(readable)[app].snap,
                                               !.excused = kept(readable)[app].has /\ app \in crossed,
                                               !.seen = IF readable THEN seen ELSE 0]
  <2>1. PICK readable \in BOOLEAN :
          /\ local' = kept(readable) /\ localStamp' = IF gone(readable) THEN seen ELSE localStamp
          /\ crossed' = IF gone(readable) THEN late ELSE crossed
          /\ check' = [check EXCEPT ![e] = rec(readable)]
    BY <1>6 DEF CompareStamp, To
  <2>2. UNCHANGED <<lots, fetched, limits, history>> /\ check[e].pc = "compare"
    BY <1>6 DEF CompareStamp
  <2>3. check[e].market \in Market /\ app \in BrokerApp /\ seen \in Nat /\ seen <= limits.ver /\ check[e] \in CheckRec
    BY <1>0, <2>2, MarketAssumption DEF CheckTrue, CheckRec
  <2> DEFINE sn == IF readable THEN seen ELSE 0
             k == kept(readable)[app]
             exc == k.has /\ app \in crossed
  <2>0. PICK x : x = [check[e] EXCEPT !.pc = IF k.has THEN "answer" ELSE "load", !.snap = k.snap,
                                      !.excused = exc, !.seen = sn]
    OBVIOUS
  <2>4. check' = [check EXCEPT ![e] = x]
    BY <2>0, <2>1
  <2>5. kept(readable) \in [BrokerApp -> [has : BOOLEAN, snap : Snapshots, ver : Nat]]
    BY <1>0 DEF Dropped, Snapshots
  <2>6. k \in [has : BOOLEAN, snap : Snapshots, ver : Nat]
    BY <2>3, <2>5
  <2>7. sn \in Nat /\ sn <= limits.ver
    BY <1>0, <2>3
  <2>8. exc \in BOOLEAN
    OBVIOUS
  <2>9. k.has => k = local[app] /\ ~gone(readable)
    BY <2>3 DEF Dropped
  <2> HIDE DEF k, sn, exc
  <2>10. x \in CheckRec /\ x.pc = (IF k.has THEN "answer" ELSE "load") /\ x.snap = k.snap /\ x.excused = exc
         /\ x.seen = sn /\ x.market = check[e].market
    BY <2>0, <2>3, <2>6, <2>7, <2>8 DEF CheckRec
  <2>11. CheckTrue(x)'
    <3>1. ASSUME k.has, k.snap # NoLimit, ~exc PROVE \E v \in sn..limits.ver : history[v][app] = k.snap
      <4>1. app \notin crossed
        BY <3>1 DEF exc
      <4>2. /\ k.ver \in Nat /\ k.ver <= limits.ver /\ k.snap = history[k.ver][app] /\ localStamp <= k.ver
        BY <2>3, <2>6, <2>9, <3>1, <4>1 DEF LimitInv, LocalTrue
      <4>3. sn <= k.ver
        BY <1>0, <2>3, <2>9, <3>1, <4>2 DEF sn
      <4>4. k.ver \in sn..limits.ver
        BY <1>0, <2>7, <4>2, <4>3
      <4> QED BY <4>2, <4>4
    <3> QED BY <2>2, <2>3, <2>7, <2>10, <3>1 DEF CheckTrue
  <2>12. LocalTrue'
    <3>1. CASE gone(readable)
      BY <2>1, <3>1 DEF LocalTrue, Dropped
    <3>2. CASE ~gone(readable)
      BY <2>1, <2>2, <3>2 DEF LimitInv, LocalTrue
    <3> QED BY <3>1, <3>2
  <2>13. localStamp' \in 0..limits.ver
    BY <1>0, <2>1, <2>3
  <2>14. ASSUME NEW u \in Edition, u # e, check[u].pc = "loaded", check[u].market.app \notin crossed'
         PROVE  localStamp' <= check[u].ver
    <3>1. check[u].ver \in Nat
      BY <1>0 DEF CheckRec
    <3>2. CASE gone(readable)
      <4>1. check[u].market.app \notin late
        BY <2>1, <2>14, <3>2
      <4>2. ~(check[u].ver < seen)
        BY <2>14, <4>1
      <4> QED BY <2>1, <2>3, <3>1, <3>2, <4>2
    <3>3. CASE ~gone(readable)
      BY <1>0, <2>1, <2>14, <3>3 DEF CheckTrue
    <3> QED BY <3>2, <3>3
  <2>15. local' \in [BrokerApp -> [has : BOOLEAN, snap : Snapshots, ver : Nat]]
    BY <2>1, <2>5
  <2> QED BY <2>2, <2>4, <2>10, <2>11, <2>12, <2>13, <2>14, <2>15, CheckMoves
<1>7. ASSUME NEW e \in Edition, LoadLimits(e) PROVE LimitInv'
  <2>1. PICK got \in {limits.byApp[check[e].market.app], NoLimit} :
          check' = [check EXCEPT ![e] = [check[e] EXCEPT !.pc = "loaded", !.snap = got, !.ver = limits.ver]]
    BY <1>7 DEF LoadLimits, To
  <2>0. PICK x : x = [check[e] EXCEPT !.pc = "loaded", !.snap = got, !.ver = limits.ver]
    OBVIOUS
  <2>2. check[e].pc = "load" /\ UNCHANGED <<lots, fetched, limits, history, local, localStamp, crossed>>
    BY <1>7 DEF LoadLimits
  <2>3. check[e].market.app \in BrokerApp /\ check[e] \in CheckRec /\ check[e].market \in Market
        /\ check[e].seen <= limits.ver
    BY <1>0, <2>2, MarketAssumption DEF CheckTrue
  <2>4. got \in {history[limits.ver][check[e].market.app], NoLimit}
    BY <2>1, <2>3 DEF LimitInv, PublishedTrue
  <2>5. got \in Snapshots
    BY <1>0, <2>3, <2>4 DEF Snapshots
  <2>6. x \in CheckRec /\ x.pc = "loaded" /\ x.snap = got /\ x.ver = limits.ver /\ x.seen = check[e].seen
        /\ x.market = check[e].market
    BY <1>0, <2>0, <2>3, <2>5 DEF CheckRec
  <2>7. check' = [check EXCEPT ![e] = x]
    BY <2>0, <2>1
  <2>8. CheckTrue(x)'
    BY <1>0, <2>2, <2>3, <2>4, <2>6 DEF CheckTrue
  <2>9. LocalTrue'
    BY <2>2 DEF LimitInv, LocalTrue
  <2>10. \A u \in Edition : u # e /\ check[u].pc = "loaded" /\ check[u].market.app \notin crossed'
                             => localStamp' <= check[u].ver
    BY <1>0, <2>2 DEF CheckTrue
  <2> QED BY <1>0, <2>2, <2>6, <2>7, <2>8, <2>9, <2>10, CheckMoves
<1>8. ASSUME NEW e \in Edition, KeepLimits(e) PROVE LimitInv'
  <2> DEFINE app == check[e].market.app
             k == [has |-> TRUE, snap |-> check[e].snap, ver |-> check[e].ver]
  <2>0. PICK x : x = [check[e] EXCEPT !.pc = "answer"]
    OBVIOUS
  <2>1. /\ check[e].pc = "loaded" /\ local' = [local EXCEPT ![app] = k] /\ check' = [check EXCEPT ![e] = x]
        /\ UNCHANGED <<lots, fetched, limits, history, localStamp, crossed>>
    BY <1>8, <2>0 DEF KeepLimits, To
  <2>2. app \in BrokerApp /\ check[e] \in CheckRec /\ check[e].market \in Market
    BY <1>0, <2>1, MarketAssumption DEF CheckTrue
  <2>3. /\ check[e].seen <= check[e].ver /\ check[e].ver <= limits.ver /\ check[e].seen <= limits.ver
        /\ check[e].snap # NoLimit => check[e].snap = history[check[e].ver][app]
        /\ app \notin crossed => localStamp <= check[e].ver
    BY <1>0, <2>1 DEF CheckTrue
  <2>4. check[e].ver \in Nat /\ check[e].seen \in Nat /\ check[e].snap \in Snapshots
    BY <2>2 DEF CheckRec
  <2>5. k \in [has : BOOLEAN, snap : Snapshots, ver : Nat] /\ k.snap = check[e].snap /\ k.ver = check[e].ver
    BY <2>4
  <2>6. x \in CheckRec /\ x.pc = "answer" /\ x.snap = check[e].snap /\ x.seen = check[e].seen
        /\ x.market = check[e].market
    BY <2>0, <2>2 DEF CheckRec
  <2> HIDE DEF k
  <2>7. /\ local' \in [BrokerApp -> [has : BOOLEAN, snap : Snapshots, ver : Nat]]
        /\ \A b \in BrokerApp : local'[b] = IF b = app THEN k ELSE local[b]
    BY <1>0, <2>1, <2>2, <2>5
  <2>8. LocalTrue'
    BY <2>1, <2>3, <2>5, <2>7 DEF LimitInv, LocalTrue
  <2>9. CheckTrue(x)'
    <3>1. check[e].ver \in check[e].seen..limits.ver
      BY <1>0, <2>3, <2>4
    <3> QED BY <2>1, <2>2, <2>3, <2>6, <3>1 DEF CheckTrue
  <2>10. \A u \in Edition : u # e /\ check[u].pc = "loaded" /\ check[u].market.app \notin crossed'
                             => localStamp' <= check[u].ver
    BY <1>0, <2>1 DEF CheckTrue
  <2> QED BY <1>0, <2>1, <2>6, <2>7, <2>8, <2>9, <2>10, CheckMoves
<1>9. ASSUME NEW e \in Edition, AnswerQty(e) PROVE LimitInv'
  <2>1. check' = [check EXCEPT ![e] = Unchecked] /\ UNCHANGED <<lots, fetched, limits, history, local, localStamp, crossed>>
    BY <1>9 DEF AnswerQty, To
  <2>2. Unchecked \in CheckRec
    BY DEF Unchecked, CheckRec, Snapshots
  <2>3. LocalTrue'
    BY <2>1 DEF LimitInv, LocalTrue
  <2>4. CheckTrue(Unchecked)'
    BY <1>0, <2>1 DEF CheckTrue, Unchecked
  <2>5. \A u \in Edition : u # e /\ check[u].pc = "loaded" /\ check[u].market.app \notin crossed'
                             => localStamp' <= check[u].ver
    BY <1>0, <2>1 DEF CheckTrue
  <2> QED BY <1>0, <2>1, <2>2, <2>3, <2>4, <2>5, CheckMoves
<1> QED BY <1>1, <1>2, <1>3, <1>4, <1>5, <1>6, <1>7, <1>8, <1>9 DEF LimitNext

\* Whoever publishes, drops, loads and keeps snapshots in whatever order
\* (RedisVenueLimits.get, venue_limits.py), a quantity is held to a lot the venue
\* had for that market, as of the stamp the request read or later.
THEOREM LotIsOfTheMarket == LimitSpec => []LotOfTheMarket
<1>1. LimitInv => LotOfTheMarket
  <2> SUFFICES ASSUME LimitInv, NEW e \in Edition, check[e].pc = "answer", check[e].snap # NoLimit, ~check[e].excused
               PROVE  \E v \in check[e].seen..limits.ver :
                        /\ history[v][check[e].market.app] # NoLimit
                        /\ history[v][check[e].market.app][check[e].market.type] = check[e].snap[check[e].market.type]
    BY DEF LotOfTheMarket
  <2>1. PICK v \in check[e].seen..limits.ver : history[v][check[e].market.app] = check[e].snap
    BY DEF LimitInv, CheckTrue
  <2> QED BY <2>1
<1> QED BY <1>1, LimitInitially, LimitStep, PTL DEF LimitSpec

-----------------------------------------------------------------------------
(* The broker sessions of a key.                                           *)

RouteSpec == RouteInit /\ [][RouteNext]_routeVars

Profile == [route : Names, read_only : BOOLEAN, restricted : SUBSET MarketType]

SessionReason == {"NONE", Failed, "IP_NOT_ALLOWED", "KEY_READ_ONLY", "REGION_RESTRICTED"}

SessionRec ==
    [pc : {"idle", "connect", "info", "open", "placing", "failed", "done"}, market : MarketType \cup {NoProfile},
     carrying : SUBSET MarketType, left : Seq(Names), refused : SUBSET Names,
     profile : Profile \cup {NoProfile}, open : Int, held : BOOLEAN, reason : SessionReason,
     knew : SUBSET MarketType, missed : SUBSET MarketType]

\* Restrictions recorded, and those erased by a session that read too early or not
\* at all.
History == [recorded : SUBSET MarketType, overtaken : SUBSET MarketType, unread : SUBSET MarketType]

\* Every variable keeps the type of the value it stands for.
RouteTypeOK ==
    /\ key \in [allow : SUBSET Names, read_only : BOOLEAN, barred : SUBSET MarketType]
    /\ keyInfoCall \in BOOLEAN
    /\ entry \in Profile \cup {NoProfile} /\ learned \in History
    /\ session \in [BrokerSession -> SessionRec]

\* Routes still to be tried.
ToTry(x) == {x.left[i] : i \in DOMAIN x.left}

\* One session: the exchange it holds is the one that is open, no route is
\* passed over, and what it carries still restricts what the entry it read knew.
SessionTrue(x) ==
    /\ x.held <=> x.pc \in {"info", "open", "placing"}
    /\ x.open = IF x.held THEN 1 ELSE 0
    /\ x.pc \in {"connect", "info"} => x.refused \cup ToTry(x) = Names /\ x.knew \subseteq x.carrying
    /\ x.pc = "info" => x.left # <<>>
    /\ x.pc \in {"connect", "info", "open", "placing"} => x.market \in MarketType
    /\ x.pc \in {"open", "placing"} => x.profile \in Profile /\ x.knew \subseteq x.profile.restricted
    /\ x.pc = "failed" /\ x.reason = "IP_NOT_ALLOWED" => x.refused = Names

RouteInv == RouteTypeOK /\ LearnedIsKept /\ \A s \in BrokerSession : SessionTrue(session[s])

\* The mark of a missing entry is no profile.
LEMMA ProfileIsOne == NoProfile \notin Profile
  BY RouteAssumption DEF Profile, Names

\* A closed session is a session and has nothing to account for.
LEMMA ClosedFits == Closed \in SessionRec /\ SessionTrue(Closed)
<1>1. <<>> \in Seq(Names)
  OBVIOUS
<1>2. ASSUME NEW l \in Seq(Names), NEW n \in Int, NEW h \in BOOLEAN, NEW r \in SUBSET Names,
             NEW k \in SUBSET MarketType, NEW u \in SUBSET MarketType, NEW reason \in SessionReason
      PROVE  [pc |-> "idle", market |-> NoProfile, carrying |-> k, left |-> l, refused |-> r,
              profile |-> NoProfile, open |-> n, held |-> h, reason |-> reason, knew |-> k,
              missed |-> u] \in SessionRec
  BY DEF SessionRec
<1>3. 0 \in Int /\ "NONE" \in SessionReason /\ {} \in SUBSET Names /\ {} \in SUBSET MarketType
  BY DEF SessionReason
<1>4. FALSE \in BOOLEAN
  OBVIOUS
<1>5. Closed \in SessionRec
  BY <1>1, <1>2, <1>3, <1>4, Zenon DEF Closed
<1>6. SessionTrue(Closed)
  BY DEF Closed, SessionTrue
<1> QED BY <1>5, <1>6

\* At the start no session is open and nothing was learned.
LEMMA RouteInitially == RouteInit => RouteInv
<1>1. NothingLearned \in History
  BY DEF NothingLearned, History
<1>2. ASSUME RouteInit PROVE LearnedIsKept
  <2>1. Due = {}
    BY <1>2 DEF RouteInit, NothingLearned, Due
  <2> QED BY <2>1 DEF LearnedIsKept
<1> QED BY <1>1, <1>2, ClosedFits DEF RouteInit, RouteInv, RouteTypeOK

\* Whichever route is preferred, every route is still to be tried.
LEMMA PreferringKeepsAll ==
    ASSUME NEW c \in Profile \cup {NoProfile}
    PROVE  preferring(c) \in Seq(Names) /\ {preferring(c)[i] : i \in DOMAIN preferring(c)} = Names
<1>0. Egress \in Seq(STRING) /\ Len(Egress) \in Nat /\ DOMAIN Egress = 1..Len(Egress)
  BY RouteAssumption
<1>1. Egress \in Seq(Names)
  <2>1. \A i \in 1..Len(Egress) : Egress[i] \in Names
    BY <1>0 DEF Names
  <2> QED BY <1>0, <2>1, SeqDef
<1>2. CASE c = NoProfile \/ c.route \notin Names
  <2>1. preferring(c) = Egress
    BY <1>2 DEF preferring
  <2> QED BY <1>1, <2>1 DEF Names
<1>3. CASE ~(c = NoProfile \/ c.route \notin Names)
  <2> DEFINE at == CHOOSE i \in DOMAIN Egress : Egress[i] = c.route
             p == [i \in DOMAIN Egress |-> IF i = 1 THEN c.route ELSE Egress[IF i <= at THEN i - 1 ELSE i]]
  <2>1. preferring(c) = p
    BY <1>3 DEF preferring
  <2>2. at \in 1..Len(Egress) /\ Egress[at] = c.route
    BY <1>0, <1>3 DEF Names
  <2> HIDE DEF at
  <2>3. ASSUME NEW i \in 1..Len(Egress) PROVE p[i] \in Names
    BY <1>0, <1>3, <2>2, <2>3 DEF Names
  <2>4. p \in Seq(Names) /\ DOMAIN p = 1..Len(Egress)
    BY <1>0, <2>3, SeqDef
  <2>5. ASSUME NEW j \in 1..Len(Egress) PROVE \E i \in 1..Len(Egress) : p[i] = Egress[j]
    <3>1. CASE j = at
      BY <1>0, <2>2, <3>1
    <3>2. CASE j < at
      <4>1. j + 1 \in 1..Len(Egress) /\ j + 1 # 1 /\ j + 1 <= at /\ (j + 1) - 1 = j
        BY <1>0, <2>2, <3>2
      <4>2. p[j + 1] = Egress[j]
        BY <1>0, <4>1
      <4> QED BY <4>1, <4>2
    <3>3. CASE j > at
      <4>1. j # 1 /\ ~(j <= at)
        BY <1>0, <2>2, <3>3
      <4> QED BY <1>0, <4>1
    <3> QED BY <1>0, <2>2, <3>1, <3>2, <3>3
  <2> HIDE DEF p
  <2>6. {p[i] : i \in DOMAIN p} = Names
    BY <1>0, <2>3, <2>4, <2>5 DEF Names
  <2> QED BY <2>1, <2>4, <2>6
<1> QED BY <1>2, <1>3

\* A step of one session that keeps what was learned preserves the invariant.
LEMMA SessionMoves ==
    ASSUME RouteInv, NEW s \in BrokerSession, NEW x, x \in SessionRec, SessionTrue(x),
           session' = [session EXCEPT ![s] = x], key' = key, keyInfoCall' = keyInfoCall,
           entry' \in Profile \cup {NoProfile}, learned' \in History, LearnedIsKept'
    PROVE  RouteInv'
<1>1. session \in [BrokerSession -> SessionRec] /\ \A u \in BrokerSession : SessionTrue(session[u])
  BY DEF RouteInv, RouteTypeOK
<1>2. session' \in [BrokerSession -> SessionRec] /\ \A u \in BrokerSession : session'[u] = IF u = s THEN x ELSE session[u]
  BY <1>1
<1>3. \A u \in BrokerSession : SessionTrue(session'[u])
  BY <1>1, <1>2
<1>4. (\A u \in BrokerSession : SessionTrue(session[u]))'
  BY <1>3 DEF SessionTrue, ToTry
<1>5. RouteTypeOK'
  BY <1>2 DEF RouteInv, RouteTypeOK
<1> QED BY <1>4, <1>5 DEF RouteInv

\* The end of a session, by an exception or not: what was held is closed.
LEMMA EndFits ==
    ASSUME NEW x, x \in SessionRec, SessionTrue(x), NEW reason \in SessionReason
    PROVE  /\ Over(disconnected(x), "done", reason) \in SessionRec
           /\ SessionTrue(Over(disconnected(x), "done", reason))
           /\ reason # "IP_NOT_ALLOWED" =>
                /\ Over(disconnected(x), "failed", reason) \in SessionRec
                /\ SessionTrue(Over(disconnected(x), "failed", reason))
<1>1. /\ x.open \in Int /\ x.held \in BOOLEAN /\ x.refused \in SUBSET Names /\ x.open = IF x.held THEN 1 ELSE 0
  BY DEF SessionRec, SessionTrue
<1>2. PICK y : y = disconnected(x)
  OBVIOUS
<1>3. y.open = 0 /\ y.held = FALSE /\ y.refused = x.refused
  BY <1>1, <1>2 DEF disconnected, SessionRec
<1>4. y.open \in Int
  BY <1>3
<1>5. y.held \in BOOLEAN
  BY <1>3, Zenon
<1>6. ASSUME NEW pc \in {"done", "failed"}
      PROVE  LET z == Over(y, pc, reason)
             IN  z \in SessionRec /\ z.pc = pc /\ z.reason = reason /\ z.refused = x.refused
                 /\ z.open = y.open /\ z.held = y.held
  <2>1. Closed \in SessionRec
    BY ClosedFits
  <2>2. PICK n \in Int : n = y.open
    BY <1>4
  <2>3. PICK h \in BOOLEAN : h = y.held
    BY <1>5
  <2>4. PICK refused \in SUBSET Names : refused = x.refused
    BY <1>1
  <2>5. Over(y, pc, reason) =
          [Closed EXCEPT !.pc = pc, !.reason = reason, !.refused = refused, !.open = n, !.held = h]
    BY <1>3, <2>2, <2>3, <2>4 DEF Over
  <2> DEFINE z == [Closed EXCEPT !.pc = pc, !.reason = reason, !.refused = refused, !.open = n, !.held = h]
  <2>6. z \in SessionRec /\ z.pc = pc /\ z.reason = reason /\ z.refused = refused /\ z.open = n /\ z.held = h
    BY <2>1 DEF SessionRec
  <2> QED BY <2>2, <2>3, <2>4, <2>5, <2>6
<1>7. ASSUME NEW z \in SessionRec, z.pc \in {"done", "failed"}, z.open = y.open, z.held = y.held,
             z.pc = "failed" => z.reason # "IP_NOT_ALLOWED"
      PROVE  SessionTrue(z)
  BY <1>3, <1>7 DEF SessionTrue
<1> QED BY <1>2, <1>6, <1>7

\* A profile is written whole, and it restricts what its session knew.
LEMMA PutKeeps ==
    ASSUME RouteInv, NEW s \in BrokerSession, NEW p \in Profile, NEW more \in SUBSET MarketType,
           session[s].knew \cup more \subseteq p.restricted, put(s, p, more)
    PROVE  entry' \in Profile \cup {NoProfile} /\ learned' \in History /\ LearnedIsKept'
<1>1. entry \in Profile \cup {NoProfile} /\ learned \in History /\ LearnedIsKept
  BY DEF RouteInv, RouteTypeOK
<1> DEFINE early == (learned.overtaken \cup (Due \ (session[s].knew \cup session[s].missed))) \ more
           blind == (learned.unread \cup (Due \cap session[s].missed)) \ more
           after == [recorded |-> learned.recorded \cup more, overtaken |-> early, unread |-> blind]
<1>2. CASE entry' = p /\ learned' = after
  <2>1. /\ learned.recorded \in SUBSET MarketType /\ learned.overtaken \in SUBSET MarketType
        /\ learned.unread \in SUBSET MarketType /\ Due \in SUBSET MarketType
    BY <1>1 DEF History, Due
  <2>2. early \in SUBSET MarketType /\ blind \in SUBSET MarketType
    BY <2>1
  <2>3. Due' \subseteq session[s].knew \cup more
    <3>1. Due' = (learned.recorded \cup more) \ (early \cup blind)
      BY <1>2 DEF Due
    <3> QED BY <3>1 DEF Due
  <2> HIDE DEF early, blind
  <2>4. learned' \in History
    BY <1>2, <2>1, <2>2 DEF History
  <2> QED BY <1>2, <2>3, <2>4, ProfileIsOne DEF LearnedIsKept
<1>3. CASE UNCHANGED <<entry, learned>>
  BY <1>1, <1>3 DEF LearnedIsKept, Due
<1> QED BY <1>2, <1>3 DEF put

\* Every step preserves the invariant of the key routing.
LEMMA RouteStep == RouteInv /\ [RouteNext]_routeVars => RouteInv'
<1> SUFFICES ASSUME RouteInv, [RouteNext]_routeVars PROVE RouteInv'
  OBVIOUS
<1>0. /\ key \in [allow : SUBSET Names, read_only : BOOLEAN, barred : SUBSET MarketType]
      /\ keyInfoCall \in BOOLEAN
      /\ entry \in Profile \cup {NoProfile} /\ learned \in History /\ LearnedIsKept
      /\ session \in [BrokerSession -> SessionRec] /\ \A s \in BrokerSession : SessionTrue(session[s])
  BY DEF RouteInv, RouteTypeOK
<1>1. CASE UNCHANGED routeVars
  <2>1. UNCHANGED <<key, keyInfoCall, entry, session, learned>>
    BY <1>1 DEF routeVars
  <2>2. (\A s \in BrokerSession : SessionTrue(session[s]))'
    BY <1>0, <2>1 DEF SessionTrue, ToTry
  <2> QED BY <1>0, <2>1, <2>2 DEF RouteInv, RouteTypeOK, LearnedIsKept, Due
<1>2. CASE EditKey
  <2>1. UNCHANGED <<keyInfoCall, entry, session, learned>>
    BY <1>2 DEF EditKey
  <2>2. key' \in [allow : SUBSET Names, read_only : BOOLEAN, barred : SUBSET MarketType]
    <3>1. ASSUME NEW r \in Names, key' = [key EXCEPT !.allow = IF r \in @ THEN @ \ {r} ELSE @ \cup {r}]
          PROVE  key' \in [allow : SUBSET Names, read_only : BOOLEAN, barred : SUBSET MarketType]
      BY <1>0, <3>1
    <3>2. ASSUME key' = [key EXCEPT !.read_only = ~@]
          PROVE  key' \in [allow : SUBSET Names, read_only : BOOLEAN, barred : SUBSET MarketType]
      BY <1>0, <3>2
    <3> QED BY <1>2, <3>1, <3>2 DEF EditKey
  <2>3. (\A s \in BrokerSession : SessionTrue(session[s]))'
    BY <1>0, <2>1 DEF SessionTrue, ToTry
  <2> QED BY <1>0, <2>1, <2>2, <2>3 DEF RouteInv, RouteTypeOK, LearnedIsKept, Due
<1>3. CASE Expire
  <2>1. UNCHANGED <<key, keyInfoCall, session>> /\ entry' = NoProfile /\ learned' = NothingLearned
    BY <1>3 DEF Expire
  <2>2. (\A s \in BrokerSession : SessionTrue(session[s]))'
    BY <1>0, <2>1 DEF SessionTrue, ToTry
  <2>3. NothingLearned \in History /\ Due' = {}
    BY <2>1 DEF NothingLearned, History, Due
  <2>4. LearnedIsKept'
    BY <2>3 DEF LearnedIsKept
  <2> QED BY <1>0, <2>1, <2>2, <2>3, <2>4 DEF RouteInv, RouteTypeOK
<1>4. ASSUME NEW s \in BrokerSession, NEW m \in MarketType, Enter(s, m) PROVE RouteInv'
  <2>1. PICK readable \in BOOLEAN :
          LET c == IF readable THEN entry ELSE NoProfile IN
          session' = [session EXCEPT ![s] =
                        [Closed EXCEPT !.pc = "connect", !.market = m, !.carrying = CarriedOver(c),
                                       !.left = preferring(c), !.knew = IF readable THEN Due ELSE {},
                                       !.missed = IF readable THEN {} ELSE Due]]
    BY <1>4 DEF Enter, Set
  <2>2. PICK c \in Profile \cup {NoProfile} : c = IF readable THEN entry ELSE NoProfile
    BY <1>0
  <2>d. Due \in SUBSET MarketType
    BY <1>0 DEF Due, History
  <2>v. PICK v \in SUBSET MarketType : v = CarriedOver(c)
    BY DEF CarriedOver, Profile
  <2>3. PICK k \in SUBSET MarketType : k = IF readable THEN Due ELSE {}
    BY <2>d
  <2>u. PICK u \in SUBSET MarketType : u = IF readable THEN {} ELSE Due
    BY <2>d
  <2>4. preferring(c) \in Seq(Names) /\ {preferring(c)[i] : i \in DOMAIN preferring(c)} = Names
    BY PreferringKeepsAll
  <2>5. PICK l \in Seq(Names) : l = preferring(c)
    BY <2>4
  <2>6. PICK x : x = [Closed EXCEPT !.pc = "connect", !.market = m, !.carrying = v, !.left = l, !.knew = k,
                            !.missed = u]
    OBVIOUS
  <2>7. session' = [session EXCEPT ![s] = x]
    BY <2>1, <2>2, <2>3, <2>u, <2>v, <2>5, <2>6
  <2>8. x \in SessionRec /\ x.pc = "connect" /\ x.market = m /\ x.carrying = v /\ x.left = l /\ x.knew = k
        /\ x.open = Closed.open /\ x.held = Closed.held /\ x.refused = Closed.refused
    BY <2>6, ClosedFits DEF SessionRec
  <2>9. Closed.pc = "idle" /\ Closed.refused = {}
    BY DEF Closed
  <2>10. k \subseteq v
    BY <1>0, <2>2, <2>3, <2>v DEF LearnedIsKept, CarriedOver
  <2>11. ToTry(x) = Names
    BY <2>4, <2>5, <2>8 DEF ToTry
  <2>12. SessionTrue(x)
    BY <2>8, <2>9, <2>10, <2>11, ClosedFits DEF SessionTrue
  <2>13. UNCHANGED <<key, keyInfoCall, entry, learned>>
    BY <1>4 DEF Enter
  <2>14. LearnedIsKept'
    BY <1>0, <2>13 DEF LearnedIsKept, Due
  <2> QED BY <1>0, <2>7, <2>8, <2>12, <2>13, <2>14, SessionMoves
<1>5. ASSUME NEW s \in BrokerSession,
             Connect(s) \/ ConnectFails(s) \/ InfoRefused(s) \/ InfoFails(s) \/ Accept(s) \/ NoRouteLeft(s)
             \/ Validate(s) \/ ValidateFails(s) \/ Snapshot(s) \/ PlaceRefusedHere(s) \/ Place(s)
      PROVE  RouteInv'
  <2>0. PICK x \in SessionRec : x = session[s] /\ SessionTrue(x)
    BY <1>0
  <2>t. /\ x.open \in Int /\ x.held \in BOOLEAN /\ x.refused \in SUBSET Names /\ x.left \in Seq(Names)
        /\ x.carrying \in SUBSET MarketType /\ x.knew \in SUBSET MarketType /\ x.profile \in Profile \cup {NoProfile}
    BY <2>0 DEF SessionRec
  <2>q. ASSUME NEW y, y \in SessionRec, SessionTrue(y), session' = [session EXCEPT ![s] = y],
               UNCHANGED <<key, keyInfoCall, entry, learned>>
        PROVE  RouteInv'
    <3>1. LearnedIsKept'
      BY <1>0, <2>q DEF LearnedIsKept, Due
    <3> QED BY <1>0, <2>q, <3>1, SessionMoves
  <2>h. ASSUME x.pc = "info"
        PROVE  Head(x.left) \in Names /\ Tail(x.left) \in Seq(Names)
               /\ ToTry(x) = {Head(x.left)} \cup {Tail(x.left)[i] : i \in DOMAIN Tail(x.left)}
    <3>1. x.left # <<>> /\ x.left \in Seq(Names)
      BY <2>0, <2>t, <2>h DEF SessionTrue
    <3>2. /\ Head(x.left) \in Names /\ Head(x.left) = x.left[1] /\ Tail(x.left) \in Seq(Names)
          /\ Len(Tail(x.left)) = Len(x.left) - 1 /\ Len(x.left) \in Nat /\ Len(x.left) > 0
          /\ \A i \in 1..Len(Tail(x.left)) : Tail(x.left)[i] = x.left[i + 1]
      BY <3>1
    <3>3. DOMAIN x.left = 1..Len(x.left) /\ DOMAIN Tail(x.left) = 1..Len(Tail(x.left))
      BY <3>1, <3>2
    <3>4. ASSUME NEW i \in 1..Len(x.left), i # 1
          PROVE  \E j \in 1..Len(Tail(x.left)) : Tail(x.left)[j] = x.left[i]
      <4>1. i - 1 \in 1..Len(Tail(x.left)) /\ (i - 1) + 1 = i
        BY <3>2, <3>4
      <4>2. Tail(x.left)[i - 1] = x.left[(i - 1) + 1]
        BY <3>2, <4>1
      <4> QED BY <4>1, <4>2
    <3>5. ASSUME NEW j \in 1..Len(Tail(x.left)) PROVE j + 1 \in 1..Len(x.left)
      BY <3>2
    <3>6. 1 \in 1..Len(x.left)
      BY <3>2
    <3>7. ASSUME NEW e PROVE e \in ToTry(x) <=> e \in {Head(x.left)} \cup {Tail(x.left)[i] : i \in DOMAIN Tail(x.left)}
      <4>1. ASSUME NEW i \in DOMAIN x.left, e = x.left[i]
            PROVE  e \in {Head(x.left)} \cup {Tail(x.left)[j] : j \in DOMAIN Tail(x.left)}
        <5>1. CASE i = 1
          BY <3>2, <4>1, <5>1
        <5>2. CASE i # 1
          BY <3>3, <3>4, <4>1, <5>2
        <5> QED BY <5>1, <5>2
      <4>2. ASSUME NEW j \in DOMAIN Tail(x.left), e = Tail(x.left)[j] PROVE e \in ToTry(x)
        BY <3>2, <3>3, <3>5, <4>2 DEF ToTry
      <4>3. Head(x.left) \in ToTry(x)
        BY <3>2, <3>3, <3>6 DEF ToTry
      <4> QED BY <4>1, <4>2, <4>3 DEF ToTry
    <3>8. ToTry(x) = {Head(x.left)} \cup {Tail(x.left)[i] : i \in DOMAIN Tail(x.left)}
      BY <3>7
    <3> QED BY <3>2, <3>8
  <2>1. CASE Connect(s)
    <3>1. PICK n \in Int : n = x.open + 1
      BY <2>t
    <3>2. PICK y : y = [x EXCEPT !.pc = "info", !.open = n, !.held = TRUE]
      OBVIOUS
    <3>3. y \in SessionRec /\ y.pc = "info" /\ y.open = n /\ y.held = TRUE /\ y.left = x.left /\ y.refused = x.refused
          /\ y.carrying = x.carrying /\ y.knew = x.knew /\ y.market = x.market
      BY <3>2 DEF SessionRec
    <3>4. x.pc = "connect" /\ x.left # <<>> /\ UNCHANGED <<key, keyInfoCall, entry, learned>>
          /\ session' = [session EXCEPT ![s] = y]
      BY <2>0, <2>1, <3>1, <3>2 DEF Connect, Set
    <3>5. SessionTrue(y)
      BY <2>0, <3>1, <3>3, <3>4 DEF SessionTrue, ToTry
    <3> QED BY <2>q, <3>3, <3>4, <3>5
  <2>2. CASE ConnectFails(s)
    <3>1. PICK n \in Int : n = x.open + 1
      BY <2>t
    <3>2. PICK y : y = [x EXCEPT !.open = n, !.held = TRUE]
      OBVIOUS
    <3>3. y \in SessionRec /\ y.open = n /\ y.held = TRUE /\ y.refused = x.refused
      BY <3>2 DEF SessionRec
    <3>4. x.pc = "connect" /\ UNCHANGED <<key, keyInfoCall, entry, learned>>
          /\ session' = [session EXCEPT ![s] = Over(disconnected(y), "failed", Failed)]
      BY <2>0, <2>2, <3>1, <3>2 DEF ConnectFails, Set, Raised
    <3>5. x.held = FALSE /\ x.open = 0
      BY <2>0, <3>4 DEF SessionTrue
    <3>7. Over(disconnected(y), "failed", Failed) = [Closed EXCEPT !.pc = "failed", !.reason = Failed,
                                                       !.refused = x.refused, !.open = 0, !.held = FALSE]
      BY <3>1, <3>2, <3>3, <3>5 DEF Over, disconnected, SessionRec
    <3>8. PICK h \in BOOLEAN : h = FALSE
      OBVIOUS
    <3>9. PICK o \in Int : o = 0
      OBVIOUS
    <3>10. PICK v : v = [Closed EXCEPT !.pc = "failed", !.reason = Failed, !.refused = x.refused, !.open = o, !.held = h]
      OBVIOUS
    <3>11. v \in SessionRec /\ v.pc = "failed" /\ v.reason = Failed /\ v.open = o /\ v.held = h
      BY <2>t, <3>10, ClosedFits DEF SessionRec, SessionReason
    <3>12. SessionTrue(v)
      BY <3>8, <3>9, <3>11 DEF SessionTrue, Failed
    <3>13. session' = [session EXCEPT ![s] = v]
      BY <3>4, <3>7, <3>8, <3>9, <3>10
    <3> QED BY <2>q, <3>4, <3>11, <3>12, <3>13
  <2>3. CASE InfoRefused(s)
    <3>1. x.pc = "info" /\ UNCHANGED <<key, keyInfoCall, entry, learned>>
          /\ session' = [session EXCEPT ![s] = [disconnected(x) EXCEPT !.pc = "connect", !.left = Tail(@),
                                                  !.refused = @ \cup {Head(x.left)}]]
      BY <2>0, <2>3 DEF InfoRefused, Set
    <3>2. x.held = TRUE /\ x.open = 1
      BY <2>0, <3>1 DEF SessionTrue
    <3>3. PICK o \in Int : o = 0
      OBVIOUS
    <3>4. PICK h \in BOOLEAN : h = FALSE
      OBVIOUS
    <3>5. PICK l \in Seq(Names) : l = Tail(x.left)
      BY <2>h, <3>1
    <3>6. PICK r \in SUBSET Names : r = x.refused \cup {Head(x.left)}
      BY <2>h, <2>t, <3>1
    <3>7. PICK y : y = [x EXCEPT !.pc = "connect", !.left = l, !.refused = r, !.open = o, !.held = h]
      OBVIOUS
    <3>8. y \in SessionRec /\ y.pc = "connect" /\ y.left = l /\ y.refused = r /\ y.open = o /\ y.held = h
          /\ y.carrying = x.carrying /\ y.knew = x.knew /\ y.market = x.market
      BY <3>7 DEF SessionRec
    <3>9. [disconnected(x) EXCEPT !.pc = "connect", !.left = Tail(@), !.refused = @ \cup {Head(x.left)}] = y
      <4>1. disconnected(x) = [x EXCEPT !.open = o, !.held = h]
        <5>1. disconnected(x) = [x EXCEPT !.open = x.open - 1, !.held = FALSE]
          BY <3>2 DEF disconnected
        <5>2. x.open - 1 = o
          BY <3>2, <3>3
        <5> QED BY <3>4, <5>1, <5>2
      <4> QED BY <2>0, <3>5, <3>6, <3>7, <4>1 DEF SessionRec
    <3>10. y.refused \cup ToTry(y) = Names
      <4>1. x.refused \cup ToTry(x) = Names
        BY <2>0, <3>1 DEF SessionTrue
      <4>2. ToTry(x) = {Head(x.left)} \cup {l[i] : i \in DOMAIN l}
        BY <2>h, <3>1, <3>5
      <4>3. ToTry(y) = {l[i] : i \in DOMAIN l}
        BY <3>8 DEF ToTry
      <4> QED BY <3>6, <3>8, <4>1, <4>2, <4>3
    <3>11. SessionTrue(y)
      BY <2>0, <3>1, <3>3, <3>4, <3>8, <3>10 DEF SessionTrue
    <3> QED BY <2>q, <3>1, <3>8, <3>9, <3>11
  <2>4. CASE InfoFails(s)
    <3>1. UNCHANGED <<key, keyInfoCall, entry, learned>>
          /\ session' = [session EXCEPT ![s] = Over(disconnected(x), "failed", Failed)]
      BY <2>0, <2>4 DEF InfoFails, Set, Raised
    <3>2. Failed \in SessionReason /\ Failed # "IP_NOT_ALLOWED"
      BY DEF SessionReason, Failed
    <3> QED BY <2>0, <2>q, <3>1, <3>2, EndFits
  <2>5. CASE Accept(s)
    <3>1. x.pc = "info" /\ UNCHANGED <<key, keyInfoCall>>
      BY <2>0, <2>5 DEF Accept
    <3>2. PICK ro \in BOOLEAN : ro = (keyInfoCall /\ key.read_only)
      OBVIOUS
    <3>3. PICK route \in Names : route = Head(x.left)
      BY <2>h, <3>1
    <3>4. PICK p : p = accepted(route, ro, x.carrying)
      OBVIOUS
    <3>5. p \in Profile /\ p.route = route /\ p.restricted = x.carrying
      <4>1. p = [route |-> route, read_only |-> ro, restricted |-> x.carrying]
        BY <3>4 DEF accepted
      <4> QED BY <2>t, <4>1 DEF Profile
    <3>6. put(s, p, {}) /\ session' = [session EXCEPT ![s] = [x EXCEPT !.pc = "open", !.profile = p, !.carrying = {},
                                                                     !.left = <<p.route>>, !.refused = {}]]
      BY <2>0, <2>5, <3>2, <3>3, <3>4 DEF Accept, Set
    <3>7. PICK l \in Seq(Names) : l = <<p.route>>
      <4>1. <<>> \in Seq(Names) /\ Append(<<>>, route) \in Seq(Names) /\ Append(<<>>, route) = <<route>>
        OBVIOUS
      <4> QED BY <3>5, <4>1
    <3>8. PICK r \in SUBSET Names : r = {}
      OBVIOUS
    <3>k. PICK k \in SUBSET MarketType : k = {}
      OBVIOUS
    <3>9. PICK y : y = [x EXCEPT !.pc = "open", !.profile = p, !.carrying = k, !.left = l, !.refused = r]
      OBVIOUS
    <3>10. y \in SessionRec /\ y.pc = "open" /\ y.profile = p /\ y.knew = x.knew /\ y.market = x.market
           /\ y.open = x.open /\ y.held = x.held
      BY <3>5, <3>9 DEF SessionRec
    <3>11. x.knew \subseteq p.restricted /\ x.market \in MarketType
      BY <2>0, <3>1, <3>5 DEF SessionTrue
    <3>12. SessionTrue(y)
      BY <2>0, <3>1, <3>5, <3>10, <3>11 DEF SessionTrue
    <3>13. session[s].knew \cup {} \subseteq p.restricted /\ {} \in SUBSET MarketType
      BY <2>0, <3>11
    <3>14. entry' \in Profile \cup {NoProfile} /\ learned' \in History /\ LearnedIsKept'
      BY <3>5, <3>6, <3>13, PutKeeps
    <3> QED BY <3>1, <3>6, <3>7, <3>8, <3>k, <3>9, <3>10, <3>12, <3>14, SessionMoves
  <2>6. CASE NoRouteLeft(s)
    <3>1. x.pc = "connect" /\ x.left = <<>> /\ UNCHANGED <<key, keyInfoCall, entry, learned>>
          /\ session' = [session EXCEPT ![s] = Over(x, "failed", "IP_NOT_ALLOWED")]
      BY <2>0, <2>6 DEF NoRouteLeft, Set, Raised
    <3>2. ToTry(x) = {}
      BY <3>1 DEF ToTry
    <3>3. x.refused = Names /\ x.held = FALSE /\ x.open = 0
      BY <2>0, <3>1, <3>2 DEF SessionTrue
    <3>4. PICK reason \in SessionReason : reason = "IP_NOT_ALLOWED"
      BY DEF SessionReason
    <3>5. PICK v : v = [Closed EXCEPT !.pc = "failed", !.reason = reason, !.refused = x.refused, !.open = x.open,
                                      !.held = x.held]
      OBVIOUS
    <3>6. v \in SessionRec /\ v.pc = "failed" /\ v.reason = reason /\ v.open = x.open /\ v.held = x.held
          /\ v.refused = x.refused
      BY <2>t, <3>5, ClosedFits DEF SessionRec
    <3>7. SessionTrue(v)
      BY <3>3, <3>6 DEF SessionTrue
    <3>8. session' = [session EXCEPT ![s] = v]
      BY <3>1, <3>4, <3>5 DEF Over
    <3> QED BY <2>q, <3>1, <3>6, <3>7, <3>8
  <2>7. CASE Validate(s)
    <3>1. PICK y : y = [x EXCEPT !.pc = "placing"]
      OBVIOUS
    <3>2. y \in SessionRec /\ y.pc = "placing" /\ y.open = x.open /\ y.held = x.held /\ y.profile = x.profile
          /\ y.knew = x.knew /\ y.market = x.market
      BY <3>1 DEF SessionRec
    <3>3. x.pc = "open" /\ UNCHANGED <<key, keyInfoCall, entry, learned>> /\ session' = [session EXCEPT ![s] = y]
      BY <2>0, <2>7, <3>1 DEF Validate, Set
    <3>4. SessionTrue(y)
      BY <2>0, <3>2, <3>3 DEF SessionTrue
    <3> QED BY <2>q, <3>2, <3>3, <3>4
  <2>8. CASE ValidateFails(s)
    <3>1. PICK reason \in SessionReason : session' = [session EXCEPT ![s] = Over(disconnected(x), "done", reason)]
      BY <2>0, <2>8 DEF ValidateFails, Set, Exited, SessionReason, Failed
    <3>2. UNCHANGED <<key, keyInfoCall, entry, learned>>
      BY <2>8 DEF ValidateFails
    <3> QED BY <2>0, <2>q, <3>1, <3>2, EndFits
  <2>9. CASE Snapshot(s)
    <3>1. PICK reason \in SessionReason : session' = [session EXCEPT ![s] = Over(disconnected(x), "done", reason)]
      BY <2>0, <2>9 DEF Snapshot, Set, Exited, SessionReason
    <3>2. UNCHANGED <<key, keyInfoCall, entry, learned>>
      BY <2>9 DEF Snapshot
    <3> QED BY <2>0, <2>q, <3>1, <3>2, EndFits
  <2>10. CASE PlaceRefusedHere(s)
    <3>1. PICK reason \in SessionReason : session' = [session EXCEPT ![s] = Over(disconnected(x), "done", reason)]
      <4>1. refusal(x.profile, x.market) \in SessionReason
        BY DEF refusal, SessionReason
      <4> QED BY <2>0, <2>10, <4>1 DEF PlaceRefusedHere, Set, Exited
    <3>2. UNCHANGED <<key, keyInfoCall, entry, learned>>
      BY <2>10 DEF PlaceRefusedHere
    <3> QED BY <2>0, <2>q, <3>1, <3>2, EndFits
  <2>11. CASE Place(s)
    <3>1. x.pc = "placing" /\ UNCHANGED <<key, keyInfoCall>> /\ x.profile \in Profile /\ x.market \in MarketType
          /\ x.knew \subseteq x.profile.restricted
      BY <2>0, <2>11 DEF Place, SessionTrue
    <3>2. CASE /\ put(s, restricting(x.profile, x.market), {x.market})
               /\ Set(s, Exited([x EXCEPT !.profile = restricting(@, x.market)], "REGION_RESTRICTED"))
      <4>1. PICK p : p = restricting(x.profile, x.market)
        OBVIOUS
      <4>2. p \in Profile /\ p.restricted = x.profile.restricted \cup {x.market}
        BY <3>1, <4>1 DEF restricting, Profile
      <4>3. PICK y : y = [x EXCEPT !.profile = p]
        OBVIOUS
      <4>4. y \in SessionRec /\ y.pc = "placing" /\ y.open = x.open /\ y.held = x.held /\ y.profile = p
            /\ y.knew = x.knew /\ y.market = x.market
        BY <3>1, <4>2, <4>3 DEF SessionRec
      <4>5. SessionTrue(y)
        BY <2>0, <3>1, <4>2, <4>4 DEF SessionTrue
      <4>6. PICK reason \in SessionReason : reason = "REGION_RESTRICTED"
        BY DEF SessionReason
      <4>7. PICK z : z = Over(disconnected(y), "done", reason)
        OBVIOUS
      <4>8. session' = [session EXCEPT ![s] = z]
        BY <2>0, <3>2, <4>1, <4>3, <4>6, <4>7 DEF Set, Exited, SessionRec
      <4>9. z \in SessionRec /\ SessionTrue(z)
        BY <4>4, <4>5, <4>7, EndFits
      <4>10. put(s, p, {x.market}) /\ session[s].knew \cup {x.market} \subseteq p.restricted
             /\ {x.market} \in SUBSET MarketType
        BY <2>0, <3>1, <3>2, <4>1, <4>2
      <4>11. entry' \in Profile \cup {NoProfile} /\ learned' \in History /\ LearnedIsKept'
        BY <4>2, <4>10, PutKeeps
      <4> QED BY <3>1, <4>8, <4>9, <4>11, SessionMoves
    <3>3. ASSUME NEW reason \in SessionReason, Set(s, Exited(x, reason)), UNCHANGED <<entry, learned>>
          PROVE  RouteInv'
      BY <2>0, <2>q, <3>1, <3>3, EndFits DEF Set, Exited
    <3>4. "NONE" \in SessionReason /\ Failed \in SessionReason
      BY DEF SessionReason
    <3> QED BY <2>0, <2>11, <3>2, <3>3, <3>4 DEF Place
  <2> QED BY <1>5, <2>1, <2>2, <2>3, <2>4, <2>5, <2>6, <2>7, <2>8, <2>9, <2>10, <2>11
<1> QED BY <1>1, <1>2, <1>3, <1>4, <1>5 DEF RouteNext

\* What a recorded refusal of the venue taught (record_restriction, routing.py) is in
\* the cached profile until the entry is lost, or is overwritten by a session that
\* had read it before the refusal was recorded or could not read it at all.
THEOREM RefusalsAreRemembered == RouteSpec => []LearnedIsKept
<1>1. RouteInv => LearnedIsKept
  BY DEF RouteInv
<1> QED BY <1>1, RouteInitially, RouteStep, PTL DEF RouteSpec

\* A session that ended holds no exchange, and reports a key as not allowed only
\* after every route refused it (KeyRouter.connect, routing.py).
THEOREM EndedSessionsAreClean == RouteSpec => []SessionsEndClean
<1>1. RouteInv => SessionsEndClean
  BY DEF RouteInv, SessionTrue, SessionsEndClean
<1> QED BY <1>1, RouteInitially, RouteStep, PTL DEF RouteSpec

=============================================================================
