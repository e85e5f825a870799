-------------------------- MODULE InstrumentCache ---------------------------
(***************************************************************************)
(* quant/data/instruments.py: INST.PRODUCT and INST.PRODUCT_XREF, and the  *)
(* copy of both that one process serves from memory.  Requests of the      *)
(* process's threads create instruments and reload the copy, and nothing   *)
(* keeps two reloads apart.  A product is its cusip, of which the table    *)
(* has at most one open row, and has one venue to be listed on.            *)
(***************************************************************************)
EXTENDS FiniteSets, Naturals

CONSTANTS
    Cusip,        \* instruments that can be created
    InstCaller,   \* threads of the process
    NoCusip,      \* the instrument of a reload that creates none
    MaxReloads    \* bound on the reloads by hand

VARIABLES
    product,      \* cusips with an open INST.PRODUCT row
    xref,         \* cusips with an open INST.PRODUCT_XREF row
    mem,          \* the cache's _products, _xrefs, _by_product_id, _xref_index
    caller,       \* what each thread is at, and the rows it read last
    reloads,      \* reloads by hand so far
    answered,     \* history: created instruments, 201 answered
    denied,       \* history: written instruments, an error answered
    raced         \* history: instruments written while another thread reloaded

instVars == <<product, xref, mem, caller, reloads, answered, denied, raced>>

Resting == [pc |-> "idle", cusip |-> NoCusip, rows |-> {}]

\* The cache is loaded at start-up, from empty tables.
InstInit ==
    /\ product = {} /\ xref = {}
    /\ mem = [products |-> {}, xrefs |-> {}, by_product_id |-> {}, xref_index |-> {}]
    /\ caller = [c \in InstCaller |-> Resting]
    /\ reloads = 0 /\ answered = {} /\ denied = {} /\ raced = {}

Proceed(c, pc) == caller' = [caller EXCEPT ![c].pc = pc]
Reloading == {"products", "products_set", "xrefs", "xrefs_set", "by_id", "index"}

\* create_instrument's first write.  A cusip that is taken is refused (409),
\* and so is the loser of two inserts that drew one id: nothing changes.
sp_ins_product(c, k) ==
    /\ caller[c].pc = "idle" /\ k \notin product
    /\ product' = product \cup {k}
    /\ caller' = [caller EXCEPT ![c] = [pc |-> "xref", cusip |-> k, rows |-> {}]]
    /\ UNCHANGED <<xref, mem, reloads, answered, denied, raced>>

\* A plausible bug: the new instrument is answered without a reload.
sp_ins_product_xref_NoReload(c) ==
    /\ caller[c].pc = "xref"
    /\ xref' = xref \cup {caller[c].cusip}
    /\ Proceed(c, "answer")
    /\ UNCHANGED <<product, mem, reloads, answered, denied, raced>>

\* Its second, in a transaction of its own, before refresh().
sp_ins_product_xref(c) ==
    /\ caller[c].pc = "xref"
    /\ xref' = xref \cup {caller[c].cusip}
    /\ raced' = IF \E b \in InstCaller : caller[b].pc \in Reloading
                THEN raced \cup {caller[c].cusip} ELSE raced
    /\ Proceed(c, "products")
    /\ UNCHANGED <<product, mem, reloads, answered, denied>>

\* The second write rejected: a product stays that no venue lists.
XrefRejected(c) ==
    /\ caller[c].pc = "xref"
    /\ caller' = [caller EXCEPT ![c] = Resting]
    /\ UNCHANGED <<product, xref, mem, reloads, answered, denied, raced>>

\* POST /inst/refresh
refresh_inst(c) ==
    /\ caller[c].pc = "idle" /\ reloads < MaxReloads
    /\ reloads' = reloads + 1
    /\ Proceed(c, "products")
    /\ UNCHANGED <<product, xref, mem, answered, denied, raced>>

\* load_all: a table is read, and only then does the attribute change.
ReadTable(c) ==
    /\ \/ /\ caller[c].pc = "products"
          /\ caller' = [caller EXCEPT ![c].pc = "products_set", ![c].rows = product]
       \/ /\ caller[c].pc = "xrefs"
          /\ caller' = [caller EXCEPT ![c].pc = "xrefs_set", ![c].rows = xref]
    /\ UNCHANGED <<product, xref, mem, reloads, answered, denied, raced>>

\* ... the lookups are built from the attributes, whoever set them last.
load_all(c) ==
    /\ \/ caller[c].pc = "products_set" /\ Proceed(c, "xrefs")
          /\ mem' = [mem EXCEPT !.products = caller[c].rows]
       \/ caller[c].pc = "xrefs_set" /\ Proceed(c, "by_id")
          /\ mem' = [mem EXCEPT !.xrefs = caller[c].rows]
       \/ caller[c].pc = "by_id" /\ Proceed(c, "index")
          /\ mem' = [mem EXCEPT !.by_product_id = mem.products]
       \/ caller[c].pc = "index"
          /\ mem' = [mem EXCEPT !.xref_index = mem.xrefs]
          /\ IF caller[c].cusip = NoCusip
             THEN caller' = [caller EXCEPT ![c] = Resting]
             ELSE Proceed(c, "answer")
    /\ UNCHANGED <<product, xref, reloads, answered, denied, raced>>

\* A read that raises ends the request, the attributes half replaced.
ReloadFails(c) ==
    /\ caller[c].pc \in {"products", "xrefs"}
    /\ caller' = [caller EXCEPT ![c] = Resting]
    /\ UNCHANGED <<product, xref, mem, reloads, answered, denied, raced>>

\* create_instrument's last lines: what was written must be in memory.
Answer(c) ==
    LET k == caller[c].cusip
    IN  /\ caller[c].pc = "answer"
        /\ IF k \in mem.by_product_id
           THEN answered' = answered \cup {k} /\ UNCHANGED denied
           ELSE denied' = denied \cup {k} /\ UNCHANGED answered
        /\ caller' = [caller EXCEPT ![c] = Resting]
        /\ UNCHANGED <<product, xref, mem, reloads, raced>>

InstNext ==
    \E c \in InstCaller :
        \/ \E k \in Cusip : sp_ins_product(c, k)
        \/ sp_ins_product_xref(c) \/ XrefRejected(c) \/ refresh_inst(c)
        \/ ReadTable(c) \/ load_all(c) \/ ReloadFails(c) \/ Answer(c)

\* GET /inst/apps/{app_id}/products: the xrefs whose product is in memory.
get_app_products == {k \in mem.xrefs : k \in mem.by_product_id}

resolve_vendor_symbol(k) == k \in mem.xref_index

(* "without this the instrument would not appear until the next             *)
(* POST /api/v1/inst/refresh or restart - and the caller's next action is   *)
(* to use it" (create_instrument): an instrument answered with 201 is       *)
(* offered and resolved from then on, through reloads that fail half way,   *)
(* and one that was written is not answered with an error; only a reload    *)
(* that another thread had begun before the write can hide it again.        *)
CreatedIsServed ==
    /\ \A k \in answered \ raced : k \in get_app_products /\ resolve_vendor_symbol(k)
    /\ denied \subseteq raced
=============================================================================
