---------------------------- MODULE OrderCollection ----------------------------
(***************************************************************************)
(* The documents behind OrderStore: statusHistory as the list it is, the   *)
(* timestamps, and the queries of repositories/OrderRepository.ts as the   *)
(* GET handlers of controllers/OrderController.ts ask them.                *)
(*                                                                         *)
(* OrderStore keeps the set of the statuses in the history and describes a *)
(* save by the status that was read.  Here an updater holds a copy of the  *)
(* document; the save sends what differs from the copy, and the history it *)
(* sends is the entries that were pushed onto the copy, which MongoDB      *)
(* appends.  RecordedIsHistory is the refinement.                          *)
(*                                                                         *)
(* A client that wants the whole list asks page after page while orders    *)
(* are created and updated.  Orders created in the same millisecond have   *)
(* no order: MongoDB may list them either way each time.                   *)
(***************************************************************************)
EXTENDS Naturals, Sequences, SequencesExt

CONSTANTS
    MarketDocs, LimitDocs,  \* the orders, as in OrderStore
    Updaters,               \* each runs one update
    UpdateTargets,          \* bound: the statuses they set
    PageSizes,              \* values of the query parameter limit, 0 for no limit
    MaxTime                \* bound: milliseconds

VARIABLES
    clock,      \* the time
    doc,        \* doc[o]: the document of o
    updater,    \* updater[u]: its copy and its target
    client      \* the client that lists orders

collectionVars == <<clock, doc, updater, client>>

Docs == MarketDocs \cup LimitDocs

Store == INSTANCE OrderStore WITH
    MarketOrders <- MarketDocs, LimitOrders <- LimitDocs, MaxDbFaults <- 0,
    status <- [o \in Docs |-> doc[o].status],
    txHash <- [o \in Docs |-> 0],
    recorded <- [o \in Docs |-> ToSet(doc[o].history)],
    notified <- [o \in Docs |-> {}],
    dbFaults <- 0

ASSUME CollectionAssumption ==
    /\ IsFiniteSet(Docs)
    /\ MarketDocs \cap LimitDocs = {}
    /\ UpdateTargets \subseteq Store!OrderStatus
    /\ PageSizes \subseteq Nat
    /\ MaxTime \in Nat

Stored == {o \in Docs : doc[o].status # Store!NoDoc}

CollectionTypeOK ==
    /\ clock \in 0 .. MaxTime
    /\ \A o \in Docs :
          /\ doc[o].status \in Store!OrderStatus \cup {Store!NoDoc}
          /\ doc[o].history \in Seq(Store!OrderStatus)
          /\ {doc[o].createdAt, doc[o].updatedAt} \subseteq 0 .. clock
    /\ \A u \in Updaters :
          /\ updater[u].pc \in {"idle", "save", "done"}
          /\ updater[u].pc = "save" => updater[u].order \in Stored
          /\ updater[u].copy \in Store!OrderStatus
    /\ client.pc \in {"idle", "paging", "done"}
    /\ client.expected \cup client.seen \subseteq Stored

\* An updater that holds no copy.
NoCopy(pc) == [pc |-> pc, order |-> CHOOSE o \in Docs : TRUE, copy |-> "PENDING", target |-> "PENDING"]

CollectionInit ==
    /\ clock = 0
    /\ doc = [o \in Docs |-> [status |-> Store!NoDoc, history |-> <<>>,
                              createdAt |-> 0, updatedAt |-> 0]]
    /\ updater = [u \in Updaters |-> NoCopy("idle")]
    /\ client = [pc |-> "idle", size |-> 0, skip |-> 0,
                 expected |-> {}, seen |-> {}]

Tick ==
    /\ clock < MaxTime
    /\ clock' = clock + 1
    /\ UNCHANGED <<doc, updater, client>>

\* Repository.create: the entry createOrder puts in, and the hook's, a status being
\* modified in every new document.
CreateDoc(o) ==
    /\ o \notin Stored
    /\ LET s == Store!InitialStatus(o)
       IN  doc' = [doc EXCEPT ![o] = [status |-> s, history |-> <<s, s>>,
                                      createdAt |-> clock, updatedAt |-> clock]]
    /\ UNCHANGED <<clock, updater, client>>

\* updateStatus and updateExecutionDetails: findById.
ReadDoc(u, o, target) ==
    /\ updater[u].pc = "idle"
    /\ o \in Stored
    /\ updater' = [updater EXCEPT ![u] =
                     [pc |-> "save", order |-> o, copy |-> doc[o].status, target |-> target]]
    /\ UNCHANGED <<clock, doc, client>>

\* The entry updateStatus pushes with its message, and then the hook's.
Messaged(target) == IF target \in Store!MessagedStatus THEN <<target>> ELSE <<>>
Hooked(copy, target) == IF copy # target THEN <<target>> ELSE <<>>

\* Mutant of Pushed: the hook is gone.
PushedByCaller(copy, target) == Messaged(target)

Pushed(copy, target) == Messaged(target) \o Hooked(copy, target)

\* document.save(); nothing is sent when nothing differs.
SaveDoc(u) ==
    /\ updater[u].pc = "save"
    /\ LET o == updater[u].order
           copy == updater[u].copy
           target == updater[u].target
           old == doc[o]
       IN  doc' = [doc EXCEPT ![o] =
              [old EXCEPT !.status = IF copy = target THEN old.status ELSE target,
                          !.history = old.history \o Pushed(copy, target),
                          !.updatedAt = IF Pushed(copy, target) = <<>> THEN old.updatedAt ELSE clock]]
    /\ updater' = [updater EXCEPT ![u] = NoCopy("done")]
    /\ UNCHANGED <<clock, client>>

-----------------------------------------------------------------------------

\* Mutant of SortKey: the orders that changed last come first.
SortKeyUpdated(o) == doc[o].updatedAt

\* sort({ createdAt: -1 }), of all the queries.
SortKey(o) == doc[o].createdAt

\* The orders in any of the ways MongoDB may list them.
Listings ==
    {l \in SetToSeqs(Stored) :
        \A i, j \in 1 .. Len(l) : i < j => SortKey(l[i]) >= SortKey(l[j])}

\* find().sort().skip().limit(), where a limit of 0 is none.
Page(l, skip, size) ==
    LET last == IF size = 0 \/ skip + size > Len(l) THEN Len(l) ELSE skip + size
    IN  ToSet(SubSeq(l, skip + 1, last))

\* A client begins to list; it passes skip and limit itself, page is not a parameter.
AskOrders(size) ==
    /\ client.pc = "idle"
    /\ client' = [pc |-> "paging", size |-> size, skip |-> 0, expected |-> Stored, seen |-> {}]
    /\ UNCHANGED <<clock, doc, updater>>

\* The next page arrives; a page that is not full is the last.
NextPage ==
    /\ client.pc = "paging"
    /\ \E l \in Listings :
          LET page == Page(l, client.skip, client.size)
              more == client.size > 0 /\ Cardinality(page) = client.size
          IN  client' = [client EXCEPT
                 !.pc = IF more THEN "paging" ELSE "done",
                 !.skip = @ + client.size,
                 !.seen = @ \cup page]
    /\ UNCHANGED <<clock, doc, updater>>

CollectionNext ==
    \/ Tick
    \/ \E o \in Docs : CreateDoc(o)
    \/ \E u \in Updaters :
          SaveDoc(u) \/ \E o \in Docs, target \in UpdateTargets : ReadDoc(u, o, target)
    \/ \E size \in PageSizes : AskOrders(size)
    \/ NextPage

CollectionSpec == CollectionInit /\ [][CollectionNext]_collectionVars
-----------------------------------------------------------------------------

\* Whoever reads all pages misses no order that was there when it began, although orders
\* are created and updated between the pages, unless another was created in the same
\* millisecond.
PagingMissesTiesOnly ==
    client.pc = "done" =>
        \A o \in client.expected \ client.seen :
            \E p \in Stored \ {o} : doc[p].createdAt = doc[o].createdAt

\* The list and the copies implement OrderStore: every step is one of its inserts or its
\* saves for the status that was read, or leaves statuses and recorded statuses alone.
RecordedIsHistory ==
    /\ Store!StoreInit
    /\ [][\/ \E o \in Docs : Store!InsertDoc(o)
          \/ \E u \in Updaters :
                Store!Save(updater[u].order, updater[u].copy, updater[u].target, 0)
         ]_<<[o \in Docs |-> doc[o].status], [o \in Docs |-> ToSet(doc[o].history)]>>
=============================================================================
