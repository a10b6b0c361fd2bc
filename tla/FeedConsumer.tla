---------------------------- MODULE FeedConsumer ----------------------------
(***************************************************************************)
(* The reference consumer of GET /order-events, demo/feed_consumer.py, and *)
(* the route it polls, orders/routes.py list_order_events, over a log that *)
(* order intake extends meanwhile.  One consumer process at a time, over   *)
(* one cursor file; it may die between any two steps and be started again. *)
(***************************************************************************)
EXTENDS Integers, FiniteSets, FiniteSetsExt

CONSTANTS Refs,
          PageLimit,    \* PAGE_LIMIT of the consumer
          MaxEventId,
          MaxRuns,      \* bound: starts of the consumer process
          NoOrder

\* An event of this release, of a later release, or of another type.
Kinds == {"accepted", "accepted_v2", "other_type"}

ASSUME FeedConsumerAssumption ==
    /\ PageLimit \in Nat \ {0}
    /\ MaxEventId \in Nat \ {0}
    /\ MaxRuns \in Nat
    /\ NoOrder \notin Kinds

VARIABLES
    orders, events,  \* the order book: an order is here the kind of its event
    cursorFile,      \* the integer in the cursor file, 0 while there is none
    runs,            \* how often the process was started
    fromStart,       \* whether any start so far ignored the cursor file
    stop,            \* SIGINT or SIGTERM was received
    pc,              \* the next step of the process
    cursor,          \* its cursor in memory
    page,            \* the events of the page it has not processed yet
    hasMore,         \* has_more of that page
    output,          \* ids of the events whose line reached stdout, ever
    lastLine         \* the id of the last line of this run, 0 before

book == <<orders, events>>
vars == <<book, cursorFile, runs, fromStart, stop, pc, cursor, page, hasMore, output, lastLine>>

Book == INSTANCE OrderBook WITH Orders <- Kinds \ {"other_type"}

FeedTypeOK ==
    /\ orders \in [Refs -> Kinds \cup {NoOrder}]
    /\ events \subseteq [id: Book!EventIds, ref: Refs, data: Kinds]
    /\ cursorFile \in 0..MaxEventId
    /\ runs \in 0..MaxRuns
    /\ fromStart \in BOOLEAN /\ stop \in BOOLEAN /\ hasMore \in BOOLEAN
    /\ pc \in {"down", "poll", "process", "save", "failed"}
    /\ cursor \in 0..MaxEventId
    /\ page \subseteq events
    /\ output \subseteq Book!EventIds
    /\ lastLine \in 0..MaxEventId

-----------------------------------------------------------------------------
Init ==
    /\ Book!Init
    /\ cursorFile = 0
    /\ runs = 0
    /\ fromStart = FALSE
    /\ stop = FALSE
    /\ pc = "down"
    /\ cursor = 0
    /\ page = {}
    /\ hasMore = FALSE
    /\ output = {}
    /\ lastLine = 0

\* Mutant: `after` is included.
FeedPageFromCursor(after, limit) ==
    LET rows == Book!ReadEvents(after - 1, limit + 1)
    IN  [events |-> {e \in rows : Cardinality({f \in rows : f.id < e.id}) < limit},
         has_more |-> Cardinality(rows) > limit]

\* Mutant: only the rows of the page are read.
FeedPageWithoutExtraRow(after, limit) ==
    LET rows == Book!ReadEvents(after, limit)
    IN  [events |-> {e \in rows : Cardinality({f \in rows : f.id < e.id}) < limit},
         has_more |-> Cardinality(rows) > limit]

\* list_order_events: limit + 1 rows are read, the extra one only decides has_more.
FeedPage(after, limit) ==
    LET rows == Book!ReadEvents(after, limit + 1)
    IN  [events |-> {e \in rows : Cardinality({f \in rows : f.id < e.id}) < limit},
         has_more |-> Cardinality(rows) > limit]

NextEvent == CHOOSE e \in page : \A f \in page : e.id <= f.id

-----------------------------------------------------------------------------
(* run_feed_consumer.                                                      *)

Start(ignoreFile) ==
    /\ pc \in {"down", "failed"}
    /\ runs < MaxRuns /\ runs' = runs + 1
    /\ fromStart' = (fromStart \/ ignoreFile)
    /\ cursor' = IF ignoreFile THEN 0 ELSE cursorFile
    /\ stop' = FALSE
    /\ lastLine' = 0
    /\ pc' = "poll"
    /\ UNCHANGED <<book, cursorFile, page, hasMore, output>>

\* Mutant: the cursor of a page is saved before its events are printed.
FetchPageAndSaveCursor ==
    /\ pc = "poll" /\ ~stop
    /\ LET answer == FeedPage(cursor, PageLimit)
       IN  /\ page' = answer.events
           /\ hasMore' = answer.has_more
           /\ pc' = IF answer.events = {} THEN "poll" ELSE "process"
           /\ cursorFile' = Max({e.id : e \in answer.events} \cup {cursorFile})
    /\ UNCHANGED <<book, runs, fromStart, stop, cursor, output, lastLine>>

\* fetch_page until it has a page; failed attempts change nothing.
FetchPage ==
    /\ pc = "poll" /\ ~stop
    /\ LET answer == FeedPage(cursor, PageLimit)
       IN  /\ page' = answer.events
           /\ hasMore' = answer.has_more
           /\ pc' = IF answer.events = {} THEN "poll" ELSE "process"
    /\ UNCHANGED <<book, cursorFile, runs, fromStart, stop, cursor, output, lastLine>>

\* The loop ends once stop is set, here or in fetch_page: exit status 0.
Finish ==
    /\ pc = "poll" /\ stop
    /\ pc' = "down"
    /\ UNCHANGED <<book, cursorFile, runs, fromStart, stop, cursor, page, hasMore, output, lastLine>>

\* Mutant: an event of another type is dropped, and the cursor does not move.
DropEvent ==
    /\ page' = page \ {NextEvent}
    /\ pc' = IF page' = {} THEN "poll" ELSE "process"
    /\ UNCHANGED <<output, lastLine>>
SkipEvent == pc' = "save" /\ UNCHANGED <<output, lastLine, page>>

\* process: print and flush an accepted event, print nothing for another
\* type, end with exit status 1 on a version this consumer does not know.
Process ==
    /\ pc = "process"
    /\ \/ /\ NextEvent.data = "accepted"
          /\ output' = output \cup {NextEvent.id}
          /\ lastLine' = NextEvent.id
          /\ pc' = "save"
          /\ UNCHANGED page
       \/ NextEvent.data = "other_type" /\ SkipEvent
       \/ /\ NextEvent.data = "accepted_v2"
          /\ pc' = "failed" /\ page' = {}
          /\ UNCHANGED <<output, lastLine>>
    /\ UNCHANGED <<book, cursorFile, runs, fromStart, stop, cursor, hasMore>>

\* Mutant: the file is written once a page.
SaveLastOfPage(id) ==
    cursor' = id /\ cursorFile' = IF page = {NextEvent} THEN id ELSE cursorFile
\* Mutant: the cursor is the next event_id to read, not the last one read.
SaveNextEventId(id) == cursor' = id + 1 /\ cursorFile' = id + 1

\* write_cursor replaces the file atomically.
SaveCursor(id) == cursor' = id /\ cursorFile' = id

\* The cursor passes the event; then the next event of the page, the end on
\* stop, or the next page (at once or after the poll interval).
WriteCursor ==
    /\ pc = "save"
    /\ SaveCursor(NextEvent.id)
    /\ IF stop THEN pc' = "down" /\ page' = {}
               ELSE /\ page' = page \ {NextEvent}
                    /\ pc' = IF page' = {} THEN "poll" ELSE "process"
    /\ UNCHANGED <<book, runs, fromStart, stop, hasMore, output, lastLine>>

\* The process is killed, or an error that nothing handles (stdout closed, the
\* cursor file not writable, a 4xx) ends it; the file keeps its last cursor.
Die ==
    /\ pc \in {"poll", "process", "save"}
    /\ pc' = "down" /\ page' = {}
    /\ UNCHANGED <<book, cursorFile, runs, fromStart, stop, cursor, hasMore, output, lastLine>>

Signal ==
    /\ pc \in {"poll", "process", "save"} /\ ~stop
    /\ stop' = TRUE
    /\ UNCHANGED <<book, cursorFile, runs, fromStart, pc, cursor, page, hasMore, output, lastLine>>

-----------------------------------------------------------------------------
(* The log grows.                                                          *)

consumer == <<cursorFile, runs, fromStart, stop, pc, cursor, page, hasMore, output, lastLine>>

\* Order intake of this release or of a later one.
AcceptOrder(ref, kind, id) == Book!Accept(ref, kind, id) /\ UNCHANGED consumer

\* A later release appends an event of another type to an order.
AppendOtherType(ref, id) ==
    /\ Book!Stored(ref)
    /\ \A e \in events : e.id < id /\ (e.ref = ref => e.data # "other_type")
    /\ events' = events \cup {[id |-> id, ref |-> ref, data |-> "other_type"]}
    /\ UNCHANGED <<orders, consumer>>

Run == FetchPage \/ Finish \/ Process \/ WriteCursor

Next ==
    \/ \E ignoreFile \in BOOLEAN : Start(ignoreFile)
    \/ Run
    \/ Die
    \/ Signal
    \/ \E ref \in Refs, id \in Book!EventIds :
          \/ \E kind \in Kinds \ {"other_type"} : AcceptOrder(ref, kind, id)
          \/ AppendOtherType(ref, id)

Spec == Init /\ [][Next]_vars

\* The process runs when it can, and its page requests are answered in the end.
FairSpec == Spec /\ WF_vars(Run)

-----------------------------------------------------------------------------
(* What the consumer obligations of specs/04-api.md come to.               *)

\* At-least-once: nothing at or below a persisted cursor is missing from the
\* output, in whatever order events were accepted and processes died; and a
\* cursor never gets past an event its consumer could not understand.
NothingSkipped ==
    \A e \in events : e.id <= cursorFile =>
       e.data # "accepted_v2" /\ (e.data = "accepted" => e.id \in output)

\* "One duplicate line" (specs/05-reliability.md, failure table): as long as
\* no start ignored the file, at most one line is ahead of the cursor, so a
\* restart repeats at most one.
OneLineAhead ==
    ~fromStart => Cardinality({id \in output : id > cursorFile}) <= 1

\* Within a run lines come in event_id order and none comes twice.
LinesAscend ==
    [][pc = "process" /\ pc' = "save" /\ NextEvent.data = "accepted"
          => lastLine < NextEvent.id]_vars

\* has_more is exact at the moment of the read, also when the page is full to
\* its limit: TRUE if and only if events follow the last of the page
\* (list_order_events, "the extra row only decides has_more").
HasMoreIsExact ==
    [][FetchPage => (hasMore' <=> \E e \in events : /\ cursor < e.id
                                                  /\ \A f \in page' : f.id < e.id)]_vars

\* A consumer that is left running reaches the end of the log, page by page,
\* and stays there; one that meets an unknown version is not left running.
ReachesTheHead ==
    <>[](pc \in {"poll", "process", "save"} /\ ~stop)
       => <>[](\A e \in events : e.id <= cursorFile)
=============================================================================
