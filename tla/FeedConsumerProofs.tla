------------------------- MODULE FeedConsumerProofs -------------------------
(***************************************************************************)
(* Proofs about FeedConsumer for every set of orders, every page size and  *)
(* any number of deaths and starts of the consumer.                        *)
(***************************************************************************)
EXTENDS FeedConsumer, FiniteSetTheorems, TLAPS

\* The log as its readers rely on it.
LogIsSound ==
    /\ IsFiniteSet(events)
    /\ \A e, f \in events : e.id = f.id => e = f

\* A cursor never runs ahead of the log, so the next event is always new.
InTheLog(position) == position = 0 \/ \E e \in events : position <= e.id

\* Nothing at or below a cursor is missing from the output.
SafeBelow(position) ==
    \A e \in events : e.id <= position =>
       e.data # "accepted_v2" /\ (e.data = "accepted" => e.id \in output)

CursorsAreSafe == /\ InTheLog(cursor) /\ SafeBelow(cursor)
                  /\ InTheLog(cursorFile) /\ SafeBelow(cursorFile)

\* What is left of a page is the part of the log that follows the cursor,
\* without gaps.
PageIsNext ==
    IF pc \in {"process", "save"}
    THEN /\ page # {}
         /\ \A e \in page : cursor < e.id
         /\ \A e \in page, f \in events : cursor < f.id /\ f.id <= e.id => f \in page
    ELSE page = {}

\* An event whose cursor is about to be saved was understood and printed.
SavedIsPrinted ==
    pc = "save" => /\ NextEvent.data # "accepted_v2"
                   /\ NextEvent.data = "accepted" => NextEvent.id \in output

\* Without a start that ignores the file, only the line of the first event
\* after the cursor can be ahead of the file.
AheadIsNext ==
    ~fromStart =>
       /\ pc \in {"poll", "process", "save"} => cursor = cursorFile
       /\ \A id \in output : cursorFile < id =>
             \A e \in events : cursorFile < e.id => id <= e.id

\* Every line belongs to an event.
LinesHaveEvents == \A id \in output : \E e \in events : e.id = id

\* The last line of a run is not ahead of the event at hand.
LastLineIsBehind ==
    /\ pc \in {"poll", "process"} => lastLine <= cursor
    /\ pc = "save" => lastLine <= NextEvent.id

IndInv ==
    /\ FeedTypeOK
    /\ LogIsSound
    /\ CursorsAreSafe
    /\ PageIsNext
    /\ SavedIsPrinted
    /\ AheadIsNext
    /\ LinesHaveEvents
    /\ LastLineIsBehind

-----------------------------------------------------------------------------
(* Pages.                                                                  *)

\* A finite set of events has a first one: strict inclusion of the sets of
\* predecessors is well-founded.
LEMMA FirstEventExists ==
    ASSUME NEW S, IsFiniteSet(S), S # {}, \A e \in S : e.id \in Nat
    PROVE  \E e \in S : \A f \in S : e.id <= f.id
<1> DEFINE Before(e) == {f \in S : f.id < e.id}
<1> DEFINE Prefixes == {Before(e) : e \in S}
<1>1. IsWellFoundedOn(StrictSubsetOrdering(S), FiniteSubsetsOf(S))
  BY FS_StrictSubsetOrderingWellFounded
<1>2. Prefixes \subseteq FiniteSubsetsOf(S) /\ Prefixes # {}
  <2>1. \A e \in S : Before(e) \in SUBSET S /\ IsFiniteSet(Before(e))
    BY FS_Subset
  <2>2. QED
    BY <2>1 DEF FiniteSubsetsOf
<1>3. PICK T \in Prefixes : \A U \in Prefixes : <<U, T>> \notin StrictSubsetOrdering(S)
  <2> HIDE DEF Prefixes
  <2> QED  BY <1>1, <1>2, WFMin
<1>4. PICK e \in S : T = Before(e)
  BY <1>3
<1>5. ASSUME NEW f \in S, f.id < e.id
      PROVE  FALSE
  <2>1. Before(f) \subseteq Before(e) /\ f \in Before(e) /\ f \notin Before(f)
    BY <1>5
  <2>2. <<Before(f), T>> \in StrictSubsetOrdering(S)
    BY <1>4, <2>1 DEF StrictSubsetOrdering
  <2>3. QED
    BY <1>3, <2>2
<1>6. QED
  BY <1>5

\* NextEvent is the first event of the page.
LEMMA NextEventIsFirst ==
    ASSUME FeedTypeOK, LogIsSound, page # {}
    PROVE  /\ NextEvent \in page
           /\ \A f \in page : NextEvent.id <= f.id
<1>1. IsFiniteSet(page)
  BY FS_Subset DEF FeedTypeOK, LogIsSound
<1>2. \A e \in page : e.id \in Nat
  BY FeedConsumerAssumption DEF FeedTypeOK, Book!EventIds
<1>3. QED
  BY <1>1, <1>2, FirstEventExists DEF NextEvent

\* A page is the log after the cursor, without gaps.
LEMMA FeedPageIsNext ==
    ASSUME IsFiniteSet(events), \A e \in events : e.id \in Nat,
           NEW after \in Nat, NEW limit \in Nat
    PROVE  LET answer == FeedPage(after, limit).events
           IN  /\ answer \subseteq events
               /\ \A e \in answer : after < e.id
               /\ \A e \in answer, f \in events : after < f.id /\ f.id <= e.id => f \in answer
<1> DEFINE rows == Book!ReadEvents(after, limit + 1)
           Before(e) == {f \in rows : f.id < e.id}
<1>1. rows \subseteq events /\ IsFiniteSet(rows)
  BY FS_Subset DEF Book!ReadEvents
<1>2. \A e \in rows : after < e.id
  BY DEF Book!ReadEvents
<1>3. ASSUME NEW e \in rows, NEW f \in events, after < f.id, f.id <= e.id
      PROVE  f \in rows
  <2>1. Book!EventsBetween(after, f.id) \subseteq Book!EventsBetween(after, e.id)
    BY <1>1, <1>3 DEF Book!EventsBetween
  <2>2. IsFiniteSet(Book!EventsBetween(after, e.id))
    BY FS_Subset DEF Book!EventsBetween
  <2>3. Cardinality(Book!EventsBetween(after, f.id)) \in Nat
        /\ Cardinality(Book!EventsBetween(after, e.id)) \in Nat
        /\ Cardinality(Book!EventsBetween(after, f.id))
              <= Cardinality(Book!EventsBetween(after, e.id))
    BY <2>1, <2>2, FS_Subset, FS_CardinalityType
  <2>4. Cardinality(Book!EventsBetween(after, e.id)) < limit + 1
    BY DEF Book!ReadEvents, Book!Cardinality, Cardinality
  <2>5. Cardinality(Book!EventsBetween(after, f.id)) < limit + 1
    BY <2>3, <2>4
  <2>6. QED
    BY <1>3, <2>5 DEF Book!ReadEvents, Book!Cardinality, Cardinality
<1>4. ASSUME NEW e \in rows, NEW f \in rows, f.id <= e.id, Cardinality(Before(e)) < limit
      PROVE  Cardinality(Before(f)) < limit
  <2>1. Before(f) \subseteq Before(e)
    BY <1>1, <1>4
  <2>2. IsFiniteSet(Before(e))
    BY <1>1, FS_Subset
  <2>3. Cardinality(Before(f)) \in Nat /\ Cardinality(Before(e)) \in Nat
        /\ Cardinality(Before(f)) <= Cardinality(Before(e))
    BY <2>1, <2>2, FS_Subset, FS_CardinalityType
  <2>4. QED
    BY <1>4, <2>3
<1>5. FeedPage(after, limit).events = {e \in rows : Cardinality(Before(e)) < limit}
  BY DEF FeedPage
<1> HIDE DEF rows, Before
<1>6. QED
  BY <1>1, <1>2, <1>3, <1>4, <1>5

-----------------------------------------------------------------------------
(* The inductive invariant.                                                *)

LEMMA InitIndInv == Init => IndInv
<1> SUFFICES ASSUME Init PROVE IndInv
  OBVIOUS
<1>1. FeedTypeOK
  <2>1. 0 \in 0..MaxEventId /\ 0 \in 0..MaxRuns
    BY FeedConsumerAssumption
  <2>2. orders \in [Refs -> Kinds \cup {NoOrder}]
    BY DEF Init, Book!Init
  <2>3. QED
    BY <2>1, <2>2 DEF Init, Book!Init, FeedTypeOK
<1>2. LogIsSound /\ LinesHaveEvents
  BY FS_EmptySet DEF Init, Book!Init, LogIsSound, LinesHaveEvents
<1>3. CursorsAreSafe /\ PageIsNext /\ SavedIsPrinted /\ AheadIsNext /\ LastLineIsBehind
  BY DEF Init, Book!Init, CursorsAreSafe, InTheLog, SafeBelow, PageIsNext, SavedIsPrinted,
         AheadIsNext, LastLineIsBehind
<1>4. QED
  BY <1>1, <1>2, <1>3 DEF IndInv

LEMMA StartPreserves ==
    ASSUME IndInv, NEW ignoreFile \in BOOLEAN, Start(ignoreFile)
    PROVE  IndInv'
<1>1. FeedTypeOK'
  <2>1. runs' \in 0..MaxRuns /\ cursor' \in 0..MaxEventId /\ lastLine' \in 0..MaxEventId
    BY FeedConsumerAssumption DEF IndInv, FeedTypeOK, Start
  <2>2. QED
    BY <2>1 DEF IndInv, FeedTypeOK, Start, book
<1>2. LogIsSound' /\ LinesHaveEvents'
  BY DEF IndInv, LogIsSound, LinesHaveEvents, Start, book
<1>3. CursorsAreSafe'
  BY FeedConsumerAssumption DEF IndInv, CursorsAreSafe, InTheLog, SafeBelow, FeedTypeOK,
     Book!EventIds, Start, book
<1>4. PageIsNext' /\ SavedIsPrinted' /\ AheadIsNext'
  BY DEF IndInv, PageIsNext, SavedIsPrinted, AheadIsNext, FeedTypeOK, Start, book
<1>5. LastLineIsBehind'
  BY FeedConsumerAssumption DEF IndInv, LastLineIsBehind, FeedTypeOK, Start
<1>6. QED
  BY <1>1, <1>2, <1>3, <1>4, <1>5 DEF IndInv

LEMMA FetchPagePreserves ==
    ASSUME IndInv, FetchPage
    PROVE  IndInv'
<1> DEFINE answer == FeedPage(cursor, PageLimit).events
<1>1. /\ answer \subseteq events
      /\ \A e \in answer : cursor < e.id
      /\ \A e \in answer, f \in events : cursor < f.id /\ f.id <= e.id => f \in answer
  BY FeedConsumerAssumption, FeedPageIsNext DEF IndInv, FeedTypeOK, LogIsSound, Book!EventIds
<1>2. page' = answer /\ pc' = IF answer = {} THEN "poll" ELSE "process"
  BY DEF FetchPage
<1>3. hasMore' \in BOOLEAN
  BY DEF FetchPage, FeedPage
<1>4. UNCHANGED <<book, cursorFile, runs, fromStart, stop, cursor, output, lastLine>>
      /\ pc = "poll"
  BY DEF FetchPage
<1> HIDE DEF answer
<1>5. FeedTypeOK'
  BY <1>1, <1>2, <1>3, <1>4 DEF IndInv, FeedTypeOK, book
<1>6. LogIsSound' /\ LinesHaveEvents' /\ CursorsAreSafe'
  BY <1>4 DEF IndInv, LogIsSound, LinesHaveEvents, CursorsAreSafe, InTheLog, SafeBelow, book
<1>7. PageIsNext'
  BY <1>1, <1>2, <1>4 DEF PageIsNext, book
<1>8. SavedIsPrinted' /\ AheadIsNext' /\ LastLineIsBehind'
  BY <1>2, <1>4 DEF IndInv, SavedIsPrinted, AheadIsNext, LastLineIsBehind, book
<1>9. QED
  BY <1>5, <1>6, <1>7, <1>8 DEF IndInv

\* The process ends, or an unknown version ends it, and the page is gone.
LEMMA EndPreserves ==
    ASSUME IndInv, pc' \in {"down", "failed"}, page' = {},
           UNCHANGED <<book, cursorFile, runs, fromStart, stop, cursor, hasMore, output, lastLine>>
    PROVE  IndInv'
<1>1. FeedTypeOK'
  BY DEF IndInv, FeedTypeOK, book
<1>2. LogIsSound' /\ LinesHaveEvents' /\ CursorsAreSafe'
  BY DEF IndInv, LogIsSound, LinesHaveEvents, CursorsAreSafe, InTheLog, SafeBelow, book
<1>3. PageIsNext' /\ SavedIsPrinted' /\ AheadIsNext' /\ LastLineIsBehind'
  BY DEF IndInv, PageIsNext, SavedIsPrinted, AheadIsNext, LastLineIsBehind, book
<1>4. QED
  BY <1>1, <1>2, <1>3 DEF IndInv

LEMMA ProcessPreserves ==
    ASSUME IndInv, Process
    PROVE  IndInv'
<1>1. /\ NextEvent \in page /\ NextEvent \in events
      /\ \A f \in page : NextEvent.id <= f.id
      /\ cursor < NextEvent.id
  BY NextEventIsFirst DEF IndInv, PageIsNext, Process, FeedTypeOK
<1>2. CASE NextEvent.data = "accepted_v2"
  BY <1>2, EndPreserves DEF Process
<1>3. CASE NextEvent.data # "accepted_v2"
  <2>1. /\ pc = "process" /\ pc' = "save"
        /\ page' = page /\ NextEvent' = NextEvent
        /\ UNCHANGED <<book, cursorFile, runs, fromStart, stop, cursor, hasMore>>
        /\ \/ /\ NextEvent.data = "accepted"
              /\ output' = output \cup {NextEvent.id}
              /\ lastLine' = NextEvent.id
           \/ /\ NextEvent.data = "other_type"
              /\ output' = output
              /\ lastLine' = lastLine
    BY <1>3 DEF Process, SkipEvent, NextEvent
  <2>2. /\ NextEvent.id \in Book!EventIds /\ NextEvent.id \in 0..MaxEventId
        /\ cursor \in 0..MaxEventId /\ lastLine \in 0..MaxEventId
    BY <1>1, FeedConsumerAssumption DEF IndInv, FeedTypeOK, Book!EventIds
  <2>3. FeedTypeOK'
    BY <2>1, <2>2 DEF IndInv, FeedTypeOK, book
  <2>4. LogIsSound' /\ LinesHaveEvents' /\ CursorsAreSafe'
    BY <1>1, <2>1 DEF IndInv, LogIsSound, LinesHaveEvents, CursorsAreSafe, InTheLog,
       SafeBelow, book
  <2>5. PageIsNext' /\ SavedIsPrinted'
    BY <1>3, <2>1 DEF IndInv, PageIsNext, SavedIsPrinted, book
  <2>6. LastLineIsBehind'
    BY <1>1, <2>1, <2>2, FeedConsumerAssumption DEF IndInv, LastLineIsBehind
  <2>7. AheadIsNext'
    <3>1. ASSUME ~fromStart, NEW e \in events, cursorFile < e.id
          PROVE  NextEvent.id <= e.id
      <4>1. cursor < e.id
        BY <2>1, <3>1 DEF IndInv, AheadIsNext
      <4>2. e \in page \/ NextEvent.id < e.id
        BY <1>1, <2>1, <2>2, <4>1, FeedConsumerAssumption DEF IndInv, PageIsNext,
           FeedTypeOK, Book!EventIds
      <4>3. QED
        BY <1>1, <2>2, <4>2, FeedConsumerAssumption DEF IndInv, FeedTypeOK, Book!EventIds
    <3>2. QED
      BY <2>1, <3>1 DEF IndInv, AheadIsNext, book
  <2>8. QED
    BY <2>3, <2>4, <2>5, <2>6, <2>7 DEF IndInv
<1>4. QED
  BY <1>2, <1>3

LEMMA WriteCursorPreserves ==
    ASSUME IndInv, WriteCursor
    PROVE  IndInv'
<1> DEFINE id == NextEvent.id
<1>1. /\ NextEvent \in page /\ NextEvent \in events
      /\ \A f \in page : id <= f.id
      /\ cursor < id /\ id \in Book!EventIds
      /\ \A f \in page : f.id = id => f = NextEvent
  BY NextEventIsFirst DEF IndInv, PageIsNext, WriteCursor, FeedTypeOK, LogIsSound
<1>2. /\ cursor' = id /\ cursorFile' = id
      /\ UNCHANGED <<book, runs, fromStart, stop, hasMore, output, lastLine>>
      /\ \/ stop /\ pc' = "down" /\ page' = {}
         \/ /\ page' = page \ {NextEvent}
            /\ pc' = IF page' = {} THEN "poll" ELSE "process"
      /\ pc = "save"
  BY DEF WriteCursor, SaveCursor
<1>3. /\ MaxEventId \in Nat /\ id \in 1..MaxEventId /\ cursor \in 0..MaxEventId
      /\ \A e \in events : e.id \in Nat
      /\ \A n \in output : n \in Nat
  BY <1>1, FeedConsumerAssumption DEF IndInv, FeedTypeOK, Book!EventIds
<1>4. NextEvent.data # "accepted_v2" /\ (NextEvent.data = "accepted" => id \in output)
  BY <1>2 DEF IndInv, SavedIsPrinted
<1>5. lastLine <= id
  BY <1>2 DEF IndInv, LastLineIsBehind
<1>6. \A e \in events : cursor < e.id /\ e.id <= id => e = NextEvent
  BY <1>1, <1>2, <1>3 DEF IndInv, PageIsNext
<1> HIDE DEF id
<1>7. FeedTypeOK'
  BY <1>2, <1>3 DEF IndInv, FeedTypeOK, book
<1>8. LogIsSound' /\ LinesHaveEvents'
  BY <1>2 DEF IndInv, LogIsSound, LinesHaveEvents, book
<1>9. CursorsAreSafe'
  <2>1. InTheLog(id)
    BY <1>1, <1>3 DEF InTheLog, id
  <2>2. SafeBelow(id)
    <3>1. ASSUME NEW e \in events, e.id <= id
          PROVE  e.data # "accepted_v2" /\ (e.data = "accepted" => e.id \in output)
      <4>1. CASE cursor < e.id
        <5>1. e = NextEvent
          BY <1>6, <3>1, <4>1
        <5>2. QED
          BY <1>4, <5>1 DEF id
      <4>2. CASE e.id <= cursor
        BY <4>2 DEF IndInv, CursorsAreSafe, SafeBelow
      <4>3. QED
        BY <1>3, <4>1, <4>2
    <3>2. QED
      BY <3>1 DEF SafeBelow
  <2>3. QED
    BY <1>2, <2>1, <2>2 DEF CursorsAreSafe, InTheLog, SafeBelow, book
<1>10. PageIsNext'
  <2>1. ASSUME NEW e \in page, e # NextEvent
        PROVE  id < e.id
    BY <1>1, <1>3, <2>1 DEF IndInv, FeedTypeOK, id
  <2>2. ASSUME NEW e \in page, NEW f \in events, id < f.id, f.id <= e.id
        PROVE  f \in page /\ f # NextEvent
    BY <1>1, <1>2, <1>3, <2>2 DEF IndInv, PageIsNext, id
  <2>3. QED
    BY <1>2, <2>1, <2>2 DEF PageIsNext, book
<1>11. SavedIsPrinted' /\ LastLineIsBehind'
  BY <1>2, <1>5 DEF SavedIsPrinted, LastLineIsBehind
<1>12. AheadIsNext'
  <2>1. ASSUME ~fromStart, NEW n \in output, id < n
        PROVE  FALSE
    <3>1. cursorFile = cursor
      BY <1>2, <2>1 DEF IndInv, AheadIsNext
    <3>2. n <= id
      BY <1>1, <1>3, <2>1, <3>1 DEF IndInv, AheadIsNext, id
    <3>3. QED
      BY <1>3, <2>1, <3>2
  <2>2. QED
    BY <1>2, <2>1 DEF AheadIsNext, book
<1>13. QED
  BY <1>7, <1>8, <1>9, <1>10, <1>11, <1>12 DEF IndInv

\* Signals, and the end of a process that has no page in hand.
LEMMA OtherStepPreserves ==
    ASSUME IndInv, Finish \/ Die \/ Signal \/ UNCHANGED vars
    PROVE  IndInv'
<1>1. CASE Finish
  BY <1>1, EndPreserves DEF IndInv, PageIsNext, Finish
<1>2. CASE Die
  BY <1>2, EndPreserves DEF Die
<1>3. CASE Signal \/ UNCHANGED vars
  <2>1. /\ stop' \in BOOLEAN
        /\ UNCHANGED <<book, cursorFile, runs, fromStart, pc, cursor, page, hasMore,
                       output, lastLine>>
        /\ NextEvent' = NextEvent
    BY <1>3 DEF IndInv, FeedTypeOK, Signal, vars, NextEvent
  <2>2. FeedTypeOK'
    BY <2>1 DEF IndInv, FeedTypeOK, book
  <2>3. LogIsSound' /\ LinesHaveEvents' /\ CursorsAreSafe'
    BY <2>1 DEF IndInv, LogIsSound, LinesHaveEvents, CursorsAreSafe, InTheLog, SafeBelow, book
  <2>4. PageIsNext' /\ SavedIsPrinted' /\ AheadIsNext' /\ LastLineIsBehind'
    BY <2>1 DEF IndInv, PageIsNext, SavedIsPrinted, AheadIsNext, LastLineIsBehind, book
  <2>5. QED
    BY <2>2, <2>3, <2>4 DEF IndInv
<1>4. QED
  BY <1>1, <1>2, <1>3

\* The log grows at its end: nobody has read past the new event.
LEMMA AppendPreserves ==
    ASSUME IndInv, NEW new \in [id: Book!EventIds, ref: Refs, data: Kinds],
           \A e \in events : e.id < new.id,
           events' = events \cup {new}, orders' \in [Refs -> Kinds \cup {NoOrder}],
           UNCHANGED consumer
    PROVE  IndInv'
<1> USE DEF consumer
<1>1. new.id \in Nat /\ 0 < new.id /\ \A e \in events : e.id \in Nat
  BY FeedConsumerAssumption DEF IndInv, FeedTypeOK, Book!EventIds
<1>2. cursor \in Nat /\ cursorFile \in Nat /\ cursor < new.id /\ cursorFile < new.id
  BY <1>1, FeedConsumerAssumption DEF IndInv, FeedTypeOK, CursorsAreSafe, InTheLog
<1>3. NextEvent' = NextEvent
  BY DEF NextEvent
<1>4. FeedTypeOK'
  BY DEF IndInv, FeedTypeOK
<1>5. LogIsSound'
  BY <1>1, FS_AddElement DEF IndInv, LogIsSound
<1>6. LinesHaveEvents'
  BY DEF IndInv, LinesHaveEvents
<1>7. CursorsAreSafe'
  BY <1>1, <1>2 DEF IndInv, CursorsAreSafe, InTheLog, SafeBelow
<1>8. PageIsNext'
  BY <1>1 DEF IndInv, FeedTypeOK, PageIsNext
<1>9. SavedIsPrinted' /\ LastLineIsBehind'
  BY <1>3 DEF IndInv, SavedIsPrinted, LastLineIsBehind
<1>10. AheadIsNext'
  <2>1. \A id \in output : id <= new.id
    BY <1>1 DEF IndInv, LinesHaveEvents
  <2>2. ASSUME ~fromStart, NEW id \in output, cursorFile < id,
               NEW e \in events', cursorFile < e.id
        PROVE  id <= e.id
    <3>1. e \in events \/ e = new
      OBVIOUS
    <3>2. QED
      BY <2>1, <2>2, <3>1 DEF IndInv, AheadIsNext
  <2>3. QED
    BY <2>2 DEF IndInv, AheadIsNext
<1>11. QED
  BY <1>4, <1>5, <1>6, <1>7, <1>8, <1>9, <1>10 DEF IndInv

LEMMA LogPreserves ==
    ASSUME IndInv, NEW ref \in Refs, NEW id \in Book!EventIds,
           (\E kind \in Kinds \ {"other_type"} : AcceptOrder(ref, kind, id))
              \/ AppendOtherType(ref, id)
    PROVE  IndInv'
<1>1. ASSUME NEW kind \in Kinds \ {"other_type"}, AcceptOrder(ref, kind, id)
      PROVE  IndInv'
  <2>1. /\ [id |-> id, ref |-> ref, data |-> kind] \in [id: Book!EventIds, ref: Refs, data: Kinds]
        /\ orders' \in [Refs -> Kinds \cup {NoOrder}]
    BY <1>1 DEF AcceptOrder, Book!Accept, IndInv, FeedTypeOK
  <2>2. QED
    BY <1>1, <2>1, AppendPreserves DEF AcceptOrder, Book!Accept
<1>2. CASE AppendOtherType(ref, id)
  <2>1. /\ [id |-> id, ref |-> ref, data |-> "other_type"] \in
              [id: Book!EventIds, ref: Refs, data: Kinds]
        /\ orders' \in [Refs -> Kinds \cup {NoOrder}]
    BY <1>2 DEF AppendOtherType, IndInv, FeedTypeOK, Kinds
  <2>2. QED
    BY <1>2, <2>1, AppendPreserves DEF AppendOtherType
<1>3. QED
  BY <1>1, <1>2

LEMMA NextIndInv == IndInv /\ [Next]_vars => IndInv'
<1> SUFFICES ASSUME IndInv, [Next]_vars PROVE IndInv'
  OBVIOUS
<1>1. QED
  BY StartPreserves, FetchPagePreserves, ProcessPreserves, WriteCursorPreserves,
     OtherStepPreserves, LogPreserves DEF Next, Run

\* The invariant is one.
THEOREM FeedInvariant == Spec => []IndInv
  BY InitIndInv, NextIndInv, PTL DEF Spec

-----------------------------------------------------------------------------
(* The extra row.                                                          *)

\* The mirror image of FirstEventExists.
LEMMA LastEventExists ==
    ASSUME NEW S, IsFiniteSet(S), S # {}, \A e \in S : e.id \in Nat
    PROVE  \E e \in S : \A f \in S : f.id <= e.id
<1> DEFINE After(e) == {f \in S : e.id < f.id}
<1> DEFINE Suffixes == {After(e) : e \in S}
<1>1. IsWellFoundedOn(StrictSubsetOrdering(S), FiniteSubsetsOf(S))
  BY FS_StrictSubsetOrderingWellFounded
<1>2. Suffixes \subseteq FiniteSubsetsOf(S) /\ Suffixes # {}
  <2>1. \A e \in S : After(e) \in SUBSET S /\ IsFiniteSet(After(e))
    BY FS_Subset
  <2>2. QED
    BY <2>1 DEF FiniteSubsetsOf
<1>3. PICK T \in Suffixes : \A U \in Suffixes : <<U, T>> \notin StrictSubsetOrdering(S)
  <2> HIDE DEF Suffixes
  <2> QED  BY <1>1, <1>2, WFMin
<1>4. PICK e \in S : T = After(e)
  BY <1>3
<1>5. ASSUME NEW f \in S, e.id < f.id
      PROVE  FALSE
  <2>1. After(f) \subseteq After(e) /\ f \in After(e) /\ f \notin After(f)
    BY <1>5
  <2>2. <<After(f), T>> \in StrictSubsetOrdering(S)
    BY <1>4, <2>1 DEF StrictSubsetOrdering
  <2>3. QED
    BY <1>3, <2>2
<1>6. QED
  BY <1>5

\* Rows of which each has fewer than limit before it are limit at most.
LEMMA FewRows ==
    ASSUME NEW S, IsFiniteSet(S), NEW limit \in Nat, \A e \in S : e.id \in Nat,
           \A e, f \in S : e.id = f.id => e = f,
           \A e \in S : Cardinality({f \in S : f.id < e.id}) < limit
    PROVE  Cardinality(S) <= limit
<1>1. CASE S = {}
  BY <1>1, FS_EmptySet
<1>2. CASE S # {}
  <2>1. PICK last \in S : \A f \in S : f.id <= last.id
    BY <1>2, LastEventExists
  <2> DEFINE before == {f \in S : f.id < last.id}
  <2>2. S = before \cup {last} /\ last \notin before
    BY <2>1
  <2>3. IsFiniteSet(before) /\ Cardinality(before) \in Nat /\ Cardinality(before) < limit
    BY FS_Subset, FS_CardinalityType
  <2> HIDE DEF before
  <2>4. Cardinality(S) = Cardinality(before) + 1
    BY <2>2, <2>3, FS_AddElement
  <2>5. QED
    BY <2>3, <2>4
<1>3. QED
  BY <1>1, <1>2

\* The extra row tells whether the log goes on after the page.
LEMMA ExtraRowDecides ==
    ASSUME LogIsSound, \A e \in events : e.id \in Nat, NEW after \in Nat, NEW limit \in Nat
    PROVE  FeedPage(after, limit).has_more <=>
              \E e \in events : /\ after < e.id
                               /\ \A f \in FeedPage(after, limit).events : f.id < e.id
<1> DEFINE rows == Book!ReadEvents(after, limit + 1)
           Before(e) == {f \in rows : f.id < e.id}
           answer == {e \in rows : Cardinality(Before(e)) < limit}
<1>1. FeedPage(after, limit) = [events |-> answer, has_more |-> Cardinality(rows) > limit]
  BY DEF FeedPage
<1>2. /\ rows \subseteq events /\ IsFiniteSet(rows) /\ Cardinality(rows) \in Nat
      /\ \A e \in rows : after < e.id
      /\ \A e \in events : e \in rows <=>
            after < e.id /\ Cardinality(Book!EventsBetween(after, e.id)) < limit + 1
  BY FS_Subset, FS_CardinalityType DEF Book!ReadEvents, LogIsSound, Book!Cardinality, Cardinality
<1>3. \A e \in rows : IsFiniteSet(Before(e)) /\ Cardinality(Before(e)) \in Nat
  BY <1>2, FS_Subset, FS_CardinalityType
<1> HIDE DEF rows
<1>4. ASSUME Cardinality(rows) > limit
      PROVE  \E e \in events : after < e.id /\ \A f \in answer : f.id < e.id
  <2>1. PICK e \in rows : Cardinality(Before(e)) >= limit
    <3>1. CASE \A e \in rows : Cardinality(Before(e)) < limit
      <4>1. Cardinality(rows) <= limit
        BY <3>1, <1>2, FewRows DEF LogIsSound
      <4>2. QED
        BY <4>1, <1>2, <1>4
    <3>2. QED
      <4> HIDE DEF Before
      <4> QED  BY <3>1, <1>3
  <2>2. ASSUME NEW f \in answer, ~(f.id < e.id)
        PROVE  FALSE
    <3>1. f \in rows /\ Cardinality(Before(f)) < limit /\ f.id \in Nat /\ e.id \in Nat
      BY <1>2, <2>2
    <3>2. Before(e) \subseteq Before(f)
      BY <1>2, <2>2, <3>1
    <3>3. Cardinality(Before(e)) <= Cardinality(Before(f))
      <4> HIDE DEF Before
      <4> QED  BY <1>3, <3>1, <3>2, FS_Subset
    <3>4. QED
      <4> HIDE DEF Before
      <4> QED  BY <1>3, <2>1, <3>1, <3>3
  <2>3. QED
    BY <1>2, <2>1, <2>2
<1>5. ASSUME NEW e \in events, after < e.id, \A f \in answer : f.id < e.id,
             ~(Cardinality(rows) > limit)
      PROVE  FALSE
  <2>1. answer = rows
    <3> SUFFICES ASSUME NEW f \in rows
                 PROVE  Cardinality(Before(f)) < limit
      OBVIOUS
    <3>1. Before(f) \subseteq rows /\ f \notin Before(f)
      BY <1>2
    <3>2. Cardinality(Before(f)) <= Cardinality(rows) /\ Cardinality(Before(f)) # Cardinality(rows)
      <4> HIDE DEF Before
      <4> QED  BY <1>2, <3>1, FS_Subset
    <3>3. QED
      <4> HIDE DEF Before
      <4> QED  BY <1>2, <1>3, <1>5, <3>2
  <2>2. e \notin rows
    <3> HIDE DEF answer
    <3>1. ~(e.id < e.id)
      OBVIOUS
    <3>2. QED
      BY <2>1, <1>5, <3>1
  <2> DEFINE missing == {f \in events : after < f.id /\ f \notin rows}
  <2>3. PICK first \in missing : \A f \in missing : first.id <= f.id
    <3>1. IsFiniteSet(missing) /\ missing # {} /\ \A f \in missing : f.id \in Nat
      BY <1>5, <2>2, FS_Subset DEF LogIsSound
    <3> HIDE DEF missing
    <3>2. QED
      BY <3>1, FirstEventExists
  <2>4. Book!EventsBetween(after, first.id) \subseteq rows
    BY <2>3 DEF Book!EventsBetween
  <2>5. Cardinality(Book!EventsBetween(after, first.id)) <= Cardinality(rows)
        /\ Cardinality(Book!EventsBetween(after, first.id)) \in Nat
    BY <1>2, <2>4, FS_Subset, FS_CardinalityType
  <2>6. Cardinality(Book!EventsBetween(after, first.id)) < limit + 1
    BY <1>2, <1>5, <2>5
  <2>7. QED
    BY <1>2, <2>3, <2>6
<1> HIDE DEF answer
<1>6. /\ FeedPage(after, limit).events = answer
      /\ FeedPage(after, limit).has_more = (Cardinality(rows) > limit)
  BY <1>1
<1>7. Cardinality(rows) > limit <=>
         \E e \in events : after < e.id /\ \A f \in answer : f.id < e.id
  BY <1>4, <1>5
<1>8. QED
  BY <1>6, <1>7

-----------------------------------------------------------------------------
(* What follows from it.                                                   *)

\* Variables stay in their ranges, and what is left of a page stays in the log.
THEOREM FeedTypeCorrect == Spec => []FeedTypeOK
<1>1. IndInv => FeedTypeOK
  BY DEF IndInv
<1>2. QED
  BY <1>1, FeedInvariant, PTL

\* The cursor file never passes an event whose line is not in the output, nor
\* one of a version the consumer does not know (demo/feed_consumer.py prints
\* and flushes before it replaces the file, and stops before it replaces it).
THEOREM NoEventIsSkipped == Spec => []NothingSkipped
<1>1. IndInv => NothingSkipped
  BY DEF IndInv, CursorsAreSafe, SafeBelow, NothingSkipped
<1>2. QED
  BY <1>1, FeedInvariant, PTL

\* A restart repeats at most one line unless it was told to ignore the file:
\* the cursor is replaced after every event and not once a page.
THEOREM RestartRepeatsOneLine == Spec => []OneLineAhead
<1>1. ASSUME IndInv, ~fromStart
      PROVE  Cardinality({id \in output : id > cursorFile}) <= 1
  <2> DEFINE ahead == {id \in output : id > cursorFile}
  <2>1. \A a \in ahead : a \in Nat /\ cursorFile < a
    BY <1>1, FeedConsumerAssumption DEF IndInv, FeedTypeOK, Book!EventIds
  <2>2. ASSUME NEW a \in ahead, NEW b \in ahead
        PROVE  a <= b
    BY <1>1, <2>1 DEF IndInv, AheadIsNext, LinesHaveEvents
  <2>3. CASE ahead = {}
    BY <2>3, FS_EmptySet
  <2>4. CASE ahead # {}
    <3>1. PICK a \in ahead : TRUE
      BY <2>4
    <3>2. ahead = {a}
      BY <2>1, <2>2, <3>1
    <3>3. QED
      BY <3>2, FS_Singleton
  <2>5. QED
    BY <2>3, <2>4
<1>2. IndInv => OneLineAhead
  BY <1>1 DEF OneLineAhead
<1>3. QED
  BY <1>2, FeedInvariant, PTL

\* A run prints its lines in event_id order, each event once, however its
\* pages fell and whatever was appended between them.
THEOREM LinesComeInOrder == Spec => LinesAscend
<1>1. ASSUME IndInv, pc = "process"
      PROVE  lastLine < NextEvent.id
  <2>1. NextEvent \in page /\ cursor < NextEvent.id
    BY <1>1, NextEventIsFirst DEF IndInv, PageIsNext
  <2>2. lastLine <= cursor /\ lastLine \in Nat /\ cursor \in Nat /\ NextEvent.id \in Nat
    BY <1>1, <2>1, FeedConsumerAssumption DEF IndInv, LastLineIsBehind, FeedTypeOK,
       Book!EventIds
  <2>3. QED
    BY <2>1, <2>2
<1>2. IndInv /\ [Next]_vars =>
         [pc = "process" /\ pc' = "save" /\ NextEvent.data = "accepted"
            => lastLine < NextEvent.id]_vars
  BY <1>1
<1>3. QED
  BY <1>2, FeedInvariant, PTL DEF Spec, LinesAscend

\* has_more is TRUE exactly when the log goes on after the page, for every page
\* size, also when the page is full to its limit (list_order_events).
THEOREM HasMoreIsAlwaysExact == Spec => HasMoreIsExact
<1>1. ASSUME IndInv, FetchPage
      PROVE  hasMore' <=> \E e \in events : cursor < e.id /\ \A f \in page' : f.id < e.id
  <2>1. /\ LogIsSound /\ cursor \in Nat /\ PageLimit \in Nat
        /\ \A e \in events : e.id \in Nat
    BY <1>1, FeedConsumerAssumption DEF IndInv, FeedTypeOK, Book!EventIds
  <2>2. /\ page' = FeedPage(cursor, PageLimit).events
        /\ hasMore' = FeedPage(cursor, PageLimit).has_more
    BY <1>1 DEF FetchPage
  <2>3. QED
    BY <2>1, <2>2, ExtraRowDecides
<1>2. IndInv /\ [Next]_vars =>
         [FetchPage => (hasMore' <=> \E e \in events : /\ cursor < e.id
                                                      /\ \A f \in page' : f.id < e.id)]_vars
  BY <1>1
<1>3. QED
  BY <1>2, FeedInvariant, PTL DEF Spec, HasMoreIsExact
=============================================================================
