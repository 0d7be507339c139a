---------------------------- MODULE SessionProofs ----------------------------
(***************************************************************************)
(* Proofs about the parts of the services that live with a session of the  *)
(* gateway: of each, that its invariant holds at its start and that every  *)
(* step keeps it; and of a behaviour of whichever part, SessionsAreApart,  *)
(* OrdersAreFound and BracketsAreWhole.                                    *)
(***************************************************************************)
EXTENDS SessionParts, SequenceTheorems, FiniteSetTheorems, TLAPS

-----------------------------------------------------------------------------
(* Streams of headlines (NewsStreams) *)

\* What the assumption says of numbers and names.
LEMMA NewsConstants == MaxIds \in Nat \ {0} /\ MaxSessions \in Nat /\ None \notin Feed
  BY SessionPartsAssumption DEF News!NewsAssumption

\* The numbers of a stream are numbers, and of its session or one before.
LEMMA NewsNumbers ==
    ASSUME News!IInv, NEW s \in Feed
    PROVE  /\ session \in Nat /\ nextId \in Nat
           /\ stream[s].id \in Nat /\ stream[s].sentIn \in Nat
           /\ stream[s].sentIn <= session
           /\ stream[s].sentIn = session => stream[s].id < nextId
  <1>1. /\ session \in 0..MaxSessions /\ nextId \in 1..(MaxIds + 1)
        /\ stream[s].id \in 0..MaxIds /\ stream[s].sentIn \in 0..MaxSessions
    BY NewsConstants DEF News!IInv, News!TypeOK
  <1>2. stream[s].sentIn <= session /\ (stream[s].sentIn = session => stream[s].id < nextId)
    <2>1. News!IdsAreApart
      BY Zenon DEF News!IInv
    <2> QED BY <2>1 DEF News!IdsAreApart
  <1> QED BY ONLY <1>1, <1>2, NewsConstants

\* No stream's cancel stops another's request: the ids of a session are apart.
LEMMA NewsHits ==
    ASSUME News!IInv, NEW s \in Feed
    PROVE  News!Hits(s) = {}
  <1> USE NewsConstants
  <1> SUFFICES ASSUME News!Cancels(s), live[stream[s].id] \notin {None, s} PROVE FALSE
    BY DEF News!Hits
  <1> DEFINE id == stream[s].id
             t == live[id]
  <1>1. id \in News!Id /\ stream[s].sentIn = session
    BY DEF News!IInv, News!TypeOK, News!Cancels, News!Id
  <1>2. t \in Feed /\ t # s /\ stream[t].id = id /\ stream[t].sentIn = session
    BY <1>1 DEF News!IInv, News!TypeOK, News!LiveIsHeld
  <1> QED BY <1>1, <1>2 DEF News!IInv, News!IdsAreApart, News!Id

\* What is live once a stream gave up its request is another's, and still routed to it.
LEMMA NewsWithout ==
    ASSUME News!IInv, NEW s \in Feed
    PROVE  /\ News!LiveWithout(s) \in [News!Id -> Feed \cup {None}]
           /\ News!WithoutId(s) \in [News!Id -> Feed \cup {None}]
           /\ \A id \in News!Id : News!LiveWithout(s)[id] # None =>
                 /\ News!LiveWithout(s)[id] = live[id] /\ live[id] # s
                 /\ up /\ News!WithoutId(s)[id] = live[id]
  <1> USE NewsConstants
  <1>1. /\ News!LiveWithout(s) \in [News!Id -> Feed \cup {None}]
        /\ News!WithoutId(s) \in [News!Id -> Feed \cup {None}]
    BY DEF News!LiveWithout, News!WithoutId, News!IInv, News!TypeOK
  <1>2. ASSUME NEW id \in News!Id, News!LiveWithout(s)[id] # None
        PROVE  /\ News!LiveWithout(s)[id] = live[id] /\ live[id] # s
               /\ up /\ News!WithoutId(s)[id] = live[id]
    <2>1. /\ News!LiveWithout(s)[id] = live[id] /\ live[id] # None
          /\ ~(News!Cancels(s) /\ id = stream[s].id)
      BY <1>2 DEF News!LiveWithout
    <2>2. up /\ routes[id] = live[id]
      BY <2>1 DEF News!IInv, News!Routed
    <2>3. live[id] # s
      BY <2>1, <2>2 DEF News!IInv, News!LiveIsHeld, News!Cancels, News!Id
    <2> QED BY <2>1, <2>2, <2>3 DEF News!WithoutId
  <1> QED BY <1>1, <1>2

\* A stream's new request has an id nobody has in this session.
LEMMA NewsSendKeeps ==
    ASSUME News!IInv, NEW s \in Feed, NEW at \in {"opening", "open"}, News!Send(s, at)
    PROVE  News!IInv'
  <1> USE NewsConstants
  <1> DEFINE new == [at |-> at, id |-> nextId, sentIn |-> session, error |-> FALSE]
  <1>1. /\ up /\ nextId \in News!Id /\ nextId' = nextId + 1
        /\ stream' = [stream EXCEPT ![s] = new]
        /\ routes' = [News!WithoutId(s) EXCEPT ![nextId] = s]
        /\ live' = [News!LiveWithout(s) EXCEPT ![nextId] = s]
        /\ hit' = hit \cup News!Hits(s)
        /\ UNCHANGED <<session, up, astray>>
    BY DEF News!Send, News!Id, News!IInv, News!TypeOK
  <1>2. /\ new \in [at : {"closed", "opening", "open"}, id : 0..MaxIds,
                    sentIn : 0..MaxSessions, error : BOOLEAN]
        /\ new.id = nextId /\ new.sentIn = session
    BY <1>1 DEF News!IInv, News!TypeOK, News!Id
  <1> HIDE DEF new
  <1>3. stream'[s] = new /\ \A t \in Feed \ {s} : stream'[t] = stream[t]
    BY <1>1 DEF News!IInv, News!TypeOK
  <1>4. /\ live' \in [News!Id -> Feed \cup {None}] /\ routes' \in [News!Id -> Feed \cup {None}]
        /\ live'[nextId] = s /\ routes'[nextId] = s
        /\ \A id \in News!Id \ {nextId} : live'[id] # None =>
              live'[id] = live[id] /\ live[id] # s /\ routes'[id] = live[id]
    BY <1>1, NewsWithout
  <1>5. News!TypeOK'
    BY <1>1, <1>2, <1>4 DEF News!IInv, News!TypeOK, News!Id
  <1>6. News!HeadlinesFindTheirStream' /\ News!CancelsOnlyOwn'
    BY <1>1, NewsHits DEF News!IInv, News!HeadlinesFindTheirStream, News!CancelsOnlyOwn
  <1>7. News!LiveIsHeld'
    <2> SUFFICES ASSUME NEW id \in News!Id, live'[id] # None
                 PROVE  stream'[live'[id]].id = id /\ stream'[live'[id]].sentIn = session'
      BY DEF News!LiveIsHeld, News!Id
    <2>1. CASE id = nextId
      BY <2>1, <1>1, <1>2, <1>3, <1>4
    <2>2. CASE id # nextId
      <3>1. live'[id] = live[id] /\ live[id] \in Feed \ {s}
        BY <2>2, <1>4 DEF News!IInv, News!TypeOK
      <3> QED BY <3>1, <1>1, <1>3 DEF News!IInv, News!LiveIsHeld
    <2> QED BY <2>1, <2>2
  <1>8. News!Routed'
    BY <1>1, <1>4 DEF News!Routed, News!Id
  <1>9. News!IdsAreApart'
    <2>1. \A t \in Feed \ {s} : stream[t].id # nextId \/ stream[t].sentIn # session
      BY NewsNumbers
    <2>2. \A t \in Feed : /\ stream'[t].sentIn <= session
                          /\ stream'[t].sentIn = session => stream'[t].id < nextId + 1
      <3> SUFFICES ASSUME NEW t \in Feed
                   PROVE  /\ stream'[t].sentIn <= session
                          /\ stream'[t].sentIn = session => stream'[t].id < nextId + 1
        OBVIOUS
      <3>1. /\ session \in Nat /\ nextId \in Nat /\ stream[t].id \in Nat
            /\ stream[t].sentIn <= session
            /\ stream[t].sentIn = session => stream[t].id < nextId
        BY NewsNumbers
      <3>2. CASE t = s
        BY ONLY <3>1, <3>2, <1>2, <1>3
      <3>3. CASE t # s
        <4>1. stream'[t] = stream[t]
          BY <3>3, <1>3
        <4> QED BY ONLY <3>1, <4>1
      <3> QED BY <3>2, <3>3
    <2>3. \A t, u \in Feed :
             stream'[t].id # 0 /\ stream'[t].id = stream'[u].id
             /\ stream'[t].sentIn = session /\ stream'[u].sentIn = session => t = u
      BY <1>2, <1>3, <2>1 DEF News!IInv, News!IdsAreApart
    <2> QED BY <1>1, <2>2, <2>3 DEF News!IdsAreApart
  <1> QED BY <1>5, <1>6, <1>7, <1>8, <1>9 DEF News!IInv

\* A closed stream has no request any more.
LEMMA NewsCloseKeeps ==
    ASSUME News!IInv, NEW s \in Feed, News!Close(s)
    PROVE  News!IInv'
  <1> USE NewsConstants
  <1>1. /\ stream' = [stream EXCEPT ![s] = News!Closed]
        /\ routes' = News!WithoutId(s) /\ live' = News!LiveWithout(s)
        /\ hit' = hit \cup News!Hits(s)
        /\ UNCHANGED <<session, up, nextId, astray>>
    BY DEF News!Close
  <1>2. /\ News!Closed \in [at : {"closed", "opening", "open"}, id : 0..MaxIds,
                            sentIn : 0..MaxSessions, error : BOOLEAN]
        /\ News!Closed.id = 0 /\ News!Closed.sentIn = 0
    BY DEF News!Closed
  <1>3. stream'[s] = News!Closed /\ \A t \in Feed \ {s} : stream'[t] = stream[t]
    BY <1>1 DEF News!IInv, News!TypeOK
  <1>4. /\ live' \in [News!Id -> Feed \cup {None}] /\ routes' \in [News!Id -> Feed \cup {None}]
        /\ \A id \in News!Id : live'[id] # None =>
              live'[id] = live[id] /\ live[id] # s /\ up /\ routes'[id] = live[id]
    BY <1>1, NewsWithout
  <1>5. News!TypeOK'
    BY <1>1, <1>2, <1>4 DEF News!IInv, News!TypeOK, News!Id
  <1>6. News!HeadlinesFindTheirStream' /\ News!CancelsOnlyOwn'
    BY <1>1, NewsHits DEF News!IInv, News!HeadlinesFindTheirStream, News!CancelsOnlyOwn
  <1>7. News!LiveIsHeld'
    <2>1. \A id \in News!Id : live'[id] # None => live'[id] = live[id] /\ live[id] \in Feed \ {s}
      BY <1>4 DEF News!IInv, News!TypeOK
    <2> QED BY <2>1, <1>1, <1>3 DEF News!IInv, News!LiveIsHeld, News!Id
  <1>8. News!Routed'
    BY <1>1, <1>4 DEF News!Routed, News!Id
  <1>9. News!IdsAreApart'
    BY <1>1, <1>2, <1>3 DEF News!IInv, News!TypeOK, News!IdsAreApart
  <1> QED BY <1>5, <1>6, <1>7, <1>8, <1>9 DEF News!IInv

\* Streams keep their requests, and what IBKR sends only becomes less.
LEMMA NewsHeldKeeps ==
    ASSUME News!IInv,
           stream' \in [Feed -> [at : {"closed", "opening", "open"}, id : 0..MaxIds,
                                 sentIn : 0..MaxSessions, error : BOOLEAN]],
           \A s \in Feed : stream'[s].id = stream[s].id /\ stream'[s].sentIn = stream[s].sentIn,
           live' \in [News!Id -> Feed \cup {None}],
           \A id \in News!Id : live'[id] # None => live'[id] = live[id] /\ up',
           nextId' \in nextId..(MaxIds + 1), up' \in BOOLEAN,
           astray' = astray, hit' = hit, routes' = routes, session' = session
    PROVE  News!IInv'
  <1> USE NewsConstants
  <1>1. News!TypeOK'
    BY DEF News!IInv, News!TypeOK, News!Id
  <1>2. News!HeadlinesFindTheirStream' /\ News!CancelsOnlyOwn'
    BY DEF News!IInv, News!HeadlinesFindTheirStream, News!CancelsOnlyOwn
  <1>3. News!LiveIsHeld' /\ News!Routed'
    BY DEF News!IInv, News!TypeOK, News!LiveIsHeld, News!Routed, News!Id
  <1>4. News!IdsAreApart'
    BY DEF News!IInv, News!TypeOK, News!IdsAreApart
  <1> QED BY <1>1, <1>2, <1>3, <1>4 DEF News!IInv

\* Nothing is open yet.
LEMMA NewsStarts == ASSUME News!Init PROVE News!IInv
  <1> USE NewsConstants
  <1>1. up \in BOOLEAN
    BY Zenon DEF News!Init
  <1>2. News!TypeOK
    BY <1>1 DEF News!Init, News!TypeOK, News!Id, News!Closed
  <1>3. /\ News!HeadlinesFindTheirStream /\ News!CancelsOnlyOwn /\ News!LiveIsHeld
        /\ News!Routed /\ News!IdsAreApart
    BY DEF News!Init, News!HeadlinesFindTheirStream, News!CancelsOnlyOwn, News!LiveIsHeld,
       News!Routed, News!IdsAreApart, News!Closed, News!Id
  <1> QED BY <1>2, <1>3 DEF News!IInv

\* Every step keeps what the argument needs.
LEMMA NewsKeeps == ASSUME News!IInv, [News!Next]_(News!vars) PROVE News!IInv'
  <1> USE NewsConstants
  <1> DEFINE Streams == [at : {"closed", "opening", "open"}, id : 0..MaxIds,
                         sentIn : 0..MaxSessions, error : BOOLEAN]
  <1>1. ASSUME NEW s \in Feed, News!Open(s) \/ News!Reopen(s)
        PROVE  News!IInv'
    BY <1>1, NewsSendKeeps DEF News!Open, News!Reopen
  <1>2. ASSUME NEW s \in Feed, News!GraceEnds(s)
        PROVE  News!IInv'
    <2>1. /\ stream' = [stream EXCEPT ![s].at = "open"]
          /\ UNCHANGED <<routes, live, session, up, nextId, astray, hit>>
      BY <1>2 DEF News!GraceEnds
    <2>2. stream' \in [Feed -> Streams]
          /\ \A t \in Feed : stream'[t].id = stream[t].id /\ stream'[t].sentIn = stream[t].sentIn
      BY <2>1 DEF News!IInv, News!TypeOK
    <2>3. nextId' \in nextId..(MaxIds + 1) /\ live' \in [News!Id -> Feed \cup {None}]
          /\ \A id \in News!Id : live'[id] # None => live'[id] = live[id] /\ up'
      BY <2>1 DEF News!IInv, News!TypeOK, News!Routed
    <2>4. up' \in BOOLEAN
      BY <2>1, Zenon DEF News!IInv, News!TypeOK
    <2> QED BY <2>1, <2>2, <2>3, <2>4, NewsHeldKeeps
  <1>3. ASSUME NEW id \in News!Id, News!Headline(id)
        PROVE  News!IInv'
    <2>1. astray' = astray
      BY <1>3 DEF News!Headline, News!IInv, News!Routed
    <2>2. UNCHANGED <<stream, routes, live, session, up, nextId, hit>>
      BY <1>3 DEF News!Headline
    <2> QED BY <2>1, <2>2 DEF News!IInv, News!TypeOK, News!HeadlinesFindTheirStream,
           News!CancelsOnlyOwn, News!LiveIsHeld, News!Routed, News!IdsAreApart
  <1>4. ASSUME News!OtherRequest \/ \E id \in News!Id : News!Refuse(id)
        PROVE  News!IInv'
    <2>0. News!OtherRequest => nextId \in News!Id
      BY NewsNumbers DEF News!OtherRequest, News!IInv, News!TypeOK, News!Id
    <2>1. \E id \in News!Id :
             stream' = [s \in Feed |-> IF stream[s].id = id THEN [stream[s] EXCEPT !.error = TRUE]
                                         ELSE stream[s]]
      BY <1>4, <2>0, Zenon DEF News!OtherRequest, News!Refuse
    <2> PICK id \in News!Id :
             stream' = [s \in Feed |-> IF stream[s].id = id THEN [stream[s] EXCEPT !.error = TRUE]
                                         ELSE stream[s]]
      BY <2>1
    <2>2. \A s \in Feed : /\ stream[s] \in Streams
                          /\ stream'[s] = IF stream[s].id = id
                                          THEN [stream[s] EXCEPT !.error = TRUE] ELSE stream[s]
      BY <2>1 DEF News!IInv, News!TypeOK
    <2>3. \A s \in Feed : /\ stream'[s] \in Streams /\ stream'[s].id = stream[s].id
                          /\ stream'[s].sentIn = stream[s].sentIn
      BY <2>2
    <2>4. stream' \in [Feed -> Streams]
      BY <2>1, <2>3
    <2>5. /\ nextId' \in nextId..(MaxIds + 1) /\ live' \in [News!Id -> Feed \cup {None}]
          /\ \A i \in News!Id : live'[i] # None => live'[i] = live[i] /\ up'
          /\ UNCHANGED <<routes, session, astray, hit>>
      <3>1. CASE News!OtherRequest
        BY <3>1, <2>0, NewsNumbers DEF News!OtherRequest, News!IInv, News!TypeOK, News!Routed, News!Id
      <3>2. CASE \E i \in News!Id : News!Refuse(i)
        <4>1. PICK i \in News!Id : live' = [live EXCEPT ![i] = None]
          BY <3>2, Zenon DEF News!Refuse
        <4>2. UNCHANGED <<routes, session, up, nextId, astray, hit>>
          BY <3>2 DEF News!Refuse
        <4> QED BY <4>1, <4>2, NewsNumbers DEF News!IInv, News!TypeOK, News!Routed
      <3> QED BY <1>4, <3>1, <3>2
    <2>6. up' \in BOOLEAN
      BY <1>4, Zenon DEF News!OtherRequest, News!Refuse, News!IInv, News!TypeOK
    <2> HIDE DEF Streams
    <2> QED BY <2>3, <2>4, <2>5, <2>6, NewsHeldKeeps DEF Streams
  <1>5. ASSUME News!DataLost \/ News!Drop
        PROVE  News!IInv'
    <2>1. /\ UNCHANGED <<stream, routes, session, nextId, astray, hit>>
          /\ live' = [id \in News!Id |-> None]
      BY <1>5 DEF News!DataLost, News!Drop
    <2>2. up' \in BOOLEAN
      BY <1>5, Zenon DEF News!DataLost, News!Drop, News!IInv, News!TypeOK
    <2>3. nextId' \in nextId..(MaxIds + 1) /\ stream' \in [Feed -> Streams]
      BY <2>1 DEF News!IInv, News!TypeOK
    <2> QED BY <2>1, <2>2, <2>3, NewsHeldKeeps
  <1>6. CASE News!Connect
    <2>1. /\ ~up /\ session < MaxSessions /\ session' = session + 1 /\ nextId' = 1
          /\ UNCHANGED <<stream, routes, live, astray, hit>>
      BY <1>6 DEF News!Connect
    <2>2. up' \in BOOLEAN
      BY <1>6, Zenon DEF News!Connect
    <2>3. \A id \in News!Id : live[id] = None
      BY <2>1 DEF News!IInv, News!Routed
    <2>4. News!TypeOK'
      BY <2>1, <2>2 DEF News!IInv, News!TypeOK
    <2>5. News!LiveIsHeld' /\ News!Routed'
      BY <2>1, <2>3 DEF News!LiveIsHeld, News!Routed, News!Id
    <2>6. News!IdsAreApart'
      <3>1. \A s \in Feed : stream'[s].sentIn <= session' /\ stream'[s].sentIn # session'
        <4> SUFFICES ASSUME NEW s \in Feed
                     PROVE  stream'[s].sentIn <= session' /\ stream'[s].sentIn # session'
          OBVIOUS
        <4>1. session \in Nat /\ stream[s].sentIn \in Nat /\ stream[s].sentIn <= session
          BY NewsNumbers
        <4>2. stream'[s] = stream[s]
          BY <2>1
        <4> QED BY ONLY <2>1, <4>1, <4>2
      <3> QED BY <3>1 DEF News!IdsAreApart
    <2>7. News!HeadlinesFindTheirStream' /\ News!CancelsOnlyOwn'
      BY <2>1 DEF News!IInv, News!HeadlinesFindTheirStream, News!CancelsOnlyOwn
    <2> QED BY <2>4, <2>5, <2>6, <2>7 DEF News!IInv
  <1>7. CASE UNCHANGED News!vars
    BY <1>7 DEF News!vars, News!IInv, News!TypeOK, News!HeadlinesFindTheirStream,
       News!CancelsOnlyOwn, News!LiveIsHeld, News!Routed, News!IdsAreApart
  <1>8. CASE News!Next
    BY <1>8, <1>1, <1>2, <1>3, <1>4, <1>5, <1>6, NewsCloseKeeps DEF News!Next
  <1> QED BY <1>7, <1>8

\* Every headline reaches the stream whose request it is of, and no stream's cancel stops
\* another's request, although the ids of one session are those of the next
\* (TickNewsRouter, _HeadlineStream); what IBKR goes on sending is held by the stream it
\* is for.
THEOREM HeadlinesAreOwn == News!Spec => []News!IInv
  <1>1. News!Init => News!IInv
    BY NewsStarts
  <1>2. News!IInv /\ [News!Next]_(News!vars) => News!IInv'
    BY NewsKeeps
  <1> QED BY <1>1, <1>2, PTL DEF News!Spec

-----------------------------------------------------------------------------
(* Scanner slots (ScannerStreams) *)

\* The instance's sizes of sets are the usual ones.
LEMMA ScannersSizes ==
    \A S : /\ Scanners!IsFiniteSet(S) = IsFiniteSet(S)
          /\ Scanners!Cardinality(S) = Cardinality(S)
  <1>1. \A S : Scanners!IsFiniteSet(S) = IsFiniteSet(S)
    BY DEF Scanners!IsFiniteSet, IsFiniteSet
  <1>2. \A S : Scanners!Cardinality(S) = Cardinality(S)
    BY DEF Scanners!Cardinality, Cardinality
  <1> QED BY <1>1, <1>2

\* What the assumption says of numbers, names and the callers.
LEMMA ScannersConstants ==
    /\ MaxScans \in Nat /\ MaxScanIds \in Nat \ {0} /\ MaxSessions \in Nat
    /\ None \notin Scanner
    /\ \A S \in SUBSET Scanner : IsFiniteSet(S) /\ Cardinality(S) \in Nat
  <1>1. IsFiniteSet(Scanner) /\ MaxScans \in Nat /\ MaxScanIds \in Nat \ {0}
        /\ MaxSessions \in Nat /\ None \notin Scanner
    BY SessionPartsAssumption, ScannersSizes DEF Scanners!ScannerAssumption
  <1> QED BY <1>1, FS_Subset, FS_CardinalityType

\* The numbers of a scan are numbers, and of its session or one before.
LEMMA ScannersNumbers ==
    ASSUME Scanners!IInv, NEW c \in Scanner
    PROVE  /\ session \in Nat /\ nextId \in Nat /\ scan[c].id \in Nat
           /\ scan[c].sentIn \in Nat /\ scan[c].sentIn <= session
           /\ scan[c].sentIn = session => scan[c].id < nextId
  <1>1. /\ session \in 0..MaxSessions /\ nextId \in 1..(MaxScanIds + 1)
        /\ scan[c].id \in 0..MaxScanIds /\ scan[c].sentIn \in 0..MaxSessions
    BY ScannersConstants DEF Scanners!IInv, Scanners!TypeOK
  <1>2. scan[c].sentIn <= session /\ (scan[c].sentIn = session => scan[c].id < nextId)
    BY Zenon DEF Scanners!IInv, Scanners!IdsAreApart
  <1> QED BY ONLY <1>1, <1>2, ScannersConstants

\* No scan's cancel stops another's request: the ids of a session are apart.
LEMMA ScannersHits ==
    ASSUME Scanners!IInv, NEW c \in Scanner
    PROVE  Scanners!Hits(c) = {}
  <1> USE ScannersConstants
  <1> SUFFICES ASSUME Scanners!Cancels(c), live[scan[c].id] \notin {None, c} PROVE FALSE
    BY DEF Scanners!Hits
  <1> DEFINE id == scan[c].id
             d == live[id]
  <1>1. id \in Scanners!Id /\ scan[c].sentIn = session
    BY DEF Scanners!IInv, Scanners!TypeOK, Scanners!Cancels, Scanners!Id
  <1>2. d \in Scanner /\ d # c /\ scan[d].id = id /\ scan[d].sentIn = session
    BY <1>1 DEF Scanners!IInv, Scanners!TypeOK, Scanners!NothingLeftRunning
  <1> QED BY <1>1, <1>2 DEF Scanners!IInv, Scanners!IdsAreApart, Scanners!Id

\* What is live once a scan gave up its request is another's.
LEMMA ScannersWithout ==
    ASSUME Scanners!IInv, NEW c \in Scanner
    PROVE  /\ Scanners!LiveWithout(c) \in [Scanners!Id -> Scanner \cup {None}]
           /\ \A id \in Scanners!Id : Scanners!LiveWithout(c)[id] # None =>
                 Scanners!LiveWithout(c)[id] = live[id] /\ live[id] \in Scanner \ {c}
  <1> USE ScannersConstants
  <1>1. Scanners!LiveWithout(c) \in [Scanners!Id -> Scanner \cup {None}]
    BY DEF Scanners!LiveWithout, Scanners!IInv, Scanners!TypeOK
  <1>2. ASSUME NEW id \in Scanners!Id, Scanners!LiveWithout(c)[id] # None
        PROVE  Scanners!LiveWithout(c)[id] = live[id] /\ live[id] \in Scanner \ {c}
    <2>1. /\ Scanners!LiveWithout(c)[id] = live[id] /\ live[id] # None
          /\ ~(Scanners!Cancels(c) /\ id = scan[c].id)
      BY <1>2 DEF Scanners!LiveWithout
    <2>2. live[id] # c
      BY <2>1 DEF Scanners!IInv, Scanners!NothingLeftRunning, Scanners!IdsAreApart,
         Scanners!Cancels, Scanners!Id
    <2>3. live[id] \in Scanner
      BY <2>1 DEF Scanners!IInv, Scanners!TypeOK
    <2> QED BY <2>1, <2>2, <2>3
  <1> QED BY <1>1, <1>2

\* Scans that wait, or are kept; those run once that wait.
BusyScans == {c \in Scanner : scan[c].at # "idle"}

OnceScans == {c \in Scanner : scan[c].once /\ scan[c].at = "waiting"}

\* IBKR runs no more scans than are waiting or kept: each of its requests is the one its
\* scan holds.
LEMMA ScannersSlots ==
    ASSUME Scanners!TypeOK, Scanners!NothingLeftRunning, Scanners!SlotsCounted
    PROVE  Scanners!SlotsKept
  <1> USE ScannersConstants
  <1> DEFINE Run == {id \in Scanners!Id : live[id] # None}
             of == [id \in Run |-> live[id]]
  <1>1. /\ \A id \in Run : live[id] \in BusyScans /\ scan[live[id]].id = id
    BY DEF Scanners!TypeOK, Scanners!NothingLeftRunning, BusyScans
  <1>2. of \in Injection(Run, BusyScans)
    BY <1>1 DEF Injection, IsInjective
  <1>3. IsFiniteSet(BusyScans) /\ Cardinality(BusyScans) \in Nat
    BY DEF BusyScans
  <1>4. /\ IsFiniteSet(Run) /\ Cardinality(Run) <= Cardinality(BusyScans)
    <2> HIDE DEF Run, of
    <2> QED BY <1>2, <1>3, FS_Injection
  <1>5. Cardinality(Run) \in Nat
    BY <1>4, FS_CardinalityType
  <1>6. raced \/ Cardinality(BusyScans) <= MaxScans
    BY ScannersSizes DEF Scanners!SlotsCounted, BusyScans
  <1>7. raced \/ Cardinality(Run) <= MaxScans
    <2> HIDE DEF Run
    <2> QED BY <1>3, <1>4, <1>5, <1>6
  <1> QED BY <1>7, ScannersSizes DEF Scanners!SlotsKept

\* A slot is free, and nobody is between asking and being kept: what is busy is kept or
\* run once, and both are counted.
LEMMA ScannersAdmit ==
    ASSUME Scanners!IInv, Scanners!SlotFree, Scanners!Subscribing = {}
    PROVE  Cardinality(BusyScans) < MaxScans
  <1> USE ScannersConstants
  <1> DEFINE Kept == {c \in Scanner : scan[c].at = "open"}
  <1>1. BusyScans = Kept \cup OnceScans
    BY DEF BusyScans, OnceScans, Scanners!Subscribing, Scanners!IInv, Scanners!TypeOK
  <1>2. Kept \cap OnceScans = {}
    BY DEF OnceScans
  <1>3. Kept \in SUBSET Scanner /\ OnceScans \in SUBSET Scanner /\ BusyScans \in SUBSET Scanner
    BY DEF OnceScans, BusyScans
  <1>4. Cardinality(Kept) + running < MaxScans /\ running = Cardinality(OnceScans)
    BY ScannersSizes DEF Scanners!SlotFree, Scanners!Subscribed, Scanners!IInv, Scanners!SlotsGivenBack, OnceScans
  <1> HIDE DEF Kept
  <1>5. Cardinality(BusyScans) = Cardinality(Kept) + Cardinality(OnceScans) - Cardinality({})
    BY <1>1, <1>2, <1>3, FS_Union
  <1>6. Cardinality(Kept) \in Nat /\ Cardinality(OnceScans) \in Nat
    BY <1>3
  <1> QED BY <1>4, <1>5, <1>6, FS_EmptySet

\* A scan that is let in takes one slot.
LEMMA ScannersLetIn ==
    ASSUME Scanners!IInv, NEW c \in Scanner, scan[c].at = "idle", Scanners!SlotFree,
           raced' = (raced \/ Scanners!Subscribing # {}),
           BusyScans' = BusyScans \cup {c}
    PROVE  raced' \/ Cardinality(BusyScans') <= MaxScans
  <1> SUFFICES ASSUME ~raced' PROVE Cardinality(BusyScans') <= MaxScans
    BY Zenon
  <1>1. Scanners!Subscribing = {}
    BY Zenon
  <1>2. Cardinality(BusyScans) < MaxScans
    BY <1>1, ScannersAdmit
  <1>3. c \notin BusyScans /\ BusyScans \in SUBSET Scanner
    BY DEF BusyScans
  <1>4. Cardinality(BusyScans') = Cardinality(BusyScans) + 1 /\ Cardinality(BusyScans) \in Nat
    BY <1>3, ScannersConstants, FS_AddElement
  <1> QED BY <1>2, <1>4, ScannersConstants

\* The scans, their requests and the session, without the counts.
ScannersHeld ==
    /\ Scanners!TypeOK /\ Scanners!NothingLeftRunning /\ Scanners!CancelsOnlyOwn
    /\ Scanners!IdsAreApart

\* A scan's new request has an id nobody has in this session.
LEMMA ScannersSendKeeps ==
    ASSUME Scanners!IInv, NEW c \in Scanner, NEW at \in {"waiting", "open"},
           NEW once \in BOOLEAN, Scanners!Send(c, at, once), raced' \in BOOLEAN
    PROVE  /\ ScannersHeld'
           /\ \A d \in Scanner : IF d = c THEN scan'[d].at = at /\ scan'[d].once = once
                                 ELSE scan'[d] = scan[d]
  <1> USE ScannersConstants
  <1> DEFINE new == [at |-> at, once |-> once, id |-> nextId, sentIn |-> session]
             Scans == [at : {"idle", "waiting", "open"}, once : BOOLEAN, id : 0..MaxScanIds,
                       sentIn : 0..MaxSessions]
  <1>1. /\ up /\ nextId \in Scanners!Id /\ nextId' = nextId + 1
        /\ scan' = [scan EXCEPT ![c] = new]
        /\ live' = [Scanners!LiveWithout(c) EXCEPT ![nextId] = c]
        /\ hit' = hit \cup Scanners!Hits(c)
        /\ UNCHANGED <<session, up>>
    BY DEF Scanners!Send, Scanners!Id, Scanners!IInv, Scanners!TypeOK
  <1>a. nextId \in 0..MaxScanIds /\ session \in 0..MaxSessions
    BY <1>1 DEF Scanners!IInv, Scanners!TypeOK, Scanners!Id
  <1>2. new \in Scans
    BY <1>a, Zenon
  <1>b. new.id = nextId /\ new.sentIn = session /\ new.at = at /\ new.once = once
    OBVIOUS
  <1> HIDE DEF new
  <1>3. scan'[c] = new /\ \A d \in Scanner \ {c} : scan'[d] = scan[d]
    BY <1>1 DEF Scanners!IInv, Scanners!TypeOK
  <1>4. /\ live' \in [Scanners!Id -> Scanner \cup {None}]
        /\ live'[nextId] = c
        /\ \A id \in Scanners!Id \ {nextId} : live'[id] # None =>
              live'[id] = live[id] /\ live[id] \in Scanner \ {c}
    BY <1>1, ScannersWithout
  <1>5. Scanners!TypeOK'
    <2>1. scan' \in [Scanner -> Scans]
      <3> HIDE DEF Scans
      <3>1. scan \in [Scanner -> Scans]
        BY DEF Scanners!IInv, Scanners!TypeOK, Scans
      <3> QED BY <3>1, <1>1, <1>2
    <2>2. up' \in BOOLEAN /\ hit' = hit /\ session' = session
      BY <1>1, ScannersHits, Zenon DEF Scanners!IInv, Scanners!TypeOK
    <2>3. nextId' \in 1..(MaxScanIds + 1)
      BY <1>1 DEF Scanners!Id
    <2> QED BY <2>1, <2>2, <2>3, <1>4 DEF Scanners!IInv, Scanners!TypeOK
  <1>6. Scanners!CancelsOnlyOwn'
    BY <1>1, ScannersHits DEF Scanners!IInv, Scanners!CancelsOnlyOwn
  <1>7. Scanners!NothingLeftRunning'
    <2> SUFFICES ASSUME NEW id \in Scanners!Id, live'[id] # None
                 PROVE  /\ scan'[live'[id]].id = id /\ scan'[live'[id]].sentIn = session'
                        /\ scan'[live'[id]].at # "idle"
      BY DEF Scanners!NothingLeftRunning
    <2>1. CASE id = nextId
      BY <2>1, <1>1, <1>b, <1>3, <1>4
    <2>2. CASE id # nextId
      <3>1. live'[id] = live[id] /\ live[id] \in Scanner \ {c} /\ live[id] # None
        BY <2>2, <1>4
      <3> QED BY <3>1, <1>1, <1>3 DEF Scanners!IInv, Scanners!NothingLeftRunning
    <2> QED BY <2>1, <2>2
  <1>8. Scanners!IdsAreApart'
    <2>1. \A d \in Scanner : /\ scan'[d].sentIn <= session
                             /\ scan'[d].sentIn = session => scan'[d].id < nextId + 1
      <3> SUFFICES ASSUME NEW d \in Scanner
                   PROVE  /\ scan'[d].sentIn <= session
                          /\ scan'[d].sentIn = session => scan'[d].id < nextId + 1
        OBVIOUS
      <3>1. /\ session \in Nat /\ nextId \in Nat /\ scan[d].id \in Nat
            /\ scan[d].sentIn <= session
            /\ scan[d].sentIn = session => scan[d].id < nextId
        BY ScannersNumbers
      <3>2. CASE d = c
        BY ONLY <3>1, <3>2, <1>b, <1>3
      <3>3. CASE d # c
        <4>1. scan'[d] = scan[d]
          BY <3>3, <1>3
        <4> QED BY ONLY <3>1, <4>1
      <3> QED BY <3>2, <3>3
    <2>2. \A d \in Scanner \ {c} : scan'[d].id # nextId \/ scan'[d].sentIn # session
      <3> SUFFICES ASSUME NEW d \in Scanner \ {c}
                   PROVE  scan[d].id # nextId \/ scan[d].sentIn # session
        BY <1>3
      <3>1. /\ nextId \in Nat /\ scan[d].id \in Nat
            /\ scan[d].sentIn = session => scan[d].id < nextId
        BY ScannersNumbers
      <3> QED BY ONLY <3>1
    <2>3. \A d, e \in Scanner :
             scan'[d].id # 0 /\ scan'[d].id = scan'[e].id
             /\ scan'[d].sentIn = session /\ scan'[e].sentIn = session => d = e
      <3> SUFFICES ASSUME NEW d \in Scanner, NEW e \in Scanner, scan'[d].id # 0,
                          scan'[d].id = scan'[e].id, scan'[d].sentIn = session,
                          scan'[e].sentIn = session, d # e
                   PROVE  FALSE
        BY Zenon
      <3>1. d # c /\ e # c
        BY <2>2, <1>b, <1>3
      <3> QED BY <3>1, <1>3 DEF Scanners!IInv, Scanners!IdsAreApart
    <2>4. up'
      BY <1>1
    <2> QED BY <1>1, <2>1, <2>3, <2>4 DEF Scanners!IdsAreApart
  <1>9. \A d \in Scanner : IF d = c THEN scan'[d].at = at /\ scan'[d].once = once
                           ELSE scan'[d] = scan[d]
    BY <1>b, <1>3
  <1> QED BY <1>5, <1>6, <1>7, <1>8, <1>9 DEF ScannersHeld

\* A scan that ends leaves its slot, and nothing of it.
LEMMA ScannersEndsKeeps ==
    ASSUME Scanners!IInv, NEW c \in Scanner, scan[c].at # "idle", Scanners!Ends(c)
    PROVE  Scanners!IInv'
  <1> USE ScannersConstants
  <1> DEFINE Scans == [at : {"idle", "waiting", "open"}, once : BOOLEAN, id : 0..MaxScanIds,
                       sentIn : 0..MaxSessions]
  <1>1. /\ scan' = [scan EXCEPT ![c] = Scanners!Idle]
        /\ running' = IF scan[c].once THEN running - 1 ELSE running
        /\ live' = Scanners!LiveWithout(c)
        /\ hit' = hit
        /\ UNCHANGED <<session, up, nextId, raced>>
    BY ScannersHits DEF Scanners!Ends
  <1>2. Scanners!Idle \in Scans
    <2>1. 0 \in 0..MaxScanIds /\ 0 \in 0..MaxSessions
      OBVIOUS
    <2> QED BY <2>1, Zenon DEF Scanners!Idle
  <1>b. Scanners!Idle.id = 0 /\ Scanners!Idle.at = "idle" /\ Scanners!Idle.sentIn = 0
    BY DEF Scanners!Idle
  <1>3. scan'[c] = Scanners!Idle /\ \A d \in Scanner \ {c} : scan'[d] = scan[d]
    BY <1>1 DEF Scanners!IInv, Scanners!TypeOK
  <1>4. /\ live' \in [Scanners!Id -> Scanner \cup {None}]
        /\ \A id \in Scanners!Id : live'[id] # None =>
              live'[id] = live[id] /\ live[id] \in Scanner \ {c}
    BY <1>1, ScannersWithout
  <1>5. Scanners!TypeOK'
    <2>1. scan' \in [Scanner -> Scans]
      <3> HIDE DEF Scans
      <3>1. scan \in [Scanner -> Scans]
        BY DEF Scanners!IInv, Scanners!TypeOK, Scans
      <3> QED BY <3>1, <1>1, <1>2
    <2>2. up' \in BOOLEAN /\ raced' \in BOOLEAN
      BY <1>1, Zenon DEF Scanners!IInv, Scanners!TypeOK
    <2> QED BY <2>1, <2>2, <1>1, <1>4 DEF Scanners!IInv, Scanners!TypeOK
  <1>6. Scanners!CancelsOnlyOwn'
    BY <1>1 DEF Scanners!IInv, Scanners!CancelsOnlyOwn
  <1>7. Scanners!NothingLeftRunning'
    BY <1>1, <1>3, <1>4 DEF Scanners!IInv, Scanners!NothingLeftRunning
  <1>8. Scanners!IdsAreApart'
    <2>1. \A d \in Scanner : /\ scan'[d].sentIn <= session
                             /\ scan'[d].sentIn = session => scan'[d].id < nextId
      <3> SUFFICES ASSUME NEW d \in Scanner
                   PROVE  /\ scan'[d].sentIn <= session
                          /\ scan'[d].sentIn = session => scan'[d].id < nextId
        OBVIOUS
      <3>1. /\ session \in Nat /\ nextId \in Nat /\ scan[d].id \in Nat
            /\ scan[d].sentIn <= session
            /\ scan[d].sentIn = session => scan[d].id < nextId
        BY ScannersNumbers
      <3>2. nextId >= 1
        BY DEF Scanners!IInv, Scanners!TypeOK
      <3>3. CASE d = c
        BY ONLY <3>1, <3>2, <3>3, <1>b, <1>3
      <3>4. CASE d # c
        <4>1. scan'[d] = scan[d]
          BY <3>4, <1>3
        <4> QED BY ONLY <3>1, <4>1
      <3> QED BY <3>3, <3>4
    <2>2. \A d, e \in Scanner :
             scan'[d].id # 0 /\ scan'[d].id = scan'[e].id
             /\ scan'[d].sentIn = session /\ scan'[e].sentIn = session => d = e
      BY <1>b, <1>3 DEF Scanners!IInv, Scanners!IdsAreApart
    <2>3. \A id \in Scanners!Id : live'[id] # None => up'
      BY <1>1, <1>4 DEF Scanners!IInv, Scanners!IdsAreApart
    <2> QED BY <1>1, <2>1, <2>2, <2>3 DEF Scanners!IdsAreApart
  <1>9. BusyScans' \in SUBSET BusyScans /\ BusyScans \in SUBSET Scanner
    BY <1>b, <1>3 DEF BusyScans
  <1>10. Scanners!SlotsCounted'
    <2>1. \A d \in Scanner : scan'[d].at = "open" => ~scan'[d].once
      BY <1>b, <1>3 DEF Scanners!IInv, Scanners!SlotsCounted
    <2>2. raced \/ Cardinality(BusyScans) <= MaxScans
      BY ScannersSizes DEF Scanners!IInv, Scanners!SlotsCounted, BusyScans
    <2>3. Cardinality(BusyScans') <= Cardinality(BusyScans)
      BY <1>9, FS_Subset, ScannersConstants
    <2>4. Cardinality(BusyScans') \in Nat /\ Cardinality(BusyScans) \in Nat
      <3>1. BusyScans' \in SUBSET Scanner
        BY <1>9
      <3> QED BY <3>1, <1>9, ScannersConstants
    <2>5. raced' \/ Cardinality(BusyScans') <= MaxScans
      BY <2>2, <2>3, <2>4, <1>1, ScannersConstants
    <2> QED BY <2>1, <2>5, ScannersSizes DEF Scanners!SlotsCounted, BusyScans
  <1>11. Scanners!SlotsGivenBack'
    <2>1. OnceScans \in SUBSET Scanner /\ running = Cardinality(OnceScans)
      BY ScannersSizes DEF Scanners!IInv, Scanners!SlotsGivenBack, OnceScans
    <2>2. running' = Cardinality(OnceScans')
      <3>1. CASE scan[c].once
        <4>1. c \in OnceScans
          BY <3>1 DEF OnceScans, Scanners!IInv, Scanners!SlotsCounted, Scanners!TypeOK
        <4>2. OnceScans' = OnceScans \ {c}
          BY <1>b, <1>3 DEF OnceScans
        <4> QED BY <4>1, <4>2, <2>1, <3>1, <1>1, FS_RemoveElement, ScannersConstants
      <3>2. CASE ~scan[c].once
        <4>1. OnceScans' = OnceScans
          BY <3>2, <1>b, <1>3 DEF OnceScans
        <4> QED BY <4>1, <2>1, <3>2, <1>1
      <3> QED BY <3>1, <3>2
    <2> QED BY <2>2, ScannersSizes DEF Scanners!SlotsGivenBack, OnceScans
  <1>12. Scanners!SlotsKept'
    <2>1. (Scanners!TypeOK /\ Scanners!NothingLeftRunning /\ Scanners!SlotsCounted
            => Scanners!SlotsKept)'
      BY ScannersSlots, PTL
    <2> QED BY <2>1, <1>5, <1>7, <1>10
  <1> QED BY <1>5, <1>6, <1>7, <1>8, <1>10, <1>11, <1>12 DEF Scanners!IInv

\* The counts, of a step that leaves what is held in order.
LEMMA ScannersCountsKeep ==
    ASSUME ScannersHeld', Scanners!SlotsGivenBack', Scanners!SlotsCounted'
    PROVE  Scanners!IInv'
  <1>1. (Scanners!TypeOK /\ Scanners!NothingLeftRunning /\ Scanners!SlotsCounted
          => Scanners!SlotsKept)'
    BY ScannersSlots, PTL
  <1> QED BY <1>1 DEF ScannersHeld, Scanners!IInv

\* A scan that is let in takes a slot; a scan run once is counted from then on.
LEMMA ScannersStartKeeps ==
    ASSUME Scanners!IInv, NEW c \in Scanner,
           Scanners!RunScanner(c) \/ Scanners!SubscribeScanner(c)
    PROVE  Scanners!IInv'
  <1>1. PICK once \in BOOLEAN :
           /\ scan[c].at = "idle" /\ Scanners!SlotFree /\ Scanners!Send(c, "waiting", once)
           /\ raced' = (raced \/ Scanners!Subscribing # {})
           /\ running' = IF once THEN running + 1 ELSE running
    BY Zenon DEF Scanners!RunScanner, Scanners!SubscribeScanner
  <1>2. raced' \in BOOLEAN
    BY <1>1, Zenon DEF Scanners!IInv, Scanners!TypeOK
  <1>3. /\ ScannersHeld'
        /\ \A d \in Scanner : IF d = c THEN scan'[d].at = "waiting" /\ scan'[d].once = once
                              ELSE scan'[d] = scan[d]
    BY <1>1, <1>2, ScannersSendKeeps
  <1>4. BusyScans' = BusyScans \cup {c}
    BY <1>3 DEF BusyScans
  <1>5. raced' \/ Cardinality(BusyScans') <= MaxScans
    BY <1>1, <1>4, ScannersLetIn
  <1>6. Scanners!SlotsCounted'
    <2>1. \A d \in Scanner : scan'[d].at = "open" => ~scan'[d].once
      BY <1>3 DEF Scanners!IInv, Scanners!SlotsCounted
    <2> QED BY <2>1, <1>5, ScannersSizes DEF Scanners!SlotsCounted, BusyScans
  <1>7. Scanners!SlotsGivenBack'
    <2>1. /\ OnceScans \in SUBSET Scanner /\ running = Cardinality(OnceScans)
          /\ c \notin OnceScans
      BY <1>1, ScannersSizes DEF Scanners!IInv, Scanners!SlotsGivenBack, OnceScans
    <2>2. CASE once
      <3>1. OnceScans' = OnceScans \cup {c}
        BY <2>2, <1>3 DEF OnceScans
      <3>2. running' = Cardinality(OnceScans')
        BY <3>1, <2>1, <2>2, <1>1, FS_AddElement, ScannersConstants
      <3> QED BY <3>2, ScannersSizes DEF Scanners!SlotsGivenBack, OnceScans
    <2>3. CASE ~once
      <3>1. OnceScans' = OnceScans
        BY <2>3, <1>3, <2>1 DEF OnceScans
      <3>2. running' = Cardinality(OnceScans')
        BY <3>1, <2>1, <2>3, <1>1
      <3> QED BY <3>2, ScannersSizes DEF Scanners!SlotsGivenBack, OnceScans
    <2> QED BY <2>2, <2>3
  <1> QED BY <1>3, <1>6, <1>7, ScannersCountsKeep

\* A kept scan that is sent again, or gets its first rows, keeps its slot.
LEMMA ScannersKeptKeeps ==
    ASSUME Scanners!IInv, NEW c \in Scanner, ScannersHeld',
           scan[c].at = "open" \/ (scan[c].at = "waiting" /\ ~scan[c].once),
           \A d \in Scanner : IF d = c THEN scan'[d].at = "open" /\ scan'[d].once = FALSE
                              ELSE scan'[d] = scan[d],
           UNCHANGED <<running, raced>>
    PROVE  Scanners!IInv'
  <1>1. BusyScans' = BusyScans /\ OnceScans' = OnceScans
    BY DEF BusyScans, OnceScans
  <1>2. Scanners!SlotsCounted'
    <2>1. \A d \in Scanner : scan'[d].at = "open" => ~scan'[d].once
      BY DEF Scanners!IInv, Scanners!SlotsCounted
    <2>2. raced' \/ Cardinality(BusyScans') <= MaxScans
      BY <1>1, ScannersSizes DEF Scanners!IInv, Scanners!SlotsCounted, BusyScans
    <2> QED BY <2>1, <2>2, ScannersSizes DEF Scanners!SlotsCounted, BusyScans
  <1>3. Scanners!SlotsGivenBack'
    <2>1. running' = Cardinality(OnceScans')
      BY <1>1, ScannersSizes DEF Scanners!IInv, Scanners!SlotsGivenBack, OnceScans
    <2> QED BY <2>1, ScannersSizes DEF Scanners!SlotsGivenBack, OnceScans
  <1> QED BY <1>2, <1>3, ScannersCountsKeep

\* IBKR's requests only become less, or the session is another.
LEMMA ScannersLiveKeeps ==
    ASSUME Scanners!IInv, ScannersHeld', scan' = scan, UNCHANGED <<running, raced>>
    PROVE  Scanners!IInv'
  <1>1. Scanners!SlotsCounted' /\ Scanners!SlotsGivenBack'
    BY DEF Scanners!IInv, Scanners!SlotsCounted, Scanners!SlotsGivenBack
  <1> QED BY <1>1, ScannersCountsKeep

\* No scan yet.
LEMMA ScannersStarts == ASSUME Scanners!Init PROVE Scanners!IInv
  <1> USE ScannersConstants
  <1>1. up \in BOOLEAN /\ raced \in BOOLEAN
    BY Zenon DEF Scanners!Init
  <1>2. Scanners!TypeOK
    BY <1>1 DEF Scanners!Init, Scanners!TypeOK, Scanners!Id, Scanners!Idle
  <1>3. Scanners!NothingLeftRunning /\ Scanners!CancelsOnlyOwn /\ Scanners!IdsAreApart
    BY DEF Scanners!Init, Scanners!NothingLeftRunning, Scanners!CancelsOnlyOwn,
       Scanners!IdsAreApart, Scanners!Idle
  <1>4. BusyScans = {} /\ OnceScans = {}
    BY DEF Scanners!Init, Scanners!Idle, BusyScans, OnceScans
  <1>5. Scanners!SlotsCounted
    <2>1. Cardinality(BusyScans) = 0
      BY <1>4, FS_EmptySet
    <2>2. \A c \in Scanner : scan[c].at = "open" => ~scan[c].once
      BY DEF Scanners!Init, Scanners!Idle
    <2> QED BY <2>1, <2>2, ScannersSizes DEF Scanners!SlotsCounted, BusyScans
  <1>6. Scanners!SlotsGivenBack
    <2>1. running = Cardinality(OnceScans)
      BY <1>4, FS_EmptySet DEF Scanners!Init
    <2> QED BY <2>1, ScannersSizes DEF Scanners!SlotsGivenBack, OnceScans
  <1>7. Scanners!SlotsKept
    BY <1>2, <1>3, <1>5, ScannersSlots
  <1> QED BY <1>2, <1>3, <1>5, <1>6, <1>7 DEF Scanners!IInv

\* Every step keeps what the argument needs.
LEMMA ScannersKeeps ==
    ASSUME Scanners!IInv, [Scanners!Next]_(Scanners!vars) PROVE Scanners!IInv'
  <1> USE ScannersConstants
  <1>1. ASSUME NEW c \in Scanner, Scanners!TimeOut(c) \/ Scanners!Unsubscribe(c)
        PROVE  Scanners!IInv'
    BY <1>1, ScannersEndsKeeps DEF Scanners!TimeOut, Scanners!Unsubscribe
  <1>2. ASSUME NEW c \in Scanner, Scanners!FirstRows(c)
        PROVE  Scanners!IInv'
    <2>1. CASE scan[c].once
      BY <2>1, <1>2, ScannersEndsKeeps DEF Scanners!FirstRows
    <2>2. CASE ~scan[c].once
      <3>1. /\ scan[c].at = "waiting" /\ scan' = [scan EXCEPT ![c].at = "open"]
            /\ UNCHANGED <<running, live, session, up, nextId, hit, raced>>
        BY <2>2, <1>2 DEF Scanners!FirstRows
      <3>2. scan[c].once = FALSE
        BY <2>2 DEF Scanners!IInv, Scanners!TypeOK
      <3> DEFINE Scans == [at : {"idle", "waiting", "open"}, once : BOOLEAN,
                           id : 0..MaxScanIds, sentIn : 0..MaxSessions]
                 opened == [scan[c] EXCEPT !.at = "open"]
      <3>3. scan \in [Scanner -> Scans]
        BY DEF Scanners!IInv, Scanners!TypeOK
      <3>4. opened \in Scans /\ opened.at = "open" /\ opened.once = FALSE
            /\ opened.id = scan[c].id /\ opened.sentIn = scan[c].sentIn
        BY <3>2, <3>3
      <3>5. scan' = [scan EXCEPT ![c] = opened]
        BY <3>1, <3>3
      <3> HIDE DEF Scans, opened
      <3>6. /\ scan' \in [Scanner -> Scans]
            /\ \A d \in Scanner : IF d = c THEN scan'[d] = opened ELSE scan'[d] = scan[d]
        BY <3>3, <3>4, <3>5
      <3>7. ScannersHeld'
        <4>1. up' \in BOOLEAN /\ raced' \in BOOLEAN
          BY <3>1, Zenon DEF Scanners!IInv, Scanners!TypeOK
        <4>2. Scanners!TypeOK'
          BY <4>1, <3>1, <3>6 DEF Scanners!IInv, Scanners!TypeOK, Scans
        <4>3. Scanners!NothingLeftRunning' /\ Scanners!CancelsOnlyOwn'
          BY <3>1, <3>4, <3>6 DEF Scanners!IInv, Scanners!TypeOK, Scanners!NothingLeftRunning,
             Scanners!CancelsOnlyOwn
        <4>4. \A d \in Scanner : scan'[d].id = scan[d].id /\ scan'[d].sentIn = scan[d].sentIn
          BY <3>4, <3>6
        <4>5. Scanners!IdsAreApart'
          BY <3>1, <4>4 DEF Scanners!IInv, Scanners!IdsAreApart
        <4> QED BY <4>2, <4>3, <4>5 DEF ScannersHeld
      <3> QED BY <3>1, <3>2, <3>4, <3>6, <3>7, ScannersKeptKeeps
    <2> QED BY <2>1, <2>2
  <1>3. ASSUME NEW c \in Scanner, Scanners!Reopen(c)
        PROVE  Scanners!IInv'
    <2>1. /\ scan[c].at = "open" /\ Scanners!Send(c, "open", FALSE)
          /\ UNCHANGED <<running, raced>>
      BY <1>3 DEF Scanners!Reopen
    <2>2. raced' \in BOOLEAN
      BY <2>1, Zenon DEF Scanners!IInv, Scanners!TypeOK
    <2>3. /\ ScannersHeld'
          /\ \A d \in Scanner : IF d = c THEN scan'[d].at = "open" /\ scan'[d].once = FALSE
                                ELSE scan'[d] = scan[d]
      BY <2>1, <2>2, ScannersSendKeeps
    <2> QED BY <2>1, <2>3, ScannersKeptKeeps
  <1>4. ASSUME NEW c \in Scanner, Scanners!Refuse(c)
        PROVE  Scanners!IInv'
    <2>1. CASE scan[c].at = "waiting"
      BY <2>1, <1>4, ScannersEndsKeeps DEF Scanners!Refuse
    <2>2. CASE scan[c].at # "waiting"
      <3>1. /\ live' = [live EXCEPT ![scan[c].id] = None]
            /\ UNCHANGED <<scan, running, session, up, nextId, hit, raced>>
        BY <2>2, <1>4 DEF Scanners!Refuse
      <3>2. up' \in BOOLEAN /\ raced' \in BOOLEAN
        BY <3>1, Zenon DEF Scanners!IInv, Scanners!TypeOK
      <3>3. /\ live' \in [Scanners!Id -> Scanner \cup {None}]
            /\ \A id \in Scanners!Id : live'[id] # None => live'[id] = live[id]
        BY <3>1 DEF Scanners!IInv, Scanners!TypeOK
      <3>4. Scanners!TypeOK'
        BY <3>1, <3>2, <3>3 DEF Scanners!IInv, Scanners!TypeOK
      <3>5. Scanners!NothingLeftRunning' /\ Scanners!CancelsOnlyOwn' /\ Scanners!IdsAreApart'
        BY <3>1, <3>3 DEF Scanners!IInv, Scanners!NothingLeftRunning,
           Scanners!CancelsOnlyOwn, Scanners!IdsAreApart
      <3> QED BY <3>1, <3>4, <3>5, ScannersLiveKeeps DEF ScannersHeld
    <2> QED BY <2>1, <2>2
  <1>5. ASSUME Scanners!DataLost \/ Scanners!Drop
        PROVE  Scanners!IInv'
    <2>1. /\ UNCHANGED <<scan, running, session, nextId, hit, raced>>
          /\ live' = [id \in Scanners!Id |-> None]
      BY <1>5 DEF Scanners!DataLost, Scanners!Drop
    <2>2. up' \in BOOLEAN /\ raced' \in BOOLEAN
      BY <1>5, Zenon DEF Scanners!DataLost, Scanners!Drop, Scanners!IInv, Scanners!TypeOK
    <2>3. Scanners!TypeOK'
      BY <2>1, <2>2 DEF Scanners!IInv, Scanners!TypeOK
    <2>4. Scanners!NothingLeftRunning' /\ Scanners!CancelsOnlyOwn' /\ Scanners!IdsAreApart'
      BY <2>1 DEF Scanners!IInv, Scanners!NothingLeftRunning,
         Scanners!CancelsOnlyOwn, Scanners!IdsAreApart
    <2> QED BY <2>1, <2>3, <2>4, ScannersLiveKeeps DEF ScannersHeld
  <1>6. CASE Scanners!Connect
    <2>1. /\ ~up /\ session < MaxSessions /\ session' = session + 1 /\ nextId' = 1
          /\ UNCHANGED <<scan, running, live, hit, raced>>
      BY <1>6 DEF Scanners!Connect
    <2>2. up' \in BOOLEAN /\ raced' \in BOOLEAN
      BY <1>6, Zenon DEF Scanners!Connect, Scanners!IInv, Scanners!TypeOK
    <2>3. \A id \in Scanners!Id : live[id] = None
      BY <2>1 DEF Scanners!IInv, Scanners!IdsAreApart
    <2>4. Scanners!TypeOK'
      BY <2>1, <2>2 DEF Scanners!IInv, Scanners!TypeOK
    <2>5. Scanners!NothingLeftRunning' /\ Scanners!CancelsOnlyOwn'
      BY <2>1, <2>3 DEF Scanners!IInv, Scanners!NothingLeftRunning, Scanners!CancelsOnlyOwn
    <2>6. Scanners!IdsAreApart'
      <3>1. \A c \in Scanner : scan'[c].sentIn <= session' /\ scan'[c].sentIn # session'
        <4> SUFFICES ASSUME NEW c \in Scanner
                     PROVE  scan'[c].sentIn <= session' /\ scan'[c].sentIn # session'
          OBVIOUS
        <4>1. session \in Nat /\ scan[c].sentIn \in Nat /\ scan[c].sentIn <= session
          BY ScannersNumbers
        <4>2. scan'[c] = scan[c]
          BY <2>1
        <4> QED BY ONLY <2>1, <4>1, <4>2
      <3>2. \A id \in Scanners!Id : live'[id] = None
        BY <2>1, <2>3
      <3> QED BY <3>1, <3>2 DEF Scanners!IdsAreApart
    <2> QED BY <2>1, <2>4, <2>5, <2>6, ScannersLiveKeeps DEF ScannersHeld
  <1>7. CASE UNCHANGED Scanners!vars
    BY <1>7 DEF Scanners!vars, Scanners!IInv, Scanners!TypeOK, Scanners!SlotsKept,
       Scanners!SlotsGivenBack, Scanners!NothingLeftRunning, Scanners!CancelsOnlyOwn,
       Scanners!IdsAreApart, Scanners!SlotsCounted
  <1>8. CASE Scanners!Next
    BY <1>8, <1>1, <1>2, <1>3, <1>4, <1>5, <1>6, ScannersStartKeeps DEF Scanners!Next
  <1> QED BY <1>7, <1>8

\* IBKR never runs more scans than it allows, unless one was let in while another was being
\* subscribed (the check counts the registry, _ensure_scanner_slot); scans run once give
\* their slot back however they end, and nothing is left running that no scan holds.
THEOREM SlotsAreKept == Scanners!Spec => []Scanners!IInv
  <1>1. Scanners!Init => Scanners!IInv
    BY ScannersStarts
  <1>2. Scanners!IInv /\ [Scanners!Next]_(Scanners!vars) => Scanners!IInv'
    BY ScannersKeeps
  <1> QED BY <1>1, <1>2, PTL DEF Scanners!Spec

-----------------------------------------------------------------------------
(* Answers kept for a session (SessionCache) *)

\* What the assumption says of numbers and names.
LEMMA CacheConstants ==
    MaxKeptSessions \in Nat \ {0} /\ MaxFetches \in Nat \ {0} /\ None \notin Caller
  BY SessionPartsAssumption DEF Cache!CacheAssumption

\* The numbers of the sessions are numbers, and in order.
LEMMA CacheNumbers ==
    ASSUME Cache!IInv
    PROVE  /\ session \in 1..MaxKeptSessions /\ slot \in [label : 0..MaxKeptSessions, from : 0..MaxKeptSessions]
           /\ slot.label \in 0..MaxKeptSessions /\ slot.from \in 0..MaxKeptSessions
           /\ slot.label <= slot.from /\ slot.from <= session
           /\ slot.from # 0 => slot.from \in requested
           /\ \A c \in Caller : /\ calls[c] \in Cache!Call
                                /\ calls[c].began \in Nat /\ calls[c].saw \in Nat
                                /\ calls[c].got \in Nat
  <1>1. /\ session \in 1..MaxKeptSessions /\ slot \in [label : 0..MaxKeptSessions, from : 0..MaxKeptSessions]
        /\ calls \in [Caller -> Cache!Call]
    BY DEF Cache!IInv, Cache!TypeOK
  <1>2. slot.label \in 0..MaxKeptSessions /\ slot.from \in 0..MaxKeptSessions
    BY <1>1
  <1>3. slot.label <= slot.from /\ slot.from <= session /\ (slot.from # 0 => slot.from \in requested)
    BY Zenon DEF Cache!IInv, Cache!FreshEnough, Cache!SlotFits
  <1>4. \A c \in Caller : /\ calls[c] \in Cache!Call
                          /\ calls[c].began \in Nat /\ calls[c].saw \in Nat
                          /\ calls[c].got \in Nat
    BY <1>1, CacheConstants DEF Cache!Call
  <1> QED BY <1>1, <1>2, <1>3, <1>4

\* A call goes on: what is kept, and what IBKR was asked, stay.
LEMMA CacheCallKeeps ==
    ASSUME Cache!IInv, NEW c \in Caller, NEW call \in Cache!Call,
           calls' = [calls EXCEPT ![c] = call],
           UNCHANGED <<kind, session, up, slot, requested, fetches>>,
           lock' \in Caller \cup {None},
           call.got # 0 => call.got >= call.began,
           call.at = "refused" => call.retried /\ call.saw < session,
           call.at = "asking" => lock' = c /\ up,
           \A d \in Caller \ {c} : calls[d].at = "asking" => lock' = d,
           call.at = "ready" => kind = "events" /\ (call.saw = session => session \in requested),
           call.began <= call.saw, call.saw <= session,
           kind = "depth" /\ call.at = "asking" => call.saw = session /\ fetches[session] = 0
    PROVE  Cache!IInv'
  <1> USE CacheConstants
  <1>1. /\ calls' \in [Caller -> Cache!Call] /\ calls'[c] = call
        /\ \A d \in Caller \ {c} : calls'[d] = calls[d]
    BY DEF Cache!IInv, Cache!TypeOK
  <1>2. Cache!TypeOK'
    <2>1. up' \in BOOLEAN
      BY Zenon DEF Cache!IInv, Cache!TypeOK
    <2> QED BY <1>1, <2>1 DEF Cache!IInv, Cache!TypeOK
  <1>3. Cache!FreshEnough'
    BY <1>1 DEF Cache!IInv, Cache!FreshEnough
  <1>4. Cache!DepthOnce'
    BY DEF Cache!IInv, Cache!DepthOnce
  <1>5. Cache!RefusedAfterChange'
    BY <1>1 DEF Cache!IInv, Cache!RefusedAfterChange
  <1>6. Cache!Locked'
    BY <1>1 DEF Cache!IInv, Cache!Locked
  <1>7. Cache!SlotFits'
    BY <1>1 DEF Cache!IInv, Cache!SlotFits
  <1>8. Cache!DepthKept'
    BY <1>1 DEF Cache!IInv, Cache!DepthKept
  <1> QED BY <1>2, <1>3, <1>4, <1>5, <1>6, <1>7, <1>8 DEF Cache!IInv

\* What a call gets from the slot was answered since it began; for the events, in this
\* session.
LEMMA CacheFromSlot ==
    ASSUME Cache!IInv, NEW c \in Caller, NEW saw \in Nat, NEW began \in Nat,
           began <= saw, saw <= session, slot # Cache!Empty,
           slot.label = IF kind \in {"depth", "events"} THEN session ELSE saw
    PROVE  /\ slot.from >= began
           /\ kind = "events" => session \in requested
  <1>1. slot.label >= began
    BY CacheNumbers
  <1>2. slot.from >= began
    BY <1>1, CacheNumbers
  <1>3. ASSUME kind = "events" PROVE session \in requested
    <2>1. slot.from = session /\ session # 0
      BY <1>3, CacheNumbers
    <2> QED BY <2>1, CacheNumbers
  <1> QED BY <1>2, <1>3

\* A call that is new.
LEMMA CacheNew ==
    ASSUME Cache!IInv
    PROVE  /\ Cache!New \in Cache!Call /\ Cache!New.got = 0
           /\ Cache!New.began = session /\ Cache!New.saw = session
  <1> DEFINE new == Cache!New
             zero == Cache!Call0
  <1>1. session \in 0..MaxKeptSessions /\ 0 \in 0..MaxKeptSessions
    BY CacheConstants, CacheNumbers
  <1>2. zero \in Cache!Call /\ zero.got = 0
    <2>1. FALSE \in BOOLEAN
      OBVIOUS
    <2> QED BY <1>1, <2>1 DEF Cache!Call0, Cache!Call
  <1>3. new = [zero EXCEPT !.began = session, !.saw = session]
    BY DEF Cache!New
  <1> HIDE DEF zero, new
  <1>4. new \in Cache!Call /\ new.got = 0 /\ new.began = session /\ new.saw = session
    BY <1>1, <1>2, <1>3 DEF Cache!Call
  <1> QED BY <1>4 DEF new

\* A call that starts: with what is kept, or to ask.
LEMMA CacheAskKeeps ==
    ASSUME Cache!IInv, NEW c \in Caller, Cache!AskKept(c) \/ Cache!Ask(c)
    PROVE  Cache!IInv'
  <1> USE CacheConstants
  <1>1. PICK call \in Cache!Call :
           /\ calls' = [calls EXCEPT ![c] = call]
           /\ call.at \in {"queued", "ready", "done"}
           /\ call.began = session /\ call.saw = session
           /\ call.at = "ready" => kind = "events" /\ session \in requested
           /\ call.got # 0 => call.got >= session
    <2>1. CASE Cache!AskKept(c)
      <3>1. /\ kind # "depth" /\ slot # Cache!Empty /\ slot.label = session
            /\ calls' = [calls EXCEPT ![c] = [Cache!New EXCEPT !.at = Cache!After, !.got = slot.from]]
        BY <2>1 DEF Cache!AskKept
      <3>2. slot.from >= session /\ (kind = "events" => session \in requested)
        BY <3>1, CacheFromSlot, CacheNumbers
      <3>3. Cache!After \in {"queued", "ready", "done"} /\ (Cache!After = "ready" => kind = "events")
        BY DEF Cache!After
      <3>4. slot.from \in 0..MaxKeptSessions
        BY CacheNumbers
      <3> DEFINE kept == [Cache!New EXCEPT !.at = Cache!After, !.got = slot.from]
      <3>5. /\ kept \in Cache!Call /\ kept.at = Cache!After /\ kept.got = slot.from
            /\ kept.began = session /\ kept.saw = session
        BY <3>3, <3>4, CacheNew DEF Cache!Call
      <3>6. calls' = [calls EXCEPT ![c] = kept]
        BY <3>1
      <3> HIDE DEF kept
      <3> QED BY <3>2, <3>3, <3>5, <3>6
    <2>2. CASE Cache!Ask(c)
      <3>1. calls' = [calls EXCEPT ![c] = [Cache!New EXCEPT !.at = "queued"]]
        BY <2>2 DEF Cache!Ask
      <3> DEFINE call == [Cache!New EXCEPT !.at = "queued"]
      <3>2. /\ call \in Cache!Call /\ call.at = "queued" /\ call.got = 0
            /\ call.began = session /\ call.saw = session
        BY CacheNew DEF Cache!Call
      <3>3. calls' = [calls EXCEPT ![c] = call]
        BY <3>1
      <3> HIDE DEF call
      <3> QED BY <3>2, <3>3
    <2> QED BY <2>1, <2>2
  <1>2. UNCHANGED <<kind, session, up, slot, lock, requested, fetches>>
    BY DEF Cache!AskKept, Cache!Ask
  <1>3. lock' \in Caller \cup {None} /\ \A d \in Caller \ {c} : calls[d].at = "asking" => lock' = d
    BY <1>2 DEF Cache!IInv, Cache!TypeOK, Cache!Locked
  <1>4. session <= session
    BY CacheNumbers
  <1> QED BY <1>1, <1>2, <1>3, <1>4, CacheCallKeeps

\* With the lock: what a caller before fetched, or a request of its own.
LEMMA CacheLookKeeps ==
    ASSUME Cache!IInv, NEW c \in Caller, Cache!Found(c) \/ Cache!Request(c)
    PROVE  Cache!IInv'
  <1> USE CacheConstants
  <1>1. /\ calls[c] \in Cache!Call /\ calls[c].at = "queued" /\ lock = None /\ up
        /\ UNCHANGED <<kind, session, up, slot, requested, fetches>>
    BY CacheNumbers DEF Cache!Found, Cache!Request
  <1>2. /\ calls[c].began <= calls[c].saw /\ calls[c].saw <= session
        /\ \A d \in Caller : calls[d].at # "asking"
    BY <1>1 DEF Cache!IInv, Cache!Locked
  <1>3. calls[c].got # 0 => calls[c].got >= calls[c].began
    BY DEF Cache!IInv, Cache!FreshEnough
  <1>4. /\ calls[c].began \in Nat /\ calls[c].saw \in Nat /\ session \in Nat
        /\ session \in 0..MaxKeptSessions
    BY CacheNumbers
  <1>5. CASE Cache!Found(c)
    <2> DEFINE call == [calls[c] EXCEPT !.at = Cache!After, !.got = slot.from]
    <2>1. calls' = [calls EXCEPT ![c] = call] /\ lock' = lock /\ Cache!Usable(c)
      BY <1>5 DEF Cache!Found
    <2>2. Cache!After \in {"ready", "done"} /\ (Cache!After = "ready" => kind = "events")
      BY DEF Cache!After
    <2>3. slot.from \in 0..MaxKeptSessions
      BY CacheNumbers
    <2>4. /\ call \in Cache!Call /\ call.at = Cache!After /\ call.got = slot.from
          /\ call.began = calls[c].began /\ call.saw = calls[c].saw
      BY <1>1, <2>2, <2>3 DEF Cache!Call
    <2>5. slot.from >= calls[c].began /\ (kind = "events" => session \in requested)
      BY <2>1, <1>2, <1>4, CacheFromSlot DEF Cache!Usable
    <2> HIDE DEF call
    <2>6. lock' \in Caller \cup {None}
      BY <1>1, <2>1
    <2> QED BY <1>1, <1>2, <2>1, <2>2, <2>4, <2>5, <2>6, CacheCallKeeps
  <1>6. CASE Cache!Request(c)
    <2> DEFINE saw == IF kind = "depth" THEN session ELSE calls[c].saw
               call == [calls[c] EXCEPT !.at = "asking", !.saw = saw]
    <2>1. lock' = c /\ (kind = "providers" \/ ~Cache!Usable(c))
      BY <1>6 DEF Cache!Request
    <2>2. calls' = [calls EXCEPT ![c] = call]
      BY <1>6 DEF Cache!Request
    <2>3. /\ saw \in 0..MaxKeptSessions /\ calls[c].began <= saw /\ saw <= session
          /\ kind = "depth" => saw = session
      BY <1>1, <1>2, <1>4 DEF Cache!Call
    <2> HIDE DEF saw
    <2>4. /\ call \in Cache!Call /\ call.at = "asking" /\ call.got = calls[c].got
          /\ call.began = calls[c].began /\ call.saw = saw
      BY <1>1, <2>3 DEF Cache!Call
    <2> HIDE DEF call
    <2>5. ASSUME kind = "depth" PROVE fetches[session] = 0
      <3>1. slot = Cache!Empty \/ slot.label # session
        BY <2>1, <2>5 DEF Cache!Usable
      <3>2. slot.label # session
        BY <3>1, <1>4, CacheNumbers DEF Cache!Empty
      <3> QED BY <2>5, <3>2 DEF Cache!IInv, Cache!DepthKept
    <2> QED BY <1>1, <1>2, <1>3, <2>1, <2>2, <2>3, <2>4, <2>5, CacheCallKeeps
  <1> QED BY <1>5, <1>6

\* A call that ends: it failed, or IBKR had the metadata, or missed it twice.
LEMMA CacheEndKeeps ==
    ASSUME Cache!IInv, NEW c \in Caller, NEW at \in {"failed", "done", "refused"},
           calls' = [calls EXCEPT ![c].at = at],
           at = "refused" => calls[c].retried /\ calls[c].saw < session,
           lock' = (IF lock = c THEN None ELSE lock) \/ (lock' = lock /\ calls[c].at = "ready"),
           UNCHANGED <<kind, session, up, slot, requested, fetches>>
    PROVE  Cache!IInv'
  <1> USE CacheConstants
  <1> DEFINE call == [calls[c] EXCEPT !.at = at]
  <1>1. calls[c] \in Cache!Call
    BY CacheNumbers
  <1>2. /\ call \in Cache!Call /\ call.at = at /\ call.got = calls[c].got
        /\ call.began = calls[c].began /\ call.saw = calls[c].saw
        /\ call.retried = calls[c].retried
    BY <1>1 DEF Cache!Call
  <1>3. calls' = [calls EXCEPT ![c] = call]
    OBVIOUS
  <1> HIDE DEF call
  <1>4. /\ calls[c].began <= calls[c].saw /\ calls[c].saw <= session
        /\ \A d \in Caller \ {c} : calls[d].at = "asking" => lock' = d
    BY DEF Cache!IInv, Cache!Locked
  <1>5. calls[c].got # 0 => calls[c].got >= calls[c].began
    BY DEF Cache!IInv, Cache!FreshEnough
  <1>6. lock' \in Caller \cup {None}
    BY DEF Cache!IInv, Cache!TypeOK
  <1> QED BY <1>2, <1>3, <1>4, <1>5, <1>6, CacheCallKeeps, ZenonT(30)

\* IBKR answers: for the exchanges, once in a session.
LEMMA CacheAnswerKeeps ==
    ASSUME Cache!IInv, NEW c \in Caller, Cache!Answer(c)
    PROVE  Cache!IInv'
  <1> USE CacheConstants
  <1> DEFINE call == [calls[c] EXCEPT !.at = Cache!After, !.got = session]
             new == [label |-> calls[c].saw, from |-> session]
  <1>1. /\ calls[c].at = "asking" /\ up /\ slot' = new
        /\ requested' = requested \cup {session}
        /\ fetches' = [fetches EXCEPT ![session] = fetches[session] + 1]
        /\ calls' = [calls EXCEPT ![c] = call]
        /\ lock' = None /\ UNCHANGED <<kind, session, up>>
    BY DEF Cache!Answer
  <1>2. /\ calls[c] \in Cache!Call /\ session \in 1..MaxKeptSessions
        /\ session \in 0..MaxKeptSessions
        /\ calls[c].saw \in 0..MaxKeptSessions
        /\ calls[c].began \in Nat
    BY CacheNumbers DEF Cache!Call
  <1>3. /\ calls[c].began <= calls[c].saw /\ calls[c].saw <= session
        /\ \A d \in Caller \ {c} : calls[d].at # "asking"
    BY <1>1 DEF Cache!IInv, Cache!Locked
  <1>4. Cache!After \in {"ready", "done"} /\ (Cache!After = "ready" => kind = "events")
    BY DEF Cache!After
  <1>5. /\ call \in Cache!Call /\ call.at = Cache!After /\ call.got = session
        /\ call.began = calls[c].began /\ call.saw = calls[c].saw
    BY <1>2, <1>4 DEF Cache!Call
  <1>6. /\ new \in [label : 0..MaxKeptSessions, from : 0..MaxKeptSessions]
        /\ new.label = calls[c].saw /\ new.from = session
    BY <1>2
  <1> HIDE DEF call, new
  <1>7. /\ calls' \in [Caller -> Cache!Call] /\ calls'[c] = call
        /\ \A d \in Caller \ {c} : calls'[d] = calls[d]
    BY <1>1, <1>5 DEF Cache!IInv, Cache!TypeOK
  <1>8. /\ fetches' \in [1..MaxKeptSessions -> Nat]
        /\ fetches'[session] = fetches[session] + 1
        /\ \A s \in 1..MaxKeptSessions : s # session => fetches'[s] = fetches[s]
    BY <1>1, <1>2 DEF Cache!IInv, Cache!TypeOK
  <1>9. Cache!TypeOK'
    <2>1. up' \in BOOLEAN
      BY <1>1, Zenon DEF Cache!IInv, Cache!TypeOK
    <2> QED BY <1>1, <1>2, <1>6, <1>7, <1>8, <2>1 DEF Cache!IInv, Cache!TypeOK
  <1>10. Cache!FreshEnough'
    <2>1. session >= calls[c].began
      BY <1>2, <1>3 DEF Cache!Call
    <2> QED BY <1>1, <1>3, <1>5, <1>6, <1>7, <2>1 DEF Cache!IInv, Cache!FreshEnough
  <1>11. Cache!DepthOnce'
    <2> SUFFICES ASSUME kind = "depth", NEW s \in 1..MaxKeptSessions PROVE fetches'[s] <= 1
      BY <1>1 DEF Cache!DepthOnce
    <2>1. CASE s = session
      <3>1. fetches[session] = 0
        BY <1>1 DEF Cache!IInv, Cache!DepthKept
      <3> QED BY <2>1, <3>1, <1>8
    <2>2. CASE s # session
      BY <2>2, <1>8 DEF Cache!IInv, Cache!DepthOnce
    <2> QED BY <2>1, <2>2
  <1>12. Cache!RefusedAfterChange'
    BY <1>1, <1>4, <1>5, <1>7 DEF Cache!IInv, Cache!RefusedAfterChange
  <1>13. Cache!Locked'
    BY <1>1, <1>3, <1>4, <1>5, <1>7 DEF Cache!IInv, Cache!Locked
  <1>14. Cache!SlotFits'
    <2>1. session <= session
      BY <1>2
    <2> QED BY <1>1, <1>5, <1>6, <1>7, <2>1 DEF Cache!IInv, Cache!SlotFits
  <1>15. Cache!DepthKept'
    <2>1. \A s \in 1..MaxKeptSessions : s > session' => fetches'[s] = 0
      <3> SUFFICES ASSUME NEW s \in 1..MaxKeptSessions, s > session PROVE fetches'[s] = 0
        BY <1>1
      <3>1. s # session
        BY <1>2
      <3> QED BY <3>1, <1>8 DEF Cache!IInv, Cache!DepthKept
    <2>2. kind = "depth" => calls[c].saw = session
      BY <1>1 DEF Cache!IInv, Cache!DepthKept
    <2>3. \A d \in Caller : calls'[d].at # "asking"
      BY <1>3, <1>4, <1>5, <1>7
    <2> QED BY <1>1, <1>6, <2>1, <2>2, <2>3 DEF Cache!DepthKept
  <1> QED BY <1>9, <1>10, <1>11, <1>12, <1>13, <1>14, <1>15 DEF Cache!IInv

\* The metadata is fetched once more.
LEMMA CacheMissingKeeps ==
    ASSUME Cache!IInv, NEW c \in Caller, Cache!EventsMissing(c)
    PROVE  Cache!IInv'
  <1> USE CacheConstants
  <1>1. /\ calls[c].at = "ready" /\ session \notin requested /\ kind = "events"
        /\ UNCHANGED <<kind, session, up, lock, requested, fetches>>
    BY DEF Cache!EventsMissing, Cache!IInv, Cache!Locked
  <1>2. /\ calls[c] \in Cache!Call /\ session \in 0..MaxKeptSessions /\ session \in Nat
        /\ calls[c].began \in Nat /\ calls[c].saw \in Nat
    BY CacheNumbers DEF Cache!Call
  <1>3. /\ calls[c].began <= calls[c].saw /\ calls[c].saw <= session
        /\ calls[c].saw # session
    BY <1>1 DEF Cache!IInv, Cache!Locked, Cache!SlotFits
  <1>4. CASE calls[c].retried
    <2>1. calls' = [calls EXCEPT ![c].at = "refused"] /\ slot' = slot
      BY <1>4 DEF Cache!EventsMissing
    <2>2. calls[c].saw < session
      BY <1>2, <1>3
    <2> QED BY <1>1, <1>4, <2>1, <2>2, CacheEndKeeps
  <1>5. CASE ~calls[c].retried
    <2> DEFINE call == [calls[c] EXCEPT !.at = "queued", !.saw = session, !.retried = TRUE]
               gone == [slot EXCEPT !.label = 0]
    <2>1. calls' = [calls EXCEPT ![c] = call] /\ slot' = gone
      BY <1>5 DEF Cache!EventsMissing
    <2>2. /\ call \in Cache!Call /\ call.at = "queued" /\ call.got = calls[c].got
          /\ call.began = calls[c].began /\ call.saw = session
      BY <1>2 DEF Cache!Call
    <2>3. /\ gone \in [label : 0..MaxKeptSessions, from : 0..MaxKeptSessions]
          /\ gone.label = 0 /\ gone.from = slot.from
      <3>1. slot \in [label : 0..MaxKeptSessions, from : 0..MaxKeptSessions]
        BY CacheNumbers
      <3> QED BY <3>1
    <2> HIDE DEF call, gone
    <2>4. /\ calls' \in [Caller -> Cache!Call] /\ calls'[c] = call
          /\ \A d \in Caller \ {c} : calls'[d] = calls[d]
      BY <2>1, <2>2 DEF Cache!IInv, Cache!TypeOK
    <2>5. Cache!TypeOK'
      <3>1. up' \in BOOLEAN
        BY <1>1, Zenon DEF Cache!IInv, Cache!TypeOK
      <3> QED BY <1>1, <2>1, <2>3, <2>4, <3>1 DEF Cache!IInv, Cache!TypeOK
    <2>6. Cache!FreshEnough'
      <3>1. slot'.label <= slot'.from
        BY <2>1, <2>3, CacheNumbers
      <3> QED BY <3>1, <2>2, <2>4 DEF Cache!IInv, Cache!FreshEnough
    <2>7. Cache!DepthOnce' /\ Cache!RefusedAfterChange'
      BY <1>1, <2>2, <2>4 DEF Cache!IInv, Cache!DepthOnce, Cache!RefusedAfterChange
    <2>8. Cache!Locked'
      <3>1. calls'[c].began <= calls'[c].saw /\ calls'[c].saw <= session
        BY <1>2, <1>3, <2>2, <2>4
      <3> QED BY <1>1, <2>2, <2>4, <3>1 DEF Cache!IInv, Cache!Locked
    <2>9. Cache!SlotFits' /\ Cache!DepthKept'
      BY <1>1, <2>1, <2>2, <2>3, <2>4 DEF Cache!IInv, Cache!SlotFits, Cache!DepthKept
    <2> QED BY <2>5, <2>6, <2>7, <2>8, <2>9 DEF Cache!IInv
  <1> QED BY <1>4, <1>5

\* Nothing is kept yet.
LEMMA CacheStarts == ASSUME Cache!Init PROVE Cache!IInv
  <1> USE CacheConstants
  <1>1. /\ up = TRUE /\ session = 1 /\ slot = Cache!Empty /\ lock = None
        /\ calls = [c \in Caller |-> Cache!Call0] /\ requested = {}
        /\ fetches = [s \in 1..MaxKeptSessions |-> 0]
        /\ kind \in {"depth", "catalog", "providers", "events"}
    BY DEF Cache!Init
  <1>2. up \in BOOLEAN
    BY <1>1, Zenon
  <1>3. /\ Cache!Call0 \in Cache!Call /\ Cache!Call0.at = "idle" /\ Cache!Call0.got = 0
        /\ Cache!Call0.began = 0 /\ Cache!Call0.saw = 0
    <2>1. FALSE \in BOOLEAN /\ 0 \in 0..MaxKeptSessions
      OBVIOUS
    <2> QED BY <2>1 DEF Cache!Call0, Cache!Call
  <1>4. /\ Cache!Empty \in [label : 0..MaxKeptSessions, from : 0..MaxKeptSessions]
        /\ Cache!Empty.label = 0 /\ Cache!Empty.from = 0
    BY DEF Cache!Empty
  <1>5. Cache!TypeOK
    BY <1>1, <1>2, <1>3, <1>4 DEF Cache!TypeOK
  <1>6. /\ Cache!FreshEnough /\ Cache!DepthOnce /\ Cache!RefusedAfterChange
        /\ Cache!Locked /\ Cache!SlotFits /\ Cache!DepthKept
    BY <1>1, <1>3, <1>4 DEF Cache!FreshEnough, Cache!DepthOnce, Cache!RefusedAfterChange,
       Cache!Locked, Cache!SlotFits, Cache!DepthKept
  <1> QED BY <1>5, <1>6 DEF Cache!IInv

\* Every step keeps what the argument needs.
LEMMA CacheKeeps ==
    ASSUME Cache!IInv, [Cache!Next]_(Cache!cvars) PROVE Cache!IInv'
  <1> USE CacheConstants
  <1>1. ASSUME NEW c \in Caller, Cache!Fail(c) \/ Cache!Events(c)
        PROVE  Cache!IInv'
    <2>1. CASE Cache!Fail(c)
      <3>1. /\ calls' = [calls EXCEPT ![c].at = "failed"]
            /\ lock' = (IF lock = c THEN None ELSE lock)
            /\ UNCHANGED <<kind, session, up, slot, requested, fetches>>
        BY <2>1 DEF Cache!Fail
      <3> QED BY <3>1, CacheEndKeeps
    <2>2. CASE Cache!Events(c)
      <3>1. /\ calls' = [calls EXCEPT ![c].at = "done"] /\ lock' = lock
            /\ calls[c].at = "ready"
            /\ UNCHANGED <<kind, session, up, slot, requested, fetches>>
        BY <2>2 DEF Cache!Events
      <3> QED BY <3>1, CacheEndKeeps
    <2> QED BY <1>1, <2>1, <2>2
  <1>2. CASE Cache!Drop
    <2>1. /\ up /\ ~up' /\ lock' = None
          /\ calls' = [c \in Caller |-> IF calls[c].at = "asking"
                                        THEN [calls[c] EXCEPT !.at = "failed"] ELSE calls[c]]
          /\ UNCHANGED <<kind, session, slot, requested, fetches>>
      BY <1>2 DEF Cache!Drop
    <2>2. \A c \in Caller :
             /\ calls'[c] \in Cache!Call
             /\ calls'[c].at # "asking"
             /\ calls'[c].at \in {calls[c].at, "failed"}
             /\ calls'[c].began = calls[c].began /\ calls'[c].saw = calls[c].saw
             /\ calls'[c].got = calls[c].got /\ calls'[c].retried = calls[c].retried
      <3> SUFFICES ASSUME NEW c \in Caller
                   PROVE  /\ calls'[c] \in Cache!Call
                          /\ calls'[c].at # "asking"
                          /\ calls'[c].at \in {calls[c].at, "failed"}
                          /\ calls'[c].began = calls[c].began /\ calls'[c].saw = calls[c].saw
                          /\ calls'[c].got = calls[c].got /\ calls'[c].retried = calls[c].retried
        OBVIOUS
      <3>1. calls[c] \in Cache!Call
        BY CacheNumbers
      <3> QED BY <2>1, <3>1 DEF Cache!Call
    <2>3. calls' \in [Caller -> Cache!Call]
      BY <2>1, <2>2
    <2>4. up' \in BOOLEAN
      BY <1>2, Zenon DEF Cache!Drop
    <2>5. Cache!TypeOK'
      BY <2>1, <2>3, <2>4 DEF Cache!IInv, Cache!TypeOK
    <2>6. Cache!FreshEnough' /\ Cache!DepthOnce' /\ Cache!RefusedAfterChange'
      BY <2>1, <2>2 DEF Cache!IInv, Cache!FreshEnough, Cache!DepthOnce, Cache!RefusedAfterChange
    <2>7. Cache!Locked' /\ Cache!SlotFits' /\ Cache!DepthKept'
      BY <2>1, <2>2 DEF Cache!IInv, Cache!Locked, Cache!SlotFits, Cache!DepthKept
    <2> QED BY <2>5, <2>6, <2>7 DEF Cache!IInv
  <1>3. CASE Cache!Connect
    <2>1. /\ ~up /\ session < MaxKeptSessions /\ session' = session + 1
          /\ UNCHANGED <<kind, slot, lock, calls, requested, fetches>>
      BY <1>3 DEF Cache!Connect
    <2>2. up' \in BOOLEAN
      BY <1>3, Zenon DEF Cache!Connect
    <2>3. session \in Nat /\ session' \in 1..MaxKeptSessions /\ session < session'
      BY <2>1, CacheNumbers
    <2>4. Cache!TypeOK'
      BY <2>1, <2>2, <2>3 DEF Cache!IInv, Cache!TypeOK
    <2>5. \A c \in Caller : calls[c].at # "asking" /\ calls[c].began <= calls[c].saw
                            /\ calls[c].saw < session'
      <3> SUFFICES ASSUME NEW c \in Caller
                   PROVE  calls[c].at # "asking" /\ calls[c].began <= calls[c].saw
                          /\ calls[c].saw < session'
        OBVIOUS
      <3>1. calls[c].at # "asking" /\ calls[c].began <= calls[c].saw /\ calls[c].saw <= session
        BY <2>1 DEF Cache!IInv, Cache!Locked
      <3>2. calls[c].saw \in Nat
        BY CacheNumbers
      <3> QED BY <3>1, <3>2, <2>3
    <2>6. fetches[session'] = 0
      BY <2>3 DEF Cache!IInv, Cache!DepthKept
    <2>7. Cache!FreshEnough' /\ Cache!DepthOnce'
      BY <2>1 DEF Cache!IInv, Cache!FreshEnough, Cache!DepthOnce
    <2>8. Cache!RefusedAfterChange'
      BY <2>1, <2>5 DEF Cache!IInv, Cache!RefusedAfterChange
    <2>9. Cache!Locked'
      <3>1. \A c \in Caller : calls[c].saw <= session'
        <4> SUFFICES ASSUME NEW c \in Caller PROVE calls[c].saw <= session'
          OBVIOUS
        <4> QED BY <2>3, <2>5, CacheNumbers
      <3> QED BY <2>1, <2>5, <3>1 DEF Cache!IInv, Cache!Locked
    <2>10. Cache!SlotFits'
      <3>1. slot.from <= session'
        BY <2>3, CacheNumbers
      <3>2. \A c \in Caller : calls[c].saw # session'
        <4> SUFFICES ASSUME NEW c \in Caller PROVE calls[c].saw # session'
          OBVIOUS
        <4>1. calls[c].saw < session' /\ calls[c].saw \in Nat /\ session' \in Nat
          BY <2>3, <2>5, CacheNumbers
        <4> QED BY ONLY <4>1
      <3> QED BY <2>1, <3>1, <3>2 DEF Cache!IInv, Cache!SlotFits
    <2>11. Cache!DepthKept'
      <3>1. \A s \in 1..MaxKeptSessions : s > session' => fetches[s] = 0
        <4> SUFFICES ASSUME NEW s \in 1..MaxKeptSessions, s > session' PROVE fetches[s] = 0
          OBVIOUS
        <4>1. s > session
          BY <2>3
        <4> QED BY <4>1 DEF Cache!IInv, Cache!DepthKept
      <3> QED BY <2>1, <2>5, <2>6, <3>1 DEF Cache!DepthKept
    <2> QED BY <2>4, <2>7, <2>8, <2>9, <2>10, <2>11 DEF Cache!IInv
  <1>4. CASE UNCHANGED Cache!cvars
    BY <1>4 DEF Cache!cvars, Cache!IInv, Cache!TypeOK, Cache!FreshEnough, Cache!DepthOnce,
       Cache!RefusedAfterChange, Cache!Locked, Cache!SlotFits, Cache!DepthKept
  <1>5. CASE Cache!Next
    BY <1>5, <1>1, <1>2, <1>3, CacheAskKeeps, CacheLookKeeps, CacheAnswerKeeps,
       CacheMissingKeeps DEF Cache!Next
  <1> QED BY <1>4, <1>5

\* No call gets what was answered before it began, the exchanges are fetched once a
\* session whoever asks, and a request for events is refused for want of metadata only when
\* the session changed twice under it (MarketDataService, FundamentalsService).
THEOREM KeptIsFresh == Cache!Spec => []Cache!IInv
  <1>1. Cache!Init => Cache!IInv
    BY CacheStarts
  <1>2. Cache!IInv /\ [Cache!Next]_(Cache!cvars) => Cache!IInv'
    BY CacheKeeps
  <1> QED BY <1>1, <1>2, PTL DEF Cache!Spec

-----------------------------------------------------------------------------
(* Portfolios, one account streamed at a time (AccountUpdates) *)

\* What the assumption says of numbers and names.
LEMMA UpdatesConstants ==
    /\ MaxSends \in Nat \ {0} /\ MaxSessions \in Nat \ {0}
    /\ Home \in Account \cup {None} /\ None \notin Account /\ None \notin Caller
  BY SessionPartsAssumption DEF Updates!UpdatesAssumption

\* A reading goes on.
LEMMA UpdatesCall ==
    ASSUME Updates!IInv, NEW c \in Caller, NEW call \in Updates!Call,
           calls' = [calls EXCEPT ![c] = call]
    PROVE  /\ calls' \in [Caller -> Updates!Call] /\ calls'[c] = call
           /\ \A d \in Caller \ {c} : calls'[d] = calls[d]
  BY DEF Updates!IInv, Updates!TypeOK

\* Goes only moves a reading.
LEMMA UpdatesGoes ==
    ASSUME Updates!IInv, NEW c \in Caller,
           NEW at \in {"idle", "queued", "switching", "switched", "back", "done", "failed"},
           Updates!Goes(c, at)
    PROVE  /\ calls' \in [Caller -> Updates!Call] /\ calls'[c].at = at
           /\ calls'[c].account = calls[c].account /\ calls'[c].got = calls[c].got
           /\ calls'[c].spoilt = calls[c].spoilt
           /\ \A d \in Caller \ {c} : calls'[d] = calls[d]
  <1> DEFINE call == [calls[c] EXCEPT !.at = at]
  <1>1. calls[c] \in Updates!Call
    BY DEF Updates!IInv, Updates!TypeOK
  <1>2. /\ call \in Updates!Call /\ call.at = at /\ call.account = calls[c].account
        /\ call.got = calls[c].got /\ call.spoilt = calls[c].spoilt
    BY <1>1 DEF Updates!Call
  <1>3. calls' = [calls EXCEPT ![c] = call]
    BY DEF Updates!Goes
  <1> HIDE DEF call
  <1> QED BY <1>2, <1>3, UpdatesCall

\* A reading that waits its turn, or has ended, uses the stream neither before nor after,
\* and what the stream is taken to be does not change.
LEMMA UpdatesAsideKeeps ==
    ASSUME Updates!IInv, NEW c \in Caller, NEW call \in Updates!Call,
           calls' = [calls EXCEPT ![c] = call],
           calls[c].at \notin {"switching", "switched", "back"},
           call.at \notin {"switching", "switched", "back"},
           call.at = "queued" => call.account # None,
           call.at = "done" => call.got = "cache",
           known' \in Account \cup {None}, knownIn' \in 0..session,
           (known' = known /\ knownIn' = knownIn) \/
              (lock = None /\ (up => known' = Updates!Streaming /\ knownIn' = session)),
           UNCHANGED <<session, up, lock, asked, ended, target, sends, late>>
    PROVE  Updates!IInv'
  <1> USE UpdatesConstants
  <1>1. /\ calls' \in [Caller -> Updates!Call] /\ calls'[c] = call
        /\ \A d \in Caller \ {c} : calls'[d] = calls[d]
    BY UpdatesCall
  <1>2. Updates!TypeOK'
    <2>1. up' \in BOOLEAN /\ late' \in BOOLEAN
      BY Zenon DEF Updates!IInv, Updates!TypeOK
    <2> QED BY <1>1, <2>1 DEF Updates!IInv, Updates!TypeOK
  <1>3. Updates!CacheIsStreamed'
    <2> SUFFICES ASSUME up, Updates!Streaming' # None PROVE target = Updates!Streaming'
      BY DEF Updates!CacheIsStreamed
    <2>1. Updates!Streaming' = Updates!Streaming
      BY DEF Updates!Streaming, Updates!Now
    <2> QED BY <2>1 DEF Updates!IInv, Updates!CacheIsStreamed
  <1>4. Updates!ItemsAreOwn'
    BY <1>1 DEF Updates!IInv, Updates!ItemsAreOwn
  <1>5. Updates!LockHeld'
    BY <1>1 DEF Updates!IInv, Updates!LockHeld
  <1>6. Updates!TargetFits'
    BY <1>1 DEF Updates!IInv, Updates!TargetFits, Updates!LockHeld
  <1>7. Updates!LineFits'
    <2>1. lock # None => lock \in Caller \ {c}
      BY DEF Updates!IInv, Updates!TypeOK, Updates!LockHeld
    <2>2. lock # None => calls'[lock] = calls[lock]
      BY <1>1, <2>1
    <2> QED BY <2>2 DEF Updates!IInv, Updates!LineFits
  <1>8. Updates!GotFits'
    BY <1>1 DEF Updates!IInv, Updates!GotFits
  <1> QED BY <1>2, <1>3, <1>4, <1>5, <1>6, <1>7, <1>8 DEF Updates!IInv

\* A reading is asked for, or is answered without a switch.
LEMMA UpdatesReadKeeps ==
    ASSUME Updates!IInv, NEW c \in Caller,
           \/ \E account \in Account : Updates!Read(c, account)
           \/ Updates!FromCache(c) \/ Updates!NotUp(c)
    PROVE  Updates!IInv'
  <1> USE UpdatesConstants
  <1>0. /\ calls[c] \in Updates!Call /\ session \in 1..MaxSessions
        /\ known \in Account \cup {None} /\ knownIn \in 0..session
    BY DEF Updates!IInv, Updates!TypeOK
  <1>1. CASE \E account \in Account : Updates!Read(c, account)
    <2>1. PICK account \in Account : Updates!Read(c, account)
      BY <1>1
    <2> DEFINE zero == Updates!Call0
               call == [zero EXCEPT !.at = "queued", !.account = account]
    <2>2. /\ calls[c].at \in {"idle", "done", "failed"} /\ calls' = [calls EXCEPT ![c] = call]
          /\ UNCHANGED <<session, up, known, knownIn, lock, asked, ended, target, sends, late>>
      BY <2>1 DEF Updates!Read, Updates!client, Updates!line
    <2>3. zero \in Updates!Call
      <3>1. FALSE \in BOOLEAN
        OBVIOUS
      <3> QED BY <3>1, Zenon DEF Updates!Call0, Updates!Call
    <2> HIDE DEF zero
    <2>4. call \in Updates!Call /\ call.at = "queued" /\ call.account = account
      BY <2>3 DEF Updates!Call
    <2> HIDE DEF call
    <2> QED BY <1>0, <2>2, <2>4, UpdatesAsideKeeps
  <1>2. CASE Updates!FromCache(c)
    <2> DEFINE call == [calls[c] EXCEPT !.at = "done", !.got = "cache"]
    <2>1. /\ calls[c].at = "queued" /\ lock = None /\ calls' = [calls EXCEPT ![c] = call]
          /\ known' = Updates!Streaming /\ knownIn' = Updates!Now
          /\ UNCHANGED <<session, up, lock, asked, ended, target, sends, late>>
      BY <1>2 DEF Updates!FromCache, Updates!line
    <2>2. call \in Updates!Call /\ call.at = "done" /\ call.got = "cache"
      BY <1>0 DEF Updates!Call
    <2> HIDE DEF call
    <2>3. Updates!Streaming \in Account \cup {None} /\ Updates!Now \in 0..session
          /\ (up => Updates!Now = session)
      BY <1>0 DEF Updates!Streaming, Updates!Now
    <2> QED BY <2>1, <2>2, <2>3, UpdatesAsideKeeps
  <1>3. CASE Updates!NotUp(c)
    <2> DEFINE call == [calls[c] EXCEPT !.at = "failed"]
    <2>1. /\ calls[c].at = "queued" /\ lock = None /\ ~up /\ calls' = [calls EXCEPT ![c] = call]
          /\ known' = None /\ knownIn' = Updates!Now
          /\ UNCHANGED <<session, up, lock, asked, ended, target, sends, late>>
      BY <1>3 DEF Updates!NotUp, Updates!line, Updates!Goes
    <2>2. call \in Updates!Call /\ call.at = "failed"
      BY <1>0 DEF Updates!Call
    <2> HIDE DEF call
    <2>3. Updates!Now \in 0..session
      BY <1>0 DEF Updates!Now
    <2> QED BY <2>1, <2>2, <2>3, UpdatesAsideKeeps
  <1> QED BY <1>1, <1>2, <1>3

\* The line is empty while nobody waits, unless a download was given up.
LEMMA UpdatesLine ==
    ASSUME Updates!IInv
    PROVE  /\ asked \in Seq(Account) /\ ended \in Seq(Account)
           /\ Len(asked) \in Nat /\ Len(ended) \in Nat
           /\ ~late /\ ~(lock # None /\ calls[lock].at \in {"switching", "back"}) =>
                 asked = <<>> /\ ended = <<>>
  <1>1. asked \in Seq(Account) /\ ended \in Seq(Account)
    BY DEF Updates!IInv, Updates!TypeOK
  <1>2. ~late /\ ~(lock # None /\ calls[lock].at \in {"switching", "back"}) =>
           asked = <<>> /\ ended = <<>>
    BY DEF Updates!IInv, Updates!LineFits
  <1> QED BY <1>1, <1>2, LenProperties

\* The reading with the lock tells IBKR what to stream, and waits for it.
LEMMA UpdatesSendKeeps ==
    ASSUME Updates!IInv, NEW c \in Caller, NEW account \in Account, NEW call \in Updates!Call,
           calls' = [calls EXCEPT ![c] = call], call.at \in {"switching", "back"},
           up, sends < MaxSends, lock \in {None, c}, lock' = c,
           lock = c => calls[c].at = "switched",
           call.at = "switching" => call.account = account /\ call.spoilt = late,
           call.at = "back" => account = Home /\ (~call.spoilt => call.got = call.account),
           Updates!Send(account), UNCHANGED <<session, up>>
    PROVE  Updates!IInv'
  <1> USE UpdatesConstants
  <1>1. /\ calls' \in [Caller -> Updates!Call] /\ calls'[c] = call
        /\ \A d \in Caller \ {c} : calls'[d] = calls[d]
    BY UpdatesCall
  <1>2. /\ asked' = Append(asked, account) /\ target' = account /\ sends' = sends + 1
        /\ known' = None /\ knownIn' = session /\ UNCHANGED <<ended, late>>
    BY DEF Updates!Send, Updates!Now
  <1>3. \A d \in Caller \ {c} : calls[d].at \notin {"switching", "switched", "back"}
    BY DEF Updates!IInv, Updates!LockHeld
  <1>4. Updates!TypeOK'
    <2>1. up' \in BOOLEAN /\ late' \in BOOLEAN
      BY <1>2, Zenon DEF Updates!IInv, Updates!TypeOK
    <2>2. asked' \in Seq(Account)
      BY <1>2 DEF Updates!IInv, Updates!TypeOK
    <2>3. sends' \in 0..MaxSends
      BY <1>2 DEF Updates!IInv, Updates!TypeOK
    <2> QED BY <1>1, <1>2, <2>1, <2>2, <2>3 DEF Updates!IInv, Updates!TypeOK
  <1>5. Updates!CacheIsStreamed'
    BY <1>2 DEF Updates!CacheIsStreamed, Updates!Streaming, Updates!Now
  <1>6. Updates!ItemsAreOwn' /\ Updates!LockHeld'
    BY <1>1, <1>3 DEF Updates!IInv, Updates!ItemsAreOwn, Updates!LockHeld
  <1>7. Updates!TargetFits'
    BY <1>1, <1>2, <1>3 DEF Updates!IInv, Updates!TargetFits
  <1>8. Updates!LineFits'
    <2> SUFFICES ASSUME ~late
                 PROVE  /\ Len(asked') + Len(ended') <= 1
                        /\ call.at = "switching" =>
                              /\ \A i \in DOMAIN asked' : asked'[i] = call.account
                              /\ \A i \in DOMAIN ended' : ended'[i] = call.account
      BY <1>1, <1>2 DEF Updates!LineFits
    <2>1. asked = <<>> /\ ended = <<>>
      BY UpdatesLine
    <2>2. asked' = <<account>> /\ ended' = <<>>
      BY <2>1, <1>2
    <2> QED BY <2>2
  <1>9. Updates!GotFits'
    BY <1>1, <1>2, <1>3 DEF Updates!IInv, Updates!GotFits
  <1> QED BY <1>4, <1>5, <1>6, <1>7, <1>8, <1>9 DEF Updates!IInv

\* There, and back.
LEMMA UpdatesSwitchKeeps ==
    ASSUME Updates!IInv, NEW c \in Caller, Updates!Switch(c) \/ Updates!SwitchBack(c)
    PROVE  Updates!IInv'
  <1> USE UpdatesConstants
  <1>0. calls[c] \in Updates!Call
    BY DEF Updates!IInv, Updates!TypeOK
  <1>1. CASE Updates!Switch(c)
    <2> DEFINE call == [calls[c] EXCEPT !.at = "switching", !.spoilt = late]
    <2>1. /\ calls[c].at = "queued" /\ lock = None /\ up /\ sends < MaxSends /\ lock' = c
          /\ calls' = [calls EXCEPT ![c] = call]
          /\ Updates!Send(calls[c].account) /\ UNCHANGED <<session, up>>
      BY <1>1 DEF Updates!Switch
    <2>2. calls[c].account \in Account
      BY <1>0, <2>1 DEF Updates!IInv, Updates!TargetFits, Updates!Call
    <2>3. late \in BOOLEAN
      BY Zenon DEF Updates!IInv, Updates!TypeOK
    <2>4. /\ call \in Updates!Call /\ call.at = "switching"
          /\ call.account = calls[c].account
      BY <1>0, <2>3 DEF Updates!Call
    <2>5. call.spoilt = late
      BY <1>0, Zenon DEF Updates!Call
    <2> HIDE DEF call
    <2>6. /\ call.at \in {"switching", "back"} /\ lock \in {None, c} /\ lock # c
          /\ call.at # "back"
      BY <2>1, <2>4
    <2> QED BY <2>1, <2>2, <2>4, <2>5, <2>6, UpdatesSendKeeps
  <1>2. CASE Updates!SwitchBack(c)
    <2>1. /\ calls[c].at = "switched" /\ Home \in Account /\ up /\ sends < MaxSends
          /\ Updates!Goes(c, "back") /\ Updates!Send(Home) /\ UNCHANGED <<session, up, lock>>
      BY <1>2 DEF Updates!SwitchBack
    <2> DEFINE call == [calls[c] EXCEPT !.at = "back"]
    <2>2. calls' = [calls EXCEPT ![c] = call]
      BY <2>1 DEF Updates!Goes
    <2>3. /\ call \in Updates!Call /\ call.at = "back" /\ call.account = calls[c].account
          /\ call.got = calls[c].got /\ call.spoilt = calls[c].spoilt
      BY <1>0 DEF Updates!Call
    <2> HIDE DEF call
    <2>4. lock = c
      BY <2>1 DEF Updates!IInv, Updates!LockHeld
    <2>5. ~call.spoilt => call.got = call.account
      BY <2>1, <2>3 DEF Updates!IInv, Updates!GotFits
    <2> QED BY <2>1, <2>2, <2>3, <2>4, <2>5, UpdatesSendKeeps
  <1> QED BY <1>1, <1>2

\* The reading with the lock ends.
LEMMA UpdatesLastKeeps ==
    ASSUME Updates!IInv, NEW c \in Caller, NEW at \in {"done", "failed"}, Updates!Goes(c, at),
           calls[c].at \in {"switching", "switched", "back"},
           calls[c].at = "switching" => at = "failed",
           lock' = None, known' \in Account \cup {None}, Updates!CacheIsStreamed',
           late' \in BOOLEAN, ~late' => asked' = <<>> /\ ended' = <<>>,
           asked' \in Seq(Account), ended' \in Seq(Account),
           UNCHANGED <<session, up, knownIn, target, sends>>
    PROVE  Updates!IInv'
  <1> USE UpdatesConstants
  <1>1. /\ calls' \in [Caller -> Updates!Call] /\ calls'[c].at = at
        /\ calls'[c].account = calls[c].account /\ calls'[c].got = calls[c].got
        /\ calls'[c].spoilt = calls[c].spoilt
        /\ \A d \in Caller \ {c} : calls'[d] = calls[d]
    BY UpdatesGoes
  <1>2. \A d \in Caller \ {c} : calls[d].at \notin {"switching", "switched", "back"}
    BY DEF Updates!IInv, Updates!LockHeld
  <1>3. Updates!TypeOK'
    <2>1. up' \in BOOLEAN
      BY Zenon DEF Updates!IInv, Updates!TypeOK
    <2> QED BY <1>1, <2>1 DEF Updates!IInv, Updates!TypeOK
  <1>4. Updates!ItemsAreOwn'
    BY <1>1 DEF Updates!IInv, Updates!ItemsAreOwn, Updates!GotFits
  <1>5. Updates!LockHeld' /\ Updates!TargetFits' /\ Updates!GotFits'
    BY <1>1, <1>2 DEF Updates!IInv, Updates!LockHeld, Updates!TargetFits, Updates!GotFits
  <1>6. Updates!LineFits'
    <2>1. Len(<<>>) + Len(<<>>) <= 1
      OBVIOUS
    <2> QED BY <2>1 DEF Updates!LineFits
  <1> QED BY <1>3, <1>4, <1>5, <1>6 DEF Updates!IInv

\* The stream stays where it is, cannot go back, or is given up.
LEMMA UpdatesLeaveKeeps ==
    ASSUME Updates!IInv, NEW c \in Caller,
           Updates!Stays(c) \/ Updates!CannotSwitchBack(c) \/ Updates!GiveUp(c)
    PROVE  Updates!IInv'
  <1> USE UpdatesConstants
  <1>0. /\ calls[c] \in Updates!Call /\ asked \in Seq(Account) /\ ended \in Seq(Account)
        /\ known \in Account \cup {None}
    BY DEF Updates!IInv, Updates!TypeOK
  <1>a. late \in BOOLEAN
    BY Zenon DEF Updates!IInv, Updates!TypeOK
  <1>b. ASSUME calls[c].at = "switched" PROVE ~late => asked = <<>> /\ ended = <<>>
    BY <1>b, UpdatesLine DEF Updates!IInv, Updates!LockHeld
  <1>1. CASE Updates!Stays(c)
    <2>1. /\ calls[c].at = "switched" /\ known' = calls[c].account
          /\ Updates!Goes(c, "done") /\ lock' = None
          /\ UNCHANGED <<session, up, knownIn, asked, ended, target, sends, late>>
      BY <1>1 DEF Updates!Stays, Updates!line
    <2>2. Updates!CacheIsStreamed'
      <3> SUFFICES ASSUME up, Updates!Streaming' # None PROVE target = Updates!Streaming'
        BY <2>1 DEF Updates!CacheIsStreamed
      <3>1. CASE knownIn = session
        BY <3>1, <2>1 DEF Updates!Streaming, Updates!Now, Updates!IInv, Updates!TargetFits
      <3>2. CASE knownIn # session
        BY <3>2, <2>1 DEF Updates!Streaming, Updates!Now, Updates!IInv, Updates!CacheIsStreamed
      <3> QED BY <3>1, <3>2
    <2>3. known' \in Account \cup {None}
      BY <1>0, <2>1 DEF Updates!Call
    <2>4. late' \in BOOLEAN
      BY <1>a, <2>1, Zenon
    <2> QED BY <1>0, <1>b, <2>1, <2>2, <2>3, <2>4, UpdatesLastKeeps
  <1>2. CASE Updates!CannotSwitchBack(c)
    <2>1. /\ calls[c].at = "switched" /\ ~up /\ known' = None
          /\ Updates!Goes(c, "done") /\ lock' = None
          /\ UNCHANGED <<session, up, knownIn, asked, ended, target, sends, late>>
      BY <1>2 DEF Updates!CannotSwitchBack, Updates!line
    <2>2. Updates!CacheIsStreamed'
      BY <2>1 DEF Updates!CacheIsStreamed
    <2>4. late' \in BOOLEAN
      BY <1>a, <2>1, Zenon
    <2> QED BY <1>0, <1>b, <2>1, <2>2, <2>4, UpdatesLastKeeps
  <1>3. CASE Updates!GiveUp(c)
    <2>1. /\ \/ calls[c].at = "switching" /\ Updates!Goes(c, "failed")
             \/ calls[c].at = "back" /\ Updates!Goes(c, "done")
          /\ lock' = None /\ late' = TRUE
          /\ UNCHANGED <<session, up, known, knownIn, asked, ended, target, sends>>
      BY <1>3 DEF Updates!GiveUp, Updates!client
    <2>2. Updates!CacheIsStreamed'
      BY <2>1 DEF Updates!CacheIsStreamed, Updates!Streaming, Updates!Now, Updates!IInv
    <2>3. late' \in BOOLEAN /\ late'
      BY <2>1, Zenon
    <2> QED BY <1>0, <2>1, <2>2, <2>3, UpdatesLastKeeps
  <1> QED BY <1>1, <1>2, <1>3

\* IBKR gets to what it was last asked.
LEMMA UpdatesDownloadKeeps == ASSUME Updates!IInv, Updates!Download PROVE Updates!IInv'
  <1> USE UpdatesConstants
  <1>1. /\ asked # <<>> /\ asked' = Tail(asked) /\ ended' = Append(ended, Head(asked))
        /\ UNCHANGED <<session, up, known, knownIn, calls, lock, target, sends, late>>
    BY DEF Updates!Download, Updates!client
  <1>2. /\ asked \in Seq(Account) /\ ended \in Seq(Account) /\ Len(asked) \in Nat
        /\ Len(ended) \in Nat
    BY UpdatesLine
  <1>3. /\ Len(asked) >= 1 /\ Head(asked) = asked[1] /\ asked[1] \in Account
        /\ asked' \in Seq(Account) /\ Len(asked') = Len(asked) - 1
        /\ ended' \in Seq(Account) /\ Len(ended') = Len(ended) + 1
        /\ \A i \in 1..Len(ended') : ended'[i] = IF i <= Len(ended) THEN ended[i] ELSE asked[1]
    BY <1>1, <1>2
  <1>4. Updates!TypeOK'
    <2>1. up' \in BOOLEAN /\ late' \in BOOLEAN
      BY <1>1, Zenon DEF Updates!IInv, Updates!TypeOK
    <2> QED BY <1>1, <1>3, <2>1 DEF Updates!IInv, Updates!TypeOK
  <1>5. /\ Updates!CacheIsStreamed' /\ Updates!ItemsAreOwn' /\ Updates!LockHeld'
        /\ Updates!TargetFits' /\ Updates!GotFits'
    BY <1>1 DEF Updates!IInv, Updates!CacheIsStreamed, Updates!Streaming, Updates!Now,
       Updates!ItemsAreOwn, Updates!LockHeld, Updates!TargetFits, Updates!GotFits
  <1>6. Updates!LineFits'
    <2> SUFFICES ASSUME ~late
                 PROVE  /\ Len(asked') + Len(ended') <= 1
                        /\ lock # None /\ calls[lock].at \in {"switching", "back"}
                        /\ lock # None /\ calls[lock].at = "switching" =>
                              /\ \A i \in DOMAIN asked' : asked'[i] = calls[lock].account
                              /\ \A i \in DOMAIN ended' : ended'[i] = calls[lock].account
      BY <1>1 DEF Updates!LineFits
    <2>1. /\ Len(asked) + Len(ended) <= 1
          /\ lock # None /\ calls[lock].at \in {"switching", "back"}
      BY <1>1 DEF Updates!IInv, Updates!LineFits
    <2>2. Len(asked') = 0 /\ Len(ended') = 1
      BY <1>2, <1>3, <2>1
    <2>3. ASSUME calls[lock].at = "switching" PROVE asked[1] = calls[lock].account
      <3>1. 1 \in DOMAIN asked
        BY <1>2, <1>3
      <3> QED BY <2>1, <2>3, <3>1 DEF Updates!IInv, Updates!LineFits
    <2>4. /\ \A i \in DOMAIN asked' : FALSE
          /\ \A i \in DOMAIN ended' : ended'[i] = asked[1]
      BY <1>2, <1>3, <2>2
    <2>5. Len(asked') + Len(ended') <= 1
      BY <2>2
    <2> QED BY <2>1, <2>3, <2>4, <2>5
  <1> QED BY <1>4, <1>5, <1>6 DEF Updates!IInv

\* The end of a download ends whichever reading waits.
LEMMA UpdatesEndKeeps == ASSUME Updates!IInv, Updates!End PROVE Updates!IInv'
  <1> USE UpdatesConstants
  <1>1. /\ up /\ ended # <<>> /\ ended' = Tail(ended)
        /\ UNCHANGED <<session, up, knownIn, asked, target, sends, late>>
    BY DEF Updates!End
  <1>2. /\ asked \in Seq(Account) /\ ended \in Seq(Account) /\ Len(asked) \in Nat
        /\ Len(ended) \in Nat
    BY UpdatesLine
  <1>3. /\ Len(ended) >= 1 /\ Head(ended) = ended[1] /\ ended[1] \in Account
        /\ ended' \in Seq(Account) /\ Len(ended') = Len(ended) - 1
    BY <1>1, <1>2
  <1>4. ~late => /\ asked = <<>> /\ ended' = <<>>
                 /\ lock \in Caller /\ calls[lock].at \in {"switching", "back"}
    <2> SUFFICES ASSUME ~late
                 PROVE  /\ asked = <<>> /\ ended' = <<>>
                        /\ lock \in Caller /\ calls[lock].at \in {"switching", "back"}
      OBVIOUS
    <2>1. /\ Len(asked) + Len(ended) <= 1
          /\ lock # None /\ calls[lock].at \in {"switching", "back"}
      BY <1>1 DEF Updates!IInv, Updates!LineFits
    <2>2. Len(asked) = 0 /\ Len(ended') = 0
      BY <1>2, <1>3, <2>1
    <2>3. asked = <<>> /\ ended' = <<>>
      BY <1>2, <1>3, <2>2
    <2>4. lock \in Caller
      BY <2>1 DEF Updates!IInv, Updates!TypeOK
    <2> QED BY <2>1, <2>3, <2>4
  <1> DEFINE waiting == {c \in Caller : calls[c].at \in {"switching", "back"}}
  <1>a. up' \in BOOLEAN /\ late' \in BOOLEAN
    BY <1>1, Zenon DEF Updates!IInv, Updates!TypeOK
  <1>5. CASE waiting = {}
    <2>1. UNCHANGED <<calls, known, lock>>
      BY <1>5 DEF Updates!End
    <2>2. late
      BY <1>4, <1>5
    <2>3. Updates!TypeOK'
      BY <1>1, <1>3, <1>a, <2>1 DEF Updates!IInv, Updates!TypeOK
    <2>4. /\ Updates!CacheIsStreamed' /\ Updates!ItemsAreOwn' /\ Updates!LockHeld'
          /\ Updates!TargetFits' /\ Updates!GotFits' /\ Updates!LineFits'
      BY <1>1, <2>1, <2>2 DEF Updates!IInv, Updates!CacheIsStreamed, Updates!Streaming,
         Updates!Now, Updates!ItemsAreOwn, Updates!LockHeld, Updates!TargetFits,
         Updates!GotFits, Updates!LineFits
    <2> QED BY <2>3, <2>4 DEF Updates!IInv
  <1>6. CASE waiting # {}
    <2>1. PICK c \in Caller :
             /\ calls[c].at \in {"switching", "back"}
             /\ IF calls[c].at = "switching"
                THEN /\ calls' = [calls EXCEPT ![c].at = "switched", ![c].got = Head(ended)]
                     /\ UNCHANGED <<known, lock>>
                ELSE Updates!Goes(c, "done") /\ known' = Home /\ lock' = None
      BY <1>6 DEF Updates!End
    <2>2. lock = c /\ calls[c] \in Updates!Call
      BY <2>1 DEF Updates!IInv, Updates!LockHeld, Updates!TypeOK
    <2>3. CASE calls[c].at = "switching"
      <3> DEFINE call == [calls[c] EXCEPT !.at = "switched", !.got = Head(ended)]
      <3>1. calls' = [calls EXCEPT ![c] = call] /\ UNCHANGED <<known, lock>>
        BY <2>1, <2>3
      <3>2. /\ call \in Updates!Call /\ call.at = "switched" /\ call.got = ended[1]
            /\ call.account = calls[c].account
        BY <1>3, <2>2 DEF Updates!Call
      <3>b. call.spoilt = calls[c].spoilt
        BY <2>2 DEF Updates!Call
      <3> HIDE DEF call
      <3>3. /\ calls' \in [Caller -> Updates!Call] /\ calls'[c] = call
            /\ \A d \in Caller \ {c} : calls'[d] = calls[d]
        BY <3>1, <3>2, UpdatesCall
      <3>4. ~call.spoilt => call.got = call.account
        <4> SUFFICES ASSUME ~calls[c].spoilt PROVE ended[1] = calls[c].account
          BY <3>2, <3>b
        <4>1. ~late
          BY <2>3 DEF Updates!IInv, Updates!GotFits
        <4>2. 1 \in DOMAIN ended
          BY <1>2, <1>3
        <4> QED BY <2>2, <2>3, <4>1, <4>2 DEF Updates!IInv, Updates!LineFits
      <3>5. Updates!TypeOK'
        BY <1>1, <1>3, <1>a, <3>1, <3>3 DEF Updates!IInv, Updates!TypeOK
      <3>6. Updates!CacheIsStreamed'
        BY <1>1, <3>1 DEF Updates!IInv, Updates!CacheIsStreamed, Updates!Streaming, Updates!Now
      <3>7. Updates!ItemsAreOwn' /\ Updates!LockHeld'
        BY <2>3, <3>1, <3>2, <3>3 DEF Updates!IInv, Updates!ItemsAreOwn, Updates!LockHeld
      <3>8. Updates!TargetFits'
        BY <1>1, <2>3, <3>1, <3>2, <3>3 DEF Updates!IInv, Updates!TargetFits
      <3>9. Updates!GotFits'
        BY <1>1, <3>2, <3>3, <3>4 DEF Updates!IInv, Updates!GotFits
      <3>10. Updates!LineFits'
        <4>1. late \/ (asked' = <<>> /\ ended' = <<>>)
          BY <1>1, <1>4
        <4>2. lock' = c /\ calls'[c].at # "switching"
          BY <2>2, <3>1, <3>2, <3>3
        <4>3. Len(<<>>) + Len(<<>>) <= 1
          OBVIOUS
        <4> QED BY <1>1, <4>1, <4>2, <4>3 DEF Updates!LineFits
      <3> QED BY <3>5, <3>6, <3>7, <3>8, <3>9, <3>10 DEF Updates!IInv
    <2>4. CASE calls[c].at = "back"
      <3>1. Updates!Goes(c, "done") /\ known' = Home /\ lock' = None
        BY <2>1, <2>4
      <3>2. Updates!CacheIsStreamed'
        BY <1>1, <2>4, <3>1 DEF Updates!CacheIsStreamed, Updates!Streaming, Updates!Now,
           Updates!IInv, Updates!TargetFits
      <3>3. ~late' => asked' = <<>> /\ ended' = <<>>
        BY <1>1, <1>4
      <3> QED BY <1>1, <1>2, <1>3, <1>a, <2>4, <3>1, <3>2, <3>3, UpdatesLastKeeps
    <2> QED BY <2>1, <2>3, <2>4
  <1> QED BY <1>5, <1>6

\* The session is lost: what waited ends, what has its items goes on.
LEMMA UpdatesDropKeeps == ASSUME Updates!IInv, Updates!Drop PROVE Updates!IInv'
  <1> USE UpdatesConstants
  <1>1. /\ up' = FALSE /\ asked' = <<>> /\ ended' = <<>> /\ late' = FALSE
        /\ calls' = [c \in Caller |->
                       IF calls[c].at = "switching" THEN [calls[c] EXCEPT !.at = "failed"]
                       ELSE IF calls[c].at = "back" THEN [calls[c] EXCEPT !.at = "done"]
                       ELSE calls[c]]
        /\ lock' = IF lock # None /\ calls[lock].at = "switched" THEN lock ELSE None
        /\ UNCHANGED <<session, known, knownIn, target, sends>>
    BY DEF Updates!Drop, Updates!client
  <1>2. \A c \in Caller :
           /\ calls'[c] \in Updates!Call
           /\ calls'[c].at = IF calls[c].at = "switching" THEN "failed"
                             ELSE IF calls[c].at = "back" THEN "done" ELSE calls[c].at
           /\ calls'[c].account = calls[c].account /\ calls'[c].got = calls[c].got
           /\ calls'[c].spoilt = calls[c].spoilt
    <2> SUFFICES ASSUME NEW c \in Caller
                 PROVE  /\ calls'[c] \in Updates!Call
                        /\ calls'[c].at = IF calls[c].at = "switching" THEN "failed"
                                          ELSE IF calls[c].at = "back" THEN "done" ELSE calls[c].at
                        /\ calls'[c].account = calls[c].account /\ calls'[c].got = calls[c].got
                        /\ calls'[c].spoilt = calls[c].spoilt
      OBVIOUS
    <2>1. calls[c] \in Updates!Call
      BY DEF Updates!IInv, Updates!TypeOK
    <2> QED BY <1>1, <2>1 DEF Updates!Call
  <1>3. Updates!TypeOK'
    <2>1. up' \in BOOLEAN /\ late' \in BOOLEAN
      BY <1>1, Zenon
    <2>2. calls' \in [Caller -> Updates!Call]
      BY <1>1, <1>2
    <2>3. asked' \in Seq(Account) /\ ended' \in Seq(Account)
      BY <1>1
    <2>4. lock' \in Caller \cup {None}
      BY <1>1 DEF Updates!IInv, Updates!TypeOK
    <2> QED BY <1>1, <2>1, <2>2, <2>3, <2>4 DEF Updates!IInv, Updates!TypeOK
  <1>4. Updates!CacheIsStreamed' /\ Updates!ItemsAreOwn'
    BY <1>1, <1>2 DEF Updates!IInv, Updates!CacheIsStreamed, Updates!ItemsAreOwn, Updates!GotFits
  <1>5. Updates!LockHeld'
    BY <1>1, <1>2 DEF Updates!IInv, Updates!LockHeld
  <1>6. Updates!TargetFits' /\ Updates!GotFits'
    BY <1>1, <1>2 DEF Updates!IInv, Updates!TargetFits, Updates!GotFits
  <1>7. Updates!LineFits'
    <2>1. Len(<<>>) + Len(<<>>) <= 1
      OBVIOUS
    <2> QED BY <1>1, <2>1 DEF Updates!LineFits
  <1> QED BY <1>3, <1>4, <1>5, <1>6, <1>7 DEF Updates!IInv

\* A session that comes up streams the home account.
LEMMA UpdatesConnectKeeps == ASSUME Updates!IInv, Updates!Connect PROVE Updates!IInv'
  <1> USE UpdatesConstants
  <1>1. /\ ~up /\ session < MaxSessions /\ up' = TRUE /\ session' = session + 1 /\ target' = Home
        /\ UNCHANGED <<known, knownIn, calls, lock, asked, ended, sends, late>>
    BY DEF Updates!Connect, Updates!client
  <1>2. /\ session \in 1..MaxSessions /\ knownIn \in 0..session
        /\ knownIn \in 0..session' /\ knownIn # session' /\ session' \in 1..MaxSessions
    <2>1. session \in 1..MaxSessions /\ knownIn \in 0..session
      BY DEF Updates!IInv, Updates!TypeOK
    <2> QED BY <1>1, <2>1
  <1>3. Updates!TypeOK'
    <2>1. up' \in BOOLEAN /\ late' \in BOOLEAN
      BY <1>1, Zenon DEF Updates!IInv, Updates!TypeOK
    <2> QED BY <1>1, <1>2, <2>1 DEF Updates!IInv, Updates!TypeOK
  <1>4. Updates!CacheIsStreamed'
    BY <1>1, <1>2 DEF Updates!CacheIsStreamed, Updates!Streaming, Updates!Now
  <1>5. /\ Updates!ItemsAreOwn' /\ Updates!LockHeld' /\ Updates!GotFits' /\ Updates!LineFits'
    BY <1>1 DEF Updates!IInv, Updates!ItemsAreOwn, Updates!LockHeld, Updates!GotFits,
       Updates!LineFits
  <1>6. Updates!TargetFits'
    BY <1>1, <1>2 DEF Updates!IInv, Updates!TargetFits
  <1> QED BY <1>3, <1>4, <1>5, <1>6 DEF Updates!IInv

\* The session begins with the home account, and nobody reads.
LEMMA UpdatesStarts == ASSUME Updates!Init PROVE Updates!IInv
  <1> USE UpdatesConstants
  <1>1. /\ session = 1 /\ up = TRUE /\ known = None /\ knownIn = 0 /\ lock = None
        /\ calls = [c \in Caller |-> Updates!Call0]
        /\ asked = <<>> /\ ended = <<>> /\ target = Home /\ sends = 0 /\ late = FALSE
    BY DEF Updates!Init
  <1>2. Updates!Call0 \in Updates!Call
    <2>1. FALSE \in BOOLEAN
      OBVIOUS
    <2> QED BY <2>1, Zenon DEF Updates!Call0, Updates!Call
  <1>3. Updates!Call0.at = "idle"
    BY DEF Updates!Call0
  <1>4. Updates!TypeOK
    <2>1. up \in BOOLEAN /\ late \in BOOLEAN
      BY <1>1, Zenon
    <2> QED BY <1>1, <1>2, <2>1 DEF Updates!TypeOK
  <1>5. Updates!CacheIsStreamed
    BY <1>1 DEF Updates!CacheIsStreamed, Updates!Streaming, Updates!Now
  <1>6. Updates!ItemsAreOwn /\ Updates!LockHeld /\ Updates!TargetFits /\ Updates!GotFits
    BY <1>1, <1>3 DEF Updates!ItemsAreOwn, Updates!LockHeld, Updates!TargetFits, Updates!GotFits
  <1>7. Updates!LineFits
    <2>1. Len(<<>>) + Len(<<>>) <= 1
      OBVIOUS
    <2> QED BY <1>1, <2>1 DEF Updates!LineFits
  <1> QED BY <1>4, <1>5, <1>6, <1>7 DEF Updates!IInv

\* Every step keeps what the argument needs.
LEMMA UpdatesKeeps ==
    ASSUME Updates!IInv, [Updates!Next]_(Updates!uvars) PROVE Updates!IInv'
  <1>1. CASE UNCHANGED Updates!uvars
    BY <1>1 DEF Updates!uvars, Updates!IInv, Updates!TypeOK, Updates!CacheIsStreamed,
       Updates!Streaming, Updates!Now, Updates!ItemsAreOwn, Updates!LockHeld,
       Updates!TargetFits, Updates!LineFits, Updates!GotFits
  <1>2. CASE Updates!Next
    <2>1. ASSUME NEW c \in Caller,
                 \/ \E account \in Account : Updates!Read(c, account)
                 \/ Updates!FromCache(c) \/ Updates!Switch(c) \/ Updates!NotUp(c)
                 \/ Updates!SwitchBack(c) \/ Updates!Stays(c) \/ Updates!CannotSwitchBack(c)
                 \/ Updates!GiveUp(c)
          PROVE  Updates!IInv'
      <3>1. CASE (\E account \in Account : Updates!Read(c, account)) \/ Updates!FromCache(c)
                 \/ Updates!NotUp(c)
        BY <3>1, UpdatesReadKeeps
      <3>2. CASE Updates!Switch(c) \/ Updates!SwitchBack(c)
        BY <3>2, UpdatesSwitchKeeps
      <3>3. CASE Updates!Stays(c) \/ Updates!CannotSwitchBack(c) \/ Updates!GiveUp(c)
        BY <3>3, UpdatesLeaveKeeps
      <3> QED BY <2>1, <3>1, <3>2, <3>3
    <2> QED BY <1>2, <2>1, UpdatesDownloadKeeps, UpdatesEndKeeps, UpdatesDropKeeps,
           UpdatesConnectKeeps DEF Updates!Next
  <1> QED BY <1>1, <1>2

\* A portfolio read from the stream's cache is that of the account IBKR was last told to
\* stream in this session, and a switched reading gets the items of its own account,
\* whatever timed out or dropped in between (_portfolio_items, _streaming_account).
THEOREM PortfoliosAreOwn == Updates!Spec => []Updates!IInv
  <1>1. Updates!Init => Updates!IInv
    BY UpdatesStarts
  <1>2. Updates!IInv /\ [Updates!Next]_(Updates!uvars) => Updates!IInv'
    BY UpdatesKeeps
  <1> QED BY <1>1, <1>2, PTL DEF Updates!Spec

-----------------------------------------------------------------------------
(* The quote stream of one contract (QuoteStreams) *)

\* What the assumption says of numbers and names.
LEMMA QuoteConstants ==
    /\ MaxStreams \in Nat \ {0} /\ MaxRequests \in Nat \ {0} /\ MaxLosses \in Nat
    /\ None \notin Caller
  BY SessionPartsAssumption DEF Quote!QuoteAssumption

\* The instance's sizes of sets are the usual ones: the streams are numbered one by one.
LEMMA QuoteSizes == ASSUME NEW n \in Nat PROVE Quote!Cardinality(1..n) = n
  <1>1. Quote!Cardinality(1..n) = Cardinality(1..n)
    BY DEF Quote!Cardinality, Cardinality
  <1> QED BY <1>1, FS_Interval

\* Streams and calls, and the numbers of the requests.
LEMMA QuoteFacts ==
    ASSUME Quote!IInv
    PROVE  /\ \A s \in DOMAIN streams : streams[s] \in Quote!Stream
           /\ 0 \notin DOMAIN streams
           /\ \A c \in Caller : calls[c] \in Quote!Call
           /\ sent \in Nat /\ filed \in 0..sent /\ 0 \notin DOMAIN live
           /\ openLock \in Caller \cup {None}
  BY QuoteConstants DEF Quote!IInv, Quote!TypeOK

\* No two streams are listened to.
LEMMA QuoteOne ==
    ASSUME Quote!IInv, NEW s \in DOMAIN streams, NEW t \in DOMAIN streams,
           streams[s].listening, streams[t].listening
    PROVE  s = t
  <1>1. Quote!InUse(s) /\ Quote!InUse(t)
    BY DEF Quote!IInv, Quote!Listened
  <1>2. s # 0 /\ t # 0
    BY QuoteFacts
  <1>3. openLock # None /\ calls[openLock].at = "opening" => entry = 0
    BY QuoteFacts DEF Quote!IInv, Quote!OpensAlone
  <1> QED BY <1>1, <1>2, <1>3 DEF Quote!InUse

\* While a stream is open nothing is being opened, and it is the one listened to.
LEMMA QuoteOpen ==
    ASSUME Quote!IInv, entry # 0
    PROVE  /\ entry \in DOMAIN streams /\ streams[entry].listening
           /\ openLock = None /\ \A c \in Caller : calls[c].at # "opening"
  <1>1. entry \in DOMAIN streams
    BY DEF Quote!IInv, Quote!TypeOK
  <1>2. streams[entry].listening
    BY <1>1 DEF Quote!IInv, Quote!Listened, Quote!InUse
  <1>3. \A c \in Caller : calls[c].at # "opening"
    BY DEF Quote!IInv, Quote!OpensAlone
  <1>4. openLock = None
    BY <1>3, QuoteFacts DEF Quote!IInv, Quote!OpensAlone
  <1> QED BY <1>1, <1>2, <1>3, <1>4

\* One stream changes.
LEMMA QuoteStreamSet ==
    ASSUME Quote!IInv, NEW s \in DOMAIN streams, NEW new \in Quote!Stream,
           streams' = [streams EXCEPT ![s] = new]
    PROVE  /\ \E n \in 0..MaxStreams : streams' \in [1..n -> Quote!Stream]
           /\ DOMAIN streams' = DOMAIN streams /\ streams'[s] = new
           /\ \A t \in DOMAIN streams \ {s} : streams'[t] = streams[t]
  <1>1. PICK n \in 0..MaxStreams : streams \in [1..n -> Quote!Stream]
    BY DEF Quote!IInv, Quote!TypeOK
  <1> QED BY <1>1

\* One call changes.
LEMMA QuoteCallSet ==
    ASSUME Quote!IInv, NEW c \in Caller, NEW call \in Quote!Call,
           calls' = [calls EXCEPT ![c] = call]
    PROVE  /\ calls' \in [Caller -> Quote!Call] /\ calls'[c] = call
           /\ \A d \in Caller \ {c} : calls'[d] = calls[d]
  BY DEF Quote!IInv, Quote!TypeOK

\* What the properties say follows from the rest.
QuoteHolds ==
    /\ Quote!TypeOK /\ Quote!Listened /\ Quote!OpensAlone /\ Quote!FiledIsHeld
    /\ Quote!TicksAreStreamed /\ Quote!WidenedAlone /\ Quote!LossIsNoticed

LEMMA QuoteShows == ASSUME QuoteHolds PROVE Quote!IInv
  <1>1. 0 \notin DOMAIN streams /\ 0 \notin DOMAIN live
    BY QuoteConstants DEF QuoteHolds, Quote!TypeOK
  <1>2. Quote!NoneLeftBehind
    BY <1>1 DEF QuoteHolds, Quote!NoneLeftBehind, Quote!FiledIsHeld, Quote!Listened
  <1>3. entry # 0 => entry \in DOMAIN streams /\ streams[entry].listening
    BY DEF QuoteHolds, Quote!TypeOK, Quote!Listened, Quote!InUse
  <1>4. Quote!GrantedIsKept
    BY <1>3 DEF QuoteHolds, Quote!GrantedIsKept, Quote!WidenedAlone, Quote!TicksAreStreamed
  <1>5. Quote!LiveIsStreamed
    BY DEF QuoteHolds, Quote!LiveIsStreamed, Quote!LiveQuote, Quote!LossIsNoticed
  <1> QED BY <1>2, <1>4, <1>5 DEF QuoteHolds, Quote!IInv

\* A call moves, and the streams stay as they are.
LEMMA QuoteCallKeeps ==
    ASSUME Quote!IInv, NEW c \in Caller, NEW call \in Quote!Call,
           calls' = [calls EXCEPT ![c] = call],
           calls[c].at # "opening", call.at \notin {"opening", "widening"},
           call.stream \in {0, calls[c].stream} \/ (call.stream = entry /\ entry # 0),
           call.at \in {"waiting", "done"} => call.stream \in DOMAIN streams,
           call.at = "done" /\ streams[call.stream].listening =>
              call.ticks \subseteq streams[call.stream].ticks,
           call.at = "done" =>
              \/ call.ticks = {}
              \/ \A d \in Caller \ {c} : calls[d].at = "widening" => calls[d].stream # call.stream
              \/ ~streams[call.stream].listening,
           UNCHANGED <<up, entry, stale, streams, openLock, filed, live, refused, sent, pass,
                       losses, replaced>>
    PROVE  Quote!IInv'
  <1> USE QuoteConstants
  <1>1. /\ calls' \in [Caller -> Quote!Call] /\ calls'[c] = call
        /\ \A d \in Caller \ {c} : calls'[d] = calls[d]
    BY QuoteCallSet
  <1>2. Quote!TypeOK'
    <2>1. up' \in BOOLEAN /\ stale' \in BOOLEAN
      BY Zenon DEF Quote!IInv, Quote!TypeOK
    <2> QED BY <1>1, <2>1 DEF Quote!IInv, Quote!TypeOK
  <1>3. openLock # c /\ (openLock # None => calls'[openLock] = calls[openLock])
    BY <1>1, QuoteFacts DEF Quote!IInv, Quote!OpensAlone
  <1>4. \A s \in DOMAIN streams : Quote!InUse(s)' <=> Quote!InUse(s)
    BY <1>3 DEF Quote!InUse
  <1>5. Quote!Listened'
    BY <1>4 DEF Quote!IInv, Quote!Listened
  <1>6. Quote!OpensAlone'
    <2> SUFFICES ASSUME NEW d \in Caller \ {c}, calls[d].at = "opening"
                 PROVE  call.stream # calls[d].stream
      BY <1>1, <1>3 DEF Quote!IInv, Quote!OpensAlone
    <2>1. entry = 0 /\ calls[d].stream \in DOMAIN streams /\ calls[c].stream # calls[d].stream
      BY DEF Quote!IInv, Quote!OpensAlone
    <2> QED BY <2>1, QuoteFacts
  <1>7. Quote!FiledIsHeld' /\ Quote!TicksAreStreamed' /\ Quote!LossIsNoticed'
    BY DEF Quote!IInv, Quote!FiledIsHeld, Quote!TicksAreStreamed, Quote!LossIsNoticed
  <1>8. Quote!WidenedAlone'
    <2>1. call.stream \in {0} \cup DOMAIN streams
      BY QuoteOpen DEF Quote!IInv, Quote!WidenedAlone
    <2>2. call.at \in {"waiting", "done"} => call.stream # 0
      BY QuoteFacts
    <2>3. streams' = streams
      OBVIOUS
    <2> SUFFICES ASSUME NEW d \in Caller
                 PROVE  /\ calls'[d].stream \in {0} \cup DOMAIN streams
                        /\ calls'[d].at \in {"waiting", "widening", "done"} => calls'[d].stream # 0
                        /\ calls'[d].at = "done" /\ streams[calls'[d].stream].listening =>
                              calls'[d].ticks \subseteq streams[calls'[d].stream].ticks
                        /\ calls'[d].at = "widening" =>
                              /\ calls'[d].ticks \subseteq streams[calls'[d].stream].ticks
                              /\ \A e \in Caller \ {d} : calls'[e].stream = calls'[d].stream =>
                                    /\ calls'[e].at # "widening"
                                    /\ (calls'[e].at = "done" /\ streams[calls'[d].stream].listening =>
                                          calls'[e].ticks \subseteq calls'[d].before)
      BY <2>3 DEF Quote!WidenedAlone
    <2>4. CASE d = c
      BY <1>1, <2>1, <2>2, <2>4
    <2>5. CASE d # c
      <3>1. calls'[d] = calls[d]
        BY <1>1, <2>5
      <3>2. \A e \in Caller \ {c, d} : calls'[e] = calls[e]
        BY <1>1
      <3>3. calls[d].at = "widening" /\ call.stream = calls[d].stream =>
               /\ call.at # "widening"
               /\ (call.at = "done" /\ streams[calls[d].stream].listening =>
                     call.ticks \subseteq calls[d].before)
        BY <2>5
      <3> QED BY <1>1, <3>1, <3>2, <3>3 DEF Quote!IInv, Quote!WidenedAlone
    <2> QED BY <2>4, <2>5
  <1>9. QuoteHolds'
    BY <1>2, <1>5, <1>6, <1>7, <1>8 DEF QuoteHolds
  <1>10. (QuoteHolds => Quote!IInv)'
    BY QuoteShows, PTL
  <1> QED BY <1>9, <1>10

\* A call that only moves.
LEMMA QuoteGoes ==
    ASSUME Quote!IInv, NEW c \in Caller, NEW at \in {"done", "failed"}, Quote!Goes(c, at)
    PROVE  \E call \in Quote!Call :
              /\ calls' = [calls EXCEPT ![c] = call] /\ call.at = at
              /\ call.ticks = calls[c].ticks /\ call.stream = calls[c].stream
  <1> DEFINE call == [calls[c] EXCEPT !.at = at]
  <1>1. calls[c] \in Quote!Call
    BY QuoteFacts
  <1>2. /\ call \in Quote!Call /\ call.at = at /\ call.ticks = calls[c].ticks
        /\ call.stream = calls[c].stream
    BY <1>1 DEF Quote!Call
  <1>3. calls' = [calls EXCEPT ![c] = call]
    BY DEF Quote!Goes
  <1> HIDE DEF call
  <1> QED BY <1>2, <1>3

\* What is wanted is asked for, is not to be had, or is there.
LEMMA QuoteCallsKeep ==
    ASSUME Quote!IInv, NEW c \in Caller,
           \/ \E ticks \in SUBSET TickType : Quote!Subscribe(c, ticks)
           \/ Quote!NotOpened(c) \/ Quote!Joins(c) \/ Quote!NothingToWiden(c)
           \/ Quote!Widened(c)
    PROVE  Quote!IInv'
  <1> USE QuoteConstants
  <1>1. CASE \E ticks \in SUBSET TickType : Quote!Subscribe(c, ticks)
    <2>1. PICK ticks \in SUBSET TickType : Quote!Subscribe(c, ticks)
      BY <1>1
    <2> DEFINE zero == Quote!Call0
               call == [zero EXCEPT !.at = "queued", !.ticks = ticks]
    <2>2. /\ calls[c].at = "idle" /\ calls' = [calls EXCEPT ![c] = call]
          /\ UNCHANGED <<up, entry, stale, streams, openLock, filed, live, refused, sent, pass,
                         losses, replaced>>
      BY <2>1 DEF Quote!Subscribe, Quote!reg, Quote!wire
    <2>3. zero \in Quote!Call /\ zero.stream = 0
      BY DEF Quote!Call0, Quote!Call
    <2> HIDE DEF zero
    <2>4. call \in Quote!Call /\ call.at = "queued" /\ call.stream = 0
      BY <2>3 DEF Quote!Call
    <2> HIDE DEF call
    <2> QED BY <2>2, <2>4, QuoteCallKeeps
  <1>2. CASE Quote!NotOpened(c)
    <2>1. /\ calls[c].at = "queued" /\ Quote!Goes(c, "failed")
          /\ UNCHANGED <<up, entry, stale, streams, openLock, filed, live, refused, sent, pass,
                         losses, replaced>>
      BY <1>2 DEF Quote!NotOpened, Quote!reg, Quote!wire
    <2>2. PICK call \in Quote!Call :
             /\ calls' = [calls EXCEPT ![c] = call] /\ call.at = "failed"
             /\ call.stream = calls[c].stream
      BY <2>1, QuoteGoes
    <2> QED BY <2>1, <2>2, QuoteCallKeeps
  <1>3. CASE Quote!Joins(c)
    <2> DEFINE at == IF calls[c].ticks = {} THEN "done" ELSE "waiting"
               call == [calls[c] EXCEPT !.at = at, !.stream = entry]
    <2>1. /\ calls[c].at = "queued" /\ entry # 0
          /\ calls' = [calls EXCEPT ![c] = call]
          /\ UNCHANGED <<up, entry, stale, streams, openLock, filed, live, refused, sent, pass,
                         losses, replaced>>
      BY <1>3 DEF Quote!Joins, Quote!reg, Quote!wire
    <2>2. at \in {"waiting", "done"} /\ (at = "done" => calls[c].ticks = {})
      OBVIOUS
    <2>3. calls[c] \in Quote!Call /\ entry \in 0..MaxStreams /\ entry \in DOMAIN streams
      BY <2>1, QuoteFacts, QuoteOpen DEF Quote!IInv, Quote!TypeOK
    <2> HIDE DEF at
    <2>4. call \in Quote!Call /\ call.at = at /\ call.stream = entry
          /\ call.ticks = calls[c].ticks
      BY <2>2, <2>3 DEF Quote!Call
    <2> HIDE DEF call
    <2> QED BY <2>1, <2>2, <2>3, <2>4, QuoteCallKeeps
  <1>4. CASE Quote!NothingToWiden(c)
    <2>1. /\ calls[c].at = "waiting" /\ Quote!Free(calls[c].stream)
          /\ Quote!HasAll(c) \/ Quote!Closed(calls[c].stream)
          /\ Quote!Goes(c, "done")
          /\ UNCHANGED <<up, entry, stale, streams, openLock, filed, live, refused, sent, pass,
                         losses, replaced>>
      BY <1>4 DEF Quote!NothingToWiden, Quote!reg, Quote!wire
    <2>2. PICK call \in Quote!Call :
             /\ calls' = [calls EXCEPT ![c] = call] /\ call.at = "done"
             /\ call.ticks = calls[c].ticks /\ call.stream = calls[c].stream
      BY <2>1, QuoteGoes
    <2>3. /\ call.stream \in DOMAIN streams
          /\ streams[call.stream].listening => call.ticks \subseteq streams[call.stream].ticks
          /\ \A d \in Caller \ {c} : calls[d].at = "widening" => calls[d].stream # call.stream
      BY <2>1, <2>2 DEF Quote!IInv, Quote!WidenedAlone, Quote!HasAll, Quote!Closed, Quote!Free
    <2> QED BY <2>1, <2>2, <2>3, QuoteCallKeeps
  <1>5. CASE Quote!Widened(c)
    <2>1. /\ calls[c].at = "widening" /\ Quote!Goes(c, "done")
          /\ UNCHANGED <<up, entry, stale, streams, openLock, filed, live, refused, sent, pass,
                         losses, replaced>>
      BY <1>5 DEF Quote!Widened, Quote!reg, Quote!wire
    <2>2. PICK call \in Quote!Call :
             /\ calls' = [calls EXCEPT ![c] = call] /\ call.at = "done"
             /\ call.ticks = calls[c].ticks /\ call.stream = calls[c].stream
      BY <2>1, QuoteGoes
    <2>3. /\ call.stream \in DOMAIN streams
          /\ call.ticks \subseteq streams[call.stream].ticks
          /\ \A d \in Caller \ {c} : calls[d].at = "widening" => calls[d].stream # call.stream
      BY <2>1, <2>2 DEF Quote!IInv, Quote!WidenedAlone
    <2> QED BY <2>1, <2>2, <2>3, QuoteCallKeeps
  <1> QED BY <1>1, <1>2, <1>3, <1>4, <1>5

\* A stream is opened while there is none: IBKR streams nothing then.
LEMMA QuoteOpenKeeps ==
    ASSUME Quote!IInv, NEW c \in Caller, Quote!Open(c)
    PROVE  Quote!IInv'
  <1> USE QuoteConstants
  <1>1. PICK n \in 0..MaxStreams : streams \in [1..n -> Quote!Stream]
    BY DEF Quote!IInv, Quote!TypeOK
  <1>2. Quote!Cardinality(DOMAIN streams) = n
    BY <1>1, QuoteSizes
  <1> DEFINE s == n + 1
             new == [ticks |-> calls[c].ticks, request |-> sent + 1, listening |-> TRUE,
                     failed |-> FALSE, flows |-> FALSE]
             call == [calls[c] EXCEPT !.at = "opening", !.stream = s]
  <1>3. /\ calls[c].at = "queued" /\ openLock = None /\ entry = 0 /\ up /\ n < MaxStreams
        /\ sent < MaxRequests /\ sent' = sent + 1 /\ filed' = sent + 1 /\ refused' = refused
        /\ openLock' = c /\ calls' = [calls EXCEPT ![c] = call]
        /\ UNCHANGED <<up, entry, stale, pass, losses, replaced>>
    BY <1>2 DEF Quote!Open, Quote!Requested
  <1>4. streams' = [i \in 1..n \cup {s} |-> IF i # s THEN streams[i] ELSE new]
    BY <1>1, <1>2 DEF Quote!Open, Quote!Requested
  <1>5. live' = [i \in DOMAIN live \cup {sent + 1} |->
                   IF i = sent + 1 THEN calls[c].ticks ELSE live[i]]
    BY DEF Quote!Open, Quote!Requested
  <1>6. /\ sent \in Nat /\ sent + 1 \in 1..MaxRequests /\ sent + 1 # 0
        /\ DOMAIN live \subseteq 1..sent /\ calls[c] \in Quote!Call
        /\ \A i \in 1..n : streams[i].request <= sent
    BY <1>1, <1>3, QuoteFacts DEF Quote!IInv, Quote!TypeOK
  <1>7. new \in Quote!Stream
    <2>1. TRUE \in BOOLEAN /\ FALSE \in BOOLEAN
      OBVIOUS
    <2>2. calls[c].ticks \in SUBSET TickType
      BY <1>6 DEF Quote!Call
    <2> QED BY <1>6, <2>1, <2>2, Zenon DEF Quote!Stream
  <1>8. /\ new.ticks = calls[c].ticks /\ new.request = sent + 1 /\ new.listening
        /\ ~new.failed
    OBVIOUS
  <1>9. /\ call \in Quote!Call /\ call.at = "opening" /\ call.stream = s
        /\ call.ticks = calls[c].ticks
    <2>1. s \in 0..MaxStreams
      BY <1>3
    <2> HIDE DEF s
    <2> QED BY <1>6, <2>1 DEF Quote!Call
  <1> HIDE DEF new, call
  <1>10. /\ calls' \in [Caller -> Quote!Call] /\ calls'[c] = call
         /\ \A d \in Caller \ {c} : calls'[d] = calls[d]
    BY <1>3, <1>9, QuoteCallSet
  <1>11. /\ streams' \in [1..s -> Quote!Stream] /\ s \in 0..MaxStreams /\ s \notin 1..n
         /\ DOMAIN streams' = 1..n \cup {s} /\ DOMAIN streams = 1..n
         /\ streams'[s] = new /\ \A i \in 1..n : streams'[i] = streams[i]
    BY <1>1, <1>3, <1>4, <1>7
  <1>12. \A i \in 1..n : ~streams[i].listening
    BY <1>3, <1>11, QuoteFacts DEF Quote!IInv, Quote!Listened, Quote!InUse
  <1>13. \A d \in Caller : /\ calls[d].at # "opening"
                           /\ calls[d].at \in {"waiting", "widening", "done"} => calls[d].stream \in 1..n
    BY <1>3, <1>11 DEF Quote!IInv, Quote!OpensAlone, Quote!WidenedAlone
  <1>14. /\ DOMAIN live' = DOMAIN live \cup {sent + 1} /\ live'[sent + 1] = calls[c].ticks
    BY <1>5
  <1>15. filed = 0 /\ DOMAIN live \ replaced = {}
    BY <1>6, <1>11, <1>12 DEF Quote!IInv, Quote!FiledIsHeld
  <1>16. Quote!TypeOK'
    <2>1. up' \in BOOLEAN /\ stale' \in BOOLEAN
      BY <1>3, Zenon DEF Quote!IInv, Quote!TypeOK
    <2>2. /\ entry' \in {0} \cup DOMAIN streams'
          /\ \E k \in 0..MaxStreams : streams' \in [1..k -> Quote!Stream]
      BY <1>3, <1>11
    <2>3. /\ sent' \in 0..MaxRequests /\ filed' \in 0..sent'
          /\ DOMAIN live' \subseteq 1..sent'
      BY <1>3, <1>6, <1>14
    <2>4. refused' \subseteq 1..sent'
      BY <1>3, <1>6 DEF Quote!IInv, Quote!TypeOK
    <2>5. \A i \in DOMAIN streams' : streams'[i].request <= sent'
      <3>1. \A i \in 1..n : streams[i].request \in Nat
        BY <1>1 DEF Quote!Stream
      <3> QED BY <1>3, <1>6, <1>8, <1>11, <3>1
    <2> QED BY <1>3, <1>10, <2>1, <2>2, <2>3, <2>4, <2>5 DEF Quote!IInv, Quote!TypeOK
  <1>17. Quote!Listened'
    <2>1. \A i \in DOMAIN streams' : Quote!InUse(i)' <=> i = s
      BY <1>3, <1>9, <1>10, <1>11, QuoteConstants DEF Quote!InUse
    <2>2. \A i \in DOMAIN streams' : streams'[i].listening <=> i = s
      BY <1>8, <1>11, <1>12
    <2> QED BY <2>1, <2>2 DEF Quote!Listened
  <1>18. Quote!OpensAlone'
    <2>1. \A d \in Caller \ {c} : calls[d].stream # s
      <3> SUFFICES ASSUME NEW d \in Caller \ {c} PROVE calls[d].stream \in 0..n
        BY <1>11
      <3> QED BY <1>11 DEF Quote!IInv, Quote!WidenedAlone
    <2> QED BY <1>3, <1>8, <1>9, <1>10, <1>11, <1>13, <1>14, <2>1 DEF Quote!OpensAlone
  <1>19. Quote!FiledIsHeld' /\ Quote!TicksAreStreamed'
    BY <1>3, <1>8, <1>11, <1>12, <1>14, <1>15 DEF Quote!FiledIsHeld, Quote!TicksAreStreamed
  <1>20. Quote!WidenedAlone'
    BY <1>9, <1>10, <1>11, <1>12, <1>13, SMTT(30) DEF Quote!IInv, Quote!WidenedAlone
  <1>21. Quote!LossIsNoticed'
    BY <1>3 DEF Quote!LossIsNoticed
  <1>22. QuoteHolds'
    BY <1>16, <1>17, <1>18, <1>19, <1>20, <1>21 DEF QuoteHolds
  <1>23. (QuoteHolds => Quote!IInv)'
    BY QuoteShows, PTL
  <1> QED BY <1>22, <1>23

\* The open stream shows data, an error of its own, or neither in time.
LEMMA QuoteOpenedKeeps ==
    ASSUME Quote!IInv, NEW c \in Caller, Quote!Opened(c)
    PROVE  Quote!IInv'
  <1> USE QuoteConstants
  <1> DEFINE s == calls[c].stream
  <1>1. PICK call \in Quote!Call :
           /\ calls' = [calls EXCEPT ![c] = call] /\ call.at = "done"
           /\ call.ticks = calls[c].ticks /\ call.stream = s
    BY QuoteGoes DEF Quote!Opened
  <1>2. /\ calls' \in [Caller -> Quote!Call] /\ calls'[c] = call
        /\ \A d \in Caller \ {c} : calls'[d] = calls[d]
    BY <1>1, QuoteCallSet
  <1>3. /\ calls[c].at = "opening" /\ ~streams[s].failed
        /\ entry' = s /\ stale' = FALSE /\ openLock' = None
        /\ UNCHANGED <<up, streams, filed, live, refused, sent, pass, losses, replaced>>
    BY DEF Quote!Opened, Quote!wire
  <1>4. /\ openLock = c /\ entry = 0 /\ s \in DOMAIN streams
        /\ calls[c].ticks = streams[s].ticks
        /\ \A d \in Caller \ {c} : calls[d].stream # s /\ calls[d].at # "opening"
        /\ up => streams[s].request \in DOMAIN live \cup refused
    BY <1>3 DEF Quote!IInv, Quote!OpensAlone
  <1>5. Quote!TypeOK'
    <2>1. up' \in BOOLEAN /\ stale' \in BOOLEAN
      BY <1>3, Zenon DEF Quote!IInv, Quote!TypeOK
    <2> QED BY <1>2, <1>3, <1>4, <2>1 DEF Quote!IInv, Quote!TypeOK
  <1>6. Quote!Listened'
    <2>1. \A t \in DOMAIN streams : Quote!InUse(t) <=> t = s
      BY <1>3, <1>4, QuoteFacts DEF Quote!InUse
    <2>2. \A t \in DOMAIN streams : Quote!InUse(t)' <=> t = s
      BY <1>3 DEF Quote!InUse
    <2> QED BY <1>3, <2>1, <2>2 DEF Quote!IInv, Quote!Listened
  <1>7. Quote!OpensAlone'
    BY <1>1, <1>2, <1>3, <1>4 DEF Quote!OpensAlone
  <1>8. Quote!FiledIsHeld' /\ Quote!TicksAreStreamed'
    BY <1>3 DEF Quote!IInv, Quote!FiledIsHeld, Quote!TicksAreStreamed
  <1>9. Quote!LossIsNoticed'
    BY <1>3, <1>4 DEF Quote!LossIsNoticed
  <1>10. Quote!WidenedAlone'
    <2>1. s # 0
      BY <1>4, QuoteFacts
    <2> QED BY <1>1, <1>2, <1>3, <1>4, <2>1 DEF Quote!IInv, Quote!WidenedAlone
  <1>11. QuoteHolds'
    BY <1>5, <1>6, <1>7, <1>8, <1>9, <1>10 DEF QuoteHolds
  <1>12. (QuoteHolds => Quote!IInv)'
    BY QuoteShows, PTL
  <1> QED BY <1>11, <1>12

\* A cancelled stream was the one listened to: none is now, and IBKR streams no more than
\* what a pass replaced.
LEMMA QuoteCancelKeeps ==
    ASSUME Quote!IInv, NEW s \in DOMAIN streams, streams[s].listening, Quote!Cancel(s),
           entry' = 0, openLock' = None, stale' \in BOOLEAN, pass' \in {"none", "due", "found"},
           UNCHANGED <<up, losses>>, calls' \in [Caller -> Quote!Call],
           \A d \in Caller : /\ calls'[d].stream = calls[d].stream
                             /\ calls'[d].ticks = calls[d].ticks
                             /\ calls'[d].before = calls[d].before
                             /\ calls'[d].at \in {calls[d].at, "failed"} \ {"opening"}
    PROVE  Quote!IInv'
  <1> USE QuoteConstants
  <1> DEFINE new == [streams[s] EXCEPT !.listening = FALSE]
  <1>1. streams[s] \in Quote!Stream
    BY QuoteFacts
  <1>2. new \in Quote!Stream /\ new.ticks = streams[s].ticks /\ ~new.listening
        /\ new.request = streams[s].request
    BY <1>1 DEF Quote!Stream
  <1>3. streams' = [streams EXCEPT ![s] = new]
    BY DEF Quote!Cancel
  <1> HIDE DEF new
  <1>4. /\ \E n \in 0..MaxStreams : streams' \in [1..n -> Quote!Stream]
        /\ DOMAIN streams' = DOMAIN streams /\ streams'[s] = new
        /\ \A t \in DOMAIN streams \ {s} : streams'[t] = streams[t]
    BY <1>2, <1>3, QuoteStreamSet
  <1>5. \A t \in DOMAIN streams : /\ ~streams'[t].listening
                                  /\ streams'[t].ticks = streams[t].ticks
                                  /\ streams'[t].request = streams[t].request
    BY <1>2, <1>4, QuoteOne
  <1>6. refused' = refused /\ sent' = sent /\ replaced' = replaced /\ filed' \in {0, filed}
    BY DEF Quote!Cancel
  <1>7. DOMAIN live' \subseteq DOMAIN live /\ filed' = 0 /\ DOMAIN live' \ replaced = {}
        /\ (~up => DOMAIN live' = {})
    <2>1. CASE up
      <3>1. filed' = 0 /\ DOMAIN live' = DOMAIN live \ {filed}
        BY <2>1 DEF Quote!Cancel, Quote!Without
      <3> QED BY <2>1, <3>1 DEF Quote!IInv, Quote!FiledIsHeld
    <2>2. CASE ~up
      BY <2>2 DEF Quote!Cancel, Quote!IInv, Quote!FiledIsHeld
    <2> QED BY <2>1, <2>2
  <1>8. Quote!TypeOK'
    <2>1. up' \in BOOLEAN
      BY Zenon DEF Quote!IInv, Quote!TypeOK
    <2>2. \A t \in DOMAIN streams' : streams'[t].request <= sent'
      BY <1>4, <1>5, <1>6 DEF Quote!IInv, Quote!TypeOK
    <2>3. openLock' \in Caller \cup {None} /\ entry' \in {0} \cup DOMAIN streams'
      OBVIOUS
    <2>4. /\ sent' \in 0..MaxRequests /\ filed' \in 0..sent'
          /\ DOMAIN live' \subseteq 1..sent' /\ refused' \subseteq 1..sent'
          /\ losses' \in 0..MaxLosses
      BY <1>6, <1>7 DEF Quote!IInv, Quote!TypeOK
    <2> QED BY <1>4, <2>1, <2>2, <2>3, <2>4 DEF Quote!TypeOK
  <1>9. Quote!Listened'
    <2>1. \A t \in DOMAIN streams' : ~Quote!InUse(t)'
      BY <1>4, QuoteFacts DEF Quote!InUse
    <2> QED BY <1>4, <1>5, <2>1 DEF Quote!Listened
  <1>10. Quote!OpensAlone'
    BY DEF Quote!OpensAlone
  <1>11. Quote!FiledIsHeld' /\ Quote!TicksAreStreamed' /\ Quote!LossIsNoticed'
    BY <1>4, <1>5, <1>6, <1>7 DEF Quote!FiledIsHeld, Quote!TicksAreStreamed, Quote!LossIsNoticed
  <1>12. Quote!WidenedAlone'
    <2> SUFFICES ASSUME NEW d \in Caller
                 PROVE  /\ calls'[d].stream \in {0} \cup DOMAIN streams
                        /\ calls'[d].at \in {"waiting", "widening", "done"} => calls'[d].stream # 0
                        /\ ~(calls'[d].at = "done" /\ streams'[calls'[d].stream].listening)
                        /\ calls'[d].at = "widening" =>
                              /\ calls'[d].ticks \subseteq streams'[calls'[d].stream].ticks
                              /\ \A e \in Caller \ {d} : calls'[e].stream = calls'[d].stream =>
                                    /\ calls'[e].at # "widening"
                                    /\ ~streams'[calls'[d].stream].listening
      BY <1>4 DEF Quote!WidenedAlone
    <2>1. /\ calls[d].stream \in {0} \cup DOMAIN streams
          /\ calls[d].at \in {"waiting", "widening", "done"} => calls[d].stream # 0
          /\ calls[d].at = "widening" =>
                /\ calls[d].ticks \subseteq streams[calls[d].stream].ticks
                /\ \A e \in Caller \ {d} : calls[e].stream = calls[d].stream =>
                      calls[e].at # "widening"
      BY DEF Quote!IInv, Quote!WidenedAlone
    <2>2. calls'[d].at = "widening" => calls[d].at = "widening"
      OBVIOUS
    <2>3. calls'[d].at = "done" => calls[d].at = "done"
      OBVIOUS
    <2>4. calls'[d].at \in {"waiting", "widening", "done"} =>
             calls'[d].stream \in DOMAIN streams /\ ~streams'[calls'[d].stream].listening
      BY <1>5, <2>1
    <2> QED BY <1>5, <2>1, <2>2, <2>3, <2>4
  <1>13. QuoteHolds'
    BY <1>8, <1>9, <1>10, <1>11, <1>12 DEF QuoteHolds
  <1>14. (QuoteHolds => Quote!IInv)'
    BY QuoteShows, PTL
  <1> QED BY <1>13, <1>14

\* The three ways a stream is cancelled.
LEMMA QuoteCancelsKeep ==
    ASSUME Quote!IInv,
           (\E c \in Caller : Quote!OpenRefused(c)) \/ Quote!Unsubscribe \/ Quote!CannotResubscribe
    PROVE  Quote!IInv'
  <1> USE QuoteConstants
  <1>1. ASSUME NEW c \in Caller, Quote!OpenRefused(c) PROVE Quote!IInv'
    <2> DEFINE s == calls[c].stream
    <2>1. /\ calls[c].at = "opening" /\ Quote!Cancel(s) /\ openLock' = None
          /\ Quote!Goes(c, "failed") /\ UNCHANGED <<up, entry, stale, pass, losses>>
      BY <1>1 DEF Quote!OpenRefused
    <2>2. /\ openLock = c /\ entry = 0 /\ s \in DOMAIN streams
          /\ \A d \in Caller \ {c} : calls[d].at # "opening"
      BY <2>1 DEF Quote!IInv, Quote!OpensAlone
    <2>3. streams[s].listening
      BY <2>1, <2>2 DEF Quote!IInv, Quote!Listened, Quote!InUse
    <2>4. stale' \in BOOLEAN
      BY <2>1, Zenon DEF Quote!IInv, Quote!TypeOK
    <2>5. pass' \in {"none", "due", "found"}
      BY <2>1 DEF Quote!IInv, Quote!TypeOK
    <2> DEFINE call == [calls[c] EXCEPT !.at = "failed"]
    <2>6. calls[c] \in Quote!Call /\ calls' = [calls EXCEPT ![c] = call]
      BY <2>1, QuoteFacts DEF Quote!Goes
    <2>7. /\ call \in Quote!Call /\ call.at = "failed" /\ call.ticks = calls[c].ticks
          /\ call.stream = calls[c].stream /\ call.before = calls[c].before
      BY <2>6 DEF Quote!Call
    <2> HIDE DEF call
    <2>8. /\ calls' \in [Caller -> Quote!Call] /\ calls'[c] = call
          /\ \A d \in Caller \ {c} : calls'[d] = calls[d]
      BY <2>6, <2>7, QuoteCallSet
    <2> HIDE DEF s
    <2> QED BY <2>1, <2>2, <2>3, <2>4, <2>5, <2>7, <2>8, QuoteCancelKeeps
  <1>2. CASE Quote!Unsubscribe
    <2>1. /\ entry # 0 /\ entry' = 0 /\ Quote!Cancel(entry)
          /\ UNCHANGED <<up, stale, openLock, calls, pass, losses>>
      BY <1>2 DEF Quote!Unsubscribe
    <2>2. stale' \in BOOLEAN
      BY <2>1, Zenon DEF Quote!IInv, Quote!TypeOK
    <2>3. calls' \in [Caller -> Quote!Call] /\ pass' \in {"none", "due", "found"}
      BY <2>1 DEF Quote!IInv, Quote!TypeOK
    <2> QED BY <2>1, <2>2, <2>3, QuoteOpen, QuoteCancelKeeps
  <1>3. CASE Quote!CannotResubscribe
    <2>1. /\ entry # 0 /\ entry' = 0 /\ Quote!Cancel(entry) /\ stale' = TRUE /\ pass' = "none"
          /\ UNCHANGED <<up, openLock, calls, losses>>
      BY <1>3 DEF Quote!CannotResubscribe
    <2>2. calls' \in [Caller -> Quote!Call]
      BY <2>1 DEF Quote!IInv, Quote!TypeOK
    <2>3. stale' \in BOOLEAN
      BY <2>1, Zenon
    <2> QED BY <2>1, <2>2, <2>3, QuoteOpen, QuoteCancelKeeps
  <1> QED BY <1>1, <1>2, <1>3

\* Data and errors only mark the streams they are for: an error that was to be delivered
\* shows on the stream that is listened to.
LEMMA QuoteMarksKeep ==
    ASSUME Quote!IInv, Quote!Data \/ \E i \in 1..MaxRequests : Quote!Refused(i)
    PROVE  Quote!IInv'
  <1> USE QuoteConstants
  <1>1. /\ UNCHANGED <<up, entry, stale, openLock, calls, filed, live, sent, replaced, pass, losses>>
        /\ refused' \subseteq refused
    BY DEF Quote!Data, Quote!Refused, Quote!reg, Quote!wire
  <1>2. PICK n \in 0..MaxStreams : streams \in [1..n -> Quote!Stream]
    BY DEF Quote!IInv, Quote!TypeOK
  <1>3. /\ streams' \in [1..n -> Quote!Stream]
        /\ \A s \in 1..n : /\ streams'[s].ticks = streams[s].ticks
                           /\ streams'[s].request = streams[s].request
                           /\ streams'[s].listening = streams[s].listening
                           /\ streams[s].failed => streams'[s].failed
                           /\ streams[s].listening /\ streams[s].request \in refused \ refused' =>
                                 streams'[s].failed
    <2>1. CASE Quote!Data
      <3> DEFINE New(s) == IF streams[s].listening THEN [streams[s] EXCEPT !.flows = TRUE]
                           ELSE streams[s]
      <3>1. streams' = [s \in 1..n |-> New(s)] /\ refused' = refused
        BY <1>2, <2>1 DEF Quote!Data, Quote!wire
      <3>2. ASSUME NEW s \in 1..n
            PROVE  /\ New(s) \in Quote!Stream /\ New(s).ticks = streams[s].ticks
                   /\ New(s).request = streams[s].request
                   /\ New(s).listening = streams[s].listening
                   /\ New(s).failed = streams[s].failed
        <4>1. streams[s] \in Quote!Stream
          BY <1>2
        <4> QED BY <4>1 DEF Quote!Stream
      <3> HIDE DEF New
      <3>3. \A s \in 1..n : streams'[s] = New(s)
        BY <3>1
      <3>4. streams' \in [1..n -> Quote!Stream]
        BY <3>1, <3>2
      <3> QED BY <3>1, <3>2, <3>3, <3>4
    <2>2. CASE \E i \in 1..MaxRequests : Quote!Refused(i)
      <3>1. PICK i \in 1..MaxRequests : Quote!Refused(i)
        BY <2>2
      <3> DEFINE New(s) == IF streams[s].listening /\ streams[s].request = i
                           THEN [streams[s] EXCEPT !.failed = TRUE] ELSE streams[s]
      <3>2. streams' = [s \in 1..n |-> New(s)] /\ refused' = refused \ {i}
        BY <1>2, <3>1 DEF Quote!Refused
      <3>3. ASSUME NEW s \in 1..n
            PROVE  /\ New(s) \in Quote!Stream /\ New(s).ticks = streams[s].ticks
                   /\ New(s).request = streams[s].request
                   /\ New(s).listening = streams[s].listening
                   /\ streams[s].failed => New(s).failed
                   /\ streams[s].listening /\ streams[s].request = i => New(s).failed
        <4>1. streams[s] \in Quote!Stream
          BY <1>2
        <4> QED BY <4>1 DEF Quote!Stream
      <3> HIDE DEF New
      <3>4. \A s \in 1..n : streams'[s] = New(s)
        BY <3>2
      <3>5. streams' \in [1..n -> Quote!Stream]
        BY <3>2, <3>3
      <3> QED BY <3>2, <3>3, <3>4, <3>5
    <2> QED BY <2>1, <2>2
  <1>4. DOMAIN streams = 1..n /\ DOMAIN streams' = 1..n
    BY <1>2, <1>3
  <1>5. Quote!TypeOK'
    <2>1. up' \in BOOLEAN /\ stale' \in BOOLEAN
      BY <1>1, Zenon DEF Quote!IInv, Quote!TypeOK
    <2>2. \E k \in 0..MaxStreams : streams' \in [1..k -> Quote!Stream]
      BY <1>3
    <2>3. \A s \in DOMAIN streams' : streams'[s].request <= sent'
      BY <1>1, <1>3, <1>4 DEF Quote!IInv, Quote!TypeOK
    <2> QED BY <1>1, <1>4, <2>1, <2>2, <2>3 DEF Quote!IInv, Quote!TypeOK
  <1>6. Quote!Listened'
    <2>1. \A s \in 1..n : Quote!InUse(s)' <=> Quote!InUse(s)
      BY <1>1 DEF Quote!InUse
    <2> QED BY <1>3, <1>4, <2>1 DEF Quote!IInv, Quote!Listened
  <1>7. Quote!OpensAlone'
    <2> SUFFICES ASSUME NEW c \in Caller, calls[c].at = "opening", up,
                        ~streams'[calls[c].stream].failed
                 PROVE  streams'[calls[c].stream].request \in DOMAIN live \cup refused'
      BY <1>1, <1>3, <1>4 DEF Quote!IInv, Quote!OpensAlone
    <2> DEFINE s == calls[c].stream
    <2>1. /\ s \in 1..n /\ openLock = c
          /\ ~streams[s].failed => streams[s].request \in DOMAIN live \cup refused
      BY <1>4 DEF Quote!IInv, Quote!OpensAlone
    <2>2. streams[s].listening
      BY <1>4, <2>1, QuoteFacts DEF Quote!IInv, Quote!Listened, Quote!InUse
    <2> QED BY <1>3, <2>1, <2>2
  <1>8. Quote!FiledIsHeld' /\ Quote!TicksAreStreamed'
    BY <1>1, <1>3, <1>4 DEF Quote!IInv, Quote!FiledIsHeld, Quote!TicksAreStreamed
  <1>9. Quote!LossIsNoticed'
    <2> SUFFICES ASSUME up, entry # 0, ~streams'[entry].failed, ~stale, pass = "none"
                 PROVE  streams'[entry].request \in DOMAIN live \cup refused'
      BY <1>1, Zenon DEF Quote!LossIsNoticed
    <2>1. entry \in 1..n /\ streams[entry].listening
      BY <1>4, QuoteOpen
    <2> QED BY <1>3, <2>1 DEF Quote!IInv, Quote!LossIsNoticed
  <1>10. Quote!WidenedAlone'
    <2>1. calls' = calls
      BY <1>1
    <2>2. \A c \in Caller : calls[c].at \in {"widening", "done"} => calls[c].stream \in 1..n
      BY <1>4 DEF Quote!IInv, Quote!WidenedAlone
    <2> QED BY <1>3, <1>4, <2>1, <2>2 DEF Quote!IInv, Quote!WidenedAlone
  <1>11. QuoteHolds'
    BY <1>5, <1>6, <1>7, <1>8, <1>9, <1>10 DEF QuoteHolds
  <1>12. (QuoteHolds => Quote!IInv)'
    BY QuoteShows, PTL
  <1> QED BY <1>11, <1>12

\* IBKR refuses or loses requests, the session drops and comes back, and the pass begins
\* or finds nothing left: the streams and the calls stay as they are.
LEMMA QuoteSessionKeeps ==
    ASSUME Quote!IInv,
           \/ \E i \in 1..MaxRequests : Quote!Refuse(i)
           \/ Quote!Drop \/ Quote!Connect \/ Quote!Lost \/ Quote!PassBegins \/ Quote!Passed
    PROVE  Quote!IInv'
  <1> USE QuoteConstants
  <1>1. UNCHANGED <<entry, openLock, streams, calls, sent, replaced>>
    BY DEF Quote!Refuse, Quote!Drop, Quote!Connect, Quote!Lost, Quote!PassBegins, Quote!Passed,
           Quote!reg, Quote!wire
  <1>2. \A s \in DOMAIN streams : Quote!InUse(s)' <=> Quote!InUse(s)
    BY <1>1 DEF Quote!InUse
  <1>3. Quote!Listened' /\ Quote!WidenedAlone'
    BY <1>1, <1>2 DEF Quote!IInv, Quote!Listened, Quote!WidenedAlone
  <1>4. /\ up' \in BOOLEAN /\ stale' \in BOOLEAN /\ losses' \in 0..MaxLosses
        /\ pass' \in {"none", "due", "found"}
    <2>1. up' \in BOOLEAN
      BY Zenon DEF Quote!IInv, Quote!TypeOK, Quote!Refuse, Quote!Drop, Quote!Connect, Quote!Lost,
                   Quote!PassBegins, Quote!Passed
    <2>2. stale' \in BOOLEAN
      BY Zenon DEF Quote!IInv, Quote!TypeOK, Quote!Refuse, Quote!Drop, Quote!Connect, Quote!Lost,
                   Quote!PassBegins, Quote!Passed, Quote!reg
    <2>3. losses' \in 0..MaxLosses
      <3>1. losses \in 0..MaxLosses
        BY DEF Quote!IInv, Quote!TypeOK
      <3>2. losses' = losses \/ (losses < MaxLosses /\ losses' = losses + 1)
        BY Zenon DEF Quote!Refuse, Quote!Drop, Quote!Connect, Quote!Lost, Quote!PassBegins,
                     Quote!Passed
      <3> QED BY <3>1, <3>2
    <2>4. pass' \in {"none", "due", "found"}
      BY DEF Quote!IInv, Quote!TypeOK, Quote!Refuse, Quote!Drop, Quote!Connect, Quote!Lost,
             Quote!PassBegins, Quote!Passed
    <2> QED BY <2>1, <2>2, <2>3, <2>4
  <1> DEFINE Quiet ==
               /\ filed' \in {0, filed} /\ DOMAIN live' \subseteq DOMAIN live
               /\ refused' \subseteq 1..sent
               /\ \A i \in DOMAIN live' : live'[i] = live[i]
               /\ DOMAIN live' \ replaced \subseteq {filed'}
               /\ (~up' => filed' = 0 /\ DOMAIN live' = {})
               /\ up' /\ ~up => \A c \in Caller : calls[c].at # "opening"
               /\ up' /\ up => \/ DOMAIN live \cup refused \subseteq DOMAIN live' \cup refused'
                               \/ openLock = None /\ pass' = "due"
               /\ up' => up \/ pass' = "due"
               /\ up' /\ up => stale' = stale
               /\ up' /\ entry # 0 => pass = "none" \/ pass' # "none"
  <1>5. SUFFICES Quiet
    <2>1. Quote!TypeOK'
      <3>1. up' \in BOOLEAN /\ stale' \in BOOLEAN
        BY <1>4
      <3>2. filed' \in 0..sent /\ DOMAIN live' \subseteq 1..sent
        BY <1>5 DEF Quote!IInv, Quote!TypeOK
      <3> QED BY <1>1, <1>4, <1>5, <3>1, <3>2 DEF Quote!IInv, Quote!TypeOK
    <2>2. Quote!OpensAlone'
      <3>1. \A c \in Caller : calls[c].at = "opening" => openLock # None
        BY DEF Quote!IInv, Quote!OpensAlone
      <3> QED BY <1>1, <1>5, <3>1 DEF Quote!IInv, Quote!OpensAlone
    <2>3. Quote!FiledIsHeld' /\ Quote!TicksAreStreamed'
      BY <1>1, <1>5 DEF Quote!IInv, Quote!FiledIsHeld, Quote!TicksAreStreamed
    <2>4. Quote!LossIsNoticed'
      BY <1>1, <1>5 DEF Quote!IInv, Quote!LossIsNoticed
    <2>5. QuoteHolds'
      BY <1>3, <2>1, <2>2, <2>3, <2>4 DEF QuoteHolds
    <2>6. (QuoteHolds => Quote!IInv)'
      BY QuoteShows, PTL
    <2> QED BY <2>5, <2>6
  <1>6. /\ DOMAIN live \ replaced \subseteq {filed}
        /\ (~up => filed = 0 /\ DOMAIN live = {})
        /\ DOMAIN live \subseteq 1..sent /\ refused \subseteq 1..sent
    BY DEF Quote!IInv, Quote!FiledIsHeld, Quote!TypeOK
  <1>7. ASSUME NEW i \in 1..MaxRequests, Quote!Refuse(i) PROVE Quiet
    <2>1. /\ i \in DOMAIN live /\ refused' = refused \cup {i}
          /\ live' = [j \in DOMAIN live \ {i} |-> live[j]]
          /\ UNCHANGED <<up, stale, filed, pass>>
      BY <1>7 DEF Quote!Refuse, Quote!Without, Quote!reg
    <2> QED BY <1>6, <2>1
  <1>8. CASE Quote!Drop
    <2>1. /\ up' = FALSE /\ live' = <<>> /\ refused' = {} /\ filed' = 0
      BY <1>8 DEF Quote!Drop
    <2>2. DOMAIN live' = {}
      BY <2>1
    <2> QED BY <2>1, <2>2
  <1>9. CASE Quote!Connect
    <2>1. /\ ~up /\ up' = TRUE /\ pass' = "due" /\ UNCHANGED <<filed, live, refused, stale>>
          /\ \A c \in Caller : calls[c].at \notin {"opening", "widening"}
      BY <1>9 DEF Quote!Connect, Quote!wire, Quote!reg
    <2> QED BY <1>6, <2>1
  <1>10. CASE Quote!Lost
    <2>1. /\ up /\ openLock = None /\ live' = <<>> /\ pass' = "due"
          /\ UNCHANGED <<up, stale, filed, refused>>
      BY <1>10 DEF Quote!Lost, Quote!reg
    <2>2. DOMAIN live' = {}
      BY <2>1
    <2> QED BY <1>6, <2>1, <2>2
  <1>11. CASE Quote!PassBegins \/ Quote!Passed
    <2>1. /\ UNCHANGED <<up, stale, filed, live, refused>>
          /\ entry # 0 => pass' = "found"
      BY <1>11 DEF Quote!PassBegins, Quote!Passed, Quote!wire, Quote!reg
    <2> QED BY <1>6, <2>1
  <1> QED BY <1>7, <1>8, <1>9, <1>10, <1>11

\* The stream that is open gets new ticks, and one call with it or none: nobody granted less
\* loses by it, and who has it widened now knows what the others were granted.
LEMMA QuoteTicksFit ==
    ASSUME Quote!IInv, entry # 0, NEW ticks \in SUBSET TickType,
           DOMAIN streams' = DOMAIN streams,
           \A s \in DOMAIN streams : streams'[s].listening = streams[s].listening,
           \A s \in DOMAIN streams \ {entry} : streams'[s] = streams[s],
           streams'[entry].ticks = ticks,
           \A d \in Caller : calls'[d].stream = calls[d].stream /\ calls'[d].ticks = calls[d].ticks,
           \A d \in Caller : calls'[d].stream = entry /\ calls'[d].at \in {"widening", "done"} =>
                                calls[d].ticks \subseteq ticks,
           \A d \in Caller : calls'[d].at \in {"waiting", "widening", "done"} =>
                                calls[d].at \in {"waiting", "widening", "done"},
           \A d \in Caller : calls'[d].at = "done" => calls[d].at = "done",
           \A d \in Caller : calls'[d].at = "widening" =>
              \/ /\ calls[d].at = "widening" /\ calls'[d].before = calls[d].before
                 /\ \A e \in Caller \ {d} : calls[e].stream = calls[d].stream =>
                                               calls'[e].at # "widening"
              \/ /\ calls[d].stream = entry /\ calls'[d].before = streams[entry].ticks
                 /\ \A e \in Caller \ {d} : calls[e].stream = entry => calls'[e].at # "widening"
    PROVE  Quote!WidenedAlone'
  <1> SUFFICES ASSUME NEW d \in Caller
               PROVE  /\ calls'[d].stream \in {0} \cup DOMAIN streams
                      /\ calls'[d].at \in {"waiting", "widening", "done"} => calls'[d].stream # 0
                      /\ calls'[d].at = "done" /\ streams'[calls'[d].stream].listening =>
                            calls'[d].ticks \subseteq streams'[calls'[d].stream].ticks
                      /\ calls'[d].at = "widening" =>
                            /\ calls'[d].ticks \subseteq streams'[calls'[d].stream].ticks
                            /\ \A e \in Caller \ {d} : calls'[e].stream = calls'[d].stream =>
                                  /\ calls'[e].at # "widening"
                                  /\ (calls'[e].at = "done" /\ streams'[calls'[d].stream].listening =>
                                        calls'[e].ticks \subseteq calls'[d].before)
    BY DEF Quote!WidenedAlone
  <1>1. /\ calls[d].stream \in {0} \cup DOMAIN streams
        /\ calls[d].at \in {"waiting", "widening", "done"} => calls[d].stream # 0
    BY DEF Quote!IInv, Quote!WidenedAlone
  <1>2. entry \in DOMAIN streams /\ streams[entry].listening
    BY QuoteOpen
  <1>3. ASSUME calls'[d].at = "done", streams'[calls'[d].stream].listening
        PROVE  calls'[d].ticks \subseteq streams'[calls'[d].stream].ticks
    <2>1. calls[d].stream \in DOMAIN streams /\ streams[calls[d].stream].listening
      BY <1>1, <1>3
    <2>2. calls[d].ticks \subseteq streams[calls[d].stream].ticks
      BY <1>3, <2>1 DEF Quote!IInv, Quote!WidenedAlone
    <2> QED BY <1>3, <2>1, <2>2
  <1>4. ASSUME calls'[d].at = "widening"
        PROVE  /\ calls'[d].ticks \subseteq streams'[calls'[d].stream].ticks
               /\ \A e \in Caller \ {d} : calls'[e].stream = calls'[d].stream =>
                     /\ calls'[e].at # "widening"
                     /\ (calls'[e].at = "done" /\ streams'[calls'[d].stream].listening =>
                           calls'[e].ticks \subseteq calls'[d].before)
    <2>1. calls[d].stream \in DOMAIN streams
      BY <1>1, <1>4
    <2>2. \A e \in Caller : calls'[e].at = "done" /\ calls[e].stream = calls[d].stream
                               /\ streams'[calls[d].stream].listening =>
             /\ calls[e].at = "done" /\ streams[calls[d].stream].listening
             /\ calls[e].ticks \subseteq streams[calls[d].stream].ticks
      BY <2>1 DEF Quote!IInv, Quote!WidenedAlone
    <2>3. CASE calls[d].at = "widening" /\ calls'[d].before = calls[d].before
                  /\ \A e \in Caller \ {d} : calls[e].stream = calls[d].stream =>
                                                calls'[e].at # "widening"
      <3>1. /\ calls[d].ticks \subseteq streams[calls[d].stream].ticks
            /\ \A e \in Caller \ {d} :
                  calls[e].stream = calls[d].stream /\ calls[e].at = "done"
                     /\ streams[calls[d].stream].listening =>
                        calls[e].ticks \subseteq calls[d].before
        BY <2>3 DEF Quote!IInv, Quote!WidenedAlone
      <3>2. calls'[d].ticks \subseteq streams'[calls'[d].stream].ticks
        BY <1>4, <2>1, <3>1
      <3> QED BY <2>2, <2>3, <3>1, <3>2
    <2>4. CASE calls[d].stream = entry /\ calls'[d].before = streams[entry].ticks
                  /\ \A e \in Caller \ {d} : calls[e].stream = entry => calls'[e].at # "widening"
      BY <1>4, <2>2, <2>4
    <2> QED BY <1>4, <2>3, <2>4
  <1> QED BY <1>1, <1>3, <1>4

\* The stream that is open is requested again.
LEMMA QuoteSentKeeps ==
    ASSUME Quote!IInv, entry # 0, up, NEW ticks \in SUBSET TickType, Quote!Requested(ticks),
           streams' = [streams EXCEPT ![entry] = Quote!Asking(entry, ticks)],
           DOMAIN live' \subseteq DOMAIN live \cup {sent'}, sent' \in DOMAIN live',
           live'[sent'] = ticks,
           DOMAIN live' \ replaced' \subseteq {sent'}, stale' \in BOOLEAN,
           pass' \in {"none", "due", "found"}, UNCHANGED <<up, entry, openLock, losses>>,
           calls' \in [Caller -> Quote!Call], \A d \in Caller : calls'[d].at # "opening",
           \/ calls' = calls /\ ticks = streams[entry].ticks
           \/ Quote!WidenedAlone'
    PROVE  Quote!IInv'
  <1> USE QuoteConstants
  <1> DEFINE new == Quote!Asking(entry, ticks)
  <1>1. entry \in DOMAIN streams /\ streams[entry].listening /\ openLock = None
    BY QuoteOpen
  <1>2. /\ sent \in Nat /\ sent + 1 \in 1..MaxRequests /\ sent' = sent + 1 /\ filed' = sent'
        /\ refused' = refused /\ DOMAIN live \subseteq 1..sent /\ refused \subseteq 1..sent
        /\ streams[entry] \in Quote!Stream
        /\ \A s \in DOMAIN streams : streams[s].request \in 1..sent
    <2>1. \A s \in DOMAIN streams : streams[s] \in Quote!Stream /\ streams[s].request <= sent
      BY QuoteFacts DEF Quote!IInv, Quote!TypeOK
    <2>2. \A s \in DOMAIN streams : streams[s].request \in Nat /\ streams[s].request >= 1
      BY <2>1 DEF Quote!Stream
    <2>3. sent \in Nat /\ sent < MaxRequests /\ sent' = sent + 1 /\ filed' = sent'
          /\ refused' = refused
      BY QuoteFacts DEF Quote!Requested
    <2>4. sent + 1 \in 1..MaxRequests
      BY <2>3
    <2>5. DOMAIN live \subseteq 1..sent /\ refused \subseteq 1..sent
      BY DEF Quote!IInv, Quote!TypeOK
    <2>6. \A s \in DOMAIN streams : streams[s].request \in 1..sent
      BY <2>1, <2>2, <2>3
    <2> QED BY <1>1, <2>1, <2>3, <2>4, <2>5, <2>6
  <1>3. /\ new \in Quote!Stream /\ new.ticks = ticks /\ new.request = sent + 1
        /\ new.listening = streams[entry].listening
    <2>1. FALSE \in BOOLEAN
      OBVIOUS
    <2> QED BY <1>2, <2>1 DEF Quote!Stream, Quote!Asking
  <1>4. streams' = [streams EXCEPT ![entry] = new]
    OBVIOUS
  <1> HIDE DEF new
  <1>5. /\ \E n \in 0..MaxStreams : streams' \in [1..n -> Quote!Stream]
        /\ DOMAIN streams' = DOMAIN streams /\ streams'[entry] = new
        /\ \A t \in DOMAIN streams \ {entry} : streams'[t] = streams[t]
    BY <1>1, <1>3, <1>4, QuoteStreamSet
  <1>6. \A t \in DOMAIN streams : streams'[t].listening = streams[t].listening
    BY <1>3, <1>5
  <1>7. Quote!TypeOK'
    <2>1. up' \in BOOLEAN
      BY Zenon DEF Quote!IInv, Quote!TypeOK
    <2>2. \A t \in DOMAIN streams' : streams'[t].request <= sent'
      <3> SUFFICES ASSUME NEW t \in DOMAIN streams PROVE streams'[t].request <= sent + 1
        BY <1>2, <1>5
      <3>1. streams[t].request \in Nat /\ streams[t].request <= sent
        BY <1>2
      <3> QED BY <1>2, <1>3, <1>5, <3>1
    <2>3. sent' \in 0..MaxRequests /\ filed' \in 0..sent' /\ 1..sent \subseteq 1..sent'
          /\ sent' \in 1..sent'
      BY <1>2
    <2>4. DOMAIN live' \subseteq 1..sent' /\ refused' \subseteq 1..sent'
      BY <1>2, <2>3
    <2>5. openLock' \in Caller \cup {None} /\ entry' \in {0} \cup DOMAIN streams'
          /\ losses' \in 0..MaxLosses
      BY <1>1, <1>5 DEF Quote!IInv, Quote!TypeOK
    <2> QED BY <1>5, <2>1, <2>2, <2>3, <2>4, <2>5 DEF Quote!TypeOK
  <1>8. Quote!Listened'
    <2>1. \A t \in DOMAIN streams : Quote!InUse(t)' <=> Quote!InUse(t)
      BY <1>1 DEF Quote!InUse
    <2> QED BY <1>5, <1>6, <2>1 DEF Quote!IInv, Quote!Listened
  <1>9. Quote!OpensAlone'
    BY <1>1 DEF Quote!OpensAlone
  <1>10. \A t \in DOMAIN streams : streams'[t].listening => t = entry
    BY <1>1, <1>6, QuoteOne
  <1>11. Quote!FiledIsHeld' /\ Quote!TicksAreStreamed'
    BY <1>1, <1>2, <1>3, <1>5, <1>10 DEF Quote!FiledIsHeld, Quote!TicksAreStreamed
  <1>12. Quote!LossIsNoticed'
    BY <1>2, <1>3, <1>5 DEF Quote!LossIsNoticed
  <1>13. Quote!WidenedAlone'
    <2>1. CASE calls' = calls /\ ticks = streams[entry].ticks
      <3>1. \A t \in DOMAIN streams : streams'[t].ticks = streams[t].ticks
        BY <1>3, <1>5, <2>1
      <3>2. \A d \in Caller : calls[d].at \in {"widening", "done"} => calls[d].stream \in DOMAIN streams
        BY DEF Quote!IInv, Quote!WidenedAlone
      <3>3. DOMAIN streams' = DOMAIN streams /\ calls' = calls
        BY <1>5, <2>1
      <3> QED BY <1>6, <3>1, <3>2, <3>3 DEF Quote!IInv, Quote!WidenedAlone
    <2> QED BY <2>1
  <1>14. QuoteHolds'
    BY <1>7, <1>8, <1>9, <1>11, <1>12, <1>13 DEF QuoteHolds
  <1>15. (QuoteHolds => Quote!IInv)'
    BY QuoteShows, PTL
  <1> QED BY <1>14, <1>15

\* The socket is gone: the stream that is open keeps its request and has other ticks.
LEMMA QuoteNotSentKeeps ==
    ASSUME Quote!IInv, entry # 0, ~up, NEW ticks \in SUBSET TickType, Quote!NotSent(entry, ticks),
           UNCHANGED <<up, entry, stale, openLock, pass, losses>>,
           calls' \in [Caller -> Quote!Call], \A d \in Caller : calls'[d].at # "opening",
           Quote!WidenedAlone'
    PROVE  Quote!IInv'
  <1> USE QuoteConstants
  <1> DEFINE new == [streams[entry] EXCEPT !.ticks = ticks]
  <1>1. entry \in DOMAIN streams /\ streams[entry].listening /\ openLock = None
    BY QuoteOpen
  <1>2. /\ streams' = [streams EXCEPT ![entry] = new]
        /\ UNCHANGED <<filed, live, refused, sent, replaced>>
    BY DEF Quote!NotSent, Quote!wire
  <1>3. streams[entry] \in Quote!Stream
    BY <1>1, QuoteFacts
  <1>4. /\ new \in Quote!Stream /\ new.request = streams[entry].request
        /\ new.listening = streams[entry].listening
    BY <1>3 DEF Quote!Stream
  <1> HIDE DEF new
  <1>5. /\ \E n \in 0..MaxStreams : streams' \in [1..n -> Quote!Stream]
        /\ DOMAIN streams' = DOMAIN streams /\ streams'[entry] = new
        /\ \A t \in DOMAIN streams \ {entry} : streams'[t] = streams[t]
    BY <1>1, <1>2, <1>4, QuoteStreamSet
  <1>6. \A t \in DOMAIN streams : /\ streams'[t].listening = streams[t].listening
                                  /\ streams'[t].request = streams[t].request
    BY <1>4, <1>5
  <1>7. Quote!TypeOK'
    <2>1. up' \in BOOLEAN /\ stale' \in BOOLEAN
      BY Zenon DEF Quote!IInv, Quote!TypeOK
    <2>2. \A t \in DOMAIN streams' : streams'[t].request <= sent'
      BY <1>2, <1>5, <1>6 DEF Quote!IInv, Quote!TypeOK
    <2> QED BY <1>2, <1>5, <2>1, <2>2 DEF Quote!IInv, Quote!TypeOK
  <1>8. Quote!Listened'
    <2>1. \A t \in DOMAIN streams : Quote!InUse(t)' <=> Quote!InUse(t)
      BY <1>1 DEF Quote!InUse
    <2> QED BY <1>5, <1>6, <2>1 DEF Quote!IInv, Quote!Listened
  <1>9. Quote!OpensAlone'
    BY <1>1 DEF Quote!OpensAlone
  <1>10. filed = 0 /\ DOMAIN live = {}
    BY DEF Quote!IInv, Quote!FiledIsHeld
  <1>11. Quote!FiledIsHeld' /\ Quote!TicksAreStreamed' /\ Quote!LossIsNoticed'
    BY <1>2, <1>10 DEF Quote!FiledIsHeld, Quote!TicksAreStreamed, Quote!LossIsNoticed
  <1>12. QuoteHolds'
    BY <1>7, <1>8, <1>9, <1>11 DEF QuoteHolds
  <1>13. (QuoteHolds => Quote!IInv)'
    BY QuoteShows, PTL
  <1> QED BY <1>12, <1>13

\* Who has a stream widened, or waits to, has the one that is open unless it is closed.
LEMMA QuoteWidens ==
    ASSUME Quote!IInv, NEW c \in Caller, calls[c].at \in {"waiting", "widening"},
           ~Quote!Closed(calls[c].stream)
    PROVE  /\ entry # 0 /\ calls[c].stream = entry /\ entry \in DOMAIN streams
           /\ \A d \in Caller : calls[d].at # "opening"
  <1>1. calls[c].stream \in DOMAIN streams
    BY DEF Quote!IInv, Quote!WidenedAlone
  <1>2. Quote!InUse(calls[c].stream)
    BY <1>1 DEF Quote!IInv, Quote!Listened, Quote!Closed
  <1>3. calls[c].stream = entry
    BY <1>2, QuoteFacts DEF Quote!IInv, Quote!OpensAlone, Quote!InUse
  <1>4. entry # 0
    BY <1>1, <1>3, QuoteFacts
  <1> QED BY <1>1, <1>3, <1>4, QuoteOpen

\* A stream is widened, or put back: what it takes in, and the new state of the caller.
LEMMA QuoteWideningKeeps ==
    ASSUME Quote!IInv, NEW c \in Caller,
           Quote!Widen(c) \/ Quote!CannotWiden(c) \/ Quote!RollBack(c)
    PROVE  Quote!IInv'
  <1> USE QuoteConstants
  <1>1. calls[c].at \in {"waiting", "widening"} /\ calls[c] \in Quote!Call
    BY QuoteFacts DEF Quote!Widen, Quote!CannotWiden, Quote!RollBack
  <1>2. UNCHANGED <<up, entry, stale, openLock, pass, losses>>
    BY DEF Quote!Widen, Quote!CannotWiden, Quote!RollBack, Quote!reg
  <1>3. pass' \in {"none", "due", "found"}
    BY <1>2 DEF Quote!IInv, Quote!TypeOK
  <1>4. stale' \in BOOLEAN
    BY <1>2, Zenon DEF Quote!IInv, Quote!TypeOK
  <1>5. CASE Quote!RollBack(c) /\ Quote!Closed(calls[c].stream)
    <2>1. Quote!Goes(c, "failed") /\ UNCHANGED <<streams, filed, live, refused, sent, replaced>>
      BY <1>5 DEF Quote!RollBack, Quote!wire
    <2>2. PICK call \in Quote!Call :
             /\ calls' = [calls EXCEPT ![c] = call] /\ call.at = "failed"
             /\ call.stream = calls[c].stream
      BY <2>1, QuoteGoes
    <2> QED BY <1>1, <1>2, <2>1, <2>2, QuoteCallKeeps
  <1>6. ASSUME ~Quote!Closed(calls[c].stream) PROVE Quote!IInv'
    <2>1. /\ entry # 0 /\ calls[c].stream = entry /\ entry \in DOMAIN streams
          /\ \A d \in Caller : calls[d].at # "opening"
      BY <1>1, <1>6, QuoteWidens
    <2>2. /\ streams[entry] \in Quote!Stream /\ streams[entry].ticks \in SUBSET TickType
          /\ calls[c].ticks \in SUBSET TickType /\ calls[c].before \in SUBSET TickType
      BY <1>1, <2>1, QuoteFacts DEF Quote!Stream, Quote!Call
    <2>3. CASE Quote!Widen(c)
      <3> DEFINE old == streams[entry].ticks
                 ticks == old \cup calls[c].ticks
                 call == [calls[c] EXCEPT !.at = "widening", !.before = old]
      <3>1. /\ up /\ Quote!Requested(ticks) /\ calls' = [calls EXCEPT ![c] = call]
            /\ streams' = [streams EXCEPT ![entry] = Quote!Asking(entry, ticks)]
            /\ live' = [i \in (DOMAIN live \ {filed}) \cup {sent'} |->
                          IF i = sent' THEN ticks ELSE live[i]]
            /\ replaced' = replaced
            /\ \A d \in Caller : ~(calls[d].at = "widening" /\ calls[d].stream = entry)
        BY <2>1, <2>3 DEF Quote!Widen, Quote!Restart, Quote!Free
      <3>2. calls[c].at = "waiting"
        BY <2>3 DEF Quote!Widen
      <3>3. /\ call \in Quote!Call /\ call.at = "widening" /\ call.before = old
            /\ call.stream = calls[c].stream /\ call.ticks = calls[c].ticks
        BY <1>1, <2>2 DEF Quote!Call
      <3> HIDE DEF call
      <3>4. /\ calls' \in [Caller -> Quote!Call] /\ calls'[c] = call
            /\ \A d \in Caller \ {c} : calls'[d] = calls[d]
        BY <3>1, <3>3, QuoteCallSet
      <3>5. /\ DOMAIN live' = (DOMAIN live \ {filed}) \cup {sent'} /\ live'[sent'] = ticks
            /\ DOMAIN live' \ replaced' \subseteq {sent'}
        BY <3>1 DEF Quote!IInv, Quote!FiledIsHeld
      <3>6. ticks \in SUBSET TickType
        BY <2>2
      <3>7. /\ DOMAIN streams' = DOMAIN streams /\ streams'[entry].ticks = ticks
            /\ \A s \in DOMAIN streams \ {entry} : streams'[s] = streams[s]
            /\ \A s \in DOMAIN streams : streams'[s].listening = streams[s].listening
        <4>1. /\ Quote!Asking(entry, ticks).ticks = ticks
              /\ Quote!Asking(entry, ticks).listening = streams[entry].listening
          BY <2>2 DEF Quote!Asking, Quote!Stream
        <4> QED BY <2>1, <3>1, <4>1
      <3>8. \A d \in Caller : calls[d].at = "done" /\ calls[d].stream = entry =>
               calls[d].ticks \subseteq old
        BY <2>1, QuoteOpen DEF Quote!IInv, Quote!WidenedAlone
      <3>9. Quote!WidenedAlone'
        <4>1. \A d \in Caller : /\ calls'[d].stream = calls[d].stream
                                /\ calls'[d].ticks = calls[d].ticks
          BY <3>3, <3>4
        <4>2. \A d \in Caller : calls'[d].stream = entry /\ calls'[d].at \in {"widening", "done"} =>
                                   calls[d].ticks \subseteq ticks
          <5> SUFFICES ASSUME NEW d \in Caller \ {c}, calls[d].stream = entry,
                              calls[d].at \in {"widening", "done"}
                       PROVE  calls[d].ticks \subseteq old
            BY <3>4
          <5> QED BY <3>1, <3>8
        <4>3. \A d \in Caller : /\ calls'[d].at \in {"waiting", "widening", "done"} =>
                                      calls[d].at \in {"waiting", "widening", "done"}
                                /\ calls'[d].at = "done" => calls[d].at = "done"
          BY <3>2, <3>3, <3>4
        <4>4. ASSUME NEW d \in Caller, calls'[d].at = "widening"
              PROVE  \/ /\ calls[d].at = "widening" /\ calls'[d].before = calls[d].before
                        /\ \A e \in Caller \ {d} : calls[e].stream = calls[d].stream =>
                                                      calls'[e].at # "widening"
                     \/ /\ calls[d].stream = entry /\ calls'[d].before = old
                        /\ \A e \in Caller \ {d} : calls[e].stream = entry =>
                                                      calls'[e].at # "widening"
          <5>1. CASE d = c
            BY <2>1, <3>1, <3>3, <3>4, <5>1
          <5>2. CASE d # c
            <6>1. calls'[d] = calls[d] /\ calls[d].at = "widening" /\ calls[d].stream # entry
              BY <3>1, <3>4, <4>4, <5>2
            <6>2. \A e \in Caller \ {d} : calls[e].stream = calls[d].stream =>
                     calls[e].at # "widening" /\ e # c
              BY <2>1, <6>1 DEF Quote!IInv, Quote!WidenedAlone
            <6> QED BY <3>4, <6>1, <6>2
          <5> QED BY <5>1, <5>2
        <4> HIDE DEF ticks, old
        <4> QED BY <2>1, <3>6, <3>7, <4>1, <4>2, <4>3, <4>4, QuoteTicksFit DEF old
      <3>10. \A d \in Caller : calls'[d].at # "opening"
        BY <2>1, <3>3, <3>4
      <3> HIDE DEF ticks
      <3> QED BY <1>2, <1>3, <1>4, <2>1, <3>1, <3>4, <3>5, <3>6, <3>9, <3>10, QuoteSentKeeps
    <2>4. CASE Quote!CannotWiden(c) \/ Quote!RollBack(c)
      <3> DEFINE ticks == IF calls[c].at = "waiting" THEN streams[entry].ticks
                          ELSE calls[c].before
      <3>1. Quote!Goes(c, "failed")
        BY <2>4 DEF Quote!CannotWiden, Quote!RollBack
      <3>2. PICK call \in Quote!Call :
               /\ calls' = [calls EXCEPT ![c] = call] /\ call.at = "failed"
               /\ call.ticks = calls[c].ticks /\ call.stream = calls[c].stream
        BY <3>1, QuoteGoes
      <3>3. /\ calls' \in [Caller -> Quote!Call] /\ calls'[c] = call
            /\ \A d \in Caller \ {c} : calls'[d] = calls[d]
        BY <3>2, QuoteCallSet
      <3>4. ticks \in SUBSET TickType
        BY <2>2
      <3>5. \A d \in Caller \ {c} : calls[d].stream = entry =>
               /\ calls[d].at # "widening"
               /\ calls[d].at = "done" => calls[d].ticks \subseteq ticks
        <4>1. CASE Quote!CannotWiden(c)
          <5>1. /\ calls[c].at = "waiting"
                /\ \A d \in Caller : ~(calls[d].at = "widening" /\ calls[d].stream = entry)
            BY <2>1, <4>1 DEF Quote!CannotWiden, Quote!Free
          <5> QED BY <2>1, <5>1, QuoteOpen DEF Quote!IInv, Quote!WidenedAlone
        <4>2. CASE Quote!RollBack(c)
          <5>1. calls[c].at = "widening"
            BY <4>2 DEF Quote!RollBack
          <5> QED BY <2>1, <5>1, QuoteOpen DEF Quote!IInv, Quote!WidenedAlone
        <4> QED BY <2>4, <4>1, <4>2
      <3>6. \A d \in Caller : calls'[d].at # "opening"
        BY <2>1, <3>2, <3>3
      <3>7. ASSUME DOMAIN streams' = DOMAIN streams,
                   \A s \in DOMAIN streams : streams'[s].listening = streams[s].listening,
                   \A s \in DOMAIN streams \ {entry} : streams'[s] = streams[s],
                   streams'[entry].ticks = ticks
            PROVE  Quote!WidenedAlone'
        <4> HIDE DEF ticks
        <4>1. \A d \in Caller : /\ calls'[d].stream = calls[d].stream
                                /\ calls'[d].ticks = calls[d].ticks
          BY <3>2, <3>3
        <4>2. \A d \in Caller : calls'[d].stream = entry /\ calls'[d].at \in {"widening", "done"} =>
                                   calls[d].ticks \subseteq ticks
          BY <3>2, <3>3, <3>5
        <4>3. \A d \in Caller : /\ calls'[d].at \in {"waiting", "widening", "done"} =>
                                      calls[d].at \in {"waiting", "widening", "done"}
                                /\ calls'[d].at = "done" => calls[d].at = "done"
          BY <3>2, <3>3
        <4>4. ASSUME NEW d \in Caller, calls'[d].at = "widening"
              PROVE  /\ calls[d].at = "widening" /\ calls'[d].before = calls[d].before
                     /\ \A e \in Caller \ {d} : calls[e].stream = calls[d].stream =>
                                                   calls'[e].at # "widening"
          <5>1. d # c /\ calls'[d] = calls[d] /\ calls[d].at = "widening"
            BY <3>2, <3>3, <4>4
          <5>2. \A e \in Caller \ {d} : calls[e].stream = calls[d].stream =>
                   calls[e].at # "widening"
            BY <5>1 DEF Quote!IInv, Quote!WidenedAlone
          <5> QED BY <3>2, <3>3, <5>1, <5>2
        <4> QED BY <2>1, <3>4, <3>7, <4>1, <4>2, <4>3, <4>4, QuoteTicksFit
      <3>8. CASE Quote!RollBack(c) /\ up
        <4>1. /\ Quote!Requested(ticks)
              /\ streams' = [streams EXCEPT ![entry] = Quote!Asking(entry, ticks)]
              /\ live' = [i \in (DOMAIN live \ {filed}) \cup {sent'} |->
                            IF i = sent' THEN ticks ELSE live[i]]
              /\ replaced' = replaced
          BY <1>6, <2>1, <3>8 DEF Quote!RollBack, Quote!Restart
        <4>2. /\ DOMAIN live' = (DOMAIN live \ {filed}) \cup {sent'} /\ live'[sent'] = ticks
              /\ DOMAIN live' \ replaced' \subseteq {sent'}
          BY <4>1 DEF Quote!IInv, Quote!FiledIsHeld
        <4> HIDE DEF ticks
        <4>3. /\ Quote!Asking(entry, ticks).ticks = ticks
              /\ Quote!Asking(entry, ticks).listening = streams[entry].listening
          BY <2>2 DEF Quote!Asking, Quote!Stream
        <4>4. Quote!WidenedAlone'
          BY <2>1, <3>7, <4>1, <4>3
        <4> QED BY <1>2, <1>3, <1>4, <2>1, <3>3, <3>4, <3>6, <3>8, <4>1, <4>2, <4>4,
                   QuoteSentKeeps
      <3>9. CASE Quote!CannotWiden(c) \/ (Quote!RollBack(c) /\ ~up)
        <4>1. ~up /\ Quote!NotSent(entry, ticks)
          BY <1>6, <2>1, <3>9 DEF Quote!CannotWiden, Quote!RollBack
        <4> HIDE DEF ticks
        <4> DEFINE new == [streams[entry] EXCEPT !.ticks = ticks]
        <4>2. streams' = [streams EXCEPT ![entry] = new]
          BY <4>1 DEF Quote!NotSent
        <4>3. new.ticks = ticks /\ new.listening = streams[entry].listening
          BY <2>2 DEF Quote!Stream
        <4> HIDE DEF new
        <4>4. Quote!WidenedAlone'
          BY <2>1, <3>7, <4>2, <4>3
        <4> QED BY <1>2, <2>1, <3>3, <3>4, <3>6, <4>1, <4>4, QuoteNotSentKeeps
      <3> QED BY <2>4, <3>8, <3>9
    <2> QED BY <1>5, <2>3, <2>4 DEF Quote!Widen, Quote!CannotWiden, Quote!RollBack
  <1>7. ~Quote!Closed(calls[c].stream) \/ (Quote!RollBack(c) /\ Quote!Closed(calls[c].stream))
    BY DEF Quote!Widen, Quote!CannotWiden
  <1> QED BY <1>5, <1>6, <1>7

\* A pass requests the open stream again, and leaves what it had uncancelled.
LEMMA QuoteResubscribeKeeps == ASSUME Quote!IInv, Quote!Resubscribe PROVE Quote!IInv'
  <1> DEFINE ticks == streams[entry].ticks
  <1>1. /\ entry # 0 /\ up /\ Quote!Requested(ticks)
        /\ streams' = [streams EXCEPT ![entry] = Quote!Asking(entry, ticks)]
        /\ live' = [i \in DOMAIN live \cup {sent'} |-> IF i = sent' THEN ticks ELSE live[i]]
        /\ replaced' = replaced \cup ({filed} \cap DOMAIN live)
        /\ stale' = FALSE /\ pass' = "none" /\ UNCHANGED <<up, entry, openLock, calls, losses>>
    BY DEF Quote!Resubscribe
  <1>2. streams[entry] \in Quote!Stream /\ \A d \in Caller : calls[d].at # "opening"
    BY <1>1, QuoteOpen, QuoteFacts
  <1>3. ticks \in SUBSET TickType
    BY <1>2 DEF Quote!Stream
  <1>4. /\ DOMAIN live' = DOMAIN live \cup {sent'} /\ live'[sent'] = ticks
        /\ DOMAIN live' \ replaced' \subseteq {sent'}
    BY <1>1 DEF Quote!IInv, Quote!FiledIsHeld
  <1>5. calls' \in [Caller -> Quote!Call] /\ pass' \in {"none", "due", "found"}
    BY <1>1 DEF Quote!IInv, Quote!TypeOK
  <1>6. stale' \in BOOLEAN
    BY <1>1, Zenon
  <1> QED BY <1>1, <1>2, <1>3, <1>4, <1>5, <1>6, QuoteSentKeeps

-----------------------------------------------------------------------------
\* Nothing is open at the start.
LEMMA QuoteStarts == Quote!Init => Quote!IInv
  <1> SUFFICES ASSUME Quote!Init PROVE Quote!IInv
    OBVIOUS
  <1> USE QuoteConstants
  <1>1. /\ up = TRUE /\ entry = 0 /\ stale = FALSE /\ streams = <<>>
        /\ calls = [c \in Caller |-> Quote!Call0] /\ openLock = None
        /\ filed = 0 /\ live = <<>> /\ refused = {} /\ sent = 0 /\ pass = "none" /\ losses = 0
        /\ replaced = {}
    BY DEF Quote!Init
  <1>2. /\ Quote!Call0 \in Quote!Call /\ Quote!Call0.at = "idle" /\ Quote!Call0.stream = 0
    BY DEF Quote!Call0, Quote!Call
  <1>3. DOMAIN streams = {} /\ DOMAIN live = {} /\ streams \in [1..0 -> Quote!Stream]
    BY <1>1
  <1>4. Quote!TypeOK
    <2>1. up \in BOOLEAN /\ stale \in BOOLEAN
      BY <1>1, Zenon
    <2> QED BY <1>1, <1>2, <1>3, <2>1, SMTT(30) DEF Quote!TypeOK
  <1>5. Quote!Listened /\ Quote!FiledIsHeld /\ Quote!TicksAreStreamed /\ Quote!LossIsNoticed
    BY <1>1, <1>3 DEF Quote!Listened, Quote!FiledIsHeld, Quote!TicksAreStreamed,
       Quote!LossIsNoticed
  <1>6. Quote!OpensAlone /\ Quote!WidenedAlone
    BY <1>1, <1>2 DEF Quote!OpensAlone, Quote!WidenedAlone
  <1>7. QuoteHolds
    BY <1>4, <1>5, <1>6 DEF QuoteHolds
  <1> QED BY <1>7, QuoteShows

\* Every step keeps what the argument needs.
LEMMA QuoteKeeps ==
    ASSUME Quote!IInv, [Quote!Next]_(Quote!qvars) PROVE Quote!IInv'
  <1>1. CASE UNCHANGED Quote!qvars
    <2>1. UNCHANGED <<up, entry, stale, streams, calls, openLock, filed, live, refused, sent, pass,
                      losses, replaced>>
      BY <1>1 DEF Quote!qvars
    <2>2. Quote!TypeOK'
      BY <2>1 DEF Quote!IInv, Quote!TypeOK
    <2>3. \A s \in DOMAIN streams : Quote!InUse(s)' <=> Quote!InUse(s)
      BY <2>1 DEF Quote!InUse
    <2>4. Quote!Listened' /\ Quote!OpensAlone' /\ Quote!WidenedAlone'
      BY <2>1, <2>3 DEF Quote!IInv, Quote!Listened, Quote!OpensAlone, Quote!WidenedAlone
    <2>5. Quote!FiledIsHeld' /\ Quote!TicksAreStreamed' /\ Quote!LossIsNoticed'
      BY <2>1 DEF Quote!IInv, Quote!FiledIsHeld, Quote!TicksAreStreamed, Quote!LossIsNoticed
    <2>6. QuoteHolds'
      BY <2>2, <2>4, <2>5 DEF QuoteHolds
    <2>7. (QuoteHolds => Quote!IInv)'
      BY QuoteShows, PTL
    <2> QED BY <2>6, <2>7
  <1>2. CASE Quote!Next
    <2>1. ASSUME NEW c \in Caller,
                 \/ \E ticks \in SUBSET TickType : Quote!Subscribe(c, ticks)
                 \/ Quote!Open(c) \/ Quote!NotOpened(c) \/ Quote!Opened(c)
                 \/ Quote!OpenRefused(c) \/ Quote!Joins(c) \/ Quote!Widen(c)
                 \/ Quote!NothingToWiden(c) \/ Quote!CannotWiden(c) \/ Quote!Widened(c)
                 \/ Quote!RollBack(c)
          PROVE  Quote!IInv'
      <3>1. CASE \/ \E ticks \in SUBSET TickType : Quote!Subscribe(c, ticks)
                 \/ Quote!NotOpened(c) \/ Quote!Joins(c) \/ Quote!NothingToWiden(c)
                 \/ Quote!Widened(c)
        BY <3>1, QuoteCallsKeep
      <3>2. CASE Quote!Open(c)
        BY <3>2, QuoteOpenKeeps
      <3>3. CASE Quote!Opened(c)
        BY <3>3, QuoteOpenedKeeps
      <3>4. CASE Quote!OpenRefused(c)
        BY <3>4, QuoteCancelsKeep
      <3>5. CASE Quote!Widen(c) \/ Quote!CannotWiden(c) \/ Quote!RollBack(c)
        BY <3>5, QuoteWideningKeeps
      <3> QED BY <2>1, <3>1, <3>2, <3>3, <3>4, <3>5
    <2>2. ASSUME NEW i \in 1..MaxRequests, Quote!Refuse(i) \/ Quote!Refused(i) PROVE Quote!IInv'
      BY <2>2, QuoteMarksKeep, QuoteSessionKeeps
    <2> QED BY <1>2, <2>1, <2>2, QuoteCancelsKeep, QuoteMarksKeep, QuoteSessionKeeps,
           QuoteResubscribeKeeps DEF Quote!Next
  <1> QED BY <1>1, <1>2

\* IBKR streams the open stream and nothing else but what a pass replaced, with the ticks
\* every subscriber was granted, and a stream that is shown as live is streamed or its
\* loss is about to be noticed - for any subscribers, ticks, refusals and losses
\* (_QuoteStream, SubscriptionRegistry.add, _resubscribe_pass).
THEOREM QuotesAreHeld == Quote!Spec => []Quote!IInv
  <1>1. Quote!Init => Quote!IInv
    BY QuoteStarts
  <1>2. Quote!IInv /\ [Quote!Next]_(Quote!qvars) => Quote!IInv'
    BY QuoteKeeps
  <1> QED BY <1>1, <1>2, PTL DEF Quote!Spec

-----------------------------------------------------------------------------
(* Orders that are looked for while they move (OrderLookups) *)

\* What the invariant says of one call, with the orders where IBKR has them.
LookupRight(s, where) ==
    /\ s \in Lookups!Call
    /\ s.at \in Lookups!Waiting =>
         /\ s.order \in Lookups!Order /\ where[s.order] \in s.seen
         /\ where[s.order] = "none" => s.seen = {"none"}
         /\ s.at = "completed" => where[s.order] # "open"
         /\ s.at = "sync" => s.order \in Own /\ s.what \in {"status", "cancel"}
         /\ s.at = "refresh" => s.what = "cancel"
         /\ s.at = "wait" => s.order \in Own
    /\ s.at = "over" =>
         /\ s.what \in {"status", "global"} /\ s.says = "not found" /\ s.known => s.seen = {"none"}
         /\ s.what \in {"status", "global"} /\ s.order \in Foreign
               /\ s.says \in {"open"} \cup Lookups!Done => s.says \in s.seen
         /\ s.what = "cancel" /\ s.says \in Lookups!Done => where[s.order] = s.says

LookupStores ==
    /\ ibkr \in [Lookups!Order -> {"none", "open"} \cup Lookups!Done]
    /\ cached \in [Lookups!Order -> {"absent", "open", "stale"} \cup Lookups!Done]
    /\ calls \in [Single -> Lookups!Call]
    /\ \A o \in Own : cached[o] \in Lookups!Done => ibkr[o] = cached[o]

\* The invariant is what it says of the stores and of every call.
LEMMA LookupsByCall ==
    Lookups!IInv <=> LookupStores /\ \A c \in Single : LookupRight(calls[c], ibkr)
  <1> USE DEF Lookups!IInv, Lookups!TypeOK, Lookups!LooksOn, Lookups!CacheIsTrue,
          Lookups!NotFoundIsTrue, Lookups!StatusIsFresh, Lookups!CancelIsTrue,
          Lookups!OnlyOwnCancelled, Lookups!Answers, LookupStores, LookupRight
  <1>1. ASSUME Lookups!IInv PROVE LookupStores /\ \A c \in Single : LookupRight(calls[c], ibkr)
    <2>1. LookupStores
      BY <1>1
    <2>2. ASSUME NEW c \in Single PROVE LookupRight(calls[c], ibkr)
      <3>1. calls[c] \in Lookups!Call
        BY <1>1
      <3>2. CASE calls[c].at = "over"
        <4>1. \A what : calls[c].what \in what => calls[c] \in Lookups!Answers(what)
          BY <3>2
        <4>2. calls[c].what \in {"status", "global"} =>
                 calls[c] \in Lookups!Answers({"status", "global"})
          BY <4>1
        <4>3. calls[c].what = "cancel" => calls[c] \in Lookups!Answers({"cancel"})
          BY <4>1
        <4> HIDE DEF Lookups!Answers
        <4> QED BY <1>1, <3>1, <3>2, <4>2, <4>3 DEF Lookups!Waiting
      <3>3. CASE calls[c].at # "over"
        BY <1>1, <3>1, <3>3
      <3> QED BY <3>2, <3>3
    <2> QED BY <2>1, <2>2
  <1>2. ASSUME LookupStores, \A c \in Single : LookupRight(calls[c], ibkr) PROVE Lookups!IInv
    <2>1. Lookups!TypeOK /\ Lookups!CacheIsTrue
      BY <1>2
    <2>2. Lookups!LooksOn /\ Lookups!OnlyOwnCancelled
      BY <1>2 DEF Lookups!Waiting
    <2>3. Lookups!NotFoundIsTrue
      BY <1>2
    <2>4. Lookups!StatusIsFresh
      <3> SUFFICES ASSUME NEW c \in Single, calls[c].at = "over",
                          calls[c].what \in {"status", "global"}, calls[c].order \in Foreign,
                          calls[c].says \in {"open"} \cup Lookups!Done
                   PROVE  calls[c].says \in calls[c].seen
        OBVIOUS
      <3>1. LookupRight(calls[c], ibkr)
        BY <1>2
      <3> QED BY <3>1
    <2>5. Lookups!CancelIsTrue
      <3> SUFFICES ASSUME NEW c \in Single, calls[c].at = "over", calls[c].what = "cancel",
                          calls[c].says \in Lookups!Done
                   PROVE  ibkr[calls[c].order] = calls[c].says
        OBVIOUS
      <3>1. LookupRight(calls[c], ibkr)
        BY <1>2
      <3> QED BY <3>1
    <2> HIDE DEF Lookups!TypeOK, Lookups!LooksOn, Lookups!CacheIsTrue,
          Lookups!NotFoundIsTrue, Lookups!StatusIsFresh, Lookups!CancelIsTrue,
          Lookups!OnlyOwnCancelled
    <2> QED BY <2>1, <2>2, <2>3, <2>4, <2>5
  <1> QED BY <1>1, <1>2

LEMMA LookupsByCallNext ==
    LookupStores' /\ (\A c \in Single : LookupRight(calls[c], ibkr))' => Lookups!IInv'
  BY LookupsByCall, PTL

LEMMA LookupOrders == /\ Lookups!Order = Own \cup Foreign /\ Own \cap Foreign = {}
                      /\ MaxPolls \in Nat
  BY SessionPartsAssumption DEF Lookups!LookupAssumption, Lookups!Order

LEMMA LookupsStart == Lookups!Init => Lookups!IInv
  <1> SUFFICES ASSUME Lookups!Init PROVE Lookups!IInv
    OBVIOUS
  <1>1. Lookups!Idle \in Lookups!Call
    BY DEF Lookups!Idle, Lookups!Call, Lookups!Words, Lookups!Waiting
  <1>2. Lookups!Idle.at = "idle"
    BY DEF Lookups!Idle
  <1>3. \A c \in Single : calls[c] = Lookups!Idle
    BY DEF Lookups!Init
  <1>4. LookupStores
    BY <1>1, LookupOrders DEF LookupStores, Lookups!Init, Lookups!Done
  <1>5. \A c \in Single : LookupRight(calls[c], ibkr)
    BY <1>1, <1>2, <1>3 DEF LookupRight, Lookups!Waiting
  <1> QED BY <1>4, <1>5, LookupsByCall

\* A step keeps the invariant if its stores are true and the calls it leaves are right.
LEMMA CallsKeep ==
    ASSUME LookupStores', \A c \in Single : LookupRight(calls'[c], ibkr')
    PROVE  Lookups!IInv'
  <1>1. (\A c \in Single : LookupRight(calls[c], ibkr))'
    OBVIOUS
  <1> QED BY <1>1, LookupsByCallNext

\* A step of one call that leaves the orders alone keeps the invariant, if the call it
\* leaves behind is right and the cache is true.
LEMMA OneCallKeeps ==
    ASSUME Lookups!IInv, ibkr' = ibkr,
           cached' \in [Lookups!Order -> {"absent", "open", "stale"} \cup Lookups!Done],
           \A o \in Own : cached'[o] \in Lookups!Done => ibkr[o] = cached'[o],
           NEW c \in Single, NEW s, LookupRight(s, ibkr), calls' = [calls EXCEPT ![c] = s]
    PROVE  Lookups!IInv'
  <1>1. LookupStores /\ \A d \in Single : LookupRight(calls[d], ibkr)
    BY LookupsByCall
  <1>2. s \in Lookups!Call
    BY DEF LookupRight
  <1>3. LookupStores'
    BY <1>1, <1>2 DEF LookupStores
  <1>4. \A d \in Single : LookupRight(calls'[d], ibkr')
    BY <1>1 DEF LookupStores
  <1> QED BY <1>3, <1>4, CallsKeep

\* The cache is no less true for the open orders it is told of.
LEMMA ListsAreCached ==
    ASSUME LookupStores
    PROVE  \A tale \in {Lookups!Listed, Lookups!Resynced, cached} :
              /\ tale \in [Lookups!Order -> {"absent", "open", "stale"} \cup Lookups!Done]
              /\ \A o \in Own : tale[o] \in Lookups!Done => ibkr[o] = tale[o]
  BY LookupOrders DEF LookupStores, Lookups!Listed, Lookups!Resynced, Lookups!Done

\* A call that begins knows where its order is.
LEMMA BegunRight ==
    ASSUME LookupStores, NEW o \in Lookups!Order,
           NEW what \in {"status", "cancel", "global"}
    PROVE  LET s == Lookups!Begun(what, o)
           IN /\ LookupRight(s, ibkr) /\ s.at = "open" /\ s.order = o /\ s.what = what
              /\ s.seen = {ibkr[o]}
  BY DEF LookupStores, LookupRight, Lookups!Begun, Lookups!Idle, Lookups!Call, Lookups!Words,
         Lookups!Waiting, Lookups!Done

\* What a waiting call says next is right where the cases of its order are.
LEMMA SaidRight ==
    ASSUME NEW s, LookupRight(s, ibkr), s.at \in Lookups!Waiting, NEW says \in Lookups!Words,
           s.what \in {"status", "global"} /\ says = "not found" /\ s.known => s.seen = {"none"},
           s.what \in {"status", "global"} /\ s.order \in Foreign
              /\ says \in {"open"} \cup Lookups!Done => says \in s.seen,
           s.what = "cancel" /\ says \in Lookups!Done => ibkr[s.order] = says
    PROVE  LookupRight(Lookups!Says(s, says), ibkr)
  <1>1. Lookups!Says(s, says) \in Lookups!Call
    BY DEF LookupRight, Lookups!Says, Lookups!Call
  <1>2. LET t == Lookups!Says(s, says)
        IN /\ t.at = "over" /\ t.says = says /\ t.what = s.what /\ t.order = s.order
           /\ t.known = s.known /\ t.seen = s.seen
    BY DEF LookupRight, Lookups!Says, Lookups!Call
  <1> QED BY <1>1, <1>2 DEF LookupRight, Lookups!Waiting

\* What a waiting call waits for next is right where its order is.
LEMMA MovedRight ==
    ASSUME NEW s, LookupRight(s, ibkr), s.at \in Lookups!Waiting, NEW at \in Lookups!Waiting,
           at = "completed" => ibkr[s.order] # "open",
           at \in {"sync", "wait"} => s.order \in Own,
           at = "sync" => s.what \in {"status", "cancel"},
           at = "refresh" => s.what = "cancel"
    PROVE  LookupRight([s EXCEPT !.at = at], ibkr)
  <1>1. [s EXCEPT !.at = at] \in Lookups!Call
    BY DEF LookupRight, Lookups!Call
  <1>2. LET t == [s EXCEPT !.at = at]
        IN t.at = at /\ t.what = s.what /\ t.order = s.order /\ t.seen = s.seen
    BY DEF LookupRight, Lookups!Call
  <1> QED BY <1>1, <1>2 DEF LookupRight, Lookups!Waiting

\* After a sync, heard or not, the call is right: the cache is.
LEMMA AfterSyncRight ==
    ASSUME LookupStores, NEW s, LookupRight(s, ibkr), s.at \in {"sync", "refresh"},
           NEW tale \in {Lookups!Resynced, cached}
    PROVE  LookupRight(Lookups!AfterSync(s, tale), ibkr)
  <1>1. /\ s.at \in Lookups!Waiting /\ s.order \in Lookups!Order
        /\ s.what = "status" => s.order \in Own
        /\ s.what \in {"", "status", "cancel", "global"}
    BY DEF Lookups!Waiting, LookupRight, Lookups!Call
  <1>2. tale[s.order] \in {"absent", "open", "stale"} \cup Lookups!Done
    BY <1>1, ListsAreCached
  <1>3. CASE s.what = "status"
    <2>1. Lookups!Shown(tale[s.order]) \in Lookups!Words \ {"not found"}
      BY <1>2 DEF Lookups!Shown, Lookups!Words, Lookups!Done
    <2>2. s.order \notin Foreign
      BY <1>1, <1>3, LookupOrders
    <2>3. Lookups!AfterSync(s, tale) = Lookups!Says(s, Lookups!Shown(tale[s.order]))
      BY <1>3 DEF Lookups!AfterSync
    <2> QED BY <1>1, <1>3, <2>1, <2>2, <2>3, SaidRight
  <1>4. CASE s.what # "status"
    <2>1. s.what = "cancel"
      BY <1>1, <1>4 DEF LookupRight
    <2>2. CASE tale[s.order] = "absent" \/ s.order \in Foreign \/ tale[s.order] # "open"
      <3>1. PICK says \in {"not found", "not ours", "not open"} :
               Lookups!AfterSync(s, tale) = Lookups!Says(s, says)
        BY <1>4, <2>2 DEF Lookups!AfterSync
      <3>2. says \in Lookups!Words \ Lookups!Done
        BY DEF Lookups!Words, Lookups!Done
      <3> QED BY <1>1, <2>1, <3>1, <3>2, SaidRight
    <2>3. CASE ~(tale[s.order] = "absent" \/ s.order \in Foreign \/ tale[s.order] # "open")
      <3>1. Lookups!AfterSync(s, tale) = [s EXCEPT !.at = "wait"]
        BY <1>4, <2>3 DEF Lookups!AfterSync
      <3>2. s.order \in Own /\ "wait" \in Lookups!Waiting
        BY <1>1, <2>3, LookupOrders DEF Lookups!Waiting
      <3> QED BY <1>1, <3>1, <3>2, MovedRight
    <2> QED BY <2>2, <2>3
  <1> QED BY <1>3, <1>4

\* After a list, the call is right: it has what the list has, or asks for the next.
LEMMA AfterListRight ==
    ASSUME LookupStores, NEW s, LookupRight(s, ibkr),
           s.at = "completed" \/ (s.at = "open" /\ s.what = "status")
    PROVE  LookupRight(Lookups!AfterList(s), ibkr)
  <1>1. /\ s.at \in Lookups!Waiting /\ s.order \in Lookups!Order
        /\ ibkr[s.order] \in s.seen /\ (ibkr[s.order] = "none" => s.seen = {"none"})
        /\ s.at = "completed" => ibkr[s.order] # "open"
    BY DEF Lookups!Waiting, LookupRight
  <1>2. ibkr[s.order] \in {"none", "open"} \cup Lookups!Done
    BY <1>1 DEF LookupStores
  <1>3. Lookups!Lists[1] = "open" /\ Lookups!Lists[2] = "completed"
    BY DEF Lookups!Lists
  <1>4. CASE Lookups!InList(s) # "no"
    <2>1. Lookups!InList(s) = ibkr[s.order] /\ ibkr[s.order] \in {"open"} \cup Lookups!Done
      BY <1>4 DEF Lookups!InList, Lookups!Done
    <2>2. Lookups!AfterList(s) = Lookups!Says(s, ibkr[s.order])
      BY <1>4, <2>1 DEF Lookups!AfterList
    <2>3. ibkr[s.order] \in Lookups!Words /\ ibkr[s.order] # "not found"
      BY <2>1 DEF Lookups!Words, Lookups!Done
    <2> QED BY <1>1, <2>2, <2>3, SaidRight
  <1>5. CASE Lookups!InList(s) = "no" /\ s.what = "status" /\ s.at = "open"
    <2>1. Lookups!AfterList(s) = [s EXCEPT !.at = "completed"]
      BY <1>3, <1>5 DEF Lookups!AfterList
    <2>2. ibkr[s.order] # "open" /\ "completed" \in Lookups!Waiting
      BY <1>5 DEF Lookups!InList, Lookups!Waiting
    <2> QED BY <1>1, <2>1, <2>2, MovedRight
  <1>6. CASE Lookups!InList(s) = "no" /\ ~(s.what = "status" /\ s.at = "open")
    <2>1. Lookups!AfterList(s) = Lookups!Says(s, "not found")
      BY <1>3, <1>6 DEF Lookups!AfterList
    <2>2. "not found" \in Lookups!Words /\ "not found" \notin {"open"} \cup Lookups!Done
      BY DEF Lookups!Words, Lookups!Done
    <2>3. ASSUME s.what \in {"status", "global"}, s.known PROVE s.seen = {"none"}
      <3>1. CASE s.at = "completed"
        <4>1. ibkr[s.order] \notin Lookups!Done
          BY <1>6, <2>3, <3>1 DEF Lookups!InList, Lookups!Done
        <4> QED BY <1>1, <1>2, <3>1, <4>1
      <3>2. CASE s.at = "open"
        BY <1>6, <2>3, <3>2
      <3> QED BY <3>1, <3>2
    <2> QED BY <1>1, <2>1, <2>2, <2>3, SaidRight
  <1> QED BY <1>4, <1>5, <1>6

\* order_status begins: what the cache has is told of a current order alone.
LEMMA LookupsStatusKeeps ==
    ASSUME Lookups!IInv, NEW c \in Single, NEW o \in Lookups!Order, NEW byPermId \in BOOLEAN,
           Lookups!Status(c, o, byPermId)
    PROVE  Lookups!IInv'
  <1>1. LookupStores
    BY LookupsByCall
  <1> DEFINE s == [Lookups!Begun("status", o) EXCEPT !.known = byPermId \/ o \in remembered]
             then == IF ~Lookups!Current(o) THEN [s EXCEPT !.at = Lookups!Lists[1]]
                     ELSE IF cached[o] = "stale" THEN [s EXCEPT !.at = "sync"]
                     ELSE Lookups!Says(s, cached[o])
  <1>2. /\ calls' = [calls EXCEPT ![c] = then]
        /\ UNCHANGED <<ibkr, cached>>
    BY DEF Lookups!Status
  <1>3. /\ LookupRight(s, ibkr) /\ s.at \in Lookups!Waiting
        /\ s.what = "status" /\ s.order = o
    <2>1. LET b == Lookups!Begun("status", o)
          IN /\ LookupRight(b, ibkr) /\ b.at = "open" /\ b.order = o /\ b.what = "status"
      BY <1>1, BegunRight
    <2>2. (byPermId \/ o \in remembered) \in BOOLEAN
      OBVIOUS
    <2> QED BY <2>1, <2>2 DEF LookupRight, Lookups!Call, Lookups!Waiting
  <1> HIDE DEF s
  <1>4. CASE ~Lookups!Current(o)
    <2>1. then = [s EXCEPT !.at = "open"] /\ "open" \in Lookups!Waiting
      BY <1>4 DEF Lookups!Lists, Lookups!Waiting
    <2>2. LookupRight(then, ibkr)
      BY <1>3, <2>1, MovedRight
    <2> QED BY <1>1, <1>2, <2>2, ListsAreCached, OneCallKeeps
  <1>5. CASE Lookups!Current(o) /\ cached[o] = "stale"
    <2>1. then = [s EXCEPT !.at = "sync"] /\ "sync" \in Lookups!Waiting /\ o \in Own
      BY <1>5 DEF Lookups!Waiting, Lookups!Current
    <2>2. LookupRight(then, ibkr)
      BY <1>3, <2>1, MovedRight
    <2> QED BY <1>1, <1>2, <2>2, ListsAreCached, OneCallKeeps
  <1>6. CASE Lookups!Current(o) /\ cached[o] # "stale"
    <2>1. /\ then = Lookups!Says(s, cached[o]) /\ o \notin Foreign
          /\ cached[o] \in Lookups!Words /\ cached[o] # "not found"
      BY <1>1, <1>6, LookupOrders DEF Lookups!Current, LookupStores, Lookups!Words, Lookups!Done
    <2> HIDE DEF then
    <2>2. /\ s.order \notin Foreign /\ s.what # "cancel"
      BY <1>3, <2>1
    <2>3. LookupRight(Lookups!Says(s, cached[o]), ibkr)
      BY <1>3, <2>1, <2>2, SaidRight
    <2>4. LookupRight(then, ibkr)
      BY <2>1, <2>3
    <2> QED BY <1>1, <1>2, <2>4, ListsAreCached, OneCallKeeps
  <1> QED BY <1>4, <1>5, <1>6

\* A list comes.
LEMMA LookupsListKeeps ==
    ASSUME Lookups!IInv, NEW c \in Single, Lookups!ListComes(c)
    PROVE  Lookups!IInv'
  <1>1. LookupStores /\ LookupRight(calls[c], ibkr)
    BY LookupsByCall
  <1>2. LookupRight(Lookups!AfterList(calls[c]), ibkr)
    BY <1>1, AfterListRight DEF Lookups!ListComes
  <1>3. /\ calls' = [calls EXCEPT ![c] = Lookups!AfterList(calls[c])] /\ ibkr' = ibkr
        /\ cached' \in {Lookups!Listed, cached}
    BY DEF Lookups!ListComes
  <1> QED BY <1>1, <1>2, <1>3, ListsAreCached, OneCallKeeps

\* cancel begins: of another's order it is refused at once.
LEMMA LookupsCancelKeeps ==
    ASSUME Lookups!IInv, NEW c \in Single, NEW o \in Lookups!Order, Lookups!Cancel(c, o)
    PROVE  Lookups!IInv'
  <1>1. LookupStores
    BY LookupsByCall
  <1> DEFINE s == Lookups!Begun("cancel", o)
             then == IF o \notin Own /\ cached[o] # "absent" THEN Lookups!Says(s, "not ours")
                     ELSE IF cached[o] = "stale" THEN [s EXCEPT !.at = "sync"]
                     ELSE IF cached[o] = "absent" THEN [s EXCEPT !.at = "refresh"]
                     ELSE Lookups!Try(s)
  <1>2. calls' = [calls EXCEPT ![c] = then] /\ UNCHANGED <<ibkr, cached>>
    BY DEF Lookups!Cancel
  <1>3. /\ LookupRight(s, ibkr) /\ s.at \in Lookups!Waiting
        /\ s.what = "cancel" /\ s.order = o
    BY <1>1, BegunRight DEF Lookups!Waiting
  <1> HIDE DEF s
  <1>4. {"sync", "refresh", "wait"} \subseteq Lookups!Waiting
    BY DEF Lookups!Waiting
  <1>5. {"not ours", "not open"} \subseteq Lookups!Words \ Lookups!Done
    BY DEF Lookups!Words, Lookups!Done
  <1>6. LookupRight(then, ibkr)
    <2>1. CASE o \notin Own /\ cached[o] # "absent"
      BY <1>3, <1>5, <2>1, SaidRight
    <2>2. CASE ~(o \notin Own /\ cached[o] # "absent") /\ cached[o] = "stale"
      BY <1>3, <1>4, <2>2, MovedRight
    <2>3. CASE cached[o] = "absent"
      BY <1>3, <1>4, <2>3, MovedRight
    <2>4. CASE o \in Own /\ cached[o] \notin {"absent", "stale"}
      <3>1. then = Lookups!Try(s)
        BY <2>4
      <3>2. CASE cached[o] = "open"
        BY <1>3, <1>4, <2>4, <3>1, <3>2, MovedRight DEF Lookups!Try
      <3>3. CASE cached[o] # "open"
        <4>1. Lookups!Try(s) = Lookups!Says(s, "not open")
          BY <1>3, <3>3 DEF Lookups!Try
        <4>2. LookupRight(Lookups!Says(s, "not open"), ibkr)
          <5>1. /\ "not open" \in Lookups!Words /\ "not open" \notin Lookups!Done
                /\ s.what \notin {"status", "global"}
            BY <1>3, <1>5
          <5> QED BY <1>3, <5>1, SaidRight
        <4> HIDE DEF then
        <4> QED BY <3>1, <4>1, <4>2
      <3> QED BY <3>2, <3>3
    <2> QED BY <2>1, <2>2, <2>3, <2>4
  <1> QED BY <1>1, <1>2, <1>6, ListsAreCached, OneCallKeeps

LEMMA LookupsSyncKeeps ==
    ASSUME Lookups!IInv, NEW c \in Single, Lookups!Sync(c)
    PROVE  Lookups!IInv'
  <1>1. LookupStores /\ LookupRight(calls[c], ibkr)
    BY LookupsByCall
  <1>2. LookupRight(Lookups!AfterSync(calls[c], Lookups!Resynced), ibkr)
    BY <1>1, AfterSyncRight DEF Lookups!Sync
  <1>3. /\ calls' = [calls EXCEPT ![c] = Lookups!AfterSync(calls[c], Lookups!Resynced)]
        /\ ibkr' = ibkr /\ cached' = Lookups!Resynced
    BY DEF Lookups!Sync
  <1> QED BY <1>1, <1>2, <1>3, ListsAreCached, OneCallKeeps

\* An error is no answer about an order.
LEMMA ErrorRight ==
    ASSUME NEW s, LookupRight(s, ibkr), s.at \in Lookups!Waiting
    PROVE  LookupRight(Lookups!Says(s, "error"), ibkr)
  <1>1. "error" \in Lookups!Words /\ "error" \notin {"open"} \cup Lookups!Done
    BY DEF Lookups!Words, Lookups!Done
  <1> QED BY <1>1, SaidRight

LEMMA LookupsFailKeeps ==
    ASSUME Lookups!IInv, NEW c \in Single, Lookups!Fail(c)
    PROVE  Lookups!IInv'
  <1>1. LookupStores /\ LookupRight(calls[c], ibkr)
    BY LookupsByCall
  <1> DEFINE then == IF calls[c].at = "sync" THEN Lookups!AfterSync(calls[c], cached)
                     ELSE Lookups!Says(calls[c], "error")
  <1>2. /\ calls' = [calls EXCEPT ![c] = then] /\ UNCHANGED <<ibkr, cached>>
        /\ calls[c].at \in Lookups!Waiting
    BY DEF Lookups!Fail, Lookups!Waiting
  <1>3. LookupRight(then, ibkr)
    BY <1>1, <1>2, AfterSyncRight, ErrorRight
  <1> QED BY <1>1, <1>2, <1>3, ListsAreCached, OneCallKeeps

\* What a cancel makes of the cache at the end of its wait is so.
LEMMA ResultRight ==
    ASSUME LookupStores, NEW s, LookupRight(s, ibkr), s.at = "wait"
    PROVE  LookupRight(Lookups!Says(s, Lookups!Result(s)), ibkr)
  <1>1. s.at \in Lookups!Waiting /\ s.order \in Own /\ s.order \in Lookups!Order
    BY DEF Lookups!Waiting, LookupRight
  <1>2. s.order \notin Foreign
    BY <1>1, LookupOrders
  <1>3. Lookups!Result(s) \in {"refused", "unconfirmed"} \cup Lookups!Done
    BY DEF Lookups!Result
  <1>4. Lookups!Result(s) \in Lookups!Done => ibkr[s.order] = Lookups!Result(s)
    BY <1>1 DEF Lookups!Result, LookupStores, Lookups!Done
  <1>5. Lookups!Result(s) \in Lookups!Words /\ Lookups!Result(s) # "not found"
    BY <1>3 DEF Lookups!Words, Lookups!Done
  <1> QED BY <1>1, <1>2, <1>4, <1>5, SaidRight

LEMMA LookupsWaitedKeeps ==
    ASSUME Lookups!IInv, NEW c \in Single, Lookups!Waited(c)
    PROVE  Lookups!IInv'
  <1>1. LookupStores /\ LookupRight(calls[c], ibkr)
    BY LookupsByCall
  <1>2. LookupRight(Lookups!Says(calls[c], Lookups!Result(calls[c])), ibkr)
    BY <1>1, ResultRight DEF Lookups!Waited
  <1>3. /\ calls' = [calls EXCEPT ![c] = Lookups!Says(calls[c], Lookups!Result(calls[c]))]
        /\ UNCHANGED <<ibkr, cached>>
    BY DEF Lookups!Waited
  <1> QED BY <1>1, <1>2, <1>3, ListsAreCached, OneCallKeeps

LEMMA LookupsGlobalKeeps ==
    ASSUME Lookups!IInv, NEW c \in Single, NEW o \in Lookups!Order, Lookups!GlobalCancel(c, o)
    PROVE  Lookups!IInv'
  <1>1. LookupStores
    BY LookupsByCall
  <1>2. LookupRight(Lookups!Begun("global", o), ibkr)
    BY <1>1, BegunRight
  <1>3. /\ calls' = [calls EXCEPT ![c] = Lookups!Begun("global", o)]
        /\ UNCHANGED <<ibkr, cached>>
    BY DEF Lookups!GlobalCancel
  <1> QED BY <1>1, <1>2, <1>3, ListsAreCached, OneCallKeeps

\* An order of another that is asked for again was open, or is looked for in the next list.
LEMMA LookupsPollKeeps ==
    ASSUME Lookups!IInv, NEW c \in Single, Lookups!Poll(c)
    PROVE  Lookups!IInv'
  <1> DEFINE s == calls[c]
  <1>1. /\ LookupStores /\ LookupRight(s, ibkr) /\ s.at = "open" /\ s.what = "global"
        /\ s.at \in Lookups!Waiting
    BY LookupsByCall DEF Lookups!Poll, Lookups!Waiting
  <1>2. PICK again \in BOOLEAN :
           calls' = [calls EXCEPT ![c] =
                       IF Lookups!InList(s) = "no" THEN [s EXCEPT !.at = "completed"]
                       ELSE IF again /\ s.polls < MaxPolls THEN [s EXCEPT !.polls = @ + 1]
                       ELSE Lookups!Says(s, "open")]
    BY DEF Lookups!Poll
  <1>3. ibkr' = ibkr /\ cached' = Lookups!Listed
    BY DEF Lookups!Poll
  <1>4. CASE Lookups!InList(s) = "no"
    <2>1. "completed" \in Lookups!Waiting /\ ibkr[s.order] # "open"
      BY <1>1, <1>4 DEF Lookups!Waiting, Lookups!InList
    <2>2. LookupRight([s EXCEPT !.at = "completed"], ibkr)
      BY <1>1, <2>1, MovedRight
    <2> QED BY <1>1, <1>2, <1>3, <1>4, <2>2, ListsAreCached, OneCallKeeps
  <1>5. CASE Lookups!InList(s) # "no" /\ again /\ s.polls < MaxPolls
    <2> DEFINE t == [s EXCEPT !.polls = s.polls + 1]
    <2>1. s \in Lookups!Call
      BY <1>1 DEF LookupRight
    <2>2. /\ t \in Lookups!Call /\ t.at = s.at /\ t.what = s.what /\ t.order = s.order
          /\ t.seen = s.seen
      <3>1. s.polls \in Nat
        BY <2>1 DEF Lookups!Call
      <3>2. s.polls + 1 \in Nat
        BY <3>1
      <3> QED BY <2>1, <3>2 DEF Lookups!Call
    <2> HIDE DEF t
    <2>3. LookupRight(t, ibkr)
      BY <1>1, <2>2 DEF LookupRight
    <2>4. calls' = [calls EXCEPT ![c] = t]
      BY <1>2, <1>5 DEF t
    <2> QED BY <1>1, <1>3, <2>3, <2>4, ListsAreCached, OneCallKeeps
  <1>6. CASE Lookups!InList(s) # "no" /\ ~(again /\ s.polls < MaxPolls)
    <2>1. ibkr[s.order] = "open" /\ ibkr[s.order] \in s.seen
      BY <1>1, <1>6 DEF Lookups!InList, LookupRight
    <2>2. "open" \in Lookups!Words /\ "open" \notin Lookups!Done
      BY DEF Lookups!Words, Lookups!Done
    <2>3. LookupRight(Lookups!Says(s, "open"), ibkr)
      BY <1>1, <2>1, <2>2, SaidRight
    <2> QED BY <1>1, <1>2, <1>3, <1>6, <2>3, ListsAreCached, OneCallKeeps
  <1> QED BY <1>4, <1>5, <1>6

\* An order moves: every call that waits sees where it is now.
LEMMA LookupsMovesKeeps ==
    ASSUME Lookups!IInv, NEW o \in Lookups!Order, NEW to \in Lookups!Done, Lookups!Moves(o, to)
    PROVE  Lookups!IInv'
  <1>1. LookupStores /\ \A c \in Single : LookupRight(calls[c], ibkr)
    BY LookupsByCall
  <1>2. /\ ibkr[o] = "open" /\ ibkr' = [ibkr EXCEPT ![o] = to] /\ cached' = cached
        /\ calls' = Lookups!Seen(ibkr')
    BY DEF Lookups!Moves
  <1>3. /\ ibkr' \in [Lookups!Order -> {"none", "open"} \cup Lookups!Done]
        /\ to \notin {"none", "open"}
    BY <1>1, <1>2 DEF LookupStores, Lookups!Done
  <1>4. \A c \in Single : LookupRight(calls'[c], ibkr')
    <2> SUFFICES ASSUME NEW c \in Single PROVE LookupRight(calls'[c], ibkr')
      OBVIOUS
    <2> DEFINE s == calls[c]
               t == [s EXCEPT !.seen = @ \cup {ibkr'[s.order]}]
    <2>1. LookupRight(s, ibkr) /\ s \in Lookups!Call
      BY <1>1 DEF LookupRight
    <2>2. CASE s.at \in Lookups!Waiting
      <3>1. calls'[c] = t
        BY <1>2, <2>2 DEF Lookups!Seen
      <3>2. s.order \in Lookups!Order
        BY <2>1, <2>2 DEF LookupRight
      <3>3. /\ t \in Lookups!Call /\ t.at = s.at /\ t.order = s.order /\ t.what = s.what
            /\ t.seen = s.seen \cup {ibkr'[s.order]}
        BY <1>3, <2>1, <3>2 DEF Lookups!Call
      <3>4. ibkr'[s.order] = IF s.order = o THEN to ELSE ibkr[s.order]
        BY <1>1, <1>2, <3>2 DEF LookupStores
      <3>5. s.at # "over"
        BY <2>2 DEF Lookups!Waiting
      <3> HIDE DEF t
      <3> QED BY <1>3, <2>1, <2>2, <3>1, <3>2, <3>3, <3>4, <3>5 DEF LookupRight
    <2>3. CASE s.at \notin Lookups!Waiting
      <3>1. calls'[c] = s
        BY <1>2, <2>3 DEF Lookups!Seen
      <3>2. ASSUME s.says \in Lookups!Done, ibkr[s.order] = s.says
            PROVE  ibkr'[s.order] = s.says
        <4>1. ibkr[s.order] # "open"
          BY <3>2 DEF Lookups!Done
        <4> QED BY <1>1, <1>2, <3>2, <4>1 DEF LookupStores
      <3> QED BY <2>1, <2>3, <3>1, <3>2 DEF LookupRight
    <2> QED BY <2>2, <2>3
  <1>5. calls' \in [Single -> Lookups!Call]
    <2>1. calls' = [c \in Single |-> calls'[c]]
      BY <1>2 DEF Lookups!Seen
    <2> QED BY <1>4, <2>1 DEF LookupRight
  <1>6. LookupStores'
    <2>1. ASSUME NEW p \in Own, cached'[p] \in Lookups!Done PROVE ibkr'[p] = cached'[p]
      <3>1. ibkr[p] = cached[p] /\ ibkr[p] # "open"
        BY <1>1, <1>2, <2>1 DEF LookupStores, Lookups!Done
      <3> QED BY <1>1, <1>2, <3>1 DEF LookupStores
    <2> QED BY <1>1, <1>2, <1>3, <1>5, <2>1 DEF LookupStores
  <1> QED BY <1>4, <1>6, CallsKeep

LEMMA LookupsStatusComesKeeps ==
    ASSUME Lookups!IInv, NEW o \in Lookups!Order, Lookups!StatusComes(o)
    PROVE  Lookups!IInv'
  <1>1. LookupStores /\ \A c \in Single : LookupRight(calls[c], ibkr)
    BY LookupsByCall
  <1>2. LookupStores'
    BY <1>1 DEF LookupStores, Lookups!StatusComes
  <1>3. calls' = calls /\ ibkr' = ibkr
    BY DEF Lookups!StatusComes
  <1> QED BY <1>1, <1>2, <1>3, CallsKeep

\* An error about an order spoils its cached copy, and the cancels that wait for it.
LEMMA LookupsComplainsKeeps ==
    ASSUME Lookups!IInv, NEW o \in Lookups!Order, Lookups!Complains(o)
    PROVE  Lookups!IInv'
  <1>1. LookupStores /\ \A c \in Single : LookupRight(calls[c], ibkr)
    BY LookupsByCall
  <1>2. /\ ibkr' = ibkr /\ cached' = [cached EXCEPT ![o] = "stale"]
        /\ calls' = [c \in Single |-> IF calls[c].at = "wait" /\ calls[c].order = o
                                       THEN [calls[c] EXCEPT !.failed = TRUE] ELSE calls[c]]
    BY DEF Lookups!Complains
  <1>3. \A c \in Single : LookupRight(calls'[c], ibkr')
    <2> SUFFICES ASSUME NEW c \in Single PROVE LookupRight(calls'[c], ibkr')
      OBVIOUS
    <2>1. LookupRight(calls[c], ibkr)
      BY <1>1
    <2>2. LookupRight([calls[c] EXCEPT !.failed = TRUE], ibkr)
      BY <2>1 DEF LookupRight, Lookups!Call
    <2> QED BY <1>2, <2>1, <2>2
  <1>4. calls' \in [Single -> Lookups!Call]
    <2>1. calls' = [c \in Single |-> calls'[c]]
      BY <1>2
    <2> QED BY <1>3, <2>1 DEF LookupRight
  <1>5. LookupStores'
    BY <1>1, <1>2, <1>4 DEF LookupStores, Lookups!Done
  <1> QED BY <1>3, <1>5, CallsKeep

\* A new session: every call that waited is over, and what it says is right.
LEMMA LookupsResetKeeps ==
    ASSUME Lookups!IInv, Lookups!Reset
    PROVE  Lookups!IInv'
  <1>1. LookupStores /\ \A c \in Single : LookupRight(calls[c], ibkr)
    BY LookupsByCall
  <1> DEFINE then(c) == CASE calls[c].at = "sync" -> Lookups!AfterSync(calls[c], cached)
                          [] calls[c].at = "wait" ->
                               Lookups!Says(calls[c], Lookups!Result(calls[c]))
                          [] calls[c].at \in {"refresh", "open", "completed"} ->
                               Lookups!Says(calls[c], "error")
                          [] OTHER -> calls[c]
  <1>2. /\ ibkr' = ibkr /\ calls' = [c \in Single |-> then(c)]
        /\ cached' = [o \in Lookups!Order |-> IF o \in Own /\ ibkr[o] = "open" THEN "open" ELSE "absent"]
    BY DEF Lookups!Reset
  <1>3. \A c \in Single : LookupRight(then(c), ibkr)
    <2> SUFFICES ASSUME NEW c \in Single PROVE LookupRight(then(c), ibkr)
      OBVIOUS
    <2>1. LookupRight(calls[c], ibkr)
      BY <1>1
    <2>2. CASE calls[c].at = "sync"
      BY <1>1, <2>1, <2>2, AfterSyncRight
    <2>3. CASE calls[c].at = "wait"
      BY <1>1, <2>1, <2>3, ResultRight
    <2>4. CASE calls[c].at \in {"refresh", "open", "completed"}
      <3>1. calls[c].at \in Lookups!Waiting
        BY <2>4 DEF Lookups!Waiting
      <3>2. LookupRight(Lookups!Says(calls[c], "error"), ibkr)
        BY <2>1, <3>1, ErrorRight
      <3> QED BY <2>4, <3>2
    <2>5. CASE calls[c].at \notin {"sync", "wait", "refresh", "open", "completed"}
      BY <2>1, <2>5
    <2> QED BY <2>2, <2>3, <2>4, <2>5
  <1> HIDE DEF then
  <1>4. \A c \in Single : LookupRight(calls'[c], ibkr')
    BY <1>2, <1>3
  <1>5. calls' \in [Single -> Lookups!Call]
    BY <1>2, <1>3 DEF LookupRight
  <1>6. LookupStores'
    <2>1. cached' \in [Lookups!Order -> {"absent", "open", "stale"} \cup Lookups!Done]
      BY <1>2
    <2>2. \A o \in Own : cached'[o] \notin Lookups!Done
      BY <1>2, LookupOrders DEF Lookups!Done
    <2> QED BY <1>1, <1>2, <1>5, <2>1, <2>2 DEF LookupStores
  <1> QED BY <1>4, <1>6, CallsKeep

LEMMA LookupsKeep ==
    ASSUME Lookups!IInv, [Lookups!Next]_Lookups!vars
    PROVE  Lookups!IInv'
  <1>1. CASE \E c \in Single : \/ Lookups!ListComes(c) \/ Lookups!Sync(c) \/ Lookups!Fail(c)
                                 \/ Lookups!Waited(c) \/ Lookups!Poll(c)
    BY <1>1, LookupsListKeeps, LookupsSyncKeeps, LookupsFailKeeps, LookupsWaitedKeeps,
       LookupsPollKeeps
  <1>2. CASE \E c \in Single, o \in Lookups!Order, byPermId \in BOOLEAN :
                Lookups!Status(c, o, byPermId)
    BY <1>2, LookupsStatusKeeps
  <1>3. CASE \E c \in Single, o \in Lookups!Order :
                Lookups!Cancel(c, o) \/ Lookups!GlobalCancel(c, o)
    BY <1>3, LookupsCancelKeeps, LookupsGlobalKeeps
  <1>4. CASE \E o \in Lookups!Order, to \in Lookups!Done : Lookups!Moves(o, to)
    BY <1>4, LookupsMovesKeeps
  <1>5. CASE \E o \in Lookups!Order : Lookups!StatusComes(o) \/ Lookups!Complains(o)
    BY <1>5, LookupsStatusComesKeeps, LookupsComplainsKeeps
  <1>6. CASE Lookups!Reset
    BY <1>6, LookupsResetKeeps
  <1>7. CASE UNCHANGED Lookups!vars
    <2>1. LookupStores /\ \A c \in Single : LookupRight(calls[c], ibkr)
      BY LookupsByCall
    <2>2. LookupStores'
      BY <1>7, <2>1 DEF LookupStores, Lookups!vars
    <2> QED BY <1>7, <2>1, <2>2, CallsKeep DEF Lookups!vars
  <1> QED BY <1>1, <1>2, <1>3, <1>4, <1>5, <1>6, <1>7 DEF Lookups!Next

-----------------------------------------------------------------------------
(* Brackets and cancel-all (Brackets) *)

\* Messages about a set of orders, in a row: all of them and nothing else.
LEMMA BracketRow ==
    ASSUME NEW what, NEW S \in SUBSET Bracket!Orders
    PROVE  LET row == Bracket!InARow({Bracket!Message(what, o) : o \in S}) IN
           /\ row \in Seq({Bracket!Message(what, o) : o \in S})
           /\ \A i \in DOMAIN row : \E o \in S : row[i] = Bracket!Message(what, o)
           /\ \A o \in S : \E i \in DOMAIN row : row[i] = Bracket!Message(what, o)
  <1> DEFINE T == {Bracket!Message(what, o) : o \in S}
  <1>1. IsFiniteSet(T)
    <2> DEFINE U == {Bracket!Message(what, 1), Bracket!Message(what, 2), Bracket!Message(what, 3)}
    <2>1. \A a, b, c : IsFiniteSet({a, b, c})
      <3> TAKE a, b, c
      <3>1. IsFiniteSet({} \cup {a})
        BY FS_EmptySet, FS_AddElement
      <3>2. IsFiniteSet(({} \cup {a}) \cup {b})
        BY <3>1, FS_AddElement
      <3>3. IsFiniteSet((({} \cup {a}) \cup {b}) \cup {c})
        BY <3>2, FS_AddElement
      <3>4. (({} \cup {a}) \cup {b}) \cup {c} = {a, b, c}
        OBVIOUS
      <3> QED BY <3>3, <3>4
    <2>2. IsFiniteSet(U)
      BY <2>1
    <2>3. S \subseteq {1, 2, 3}
      BY DEF Bracket!Orders
    <2>4. T \subseteq U
      BY <2>3
    <2> HIDE DEF T, U
    <2> QED BY <2>2, <2>4, FS_Subset
  <1> HIDE DEF T
  <1> DEFINE n == Cardinality(T)
  <1>2. n \in Nat /\ \E f \in [1..n -> T] : f \in Bijection(1..n, T)
    BY <1>1, FS_CardinalityType DEF ExistsBijection, Bijection, Injection
  <1>3. Bracket!Cardinality(T) = n
    BY DEF Bracket!Cardinality, Cardinality
  <1> DEFINE row == Bracket!InARow(T)
  <1>4. row = CHOOSE f \in [1..n -> T] : \A a, b \in DOMAIN f : f[a] = f[b] => a = b
    BY <1>3 DEF Bracket!InARow, Bracket!IsInjective
  <1> HIDE DEF n
  <1>5. row \in [1..n -> T] /\ \A a, b \in DOMAIN row : row[a] = row[b] => a = b
    <2>1. \E f \in [1..n -> T] : \A a, b \in DOMAIN f : f[a] = f[b] => a = b
      BY <1>2 DEF Bijection, Injection, IsInjective
    <2> HIDE DEF row
    <2> QED BY <1>4, <2>1
  <1> HIDE DEF row
  <1>6. \A x \in T : \E i \in 1..n : row[i] = x
    <2>1. row \in Injection(1..n, T)
      BY <1>5 DEF Injection, IsInjective
    <2>2. Cardinality(1..n) = n
      BY <1>2, FS_Interval
    <2>3. row \in Surjection(1..n, T)
      BY <1>1, <2>1, <2>2, FS_Injection DEF n
    <2> QED BY <2>3 DEF Surjection
  <1>7. row \in Seq(T) /\ DOMAIN row = 1..n
    BY <1>2, <1>5
  <1>8. \A i \in DOMAIN row : row[i] \in T
    BY <1>5, <1>7
  <1> QED BY <1>6, <1>7, <1>8 DEF T, row

\* What is put after a sequence, and what was there.
LEMMA BracketJoin ==
    ASSUME NEW S, NEW s \in Seq(S), NEW t \in Seq(S)
    PROVE  /\ s \o t \in Seq(S) /\ DOMAIN (s \o t) = 1..(Len(s) + Len(t))
           /\ DOMAIN s = 1..Len(s) /\ Len(s) \in Nat /\ DOMAIN t = 1..Len(t) /\ Len(t) \in Nat
           /\ \A i \in DOMAIN s : i \in DOMAIN (s \o t) /\ (s \o t)[i] = s[i]
           /\ \A k \in DOMAIN t : Len(s) + k \in DOMAIN (s \o t) /\ (s \o t)[Len(s) + k] = t[k]
           /\ \A i \in DOMAIN (s \o t) :
                 \/ i \in DOMAIN s /\ (s \o t)[i] = s[i]
                 \/ /\ i - Len(s) \in DOMAIN t /\ i > Len(s)
                    /\ (s \o t)[i] = t[i - Len(s)]
  <1>1. s \o t \in Seq(S) /\ Len(s \o t) = Len(s) + Len(t) /\ Len(s) \in Nat /\ Len(t) \in Nat
    OBVIOUS
  <1>2. DOMAIN (s \o t) = 1..(Len(s) + Len(t)) /\ DOMAIN s = 1..Len(s) /\ DOMAIN t = 1..Len(t)
    BY <1>1
  <1>3. \A i \in 1..(Len(s) + Len(t)) : (s \o t)[i] = IF i <= Len(s) THEN s[i] ELSE t[i - Len(s)]
    OBVIOUS
  <1>4. \A i \in DOMAIN s : i \in DOMAIN (s \o t) /\ (s \o t)[i] = s[i]
    BY <1>1, <1>2, <1>3
  <1>5. \A k \in DOMAIN t : Len(s) + k \in DOMAIN (s \o t) /\ (s \o t)[Len(s) + k] = t[k]
    BY <1>1, <1>2, <1>3
  <1>6. \A i \in DOMAIN (s \o t) : \/ i \in DOMAIN s /\ (s \o t)[i] = s[i]
                                   \/ /\ i - Len(s) \in DOMAIN t /\ i > Len(s)
                                      /\ (s \o t)[i] = t[i - Len(s)]
    BY <1>1, <1>2, <1>3
  <1> QED BY <1>1, <1>2, <1>4, <1>5, <1>6

\* What is left when the first has gone.
LEMMA BracketRest ==
    ASSUME NEW S, NEW s \in Seq(S), s # <<>>
    PROVE  /\ Tail(s) \in Seq(S) /\ Head(s) \in S /\ Head(s) = s[1] /\ 1 \in DOMAIN s
           /\ DOMAIN s = 1..Len(s) /\ Len(s) \in Nat /\ DOMAIN Tail(s) = 1..(Len(s) - 1)
           /\ \A i \in DOMAIN Tail(s) : i + 1 \in DOMAIN s /\ Tail(s)[i] = s[i + 1]
           /\ \A i \in DOMAIN s : i > 1 => i - 1 \in DOMAIN Tail(s) /\ Tail(s)[i - 1] = s[i]
  <1>1. /\ Tail(s) \in Seq(S) /\ Len(s) \in Nat /\ Len(s) >= 1 /\ DOMAIN s = 1..Len(s)
        /\ Len(Tail(s)) = Len(s) - 1 /\ Head(s) = s[1]
    OBVIOUS
  <1>2. \A i \in 1..(Len(s) - 1) : Tail(s)[i] = s[i + 1]
    OBVIOUS
  <1>3. DOMAIN Tail(s) = 1..(Len(s) - 1) /\ s[1] \in S
    BY <1>1
  <1> QED BY <1>1, <1>2, <1>3

\* What a step is shown to keep; what was promised follows from it (BracketShows).
BracketHolds ==
    /\ Bracket!TypeOK /\ Bracket!InTurn /\ Bracket!PlacedFirst /\ Bracket!FillsInTurn
    /\ Bracket!NewsIsTrue /\ Bracket!ShownIsTrue /\ Bracket!RejectionsAreHeard
    /\ Bracket!CancelsTakeTheEntry /\ Bracket!FillsAreSpared /\ Bracket!AnswerShowsAll
    /\ Bracket!StaysOver

\* What the invariant says of the types.
LEMMA BracketTypes ==
    ASSUME BracketHolds
    PROVE  /\ stage \in {"placing", "waiting", "unwinding", "done"} /\ placed \in 0..3
           /\ tradesShown \in [1..3 -> Bracket!Trade]
           /\ book \in [1..3 -> {"none", "held", "working", "filled", "cancelled", "rejected"}]
           /\ sent \in Seq(Bracket!Request) /\ told \in Seq(Bracket!News)
           /\ swept \subseteq 1..3 /\ skipped \subseteq 1..3 /\ complaint \subseteq 1..3
  BY DEF BracketHolds, Bracket!TypeOK, Bracket!Orders

\* Nothing under way and a submit that is over: what the parts say is what was promised.
LEMMA BracketShows ==
    BracketHolds => /\ Bracket!NoNakedEntry /\ Bracket!UnwoundIsOver /\ Bracket!ExitsOutliveTheFill
                    /\ Bracket!SkippedIsOver
  <1> SUFFICES ASSUME BracketHolds
               PROVE  /\ Bracket!NoNakedEntry /\ Bracket!UnwoundIsOver
                      /\ Bracket!ExitsOutliveTheFill /\ Bracket!SkippedIsOver
    OBVIOUS
  <1>1. \A o \in 1..3 : book[o] \in {"none", "held", "working", "filled", "cancelled", "rejected"}
    BY BracketTypes
  <1>2. Bracket!NoNakedEntry
    <2> SUFFICES ASSUME stage = "done", sent = <<>>, told = <<>>, up, book[1] \in Bracket!Alive,
                        ~rejectedLate, verdict # "left_filled", NEW o \in Bracket!Exits
                 PROVE  book[o] \in Bracket!Alive
      BY DEF Bracket!NoNakedEntry, Bracket!Landed
    <2>1. ~Bracket!EntryEnds
      BY DEF Bracket!EntryEnds, Bracket!Over, Bracket!Alive
    <2>2. book[o] # "cancelled"
      BY <2>1 DEF BracketHolds, Bracket!CancelsTakeTheEntry
    <2>3. book[o] # "rejected"
      BY <2>1 DEF BracketHolds, Bracket!RejectionsAreHeard
    <2>4. book[o] # "none" /\ book[o] # "filled" /\ o \in 1..3
      BY DEF BracketHolds, Bracket!PlacedFirst, Bracket!FillsInTurn, Bracket!Exits, Bracket!Alive,
         Bracket!Orders
    <2> QED BY <1>1, <2>2, <2>3, <2>4 DEF Bracket!Alive
  <1>3. Bracket!UnwoundIsOver /\ Bracket!SkippedIsOver
    BY DEF BracketHolds, Bracket!StaysOver, Bracket!UnwoundIsOver, Bracket!SkippedIsOver,
       Bracket!Over, Bracket!Alive
  <1>4. Bracket!ExitsOutliveTheFill
    BY DEF BracketHolds, Bracket!FillsAreSpared, Bracket!FillsInTurn, Bracket!Unwinds,
       Bracket!ExitsOutliveTheFill
  <1> QED BY <1>2, <1>3, <1>4

\* What IsSo says after a step, of any message.
BracketSoNext(m) ==
    /\ m.what \in {"Submitted", "notice"} => book'[m.order] # "none"
    /\ m.what = "Cancelled" => book'[m.order] = "cancelled"
    /\ m.what = "Filled" => book'[m.order] = "filled"
    /\ m.what = "PartFilled" => m.order = 1 /\ partial'
    /\ m.what = "warning" => book'[m.order] = "rejected"
    /\ m.what = "error" => book'[m.order] = "rejected" \/ m.order \in complaint'

\* A step of IBKR's: it tells more news, of orders that were alive, and changes no order
\* that is over; the clients do nothing.
LEMMA BracketIbkrMoves ==
    ASSUME BracketHolds, Bracket!PlacedFirst', Bracket!FillsInTurn', Bracket!AnswerShowsAll',
           stage # "placing",
           UNCHANGED <<stage, placed, verdict, knewFill, tradesShown, up, sweeper, swept, skipped,
                       unanswered, rejectedLate>>,
           book' \in [1..3 -> {"none", "held", "working", "filled", "cancelled", "rejected"}],
           \A o \in 1..3 : book[o] \in Bracket!Over => book'[o] = book[o],
           \A o \in 1..3 : book[o] # "none" => book'[o] # "none",
           partial' \in BOOLEAN, partial => partial',
           complaint' \subseteq 1..3, complaint \subseteq complaint', complaint' # {} => stage = "done",
           sent' \in Seq(Bracket!Request),
           \A i \in DOMAIN sent' : \E j \in DOMAIN sent : sent[j] = sent'[i],
           Bracket!EntryEnds => Bracket!EntryEnds',
           NEW extra \in Seq(Bracket!News), told' = told \o extra,
           \A k \in DOMAIN extra : /\ BracketSoNext(extra[k])
                                   /\ book[extra[k].order] \in Bracket!Alive \/ extra[k].what = "end"
                                   /\ extra[k].what \in {"error", "warning"} /\ complaint' = {} =>
                                        \A l \in DOMAIN extra : l > k /\ extra[l].order = extra[k].order
                                           => extra[l].what = "end",
           \A o \in Bracket!Exits : book'[o] = "rejected" /\ book[o] # "rejected" =>
              \E k \in DOMAIN extra : extra[k].order = o /\ extra[k].what \in {"error", "warning"},
           \A o \in Bracket!Exits : book'[o] = "cancelled" /\ book[o] # "cancelled" =>
              /\ up /\ ~rejectedLate => Bracket!EntryEnds'
              /\ swept = {} => \/ (Bracket!Unwinds /\ book'[1] = "cancelled") \/ book'[1] = "rejected"
                               \/ \E p \in Bracket!Exits : book'[p] = "filled"
    PROVE  BracketHolds'
  <1> USE DEF Bracket!Orders
  <1>1. told \in Seq(Bracket!News) /\ \A o \in 1..3 : book[o] \in {"none", "held", "working", "filled",
                                                               "cancelled", "rejected"}
    BY BracketTypes
  <1>2. /\ told' \in Seq(Bracket!News)
        /\ \A i \in DOMAIN told : i \in DOMAIN told' /\ told'[i] = told[i]
        /\ \A k \in DOMAIN extra : Len(told) + k \in DOMAIN told' /\ told'[Len(told) + k] = extra[k]
        /\ \A i \in DOMAIN told' : \/ i \in DOMAIN told /\ told'[i] = told[i]
                                   \/ /\ i - Len(told) \in DOMAIN extra /\ i > Len(told)
                                      /\ told'[i] = extra[i - Len(told)]
        /\ DOMAIN told = 1..Len(told) /\ Len(told) \in Nat
        /\ DOMAIN extra = 1..Len(extra) /\ Len(extra) \in Nat
    BY <1>1, BracketJoin
  <1>3. Bracket!TypeOK'
    BY <1>2 DEF BracketHolds, Bracket!TypeOK
  <1>4. Bracket!InTurn'
    BY DEF BracketHolds, Bracket!InTurn
  <1>5. \A m \in Bracket!News : m.order \in 1..3
    BY DEF Bracket!News
  <1>6. \A i \in DOMAIN told : told[i].order \in 1..3 /\ told[i] \in Bracket!News
    BY <1>1, <1>5
  <1>7. Bracket!NewsIsTrue'
    <2>1. ASSUME NEW i \in DOMAIN told
          PROVE  BracketSoNext(told[i])
      BY <1>6, <2>1 DEF BracketHolds, Bracket!NewsIsTrue, Bracket!IsSo, BracketSoNext, Bracket!Over
    <2>2. \A i \in DOMAIN told' : BracketSoNext(told'[i])
      BY <1>2, <2>1
    <2>3. ASSUME NEW i \in DOMAIN told', told'[i].what \in {"error", "warning"}, complaint' = {},
                 NEW j \in DOMAIN told', j > i, told'[j].order = told'[i].order
          PROVE  told'[j].what = "end"
      <3>1. complaint = {}
        BY <2>3
      <3>2. CASE i \in DOMAIN told /\ j \in DOMAIN told
        BY <1>2, <2>3, <3>1, <3>2 DEF BracketHolds, Bracket!NewsIsTrue
      <3>3. CASE i \in DOMAIN told /\ j \notin DOMAIN told
        <4>1. book[told[i].order] = "rejected"
          BY <1>2, <2>3, <3>1, <3>3 DEF BracketHolds, Bracket!NewsIsTrue, Bracket!IsSo
        <4>2. told'[j] = extra[j - Len(told)] /\ j - Len(told) \in DOMAIN extra
          BY <1>2, <3>3
        <4>3. book[told'[j].order] = "rejected"
          BY <1>2, <2>3, <3>3, <4>1
        <4>4. book[extra[j - Len(told)].order] \notin Bracket!Alive
          BY <4>2, <4>3 DEF Bracket!Alive
        <4>5. extra[j - Len(told)].what = "end"
          BY <4>2, <4>4
        <4> QED BY <4>2, <4>5
      <3>4. CASE i \notin DOMAIN told
        <4>1. /\ told'[i] = extra[i - Len(told)] /\ i - Len(told) \in DOMAIN extra /\ i > Len(told)
          BY <1>2, <3>4
        <4>2. j \notin DOMAIN told
          BY <1>2, <2>3, <4>1
        <4>3. told'[j] = extra[j - Len(told)] /\ j - Len(told) \in DOMAIN extra
          BY <1>2, <4>2
        <4>4. j - Len(told) > i - Len(told)
          BY <1>2, <2>3, <4>1, <4>3
        <4> QED BY <2>3, <4>1, <4>3, <4>4
      <3> QED BY <3>2, <3>3, <3>4
    <2>4. \A i \in DOMAIN told' :
            told'[i].what \in {"error", "warning"} /\ complaint' = {} =>
               \A j \in DOMAIN told' : j > i /\ told'[j].order = told'[i].order => told'[j].what = "end"
      BY <2>3
    <2>5. \A i \in DOMAIN told' :
             /\ told'[i].what \in {"Submitted", "notice"} => book'[told'[i].order] # "none"
             /\ told'[i].what = "Cancelled" => book'[told'[i].order] = "cancelled"
             /\ told'[i].what = "Filled" => book'[told'[i].order] = "filled"
             /\ told'[i].what = "PartFilled" => told'[i].order = 1 /\ partial'
             /\ told'[i].what = "warning" => book'[told'[i].order] = "rejected"
             /\ told'[i].what = "error" => book'[told'[i].order] = "rejected" \/ told'[i].order \in complaint'
      BY <2>2 DEF BracketSoNext
    <2> QED BY <2>4, <2>5 DEF Bracket!NewsIsTrue, Bracket!IsSo
  <1>8. Bracket!ShownIsTrue'
    BY DEF BracketHolds, Bracket!ShownIsTrue, Bracket!Over
  <1>9. Bracket!RejectionsAreHeard'
    <2> SUFFICES ASSUME up, ~rejectedLate, NEW o \in Bracket!Exits, book'[o] = "rejected"
                 PROVE  \/ \E i \in DOMAIN told' : /\ told'[i].order = o
                                                   /\ told'[i].what \in {"error", "warning"}
                        \/ /\ stage = "waiting" /\ tradesShown[o].error
                           /\ tradesShown[o].status \in {"Cancelled", "ValidationError", "Inactive"}
                           /\ \A i \in DOMAIN told' : told'[i].order = o => told'[i].what = "end"
                        \/ stage \in {"unwinding", "done"} /\ (Bracket!EntryEnds' \/ verdict' = "left_filled")
      BY DEF Bracket!RejectionsAreHeard
    <2>1. CASE book[o] # "rejected"
      <3>1. PICK k \in DOMAIN extra : extra[k].order = o /\ extra[k].what \in {"error", "warning"}
        BY <2>1
      <3>2. Len(told) + k \in DOMAIN told' /\ told'[Len(told) + k] = extra[k]
        BY <1>2
      <3> QED BY <3>1, <3>2
    <2>2. CASE book[o] = "rejected"
      <3>1. \A i \in DOMAIN told' : told'[i].order = o =>
              (i \in DOMAIN told /\ told'[i] = told[i]) \/ told'[i].what = "end"
        <4> SUFFICES ASSUME NEW i \in DOMAIN told', told'[i].order = o, i \notin DOMAIN told
                     PROVE  told'[i].what = "end"
          BY <1>2
        <4>1. i - Len(told) \in DOMAIN extra /\ told'[i] = extra[i - Len(told)]
          BY <1>2
        <4>2. extra[i - Len(told)].order = o
          BY <4>1
        <4>3. book[extra[i - Len(told)].order] \notin Bracket!Alive
          BY <2>2, <4>2 DEF Bracket!Alive
        <4>4. extra[i - Len(told)].what = "end"
          BY <4>1, <4>3
        <4> QED BY <4>1, <4>4
      <3> QED BY <1>2, <2>2, <3>1 DEF BracketHolds, Bracket!RejectionsAreHeard
    <2> QED BY <2>1, <2>2
  <1>10. Bracket!CancelsTakeTheEntry'
    BY DEF BracketHolds, Bracket!CancelsTakeTheEntry
  <1>11. Bracket!FillsAreSpared'
    <2>1. Bracket!Unwinds' <=> Bracket!Unwinds
      BY DEF Bracket!Unwinds
    <2>2. \A p \in Bracket!Exits : book[p] = "filled" => book'[p] = "filled"
      BY DEF Bracket!Exits, Bracket!Over
    <2>3. book[1] \in {"cancelled", "rejected"} => book'[1] = book[1]
      BY DEF Bracket!Over
    <2> QED BY <2>1, <2>2, <2>3 DEF BracketHolds, Bracket!FillsAreSpared
  <1>12. Bracket!StaysOver'
    <2>1. skipped \subseteq 1..3
      BY BracketTypes
    <2> QED BY <2>1 DEF BracketHolds, Bracket!StaysOver, Bracket!Over
  <1> QED BY <1>3, <1>4, <1>7, <1>8, <1>9, <1>10, <1>11, <1>12 DEF BracketHolds

\* IBKR's other steps leave what it answers to a cancel-all as it is.
LEMMA BracketAnswerKept ==
    ASSUME BracketHolds, UNCHANGED <<tradesShown, sweeper>>,
           NEW extra \in Seq(Bracket!News), told' = told \o extra,
           \A k \in DOMAIN extra : extra[k].what = "end" =>
              /\ sweeper # "idle"
              /\ \A o \in 1..3 : book'[o] \in Bracket!Alive =>
                    \E i \in DOMAIN extra : i < k /\ extra[i].order = o /\ extra[i].what = "Submitted",
           \A i \in DOMAIN sent' : \E j \in DOMAIN sent : sent[j] = sent'[i],
           sweeper \in {"asking", "answered"} =>
              /\ \A o \in 1..3 : book'[o] \in Bracket!Alive => book[o] \in Bracket!Alive
              /\ \A k \in DOMAIN extra :
                    extra[k].what = "error" => book'[extra[k].order] \notin Bracket!Alive
    PROVE  Bracket!AnswerShowsAll'
  <1> USE DEF Bracket!Orders
  <1>1. told \in Seq(Bracket!News)
    BY BracketTypes
  <1>2. /\ \A i \in DOMAIN told : i \in DOMAIN told' /\ told'[i] = told[i]
        /\ \A i \in DOMAIN told' : \/ i \in DOMAIN told /\ told'[i] = told[i]
                                   \/ /\ i - Len(told) \in DOMAIN extra /\ i > Len(told)
                                      /\ told'[i] = extra[i - Len(told)]
        /\ \A k \in DOMAIN extra : Len(told) + k \in DOMAIN told' /\ told'[Len(told) + k] = extra[k]
        /\ DOMAIN told = 1..Len(told) /\ Len(told) \in Nat
        /\ DOMAIN extra = 1..Len(extra) /\ Len(extra) \in Nat
    BY <1>1, BracketJoin
  <1>3. \A i \in DOMAIN told' : told'[i].what = "end" =>
           \/ i \in DOMAIN told /\ told[i].what = "end"
           \/ i - Len(told) \in DOMAIN extra /\ extra[i - Len(told)].what = "end"
    BY <1>2
  <1>4. ASSUME sweeper \in {"asking", "answered"}, NEW o \in 1..3, book'[o] \in Bracket!Alive,
               NEW k \in DOMAIN told', told'[k].order = o, told'[k].what = "error"
        PROVE  k \in DOMAIN told /\ told[k].order = o /\ told[k].what = "error"
    BY <1>2, <1>4
  <1>9. sweeper = "idle" => \A k \in DOMAIN extra : extra[k].what # "end"
    OBVIOUS
  <1>5. CASE sweeper = "idle"
    BY <1>3, <1>5, <1>9 DEF BracketHolds, Bracket!AnswerShowsAll
  <1>6. CASE sweeper = "asking"
    <2>1. ASSUME NEW j \in DOMAIN told', told'[j].what = "end", NEW o \in 1..3, book'[o] \in Bracket!Alive
          PROVE  Bracket!ShowsBy(j, o)'
      <3>1. book[o] \in Bracket!Alive
        BY <1>6, <2>1
      <3>2. CASE j \in DOMAIN told /\ told[j].what = "end"
        <4>1. Bracket!ShowsBy(j, o)
          BY <1>6, <2>1, <3>1, <3>2 DEF BracketHolds, Bracket!AnswerShowsAll
        <4>2. \A i \in 1..(j - 1) : i \in DOMAIN told /\ told'[i] = told[i]
          BY <1>2, <3>2
        <4>3. \/ tradesShown[o].status \in {"PendingSubmit", "Submitted", "Warned"}
              \/ \E i \in 1..(j - 1) : told'[i].order = o /\ told'[i].what \in {"Submitted", "notice", "PartFilled"}
          BY <4>1, <4>2 DEF Bracket!ShowsBy, Bracket!IsOpen, Bracket!Opens, Bracket!Open
        <4>4. ASSUME NEW k \in DOMAIN told', told'[k].order = o, told'[k].what = "error"
              PROVE  \E i \in (k + 1)..(j - 1) : /\ told'[i].order = o
                                                 /\ told'[i].what \in {"Submitted", "notice", "PartFilled"}
          <5>1. k \in DOMAIN told /\ told[k].order = o /\ told[k].what = "error"
            BY <1>4, <1>6, <2>1, <4>4
          <5>2. \E i \in (k + 1)..(j - 1) : told[i].order = o /\ told[i].what \in {"Submitted", "notice", "PartFilled"}
            BY <4>1, <5>1 DEF Bracket!ShowsBy, Bracket!Opens, Bracket!Complaint
          <5>3. \A i \in (k + 1)..(j - 1) : i \in DOMAIN told /\ told'[i] = told[i]
            BY <1>2, <3>2, <5>1
          <5> QED BY <5>2, <5>3
        <4>5. tradesShown' = tradesShown
          OBVIOUS
        <4> QED BY <4>3, <4>4, <4>5 DEF Bracket!ShowsBy, Bracket!IsOpen, Bracket!Opens, Bracket!Complaint, Bracket!Open
      <3>3. CASE j - Len(told) \in DOMAIN extra /\ extra[j - Len(told)].what = "end"
        <4>1. PICK i \in DOMAIN extra : /\ i < j - Len(told) /\ extra[i].order = o
                                       /\ extra[i].what = "Submitted"
          BY <2>1, <3>3
        <4>2. /\ Len(told) + i \in DOMAIN told' /\ told'[Len(told) + i] = extra[i]
              /\ Len(told) + i \in 1..(j - 1)
          BY <1>2, <3>3, <4>1
        <4>3. \E n \in 1..(j - 1) : told'[n].order = o /\ told'[n].what \in {"Submitted", "notice", "PartFilled"}
          BY <4>1, <4>2
        <4>4. ASSUME NEW k \in DOMAIN told', told'[k].order = o, told'[k].what = "error"
              PROVE  \E n \in (k + 1)..(j - 1) : /\ told'[n].order = o
                                                 /\ told'[n].what \in {"Submitted", "notice", "PartFilled"}
          <5>1. k \in DOMAIN told
            BY <1>4, <1>6, <2>1, <4>4
          <5>2. Len(told) + i \in (k + 1)..(j - 1)
            BY <1>2, <4>1, <4>2, <5>1
          <5> QED BY <4>1, <4>2, <5>2
        <4> QED BY <4>3, <4>4 DEF Bracket!ShowsBy, Bracket!IsOpen, Bracket!Opens, Bracket!Complaint, Bracket!Open
      <3> QED BY <1>3, <2>1, <3>2, <3>3
    <2> QED BY <1>6, <2>1 DEF Bracket!AnswerShowsAll
  <1>7. CASE sweeper = "answered"
    BY <1>4, <1>7 DEF BracketHolds, Bracket!AnswerShowsAll, Bracket!IsOpen, Bracket!Complaint, Bracket!Open
  <1>8. CASE sweeper \notin {"idle", "asking", "answered"}
    BY <1>8 DEF Bracket!AnswerShowsAll
  <1> QED BY <1>5, <1>6, <1>7, <1>8

\* An order IBKR has was placed, so the submit is past its row.
LEMMA BracketIsPlaced ==
    ASSUME BracketHolds, NEW o \in 1..3, book[o] # "none"
    PROVE  /\ stage # "placing" /\ \A p \in 1..3 : book[p] # "none"
           /\ \A i \in DOMAIN sent : sent[i].what # "place"
  BY DEF BracketHolds, Bracket!InTurn, Bracket!PlacedFirst, Bracket!Orders

\* The news of one order.
LEMMA BracketOne ==
    ASSUME NEW what \in {"Submitted", "notice", "PartFilled", "Cancelled", "Filled", "error", "warning", "end"},
           NEW o \in 1..3
    PROVE  /\ <<Bracket!Message(what, o)>> \in Seq(Bracket!News)
           /\ DOMAIN <<Bracket!Message(what, o)>> = {1}
           /\ <<Bracket!Message(what, o)>>[1] = Bracket!Message(what, o)
           /\ Bracket!Message(what, o).what = what /\ Bracket!Message(what, o).order = o
  BY DEF Bracket!Message, Bracket!News, Bracket!Orders

LEMMA BracketWorks ==
    ASSUME BracketHolds, NEW o \in 1..3, Bracket!Works(o)
    PROVE  BracketHolds'
  <1> USE DEF Bracket!Orders
  <1>0. PICK what \in {"Submitted", "notice"} :
          told' = told \o Bracket!InARow({Bracket!Message(what, p) : p \in {o}})
    <2>1. \A what : {Bracket!Message(what, p) : p \in {o}} = {Bracket!Message(what, o)}
      OBVIOUS
    <2> QED BY <2>1 DEF Bracket!Works, Bracket!Tell
  <1>1. /\ book[o] = "held" /\ book' = [book EXCEPT ![o] = "working"]
        /\ UNCHANGED <<stage, placed, verdict, knewFill, tradesShown, partial, complaint, sent, up,
                       sweeper, swept, skipped, unanswered, rejectedLate>>
    BY DEF Bracket!Works, Bracket!Tell, Bracket!submit, Bracket!cancelAll
  <1> DEFINE extra == Bracket!InARow({Bracket!Message(what, p) : p \in {o}})
  <1>2. extra \in Seq(Bracket!News) /\ \A k \in DOMAIN extra : extra[k].what = what /\ extra[k].order = o
    <2>1. /\ extra \in Seq({Bracket!Message(what, p) : p \in {o}})
          /\ \A k \in DOMAIN extra : \E p \in {o} : extra[k] = Bracket!Message(what, p)
      <3>1. {o} \in SUBSET Bracket!Orders
        OBVIOUS
      <3> QED BY <3>1, BracketRow
    <2>2. {Bracket!Message(what, p) : p \in {o}} \subseteq Bracket!News
      BY <1>0 DEF Bracket!Message, Bracket!News
    <2> HIDE DEF extra
    <2> QED BY <2>1, <2>2 DEF Bracket!Message
  <1>20. told' = told \o extra
    BY <1>0
  <1> HIDE DEF extra
  <1>3. /\ book \in [1..3 -> {"none", "held", "working", "filled", "cancelled", "rejected"}]
        /\ partial \in BOOLEAN /\ complaint \subseteq 1..3 /\ sent \in Seq(Bracket!Request)
    BY BracketTypes DEF BracketHolds, Bracket!TypeOK
  <1>4. /\ book' \in [1..3 -> {"none", "held", "working", "filled", "cancelled", "rejected"}]
        /\ \A p \in 1..3 : book'[p] = IF p = o THEN "working" ELSE book[p]
    BY <1>1, <1>3
  <1>5. stage # "placing" /\ \A p \in 1..3 : book[p] # "none"
    BY <1>1, BracketIsPlaced
  <1>6. Bracket!PlacedFirst' /\ Bracket!FillsInTurn'
    <2>1. Bracket!PlacedFirst'
      BY <1>1, <1>4, <1>5, BracketIsPlaced DEF BracketHolds, Bracket!PlacedFirst
    <2>2. Bracket!FillsInTurn'
      BY <1>1, <1>3, <1>4 DEF BracketHolds, Bracket!FillsInTurn, Bracket!Exits
    <2> QED BY <2>1, <2>2
  <1>7. Bracket!AnswerShowsAll'
    <2>1. \A i \in DOMAIN sent' : \E j \in DOMAIN sent : sent[j] = sent'[i]
      BY <1>1
    <2>2. \A p \in 1..3 : book'[p] \in Bracket!Alive => book[p] \in Bracket!Alive
      BY <1>1, <1>4 DEF Bracket!Alive
    <2>3. \A k \in DOMAIN extra : extra[k].what \notin {"end", "error"}
      BY <1>2
    <2> QED BY <1>1, <1>2, <1>20, <2>1, <2>2, <2>3, BracketAnswerKept
  <1>8. Bracket!EntryEnds => Bracket!EntryEnds'
    BY <1>1, <1>4 DEF Bracket!EntryEnds, Bracket!Over
  <1>9. \A k \in DOMAIN extra : /\ BracketSoNext(extra[k])
                                /\ book[extra[k].order] \in Bracket!Alive \/ extra[k].what = "end"
                                /\ extra[k].what \notin {"error", "warning"}
    BY <1>1, <1>2, <1>4 DEF BracketSoNext, Bracket!Alive
  <1>10. complaint # {} => stage = "done"
    BY DEF BracketHolds, Bracket!InTurn
  <1>11. \A p \in 1..3 : book[p] \in Bracket!Over => book'[p] = book[p]
    BY <1>1, <1>4 DEF Bracket!Over
  <1>12. \A p \in Bracket!Exits : book'[p] \in {"rejected", "cancelled"} => book[p] = book'[p]
    BY <1>4 DEF Bracket!Exits
  <1>13. \A i \in DOMAIN sent' : \E j \in DOMAIN sent : sent[j] = sent'[i]
    BY <1>1
  <1>14. \A p \in 1..3 : book[p] # "none" => book'[p] # "none"
    BY <1>4
  <1>15. \A k \in DOMAIN extra : /\ BracketSoNext(extra[k])
                                 /\ book[extra[k].order] \in Bracket!Alive \/ extra[k].what = "end"
                                 /\ extra[k].what \in {"error", "warning"} /\ complaint' = {} =>
                                      \A l \in DOMAIN extra : l > k /\ extra[l].order = extra[k].order
                                         => extra[l].what = "end"
    BY <1>9
  <1>16. \A p \in Bracket!Exits : book'[p] = "rejected" /\ book[p] # "rejected" =>
           \E k \in DOMAIN extra : extra[k].order = p /\ extra[k].what \in {"error", "warning"}
    BY <1>12
  <1>17. \A p \in Bracket!Exits : book'[p] = "cancelled" /\ book[p] # "cancelled" =>
           /\ up /\ ~rejectedLate => Bracket!EntryEnds'
           /\ swept = {} => \/ (Bracket!Unwinds /\ book'[1] = "cancelled") \/ book'[1] = "rejected"
                            \/ \E q \in Bracket!Exits : book'[q] = "filled"
    BY <1>12
  <1>18. partial' \in BOOLEAN /\ (partial => partial') /\ complaint' \subseteq 1..3
         /\ complaint \subseteq complaint' /\ (complaint' # {} => stage = "done") /\ sent' \in Seq(Bracket!Request)
    BY <1>1, <1>3, <1>10
  <1> QED
    BY <1>1, <1>2, <1>4, <1>5, <1>6, <1>7, <1>8, <1>11, <1>13, <1>14, <1>15, <1>16, <1>17, <1>18,
       <1>20, BracketIbkrMoves

\* One element, then a sequence.
LEMMA BracketAfter ==
    ASSUME NEW T, NEW m \in T, NEW s \in Seq(T), NEW t \in Seq(T)
    PROVE  /\ Append(s, m) \o t = s \o (<<m>> \o t) /\ <<m>> \o t \in Seq(T)
           /\ 1 \in DOMAIN (<<m>> \o t) /\ (<<m>> \o t)[1] = m
           /\ \A k \in DOMAIN (<<m>> \o t) :
                 k = 1 \/ (k > 1 /\ k - 1 \in DOMAIN t /\ (<<m>> \o t)[k] = t[k - 1])
  <1> DEFINE one == <<m>>
  <1>1. one \in Seq(T)
    OBVIOUS
  <1>2. Len(one) = 1 /\ one[1] = m
    OBVIOUS
  <1>3. Append(s, m) = s \o one
    BY AppendIsConcat
  <1> HIDE DEF one
  <1>4. Append(s, m) \o t = s \o (one \o t)
    BY <1>1, <1>3, ConcatAssociative
  <1>5. /\ one \o t \in Seq(T) /\ DOMAIN (one \o t) = 1..(Len(one) + Len(t))
        /\ DOMAIN t = 1..Len(t) /\ Len(t) \in Nat
        /\ \A i \in 1..(Len(one) + Len(t)) :
              (one \o t)[i] = IF i <= Len(one) THEN one[i] ELSE t[i - Len(one)]
    <2>1. one \o t \in Seq(T) /\ Len(one \o t) = Len(one) + Len(t) /\ Len(t) \in Nat
      BY <1>1
    <2>2. \A i \in 1..(Len(one) + Len(t)) : (one \o t)[i] = IF i <= Len(one) THEN one[i] ELSE t[i - Len(one)]
      BY <1>1
    <2>3. DOMAIN (one \o t) = 1..Len(one \o t) /\ DOMAIN t = 1..Len(t)
      BY <2>1
    <2> QED BY <2>1, <2>2, <2>3
  <1> DEFINE f == one \o t
             n == Len(one)
             a == one[1]
  <1>6. /\ DOMAIN f = 1..(n + Len(t)) /\ n = 1 /\ a = m /\ DOMAIN t = 1..Len(t) /\ Len(t) \in Nat
        /\ f[1] = a /\ \A i \in 1..(n + Len(t)) : i > 1 => f[i] = t[i - 1]
    <2>1. n = 1 /\ a = m
      BY <1>2
    <2>2. \A i \in 1..(n + Len(t)) : f[i] = IF i <= n THEN one[i] ELSE t[i - n]
      BY <1>5
    <2>3. DOMAIN f = 1..(n + Len(t)) /\ DOMAIN t = 1..Len(t) /\ Len(t) \in Nat
      BY <1>5
    <2> HIDE DEF f, n
    <2> QED BY <2>1, <2>2, <2>3
  <1> HIDE DEF f, n, a
  <1>7. \A k \in DOMAIN f : k = 1 \/ (k > 1 /\ k - 1 \in DOMAIN t /\ f[k] = t[k - 1])
    <2> SUFFICES ASSUME NEW k \in DOMAIN f, k # 1
                 PROVE  k > 1 /\ k - 1 \in DOMAIN t /\ f[k] = t[k - 1]
      OBVIOUS
    <2>1. k \in 1..(1 + Len(t)) /\ k > 1 /\ Len(t) \in Nat
      BY <1>6
    <2>2. k - 1 \in 1..Len(t)
      BY <2>1
    <2>3. f[k] = t[k - 1]
      BY <1>6, <2>1
    <2> QED BY <1>6, <2>1, <2>2, <2>3
  <1>8. 1 \in DOMAIN f /\ f[1] = m
    BY <1>6
  <1> QED BY <1>4, <1>5, <1>7, <1>8 DEF one, f

BracketCancelled(S) == Bracket!InARow({Bracket!Message("Cancelled", p) : p \in S})
BracketWord(what, o, S) == <<Bracket!Message(what, o)>> \o BracketCancelled(S)
BracketTold(what, o, S) == Append(told, Bracket!Message(what, o)) \o BracketCancelled(S)

BracketJoined(extra) == told \o extra

\* One message, then that some other orders are cancelled.
LEMMA BracketSays ==
    ASSUME NEW what \in {"Submitted", "notice", "PartFilled", "Cancelled", "Filled", "error", "warning", "end"},
           NEW o \in 1..3, NEW S \in SUBSET ((1..3) \ {o}), told \in Seq(Bracket!News),
           told' = BracketTold(what, o, S)
    PROVE  LET extra == BracketWord(what, o, S)
           IN  /\ extra \in Seq(Bracket!News)
               /\ told' = BracketJoined(extra)
               /\ 1 \in DOMAIN extra /\ extra[1].what = what /\ extra[1].order = o
               /\ \A k \in DOMAIN extra :
                     \/ k = 1
                     \/ k > 1 /\ extra[k].what = "Cancelled" /\ extra[k].order \in S
  <1> DEFINE row == BracketCancelled(S)
             m == Bracket!Message(what, o)
  <1>1. row \in Seq(Bracket!News) /\ \A k \in DOMAIN row : row[k].what = "Cancelled" /\ row[k].order \in S
    <2>1. S \in SUBSET Bracket!Orders
      BY DEF Bracket!Orders
    <2>2. /\ row \in Seq({Bracket!Message("Cancelled", p) : p \in S})
          /\ \A k \in DOMAIN row : \E p \in S : row[k] = Bracket!Message("Cancelled", p)
      BY <2>1, BracketRow DEF BracketCancelled
    <2>3. {Bracket!Message("Cancelled", p) : p \in S} \subseteq Bracket!News
      BY DEF Bracket!Message, Bracket!News, Bracket!Orders
    <2> HIDE DEF row
    <2> QED BY <2>2, <2>3 DEF Bracket!Message
  <1>2. <<m>> \in Seq(Bracket!News) /\ m.what = what /\ m.order = o /\ m \in Bracket!News
    BY DEF Bracket!Message, Bracket!News, Bracket!Orders
  <1> HIDE DEF row, m
  <1>3. /\ Append(told, m) \o row = told \o (<<m>> \o row) /\ <<m>> \o row \in Seq(Bracket!News)
        /\ 1 \in DOMAIN (<<m>> \o row) /\ (<<m>> \o row)[1] = m
        /\ \A k \in DOMAIN (<<m>> \o row) : k = 1 \/ (k > 1 /\ k - 1 \in DOMAIN row /\ (<<m>> \o row)[k] = row[k - 1])
    BY <1>1, <1>2, BracketAfter
  <1> QED BY <1>1, <1>2, <1>3 DEF row, m, BracketWord, BracketTold, BracketJoined

\* Refuses(o) on an order that is alive: it and, if it is the entry, its exits are over.
LEMMA BracketRefuses ==
    ASSUME BracketHolds, NEW o \in 1..3, Bracket!Refuses(o)
    PROVE  BracketHolds'
  <1> USE DEF Bracket!Orders
  <1> DEFINE With == IF o = 1 THEN {p \in 1..3 : p = 1 \/ book[p] \in Bracket!Alive} ELSE {o}
             S == With \ {o}
             row == BracketCancelled(S)
  <1>1. PICK what \in {"error", "warning"} :
           /\ book[o] \in Bracket!Alive /\ (o = 1 => ~partial)
           /\ book' = [p \in 1..3 |-> IF p = o THEN "rejected" ELSE IF p \in With THEN "cancelled" ELSE book[p]]
           /\ told' = Append(told, Bracket!Message(what, o)) \o row
           /\ UNCHANGED <<stage, placed, verdict, knewFill, tradesShown, partial, complaint, sent, up,
                          sweeper, swept, skipped, unanswered, rejectedLate>>
    BY DEF Bracket!Refuses, Bracket!With, BracketCancelled, Bracket!submit, Bracket!cancelAll
  <1> DEFINE extra == BracketWord(what, o, S)
  <1>2. S \in SUBSET ((1..3) \ {o}) /\ \A p \in S : o = 1 /\ book[p] \in Bracket!Alive
    OBVIOUS
  <1>3. /\ book \in [1..3 -> {"none", "held", "working", "filled", "cancelled", "rejected"}]
        /\ partial \in BOOLEAN /\ complaint \subseteq 1..3 /\ sent \in Seq(Bracket!Request)
        /\ told \in Seq(Bracket!News)
    BY BracketTypes DEF BracketHolds, Bracket!TypeOK
  <1>4. /\ book' \in [1..3 -> {"none", "held", "working", "filled", "cancelled", "rejected"}]
        /\ book'[o] = "rejected" /\ \A p \in S : book'[p] = "cancelled"
        /\ \A p \in 1..3 : p # o /\ p \notin S => book'[p] = book[p]
    BY <1>1, <1>3
  <1> HIDE DEF S
  <1>5. /\ extra \in Seq(Bracket!News) /\ told' = told \o extra
        /\ 1 \in DOMAIN extra /\ extra[1].what = what /\ extra[1].order = o
        /\ \A k \in DOMAIN extra :
              k = 1 \/ (k > 1 /\ extra[k].what = "Cancelled" /\ extra[k].order \in S)
    <2>1. what \in {"Submitted", "notice", "PartFilled", "Cancelled", "Filled", "error", "warning", "end"}
      OBVIOUS
    <2> HIDE DEF With
    <2>4. told' = BracketTold(what, o, S)
      BY <1>1 DEF BracketTold
    <2>5. S \in SUBSET ((1..3) \ {o}) /\ told \in Seq(Bracket!News) /\ o \in 1..3
      BY <1>2, <1>3
    <2>6. told' = BracketJoined(BracketWord(what, o, S))
      <3>1. \A w \in {"error", "warning"} : told' = BracketTold(w, o, S) =>
               told' = BracketJoined(BracketWord(w, o, S))
        BY <2>5, BracketSays
      <3> QED BY <2>4, <3>1
    <2>2. /\ BracketWord(what, o, S) \in Seq(Bracket!News)
          /\ 1 \in DOMAIN BracketWord(what, o, S)
          /\ BracketWord(what, o, S)[1].what = what /\ BracketWord(what, o, S)[1].order = o
      BY <2>1, <2>4, <2>5, BracketSays
    <2>3. ASSUME NEW k \in DOMAIN BracketWord(what, o, S), k # 1
          PROVE  /\ k > 1 /\ BracketWord(what, o, S)[k].what = "Cancelled"
                 /\ BracketWord(what, o, S)[k].order \in S
      BY <2>1, <2>3, <2>4, <2>5, BracketSays
    <2> QED BY <2>2, <2>3, <2>6 DEF BracketJoined
  <1> HIDE DEF extra, row, With
  <1>6. stage # "placing" /\ \A p \in 1..3 : book[p] # "none"
    BY <1>1, BracketIsPlaced DEF Bracket!Alive
  <1>7. \A k \in DOMAIN extra : extra[k].what # "Cancelled" => k = 1
    BY <1>5
  <1>8. \A p \in 1..3 : book'[p] \in Bracket!Alive => book[p] \in Bracket!Alive /\ p # o
    BY <1>2, <1>4 DEF Bracket!Alive
  <1>9. Bracket!PlacedFirst' /\ Bracket!FillsInTurn'
    <2>1. \A p \in 1..3 : book'[p] \notin {"none", "held"} \/ book'[p] = book[p]
      BY <1>2, <1>4
    <2>2. Bracket!PlacedFirst'
      BY <1>1, <1>6, <2>1, BracketIsPlaced DEF BracketHolds, Bracket!PlacedFirst
    <2>3. 1 \notin S
      BY <1>2
    <2>4. partial' => book'[1] \in {"working", "filled", "cancelled"}
      BY <1>1, <1>4, <2>3 DEF BracketHolds, Bracket!FillsInTurn
    <2>5. \A p \in 1..3 : book'[p] = "filled" <=> book[p] = "filled"
      BY <1>1, <1>2, <1>4 DEF Bracket!Alive
    <2>6. 1 \in 1..3 /\ \A p \in Bracket!Exits : p \in 1..3
      BY DEF Bracket!Exits
    <2>7. Bracket!FillsInTurn'
      BY <1>1, <1>3, <2>1, <2>4, <2>5, <2>6 DEF BracketHolds, Bracket!FillsInTurn
    <2> QED BY <2>2, <2>7
  <1>10. Bracket!AnswerShowsAll'
    <2>1. \A i \in DOMAIN sent' : \E j \in DOMAIN sent : sent[j] = sent'[i]
      BY <1>1
    <2>2. \A k \in DOMAIN extra : extra[k].what # "end"
      BY <1>5
    <2>3. \A k \in DOMAIN extra : extra[k].what = "error" => book'[extra[k].order] \notin Bracket!Alive
      BY <1>4, <1>5 DEF Bracket!Alive
    <2>4. told' = told \o extra /\ extra \in Seq(Bracket!News) /\ UNCHANGED <<tradesShown, sweeper>>
      BY <1>1, <1>5
    <2> QED BY <1>8, <2>1, <2>2, <2>3, <2>4, BracketAnswerKept
  <1>11. Bracket!EntryEnds => Bracket!EntryEnds'
    <2>1. book[1] \in Bracket!Over => book'[1] = book[1]
      BY <1>1, <1>2, <1>4 DEF Bracket!Alive, Bracket!Over
    <2> QED BY <1>1, <2>1 DEF Bracket!EntryEnds
  <1>12. \A p \in 1..3 : book[p] \in Bracket!Over => book'[p] = book[p]
    BY <1>1, <1>2, <1>4 DEF Bracket!Over, Bracket!Alive
  <1>13. \A i \in DOMAIN sent' : \E j \in DOMAIN sent : sent[j] = sent'[i]
    BY <1>1
  <1>14. \A p \in 1..3 : book[p] # "none" => book'[p] # "none"
    BY <1>4
  <1>15. \A k \in DOMAIN extra : /\ BracketSoNext(extra[k])
                                 /\ book[extra[k].order] \in Bracket!Alive \/ extra[k].what = "end"
                                 /\ extra[k].what \in {"error", "warning"} /\ complaint' = {} =>
                                      \A l \in DOMAIN extra : l > k /\ extra[l].order = extra[k].order
                                         => extra[l].what = "end"
    <2> SUFFICES ASSUME NEW k \in DOMAIN extra
                 PROVE  /\ BracketSoNext(extra[k])
                        /\ book[extra[k].order] \in Bracket!Alive
                        /\ extra[k].what \in {"error", "warning"} =>
                             \A l \in DOMAIN extra : l > k => extra[l].order # extra[k].order
      OBVIOUS
    <2>1. CASE k = 1
      <3>1. \A l \in DOMAIN extra : l > k => extra[l].order # extra[k].order
        BY <1>2, <1>5, <2>1
      <3> QED BY <1>1, <1>4, <1>5, <2>1, <3>1 DEF BracketSoNext
    <2>2. CASE k # 1
      BY <1>2, <1>4, <1>5, <2>2 DEF BracketSoNext
    <2> QED BY <2>1, <2>2
  <1>16. \A p \in Bracket!Exits : book'[p] = "rejected" /\ book[p] # "rejected" =>
           \E k \in DOMAIN extra : extra[k].order = p /\ extra[k].what \in {"error", "warning"}
    BY <1>4, <1>5 DEF Bracket!Exits
  <1>17. \A p \in Bracket!Exits : book'[p] = "cancelled" /\ book[p] # "cancelled" =>
           /\ up /\ ~rejectedLate => Bracket!EntryEnds'
           /\ swept = {} => \/ (Bracket!Unwinds /\ book'[1] = "cancelled") \/ book'[1] = "rejected"
                            \/ \E q \in Bracket!Exits : book'[q] = "filled"
    <2> SUFFICES ASSUME NEW p \in Bracket!Exits, book'[p] = "cancelled", book[p] # "cancelled"
                 PROVE  Bracket!EntryEnds' /\ book'[1] = "rejected"
      OBVIOUS
    <2>1. p \in S
      BY <1>4 DEF Bracket!Exits
    <2>2. book'[1] = "rejected"
      BY <1>2, <1>4, <2>1
    <2> QED BY <2>2 DEF Bracket!EntryEnds, Bracket!Over
  <1>18. partial' \in BOOLEAN /\ (partial => partial') /\ complaint' \subseteq 1..3
         /\ complaint \subseteq complaint' /\ (complaint' # {} => stage = "done") /\ sent' \in Seq(Bracket!Request)
    BY <1>1, <1>3 DEF BracketHolds, Bracket!InTurn
  <1> QED
    BY <1>1, <1>4, <1>5, <1>6, <1>9, <1>10, <1>11, <1>12, <1>13, <1>14, <1>15, <1>16, <1>17, <1>18,
       BracketIbkrMoves

\* A step of IBKR's with one message, of an order that stays as it is.
LEMMA BracketSaysOne ==
    ASSUME BracketHolds, UNCHANGED <<stage, placed, verdict, knewFill, tradesShown, book, sent, up,
                                     sweeper, swept, skipped, unanswered, rejectedLate>>,
           NEW what \in {"PartFilled", "error"}, NEW o \in 1..3, book[o] = "working",
           told' = Append(told, Bracket!Message(what, o)),
           partial' \in BOOLEAN, partial => partial', what = "PartFilled" => o = 1 /\ partial',
           what = "error" => sweeper = "idle" /\ o \in complaint',
           complaint' \subseteq 1..3, complaint \subseteq complaint', complaint' # {} => stage = "done",
           Bracket!FillsInTurn'
    PROVE  BracketHolds'
  <1> USE DEF Bracket!Orders
  <1> DEFINE extra == <<Bracket!Message(what, o)>>
  <1>1. /\ extra \in Seq(Bracket!News) /\ DOMAIN extra = {1} /\ extra[1].what = what /\ extra[1].order = o
    BY BracketOne
  <1>2. /\ told \in Seq(Bracket!News) /\ sent \in Seq(Bracket!Request)
        /\ book \in [1..3 -> {"none", "held", "working", "filled", "cancelled", "rejected"}]
    BY BracketTypes
  <1>3. told' = told \o extra
    <2>1. Bracket!Message(what, o) \in Bracket!News
      BY DEF Bracket!Message, Bracket!News
    <2> QED BY <1>2, <2>1, AppendIsConcat
  <1> HIDE DEF extra
  <1>4. stage # "placing"
    BY BracketIsPlaced
  <1>5. Bracket!PlacedFirst'
    BY DEF BracketHolds, Bracket!PlacedFirst
  <1>6. \A i \in DOMAIN sent' : \E j \in DOMAIN sent : sent[j] = sent'[i]
    OBVIOUS
  <1>7. Bracket!AnswerShowsAll'
    <2>1. \A k \in DOMAIN extra : extra[k].what # "end" /\ (extra[k].what = "error" => sweeper = "idle")
      BY <1>1
    <2>2. UNCHANGED <<tradesShown, sweeper>> /\ book' = book
      OBVIOUS
    <2> QED BY <1>1, <1>3, <1>6, <2>1, <2>2, BracketAnswerKept
  <1>8. Bracket!EntryEnds => Bracket!EntryEnds'
    BY DEF Bracket!EntryEnds
  <1>9. \A k \in DOMAIN extra : /\ BracketSoNext(extra[k])
                                /\ book[extra[k].order] \in Bracket!Alive \/ extra[k].what = "end"
                                /\ extra[k].what \in {"error", "warning"} /\ complaint' = {} =>
                                     \A l \in DOMAIN extra : l > k /\ extra[l].order = extra[k].order
                                        => extra[l].what = "end"
    BY <1>1 DEF BracketSoNext, Bracket!Alive
  <1>10. /\ \A p \in Bracket!Exits : book'[p] = book[p]
         /\ book' \in [1..3 -> {"none", "held", "working", "filled", "cancelled", "rejected"}]
         /\ sent' \in Seq(Bracket!Request)
    BY <1>2
  <1>11. \A p \in Bracket!Exits : book'[p] = "rejected" /\ book[p] # "rejected" =>
           \E k \in DOMAIN extra : extra[k].order = p /\ extra[k].what \in {"error", "warning"}
    BY <1>10
  <1>12. \A p \in Bracket!Exits : book'[p] = "cancelled" /\ book[p] # "cancelled" =>
           /\ up /\ ~rejectedLate => Bracket!EntryEnds'
           /\ swept = {} => \/ (Bracket!Unwinds /\ book'[1] = "cancelled") \/ book'[1] = "rejected"
                            \/ \E q \in Bracket!Exits : book'[q] = "filled"
    BY <1>10
  <1> QED
    BY <1>1, <1>3, <1>4, <1>5, <1>6, <1>7, <1>8, <1>9, <1>10, <1>11, <1>12, BracketIbkrMoves

LEMMA BracketPartFills ==
    ASSUME BracketHolds, Bracket!PartFills
    PROVE  BracketHolds'
  <1>1. /\ book[1] = "working" /\ partial' = TRUE /\ told' = Append(told, Bracket!Message("PartFilled", 1))
        /\ UNCHANGED <<stage, placed, verdict, knewFill, tradesShown, book, complaint, sent, up,
                       sweeper, swept, skipped, unanswered, rejectedLate>>
    BY DEF Bracket!PartFills, Bracket!submit, Bracket!cancelAll
  <1>2. Bracket!FillsInTurn'
    BY <1>1 DEF BracketHolds, Bracket!FillsInTurn
  <1>3. /\ complaint' \subseteq 1..3 /\ complaint \subseteq complaint' /\ (complaint' # {} => stage = "done")
        /\ partial' \in BOOLEAN /\ (partial => partial')
    BY <1>1 DEF BracketHolds, Bracket!TypeOK, Bracket!InTurn, Bracket!Orders
  <1> DEFINE what == "PartFilled"
             o == 1
  <1>4. /\ what \in {"PartFilled", "error"} /\ what # "error" /\ o \in 1..3 /\ o = 1 /\ partial'
        /\ told' = Append(told, Bracket!Message(what, o)) /\ book[o] = "working"
    BY <1>1
  <1> HIDE DEF what, o
  <1> QED BY <1>1, <1>2, <1>3, <1>4, BracketSaysOne

LEMMA BracketComplains ==
    ASSUME BracketHolds, NEW o \in 1..3, Bracket!Complains(o)
    PROVE  BracketHolds'
  <1>1. /\ book[o] = "working" /\ complaint = {} /\ complaint' = {o} /\ stage = "done" /\ sweeper = "idle"
        /\ told' = Append(told, Bracket!Message("error", o))
        /\ UNCHANGED <<stage, placed, verdict, knewFill, tradesShown, book, partial, sent, up,
                       sweeper, swept, skipped, unanswered, rejectedLate>>
    BY DEF Bracket!Complains, Bracket!submit, Bracket!cancelAll
  <1>2. Bracket!FillsInTurn'
    BY <1>1 DEF BracketHolds, Bracket!FillsInTurn
  <1>3. /\ partial' \in BOOLEAN /\ (partial => partial') /\ complaint' \subseteq 1..3
        /\ complaint \subseteq complaint' /\ o \in complaint'
    BY <1>1 DEF BracketHolds, Bracket!TypeOK
  <1> DEFINE what == "error"
  <1>4. what \in {"PartFilled", "error"} /\ what # "PartFilled" /\ told' = Append(told, Bracket!Message(what, o))
    BY <1>1
  <1> HIDE DEF what
  <1> QED BY <1>1, <1>2, <1>3, <1>4, BracketSaysOne

\* Fills(o): an exit fills after its entry, and then the other exit is cancelled.
LEMMA BracketFills ==
    ASSUME BracketHolds, NEW o \in 1..3, Bracket!Fills(o)
    PROVE  BracketHolds'
  <1> USE DEF Bracket!Orders
  <1> DEFINE S == {p \in Bracket!Exits \ {o} : o \in Bracket!Exits /\ book[p] \in Bracket!Alive}
             extra == BracketWord("Filled", o, S)
  <1>1. /\ book[o] = "working" /\ (o \in Bracket!Exits => book[1] = "filled")
        /\ partial' = (partial \/ o = 1)
        /\ book' = [p \in 1..3 |-> IF p = o THEN "filled" ELSE IF p \in S THEN "cancelled" ELSE book[p]]
        /\ told' = BracketTold("Filled", o, S)
        /\ UNCHANGED <<stage, placed, verdict, knewFill, tradesShown, complaint, sent, up,
                       sweeper, swept, skipped, unanswered, rejectedLate>>
    BY DEF Bracket!Fills, Bracket!submit, Bracket!cancelAll, BracketTold, BracketCancelled
  <1>2. S \in SUBSET ((1..3) \ {o}) /\ \A p \in S : o # 1 /\ p # 1 /\ book[p] \in Bracket!Alive
    BY DEF Bracket!Exits
  <1>3. /\ book \in [1..3 -> {"none", "held", "working", "filled", "cancelled", "rejected"}]
        /\ partial \in BOOLEAN /\ complaint \subseteq 1..3 /\ sent \in Seq(Bracket!Request)
        /\ told \in Seq(Bracket!News)
    BY BracketTypes DEF BracketHolds, Bracket!TypeOK
  <1> HIDE DEF S
  <1>4. /\ book' \in [1..3 -> {"none", "held", "working", "filled", "cancelled", "rejected"}]
        /\ book'[o] = "filled" /\ \A p \in S : book'[p] = "cancelled"
        /\ \A p \in 1..3 : p # o /\ p \notin S => book'[p] = book[p]
    <2>1. \A p \in 1..3 : book'[p] = IF p = o THEN "filled" ELSE IF p \in S THEN "cancelled" ELSE book[p]
      BY <1>1
    <2>2. book' \in [1..3 -> {"none", "held", "working", "filled", "cancelled", "rejected"}]
      BY <1>1, <1>3
    <2>3. \A p \in S : p \in 1..3 /\ p # o
      BY <1>2
    <2> QED BY <2>1, <2>2, <2>3
  <1>5. /\ extra \in Seq(Bracket!News) /\ told' = told \o extra
        /\ 1 \in DOMAIN extra /\ extra[1].what = "Filled" /\ extra[1].order = o
        /\ \A k \in DOMAIN extra :
              k = 1 \/ (k > 1 /\ extra[k].what = "Cancelled" /\ extra[k].order \in S)
    <2>1. told' = BracketTold("Filled", o, S) /\ S \in SUBSET ((1..3) \ {o}) /\ told \in Seq(Bracket!News)
      BY <1>1, <1>2, <1>3
    <2>2. told' = BracketJoined(BracketWord("Filled", o, S))
      BY <2>1, BracketSays
    <2>3. /\ BracketWord("Filled", o, S) \in Seq(Bracket!News)
          /\ 1 \in DOMAIN BracketWord("Filled", o, S)
          /\ BracketWord("Filled", o, S)[1].what = "Filled" /\ BracketWord("Filled", o, S)[1].order = o
      BY <2>1, BracketSays
    <2>4. ASSUME NEW k \in DOMAIN BracketWord("Filled", o, S), k # 1
          PROVE  /\ k > 1 /\ BracketWord("Filled", o, S)[k].what = "Cancelled"
                 /\ BracketWord("Filled", o, S)[k].order \in S
      BY <2>1, <2>4, BracketSays
    <2> QED BY <2>2, <2>3, <2>4 DEF BracketJoined
  <1> HIDE DEF extra
  <1>6. stage # "placing" /\ \A p \in 1..3 : book[p] # "none"
    BY <1>1, BracketIsPlaced
  <1>7. \A p \in 1..3 : book[p] \in Bracket!Over => book'[p] = book[p]
    BY <1>1, <1>2, <1>4 DEF Bracket!Over, Bracket!Alive
  <1>8. \A p \in 1..3 : book'[p] \in Bracket!Alive => book[p] \in Bracket!Alive
    BY <1>4 DEF Bracket!Alive
  <1>9. Bracket!PlacedFirst' /\ Bracket!FillsInTurn'
    <2>1. \A p \in 1..3 : book'[p] \notin {"none", "held"} \/ book'[p] = book[p]
      BY <1>4
    <2>2. Bracket!PlacedFirst'
      BY <1>1, <1>6, <2>1, BracketIsPlaced DEF BracketHolds, Bracket!PlacedFirst
    <2>3. 1 \notin S /\ (o = 1 => S = {})
      BY <1>2
    <2>10. o = 1 => book'[1] = "filled" /\ partial' = TRUE
      BY <1>1, <1>4
    <2>11. o # 1 => book'[1] = book[1] /\ partial' = partial
      BY <1>1, <1>3, <1>4, <2>3
    <2>4. /\ partial' => book'[1] \in {"working", "filled", "cancelled"}
          /\ book'[1] = "filled" => partial'
      BY <2>10, <2>11 DEF BracketHolds, Bracket!FillsInTurn
    <2>5. partial => partial'
      BY <1>1
    <2>6. book[1] = "filled" => book'[1] = "filled"
      BY <1>7 DEF Bracket!Over
    <2>7. \A p \in Bracket!Exits : book'[p] = "filled" => book'[1] = "filled"
      <3> SUFFICES ASSUME NEW p \in Bracket!Exits, book'[p] = "filled" PROVE book[1] = "filled"
        BY <2>6
      <3>1. CASE p = o
        BY <1>1, <3>1
      <3>2. CASE p # o
        BY <1>4, <3>2 DEF BracketHolds, Bracket!FillsInTurn, Bracket!Exits
      <3> QED BY <3>1, <3>2
    <2>8. knewFill' => partial'
      BY <1>1 DEF BracketHolds, Bracket!FillsInTurn
    <2>9. \A p \in complaint' : book'[p] \notin {"none", "held"}
      BY <1>1, <1>3, <2>1 DEF BracketHolds, Bracket!FillsInTurn
    <2> QED BY <2>2, <2>4, <2>5, <2>7, <2>8, <2>9 DEF Bracket!FillsInTurn
  <1>10. Bracket!AnswerShowsAll'
    <2>1. \A i \in DOMAIN sent' : \E j \in DOMAIN sent : sent[j] = sent'[i]
      BY <1>1
    <2>2. \A k \in DOMAIN extra : extra[k].what \notin {"end", "error"}
      BY <1>5
    <2>4. told' = told \o extra /\ extra \in Seq(Bracket!News) /\ UNCHANGED <<tradesShown, sweeper>>
      BY <1>1, <1>5
    <2> QED BY <1>8, <2>1, <2>2, <2>4, BracketAnswerKept
  <1>11. Bracket!EntryEnds => Bracket!EntryEnds'
    <2>1. book[1] \in Bracket!Over => book'[1] = book[1]
      BY <1>7
    <2> QED BY <1>1, <2>1 DEF Bracket!EntryEnds
  <1>13. \A i \in DOMAIN sent' : \E j \in DOMAIN sent : sent[j] = sent'[i]
    BY <1>1
  <1>14. \A p \in 1..3 : book[p] # "none" => book'[p] # "none"
    BY <1>4
  <1>15. \A k \in DOMAIN extra : /\ BracketSoNext(extra[k])
                                 /\ book[extra[k].order] \in Bracket!Alive \/ extra[k].what = "end"
                                 /\ extra[k].what \in {"error", "warning"} /\ complaint' = {} =>
                                      \A l \in DOMAIN extra : l > k /\ extra[l].order = extra[k].order
                                         => extra[l].what = "end"
    <2> SUFFICES ASSUME NEW k \in DOMAIN extra
                 PROVE  /\ BracketSoNext(extra[k]) /\ book[extra[k].order] \in Bracket!Alive
                        /\ extra[k].what \notin {"error", "warning"}
      OBVIOUS
    <2>1. CASE k = 1
      BY <1>1, <1>4, <1>5, <2>1 DEF BracketSoNext, Bracket!Alive
    <2>2. CASE k # 1
      BY <1>2, <1>4, <1>5, <2>2 DEF BracketSoNext
    <2> QED BY <2>1, <2>2
  <1>16. \A p \in Bracket!Exits : book'[p] = "rejected" /\ book[p] # "rejected" =>
           \E k \in DOMAIN extra : extra[k].order = p /\ extra[k].what \in {"error", "warning"}
    BY <1>4 DEF Bracket!Exits
  <1>17. \A p \in Bracket!Exits : book'[p] = "cancelled" /\ book[p] # "cancelled" =>
           /\ up /\ ~rejectedLate => Bracket!EntryEnds'
           /\ swept = {} => \/ (Bracket!Unwinds /\ book'[1] = "cancelled") \/ book'[1] = "rejected"
                            \/ \E q \in Bracket!Exits : book'[q] = "filled"
    <2> SUFFICES ASSUME NEW p \in Bracket!Exits, book'[p] = "cancelled", book[p] # "cancelled"
                 PROVE  Bracket!EntryEnds' /\ \E q \in Bracket!Exits : book'[q] = "filled"
      OBVIOUS
    <2>1. p \in S
      BY <1>4 DEF Bracket!Exits
    <2>2. o \in Bracket!Exits
      BY <1>2, <2>1 DEF Bracket!Exits
    <2>3. book'[1] = "filled"
      BY <1>1, <1>7, <2>2 DEF Bracket!Over
    <2> QED BY <1>4, <2>2, <2>3 DEF Bracket!EntryEnds, Bracket!Over
  <1>18. partial' \in BOOLEAN /\ (partial => partial') /\ complaint' \subseteq 1..3
         /\ complaint \subseteq complaint' /\ (complaint' # {} => stage = "done") /\ sent' \in Seq(Bracket!Request)
    BY <1>1, <1>3 DEF BracketHolds, Bracket!InTurn
  <1> QED
    BY <1>1, <1>4, <1>5, <1>6, <1>7, <1>9, <1>10, <1>11, <1>13, <1>14, <1>15, <1>16, <1>17, <1>18,
       BracketIbkrMoves

\* IBKR takes the first of the messages to it.
LEMMA BracketFirst ==
    ASSUME BracketHolds, sent # <<>>, up, sent' = Tail(sent)
    PROVE  /\ stage # "placing" /\ sent' \in Seq(Bracket!Request)
           /\ Head(sent) = sent[1] /\ 1 \in DOMAIN sent
           /\ sent[1].what \in {"place", "cancel", "open"} /\ sent[1].order \in 1..3
           /\ \A i \in DOMAIN sent' : \E j \in DOMAIN sent : sent[j] = sent'[i]
           /\ \A i \in DOMAIN sent : i # 1 => \E j \in DOMAIN sent' : sent'[j] = sent[i]
           /\ \A i \in DOMAIN sent' : sent'[i].what # "place"
           /\ sent[1].what = "place" => \A o \in 1..3 : book[o] = "none"
           /\ sent[1].what # "place" => \A o \in 1..3 : book[o] # "none"
  <1> USE DEF Bracket!Orders
  <1>1. sent \in Seq(Bracket!Request)
    BY BracketTypes
  <1>2. /\ sent' \in Seq(Bracket!Request) /\ Head(sent) \in Bracket!Request /\ Head(sent) = sent[1]
        /\ 1 \in DOMAIN sent
        /\ DOMAIN sent = 1..Len(sent) /\ Len(sent) \in Nat /\ DOMAIN sent' = 1..(Len(sent) - 1)
        /\ \A i \in DOMAIN sent' : i + 1 \in DOMAIN sent /\ sent'[i] = sent[i + 1]
        /\ \A i \in DOMAIN sent : i > 1 => i - 1 \in DOMAIN sent' /\ sent'[i - 1] = sent[i]
    BY <1>1, BracketRest
  <1>3. stage # "placing"
    BY DEF BracketHolds, Bracket!InTurn
  <1>4. sent[1].what \in {"place", "cancel", "open"} /\ sent[1].order \in 1..3
    <2>1. \A m \in Bracket!Request : m.what \in {"place", "cancel", "open"} /\ m.order \in 1..3
      BY DEF Bracket!Request
    <2> QED BY <1>2, <2>1
  <1>5. \A i \in DOMAIN sent' : sent'[i].what # "place"
    <2> SUFFICES ASSUME NEW i \in DOMAIN sent', sent'[i].what = "place" PROVE FALSE
      OBVIOUS
    <2>1. i \in Nat /\ i > 0 /\ i + 1 \in DOMAIN sent /\ sent[i + 1].what = "place"
      BY <1>2
    <2>2. i + 1 = 1
      BY <2>1 DEF BracketHolds, Bracket!PlacedFirst
    <2> QED BY <2>1, <2>2
  <1>6. \A i \in DOMAIN sent : i # 1 => \E j \in DOMAIN sent' : sent'[j] = sent[i]
    <2> SUFFICES ASSUME NEW i \in DOMAIN sent, i # 1 PROVE \E j \in DOMAIN sent' : sent'[j] = sent[i]
      OBVIOUS
    <2>1. i > 1
      BY <1>2
    <2> QED BY <1>2, <2>1
  <1>7. \A i \in DOMAIN sent' : \E j \in DOMAIN sent : sent[j] = sent'[i]
    BY <1>2
  <1>8. /\ sent[1].what = "place" => \A o \in 1..3 : book[o] = "none"
        /\ sent[1].what # "place" => \A o \in 1..3 : book[o] # "none"
    BY <1>2, <1>3 DEF BracketHolds, Bracket!PlacedFirst
  <1> QED BY <1>2, <1>3, <1>4, <1>5, <1>6, <1>7, <1>8

\* The place of a row: IBKR holds the orders.
LEMMA BracketTakesPlace ==
    ASSUME BracketHolds, sent # <<>>, up, sent' = Tail(sent), sent[1].what = "place",
           book' = [o \in 1..3 |-> "held"],
           UNCHANGED <<stage, placed, verdict, knewFill, tradesShown, partial, complaint, told, up,
                       sweeper, swept, skipped, unanswered, rejectedLate>>
    PROVE  BracketHolds'
  <1> USE DEF Bracket!Orders
  <1>1. /\ stage # "placing" /\ sent' \in Seq(Bracket!Request) /\ \A o \in 1..3 : book[o] = "none"
        /\ \A i \in DOMAIN sent' : \E j \in DOMAIN sent : sent[j] = sent'[i]
        /\ \A i \in DOMAIN sent : i # 1 => \E j \in DOMAIN sent' : sent'[j] = sent[i]
        /\ \A i \in DOMAIN sent' : sent'[i].what # "place"
    BY BracketFirst
  <1> DEFINE extra == << >>
  <1>2. told \in Seq(Bracket!News) /\ extra \in Seq(Bracket!News) /\ DOMAIN extra = {} /\ told' = told \o extra
    <2>1. told \in Seq(Bracket!News)
      BY BracketTypes
    <2> QED BY <2>1, ConcatEmptySeq
  <1> HIDE DEF extra
  <1>3. /\ \A o \in 1..3 : book'[o] = "held"
        /\ book' \in [1..3 -> {"none", "held", "working", "filled", "cancelled", "rejected"}]
    OBVIOUS
  <1>4. ~partial /\ complaint = {}
    <2>1. complaint \subseteq 1..3
      BY BracketTypes
    <2> QED BY <1>1, <2>1 DEF BracketHolds, Bracket!FillsInTurn
  <1>5. Bracket!PlacedFirst' /\ Bracket!FillsInTurn'
    <2>1. Bracket!PlacedFirst'
      BY <1>1, <1>3 DEF Bracket!PlacedFirst
    <2>2. \A o \in Bracket!Exits : o \in 1..3
      BY DEF Bracket!Exits
    <2>3. Bracket!FillsInTurn'
      BY <1>3, <1>4, <2>2 DEF BracketHolds, Bracket!FillsInTurn
    <2> QED BY <2>1, <2>3
  <1>6. sweeper \notin {"asking", "answered"}
    BY <1>1 DEF BracketHolds, Bracket!InTurn
  <1>7. Bracket!AnswerShowsAll'
    <2>1. UNCHANGED <<tradesShown, sweeper>>
      OBVIOUS
    <2> QED BY <1>1, <1>2, <1>6, <2>1, BracketAnswerKept
  <1>8. Bracket!EntryEnds => Bracket!EntryEnds'
    <2> SUFFICES ASSUME Bracket!EntryEnds PROVE Bracket!EntryEnds'
      OBVIOUS
    <2>1. PICK i \in DOMAIN sent : sent[i] = Bracket!Message("cancel", 1)
      BY <1>1, <1>4 DEF Bracket!EntryEnds, Bracket!Over
    <2>2. i # 1
      BY <2>1 DEF Bracket!Message
    <2> QED BY <1>1, <2>1, <2>2 DEF Bracket!EntryEnds
  <1>9. /\ \A o \in 1..3 : book[o] \in Bracket!Over => book'[o] = book[o]
        /\ \A o \in 1..3 : book[o] # "none" => book'[o] # "none"
    BY <1>1 DEF Bracket!Over
  <1>10. \A k \in DOMAIN extra : /\ BracketSoNext(extra[k])
                                 /\ book[extra[k].order] \in Bracket!Alive \/ extra[k].what = "end"
                                 /\ extra[k].what \in {"error", "warning"} /\ complaint' = {} =>
                                      \A l \in DOMAIN extra : l > k /\ extra[l].order = extra[k].order
                                         => extra[l].what = "end"
    BY <1>2
  <1>11. \A p \in Bracket!Exits : book'[p] = "rejected" /\ book[p] # "rejected" =>
           \E k \in DOMAIN extra : extra[k].order = p /\ extra[k].what \in {"error", "warning"}
    BY <1>3 DEF Bracket!Exits
  <1>12. \A p \in Bracket!Exits : book'[p] = "cancelled" /\ book[p] # "cancelled" =>
           /\ up /\ ~rejectedLate => Bracket!EntryEnds'
           /\ swept = {} => \/ (Bracket!Unwinds /\ book'[1] = "cancelled") \/ book'[1] = "rejected"
                            \/ \E q \in Bracket!Exits : book'[q] = "filled"
    BY <1>3 DEF Bracket!Exits
  <1>13. /\ partial' \in BOOLEAN /\ (partial => partial') /\ complaint' \subseteq 1..3
         /\ complaint \subseteq complaint' /\ (complaint' # {} => stage = "done")
    BY <1>4 DEF BracketHolds, Bracket!TypeOK
  <1> QED
    BY <1>1, <1>2, <1>3, <1>5, <1>7, <1>8, <1>9, <1>10, <1>11, <1>12, <1>13, BracketIbkrMoves

\* A cancel of an order that is over does nothing.
LEMMA BracketTakesLateCancel ==
    ASSUME BracketHolds, sent # <<>>, up, sent' = Tail(sent), sent[1].what = "cancel",
           book[sent[1].order] \notin Bracket!Alive,
           UNCHANGED <<stage, placed, verdict, knewFill, tradesShown, partial, complaint, book, told, up,
                       sweeper, swept, skipped, unanswered, rejectedLate>>
    PROVE  BracketHolds'
  <1> USE DEF Bracket!Orders
  <1>1. /\ stage # "placing" /\ sent' \in Seq(Bracket!Request) /\ \A o \in 1..3 : book[o] # "none"
        /\ \A i \in DOMAIN sent' : \E j \in DOMAIN sent : sent[j] = sent'[i]
        /\ \A i \in DOMAIN sent : i # 1 => \E j \in DOMAIN sent' : sent'[j] = sent[i]
        /\ \A i \in DOMAIN sent' : sent'[i].what # "place"
    BY BracketFirst
  <1> DEFINE extra == << >>
  <1>2. extra \in Seq(Bracket!News) /\ DOMAIN extra = {} /\ told' = told \o extra
    <2>1. told \in Seq(Bracket!News)
      BY BracketTypes
    <2> QED BY <2>1, ConcatEmptySeq
  <1> HIDE DEF extra
  <1>3. /\ \A o \in 1..3 : book'[o] = book[o]
        /\ book' \in [1..3 -> {"none", "held", "working", "filled", "cancelled", "rejected"}]
    BY BracketTypes
  <1>5. Bracket!PlacedFirst' /\ Bracket!FillsInTurn'
    <2>1. Bracket!PlacedFirst'
      BY <1>1, <1>3 DEF Bracket!PlacedFirst
    <2>3. Bracket!FillsInTurn'
      BY DEF BracketHolds, Bracket!FillsInTurn
    <2> QED BY <2>1, <2>3
  <1>7. Bracket!AnswerShowsAll'
    <2>1. UNCHANGED <<tradesShown, sweeper>>
      OBVIOUS
    <2> QED BY <1>1, <1>2, <1>3, <2>1, BracketAnswerKept
  <1>8. Bracket!EntryEnds => Bracket!EntryEnds'
    <2> SUFFICES ASSUME Bracket!EntryEnds, book[1] \notin Bracket!Over PROVE Bracket!EntryEnds'
      BY DEF Bracket!EntryEnds
    <2>1. PICK i \in DOMAIN sent : sent[i] = Bracket!Message("cancel", 1)
      BY DEF Bracket!EntryEnds
    <2>2. i # 1
      BY <1>1, <1>3, <2>1 DEF Bracket!Message, Bracket!Alive, Bracket!Over
    <2> QED BY <1>1, <2>1, <2>2 DEF Bracket!EntryEnds
  <1>9. /\ \A o \in 1..3 : book[o] \in Bracket!Over => book'[o] = book[o]
        /\ \A o \in 1..3 : book[o] # "none" => book'[o] # "none"
    BY <1>3
  <1>10. \A k \in DOMAIN extra : /\ BracketSoNext(extra[k])
                                 /\ book[extra[k].order] \in Bracket!Alive \/ extra[k].what = "end"
                                 /\ extra[k].what \in {"error", "warning"} /\ complaint' = {} =>
                                      \A l \in DOMAIN extra : l > k /\ extra[l].order = extra[k].order
                                         => extra[l].what = "end"
    BY <1>2
  <1>11. \A p \in Bracket!Exits : book'[p] = "rejected" /\ book[p] # "rejected" =>
           \E k \in DOMAIN extra : extra[k].order = p /\ extra[k].what \in {"error", "warning"}
    BY <1>3 DEF Bracket!Exits
  <1>12. \A p \in Bracket!Exits : book'[p] = "cancelled" /\ book[p] # "cancelled" =>
           /\ up /\ ~rejectedLate => Bracket!EntryEnds'
           /\ swept = {} => \/ (Bracket!Unwinds /\ book'[1] = "cancelled") \/ book'[1] = "rejected"
                            \/ \E q \in Bracket!Exits : book'[q] = "filled"
    BY <1>3 DEF Bracket!Exits
  <1>13. /\ partial' \in BOOLEAN /\ (partial => partial') /\ complaint' \subseteq 1..3
         /\ complaint \subseteq complaint' /\ (complaint' # {} => stage = "done")
    BY DEF BracketHolds, Bracket!TypeOK, Bracket!InTurn
  <1> QED
    BY <1>1, <1>2, <1>3, <1>5, <1>7, <1>8, <1>9, <1>10, <1>11, <1>12, <1>13, BracketIbkrMoves

\* A cancel of an order that is alive ends it, and its exits if it is the entry.
LEMMA BracketTakesCancel ==
    ASSUME BracketHolds, sent # <<>>, up, sent' = Tail(sent), sent[1].what = "cancel",
           NEW o \in 1..3, o = sent[1].order, book[o] \in Bracket!Alive,
           NEW S \in SUBSET (1..3), \A p \in 1..3 : p \in S <=> p = o \/ (o = 1 /\ book[p] \in Bracket!Alive),
           book' = [p \in 1..3 |-> IF p \in S THEN "cancelled" ELSE book[p]],
           told' = BracketJoined(BracketCancelled(S)),
           UNCHANGED <<stage, placed, verdict, knewFill, tradesShown, partial, complaint, up,
                       sweeper, swept, skipped, unanswered, rejectedLate>>
    PROVE  BracketHolds'
  <1> USE DEF Bracket!Orders
  <1>1. /\ stage # "placing" /\ sent' \in Seq(Bracket!Request) /\ \A p \in 1..3 : book[p] # "none"
        /\ \A i \in DOMAIN sent' : \E j \in DOMAIN sent : sent[j] = sent'[i]
        /\ \A i \in DOMAIN sent : i # 1 => \E j \in DOMAIN sent' : sent'[j] = sent[i]
        /\ \A i \in DOMAIN sent' : sent'[i].what # "place"
        /\ 1 \in DOMAIN sent
    BY BracketFirst
  <1> DEFINE extra == BracketCancelled(S)
  <1>2. /\ extra \in Seq(Bracket!News) /\ told' = told \o extra
        /\ \A k \in DOMAIN extra : extra[k].what = "Cancelled" /\ extra[k].order \in S
    <2>1. /\ extra \in Seq({Bracket!Message("Cancelled", p) : p \in S})
          /\ \A k \in DOMAIN extra : \E p \in S : extra[k] = Bracket!Message("Cancelled", p)
      BY BracketRow DEF BracketCancelled
    <2>2. {Bracket!Message("Cancelled", p) : p \in S} \subseteq Bracket!News
      BY DEF Bracket!Message, Bracket!News
    <2>3. told' = told \o extra
      BY DEF BracketJoined
    <2> HIDE DEF extra
    <2>4. extra \in Seq(Bracket!News)
      BY <2>1, <2>2
    <2>5. \A k \in DOMAIN extra : extra[k].what = "Cancelled" /\ extra[k].order \in S
      BY <2>1 DEF Bracket!Message
    <2> QED BY <2>3, <2>4, <2>5
  <1> HIDE DEF extra
  <1>3. /\ \A p \in 1..3 : book'[p] = IF p \in S THEN "cancelled" ELSE book[p]
        /\ book' \in [1..3 -> {"none", "held", "working", "filled", "cancelled", "rejected"}]
        /\ \A p \in 1..3 : book[p] \in {"none", "held", "working", "filled", "cancelled", "rejected"}
    BY BracketTypes
  <1>4. /\ \A p \in 1..3 : book[p] \in Bracket!Over => book'[p] = book[p]
        /\ \A p \in 1..3 : book[p] # "none" => book'[p] # "none"
        /\ \A p \in 1..3 : p \in S => book[p] \in Bracket!Alive
        /\ \A p \in 1..3 : book'[p] \in Bracket!Alive => book[p] \in Bracket!Alive
        /\ \A p \in 1..3 : book'[p] \notin {"none", "held"} \/ book'[p] = book[p]
        /\ \A p \in 1..3 : book'[p] = "filled" <=> book[p] = "filled"
    BY <1>3 DEF Bracket!Over, Bracket!Alive
  <1>5. Bracket!PlacedFirst' /\ Bracket!FillsInTurn'
    <2>1. Bracket!PlacedFirst'
      BY <1>1, <1>4 DEF Bracket!PlacedFirst
    <2>2. partial' => book'[1] \in {"working", "filled", "cancelled"}
      BY <1>3 DEF BracketHolds, Bracket!FillsInTurn
    <2>3. complaint \subseteq 1..3 /\ \A p \in Bracket!Exits : p \in 1..3
      BY BracketTypes DEF Bracket!Exits
    <2>4. Bracket!FillsInTurn'
      BY <1>4, <2>2, <2>3 DEF BracketHolds, Bracket!FillsInTurn
    <2> QED BY <2>1, <2>4
  <1>7. Bracket!AnswerShowsAll'
    <2>1. UNCHANGED <<tradesShown, sweeper>>
      OBVIOUS
    <2>2. \A k \in DOMAIN extra : extra[k].what \notin {"end", "error"}
      BY <1>2
    <2> QED BY <1>1, <1>2, <1>4, <2>1, <2>2, BracketAnswerKept
  <1>8. Bracket!EntryEnds => Bracket!EntryEnds'
    <2> SUFFICES ASSUME Bracket!EntryEnds, book'[1] \notin Bracket!Over PROVE Bracket!EntryEnds'
      BY DEF Bracket!EntryEnds
    <2>1. PICK i \in DOMAIN sent : sent[i] = Bracket!Message("cancel", 1)
      BY <1>4 DEF Bracket!EntryEnds
    <2>2. 1 \notin S
      BY <1>3 DEF Bracket!Over
    <2>3. o # 1
      BY <2>2
    <2>4. i # 1
      BY <2>1, <2>3 DEF Bracket!Message
    <2> QED BY <1>1, <2>1, <2>4 DEF Bracket!EntryEnds
  <1>9. Bracket!EntryEnds \/ ~(up /\ ~rejectedLate)
    BY <1>1 DEF BracketHolds, Bracket!CancelsTakeTheEntry
  <1>10. swept = {} => Bracket!Unwinds /\ book'[1] \in {"cancelled", "rejected"}
    <2>1. swept = {} => Bracket!Unwinds /\ (o # 1 => book[1] \in {"cancelled", "rejected"})
      BY <1>1 DEF BracketHolds, Bracket!FillsAreSpared
    <2>2. o = 1 => book'[1] = "cancelled"
      BY <1>3
    <2>3. book[1] \in {"cancelled", "rejected"} => book'[1] = book[1]
      BY <1>4 DEF Bracket!Over
    <2> QED BY <2>1, <2>2, <2>3
  <1>11. \A k \in DOMAIN extra : /\ BracketSoNext(extra[k])
                                 /\ book[extra[k].order] \in Bracket!Alive \/ extra[k].what = "end"
                                 /\ extra[k].what \in {"error", "warning"} /\ complaint' = {} =>
                                      \A l \in DOMAIN extra : l > k /\ extra[l].order = extra[k].order
                                         => extra[l].what = "end"
    BY <1>2, <1>3, <1>4 DEF BracketSoNext
  <1>12. \A p \in Bracket!Exits : book'[p] = "rejected" /\ book[p] # "rejected" =>
           \E k \in DOMAIN extra : extra[k].order = p /\ extra[k].what \in {"error", "warning"}
    BY <1>3 DEF Bracket!Exits
  <1>13. \A p \in Bracket!Exits : book'[p] = "cancelled" /\ book[p] # "cancelled" =>
           /\ up /\ ~rejectedLate => Bracket!EntryEnds'
           /\ swept = {} => \/ (Bracket!Unwinds /\ book'[1] = "cancelled") \/ book'[1] = "rejected"
                            \/ \E q \in Bracket!Exits : book'[q] = "filled"
    BY <1>8, <1>9, <1>10
  <1>14. /\ partial' \in BOOLEAN /\ (partial => partial') /\ complaint' \subseteq 1..3
         /\ complaint \subseteq complaint' /\ (complaint' # {} => stage = "done")
    BY DEF BracketHolds, Bracket!TypeOK, Bracket!InTurn
  <1> QED
    BY <1>1, <1>2, <1>3, <1>4, <1>5, <1>7, <1>8, <1>11, <1>12, <1>13, <1>14, BracketIbkrMoves

\* A request for the open orders: IBKR lists them.
LEMMA BracketTakesOpen ==
    ASSUME BracketHolds, sent # <<>>, up, sent' = Tail(sent), sent[1].what = "open",
           NEW row, row = Bracket!InARow({Bracket!Message("Submitted", o) :
                                            o \in {p \in 1..3 : book[p] \in Bracket!Alive}}),
           told' = BracketJoined(row \o <<Bracket!Message("end", 1)>>),
           UNCHANGED <<stage, placed, verdict, knewFill, tradesShown, partial, complaint, book, up,
                       sweeper, swept, skipped, unanswered, rejectedLate>>
    PROVE  BracketHolds'
  <1> USE DEF Bracket!Orders
  <1>1. /\ stage # "placing" /\ sent' \in Seq(Bracket!Request) /\ \A o \in 1..3 : book[o] # "none"
        /\ \A i \in DOMAIN sent' : \E j \in DOMAIN sent : sent[j] = sent'[i]
        /\ \A i \in DOMAIN sent : i # 1 => \E j \in DOMAIN sent' : sent'[j] = sent[i]
        /\ \A i \in DOMAIN sent' : sent'[i].what # "place"
        /\ 1 \in DOMAIN sent
    BY BracketFirst
  <1> DEFINE S == {p \in 1..3 : book[p] \in Bracket!Alive}
             m == Bracket!Message("end", 1)
             extra == row \o <<m>>
  <1>2. /\ row \in Seq(Bracket!News)
        /\ \A k \in DOMAIN row : row[k].what = "Submitted" /\ row[k].order \in S
        /\ \A o \in S : \E k \in DOMAIN row : row[k].what = "Submitted" /\ row[k].order = o
    <2>1. S \in SUBSET (1..3)
      OBVIOUS
    <2> HIDE DEF S
    <2>2. row = Bracket!InARow({Bracket!Message("Submitted", o) : o \in S})
      BY DEF S
    <2> DEFINE r == Bracket!InARow({Bracket!Message("Submitted", o) : o \in S})
    <2>8. /\ r \in Seq({Bracket!Message("Submitted", o) : o \in S})
          /\ \A k \in DOMAIN r : \E o \in S : r[k] = Bracket!Message("Submitted", o)
          /\ \A o \in S : \E k \in DOMAIN r : r[k] = Bracket!Message("Submitted", o)
      BY <2>1, BracketRow
    <2>9. row = r
      BY <2>2
    <2> HIDE DEF r
    <2>3. /\ row \in Seq({Bracket!Message("Submitted", o) : o \in S})
          /\ \A k \in DOMAIN row : \E o \in S : row[k] = Bracket!Message("Submitted", o)
          /\ \A o \in S : \E k \in DOMAIN row : row[k] = Bracket!Message("Submitted", o)
      BY <2>8, <2>9
    <2>10. \A o : Bracket!Message("Submitted", o).what = "Submitted" /\ Bracket!Message("Submitted", o).order = o
      BY DEF Bracket!Message
    <2>4. {Bracket!Message("Submitted", o) : o \in S} \subseteq Bracket!News
      BY <2>1 DEF Bracket!Message, Bracket!News
    <2>5. row \in Seq(Bracket!News)
      BY <2>3, <2>4
    <2>6. \A k \in DOMAIN row : row[k].what = "Submitted" /\ row[k].order \in S
      BY <2>3 DEF Bracket!Message
    <2>7. \A o \in S : \E k \in DOMAIN row : row[k].what = "Submitted" /\ row[k].order = o
      BY <2>3, <2>10
    <2> QED BY <2>5, <2>6, <2>7
  <1>3. m \in Bracket!News /\ m.what = "end"
    BY DEF Bracket!Message, Bracket!News
  <1>4. told' = told \o extra
    BY DEF BracketJoined
  <1> HIDE DEF m, S
  <1> DEFINE n == Len(row) + 1
  <1>5. /\ extra \in Seq(Bracket!News) /\ DOMAIN extra = 1..n /\ n \in Nat
        /\ extra[n].what = "end" /\ DOMAIN row = 1..(n - 1)
        /\ \A k \in 1..(n - 1) : extra[k] = row[k]
    <2>1. extra = Append(row, m)
      BY <1>2, <1>3, AppendIsConcat
    <2>2. /\ Append(row, m) \in Seq(Bracket!News) /\ Len(Append(row, m)) = Len(row) + 1
          /\ Len(row) \in Nat /\ Append(row, m)[Len(row) + 1] = m
          /\ \A k \in 1..Len(row) : Append(row, m)[k] = row[k]
      BY <1>2, <1>3
    <2>3. /\ extra \in Seq(Bracket!News) /\ Len(extra) = Len(row) + 1 /\ extra[Len(row) + 1] = m
          /\ \A k \in 1..Len(row) : extra[k] = row[k]
      BY <2>1, <2>2
    <2>4. DOMAIN extra = 1..Len(extra) /\ DOMAIN row = 1..Len(row)
      BY <1>2, <2>3
    <2> HIDE DEF extra
    <2> QED BY <1>3, <2>2, <2>3, <2>4
  <1> HIDE DEF extra, n
  <1>6. \A k \in DOMAIN extra : \/ k = n /\ extra[k].what = "end"
                                \/ k < n /\ extra[k].what = "Submitted" /\ extra[k].order \in S
    <2> SUFFICES ASSUME NEW k \in DOMAIN extra, k # n
                 PROVE  k < n /\ extra[k].what = "Submitted" /\ extra[k].order \in S
      BY <1>5
    <2>1. k \in 1..(n - 1)
      BY <1>5
    <2> QED BY <1>2, <1>5, <2>1
  <1>7. \A k \in DOMAIN extra : extra[k].what = "end" =>
          /\ sweeper # "idle"
          /\ \A o \in 1..3 : book'[o] \in Bracket!Alive =>
                \E i \in DOMAIN extra : i < k /\ extra[i].order = o /\ extra[i].what = "Submitted"
    <2>1. sweeper # "idle"
      BY <1>1 DEF BracketHolds, Bracket!AnswerShowsAll
    <2> SUFFICES ASSUME NEW k \in DOMAIN extra, extra[k].what = "end", NEW o \in 1..3,
                        book[o] \in Bracket!Alive
                 PROVE  \E i \in DOMAIN extra : i < k /\ extra[i].order = o /\ extra[i].what = "Submitted"
      BY <2>1
    <2>2. k = n
      BY <1>6
    <2>3. PICK i \in DOMAIN row : row[i].what = "Submitted" /\ row[i].order = o
      BY <1>2 DEF S
    <2>4. i \in DOMAIN extra /\ i < n /\ extra[i] = row[i]
      BY <1>5, <2>3
    <2> QED BY <2>2, <2>3, <2>4
  <1>8. /\ \A o \in 1..3 : book'[o] = book[o]
        /\ book' \in [1..3 -> {"none", "held", "working", "filled", "cancelled", "rejected"}]
    BY BracketTypes
  <1>9. Bracket!PlacedFirst' /\ Bracket!FillsInTurn'
    <2>1. Bracket!PlacedFirst'
      BY <1>1, <1>8 DEF Bracket!PlacedFirst
    <2>3. Bracket!FillsInTurn'
      BY DEF BracketHolds, Bracket!FillsInTurn
    <2> QED BY <2>1, <2>3
  <1>10. Bracket!AnswerShowsAll'
    <2>1. UNCHANGED <<tradesShown, sweeper>>
      OBVIOUS
    <2>2. \A k \in DOMAIN extra : extra[k].what # "error"
      BY <1>6
    <2> QED BY <1>1, <1>4, <1>5, <1>7, <1>8, <2>1, <2>2, BracketAnswerKept
  <1>11. Bracket!EntryEnds => Bracket!EntryEnds'
    <2> SUFFICES ASSUME Bracket!EntryEnds, book[1] \notin Bracket!Over PROVE Bracket!EntryEnds'
      BY DEF Bracket!EntryEnds
    <2>1. PICK i \in DOMAIN sent : sent[i] = Bracket!Message("cancel", 1)
      BY DEF Bracket!EntryEnds
    <2>2. i # 1
      BY <2>1 DEF Bracket!Message
    <2> QED BY <1>1, <2>1, <2>2 DEF Bracket!EntryEnds
  <1>12. /\ \A o \in 1..3 : book[o] \in Bracket!Over => book'[o] = book[o]
         /\ \A o \in 1..3 : book[o] # "none" => book'[o] # "none"
    BY <1>8
  <1>13. \A k \in DOMAIN extra : /\ BracketSoNext(extra[k])
                                 /\ book[extra[k].order] \in Bracket!Alive \/ extra[k].what = "end"
                                 /\ extra[k].what \in {"error", "warning"} /\ complaint' = {} =>
                                      \A l \in DOMAIN extra : l > k /\ extra[l].order = extra[k].order
                                         => extra[l].what = "end"
    BY <1>1, <1>6, <1>8 DEF BracketSoNext, S
  <1>14. \A p \in Bracket!Exits : book'[p] = "rejected" /\ book[p] # "rejected" =>
           \E k \in DOMAIN extra : extra[k].order = p /\ extra[k].what \in {"error", "warning"}
    BY <1>8 DEF Bracket!Exits
  <1>15. \A p \in Bracket!Exits : book'[p] = "cancelled" /\ book[p] # "cancelled" =>
           /\ up /\ ~rejectedLate => Bracket!EntryEnds'
           /\ swept = {} => \/ (Bracket!Unwinds /\ book'[1] = "cancelled") \/ book'[1] = "rejected"
                            \/ \E q \in Bracket!Exits : book'[q] = "filled"
    BY <1>8 DEF Bracket!Exits
  <1>16. /\ partial' \in BOOLEAN /\ (partial => partial') /\ complaint' \subseteq 1..3
         /\ complaint \subseteq complaint' /\ (complaint' # {} => stage = "done")
    BY DEF BracketHolds, Bracket!TypeOK, Bracket!InTurn
  <1> QED
    BY <1>1, <1>4, <1>5, <1>8, <1>9, <1>10, <1>11, <1>12, <1>13, <1>14, <1>15, <1>16, BracketIbkrMoves

\* IBKR takes a request.
LEMMA BracketIbkrTakes ==
    ASSUME BracketHolds, Bracket!IbkrTakes
    PROVE  BracketHolds'
  <1> USE DEF Bracket!Orders
  <1>1. /\ sent # <<>> /\ up /\ sent' = Tail(sent)
        /\ UNCHANGED <<stage, placed, verdict, knewFill, tradesShown, partial, complaint, up,
                       sweeper, swept, skipped, unanswered, rejectedLate>>
    BY DEF Bracket!IbkrTakes, Bracket!submit, Bracket!cancelAll
  <1>2. Head(sent) = sent[1] /\ sent[1].order \in 1..3
    BY <1>1, BracketFirst
  <1>3. CASE sent[1].what = "place" /\ book' = [o \in 1..3 |-> "held"] /\ told' = told
    BY <1>1, <1>3, BracketTakesPlace
  <1>4. CASE /\ sent[1].what = "cancel" /\ book[sent[1].order] \in Bracket!Alive
             /\ book' = [o \in 1..3 |-> IF o \in Bracket!With(sent[1].order) THEN "cancelled" ELSE book[o]]
             /\ told' = BracketJoined(BracketCancelled(Bracket!With(sent[1].order)))
    <2> DEFINE o == sent[1].order
               S == Bracket!With(o)
    <2>1. S \in SUBSET (1..3) /\ \A p \in 1..3 : p \in S <=> p = o \/ (o = 1 /\ book[p] \in Bracket!Alive)
      BY <1>2 DEF Bracket!With
    <2>2. /\ sent[1].what = "cancel" /\ book[o] \in Bracket!Alive /\ o \in 1..3
          /\ book' = [p \in 1..3 |-> IF p \in S THEN "cancelled" ELSE book[p]]
          /\ told' = BracketJoined(BracketCancelled(S))
      BY <1>2, <1>4
    <2>3. o = sent[1].order
      OBVIOUS
    <2> HIDE DEF o, S
    <2> QED BY <1>1, <2>1, <2>2, <2>3, BracketTakesCancel
  <1>5. CASE /\ sent[1].what = "cancel" /\ book[sent[1].order] \notin Bracket!Alive
             /\ UNCHANGED <<book, told>>
    BY <1>1, <1>5, BracketTakesLateCancel
  <1> DEFINE row == Bracket!InARow({Bracket!Message("Submitted", o) :
                                      o \in {p \in 1..3 : book[p] \in Bracket!Alive}})
  <1>6. CASE /\ sent[1].what = "open" /\ UNCHANGED book
             /\ told' = BracketJoined(row \o <<Bracket!Message("end", 1)>>)
    BY <1>1, <1>6, BracketTakesOpen
  <1>7. CASE sent[1].what = "open" /\ UNCHANGED book /\ told' = told \o row \o <<Bracket!Message("end", 1)>>
    <2> DEFINE S == {p \in 1..3 : book[p] \in Bracket!Alive}
               e == <<Bracket!Message("end", 1)>>
    <2>1. S \in SUBSET (1..3) /\ row = Bracket!InARow({Bracket!Message("Submitted", o) : o \in S})
      OBVIOUS
    <2>2. row \in Seq(Bracket!News)
      <3> HIDE DEF S, row
      <3>1. row \in Seq({Bracket!Message("Submitted", o) : o \in S})
        BY <2>1, BracketRow
      <3>2. {Bracket!Message("Submitted", o) : o \in S} \subseteq Bracket!News
        BY <2>1 DEF Bracket!Message, Bracket!News
      <3> QED BY <3>1, <3>2
    <2>3. e \in Seq(Bracket!News) /\ told \in Seq(Bracket!News)
      BY BracketTypes DEF Bracket!Message, Bracket!News
    <2> HIDE DEF row, e, S
    <2>4. (told \o row) \o e = told \o (row \o e)
      BY <2>2, <2>3, ConcatAssociative
    <2>5. told' = BracketJoined(row \o e)
      BY <1>7, <2>4 DEF BracketJoined, e
    <2> QED BY <1>6, <1>7, <2>5 DEF e
  <1> HIDE DEF row
  <1>8. \/ sent[1].what = "place" /\ book' = [o \in 1..3 |-> "held"] /\ told' = told
        \/ /\ sent[1].what = "cancel" /\ book[sent[1].order] \in Bracket!Alive
           /\ book' = [o \in 1..3 |-> IF o \in Bracket!With(sent[1].order) THEN "cancelled" ELSE book[o]]
           /\ told' = BracketJoined(BracketCancelled(Bracket!With(sent[1].order)))
        \/ /\ sent[1].what = "cancel" /\ book[sent[1].order] \notin Bracket!Alive
           /\ UNCHANGED <<book, told>>
        \/ sent[1].what = "open" /\ UNCHANGED book /\ told' = told \o row \o <<Bracket!Message("end", 1)>>
    BY <1>2 DEF Bracket!IbkrTakes, Bracket!Tell, BracketJoined, BracketCancelled, row
  <1> QED BY <1>3, <1>4, <1>5, <1>7, <1>8

LEMMA BracketPlace ==
    ASSUME BracketHolds, Bracket!Place
    PROVE  BracketHolds'
  <1> USE DEF Bracket!Orders
  <1>1. /\ stage = "placing"
        /\ UNCHANGED <<knewFill, book, partial, complaint, sweeper, swept, skipped, unanswered, rejectedLate>>
    BY DEF Bracket!Place, Bracket!market, Bracket!cancelAll
  <1>2. /\ sent = <<>> /\ \A o \in 1..3 : book[o] = "none"
        /\ verdict = "none" /\ ~knewFill /\ complaint = {} /\ placed # 3 /\ sweeper = "idle"
        /\ swept = {} /\ skipped = {}
    BY <1>1 DEF BracketHolds, Bracket!InTurn
  <1>3. tradesShown \in [1..3 -> Bracket!Trade] /\ \A o \in 1..3 : ~tradesShown[o].error /\ ~tradesShown[o].filled
    BY <1>2, BracketTypes DEF BracketHolds, Bracket!ShownIsTrue
  <1> DEFINE Submitted(t) == [t EXCEPT !.status = "PendingSubmit"]
  <1>4. \A t \in Bracket!Trade : /\ Submitted(t) \in Bracket!Trade /\ Submitted(t).status = "PendingSubmit"
                                 /\ Submitted(t).error = t.error /\ Submitted(t).filled = t.filled
    BY DEF Bracket!Trade, Bracket!Open
  <1>11. \A o \in 1..3 : tradesShown[o] \in Bracket!Trade
    BY <1>3
  <1>5. /\ tradesShown' \in [1..3 -> Bracket!Trade]
        /\ \A o \in 1..3 : ~tradesShown'[o].error /\ ~tradesShown'[o].filled
        /\ \A o \in 1..3 : tradesShown'[o].status = "PendingSubmit" \/ tradesShown'[o] = tradesShown[o]
    <2>1. CASE tradesShown' = [o \in 1..3 |-> [tradesShown[o] EXCEPT !.status = "PendingSubmit"]]
      <3>1. \A o \in 1..3 : tradesShown'[o] = Submitted(tradesShown[o])
        BY <2>1
      <3>2. tradesShown' \in [1..3 -> Bracket!Trade]
        BY <1>3, <1>4, <2>1
      <3> HIDE DEF Submitted
      <3>3. \A o \in 1..3 : /\ tradesShown'[o].status = "PendingSubmit"
                            /\ tradesShown'[o].error = tradesShown[o].error
                            /\ tradesShown'[o].filled = tradesShown[o].filled
        BY <1>11, <1>4, <3>1
      <3> QED BY <1>3, <3>2, <3>3
    <2>2. ASSUME NEW n \in 0..2,
                 tradesShown' = [o \in 1..3 |-> IF o <= n THEN [tradesShown[o] EXCEPT !.status = "PendingSubmit"]
                                                ELSE tradesShown[o]]
          PROVE  /\ tradesShown' \in [1..3 -> Bracket!Trade]
                 /\ \A o \in 1..3 : ~tradesShown'[o].error /\ ~tradesShown'[o].filled
                 /\ \A o \in 1..3 : tradesShown'[o].status = "PendingSubmit" \/ tradesShown'[o] = tradesShown[o]
      <3>1. \A o \in 1..3 : \/ tradesShown'[o] = Submitted(tradesShown[o])
                            \/ tradesShown'[o] = tradesShown[o]
        BY <2>2
      <3>2. tradesShown' \in [1..3 -> Bracket!Trade]
        BY <1>3, <1>4, <2>2
      <3> HIDE DEF Submitted
      <3>3. \A o \in 1..3 : /\ tradesShown'[o].status = "PendingSubmit" \/ tradesShown'[o] = tradesShown[o]
                            /\ tradesShown'[o].error = tradesShown[o].error
                            /\ tradesShown'[o].filled = tradesShown[o].filled
        BY <1>11, <1>4, <3>1
      <3> QED BY <1>3, <3>2, <3>3
    <2> QED BY <2>1, <2>2 DEF Bracket!Place
  <1>6. Bracket!ShownIsTrue'
    <2>1. \A o \in 1..3 : tradesShown'[o].status = "PendingSubmit" \/ tradesShown'[o].status = tradesShown[o].status
      BY <1>5
    <2> QED BY <1>1, <1>2, <1>5, <2>1 DEF BracketHolds, Bracket!ShownIsTrue
  <1>7. Bracket!FillsInTurn' /\ Bracket!RejectionsAreHeard'
    BY <1>1, <1>2 DEF BracketHolds, Bracket!FillsInTurn, Bracket!RejectionsAreHeard, Bracket!Exits
  <1>8. \A o \in Bracket!Exits : book'[o] = "none"
    BY <1>1, <1>2 DEF Bracket!Exits
  <1>9. CASE /\ up /\ placed' = 3 /\ stage' = "waiting"
             /\ tradesShown' = [o \in 1..3 |-> [tradesShown[o] EXCEPT !.status = "PendingSubmit"]]
             /\ sent' = Append(sent, Bracket!Message("place", 3))
             /\ UNCHANGED <<verdict, up, told>>
    <2>1. sent' \in Seq(Bracket!Request) /\ DOMAIN sent' = {1} /\ sent'[1].what = "place" /\ sent' # <<>>
      BY <1>2, <1>9 DEF Bracket!Message, Bracket!Request
    <2>2. \A o \in 1..3 : tradesShown'[o].status = "PendingSubmit"
      BY <1>3, <1>4, <1>9
    <2>3. Bracket!TypeOK'
      BY <1>1, <1>5, <1>9, <2>1 DEF BracketHolds, Bracket!TypeOK
    <2>4. Bracket!InTurn' /\ Bracket!PlacedFirst'
      BY <1>1, <1>2, <1>9, <2>1, <2>2 DEF Bracket!InTurn, Bracket!PlacedFirst
    <2>5. Bracket!NewsIsTrue'
      BY <1>1, <1>9 DEF BracketHolds, Bracket!NewsIsTrue, Bracket!IsSo
    <2>6. Bracket!CancelsTakeTheEntry' /\ Bracket!FillsAreSpared'
      BY <1>8, <2>1 DEF Bracket!CancelsTakeTheEntry, Bracket!FillsAreSpared
    <2>7. Bracket!AnswerShowsAll' /\ Bracket!StaysOver'
      BY <1>1, <1>2, <1>9, <2>1 DEF BracketHolds, Bracket!AnswerShowsAll, Bracket!StaysOver
    <2> QED BY <1>6, <1>7, <2>3, <2>4, <2>5, <2>6, <2>7 DEF BracketHolds
  <1>10. ASSUME NEW n \in 0..2, placed' = n, stage' = "done", verdict' = "interrupted",
                up' = FALSE, sent' = <<>>, told' = <<>>
         PROVE  BracketHolds'
    <2>1. /\ placed' \in 0..3 /\ sent' \in Seq(Bracket!Request) /\ told' \in Seq(Bracket!News)
          /\ tradesShown' \in [1..3 -> Bracket!Trade]
      BY <1>5, <1>10
    <2>2. /\ stage' \in {"placing", "waiting", "unwinding", "done"}
          /\ verdict' \in {"none", "answered", "interrupted", "none_working", "left_filled",
                           "unwound", "unconfirmed", "not_connected"}
          /\ up' \in BOOLEAN
      BY <1>10
    <2>3. Bracket!TypeOK'
      BY <1>1, <2>1, <2>2 DEF BracketHolds, Bracket!TypeOK
    <2>4. Bracket!InTurn' /\ Bracket!PlacedFirst'
      BY <1>1, <1>2, <1>10 DEF Bracket!InTurn, Bracket!PlacedFirst
    <2>5. Bracket!NewsIsTrue'
      BY <1>10 DEF Bracket!NewsIsTrue
    <2>6. Bracket!CancelsTakeTheEntry' /\ Bracket!FillsAreSpared'
      BY <1>8, <1>10 DEF Bracket!CancelsTakeTheEntry, Bracket!FillsAreSpared
    <2>7. Bracket!AnswerShowsAll' /\ Bracket!StaysOver'
      BY <1>1, <1>2, <1>10 DEF Bracket!AnswerShowsAll, Bracket!StaysOver
    <2> QED BY <1>6, <1>7, <2>3, <2>4, <2>5, <2>6, <2>7 DEF BracketHolds
  <1> QED BY <1>9, <1>10 DEF Bracket!Place

\* With the submit not over, an order shown as done is over at IBKR.
LEMMA BracketDoneIsOver ==
    ASSUME BracketHolds, NEW o \in 1..3, tradesShown[o].status \in Bracket!Done \cup {"ValidationError"},
           stage # "done" \/ ~rejectedLate \/ ~tradesShown[o].last
    PROVE  book[o] \in Bracket!Over
  BY DEF BracketHolds, Bracket!ShownIsTrue, Bracket!InTurn, Bracket!Done, Bracket!Over, Bracket!Orders

LEMMA BracketUnwound ==
    ASSUME BracketHolds, Bracket!Unwound
    PROVE  BracketHolds'
  <1> USE DEF Bracket!Orders
  <1>1. /\ stage = "unwinding" /\ stage' = "done"
        /\ UNCHANGED <<placed, knewFill, tradesShown, book, partial, complaint, sent, told, up, sweeper,
                       swept, skipped, unanswered, rejectedLate>>
        /\ \/ verdict' = "unconfirmed"
           \/ verdict' = "unwound" /\ \A o \in 1..3 : tradesShown[o].status \in Bracket!Done
    BY DEF Bracket!Unwound, Bracket!market, Bracket!wire, Bracket!cancelAll, Bracket!IsDone
  <1>2. verdict' \in {"unwound", "none_working"} => \A o \in 1..3 : book[o] \in Bracket!Over
    BY <1>1, BracketDoneIsOver
  <1>3. Bracket!TypeOK' /\ Bracket!InTurn' /\ Bracket!PlacedFirst' /\ Bracket!FillsInTurn'
    BY <1>1 DEF BracketHolds, Bracket!TypeOK, Bracket!InTurn, Bracket!PlacedFirst, Bracket!FillsInTurn
  <1>4. Bracket!NewsIsTrue' /\ Bracket!ShownIsTrue'
    BY <1>1 DEF BracketHolds, Bracket!NewsIsTrue, Bracket!IsSo, Bracket!ShownIsTrue
  <1>5. Bracket!EntryEnds' <=> Bracket!EntryEnds
    BY <1>1 DEF Bracket!EntryEnds
  <1>6. Bracket!RejectionsAreHeard' /\ Bracket!CancelsTakeTheEntry'
    <2>1. verdict # "left_filled"
      BY <1>1 DEF BracketHolds, Bracket!InTurn
    <2> QED BY <1>1, <1>5, <2>1 DEF BracketHolds, Bracket!RejectionsAreHeard, Bracket!CancelsTakeTheEntry
  <1>7. Bracket!Unwinds' <=> Bracket!Unwinds
    BY <1>1 DEF Bracket!Unwinds
  <1>8. Bracket!FillsAreSpared'
    BY <1>1, <1>7 DEF BracketHolds, Bracket!FillsAreSpared
  <1>9. Bracket!AnswerShowsAll'
    BY <1>1 DEF BracketHolds, Bracket!AnswerShowsAll, Bracket!ShowsBy, Bracket!Opens, Bracket!Complaint,
       Bracket!IsOpen
  <1>10. Bracket!StaysOver'
    BY <1>1, <1>2 DEF BracketHolds, Bracket!StaysOver
  <1> QED BY <1>3, <1>4, <1>6, <1>8, <1>9, <1>10 DEF BracketHolds

\* The session goes, with all that was under way.
LEMMA BracketDrop ==
    ASSUME BracketHolds, Bracket!Drop
    PROVE  BracketHolds'
  <1>1. /\ stage # "placing" /\ up' = FALSE /\ sent' = <<>> /\ told' = <<>>
        /\ UNCHANGED <<stage, placed, verdict, knewFill, tradesShown, book, partial, complaint, sweeper,
                       swept, skipped, unanswered, rejectedLate>>
    BY DEF Bracket!Drop, Bracket!submit, Bracket!market, Bracket!cancelAll
  <1>8. sent' \in Seq(Bracket!Request) /\ told' \in Seq(Bracket!News) /\ up' \in BOOLEAN
    <2>1. << >> \in Seq(Bracket!Request) /\ << >> \in Seq(Bracket!News)
      OBVIOUS
    <2>2. up' \in BOOLEAN
      BY <1>1
    <2> QED BY <1>1, <2>1, <2>2
  <1>9. Bracket!TypeOK'
    BY <1>1, <1>8 DEF BracketHolds, Bracket!TypeOK
  <1>2. Bracket!InTurn' /\ Bracket!PlacedFirst' /\ Bracket!FillsInTurn'
    BY <1>1 DEF BracketHolds, Bracket!InTurn, Bracket!PlacedFirst, Bracket!FillsInTurn
  <1>3. Bracket!NewsIsTrue' /\ Bracket!ShownIsTrue'
    BY <1>1 DEF BracketHolds, Bracket!NewsIsTrue, Bracket!ShownIsTrue
  <1>4. Bracket!RejectionsAreHeard' /\ Bracket!CancelsTakeTheEntry'
    BY <1>1 DEF Bracket!RejectionsAreHeard, Bracket!CancelsTakeTheEntry
  <1>5. Bracket!Unwinds' <=> Bracket!Unwinds
    BY <1>1 DEF Bracket!Unwinds
  <1>6. Bracket!FillsAreSpared' /\ Bracket!StaysOver'
    BY <1>1, <1>5 DEF BracketHolds, Bracket!FillsAreSpared, Bracket!StaysOver
  <1>7. Bracket!AnswerShowsAll'
    BY <1>1 DEF BracketHolds, Bracket!AnswerShowsAll, Bracket!Complaint, Bracket!IsOpen, Bracket!Open
  <1> QED BY <1>2, <1>3, <1>4, <1>6, <1>7, <1>9 DEF BracketHolds

LEMMA BracketStutters ==
    ASSUME BracketHolds, UNCHANGED Bracket!bvars
    PROVE  BracketHolds'
  <1>1. UNCHANGED <<stage, placed, verdict, knewFill, tradesShown, book, partial, complaint, sent, told, up,
                    sweeper, swept, skipped, unanswered, rejectedLate>>
    BY DEF Bracket!bvars, Bracket!submit, Bracket!market, Bracket!wire, Bracket!cancelAll
  <1>2. Bracket!TypeOK' /\ Bracket!InTurn' /\ Bracket!PlacedFirst' /\ Bracket!FillsInTurn'
    BY <1>1 DEF BracketHolds, Bracket!TypeOK, Bracket!InTurn, Bracket!PlacedFirst, Bracket!FillsInTurn
  <1>3. Bracket!NewsIsTrue' /\ Bracket!ShownIsTrue'
    BY <1>1 DEF BracketHolds, Bracket!NewsIsTrue, Bracket!IsSo, Bracket!ShownIsTrue
  <1>4. (Bracket!EntryEnds' <=> Bracket!EntryEnds) /\ (Bracket!Unwinds' <=> Bracket!Unwinds)
    BY <1>1 DEF Bracket!EntryEnds, Bracket!Unwinds
  <1>5. Bracket!RejectionsAreHeard' /\ Bracket!CancelsTakeTheEntry'
    BY <1>1, <1>4 DEF BracketHolds, Bracket!RejectionsAreHeard, Bracket!CancelsTakeTheEntry
  <1>6. Bracket!FillsAreSpared' /\ Bracket!StaysOver'
    BY <1>1, <1>4 DEF BracketHolds, Bracket!FillsAreSpared, Bracket!StaysOver
  <1>7. Bracket!AnswerShowsAll'
    BY <1>1 DEF BracketHolds, Bracket!AnswerShowsAll, Bracket!ShowsBy, Bracket!Opens, Bracket!Complaint,
       Bracket!IsOpen
  <1> QED BY <1>2, <1>3, <1>5, <1>6, <1>7 DEF BracketHolds

LEMMA BracketStarts == Bracket!Init => BracketHolds
  <1> USE DEF Bracket!Orders
  <1> SUFFICES ASSUME Bracket!Init PROVE BracketHolds
    OBVIOUS
  <1>1. /\ stage = "placing" /\ placed = 0 /\ verdict = "none" /\ sent = <<>> /\ told = <<>> /\ up = TRUE
        /\ book = [o \in 1..3 |-> "none"] /\ partial = FALSE /\ complaint = {}
        /\ sweeper = "idle" /\ swept = {} /\ skipped = {} /\ unanswered = FALSE /\ rejectedLate = FALSE
        /\ knewFill = FALSE
        /\ tradesShown = [o \in 1..3 |-> [status |-> "none", error |-> FALSE, last |-> FALSE, filled |-> FALSE]]
    BY DEF Bracket!Init
  <1>2. /\ \A o \in 1..3 : /\ book[o] = "none"
                           /\ tradesShown[o].status = "none" /\ ~tradesShown[o].error /\ ~tradesShown[o].filled
        /\ \A o \in Bracket!Exits : o \in 1..3
    BY <1>1 DEF Bracket!Exits
  <1>3. tradesShown \in [1..3 -> Bracket!Trade]
    BY <1>1 DEF Bracket!Trade, Bracket!Open
  <1>8. sent \in Seq(Bracket!Request) /\ told \in Seq(Bracket!News)
    BY <1>1
  <1>9. book \in [1..3 -> {"none", "held", "working", "filled", "cancelled", "rejected"}]
    BY <1>1
  <1>11. /\ partial \in BOOLEAN /\ up \in BOOLEAN /\ unanswered \in BOOLEAN /\ rejectedLate \in BOOLEAN
         /\ knewFill \in BOOLEAN /\ complaint \subseteq 1..3 /\ swept \subseteq 1..3 /\ skipped \subseteq 1..3
    BY <1>1
  <1>12. /\ stage \in {"placing", "waiting", "unwinding", "done"} /\ placed \in 0..3
         /\ verdict \in {"none", "answered", "interrupted", "none_working", "left_filled",
                         "unwound", "unconfirmed", "not_connected"}
         /\ sweeper \in {"idle", "asking", "answered", "swept", "failed"}
    BY <1>1
  <1>10. Bracket!TypeOK
    BY <1>3, <1>8, <1>9, <1>11, <1>12 DEF Bracket!TypeOK
  <1>4. Bracket!InTurn /\ Bracket!PlacedFirst /\ Bracket!FillsInTurn
    BY <1>1, <1>2 DEF Bracket!InTurn, Bracket!PlacedFirst, Bracket!FillsInTurn
  <1>5. Bracket!NewsIsTrue /\ Bracket!ShownIsTrue
    BY <1>1, <1>2 DEF Bracket!NewsIsTrue, Bracket!ShownIsTrue
  <1>6. Bracket!RejectionsAreHeard /\ Bracket!CancelsTakeTheEntry /\ Bracket!FillsAreSpared
    BY <1>1, <1>2 DEF Bracket!RejectionsAreHeard, Bracket!CancelsTakeTheEntry, Bracket!FillsAreSpared
  <1>7. Bracket!AnswerShowsAll /\ Bracket!StaysOver
    BY <1>1 DEF Bracket!AnswerShowsAll, Bracket!StaysOver
  <1> QED BY <1>4, <1>5, <1>6, <1>7, <1>10 DEF BracketHolds

\* A client's requests go after those under way.
LEMMA BracketAsks ==
    ASSUME BracketHolds, stage # "placing", UNCHANGED <<book, partial, up>>,
           NEW more \in Seq(Bracket!Request), sent' = sent \o more,
           \A k \in DOMAIN more : more[k].what # "place"
    PROVE  /\ sent' \in Seq(Bracket!Request) /\ Bracket!PlacedFirst'
           /\ \A i \in DOMAIN sent' : \/ i \in DOMAIN sent /\ sent'[i] = sent[i]
                                      \/ \E k \in DOMAIN more : sent'[i] = more[k]
           /\ \A k \in DOMAIN more : \E i \in DOMAIN sent' : sent'[i] = more[k]
           /\ Bracket!EntryEnds => Bracket!EntryEnds'
  <1> USE DEF Bracket!Orders
  <1>1. sent \in Seq(Bracket!Request)
    BY BracketTypes
  <1>2. /\ sent' \in Seq(Bracket!Request)
        /\ \A i \in DOMAIN sent : i \in DOMAIN sent' /\ sent'[i] = sent[i]
        /\ \A k \in DOMAIN more : Len(sent) + k \in DOMAIN sent' /\ sent'[Len(sent) + k] = more[k]
        /\ \A i \in DOMAIN sent' : \/ i \in DOMAIN sent /\ sent'[i] = sent[i]
                                   \/ /\ i - Len(sent) \in DOMAIN more /\ i > Len(sent)
                                      /\ sent'[i] = more[i - Len(sent)]
    BY <1>1, BracketJoin
  <1>3. \A i \in DOMAIN sent' : sent'[i].what = "place" => i \in DOMAIN sent /\ sent'[i] = sent[i]
    BY <1>2
  <1>4. sent # <<>> => 1 \in DOMAIN sent
    <2>1. DOMAIN sent = 1..Len(sent) /\ Len(sent) \in Nat /\ (sent # <<>> => Len(sent) # 0)
      BY <1>1
    <2> QED BY <2>1
  <1>5. 1 \in DOMAIN sent => sent' # <<>>
    <2>1. 1 \in DOMAIN sent => 1 \in DOMAIN sent'
      BY <1>2
    <2>2. DOMAIN << >> = {}
      OBVIOUS
    <2> QED BY <2>1, <2>2
  <1>6. Bracket!PlacedFirst'
    <2>1. \A o \in 1..3 : book'[o] = "none" <=> book'[1] = "none"
      BY DEF BracketHolds, Bracket!PlacedFirst
    <2>2. \A i \in DOMAIN sent' : sent'[i].what = "place" => i = 1 /\ book'[1] = "none"
      BY <1>3 DEF BracketHolds, Bracket!PlacedFirst
    <2>3. book[1] = "none" /\ up => sent' # <<>> /\ sent'[1].what = "place"
      BY <1>2, <1>4, <1>5 DEF BracketHolds, Bracket!PlacedFirst
    <2> QED BY <2>1, <2>2, <2>3 DEF Bracket!PlacedFirst
  <1>7. Bracket!EntryEnds => Bracket!EntryEnds'
    BY <1>2 DEF Bracket!EntryEnds
  <1>8. \A i \in DOMAIN sent' : \/ i \in DOMAIN sent /\ sent'[i] = sent[i]
                                \/ \E k \in DOMAIN more : sent'[i] = more[k]
    BY <1>2
  <1>9. \A k \in DOMAIN more : \E i \in DOMAIN sent' : sent'[i] = more[k]
    BY <1>2
  <1> QED BY <1>2, <1>6, <1>7, <1>8, <1>9

BracketWithCancels(S) == sent \o Bracket!Cancels(S)
BracketSentOpen == Append(sent, Bracket!Message("open", 1))

\* A client cancels some orders.
LEMMA BracketCancels ==
    ASSUME BracketHolds, stage # "placing", UNCHANGED <<book, partial, up>>,
           NEW S \in SUBSET (1..3), sent' = BracketWithCancels(S)
    PROVE  /\ sent' \in Seq(Bracket!Request) /\ Bracket!PlacedFirst'
           /\ \A i \in DOMAIN sent' : \/ i \in DOMAIN sent /\ sent'[i] = sent[i]
                                      \/ sent'[i].what = "cancel" /\ sent'[i].order \in S
           /\ Bracket!EntryEnds \/ 1 \in S => Bracket!EntryEnds'
  <1> DEFINE more == Bracket!Cancels(S)
  <1>1. /\ more \in Seq({Bracket!Message("cancel", p) : p \in S})
        /\ \A k \in DOMAIN more : \E p \in S : more[k] = Bracket!Message("cancel", p)
        /\ \A p \in S : \E k \in DOMAIN more : more[k] = Bracket!Message("cancel", p)
    <2>1. S \in SUBSET Bracket!Orders
      BY DEF Bracket!Orders
    <2> QED BY <2>1, BracketRow DEF Bracket!Cancels
  <1> HIDE DEF more
  <1>2. {Bracket!Message("cancel", p) : p \in S} \subseteq Bracket!Request
    BY DEF Bracket!Message, Bracket!Request, Bracket!Orders
  <1>3. more \in Seq(Bracket!Request)
    BY <1>1, <1>2
  <1>4. \A k \in DOMAIN more : more[k].what = "cancel" /\ more[k].order \in S
    BY <1>1 DEF Bracket!Message
  <1>5. sent' = sent \o more
    BY DEF BracketWithCancels, more
  <1>6. \A k \in DOMAIN more : more[k].what # "place"
    BY <1>4
  <1>7. /\ sent' \in Seq(Bracket!Request) /\ Bracket!PlacedFirst'
        /\ \A i \in DOMAIN sent' : \/ i \in DOMAIN sent /\ sent'[i] = sent[i]
                                   \/ \E k \in DOMAIN more : sent'[i] = more[k]
        /\ \A k \in DOMAIN more : \E i \in DOMAIN sent' : sent'[i] = more[k]
        /\ Bracket!EntryEnds => Bracket!EntryEnds'
    BY <1>3, <1>5, <1>6, BracketAsks
  <1>8. 1 \in S => Bracket!EntryEnds'
    BY <1>1, <1>7 DEF Bracket!EntryEnds
  <1>9. \A i \in DOMAIN sent' : \/ i \in DOMAIN sent /\ sent'[i] = sent[i]
                                \/ sent'[i].what = "cancel" /\ sent'[i].order \in S
    BY <1>4, <1>7
  <1> QED BY <1>7, <1>8, <1>9

\* The trades as the submit judges them.
LEMMA BracketMarks ==
    ASSUME BracketHolds, tradesShown' = Bracket!Marked, UNCHANGED <<book, partial, complaint>>,
           rejectedLate => rejectedLate'
    PROVE  /\ tradesShown' \in [1..3 -> Bracket!Trade] /\ Bracket!ShownIsTrue'
           /\ \A o \in 1..3 : /\ tradesShown'[o].error = tradesShown[o].error
                              /\ tradesShown'[o].filled = tradesShown[o].filled
                              /\ tradesShown'[o].last = tradesShown[o].last
                              /\ tradesShown'[o].status # "ValidationError"
                              /\ tradesShown[o].status = "ValidationError" => tradesShown'[o].status = "Inactive"
                              /\ tradesShown[o].status # "ValidationError" =>
                                    tradesShown'[o].status = tradesShown[o].status
  <1> USE DEF Bracket!Orders
  <1>1. tradesShown \in [1..3 -> Bracket!Trade] /\ \A o \in 1..3 : tradesShown[o] \in Bracket!Trade
    BY BracketTypes
  <1> DEFINE Mark(t) == [t EXCEPT !.status = "Inactive"]
  <1>2. \A t \in Bracket!Trade : /\ Mark(t) \in Bracket!Trade /\ Mark(t).status = "Inactive"
                                 /\ Mark(t).error = t.error /\ Mark(t).filled = t.filled
                                 /\ Mark(t).last = t.last
    BY DEF Bracket!Trade, Bracket!Done, Bracket!Open
  <1>3. tradesShown' = [o \in 1..3 |-> IF tradesShown[o].status = "ValidationError" THEN Mark(tradesShown[o])
                                       ELSE tradesShown[o]]
    BY DEF Bracket!Marked
  <1> HIDE DEF Mark
  <1>4. tradesShown' \in [1..3 -> Bracket!Trade]
    BY <1>1, <1>2, <1>3
  <1>5. \A o \in 1..3 : /\ tradesShown'[o].error = tradesShown[o].error
                        /\ tradesShown'[o].filled = tradesShown[o].filled
                        /\ tradesShown'[o].last = tradesShown[o].last
                        /\ tradesShown'[o].status # "ValidationError"
                        /\ tradesShown[o].status = "ValidationError" => tradesShown'[o].status = "Inactive"
                        /\ tradesShown[o].status # "ValidationError" =>
                              tradesShown'[o].status = tradesShown[o].status
    BY <1>1, <1>2, <1>3
  <1>6. ASSUME NEW o \in 1..3
        PROVE  /\ tradesShown'[o].status = "Filled" => book[o] = "filled"
               /\ tradesShown'[o].status \in {"ValidationError", "Inactive"} => book[o] = "rejected"
               /\ tradesShown'[o].status = "Cancelled" =>
                     \/ book[o] \in {"cancelled", "rejected"}
                     \/ o \in complaint /\ tradesShown[o].last /\ rejectedLate
               /\ tradesShown'[o].status \in {"Submitted", "Warned"} => book[o] # "none"
               /\ tradesShown'[o].status = "Filled" => tradesShown[o].filled
               /\ tradesShown[o].error => book[o] # "none"
               /\ tradesShown[o].filled => book[o] # "none"
               /\ tradesShown[1].filled => partial
    BY <1>5 DEF BracketHolds, Bracket!ShownIsTrue
  <1>7. Bracket!ShownIsTrue'
    <2> SUFFICES ASSUME NEW o \in 1..3
                 PROVE  /\ tradesShown'[o].status = "Filled" => book'[o] = "filled"
                        /\ tradesShown'[o].status \in {"ValidationError", "Inactive"} => book'[o] = "rejected"
                        /\ tradesShown'[o].status = "Cancelled" =>
                              \/ book'[o] \in {"cancelled", "rejected"}
                              \/ o \in complaint' /\ tradesShown'[o].last /\ rejectedLate'
                        /\ \/ tradesShown'[o].status \in {"Submitted", "Warned"} \/ tradesShown'[o].error
                           \/ tradesShown'[o].filled
                           => book'[o] # "none"
                        /\ tradesShown'[o].status = "Filled" => tradesShown'[o].filled
                        /\ tradesShown'[1].filled => partial'
      BY DEF Bracket!ShownIsTrue
    <2>1. /\ book' = book /\ complaint' = complaint /\ partial' = partial
          /\ tradesShown'[o].error = tradesShown[o].error /\ tradesShown'[o].filled = tradesShown[o].filled
          /\ tradesShown'[o].last = tradesShown[o].last
          /\ tradesShown'[1].filled = tradesShown[1].filled
      BY <1>5
    <2> QED BY <1>6, <2>1
  <1> QED BY <1>4, <1>5, <1>7

\* An order not shown as open once it is placed: over, unless IBKR only complained of it.
LEMMA BracketShut ==
    ASSUME BracketHolds, placed = 3, NEW o \in 1..3,
           tradesShown[o].status \notin {"PendingSubmit", "Submitted", "Warned"}
    PROVE  /\ stage # "done" \/ ~rejectedLate \/ ~tradesShown[o].last => book[o] \in Bracket!Over
           /\ tradesShown[o].status = "Cancelled" \/ book[o] \in Bracket!Over
  <1>1. tradesShown[o] \in Bracket!Trade
    BY BracketTypes
  <1>2. tradesShown[o].status \in Bracket!Done \cup {"ValidationError"}
    <2>1. \A t \in Bracket!Trade : t.status \in {"none", "PendingSubmit", "Submitted", "Warned", "ValidationError"}
                                                \cup Bracket!Done
      BY DEF Bracket!Trade, Bracket!Open
    <2>2. tradesShown[o].status # "none"
      BY DEF BracketHolds, Bracket!InTurn, Bracket!Orders
    <2> QED BY <1>1, <2>1, <2>2
  <1>3. tradesShown[o].status = "Cancelled" \/ book[o] \in Bracket!Over
    BY <1>2 DEF BracketHolds, Bracket!ShownIsTrue, Bracket!Over, Bracket!Done, Bracket!Orders
  <1> QED BY <1>2, <1>3, BracketDoneIsOver

\* The submit's verdict, with the cancels of a bracket that needs unwinding.
LEMMA BracketJudge ==
    ASSUME BracketHolds, Bracket!Judge
    PROVE  BracketHolds'
  <1> USE DEF Bracket!Orders
  <1> DEFINE working == {o \in 1..3 : tradesShown'[o].status \in {"PendingSubmit", "Submitted", "Warned"}}
             targets == Bracket!Targets(tradesShown')
  <1>1. /\ stage = "waiting" /\ tradesShown' = Bracket!Marked /\ knewFill' = tradesShown[1].filled
        /\ UNCHANGED <<placed, book, partial, complaint, told, up, sweeper, swept, skipped, unanswered,
                       rejectedLate>>
        /\ \/ /\ ~Bracket!NeedsUnwinding(tradesShown') /\ stage' = "done" /\ verdict' = "answered"
              /\ sent' = sent
           \/ /\ Bracket!NeedsUnwinding(tradesShown') /\ working = {}
              /\ stage' = "done" /\ verdict' = "none_working" /\ sent' = sent
           \/ /\ Bracket!NeedsUnwinding(tradesShown') /\ working # {} /\ targets = {}
              /\ stage' = "done" /\ verdict' = "left_filled" /\ sent' = sent
           \/ /\ Bracket!NeedsUnwinding(tradesShown') /\ targets # {} /\ ~up
              /\ stage' = "done" /\ verdict' = "not_connected" /\ sent' = sent
           \/ /\ Bracket!NeedsUnwinding(tradesShown') /\ targets # {} /\ up
              /\ stage' = "unwinding" /\ verdict' = verdict /\ sent' = BracketWithCancels(targets)
    BY DEF Bracket!Judge, Bracket!market, Bracket!cancelAll, BracketWithCancels, Bracket!Open
  <1>2. /\ tradesShown' \in [1..3 -> Bracket!Trade] /\ Bracket!ShownIsTrue'
        /\ \A o \in 1..3 : /\ tradesShown'[o].error = tradesShown[o].error
                           /\ tradesShown'[o].filled = tradesShown[o].filled
                           /\ tradesShown'[o].status # "ValidationError"
                           /\ tradesShown[o].status = "ValidationError" => tradesShown'[o].status = "Inactive"
                           /\ tradesShown[o].status # "ValidationError" =>
                                 tradesShown'[o].status = tradesShown[o].status
    BY <1>1, BracketMarks
  <1>3. /\ placed = 3 /\ verdict = "none" /\ ~knewFill /\ complaint = {}
        /\ \A o \in 1..3 : tradesShown[o].status # "none"
    BY <1>1 DEF BracketHolds, Bracket!InTurn
  <1>4. \A o \in 1..3 : o \notin working => book[o] \in Bracket!Over
    <2> SUFFICES ASSUME NEW o \in 1..3, o \notin working PROVE book[o] \in Bracket!Over
      OBVIOUS
    <2>1. tradesShown[o].status \notin {"PendingSubmit", "Submitted", "Warned"}
      BY <1>2
    <2> QED BY <1>1, <1>3, <2>1, BracketShut
  <1>5. /\ targets \in SUBSET (1..3)
        /\ targets # {} => ~tradesShown[1].filled
        /\ targets = {} => tradesShown[1].filled \/ working = {}
        /\ 1 \in targets \/ 1 \notin working \/ targets = {}
        /\ 1 \in targets => targets = {1}
    BY <1>2 DEF Bracket!Targets, Bracket!Open
  <1> HIDE DEF working, targets
  <1>6. \A i \in DOMAIN sent : swept = {} => sent[i].what # "cancel"
    BY <1>1 DEF BracketHolds, Bracket!FillsAreSpared, Bracket!Unwinds
  <1>7. /\ sent' \in Seq(Bracket!Request) /\ Bracket!PlacedFirst'
        /\ \A i \in DOMAIN sent' : \/ i \in DOMAIN sent /\ sent'[i] = sent[i]
                                   \/ /\ sent'[i].what = "cancel" /\ targets # {} /\ stage' = "unwinding" /\ up
                                      /\ sent'[i].order \in targets
        /\ Bracket!EntryEnds => Bracket!EntryEnds'
        /\ stage' = "unwinding" /\ up /\ 1 \in targets => Bracket!EntryEnds'
    <2>1. CASE sent' = sent /\ ~(stage' = "unwinding" /\ up)
      <3>1. sent' \in Seq(Bracket!Request)
        BY <2>1, BracketTypes
      <3>2. Bracket!PlacedFirst'
        BY <1>1, <2>1 DEF BracketHolds, Bracket!PlacedFirst
      <3>3. Bracket!EntryEnds => Bracket!EntryEnds'
        BY <1>1, <2>1 DEF Bracket!EntryEnds
      <3> QED BY <2>1, <3>1, <3>2, <3>3
    <2>2. CASE stage' = "unwinding" /\ up /\ sent' = BracketWithCancels(targets) /\ targets # {}
      <3>1. /\ sent' \in Seq(Bracket!Request) /\ Bracket!PlacedFirst'
            /\ \A i \in DOMAIN sent' : \/ i \in DOMAIN sent /\ sent'[i] = sent[i]
                                       \/ sent'[i].what = "cancel" /\ sent'[i].order \in targets
            /\ Bracket!EntryEnds \/ 1 \in targets => Bracket!EntryEnds'
        BY <1>1, <1>5, <2>2, BracketCancels
      <3> QED BY <2>2, <3>1
    <2>3. \/ sent' = sent /\ ~(stage' = "unwinding" /\ up)
          \/ stage' = "unwinding" /\ up /\ sent' = BracketWithCancels(targets) /\ targets # {}
      BY <1>1
    <2> QED BY <2>1, <2>2, <2>3
  <1>8. Bracket!NeedsUnwinding(tradesShown') /\ up => Bracket!EntryEnds' \/ verdict' = "left_filled"
    <2> SUFFICES ASSUME Bracket!NeedsUnwinding(tradesShown'), up
                 PROVE  Bracket!EntryEnds' \/ verdict' = "left_filled"
      OBVIOUS
    <2>1. CASE 1 \notin working
      BY <1>1, <1>4, <2>1 DEF Bracket!EntryEnds
    <2>2. CASE targets = {} /\ working # {}
      BY <1>1, <2>2
    <2>3. CASE targets # {} /\ 1 \in working
      <3>1. stage' = "unwinding" /\ 1 \in targets
        BY <1>1, <1>5, <2>3
      <3> QED BY <1>7, <3>1
    <2> QED BY <2>1, <2>2, <2>3
  <1>9. stage' \in {"unwinding", "done"}
    BY <1>1
  <1>10. /\ verdict' \in {"none", "answered", "none_working", "left_filled", "not_connected"}
         /\ stage' = "unwinding" => verdict' = "none"
         /\ verdict' = "none_working" => stage' = "done" /\ working = {}
    BY <1>1, <1>3
  <1>11. tradesShown[1].filled \in BOOLEAN
    <2>1. \A t \in Bracket!Trade : t.filled \in BOOLEAN
      BY DEF Bracket!Trade, Bracket!Open
    <2> QED BY <2>1, BracketTypes
  <1>21. targets # {} /\ 1 \notin targets => book[1] \in {"cancelled", "rejected"}
    <2> SUFFICES ASSUME targets # {}, 1 \notin targets PROVE book[1] \in {"cancelled", "rejected"}
      OBVIOUS
    <2>1. tradesShown'[1].status \notin {"PendingSubmit", "Submitted", "Warned"} /\ ~tradesShown[1].filled
      BY <1>5 DEF working
    <2>2. tradesShown[1].status \notin {"PendingSubmit", "Submitted", "Warned"}
      BY <1>2, <2>1
    <2>3. book[1] \in Bracket!Over
      BY <1>1, <1>3, <2>2, BracketShut
    <2>4. book[1] = "filled" => tradesShown[1].status \notin {"ValidationError", "Inactive", "Cancelled", "Filled"}
      BY <1>3, <2>1 DEF BracketHolds, Bracket!ShownIsTrue
    <2>5. \A t \in Bracket!Trade : t.status \in {"none", "PendingSubmit", "Submitted", "Warned", "ValidationError",
                                               "Inactive", "Cancelled", "Filled"}
      BY DEF Bracket!Trade, Bracket!Open, Bracket!Done
    <2>6. tradesShown[1] \in Bracket!Trade
      BY BracketTypes
    <2>7. tradesShown[1].status \in {"ValidationError", "Inactive", "Cancelled", "Filled"}
      BY <1>3, <2>2, <2>5, <2>6
    <2> QED BY <2>3, <2>4, <2>7 DEF Bracket!Over
  <1>12. Bracket!TypeOK'
    BY <1>1, <1>2, <1>3, <1>7, <1>9, <1>10, <1>11 DEF BracketHolds, Bracket!TypeOK
  <1>13. Bracket!InTurn'
    <2>1. \A o \in 1..3 : tradesShown'[o].status # "none"
      BY <1>2, <1>3
    <2>2. /\ verdict' \in {"unwound", "none_working"} => stage' = "done"
          /\ stage' # "done" => verdict' = "none"
      BY <1>9, <1>10
    <2> QED BY <1>1, <1>3, <1>9, <2>1, <2>2 DEF BracketHolds, Bracket!InTurn
  <1>14. Bracket!FillsInTurn'
    <2>1. knewFill' => partial
      BY <1>1 DEF BracketHolds, Bracket!ShownIsTrue
    <2> QED BY <1>1, <2>1 DEF BracketHolds, Bracket!FillsInTurn
  <1>15. Bracket!NewsIsTrue'
    BY <1>1 DEF BracketHolds, Bracket!NewsIsTrue, Bracket!IsSo
  <1>16. Bracket!RejectionsAreHeard'
    <2> SUFFICES ASSUME up, ~rejectedLate, NEW o \in Bracket!Exits, book[o] = "rejected"
                 PROVE  \/ \E i \in DOMAIN told : told[i].order = o /\ told[i].what \in {"error", "warning"}
                        \/ Bracket!EntryEnds' \/ verdict' = "left_filled"
      BY <1>1, <1>9 DEF Bracket!RejectionsAreHeard
    <2>1. \/ \E i \in DOMAIN told : told[i].order = o /\ told[i].what \in {"error", "warning"}
          \/ /\ tradesShown[o].error
             /\ tradesShown[o].status \in {"Cancelled", "ValidationError", "Inactive"}
      BY <1>1 DEF BracketHolds, Bracket!RejectionsAreHeard
    <2>2. ASSUME tradesShown[o].error, tradesShown[o].status \in {"Cancelled", "ValidationError", "Inactive"}
          PROVE  Bracket!EntryEnds' \/ verdict' = "left_filled"
      <3>1. o \in 1..3
        BY DEF Bracket!Exits
      <3>2. tradesShown'[o].error /\ tradesShown'[o].status \in {"Cancelled", "Inactive"}
        BY <1>2, <2>2, <3>1
      <3>3. Bracket!NeedsUnwinding(tradesShown')
        BY <3>1, <3>2 DEF Bracket!NeedsUnwinding, Bracket!Rejected
      <3> QED BY <1>8, <3>3
    <2> QED BY <2>1, <2>2
  <1>17. Bracket!CancelsTakeTheEntry'
    <2> SUFFICES ASSUME up, ~rejectedLate
                 PROVE  /\ \A o \in Bracket!Exits : book[o] = "cancelled" => Bracket!EntryEnds'
                        /\ \A i \in DOMAIN sent' : sent'[i].what = "cancel" => Bracket!EntryEnds'
      BY <1>1 DEF Bracket!CancelsTakeTheEntry
    <2>1. \A o \in Bracket!Exits : book[o] = "cancelled" => Bracket!EntryEnds'
      BY <1>7 DEF BracketHolds, Bracket!CancelsTakeTheEntry
    <2>2. \A i \in DOMAIN sent : sent[i].what = "cancel" => Bracket!EntryEnds'
      BY <1>7 DEF BracketHolds, Bracket!CancelsTakeTheEntry
    <2>3. stage' = "unwinding" => Bracket!NeedsUnwinding(tradesShown') /\ verdict' # "left_filled"
      BY <1>1, <1>3
    <2>4. \A i \in DOMAIN sent' : sent'[i].what = "cancel" => Bracket!EntryEnds'
      BY <1>7, <1>8, <2>2, <2>3
    <2> QED BY <2>1, <2>4
  <1>18. Bracket!FillsAreSpared'
    <2> SUFFICES ASSUME swept = {}
                 PROVE  /\ \A i \in DOMAIN sent' : sent'[i].what = "cancel" =>
                              /\ Bracket!Unwinds'
                              /\ sent'[i].order # 1 => book[1] \in {"cancelled", "rejected"}
                        /\ \A o \in Bracket!Exits : book[o] = "cancelled" =>
                              \/ Bracket!Unwinds' /\ book[1] = "cancelled"
                              \/ book[1] = "rejected" \/ \E p \in Bracket!Exits : book[p] = "filled"
      BY <1>1 DEF Bracket!FillsAreSpared
    <2>1. targets # {} => Bracket!Unwinds'
      BY <1>1, <1>5, <1>9 DEF Bracket!Unwinds
    <2>2. ~Bracket!Unwinds
      BY <1>1 DEF Bracket!Unwinds
    <2>3. \A i \in DOMAIN sent' : sent'[i].what = "cancel" =>
             /\ Bracket!Unwinds'
             /\ sent'[i].order # 1 => book[1] \in {"cancelled", "rejected"}
      <3> SUFFICES ASSUME NEW i \in DOMAIN sent', sent'[i].what = "cancel"
                   PROVE  /\ Bracket!Unwinds'
                          /\ sent'[i].order # 1 => book[1] \in {"cancelled", "rejected"}
        OBVIOUS
      <3>1. targets # {} /\ sent'[i].order \in targets
        BY <1>6, <1>7
      <3>2. sent'[i].order # 1 => 1 \notin targets
        BY <1>5, <3>1
      <3> QED BY <1>21, <2>1, <3>1, <3>2
    <2> QED BY <2>2, <2>3 DEF BracketHolds, Bracket!FillsAreSpared
  <1>19. Bracket!AnswerShowsAll'
    <2>1. \A o \in 1..3 : Bracket!IsOpen(o)' <=> Bracket!IsOpen(o)
      BY <1>2 DEF Bracket!IsOpen, Bracket!Open
    <2>2. \A j : \A o \in 1..3 : Bracket!ShowsBy(j, o)' <=> Bracket!ShowsBy(j, o)
      BY <1>1, <2>1 DEF Bracket!ShowsBy, Bracket!Opens, Bracket!Complaint
    <2>3. \A k, o : Bracket!Complaint(k, o)' <=> Bracket!Complaint(k, o)
      BY <1>1 DEF Bracket!Complaint
    <2>4. sweeper = "idle" => \A i \in DOMAIN sent' : sent'[i].what # "open"
      BY <1>7 DEF BracketHolds, Bracket!AnswerShowsAll
    <2> QED BY <1>1, <2>1, <2>2, <2>3, <2>4 DEF BracketHolds, Bracket!AnswerShowsAll
  <1>20. Bracket!StaysOver'
    <2>1. verdict' \in {"unwound", "none_working"} => \A o \in 1..3 : book[o] \in Bracket!Over
      BY <1>4, <1>10
    <2> QED BY <1>1, <2>1 DEF BracketHolds, Bracket!StaysOver
  <1> QED BY <1>2, <1>7, <1>12, <1>13, <1>14, <1>15, <1>16, <1>17, <1>18, <1>19, <1>20 DEF BracketHolds

\* The cancels of a cancel-all, for what shows as open; the rest is left out.
LEMMA BracketSweeps ==
    ASSUME BracketHolds, Bracket!CancelListed, placed = 3, sweeper \in {"idle", "asking", "answered"},
           UNCHANGED <<stage, placed, verdict, knewFill, tradesShown, book, partial, complaint, told, up,
                       rejectedLate>>,
           unanswered' \in BOOLEAN, unanswered => unanswered',
           \A o \in 1..3 : \/ tradesShown[o].status \in {"PendingSubmit", "Submitted", "Warned"}
                           \/ book[o] \in Bracket!Over
                           \/ unanswered'
    PROVE  BracketHolds'
  <1> USE DEF Bracket!Orders
  <1> DEFINE open == {o \in 1..3 : tradesShown[o].status \in {"PendingSubmit", "Submitted", "Warned"}}
  <1>1. /\ sweeper' \in {"swept", "failed"}
        /\ \/ up /\ swept' = open /\ skipped' = (1..3) \ open /\ sent' = BracketWithCancels(open)
           \/ ~up /\ UNCHANGED <<swept, skipped, sent>>
    BY DEF Bracket!CancelListed, Bracket!IsOpen, BracketWithCancels, Bracket!Open
  <1>2. swept = {} /\ skipped = {} /\ stage # "placing"
    BY DEF BracketHolds, Bracket!InTurn
  <1>3. open \in SUBSET (1..3) /\ \A o \in 1..3 : o \notin open => book[o] \in Bracket!Over \/ unanswered'
    OBVIOUS
  <1>4. up /\ ~rejectedLate /\ 1 \notin open => book[1] \in Bracket!Over
    BY BracketShut
  <1> HIDE DEF open
  <1>5. /\ sent' \in Seq(Bracket!Request) /\ Bracket!PlacedFirst'
        /\ \A i \in DOMAIN sent' : \/ i \in DOMAIN sent /\ sent'[i] = sent[i]
                                   \/ sent'[i].what = "cancel" /\ swept' # {} /\ up
        /\ Bracket!EntryEnds => Bracket!EntryEnds'
        /\ up /\ 1 \in open => Bracket!EntryEnds'
    <2>1. CASE up /\ swept' = open /\ sent' = BracketWithCancels(open)
      <3>1. /\ sent' \in Seq(Bracket!Request) /\ Bracket!PlacedFirst'
            /\ \A i \in DOMAIN sent' : \/ i \in DOMAIN sent /\ sent'[i] = sent[i]
                                       \/ sent'[i].what = "cancel" /\ sent'[i].order \in open
            /\ Bracket!EntryEnds \/ 1 \in open => Bracket!EntryEnds'
        BY <1>2, <1>3, <2>1, BracketCancels
      <3>2. \A i \in DOMAIN sent' : \/ i \in DOMAIN sent /\ sent'[i] = sent[i]
                                    \/ sent'[i].what = "cancel" /\ swept' # {} /\ up
        BY <2>1, <3>1
      <3> QED BY <3>1, <3>2
    <2>2. CASE ~up /\ UNCHANGED <<swept, skipped, sent>>
      <3>1. sent' \in Seq(Bracket!Request)
        BY <2>2, BracketTypes
      <3>2. Bracket!PlacedFirst'
        BY <2>2 DEF BracketHolds, Bracket!PlacedFirst
      <3>3. Bracket!EntryEnds => Bracket!EntryEnds'
        BY <2>2 DEF Bracket!EntryEnds
      <3> QED BY <2>2, <3>1, <3>2, <3>3
    <2> QED BY <1>1, <2>1, <2>2
  <1>6. up /\ ~rejectedLate /\ (\E i \in DOMAIN sent' : sent'[i].what = "cancel") => Bracket!EntryEnds'
    <2> SUFFICES ASSUME up, ~rejectedLate, NEW i \in DOMAIN sent', sent'[i].what = "cancel"
                 PROVE  Bracket!EntryEnds'
      OBVIOUS
    <2>1. CASE 1 \in open
      BY <1>5, <2>1
    <2>2. CASE 1 \notin open
      BY <1>4, <2>2 DEF Bracket!EntryEnds
    <2> QED BY <2>1, <2>2
  <1>7. swept' \subseteq 1..3 /\ skipped' \subseteq 1..3
        /\ \A o \in skipped' : book[o] \in Bracket!Over \/ unanswered'
    BY <1>1, <1>2, <1>3
  <1>8. Bracket!TypeOK'
    BY <1>1, <1>5, <1>7 DEF BracketHolds, Bracket!TypeOK
  <1>9. Bracket!InTurn' /\ Bracket!FillsInTurn'
    BY <1>1 DEF BracketHolds, Bracket!InTurn, Bracket!FillsInTurn
  <1>10. Bracket!NewsIsTrue' /\ Bracket!ShownIsTrue'
    BY DEF BracketHolds, Bracket!NewsIsTrue, Bracket!IsSo, Bracket!ShownIsTrue
  <1>11. Bracket!RejectionsAreHeard'
    BY <1>5 DEF BracketHolds, Bracket!RejectionsAreHeard
  <1>12. Bracket!CancelsTakeTheEntry'
    BY <1>5, <1>6 DEF BracketHolds, Bracket!CancelsTakeTheEntry
  <1>13. Bracket!Unwinds' <=> Bracket!Unwinds
    BY DEF Bracket!Unwinds
  <1>14. Bracket!FillsAreSpared'
    <2> SUFFICES ASSUME swept' = {}
                 PROVE  /\ \A i \in DOMAIN sent' : sent'[i].what = "cancel" =>
                              /\ Bracket!Unwinds
                              /\ sent'[i].order # 1 => book[1] \in {"cancelled", "rejected"}
                        /\ \A o \in Bracket!Exits : book[o] = "cancelled" =>
                              \/ Bracket!Unwinds /\ book[1] = "cancelled"
                              \/ book[1] = "rejected" \/ \E p \in Bracket!Exits : book[p] = "filled"
      BY <1>13 DEF Bracket!FillsAreSpared
    <2> QED BY <1>2, <1>5 DEF BracketHolds, Bracket!FillsAreSpared
  <1>15. Bracket!AnswerShowsAll'
    BY <1>1 DEF Bracket!AnswerShowsAll
  <1>16. Bracket!StaysOver'
    BY <1>7 DEF BracketHolds, Bracket!StaysOver
  <1> QED BY <1>5, <1>8, <1>9, <1>10, <1>11, <1>12, <1>14, <1>15, <1>16 DEF BracketHolds

\* A cancel-all that finds a trade that looks stale asks IBKR first.
LEMMA BracketSweepAsks ==
    ASSUME BracketHolds, sweeper = "idle", placed = 3, up, NEW o \in 1..3, Bracket!LooksStale(o),
           sweeper' = "asking", sent' = BracketSentOpen,
           UNCHANGED <<stage, placed, verdict, knewFill, tradesShown, book, partial, complaint, told, up,
                       rejectedLate, swept, skipped, unanswered>>
    PROVE  BracketHolds'
  <1> USE DEF Bracket!Orders
  <1> DEFINE more == <<Bracket!Message("open", 1)>>
  <1>1. /\ more \in Seq(Bracket!Request) /\ DOMAIN more = {1} /\ more[1].what = "open"
        /\ Bracket!Message("open", 1) \in Bracket!Request
    BY DEF Bracket!Message, Bracket!Request
  <1>2. sent' = sent \o more
    <2>1. sent \in Seq(Bracket!Request)
      BY BracketTypes
    <2> QED BY <1>1, <2>1, AppendIsConcat DEF BracketSentOpen
  <1> HIDE DEF more
  <1>3. stage # "placing" /\ swept = {} /\ skipped = {}
    BY DEF BracketHolds, Bracket!InTurn
  <1>4. \A k \in DOMAIN more : more[k].what = "open" /\ more[k].what # "place"
    BY <1>1
  <1>5. /\ sent' \in Seq(Bracket!Request) /\ Bracket!PlacedFirst'
        /\ \A i \in DOMAIN sent' : \/ i \in DOMAIN sent /\ sent'[i] = sent[i]
                                   \/ \E k \in DOMAIN more : sent'[i] = more[k]
        /\ Bracket!EntryEnds => Bracket!EntryEnds'
    BY <1>1, <1>2, <1>3, <1>4, BracketAsks
  <1>6. \A i \in DOMAIN sent' : sent'[i].what = "cancel" => i \in DOMAIN sent /\ sent'[i] = sent[i]
    BY <1>4, <1>5
  <1>7. book[1] # "none"
    <2>1. book[o] # "none"
      BY DEF BracketHolds, Bracket!ShownIsTrue, Bracket!FillsInTurn, Bracket!LooksStale
    <2> QED BY <2>1, BracketIsPlaced
  <1>8. Bracket!TypeOK'
    BY <1>5 DEF BracketHolds, Bracket!TypeOK
  <1>9. Bracket!InTurn' /\ Bracket!FillsInTurn'
    BY <1>3, <1>7 DEF BracketHolds, Bracket!InTurn, Bracket!FillsInTurn
  <1>10. Bracket!NewsIsTrue' /\ Bracket!ShownIsTrue'
    BY DEF BracketHolds, Bracket!NewsIsTrue, Bracket!IsSo, Bracket!ShownIsTrue
  <1>11. Bracket!RejectionsAreHeard'
    BY <1>5 DEF BracketHolds, Bracket!RejectionsAreHeard
  <1>12. Bracket!CancelsTakeTheEntry'
    BY <1>5, <1>6 DEF BracketHolds, Bracket!CancelsTakeTheEntry
  <1>13. Bracket!Unwinds' <=> Bracket!Unwinds
    BY DEF Bracket!Unwinds
  <1>14. Bracket!FillsAreSpared'
    BY <1>6, <1>13 DEF BracketHolds, Bracket!FillsAreSpared
  <1>15. Bracket!AnswerShowsAll'
    BY DEF BracketHolds, Bracket!AnswerShowsAll
  <1>16. Bracket!StaysOver'
    BY DEF BracketHolds, Bracket!StaysOver
  <1> QED BY <1>5, <1>8, <1>9, <1>10, <1>11, <1>12, <1>14, <1>15, <1>16 DEF BracketHolds

LEMMA BracketSweep ==
    ASSUME BracketHolds, Bracket!Sweep
    PROVE  BracketHolds'
  <1> USE DEF Bracket!Orders
  <1>1. /\ sweeper = "idle" /\ placed = 3
        /\ UNCHANGED <<stage, placed, verdict, knewFill, tradesShown, book, partial, complaint, told, up,
                       unanswered, rejectedLate>>
    BY DEF Bracket!Sweep, Bracket!submit, Bracket!market
  <1>2. unanswered \in BOOLEAN
    BY DEF BracketHolds, Bracket!TypeOK
  <1>3. CASE (\A o \in 1..3 : ~Bracket!LooksStale(o)) /\ Bracket!CancelListed
    <2>1. \A o \in 1..3 : \/ tradesShown[o].status \in {"PendingSubmit", "Submitted", "Warned"}
                          \/ book[o] \in Bracket!Over
                          \/ unanswered'
      <3> SUFFICES ASSUME NEW o \in 1..3, tradesShown[o].status \notin {"PendingSubmit", "Submitted", "Warned"}
                   PROVE  book[o] \in Bracket!Over
        OBVIOUS
      <3>1. tradesShown[o].status # "Cancelled" \/ ~tradesShown[o].last
        BY <1>3 DEF Bracket!LooksStale
      <3> QED BY <1>1, <3>1, BracketShut
    <2> QED BY <1>1, <1>2, <1>3, <2>1, BracketSweeps
  <1>4. CASE /\ \E o \in 1..3 : Bracket!LooksStale(o)
             /\ up /\ sweeper' = "asking" /\ sent' = BracketSentOpen /\ UNCHANGED <<swept, skipped>>
    BY <1>1, <1>4, BracketSweepAsks
  <1> QED BY <1>3, <1>4 DEF Bracket!Sweep, BracketSentOpen

LEMMA BracketSynced ==
    ASSUME BracketHolds, Bracket!Synced
    PROVE  BracketHolds'
  <1> USE DEF Bracket!Orders
  <1>1. /\ sweeper = "answered" /\ Bracket!CancelListed
        /\ UNCHANGED <<stage, placed, verdict, knewFill, tradesShown, book, partial, complaint, told, up,
                       unanswered, rejectedLate>>
    BY DEF Bracket!Synced, Bracket!submit, Bracket!market
  <1>2. placed = 3 /\ book[1] # "none" /\ unanswered \in BOOLEAN
    BY <1>1 DEF BracketHolds, Bracket!InTurn, Bracket!TypeOK
  <1>3. \A o \in 1..3 : \/ tradesShown[o].status \in {"PendingSubmit", "Submitted", "Warned"}
                        \/ book[o] \in Bracket!Over
    <2>1. \A o \in 1..3 : book[o] \in Bracket!Alive => tradesShown[o].status \in {"PendingSubmit", "Submitted", "Warned"}
      BY <1>1 DEF BracketHolds, Bracket!AnswerShowsAll, Bracket!IsOpen, Bracket!Open
    <2>2. \A o \in 1..3 : book[o] # "none"
      BY <1>2, BracketIsPlaced
    <2>3. \A o \in 1..3 : book[o] \in {"none", "held", "working", "filled", "cancelled", "rejected"}
      BY BracketTypes
    <2> QED BY <2>1, <2>2, <2>3 DEF Bracket!Alive, Bracket!Over
  <1> QED BY <1>1, <1>2, <1>3, BracketSweeps

LEMMA BracketSyncFails ==
    ASSUME BracketHolds, Bracket!SyncFails
    PROVE  BracketHolds'
  <1>1. /\ sweeper = "asking" /\ Bracket!CancelListed /\ unanswered' = TRUE
        /\ UNCHANGED <<stage, placed, verdict, knewFill, tradesShown, book, partial, complaint, told, up,
                       rejectedLate>>
    BY DEF Bracket!SyncFails, Bracket!submit, Bracket!market
  <1>2. placed = 3
    BY <1>1 DEF BracketHolds, Bracket!InTurn
  <1> QED BY <1>1, <1>2, BracketSweeps

\* What ib_async shows of the orders that are alive as IBKR's answer to a cancel-all comes.
LEMMA BracketAnswerComes ==
    ASSUME BracketHolds, NEW m \in Bracket!News, m = told[1], 1 \in DOMAIN told,
           DOMAIN told = 1..Len(told), Len(told) \in Nat, DOMAIN told' = 1..(Len(told) - 1),
           \A i \in DOMAIN told' : i + 1 \in DOMAIN told /\ told'[i] = told[i + 1],
           \A i \in DOMAIN told : i > 1 => i - 1 \in DOMAIN told' /\ told'[i - 1] = told[i],
           sweeper' = IF m.what = "end" /\ sweeper = "asking" THEN "answered" ELSE sweeper,
           UNCHANGED <<book, partial, complaint, sent>>,
           \A o \in 1..3 : m.what = "end" \/ o # m.order => tradesShown'[o] = tradesShown[o],
           m.what # "end" => tradesShown'[m.order].status =
               IF m.what = "error" THEN "Cancelled" ELSE IF m.what = "warning" THEN "ValidationError"
               ELSE IF m.what = "notice" THEN "Warned" ELSE IF m.what = "PartFilled" THEN "Submitted" ELSE m.what
    PROVE  Bracket!AnswerShowsAll'
  <1> USE DEF Bracket!Orders
  <1>1. /\ m.order \in 1..3
        /\ m.what \in {"Submitted", "notice", "PartFilled", "Cancelled", "Filled", "error", "warning", "end"}
    <2>1. \A x \in Bracket!News :
             /\ x.order \in 1..3
             /\ x.what \in {"Submitted", "notice", "PartFilled", "Cancelled", "Filled", "error", "warning", "end"}
      BY DEF Bracket!News
    <2> QED BY <2>1
  <1>2. /\ m.what = "Cancelled" => book[m.order] = "cancelled"
        /\ m.what = "Filled" => book[m.order] = "filled"
        /\ m.what = "warning" => book[m.order] = "rejected"
    BY DEF BracketHolds, Bracket!NewsIsTrue, Bracket!IsSo
  \* An order alive after a message of it other than an error shows as open.
  <1>3. ASSUME NEW o \in 1..3, book[o] \in Bracket!Alive, Bracket!IsOpen(o) \/ Bracket!Opens(1, o),
               ~Bracket!Complaint(1, o)
        PROVE  tradesShown'[o].status \in {"PendingSubmit", "Submitted", "Warned"}
    <2>1. CASE m.what = "end" \/ o # m.order
      BY <1>3, <2>1 DEF Bracket!IsOpen, Bracket!Opens, Bracket!Open
    <2>2. CASE m.what # "end" /\ o = m.order
      <3>1. m.what \in {"Submitted", "notice", "PartFilled"}
        BY <1>1, <1>2, <1>3, <2>2 DEF Bracket!Alive, Bracket!Complaint
      <3> QED BY <2>2, <3>1
    <2> QED BY <2>1, <2>2
  <1>4. \A i \in DOMAIN told' : \A o : Bracket!Complaint(i, o)' => i + 1 \in DOMAIN told /\ Bracket!Complaint(i + 1, o)
    BY DEF Bracket!Complaint
  <1>5. CASE sweeper = "idle"
    <2>1. \A i \in DOMAIN told' : told'[i].what # "end"
      BY <1>5 DEF BracketHolds, Bracket!AnswerShowsAll
    <2> QED BY <1>5, <2>1 DEF BracketHolds, Bracket!AnswerShowsAll
  <1>6. CASE sweeper = "asking" /\ m.what # "end"
    <2>1. ASSUME NEW j \in DOMAIN told', told'[j].what = "end", NEW o \in 1..3, book[o] \in Bracket!Alive
          PROVE  Bracket!ShowsBy(j, o)'
      <3>1. j + 1 \in DOMAIN told /\ told[j + 1].what = "end" /\ j \in Nat /\ j + 1 - 1 = j
        BY <2>1
      <3>2. Bracket!ShowsBy(j + 1, o)
        BY <1>6, <2>1, <3>1 DEF BracketHolds, Bracket!AnswerShowsAll
      <3>3. \A i \in 1..j : i \in DOMAIN told
        BY <2>1
      <3>4. \A i \in 1..j : i # 1 => i - 1 \in 1..(j - 1) /\ told'[i - 1] = told[i]
        <4> SUFFICES ASSUME NEW i \in 1..j, i # 1 PROVE i - 1 \in 1..(j - 1) /\ told'[i - 1] = told[i]
          OBVIOUS
        <4>1. i > 1 /\ i - 1 \in 1..(j - 1)
          BY <3>1
        <4> QED BY <3>3, <4>1
      <3>5. ASSUME ~(\E i \in 1..(j - 1) : told'[i].order = o /\ told'[i].what \in {"Submitted", "notice", "PartFilled"})
            PROVE  tradesShown'[o].status \in {"PendingSubmit", "Submitted", "Warned"}
        <4>1. \A i \in 1..j : Bracket!Opens(i, o) => i = 1
          BY <3>4, <3>5 DEF Bracket!Opens
        <4>2. Bracket!IsOpen(o) \/ Bracket!Opens(1, o)
          BY <3>1, <3>2, <4>1 DEF Bracket!ShowsBy
        <4>3. ~Bracket!Complaint(1, o)
          <5> SUFFICES ASSUME Bracket!Complaint(1, o) PROVE FALSE
            OBVIOUS
          <5>1. \E i \in 2..j : Bracket!Opens(i, o)
            BY <3>1, <3>2 DEF Bracket!ShowsBy
          <5>2. \A i \in 2..j : i \in 1..j /\ i # 1
            BY <3>1
          <5> QED BY <4>1, <5>1, <5>2
        <4> QED BY <1>3, <2>1, <4>2, <4>3
      <3>6. ASSUME NEW k \in DOMAIN told', told'[k].order = o, told'[k].what = "error"
            PROVE  \E i \in (k + 1)..(j - 1) : told'[i].order = o /\ told'[i].what \in {"Submitted", "notice", "PartFilled"}
        <4>1. k + 1 \in DOMAIN told /\ Bracket!Complaint(k + 1, o) /\ k \in Nat
          BY <3>6 DEF Bracket!Complaint
        <4>2. PICK i \in (k + 1 + 1)..(j + 1 - 1) : Bracket!Opens(i, o)
          BY <3>2, <4>1 DEF Bracket!ShowsBy
        <4>3. i \in 1..j /\ i # 1 /\ i - 1 \in (k + 1)..(j - 1)
          BY <3>1, <3>6, <4>1
        <4> QED BY <3>4, <4>2, <4>3 DEF Bracket!Opens
      <3> QED BY <3>5, <3>6 DEF Bracket!ShowsBy, Bracket!IsOpen, Bracket!Opens, Bracket!Complaint, Bracket!Open
    <2>2. sweeper' = "asking"
      BY <1>6
    <2> QED BY <2>1, <2>2 DEF Bracket!AnswerShowsAll
  <1>7. CASE sweeper = "asking" /\ m.what = "end"
    <2>1. ASSUME NEW o \in 1..3, book[o] \in Bracket!Alive
          PROVE  /\ tradesShown'[o].status \in {"PendingSubmit", "Submitted", "Warned"}
                 /\ \A k \in DOMAIN told' : ~Bracket!Complaint(k, o)'
      <3>1. Bracket!ShowsBy(1, o)
        BY <1>7, <2>1 DEF BracketHolds, Bracket!AnswerShowsAll
      <3>2. Bracket!IsOpen(o)
        BY <3>1 DEF Bracket!ShowsBy
      <3>3. ASSUME NEW k \in DOMAIN told, Bracket!Complaint(k, o) PROVE FALSE
        <4>1. \E i \in (k + 1)..(1 - 1) : Bracket!Opens(i, o)
          BY <3>1, <3>3 DEF Bracket!ShowsBy
        <4>2. k \in Nat /\ k >= 1
          OBVIOUS
        <4> QED BY <4>1, <4>2
      <3> QED BY <1>4, <1>7, <3>2, <3>3 DEF Bracket!IsOpen, Bracket!Open
    <2>2. sweeper' = "answered"
      BY <1>7
    <2> QED BY <2>1, <2>2 DEF Bracket!AnswerShowsAll, Bracket!IsOpen, Bracket!Open
  <1>8. CASE sweeper = "answered"
    <2>1. ASSUME NEW o \in 1..3, book[o] \in Bracket!Alive
          PROVE  /\ tradesShown'[o].status \in {"PendingSubmit", "Submitted", "Warned"}
                 /\ \A k \in DOMAIN told' : ~Bracket!Complaint(k, o)'
      <3>1. Bracket!IsOpen(o) /\ \A k \in DOMAIN told : ~Bracket!Complaint(k, o)
        BY <1>8, <2>1 DEF BracketHolds, Bracket!AnswerShowsAll
      <3> QED BY <1>3, <1>4, <2>1, <3>1
    <2>2. sweeper' = "answered"
      BY <1>8
    <2> QED BY <2>1, <2>2 DEF Bracket!AnswerShowsAll, Bracket!IsOpen, Bracket!Open
  <1>9. CASE sweeper \notin {"idle", "asking", "answered"}
    BY <1>9 DEF Bracket!AnswerShowsAll
  <1> QED BY <1>5, <1>6, <1>7, <1>8, <1>9

\* What ib_async makes of a message.
LEMMA BracketReads ==
    ASSUME BracketHolds, told # <<>>, NEW m \in Bracket!News, m = Head(told),
           tradesShown' = IF m.what = "end" THEN tradesShown ELSE
                          [tradesShown EXCEPT ![m.order] =
                             [status |-> CASE m.what = "error" -> "Cancelled"
                                           [] m.what = "warning" -> "ValidationError"
                                           [] m.what = "notice" -> "Warned"
                                           [] m.what = "PartFilled" -> "Submitted"
                                           [] OTHER -> m.what,
                              error |-> @.error \/ m.what \in Bracket!Errors,
                              last |-> \/ m.what \in Bracket!Errors
                                       \/ @.last /\ m.what = "Cancelled" /\ @.status = "Cancelled",
                              filled |-> @.filled \/ m.what \in {"Filled", "PartFilled"}]]
    PROVE  /\ tradesShown' \in [1..3 -> Bracket!Trade]
           /\ \A o \in 1..3 : m.what = "end" \/ o # m.order => tradesShown'[o] = tradesShown[o]
           /\ m.what # "end" =>
                 /\ tradesShown'[m.order].status = CASE m.what = "error" -> "Cancelled"
                                                     [] m.what = "warning" -> "ValidationError"
                                                     [] m.what = "notice" -> "Warned"
                                                     [] m.what = "PartFilled" -> "Submitted"
                                                     [] OTHER -> m.what
                 /\ tradesShown'[m.order].error = (tradesShown[m.order].error \/ m.what \in Bracket!Errors)
                 /\ m.what \in Bracket!Errors => tradesShown'[m.order].last
                 /\ tradesShown'[m.order].filled =
                       (tradesShown[m.order].filled \/ m.what \in {"Filled", "PartFilled"})
  <1>1. /\ tradesShown \in [1..3 -> Bracket!Trade]
        /\ m.order \in 1..3
        /\ m.what \in {"Submitted", "notice", "PartFilled", "Cancelled", "Filled", "error", "warning", "end"}
    BY BracketTypes DEF Bracket!News, Bracket!Orders
  <1> DEFINE t == [status |-> CASE m.what = "error" -> "Cancelled"
                                [] m.what = "warning" -> "ValidationError"
                                [] m.what = "notice" -> "Warned"
                                [] m.what = "PartFilled" -> "Submitted"
                                [] OTHER -> m.what,
                   error |-> tradesShown[m.order].error \/ m.what \in Bracket!Errors,
                   last |-> \/ m.what \in Bracket!Errors
                            \/ /\ tradesShown[m.order].last /\ m.what = "Cancelled"
                               /\ tradesShown[m.order].status = "Cancelled",
                   filled |-> tradesShown[m.order].filled \/ m.what \in {"Filled", "PartFilled"}]
  <1>2. m.what # "end" => t \in Bracket!Trade
    BY <1>1 DEF Bracket!Trade, Bracket!Done, Bracket!Open
  <1>3. /\ t.status = CASE m.what = "error" -> "Cancelled"
                        [] m.what = "warning" -> "ValidationError"
                        [] m.what = "notice" -> "Warned"
                        [] m.what = "PartFilled" -> "Submitted"
                        [] OTHER -> m.what
        /\ t.error = (tradesShown[m.order].error \/ m.what \in Bracket!Errors)
        /\ m.what \in Bracket!Errors => t.last
        /\ t.filled = (tradesShown[m.order].filled \/ m.what \in {"Filled", "PartFilled"})
    OBVIOUS
  <1>4. tradesShown' = IF m.what = "end" THEN tradesShown ELSE [tradesShown EXCEPT ![m.order] = t]
    OBVIOUS
  <1> HIDE DEF t
  <1>5. /\ tradesShown' \in [1..3 -> Bracket!Trade]
        /\ \A o \in 1..3 : m.what = "end" \/ o # m.order => tradesShown'[o] = tradesShown[o]
        /\ m.what # "end" => tradesShown'[m.order] = t
    BY <1>1, <1>2, <1>4
  <1> QED BY <1>3, <1>5

\* ib_async takes a message in.
LEMMA BracketDeliver ==
    ASSUME BracketHolds, Bracket!Deliver
    PROVE  BracketHolds'
  <1> USE DEF Bracket!Orders
  <1> DEFINE m == Head(told)
  <1>1. /\ told # <<>> /\ told' = Tail(told)
        /\ sweeper' = IF m.what = "end" /\ sweeper = "asking" THEN "answered" ELSE sweeper
        /\ rejectedLate' = (rejectedLate \/ (stage # "waiting" /\ m.what \in {"error", "warning"}))
        /\ UNCHANGED <<stage, placed, verdict, knewFill, book, partial, complaint, sent, up, swept, skipped,
                       unanswered>>
    BY DEF Bracket!Deliver, Bracket!submit, Bracket!market
  <1>2. /\ told' \in Seq(Bracket!News) /\ m \in Bracket!News /\ m = told[1] /\ 1 \in DOMAIN told
        /\ DOMAIN told = 1..Len(told) /\ Len(told) \in Nat /\ DOMAIN told' = 1..(Len(told) - 1)
        /\ \A i \in DOMAIN told' : i + 1 \in DOMAIN told /\ told'[i] = told[i + 1]
        /\ \A i \in DOMAIN told : i > 1 => i - 1 \in DOMAIN told' /\ told'[i - 1] = told[i]
    <2>1. told \in Seq(Bracket!News)
      BY BracketTypes
    <2> QED BY <1>1, <2>1, BracketRest
  <1>3. /\ m.order \in 1..3
        /\ m.what \in {"Submitted", "notice", "PartFilled", "Cancelled", "Filled", "error", "warning", "end"}
    <2>1. \A x \in Bracket!News :
             /\ x.order \in 1..3
             /\ x.what \in {"Submitted", "notice", "PartFilled", "Cancelled", "Filled", "error", "warning", "end"}
      BY DEF Bracket!News
    <2> QED BY <1>2, <2>1
  <1>4. /\ tradesShown' \in [1..3 -> Bracket!Trade]
        /\ \A o \in 1..3 : m.what = "end" \/ o # m.order => tradesShown'[o] = tradesShown[o]
        /\ m.what # "end" =>
              /\ tradesShown'[m.order].status = CASE m.what = "error" -> "Cancelled"
                                                  [] m.what = "warning" -> "ValidationError"
                                                  [] m.what = "notice" -> "Warned"
                                                  [] m.what = "PartFilled" -> "Submitted"
                                                  [] OTHER -> m.what
              /\ tradesShown'[m.order].error = (tradesShown[m.order].error \/ m.what \in Bracket!Errors)
              /\ m.what \in Bracket!Errors => tradesShown'[m.order].last
              /\ tradesShown'[m.order].filled =
                    (tradesShown[m.order].filled \/ m.what \in {"Filled", "PartFilled"})
    <2>1. tradesShown' = IF m.what = "end" THEN tradesShown ELSE
                         [tradesShown EXCEPT ![m.order] =
                            [status |-> CASE m.what = "error" -> "Cancelled"
                                          [] m.what = "warning" -> "ValidationError"
                                          [] m.what = "notice" -> "Warned"
                                          [] m.what = "PartFilled" -> "Submitted"
                                          [] OTHER -> m.what,
                             error |-> @.error \/ m.what \in Bracket!Errors,
                             last |-> \/ m.what \in Bracket!Errors
                                      \/ @.last /\ m.what = "Cancelled" /\ @.status = "Cancelled",
                             filled |-> @.filled \/ m.what \in {"Filled", "PartFilled"}]]
      BY DEF Bracket!Deliver
    <2>2. m = Head(told)
      OBVIOUS
    <2> HIDE DEF m
    <2> QED BY <1>1, <1>2, <2>1, <2>2, BracketReads
  <1> HIDE DEF m
  <1>5. /\ m.what \in {"Submitted", "notice"} => book[m.order] # "none"
        /\ m.what = "Cancelled" => book[m.order] = "cancelled"
        /\ m.what = "Filled" => book[m.order] = "filled"
        /\ m.what = "PartFilled" => m.order = 1 /\ partial
        /\ m.what = "warning" => book[m.order] = "rejected"
        /\ m.what = "error" => book[m.order] = "rejected" \/ m.order \in complaint
    BY <1>2 DEF BracketHolds, Bracket!NewsIsTrue, Bracket!IsSo
  <1>6. m.what # "end" => tradesShown'[m.order].status =
            IF m.what = "error" THEN "Cancelled" ELSE IF m.what = "warning" THEN "ValidationError"
            ELSE IF m.what = "notice" THEN "Warned" ELSE IF m.what = "PartFilled" THEN "Submitted" ELSE m.what
    BY <1>3, <1>4
  <1>7. complaint # {} => stage = "done"
    BY DEF BracketHolds, Bracket!InTurn
  <1>8. rejectedLate' \in BOOLEAN
    BY <1>1 DEF BracketHolds, Bracket!TypeOK
  <1>9. Bracket!TypeOK'
    <2>1. sweeper' \in {"idle", "asking", "answered", "swept", "failed"}
      BY <1>1 DEF BracketHolds, Bracket!TypeOK
    <2> QED BY <1>1, <1>2, <1>4, <1>8, <2>1 DEF BracketHolds, Bracket!TypeOK
  <1>10. Bracket!InTurn'
    <2>1. placed = 3 => \A o \in 1..3 : tradesShown'[o].status # "none"
      BY <1>3, <1>4, <1>6 DEF BracketHolds, Bracket!InTurn
    <2>2. sweeper' = sweeper \/ (sweeper = "asking" /\ sweeper' = "answered")
      BY <1>1
    <2> QED BY <1>1, <2>1, <2>2 DEF BracketHolds, Bracket!InTurn
  <1>11. Bracket!PlacedFirst' /\ Bracket!FillsInTurn'
    BY <1>1 DEF BracketHolds, Bracket!PlacedFirst, Bracket!FillsInTurn
  <1>12. Bracket!NewsIsTrue'
    <2>1. \A i \in DOMAIN told' : Bracket!IsSo(told'[i])
      BY <1>2 DEF BracketHolds, Bracket!NewsIsTrue
    <2>2. ASSUME NEW i \in DOMAIN told', told'[i].what \in {"error", "warning"}, complaint = {},
                 NEW j \in DOMAIN told', j > i, told'[j].order = told'[i].order
          PROVE  told'[j].what = "end"
      <3>1. /\ i + 1 \in DOMAIN told /\ told[i + 1] = told'[i]
            /\ j + 1 \in DOMAIN told /\ told[j + 1] = told'[j] /\ j + 1 > i + 1
        BY <1>2, <2>2
      <3> QED BY <2>2, <3>1 DEF BracketHolds, Bracket!NewsIsTrue
    <2>3. \A i \in DOMAIN told' : told'[i].what \in {"error", "warning"} /\ complaint = {} =>
             \A j \in DOMAIN told' : j > i /\ told'[j].order = told'[i].order => told'[j].what = "end"
      BY <2>2
    <2> QED BY <1>1, <2>1, <2>3 DEF Bracket!NewsIsTrue, Bracket!IsSo
  <1>13. Bracket!ShownIsTrue'
    <2> SUFFICES ASSUME NEW o \in 1..3
                 PROVE  /\ tradesShown'[o].status = "Filled" => book[o] = "filled"
                        /\ tradesShown'[o].status \in {"ValidationError", "Inactive"} => book[o] = "rejected"
                        /\ tradesShown'[o].status = "Cancelled" =>
                              \/ book[o] \in {"cancelled", "rejected"}
                              \/ o \in complaint /\ tradesShown'[o].last /\ rejectedLate'
                        /\ \/ tradesShown'[o].status \in {"Submitted", "Warned"} \/ tradesShown'[o].error
                           \/ tradesShown'[o].filled
                           => book[o] # "none"
                        /\ tradesShown'[o].status = "Filled" => tradesShown'[o].filled
                        /\ tradesShown'[1].filled => partial
      BY <1>1 DEF Bracket!ShownIsTrue
    <2>1. tradesShown'[1].filled => partial
      <3>1. CASE m.what = "end" \/ m.order # 1
        <4>1. tradesShown'[1] = tradesShown[1]
          BY <1>4, <3>1
        <4> QED BY <4>1 DEF BracketHolds, Bracket!ShownIsTrue
      <3>2. CASE m.what # "end" /\ m.order = 1
        <4>1. tradesShown'[1].filled = (tradesShown[1].filled \/ m.what \in {"Filled", "PartFilled"})
          BY <1>4, <3>2
        <4>2. m.what \in {"Filled", "PartFilled"} => partial
          BY <1>5, <3>2 DEF BracketHolds, Bracket!FillsInTurn
        <4> QED BY <4>1, <4>2 DEF BracketHolds, Bracket!ShownIsTrue
      <3> QED BY <3>1, <3>2
    <2>2. CASE m.what = "end" \/ o # m.order
      <3>1. tradesShown'[o] = tradesShown[o]
        BY <1>4, <2>2
      <3>2. rejectedLate => rejectedLate'
        BY <1>1
      <3> QED BY <2>1, <3>1, <3>2 DEF BracketHolds, Bracket!ShownIsTrue
    <2>3. CASE m.what # "end" /\ o = m.order
      <3>1. /\ tradesShown'[o].status =
                  IF m.what = "error" THEN "Cancelled" ELSE IF m.what = "warning" THEN "ValidationError"
                  ELSE IF m.what = "notice" THEN "Warned" ELSE IF m.what = "PartFilled" THEN "Submitted" ELSE m.what
            /\ tradesShown'[o].error = (tradesShown[o].error \/ m.what \in Bracket!Errors)
            /\ m.what \in Bracket!Errors => tradesShown'[o].last
            /\ tradesShown'[o].filled = (tradesShown[o].filled \/ m.what \in {"Filled", "PartFilled"})
        BY <1>4, <1>6, <2>3
      <3>2. m.what = "error" => tradesShown'[o].last
        BY <3>1 DEF Bracket!Errors
      <3>3. m.what = "error" /\ complaint # {} => rejectedLate'
        BY <1>1, <1>7
      <3>4. m.what \in {"error", "warning"} => book[o] # "none"
        BY <1>5, <2>3 DEF BracketHolds, Bracket!FillsInTurn
      <3>5. m.what \in {"Submitted", "notice", "Filled", "PartFilled"} => book[o] # "none"
        <4>1. partial => book[1] # "none"
          BY DEF BracketHolds, Bracket!FillsInTurn
        <4> QED BY <1>5, <2>3, <4>1
      <3>6. tradesShown[o].error \/ tradesShown[o].filled => book[o] # "none"
        BY DEF BracketHolds, Bracket!ShownIsTrue
      <3>7. tradesShown'[o].status \in {"Submitted", "Warned"} \/ tradesShown'[o].error \/ tradesShown'[o].filled
            => book[o] # "none"
        <4>1. tradesShown'[o].status \in {"Submitted", "Warned"} => m.what \in {"Submitted", "notice", "PartFilled"}
          BY <1>3, <3>1
        <4>2. tradesShown'[o].error => tradesShown[o].error \/ m.what \in {"error", "warning", "notice"}
          BY <3>1 DEF Bracket!Errors
        <4>3. tradesShown'[o].filled => tradesShown[o].filled \/ m.what \in {"Filled", "PartFilled"}
          BY <3>1
        <4> QED BY <3>4, <3>5, <3>6, <4>1, <4>2, <4>3
      <3>8. /\ tradesShown'[o].status = "Filled" => m.what = "Filled" /\ tradesShown'[o].filled
            /\ tradesShown'[o].status \in {"ValidationError", "Inactive"} => m.what = "warning"
            /\ tradesShown'[o].status = "Cancelled" => m.what \in {"Cancelled", "error"}
        BY <1>3, <2>3, <3>1
      <3>9. m.what \in {"Cancelled", "error"} => \/ book[o] \in {"cancelled", "rejected"}
                                                 \/ o \in complaint /\ tradesShown'[o].last /\ rejectedLate'
        BY <1>5, <2>3, <3>2, <3>3
      <3>10. (m.what = "Filled" => book[o] = "filled") /\ (m.what = "warning" => book[o] = "rejected")
        BY <1>5, <2>3
      <3> QED BY <2>1, <3>7, <3>8, <3>9, <3>10
    <2> QED BY <2>2, <2>3
  <1>14. Bracket!EntryEnds' <=> Bracket!EntryEnds
    BY <1>1 DEF Bracket!EntryEnds
  <1>15. ~rejectedLate' => ~rejectedLate /\ (m.what \in {"error", "warning"} => stage = "waiting")
    BY <1>1
  <1>16. Bracket!RejectionsAreHeard'
    <2> SUFFICES ASSUME up, ~rejectedLate', NEW o \in Bracket!Exits, book[o] = "rejected"
                 PROVE  \/ \E i \in DOMAIN told' : told'[i].order = o /\ told'[i].what \in {"error", "warning"}
                        \/ /\ stage = "waiting" /\ tradesShown'[o].error
                           /\ tradesShown'[o].status \in {"Cancelled", "ValidationError", "Inactive"}
                           /\ \A i \in DOMAIN told' : told'[i].order = o => told'[i].what = "end"
                        \/ stage \in {"unwinding", "done"} /\ (Bracket!EntryEnds \/ verdict = "left_filled")
      BY <1>1, <1>14 DEF Bracket!RejectionsAreHeard
    <2>1. o \in 1..3 /\ ~rejectedLate
      BY <1>15 DEF Bracket!Exits
    <2>2. \/ \E i \in DOMAIN told : told[i].order = o /\ told[i].what \in {"error", "warning"}
          \/ /\ stage = "waiting" /\ tradesShown[o].error
             /\ tradesShown[o].status \in {"Cancelled", "ValidationError", "Inactive"}
             /\ \A i \in DOMAIN told : told[i].order = o => told[i].what = "end"
          \/ stage \in {"unwinding", "done"} /\ (Bracket!EntryEnds \/ verdict = "left_filled")
      BY <2>1 DEF BracketHolds, Bracket!RejectionsAreHeard
    <2>3. ASSUME NEW i \in DOMAIN told, told[i].order = o, told[i].what \in {"error", "warning"}, i # 1
          PROVE  \E k \in DOMAIN told' : told'[k].order = o /\ told'[k].what \in {"error", "warning"}
      <3>1. i > 1
        BY <1>2, <2>3
      <3> QED BY <1>2, <2>3, <3>1
    <2>4. ASSUME m.order = o, m.what \in {"error", "warning"}
          PROVE  /\ stage = "waiting" /\ tradesShown'[o].error
                 /\ tradesShown'[o].status \in {"Cancelled", "ValidationError", "Inactive"}
                 /\ \A i \in DOMAIN told' : told'[i].order = o => told'[i].what = "end"
      <3>1. stage = "waiting"
        BY <1>15, <2>4
      <3>2. complaint = {}
        BY <1>7, <3>1
      <3>3. tradesShown'[o].error
        BY <1>4, <2>4 DEF Bracket!Errors
      <3>4. tradesShown'[o].status \in {"Cancelled", "ValidationError", "Inactive"}
        BY <1>6, <2>4
      <3>5. ASSUME NEW i \in DOMAIN told', told'[i].order = o
            PROVE  told'[i].what = "end"
        <4>1. i + 1 \in DOMAIN told /\ told[i + 1] = told'[i] /\ i + 1 > 1
          BY <1>2
        <4>2. told[1].order = o /\ told[1].what \in {"error", "warning"} /\ 1 \in DOMAIN told
          BY <1>2, <2>4
        <4> QED BY <3>2, <3>5, <4>1, <4>2 DEF BracketHolds, Bracket!NewsIsTrue
      <3> QED BY <3>1, <3>3, <3>4, <3>5
    <2>5. ASSUME stage = "waiting", tradesShown[o].error,
                 tradesShown[o].status \in {"Cancelled", "ValidationError", "Inactive"},
                 \A i \in DOMAIN told : told[i].order = o => told[i].what = "end"
          PROVE  /\ stage = "waiting" /\ tradesShown'[o].error
                 /\ tradesShown'[o].status \in {"Cancelled", "ValidationError", "Inactive"}
                 /\ \A i \in DOMAIN told' : told'[i].order = o => told'[i].what = "end"
      <3>1. m.what = "end" \/ o # m.order
        BY <1>2, <2>5
      <3>2. tradesShown'[o] = tradesShown[o]
        BY <1>4, <2>1, <3>1
      <3>3. \A i \in DOMAIN told' : told'[i].order = o => told'[i].what = "end"
        BY <1>2, <2>5
      <3> QED BY <2>5, <3>2, <3>3
    <2>6. CASE \E i \in DOMAIN told : told[i].order = o /\ told[i].what \in {"error", "warning"}
      <3>1. PICK i \in DOMAIN told : told[i].order = o /\ told[i].what \in {"error", "warning"}
        BY <2>6
      <3>2. CASE i = 1
        <4>1. m.order = o /\ m.what \in {"error", "warning"}
          BY <1>2, <3>1, <3>2
        <4> QED BY <2>4, <4>1
      <3>3. CASE i # 1
        BY <2>3, <3>1, <3>3
      <3> QED BY <3>2, <3>3
    <2> QED BY <2>2, <2>5, <2>6
  <1>17. Bracket!CancelsTakeTheEntry'
    BY <1>1, <1>14, <1>15 DEF BracketHolds, Bracket!CancelsTakeTheEntry
  <1>18. Bracket!Unwinds' <=> Bracket!Unwinds
    BY <1>1 DEF Bracket!Unwinds
  <1>19. Bracket!FillsAreSpared' /\ Bracket!StaysOver'
    BY <1>1, <1>18 DEF BracketHolds, Bracket!FillsAreSpared, Bracket!StaysOver
  <1>20. Bracket!AnswerShowsAll'
    BY <1>1, <1>2, <1>3, <1>4, <1>5, <1>6, BracketAnswerComes
  <1> QED BY <1>9, <1>10, <1>11, <1>12, <1>13, <1>16, <1>17, <1>19, <1>20 DEF BracketHolds

\* Every step of a submit, of a cancel-all and of IBKR keeps it.
LEMMA BracketKeeps ==
    ASSUME BracketHolds, [Bracket!Next]_(Bracket!bvars)
    PROVE  BracketHolds'
  <1>1. CASE Bracket!Place
    BY <1>1, BracketPlace
  <1>2. CASE Bracket!Judge
    BY <1>2, BracketJudge
  <1>3. CASE Bracket!Unwound
    BY <1>3, BracketUnwound
  <1>4. CASE Bracket!Sweep
    BY <1>4, BracketSweep
  <1>5. CASE Bracket!Synced
    BY <1>5, BracketSynced
  <1>6. CASE Bracket!SyncFails
    BY <1>6, BracketSyncFails
  <1>7. CASE Bracket!IbkrTakes
    BY <1>7, BracketIbkrTakes
  <1>8. CASE Bracket!PartFills
    BY <1>8, BracketPartFills
  <1>9. CASE Bracket!Deliver
    BY <1>9, BracketDeliver
  <1>10. CASE Bracket!Drop
    BY <1>10, BracketDrop
  <1>11. ASSUME NEW o \in 1..3,
                Bracket!Works(o) \/ Bracket!Refuses(o) \/ Bracket!Fills(o) \/ Bracket!Complains(o)
         PROVE  BracketHolds'
    BY <1>11, BracketWorks, BracketRefuses, BracketFills, BracketComplains
  <1>12. CASE UNCHANGED Bracket!bvars
    BY <1>12, BracketStutters
  <1> QED BY <1>1, <1>2, <1>3, <1>4, <1>5, <1>6, <1>7, <1>8, <1>9, <1>10, <1>11, <1>12
             DEF Bracket!Next, Bracket!Orders

-----------------------------------------------------------------------------
(* Whichever part a behaviour is of, its steps are that part's *)

LEMMA QuoteSteps ==
    ASSUME part = "Quote", [SessionsNext]_sessionvars
    PROVE  part' = part /\ [Quote!Next]_(Quote!qvars)
  BY DEF SessionsNext, sessionvars, named, ofSessions, ofBoth, ofQuote, Quote!qvars

LEMMA NewsSteps ==
    ASSUME part = "News", [SessionsNext]_sessionvars
    PROVE  part' = part /\ [News!Next]_(News!vars)
  BY DEF SessionsNext, sessionvars, named, ofSessions, ofBoth, ofNews, News!vars

LEMMA ScannersSteps ==
    ASSUME part = "Scanners", [SessionsNext]_sessionvars
    PROVE  part' = part /\ [Scanners!Next]_(Scanners!vars)
  BY DEF SessionsNext, sessionvars, named, ofSessions, ofBoth, ofScanners, Scanners!vars

LEMMA UpdatesSteps ==
    ASSUME part = "Updates", [SessionsNext]_sessionvars
    PROVE  part' = part /\ [Updates!Next]_(Updates!uvars)
  BY DEF SessionsNext, sessionvars, named, ofSessions, ofBoth, ofUpdates, Updates!uvars

LEMMA CacheSteps ==
    ASSUME part = "Cache", [SessionsNext]_sessionvars
    PROVE  part' = part /\ [Cache!Next]_(Cache!cvars)
  BY DEF SessionsNext, sessionvars, named, ofSessions, ofBoth, ofCache, Cache!cvars

LEMMA BracketSteps ==
    ASSUME part = "Bracket", [SessionsNext]_sessionvars
    PROVE  part' = part /\ [Bracket!Next]_(Bracket!bvars)
  BY DEF SessionsNext, sessionvars, named, ofSessions, ofBoth, ofBracket, Bracket!bvars,
     Bracket!submit, Bracket!market, Bracket!wire, Bracket!cancelAll

LEMMA LookupsSteps ==
    ASSUME part = "Lookups", [SessionsNext]_sessionvars
    PROVE  part' = part /\ [Lookups!Next]_(Lookups!vars)
  BY DEF SessionsNext, sessionvars, named, ofSessions, ofBoth, ofLookups, Lookups!vars

\* What a session began is its own - streams of quotes, headlines and scans, portfolios and
\* kept answers - for any callers, streams, ids and sessions.
THEOREM SessionsStayApart == SessionsSpec => []SessionsAreApart
  <1>1. SessionsInit => SessionsAreApart
    BY QuoteStarts, NewsStarts, ScannersStarts, UpdatesStarts, CacheStarts
       DEF SessionsInit, SessionsAreApart
  <1>2. SessionsAreApart /\ [SessionsNext]_sessionvars => SessionsAreApart'
    <2> SUFFICES ASSUME SessionsAreApart, [SessionsNext]_sessionvars PROVE SessionsAreApart'
      OBVIOUS
    <2>1. part' = part
      BY DEF SessionsNext, sessionvars
    <2>2. part = "Quote" => Quote!IInv'
      BY QuoteSteps, QuoteKeeps DEF SessionsAreApart
    <2>3. part = "News" => News!IInv'
      BY NewsSteps, NewsKeeps DEF SessionsAreApart
    <2>4. part = "Scanners" => Scanners!IInv'
      BY ScannersSteps, ScannersKeeps DEF SessionsAreApart
    <2>5. part = "Updates" => Updates!IInv'
      BY UpdatesSteps, UpdatesKeeps DEF SessionsAreApart
    <2>6. part = "Cache" => Cache!IInv'
      BY CacheSteps, CacheKeeps DEF SessionsAreApart
    <2> QED BY <2>1, <2>2, <2>3, <2>4, <2>5, <2>6 DEF SessionsAreApart
  <1> QED BY <1>1, <1>2, PTL DEF SessionsSpec

\* An order that is looked for while IBKR fills or cancels it is found, in the cache or a
\* list, and what a status, a cancel or a global cancel tells of it is so - for any calls,
\* orders, errors and new sessions (order_status, cancel, _others_after_global_cancel).
THEOREM OrdersStayFound == SessionsSpec => []OrdersAreFound
  <1>1. SessionsInit => OrdersAreFound
    BY LookupsStart DEF SessionsInit, OrdersAreFound
  <1>2. OrdersAreFound /\ [SessionsNext]_sessionvars => OrdersAreFound'
    <2>1. part' = part \/ ~[SessionsNext]_sessionvars
      BY DEF SessionsNext, sessionvars
    <2>2. OrdersAreFound /\ part = "Lookups" /\ [SessionsNext]_sessionvars => Lookups!IInv'
      BY LookupsSteps, LookupsKeep DEF OrdersAreFound
    <2> QED BY <2>1, <2>2 DEF OrdersAreFound
  <1> QED BY <1>1, <1>2, PTL DEF SessionsSpec

\* A bracket IBKR took in part is unwound while the session lasts: no entry works without
\* both exits, unless the answer says that it had begun to fill, or IBKR rejected one of the
\* orders after the wait.  A filled entry has no exit cancelled, unless the other one fills,
\* a cancel-all takes it, or the entry fills unheard of before IBKR takes the cancel that
\* the submit had sent.  A cancel-all skips only orders that are over, unless it asked IBKR
\* for the open ones in vain - for any order of IBKR's answers, fills, refusals and losses
\* of the connection (_submit_orders, _unwind_bracket, _cancel_listed).
THEOREM BracketsStayWhole == SessionsSpec => []BracketsAreWhole
  <1> DEFINE Held == part = "Bracket" => BracketHolds
  <1>1. SessionsInit => Held
    BY BracketStarts DEF SessionsInit
  <1>2. Held /\ [SessionsNext]_sessionvars => Held'
    <2>1. part' = part \/ ~[SessionsNext]_sessionvars
      BY DEF SessionsNext, sessionvars
    <2>2. BracketHolds /\ part = "Bracket" /\ [SessionsNext]_sessionvars => BracketHolds'
      BY BracketSteps, BracketKeeps
    <2> QED BY <2>1, <2>2
  <1>3. Held => BracketsAreWhole
    BY BracketShows DEF BracketHolds, Bracket!IInv, BracketsAreWhole
  <1> QED BY <1>1, <1>2, <1>3, PTL DEF SessionsSpec
=============================================================================
