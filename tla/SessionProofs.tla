---------------------------- MODULE SessionProofs ----------------------------
(***************************************************************************)
(* A reconnection hands over, for any number of openings, retries and      *)
(* attempts: there is never more than one reader, and an open channel      *)
(* always has one.                                                         *)
(*                                                                         *)
(* Neither is inductive.  The last reader must not end while the channel   *)
(* is open: it ends in OnError only after it has closed the channel, and   *)
(* nobody but a reader opens it again.  So the invariant adds that the     *)
(* channel is closed while a reader is dialling, and that the places of    *)
(* openings to come are free.                                              *)
(***************************************************************************)
EXTENDS SessionChannel, SessionTask, PortForward, SessionClient, TLAPS

Panicked(i) == readers[i].at = "panic"

Shape ==
    /\ connection \in 0 .. MaxOpens
    /\ isOpen \in BOOLEAN
    /\ readers \in [Opens -> [at : {"none", "top", "read", "close", "open", "end", "panic"},
                              conn : Int, errors : Int]]
Handover ==
    /\ \A i \in Opens : i > connection => readers[i].at = "none"
    /\ \A i, j \in Opens : Lives(i) /\ Lives(j) => i = j
    /\ \A i \in Opens : readers[i].at = "open" => ~isOpen
    /\ isOpen => \E i \in Opens : Lives(i) \/ Panicked(i)
IInv == Shape /\ Handover

LEMMA InitHandover == Init => IInv
  BY SessionChannelAssumption DEF Init, IInv, Shape, Handover, Lives, Panicked, Opens, Reader0

\* What a step does not change of the channel and the readers, it keeps; and
\* closing the channel disturbs nothing.
LEMMA CloseHandover ==
    ASSUME IInv, Close, UNCHANGED readers PROVE IInv'
  BY DEF IInv, Shape, Handover, Lives, Panicked, Close, channel

\* A step of one reader that leaves it alive, and does not dial.
LEMMA ReaderMoves ==
    ASSUME IInv, NEW i \in Opens, Lives(i), UNCHANGED <<connection, isOpen>>,
           NEW r \in [at : {"top", "read", "close"}, conn : Int, errors : Int],
           readers' = [readers EXCEPT ![i] = r]
    PROVE  IInv'
  BY DEF IInv, Shape, Handover, Lives, Panicked, Opens

\* A reader that ends on a closed channel.
LEMMA ReaderEnds ==
    ASSUME IInv, NEW i \in Opens, Lives(i), ~isOpen, UNCHANGED <<connection, isOpen>>,
           NEW r \in [at : {"end"}, conn : Int, errors : Int],
           readers' = [readers EXCEPT ![i] = r]
    PROVE  IInv'
  BY DEF IInv, Shape, Handover, Lives, Panicked, Opens

\* A reader that panics.
LEMMA ReaderDies ==
    ASSUME IInv, NEW i \in Opens, Lives(i), UNCHANGED <<connection, isOpen>>,
           NEW r \in [at : {"panic"}, conn : Int, errors : Int],
           readers' = [readers EXCEPT ![i] = r]
    PROVE  IInv'
  BY DEF IInv, Shape, Handover, Lives, Panicked, Opens

LEMMA StepHandover == IInv /\ [Next]_vars => IInv'
<1> SUFFICES ASSUME IInv, [Next]_vars PROVE IInv'
  OBVIOUS
<1> USE SessionChannelAssumption
<1>t. Shape
  BY DEF IInv
<1>1. CASE Break \/ Second
  BY <1>1 DEF Break, Second, channel, IInv, Shape, Handover, Lives, Panicked
<1>2. CASE TaskEnds
  BY <1>2, CloseHandover DEF TaskEnds
<1>3. ASSUME NEW i \in Opens, Pinger(i) PROVE IInv'
  <2>1. CASE PingerAsks(i)
    BY <2>1 DEF PingerAsks, channel, IInv, Shape, Handover, Lives, Panicked
  <2>2. CASE PingerCloses(i)
    BY <2>2, CloseHandover DEF PingerCloses
  <2> QED
    BY <1>3, <2>1, <2>2 DEF Pinger
<1>4. ASSUME NEW i \in Opens, Reader(i) PROVE IInv'
  <2>1. CASE ReaderAsks(i) /\ isOpen
    <3>1. readers' = [readers EXCEPT ![i] =
              [at |-> "read", conn |-> connection, errors |-> readers[i].errors]]
      BY <2>1 DEF ReaderAsks
    <3>2. readers[i] \in [at : {"none", "top", "read", "close", "open", "end", "panic"},
                          conn : Int, errors : Int] /\ connection \in Int
      BY <1>t DEF Shape
    <3>4. [at |-> "read", conn |-> connection, errors |-> readers[i].errors]
            \in [at : {"top", "read", "close"}, conn : Int, errors : Int]
      BY <3>2
    <3> QED
      BY <2>1, <3>1, <3>4, ReaderMoves DEF ReaderAsks, channel, Lives
  <2>2. CASE ReaderAsks(i) /\ ~isOpen
    <3>1. readers' = [readers EXCEPT ![i] = [Reader0 EXCEPT !.at = "end"]]
      BY <2>2 DEF ReaderAsks
    <3>2. [Reader0 EXCEPT !.at = "end"] \in [at : {"end"}, conn : Int, errors : Int]
      BY DEF Reader0
    <3> QED
      BY <2>2, <3>1, <3>2, ReaderEnds DEF ReaderAsks, channel, Lives
  <2>3. CASE ReaderGets(i)
    <3>1. readers' = [readers EXCEPT ![i] = [Reader0 EXCEPT !.at = "top"]]
      BY <2>3 DEF ReaderGets
    <3>2. [Reader0 EXCEPT !.at = "top"]
            \in [at : {"top", "read", "close"}, conn : Int, errors : Int]
      BY DEF Reader0
    <3> QED
      BY <2>3, <3>1, <3>2, ReaderMoves DEF ReaderGets, channel, Lives
  <2>9. CASE ReaderPanics(i)
    <3>1. readers' = [readers EXCEPT ![i] = [Reader0 EXCEPT !.at = "panic"]]
      BY <2>9 DEF ReaderPanics
    <3>2. [Reader0 EXCEPT !.at = "panic"] \in [at : {"panic"}, conn : Int, errors : Int]
      BY DEF Reader0
    <3> QED
      BY <2>9, <3>1, <3>2, ReaderDies DEF ReaderPanics, channel, Lives
  <2>4. CASE ReaderFails(i)
    <3> DEFINE errors == readers[i].errors + 1
               r == IF errors < RetryCount
                    THEN [at |-> "top", conn |-> 0, errors |-> errors]
                    ELSE [Reader0 EXCEPT !.at = "close"]
    <3>1. readers' = [readers EXCEPT ![i] = r]
      BY <2>4 DEF ReaderFails
    <3>4. readers[i].errors \in Int
      BY <1>t DEF Shape
    <3>5. errors \in Int
      BY <3>4
    <3>6. [Reader0 EXCEPT !.at = "close"] = [at |-> "close", conn |-> 0, errors |-> 0]
      BY DEF Reader0
    <3>2. r \in [at : {"top", "read", "close"}, conn : Int, errors : Int]
      BY <3>5, <3>6
    <3>3. Lives(i) /\ UNCHANGED <<connection, isOpen>>
      BY <2>4 DEF ReaderFails, channel, Lives
    <3> HIDE DEF r
    <3> QED
      BY <3>1, <3>2, <3>3, ReaderMoves
  <2>5. CASE ReconnectCloses(i)
    BY <2>5 DEF ReconnectCloses, Close, channel, IInv, Shape, Handover, Lives, Panicked, Opens
  <2>6. CASE ReconnectOpens(i)
    <3>0. connection + 1 \in Opens
      BY <2>6, <1>t DEF ReconnectOpens, Shape, Opens
    <3> PICK n \in Opens : n = connection + 1
      BY <3>0
    <3>1. n # i /\ readers[n].at = "none" /\ readers[i].at = "open"
      BY <2>6 DEF ReconnectOpens, IInv, Shape, Handover, Opens
    <3>2. /\ connection' = n /\ isOpen' = TRUE
          /\ readers' = [readers EXCEPT ![i] = [Reader0 EXCEPT !.at = "end"], ![n].at = "top"]
      BY <2>6 DEF ReconnectOpens
    <3>3. \A j \in Opens : readers'[j].at = IF j = i THEN "end"
                                            ELSE IF j = n THEN "top" ELSE readers[j].at
      BY <3>1, <3>2, <1>t DEF Shape, Reader0
    <3>4. Shape'
      <4>1. [Reader0 EXCEPT !.at = "end"] = [at |-> "end", conn |-> 0, errors |-> 0]
        BY DEF Reader0
      <4>2. readers[n] \in [at : {"none", "top", "read", "close", "open", "end", "panic"},
                            conn : Int, errors : Int]
        BY <1>t DEF Shape
      <4>3. [readers[n] EXCEPT !.at = "top"]
              = [at |-> "top", conn |-> readers[n].conn, errors |-> readers[n].errors]
        BY <4>2
      <4>4. connection' \in 0 .. MaxOpens /\ isOpen' \in BOOLEAN
        BY <3>2 DEF Opens
      <4>5. readers' \in [Opens -> [at : {"none", "top", "read", "close", "open", "end", "panic"},
                                    conn : Int, errors : Int]]
        BY <1>t, <3>1, <3>2, <4>1, <4>2, <4>3 DEF Shape
      <4> QED
        BY <4>4, <4>5 DEF Shape
    <3>5. \A j \in Opens : Lives(j)' => j = n
      BY <3>1, <3>3 DEF IInv, Handover, Lives, Panicked
    <3>6. Lives(n)'
      BY <3>1, <3>3 DEF Lives
    <3>7. \A j \in Opens : j > n => readers'[j].at = "none"
      BY <3>1, <3>3, <1>t DEF IInv, Handover, Shape, Opens
    <3>8. \A j \in Opens : readers'[j].at # "open"
      BY <3>1, <3>3, <3>5 DEF IInv, Handover, Lives, Panicked
    <3> QED
      BY <3>1, <3>2, <3>4, <3>5, <3>6, <3>7, <3>8 DEF IInv, Handover
  <2>7. CASE ReconnectFails(i) /\ readers[i].errors < MaxAttempts
    <3>1. readers' = [readers EXCEPT ![i].at = "close", ![i].errors = @ + 1]
      BY <2>7 DEF ReconnectFails
    <3>2. PICK a \in {"open"}, c \in Int, e \in Int :
              readers[i] = [at |-> a, conn |-> c, errors |-> e]
      BY <2>7, <1>t DEF ReconnectFails, Shape
    <3>3. readers' = [readers EXCEPT ![i] = [at |-> "close", conn |-> c, errors |-> e + 1]]
      BY <3>1, <3>2, <1>t DEF Shape
    <3>4. [at |-> "close", conn |-> c, errors |-> e + 1]
            \in [at : {"top", "read", "close"}, conn : Int, errors : Int]
      OBVIOUS
    <3>5. Lives(i) /\ UNCHANGED <<connection, isOpen>>
      BY <2>7 DEF ReconnectFails, channel, Lives
    <3> QED
      BY <3>3, <3>4, <3>5, ReaderMoves
  <2>8. CASE ReconnectFails(i) /\ ~(readers[i].errors < MaxAttempts)
    <3>1. readers' = [readers EXCEPT ![i] = [Reader0 EXCEPT !.at = "end"]]
      BY <2>8 DEF ReconnectFails
    <3>2. [Reader0 EXCEPT !.at = "end"] \in [at : {"end"}, conn : Int, errors : Int]
      BY DEF Reader0
    <3>3. ~isOpen /\ Lives(i) /\ UNCHANGED <<connection, isOpen>>
      BY <2>8 DEF ReconnectFails, channel, IInv, Handover, Lives, Panicked
    <3> QED
      BY <3>1, <3>2, <3>3, ReaderEnds
  <2> QED
    BY <1>4, <2>1, <2>2, <2>3, <2>4, <2>5, <2>6, <2>7, <2>8, <2>9 DEF Reader
<1>5. CASE UNCHANGED vars
  BY <1>5 DEF vars, channel, IInv, Shape, Handover, Lives, Panicked
<1> QED
  BY <1>1, <1>2, <1>3, <1>4, <1>5 DEF Next

\* Whoever breaks, closes or reopens the channel, in any order: no two readers
\* ask for its connection (NewSessionChannel, Open, Reconnect).
THEOREM ReadersHandOver == Spec => []OneReader
<1>1. IInv => OneReader
  BY DEF IInv, Handover, OneReader
<1> QED
  BY <1>1, InitHandover, StepHandover, PTL DEF Spec

\* IsActive can be believed: while the channel is open somebody reads from it.
THEOREM OpenHasReader == Spec => []OpenIsHeard
<1>1. IInv => OpenIsHeard
  BY DEF IInv, Handover, OpenIsHeard, Panicked
<1> QED
  BY <1>1, InitHandover, StepHandover, PTL DEF Spec

(***************************************************************************)
(* The types.  The errors a reader counts are bounded by where it is; an   *)
(* opening finds the place of its reader as it was at first (Unopened).    *)
(***************************************************************************)

\* An opening to come has left nothing behind.
Unopened == \A i \in Opens : i > connection => readers[i] = Reader0

ReaderOK(r) ==
    /\ r \in [at : {"none", "top", "read", "close", "open", "end", "panic"},
              conn : 0 .. MaxOpens, errors : 0 .. RetryCount + MaxAttempts]
    /\ r.at \in {"top", "read"} => r.errors < RetryCount
    /\ r.at \in {"close", "open"} => r.errors <= MaxAttempts

\* The readers and the rest of TypeOK.
ReadersOK == readers = [i \in Opens |-> readers[i]] /\ \A i \in Opens : ReaderOK(readers[i])
PingerSet == [at : {"none", "ping", "failed", "sleep", "end"}, conn : 0 .. MaxOpens]
RestOK ==
    /\ connection \in 0 .. MaxOpens /\ alive \subseteq 1 .. connection
    /\ isOpen \in BOOLEAN /\ canceled \in BOOLEAN
    /\ pingers \in [Opens -> PingerSet]
    /\ quiet \in 0 .. QuietLimit + 1
    /\ task \in {"run", "over"}
    /\ breaks \in 0 .. MaxBreaks
TypeInv == ReadersOK /\ RestOK /\ Unopened

\* What the proofs use of the constants.
LEMMA Numbers ==
    /\ MaxOpens \in Nat /\ MaxOpens >= 1 /\ RetryCount \in Nat /\ RetryCount >= 1
    /\ QuietLimit \in Nat /\ MaxAttempts \in Nat /\ MaxBreaks \in Nat
  BY SessionChannelAssumption

\* The parts make up TypeOK.
LEMMA TypeParts == TypeOK <=> ReadersOK /\ RestOK
<1>1. TypeOK => ReadersOK /\ RestOK
  BY DEF TypeOK, ReadersOK, RestOK, ReaderOK, PingerSet
<1>2. ReadersOK /\ RestOK => TypeOK
  BY DEF TypeOK, ReadersOK, RestOK, ReaderOK, PingerSet
<1> QED
  BY <1>1, <1>2

\* A step of one reader.
LEMMA ReaderSteps ==
    ASSUME TypeInv, NEW i \in Opens, readers[i].at # "none", UNCHANGED connection,
           NEW r, ReaderOK(r), readers' = [readers EXCEPT ![i] = r]
    PROVE  ReadersOK' /\ Unopened'
<1>1. /\ readers' = [j \in Opens |-> readers'[j]] /\ readers'[i] = r
      /\ \A j \in Opens : j # i => readers'[j] = readers[j]
  BY DEF TypeInv, ReadersOK
<1>2. ReadersOK'
  BY <1>1 DEF TypeInv, ReadersOK, ReaderOK
<1>3. \A j \in Opens : j > connection => j # i
  BY DEF TypeInv, Unopened, Reader0
<1>4. Unopened'
  BY <1>1, <1>3 DEF TypeInv, Unopened, Reader0
<1> QED
  BY <1>2, <1>4

\* The places of a reader without errors.
LEMMA FreshReader ==
    ASSUME NEW a \in {"top", "close", "end", "panic"}
    PROVE  /\ [Reader0 EXCEPT !.at = a] = [at |-> a, conn |-> 0, errors |-> 0]
           /\ ReaderOK([Reader0 EXCEPT !.at = a])
<1>1. [Reader0 EXCEPT !.at = a] = [at |-> a, conn |-> 0, errors |-> 0]
  BY DEF Reader0
<1>2. ReaderOK([at |-> a, conn |-> 0, errors |-> 0])
  BY Numbers DEF ReaderOK
<1> QED
  BY <1>1, <1>2

\* Closing the channel keeps its part of the types.
LEMMA CloseKeepsRest ==
    ASSUME RestOK, Close
    PROVE  connection' = connection /\ alive' \subseteq 1 .. connection /\ isOpen' \in BOOLEAN
  BY DEF RestOK, Close, channel

LEMMA TypeStep == TypeInv /\ [Next]_vars => TypeInv'
<1> SUFFICES ASSUME TypeInv, [Next]_vars PROVE TypeInv'
  OBVIOUS
<1> USE Numbers
<1>1. CASE Break
  BY <1>1 DEF Break, TypeInv, ReadersOK, RestOK, Unopened, ReaderOK
<1>2. CASE Second
  <2>1. quiet' \in 0 .. QuietLimit + 1
    BY <1>2 DEF Second, TypeInv, RestOK
  <2>2. canceled' \in BOOLEAN
    BY <1>2 DEF Second, TypeInv, RestOK
  <2> QED
    BY <1>2, <2>1, <2>2 DEF Second, channel, TypeInv, ReadersOK, RestOK, Unopened, ReaderOK
<1>3. CASE TaskEnds
  BY <1>3, CloseKeepsRest DEF TaskEnds, TypeInv, ReadersOK, RestOK, Unopened, ReaderOK
<1>4. ASSUME NEW i \in Opens, Pinger(i) PROVE TypeInv'
  <2>1. ReadersOK' /\ Unopened'
    BY <1>4, CloseKeepsRest DEF Pinger, PingerAsks, PingerCloses, channel, TypeInv, ReadersOK,
       Unopened, ReaderOK
  <2>2. pingers' \in [Opens -> PingerSet]
    <3>1. /\ [Pinger0 EXCEPT !.at = "end"] \in PingerSet
          /\ [Pinger0 EXCEPT !.at = "sleep"] \in PingerSet
      BY DEF Pinger0, PingerSet
    <3>2. [at |-> "failed", conn |-> connection] \in PingerSet
      BY DEF TypeInv, RestOK, PingerSet
    <3>3. pingers \in [Opens -> PingerSet]
      BY DEF TypeInv, RestOK
    <3> QED
      BY <1>4, <3>1, <3>2, <3>3 DEF Pinger, PingerAsks, PingerCloses
  <2> QED
    BY <1>4, <2>1, <2>2, CloseKeepsRest DEF Pinger, PingerAsks, PingerCloses, channel, TypeInv,
       RestOK
<1>5. ASSUME NEW i \in Opens, Reader(i) PROVE TypeInv'
  <2>0. ReaderOK(readers[i])
    BY DEF TypeInv, ReadersOK
  <2>1. CASE ReaderAsks(i)
    <3> DEFINE r == IF isOpen
                    THEN [at |-> "read", conn |-> connection, errors |-> readers[i].errors]
                    ELSE [Reader0 EXCEPT !.at = "end"]
    <3>1. /\ readers' = [readers EXCEPT ![i] = r] /\ readers[i].at = "top"
          /\ UNCHANGED <<channel, pingers, quiet, canceled, task, breaks>>
      BY <2>1 DEF ReaderAsks
    <3>2. ReaderOK([at |-> "read", conn |-> connection, errors |-> readers[i].errors])
      BY <2>0, <3>1 DEF ReaderOK, TypeInv, RestOK
    <3>3. ReaderOK(r)
      BY <3>2, FreshReader
    <3> HIDE DEF r
    <3> QED
      BY <3>1, <3>3, ReaderSteps DEF channel, TypeInv, RestOK
  <2>2. CASE ReaderGets(i)
    <3>1. /\ readers' = [readers EXCEPT ![i] = [Reader0 EXCEPT !.at = "top"]]
          /\ readers[i].at = "read" /\ quiet' = 0
          /\ UNCHANGED <<channel, pingers, canceled, task, breaks>>
      BY <2>2 DEF ReaderGets
    <3>2. quiet' \in 0 .. QuietLimit + 1
      BY <3>1
    <3> QED
      BY <3>1, <3>2, FreshReader, ReaderSteps DEF channel, TypeInv, RestOK
  <2>3. CASE ReaderPanics(i)
    <3>1. /\ readers' = [readers EXCEPT ![i] = [Reader0 EXCEPT !.at = "panic"]]
          /\ readers[i].at = "read" /\ quiet' = 0
          /\ UNCHANGED <<channel, pingers, canceled, task, breaks>>
      BY <2>3 DEF ReaderPanics
    <3>2. quiet' \in 0 .. QuietLimit + 1
      BY <3>1
    <3> QED
      BY <3>1, <3>2, FreshReader, ReaderSteps DEF channel, TypeInv, RestOK
  <2>4. CASE ReaderFails(i)
    <3> DEFINE errors == readers[i].errors + 1
               r == IF errors < RetryCount
                    THEN [at |-> "top", conn |-> 0, errors |-> errors]
                    ELSE [Reader0 EXCEPT !.at = "close"]
    <3>1. /\ readers' = [readers EXCEPT ![i] = r] /\ readers[i].at = "read"
          /\ UNCHANGED <<channel, pingers, quiet, canceled, task, breaks>>
      BY <2>4 DEF ReaderFails
    <3>2. errors < RetryCount => ReaderOK([at |-> "top", conn |-> 0, errors |-> errors])
      BY <2>0 DEF ReaderOK
    <3>3. ReaderOK(r)
      BY <3>2, FreshReader
    <3> HIDE DEF r
    <3> QED
      BY <3>1, <3>3, ReaderSteps DEF channel, TypeInv, RestOK
  <2>5. PICK a \in {"none", "top", "read", "close", "open", "end", "panic"},
             c \in 0 .. MaxOpens, e \in 0 .. RetryCount + MaxAttempts :
             readers[i] = [at |-> a, conn |-> c, errors |-> e]
    BY <2>0 DEF ReaderOK
  <2>6. CASE ReconnectCloses(i)
    <3>1. /\ readers' = [readers EXCEPT ![i].at = "open"] /\ readers[i].at = "close" /\ Close
          /\ UNCHANGED <<pingers, quiet, canceled, task, breaks>>
      BY <2>6 DEF ReconnectCloses
    <3>2. readers' = [readers EXCEPT ![i] = [at |-> "open", conn |-> c, errors |-> e]]
      <4>1. [readers[i] EXCEPT !.at = "open"] = [at |-> "open", conn |-> c, errors |-> e]
        BY <2>5
      <4> QED
        BY <3>1, <4>1
    <3>3. ReaderOK([at |-> "open", conn |-> c, errors |-> e])
      BY <2>0, <2>5, <3>1 DEF ReaderOK
    <3> QED
      BY <3>1, <3>2, <3>3, ReaderSteps, CloseKeepsRest DEF TypeInv, RestOK
  <2>7. CASE ReconnectOpens(i)
    <3>0. connection + 1 \in Opens
      BY <2>7 DEF ReconnectOpens, TypeInv, RestOK, Opens
    <3> PICK n \in Opens : n = connection + 1
      BY <3>0
    <3>1. /\ readers[n] = Reader0 /\ n # i /\ readers[i].at = "open"
      <4>1. readers[i].at = "open"
        BY <2>7 DEF ReconnectOpens
      <4>2. connection \in Nat /\ n > connection
        BY DEF TypeInv, RestOK
      <4>3. readers[n] = Reader0
        BY <4>2 DEF TypeInv, Unopened
      <4> QED
        BY <4>1, <4>3 DEF Reader0
    <3>2. /\ connection' = n /\ alive' = alive \cup {n} /\ isOpen' = TRUE
          /\ readers' = [readers EXCEPT ![i] = [Reader0 EXCEPT !.at = "end"], ![n].at = "top"]
          /\ pingers' = [pingers EXCEPT ![n].at = "ping"]
          /\ UNCHANGED <<quiet, canceled, task, breaks>>
      BY <2>7 DEF ReconnectOpens
    <3>3. /\ readers' = [j \in Opens |-> readers'[j]]
          /\ readers'[i] = [Reader0 EXCEPT !.at = "end"]
          /\ readers'[n] = [Reader0 EXCEPT !.at = "top"]
          /\ \A j \in Opens \ {i, n} : readers'[j] = readers[j]
      BY <3>1, <3>2 DEF TypeInv, ReadersOK
    <3>4. ReadersOK'
      <4>1. \A j \in Opens : ReaderOK(readers'[j])
        BY <3>3, FreshReader DEF TypeInv, ReadersOK
      <4> QED
        BY <3>3, <4>1 DEF ReadersOK, ReaderOK
    <3>5. Unopened'
      <4>1. SUFFICES ASSUME NEW j \in Opens, j > n PROVE readers'[j] = Reader0
        BY <3>2 DEF Unopened
      <4>2. n = connection + 1 /\ n \in Int /\ j \in Int /\ connection \in Int
        BY DEF TypeInv, RestOK, Opens
      <4>3. j > connection /\ j # n
        BY <4>1, <4>2
      <4>4. readers[j] = Reader0
        BY <4>3 DEF TypeInv, Unopened
      <4>5. j # i
        BY <3>1, <4>4 DEF Reader0
      <4> QED
        BY <3>3, <4>3, <4>4, <4>5
    <3>6. pingers' \in [Opens -> PingerSet]
      BY <3>2 DEF TypeInv, RestOK, PingerSet
    <3>7. connection' \in 0 .. MaxOpens /\ alive' \subseteq 1 .. connection'
      BY <3>2 DEF TypeInv, RestOK, Opens
    <3> QED
      BY <3>2, <3>4, <3>5, <3>6, <3>7 DEF TypeInv, RestOK
  <2>8. CASE ReconnectFails(i) /\ readers[i].errors < MaxAttempts
    <3>1. /\ readers' = [readers EXCEPT ![i].at = "close", ![i].errors = @ + 1]
          /\ readers[i].at = "open"
          /\ UNCHANGED <<channel, pingers, quiet, canceled, task, breaks>>
      BY <2>8 DEF ReconnectFails
    <3>2. readers' = [readers EXCEPT ![i] = [at |-> "close", conn |-> c, errors |-> e + 1]]
      <4>1. readers \in [Opens -> [at : {"none", "top", "read", "close", "open", "end", "panic"},
                                   conn : 0 .. MaxOpens, errors : 0 .. RetryCount + MaxAttempts]]
        BY DEF TypeInv, ReadersOK, ReaderOK
      <4> QED
        BY <2>5, <3>1, <4>1
    <3>3. ReaderOK([at |-> "close", conn |-> c, errors |-> e + 1])
      BY <2>0, <2>5, <2>8, <3>1 DEF ReaderOK
    <3> QED
      BY <3>1, <3>2, <3>3, ReaderSteps DEF channel, TypeInv, RestOK
  <2>9. CASE ReconnectFails(i) /\ ~(readers[i].errors < MaxAttempts)
    <3>1. /\ readers' = [readers EXCEPT ![i] = [Reader0 EXCEPT !.at = "end"]]
          /\ readers[i].at = "open" /\ canceled' = TRUE
          /\ UNCHANGED <<channel, pingers, quiet, task, breaks>>
      BY <2>9 DEF ReconnectFails
    <3> QED
      BY <3>1, FreshReader, ReaderSteps DEF channel, TypeInv, RestOK
  <2> QED
    BY <1>5, <2>1, <2>2, <2>3, <2>4, <2>6, <2>7, <2>8, <2>9 DEF Reader
<1>6. CASE UNCHANGED vars
  BY <1>6 DEF vars, channel, TypeInv, ReadersOK, RestOK, Unopened, ReaderOK
<1> QED
  BY <1>1, <1>2, <1>3, <1>4, <1>5, <1>6 DEF Next

\* No counter of a reader passes what its handler puts up with: it stops reading at
\* the tenth error and dialling after the last attempt (Open, OnError),
\* and the timer of the input stops at its limit.
THEOREM Types == Spec => []TypeOK
<1>1. Init => TypeInv
  <2> SUFFICES ASSUME Init PROVE TypeInv
    OBVIOUS
  <2>1. \A i \in Opens : readers[i] = IF i = 1 THEN [Reader0 EXCEPT !.at = "top"] ELSE Reader0
    BY DEF Init
  <2>2. ReaderOK(Reader0)
    BY Numbers DEF ReaderOK, Reader0
  <2>3. ReadersOK
    BY <2>1, <2>2, FreshReader DEF Init, ReadersOK
  <2>4. Unopened
    BY <2>1 DEF Init, Unopened, Opens
  <2>5. Pinger0 \in PingerSet /\ [Pinger0 EXCEPT !.at = "ping"] \in PingerSet
    BY Numbers DEF Pinger0, PingerSet
  <2>6. /\ connection \in 0 .. MaxOpens /\ alive \subseteq 1 .. connection
        /\ quiet \in 0 .. QuietLimit + 1 /\ breaks \in 0 .. MaxBreaks
    BY Numbers DEF Init
  <2>7. pingers \in [Opens -> PingerSet]
    BY <2>5 DEF Init
  <2>8. RestOK
    BY <2>6, <2>7 DEF Init, RestOK
  <2> QED
    BY <2>3, <2>4, <2>8 DEF TypeInv
<1>2. TypeInv => TypeOK
  BY TypeParts DEF TypeInv
<1> QED
  BY <1>1, <1>2, TypeStep, PTL DEF Spec

(***************************************************************************)
(* The task of a session, whatever ids are fetched twice.  RunningIsKnown  *)
(* is inductive with the types it rests on: only AddSessionTask puts a run *)
(* in, where another that runs is displaced by this very one, and only     *)
(* RemoveTask empties the entry, at the end of a run of the same id.       *)
(***************************************************************************)
Places == {"idle", "check", "add", "open", "run", "report", "remove", "over"}

FactoryInv ==
    /\ at \in [Runs -> Places]
    /\ factory \in [Ids -> Runs \cup {none}]
    /\ RunningIsKnown

\* A step that leaves the factory alone, and moves one run on within it or outside.
LEMMA MovesOn ==
    ASSUME FactoryInv, NEW r \in Runs, NEW p \in Places, at' = [at EXCEPT ![r] = p],
           factory' = factory, at[r] # "over", p # "over" \/ ~Registered(r),
           at[r] \in {"open", "run", "report"} \/ p \notin {"open", "run", "report"}
              \/ \E q \in Runs \ {r} : Id(q) = Id(r) /\ factory[Id(r)] = q,
           Registered(r) => p \in {"open", "run", "report", "remove"}
    PROVE  FactoryInv'
<1> USE DEF FactoryInv, Registered, Places
<1>0. \A i \in Ids : factory[i] # none => factory[i] \in Runs
  BY DEF FactoryInv
<1>1. at' \in [Runs -> Places] /\ \A q \in Runs : at'[q] = IF q = r THEN p ELSE at[q]
  OBVIOUS
<1>2. ASSUME NEW i \in Ids, factory[i] # none
      PROVE  Id(factory[i]) = i /\ at'[factory[i]] \in {"open", "run", "report", "remove"}
  BY <1>0, <1>1, <1>2 DEF RunningIsKnown
<1>3. ASSUME NEW s \in Runs, at'[s] \in {"open", "run", "report"}, factory[Id(s)] # s
      PROVE  \E q \in Runs \ {s} : Id(q) = Id(s) /\ (factory[Id(s)] = q \/ at'[q] = "over")
  <2>1. CASE s = r /\ at[r] \notin {"open", "run", "report"}
    BY <1>1, <1>3, <2>1
  <2>2. CASE at[s] \in {"open", "run", "report"}
    BY <1>1, <1>3, <2>2 DEF RunningIsKnown
  <2> QED
    BY <1>1, <1>3, <2>1, <2>2
<1> QED
  BY <1>1, <1>2, <1>3 DEF RunningIsKnown, Ids, Id

LEMMA FactoryInit == ASSUME TaskInit PROVE FactoryInv
<1>1. \A r \in Runs : at[r] = "idle"
  BY DEF TaskInit
<1>2. \A i \in Ids : factory[i] = none
  BY DEF TaskInit
<1> QED
  BY <1>1, <1>2 DEF TaskInit, FactoryInv, RunningIsKnown, Places

LEMMA FactoryStep ==
    ASSUME SessionAssumption, FactoryInv, [TaskNext]_taskVars PROVE FactoryInv'
<1>0. none \notin Runs /\ \A r \in Runs : Id(r) \in Ids
  BY DEF SessionAssumption, Ids
<1>a. \A r \in Runs : Registered(r) <=> at[r] \in {"open", "run", "report", "remove"}
  BY DEF Registered
<1>1. ASSUME NEW r \in Runs, Fetched(r) \/ RunTimesOut(r) PROVE FactoryInv'
  BY <1>1, <1>a, MovesOn DEF Fetched, RunTimesOut, Go, Places
<1>2. ASSUME NEW r \in Runs, Checks(r) PROVE FactoryInv'
  <2>1. CASE factory[Id(r)] = none
    BY <1>2, <1>a, <2>1, MovesOn DEF Checks, Go, Places
  <2>2. CASE factory[Id(r)] # none
    <3>1. PICK q \in Runs : factory[Id(r)] = q /\ Id(q) = Id(r) /\ q # r
      BY <1>0, <1>2, <2>2 DEF FactoryInv, RunningIsKnown, Registered, Checks
    <3> QED
      BY <1>2, <1>a, <2>2, <3>1, MovesOn DEF Checks, Go, Places
  <2> QED
    BY <2>1, <2>2
<1>3. ASSUME NEW r \in Runs, Adds(r) PROVE FactoryInv'
  <2>1. CASE UNCHANGED <<factory, at>>
    BY <2>1 DEF FactoryInv, RunningIsKnown, Registered, Ids, Id
  <2>2. CASE Go(r, "open") /\ factory' = [factory EXCEPT ![Id(r)] = r]
    <3>1. /\ at' \in [Runs -> Places] /\ at[r] = "add"
          /\ \A q \in Runs : at'[q] = IF q = r THEN "open" ELSE at[q]
      BY <1>3, <2>2 DEF FactoryInv, Go, Adds, Places
    <3>2. /\ factory' \in [Ids -> Runs \cup {none}]
          /\ \A i \in Ids : factory'[i] = IF i = Id(r) THEN r ELSE factory[i]
      BY <1>0, <2>2 DEF FactoryInv
    <3>3. ASSUME NEW i \in Ids, factory'[i] # none
          PROVE  Id(factory'[i]) = i /\ at'[factory'[i]] \in {"open", "run", "report", "remove"}
      BY <3>1, <3>2, <3>3 DEF FactoryInv, RunningIsKnown, Registered
    <3>4. ASSUME NEW s \in Runs, at'[s] \in {"open", "run", "report"}, factory'[Id(s)] # s
          PROVE  \E q \in Runs \ {s} : Id(q) = Id(s) /\ (factory'[Id(s)] = q \/ at'[q] = "over")
      <4>1. CASE Id(s) = Id(r)
        BY <1>0, <3>2, <3>4, <4>1
      <4>2. CASE Id(s) # Id(r)
        BY <1>0, <3>1, <3>2, <3>4, <4>2 DEF FactoryInv, RunningIsKnown
      <4> QED
        BY <4>1, <4>2
    <3> QED
      BY <3>1, <3>2, <3>3, <3>4 DEF FactoryInv, RunningIsKnown, Registered, Ids, Id
  <2> QED
    BY <1>3, <2>1, <2>2 DEF Adds
<1>4. ASSUME NEW r \in Runs, OpensChannel(r) \/ PluginIsDone(r) \/ Reports(r) PROVE FactoryInv'
  BY <1>4, <1>a, MovesOn DEF OpensChannel, PluginIsDone, Reports, Go, Places
<1>5. ASSUME NEW r \in Runs, Removes(r) PROVE FactoryInv'
  <2>1. /\ at' \in [Runs -> Places] /\ at[r] = "remove"
        /\ \A q \in Runs : at'[q] = IF q = r THEN "over" ELSE at[q]
    BY <1>5 DEF FactoryInv, Removes, Go, Places
  <2>2. /\ factory' \in [Ids -> Runs \cup {none}]
        /\ \A i \in Ids : factory'[i] = IF i = Id(r) THEN none ELSE factory[i]
    BY <1>0, <1>5 DEF FactoryInv, Removes
  <2>3. ASSUME NEW i \in Ids, factory'[i] # none
        PROVE  Id(factory'[i]) = i /\ at'[factory'[i]] \in {"open", "run", "report", "remove"}
    BY <2>1, <2>2, <2>3 DEF FactoryInv, RunningIsKnown, Registered
  <2>4. ASSUME NEW s \in Runs, at'[s] \in {"open", "run", "report"}, factory'[Id(s)] # s
        PROVE  \E q \in Runs \ {s} : Id(q) = Id(s) /\ (factory'[Id(s)] = q \/ at'[q] = "over")
    <3>1. CASE Id(s) = Id(r)
      BY <2>1, <2>4, <3>1
    <3>2. CASE Id(s) # Id(r)
      BY <1>0, <2>1, <2>2, <2>4, <3>2 DEF FactoryInv, RunningIsKnown
    <3> QED
      BY <3>1, <3>2
  <2> QED
    BY <2>1, <2>2, <2>3, <2>4 DEF FactoryInv, RunningIsKnown, Registered, Ids, Id
<1>6. ASSUME UNCHANGED <<factory, at>> PROVE FactoryInv'
  BY <1>6 DEF FactoryInv, RunningIsKnown, Registered, Ids, Id
<1>7. ASSUME NEW r \in Runs, Plugin(r) \/ ShellExits(r) \/ Watcher(r) \/ TimerFires(r)
      PROVE  UNCHANGED <<factory, at>>
  BY <1>7 DEF Plugin, PluginStarts, PluginWakes, ShellExits, Watcher, WatcherWaits,
     WatcherAsksBoth, WatcherAsks, TimerFires
<1>8. CASE KickComes \/ KickLooks \/ KickStops \/ UNCHANGED taskVars
  BY <1>6, <1>8 DEF KickComes, KickLooks, KickStops, session, taskVars
<1> QED
  BY <1>1, <1>2, <1>3, <1>4, <1>5, <1>6, <1>7, <1>8 DEF TaskNext, Run

\* A kick that names a running session finds it, and so does the monitor of the load,
\* whatever kicks, timers, watchers and the three hours do, unless another session of
\* the same id was added over it or removed it; and no entry outlives its session
\* (runTask, AddSessionTask, RemoveTask).
THEOREM RunningSessionsAreKnown ==
    ASSUME SessionAssumption PROVE TaskSpec => []RunningIsKnown
<1>1. FactoryInv => RunningIsKnown
  BY DEF FactoryInv
<1>2. TaskInit => FactoryInv
  BY FactoryInit
<1>3. FactoryInv /\ [TaskNext]_taskVars => FactoryInv'
  BY FactoryStep
<1> QED
  BY <1>1, <1>2, <1>3, PTL DEF TaskSpec

\* The handler of a kick keeps an id of a session, and the cancel flag one of its
\* states, also for ids that are fetched twice (stopSession, StopTask).
THEOREM TaskTypes == ASSUME SessionAssumption PROVE TaskSpec => []TaskTypeOK
<1>0. \A r \in Runs : Id(r) \in Ids
  BY DEF Ids
<1>1. ASSUME TaskInit PROVE TaskTypeOK
  <2>1. factory \in [Ids -> Runs \cup {none}]
    BY <1>1 DEF TaskInit
  <2>2. {woken, timed} \subseteq [Runs -> BOOLEAN]
    BY <1>1 DEF TaskInit
  <2>3. kick \in [at : {"idle", "look", "get"}, id : Ids]
    BY <1>1 DEF TaskInit
  <2>4. kicks \in 0 .. MaxKicks
    BY <1>1 DEF SessionAssumption, TaskInit
  <2> QED
    BY <1>1, <2>1, <2>2, <2>3, <2>4 DEF TaskInit, TaskTypeOK
<1>2. TaskTypeOK /\ [TaskNext]_taskVars => TaskTypeOK'
  <2> SUFFICES ASSUME TaskTypeOK, [TaskNext]_taskVars PROVE TaskTypeOK'
    OBVIOUS
  <2> USE DEF TaskTypeOK, Others, session
  <2>1. ASSUME NEW r \in Runs, Fetched(r) \/ RunTimesOut(r) PROVE TaskTypeOK'
    BY <2>1 DEF Fetched, RunTimesOut, Go
  <2>2. ASSUME NEW r \in Runs, Checks(r) \/ PluginIsDone(r) \/ Reports(r) PROVE TaskTypeOK'
    BY <2>2 DEF Checks, PluginIsDone, Reports, Go
  <2>3. ASSUME NEW r \in Runs, Adds(r) PROVE TaskTypeOK'
    <3>1. factory' \in [Ids -> Runs \cup {none}] /\ crashed' \in BOOLEAN
      BY <1>0, <2>3 DEF Adds
    <3>2. UNCHANGED at \/ at' = [at EXCEPT ![r] = "open"]
      BY <2>3 DEF Adds, Go
    <3> QED
      BY <2>3, <3>1, <3>2 DEF Adds
  <2>4. ASSUME NEW r \in Runs, OpensChannel(r) \/ Removes(r) PROVE TaskTypeOK'
    <3>1. factory' \in [Ids -> Runs \cup {none}]
      BY <1>0, <2>4 DEF OpensChannel, Removes
    <3>2. plugin' \in [Runs -> {"none", "start", "run", "end"}]
      BY <2>4 DEF OpensChannel, Removes
    <3> QED
      BY <2>4, <3>1, <3>2 DEF OpensChannel, Removes, Go
  <2>5. ASSUME NEW r \in Runs, PluginStarts(r) \/ ShellExits(r) PROVE TaskTypeOK'
    BY <2>5 DEF PluginStarts, ShellExits
  <2>6. ASSUME NEW r \in Runs, PluginWakes(r) PROVE TaskTypeOK'
    <3>1. woken' \in [Runs -> BOOLEAN]
      BY <2>6 DEF PluginWakes
    <3>2. plugin' \in [Runs -> {"none", "start", "run", "end"}]
      BY <2>6 DEF PluginWakes
    <3> QED
      BY <2>6, <3>1, <3>2 DEF PluginWakes
  <2>7. ASSUME NEW r \in Runs, WatcherWaits(r) \/ WatcherAsksBoth(r) PROVE TaskTypeOK'
    <3>1. woken' \in [Runs -> BOOLEAN]
      BY <2>7 DEF WatcherWaits, WatcherAsksBoth, WatcherAsks
    <3>2. watcher' \in [Runs -> {"none", "wait", "first", "second", "end"}]
      BY <2>7 DEF WatcherWaits, WatcherAsksBoth, WatcherAsks
    <3> QED
      BY <2>7, <3>1, <3>2 DEF WatcherWaits, WatcherAsksBoth, WatcherAsks
  <2>8. ASSUME NEW r \in Runs, TimerFires(r) PROVE TaskTypeOK'
    <3>1. timed' \in [Runs -> BOOLEAN]
      BY <2>8 DEF TimerFires
    <3>2. flag' \in [Runs -> {"none", "Canceled", "Completed"}]
      BY <2>8 DEF TimerFires
    <3> QED
      BY <2>8, <3>1, <3>2 DEF TimerFires
  <2>9. CASE KickComes
    BY <2>9 DEF SessionAssumption, KickComes
  <2>10. CASE KickLooks
    BY <2>10 DEF KickLooks
  <2>11. CASE KickStops
    <3>1. kick' \in [at : {"idle", "look", "get"}, id : Ids]
      BY <2>11 DEF KickStops
    <3>2. flag' \in [Runs -> {"none", "Canceled", "Completed"}] /\ crashed' \in BOOLEAN
      BY <2>11 DEF KickStops
    <3> QED
      BY <2>11, <3>1, <3>2 DEF KickStops
  <2>12. CASE UNCHANGED taskVars
    BY <2>12 DEF taskVars
  <2> QED
    BY <2>1, <2>2, <2>3, <2>4, <2>5, <2>6, <2>7, <2>8, <2>9, <2>10, <2>11, <2>12
    DEF TaskNext, Run, Plugin, Watcher
<1> QED
  BY <1>1, <1>2, PTL DEF TaskSpec

(***************************************************************************)
(* PortForward.  While reconnectToPort is set the pump waits or is done,   *)
(* but for the moment between the handler's answer to the pump and its     *)
(* reset of the flag (ReconnectMeansWait).                                 *)
(***************************************************************************)
ReconnectMeansWait == reconnect /\ handler # "sent" => pump \in {"wait", "done"}
PortFlags ==
    /\ connected \in BOOLEAN /\ reconnect \in BOOLEAN /\ dialled \in BOOLEAN
    /\ active \in BOOLEAN /\ cancelled \in BOOLEAN
PortPlaces ==
    /\ conn \in 0 .. MaxConns /\ openConns \subseteq 1 .. conn
    /\ pump \in {"top", "read", "wait", "done"}
    /\ handler \in {"idle", "dial", "send", "sent"}
    /\ execute \in {"select", "cancel", "over"}
PortInv ==
    /\ PortFlags /\ PortPlaces /\ ReconnectMeansWait /\ HandlerIsAwaited
    /\ handler = "sent" => dialled

LEMMA PortInits == PortAssumption /\ PortInit => PortInv
<1> SUFFICES ASSUME PortAssumption, PortInit PROVE PortInv
  OBVIOUS
<1>1. PortFlags
  BY DEF PortInit, PortFlags
<1>2. PortPlaces
  BY DEF PortAssumption, PortInit, PortPlaces
<1> QED
  BY <1>1, <1>2 DEF PortInit, PortInv, ReconnectMeansWait, HandlerIsAwaited

LEMMA PortStep == PortAssumption /\ PortInv /\ [PortNext]_portVars => PortInv'
<1> SUFFICES ASSUME PortAssumption, PortInv, [PortNext]_portVars PROVE PortInv'
  OBVIOUS
<1>0. /\ PortFlags /\ PortPlaces /\ ReconnectMeansWait /\ HandlerIsAwaited
      /\ handler = "sent" => dialled
  BY DEF PortInv
<1>1. PortFlags'
  <2>1. CASE TargetCloses \/ ChannelCloses \/ Cancel \/ UNCHANGED portVars
    BY <1>0, <2>1 DEF TargetCloses, ChannelCloses, Cancel, portVars, port, PortFlags
  <2>2. CASE PumpCopies \/ Pump \/ MessageComes
    BY <1>0, <2>2 DEF PumpCopies, Pump, PumpAsks, PumpFails, MessageComes, port, PortFlags
  <2>3. CASE Handler
    BY <1>0, <2>3 DEF Handler, HandlerDials, HandlerTells, HandlerResets, port, PortFlags
  <2>4. CASE Execute
    BY <1>0, <2>4 DEF Execute, ExecuteDone, ExecuteCancelled, ExecuteTells, Return, port,
         PortFlags
  <2> QED
    BY <2>1, <2>2, <2>3, <2>4 DEF PortNext
<1>2. PortPlaces'
  <2>1. CASE TargetCloses \/ ChannelCloses \/ Cancel \/ UNCHANGED portVars
    BY <1>0, <2>1 DEF TargetCloses, ChannelCloses, Cancel, portVars, port, PortPlaces
  <2>2. CASE PumpCopies \/ Pump \/ MessageComes
    BY <1>0, <2>2 DEF PumpCopies, Pump, PumpAsks, PumpFails, MessageComes, port, PortPlaces
  <2>3. CASE Handler
    <3>1. \/ UNCHANGED <<conn, openConns>>
          \/ conn < MaxConns /\ conn' = conn + 1 /\ openConns' = openConns \cup {conn + 1}
      <4>1. CASE HandlerDials
        BY <4>1 DEF HandlerDials
      <4>2. CASE HandlerTells \/ HandlerResets
        BY <4>2 DEF HandlerTells, HandlerResets, port
      <4> QED
        BY <2>3, <4>1, <4>2 DEF Handler
    <3>2. conn \in 0 .. MaxConns /\ openConns \subseteq 1 .. conn
      BY <1>0 DEF PortPlaces
    <3>3. conn' \in 0 .. MaxConns /\ openConns' \subseteq 1 .. conn'
      <4>1. CASE UNCHANGED <<conn, openConns>>
        BY <3>2, <4>1
      <4>2. CASE conn < MaxConns /\ conn' = conn + 1 /\ openConns' = openConns \cup {conn + 1}
        <5>1. conn' \in 0 .. MaxConns
          BY <3>2, <4>2 DEF PortAssumption
        <5>2. \A c \in openConns' : c \in 1 .. conn'
          BY <3>2, <4>2
        <5> QED
          BY <5>1, <5>2
      <4> QED
        BY <3>1, <4>1, <4>2
    <3>4. /\ pump' \in {pump, "top", "done"} /\ handler' \in {"send", "sent", "idle"}
          /\ UNCHANGED execute
      BY <2>3 DEF Handler, HandlerDials, HandlerTells, HandlerResets
    <3> QED
      BY <1>0, <3>3, <3>4 DEF PortPlaces
  <2>4. CASE Execute
    <3>1. openConns' \subseteq openConns /\ conn' = conn
      BY <2>4 DEF Execute, ExecuteDone, ExecuteCancelled, ExecuteTells, Return, port
    <3>2. handler' = handler /\ pump' \in {pump, "done"} /\ execute' \in {"cancel", "over"}
      BY <2>4 DEF Execute, ExecuteDone, ExecuteCancelled, ExecuteTells, Return
    <3> QED
      BY <1>0, <3>1, <3>2 DEF PortPlaces
  <2> QED
    BY <2>1, <2>2, <2>3, <2>4 DEF PortNext
<1>3. ReconnectMeansWait' /\ HandlerIsAwaited'
  <2>1. CASE TargetCloses \/ ChannelCloses \/ Cancel \/ UNCHANGED portVars
    BY <1>0, <2>1 DEF TargetCloses, ChannelCloses, Cancel, portVars, port, ReconnectMeansWait,
         HandlerIsAwaited
  <2>2. CASE PumpCopies \/ Pump \/ MessageComes
    BY <1>0, <2>2 DEF PumpCopies, Pump, PumpAsks, PumpFails, MessageComes, port,
         ReconnectMeansWait, HandlerIsAwaited
  <2>3. CASE Handler
    BY <1>0, <2>3 DEF Handler, HandlerDials, HandlerTells, HandlerResets, port,
         ReconnectMeansWait, HandlerIsAwaited
  <2>4. CASE Execute
    BY <1>0, <2>4 DEF Execute, ExecuteDone, ExecuteCancelled, ExecuteTells, port,
         ReconnectMeansWait, HandlerIsAwaited
  <2> QED
    BY <2>1, <2>2, <2>3, <2>4 DEF PortNext
<1>4. handler' = "sent" => dialled'
  <2>1. CASE TargetCloses \/ ChannelCloses \/ Cancel \/ UNCHANGED portVars
    BY <1>0, <2>1 DEF TargetCloses, ChannelCloses, Cancel, portVars
  <2>2. CASE PumpCopies \/ Pump \/ MessageComes
    BY <1>0, <2>2 DEF PumpCopies, Pump, PumpAsks, PumpFails, MessageComes
  <2>3. CASE Handler
    BY <1>0, <2>3 DEF Handler, HandlerDials, HandlerTells, HandlerResets
  <2>4. CASE Execute
    BY <1>0, <2>4 DEF Execute, ExecuteDone, ExecuteCancelled, ExecuteTells
  <2> QED
    BY <2>1, <2>2, <2>3, <2>4 DEF PortNext
<1> QED
  BY <1>1, <1>2, <1>3, <1>4 DEF PortInv

\* The types of a port session, and that its handler goes on only after a dial that
\* succeeded.
THEOREM PortTypes == ASSUME PortAssumption PROVE PortSpec => []PortTypeOK
<1>1. PortInv => PortTypeOK
  <2> SUFFICES ASSUME PortInv PROVE PortTypeOK
    OBVIOUS
  <2>1. {connected, reconnect, dialled, active, cancelled} \subseteq BOOLEAN
    BY DEF PortInv, PortFlags
  <2> QED
    BY <2>1 DEF PortInv, PortPlaces, PortTypeOK
<1> QED
  BY <1>1, PortInits, PortStep, PTL DEF PortSpec

\* The handler of a client's message, which sends on a channel without a buffer, finds
\* the pump waiting for it or done for good, for any number of connections.
THEOREM HandlersAreAwaited == ASSUME PortAssumption PROVE PortSpec => []HandlerIsAwaited
<1>1. PortInv => HandlerIsAwaited
  BY DEF PortInv
<1> QED
  BY <1>1, PortInits, PortStep, PTL DEF PortSpec

(***************************************************************************)
(* SessionClient.  Handled chunks are those that the writer has read and   *)
(* is done with.  While the connection is open, a console and a local      *)
(* connection have sent these and no others (SentStraight); a pipe keeps   *)
(* the first of them until something is sent (FirstKept).                  *)
(***************************************************************************)
InHand == {"ready", "resend", "send"}
Handled == IF wpc \in InHand THEN taken - 1 ELSE taken

ClientFlags == closed \in BOOLEAN /\ closeSent \in BOOLEAN /\ real_connected \in BOOLEAN
ClientPlaces ==
    /\ mode \in {"console", "raw", "forward"} /\ wsConn \in {"open", "lost"}
    /\ wpc \in {"warm", "read", "ready", "resend", "send", "poison", "done"}
ClientNumbers ==
    /\ typed \in Nat /\ taken \in Nat /\ data \in Nat /\ resend \in Nat
    /\ sent \in Seq(Nat) /\ taken <= typed
    /\ wpc \in InHand => data = taken /\ taken > 0

\* Where the writer is, with its input.
WriterPlaced ==
    /\ wpc = "warm" => mode = "forward"
    /\ wpc = "ready" => mode # "console"
    /\ wpc = "resend" => mode = "raw" /\ resend # 0
    /\ wpc = "poison" => taken = typed
    /\ mode # "raw" => resend = 0
WarmFirst == mode = "forward" => wpc = "warm" \/ real_connected
ClosedLast ==
    /\ wpc = "poison" => closed
    /\ closeSent => closed /\ wpc \in {"poison", "done"}

SentBefore ==
    /\ \A i \in DOMAIN sent : sent[i] <= Handled
    /\ resend <= Handled
    /\ resend # 0 => sent = <<>> \/ wsConn = "lost"
FirstKept ==
    mode = "raw" =>
        /\ Handled > 0 => resend = 1 \/ sent # <<>> \/ wsConn = "lost"
        /\ resend \in {0, 1}
        /\ wpc = "send" => resend = 0
        /\ Handled > 0 => resend = 1 \/ real_connected
        /\ wpc \in {"resend", "send"} \/ sent # <<>> => real_connected
        /\ \A i, j \in DOMAIN sent : i < j => sent[i] < sent[j]
        /\ sent # <<>> => sent[1] = 1
SentStraight ==
    mode # "raw" =>
        /\ \A i \in DOMAIN sent : sent[i] = i
        /\ wsConn = "open" => Len(sent) = Handled
AllSent == closeSent /\ mode # "raw" => Len(sent) = typed

ClientInv ==
    /\ ClientFlags /\ ClientPlaces /\ ClientNumbers /\ WriterPlaced /\ WarmFirst
    /\ ClosedLast /\ SentBefore /\ FirstKept /\ SentStraight /\ AllSent

LEMMA ClientInits == ClientAssumption /\ ClientInit => ClientInv
<1> SUFFICES ASSUME ClientAssumption, ClientInit PROVE ClientInv
  OBVIOUS
<1>1. mode \in {"console", "raw", "forward"} /\ wpc \in {"warm", "read"} /\ sent \in Seq(Nat)
  BY DEF ClientAssumption, ClientInit
<1>2. ClientFlags /\ ClientPlaces /\ WarmFirst /\ ClosedLast /\ WriterPlaced
  BY <1>1 DEF ClientInit, ClientFlags, ClientPlaces, WarmFirst, ClosedLast, WriterPlaced
<1>3. ClientNumbers /\ Handled = 0
  BY <1>1 DEF ClientInit, ClientNumbers, Handled, InHand
<1>4. SentBefore /\ FirstKept /\ SentStraight /\ AllSent
  BY <1>3 DEF ClientInit, SentBefore, FirstKept, SentStraight, AllSent
<1> QED
  BY <1>2, <1>3, <1>4 DEF ClientInv

\* What the server, the network and the other goroutines do: the agent's first output
\* may come, and the connection may be lost.
LEMMA OthersKeep ==
    ASSUME ClientInv, UNCHANGED <<user, writer>>, wsConn' \in {wsConn, "lost"},
           real_connected' \in BOOLEAN, real_connected => real_connected'
    PROVE  ClientInv'
<1>0. /\ ClientFlags /\ ClientPlaces /\ ClientNumbers /\ WriterPlaced /\ WarmFirst
      /\ ClosedLast /\ SentBefore /\ FirstKept /\ SentStraight /\ AllSent
  BY DEF ClientInv
<1>1. UNCHANGED <<mode, typed, closed, taken, data, resend, sent, closeSent, wpc>>
  BY DEF user, writer
<1>2. Handled' = Handled
  BY <1>1 DEF Handled
<1>3. ClientFlags' /\ WarmFirst' /\ ClosedLast'
  BY <1>0, <1>1 DEF ClientFlags, WarmFirst, ClosedLast
<1>4. ClientPlaces' /\ ClientNumbers' /\ WriterPlaced'
  BY <1>0, <1>1 DEF ClientPlaces, ClientNumbers, WriterPlaced
<1>5. SentBefore' /\ SentStraight' /\ AllSent'
  BY <1>0, <1>1, <1>2 DEF ClientPlaces, SentBefore, SentStraight, AllSent
<1>6. FirstKept'
  BY <1>0, <1>1, <1>2 DEF ClientPlaces, FirstKept
<1> QED
  BY <1>3, <1>4, <1>5, <1>6 DEF ClientInv

\* The writer sends chunk k, or loses it.
LEMMA Delivered ==
    ASSUME ClientNumbers, NEW k \in Nat, Delivers(k)
    PROVE  /\ sent' \in Seq(Nat)
           /\ \/ wsConn = "open" /\ Len(sent') = Len(sent) + 1 /\ sent' # <<>>
              \/ wsConn # "open" /\ sent' = sent
           /\ \A i \in DOMAIN sent' :
                 \/ i \in DOMAIN sent /\ sent'[i] = sent[i]
                 \/ i = Len(sent) + 1 /\ sent'[i] = k
<1>0. sent \in Seq(Nat)
  BY DEF ClientNumbers
<1>1. CASE wsConn = "open"
  <2>1. sent' = Append(sent, k)
    BY <1>1 DEF Delivers
  <2>2. /\ Append(sent, k) \in Seq(Nat) /\ Len(Append(sent, k)) = Len(sent) + 1
        /\ DOMAIN Append(sent, k) = 1 .. Len(sent) + 1 /\ DOMAIN sent = 1 .. Len(sent)
        /\ Len(sent) \in Nat
    BY <1>0
  <2>3. \A i \in 1 .. Len(sent) + 1 :
           \/ i \in 1 .. Len(sent) /\ Append(sent, k)[i] = sent[i]
           \/ i = Len(sent) + 1 /\ Append(sent, k)[i] = k
    BY <1>0, <2>2
  <2>4. Append(sent, k) # <<>>
    BY <2>2
  <2> QED
    BY <1>1, <2>1, <2>2, <2>3, <2>4
<1>2. CASE wsConn # "open"
  <2>1. sent' = sent
    BY <1>2 DEF Delivers
  <2> QED
    BY <1>0, <1>2, <2>1
<1> QED
  BY <1>1, <1>2

LEMMA ClientStep == ClientInv /\ [ClientNext]_clientVars => ClientInv'
<1> SUFFICES ASSUME ClientInv, [ClientNext]_clientVars PROVE ClientInv'
  OBVIOUS
<1>0. /\ ClientFlags /\ ClientPlaces /\ ClientNumbers /\ WriterPlaced /\ WarmFirst
      /\ ClosedLast /\ SentBefore /\ FirstKept /\ SentStraight /\ AllSent
  BY DEF ClientInv
<1>1. CASE TypesInput \/ Closes
  <2>1. /\ UNCHANGED <<mode, wsConn, taken, data, resend, sent, closeSent, wpc, real_connected>>
        /\ ~closed /\ typed' \in {typed, typed + 1}
    BY <1>1 DEF TypesInput, Closes, server, writer
  <2>2. Handled' = Handled
    BY <2>1 DEF Handled
  <2>3. ClientFlags' /\ ClosedLast' /\ WarmFirst'
    BY <1>0, <1>1, <2>1 DEF TypesInput, Closes, ClientFlags, ClosedLast, WarmFirst
  <2>4. ClientNumbers' /\ ClientPlaces'
    BY <1>0, <2>1 DEF ClientNumbers, ClientPlaces
  <2>5. WriterPlaced'
    BY <1>0, <2>1 DEF WriterPlaced, ClosedLast
  <2>6. SentBefore' /\ FirstKept' /\ SentStraight'
    BY <1>0, <2>1, <2>2 DEF SentBefore, FirstKept, SentStraight
  <2>7. AllSent'
    BY <1>0, <2>1 DEF AllSent, ClosedLast
  <2> QED
    BY <2>3, <2>4, <2>5, <2>6, <2>7 DEF ClientInv
<1>2. CASE ConnBreaks \/ \E m \in Messages : ServerSends(m)
  <2>1. UNCHANGED <<user, writer, real_connected>> /\ wsConn' \in {wsConn, "lost"}
    BY <1>2 DEF ConnBreaks, ServerSends
  <2> QED
    BY <1>0, <2>1, OthersKeep DEF ClientFlags
<1>3. CASE ReadLoop \/ Read \/ SizeLoop \/ Returns \/ UNCHANGED clientVars
  <2>1. /\ UNCHANGED <<user, writer, wsConn>>
        /\ \/ real_connected' = real_connected
           \/ real_connected' = (real_connected \/ held = "output")
    <3>1. CASE Spawns \/ ReadLoopDies
      BY <3>1 DEF Spawns, ReadLoopDies, server
    <3>2. CASE Takes
      <4>1. /\ real_connected' = (real_connected \/ held = "output")
            /\ UNCHANGED <<user, server, writer>>
        BY <3>2, Zenon DEF Takes
      <4> QED
        BY <4>1 DEF server
    <3>3. CASE Read
      BY <3>3 DEF Read, ReadMessage, Recovers, server
    <3>4. CASE SizeLoop \/ Returns
      BY <3>4 DEF SizeLoop, Returns, server
    <3>5. CASE UNCHANGED clientVars
      BY <3>5 DEF clientVars, user, writer
    <3> QED
      BY <1>3, <3>1, <3>2, <3>3, <3>4, <3>5 DEF ReadLoop
  <2>3. real_connected' \in BOOLEAN /\ (real_connected => real_connected')
    BY <1>0, <2>1, Zenon DEF ClientFlags
  <2> QED
    BY <2>1, <2>3, OthersKeep
<1>4. CASE Warm \/ WriterDies \/ WriterPoisons
  <2>1. UNCHANGED <<user, wsConn, taken, data, resend, sent, closeSent>>
    BY <1>4 DEF Warm, WriterDies, WriterPoisons, server
  <2>2. Handled' = Handled
    BY <1>4, <2>1 DEF Warm, WriterDies, WriterPoisons, Handled, InHand
  <2>3. ClientFlags' /\ WarmFirst' /\ ClosedLast'
    BY <1>0, <1>4, <2>1 DEF Warm, WriterDies, WriterPoisons, user, ClientFlags, WarmFirst,
         ClosedLast
  <2>4. ClientPlaces' /\ ClientNumbers' /\ WriterPlaced'
    BY <1>0, <1>4, <2>1 DEF Warm, WriterDies, WriterPoisons, user, ClientPlaces, ClientNumbers,
         WriterPlaced, InHand
  <2>5. SentBefore' /\ SentStraight' /\ AllSent'
    BY <1>0, <2>1, <2>2 DEF user, SentBefore, SentStraight, AllSent
  <2>6. FirstKept'
    <3>1. mode = "raw" => UNCHANGED real_connected /\ wpc' = "done"
      BY <1>0, <1>4 DEF Warm, WriterDies, WriterPoisons, WriterPlaced
    <3> QED
      BY <1>0, <2>1, <2>2, <3>1 DEF user, FirstKept
  <2> QED
    BY <2>3, <2>4, <2>5, <2>6 DEF ClientInv
<1>5. CASE Reads
  <2>1. /\ UNCHANGED <<user, wsConn, real_connected, resend, sent, closeSent>>
        /\ wpc = "read" /\ taken < typed /\ taken' = taken + 1 /\ data' = taken + 1
        /\ wpc' = IF mode = "console" THEN "send" ELSE "ready"
    BY <1>5 DEF Reads, server
  <2>2. Handled = taken /\ Handled' = taken
    BY <1>0, <2>1 DEF Handled, InHand, ClientNumbers
  <2>3. ClientFlags' /\ WarmFirst' /\ ClosedLast'
    BY <1>0, <2>1 DEF user, ClientFlags, WarmFirst, ClosedLast
  <2>4. ClientPlaces' /\ ClientNumbers' /\ WriterPlaced'
    BY <1>0, <2>1 DEF user, ClientPlaces, ClientNumbers, WriterPlaced, InHand
  <2>5. SentBefore' /\ FirstKept' /\ SentStraight' /\ AllSent'
    BY <1>0, <2>1, <2>2 DEF user, SentBefore, FirstKept, SentStraight, AllSent, ClosedLast
  <2> QED
    BY <2>3, <2>4, <2>5 DEF ClientInv
<1>6. CASE Ready
  <2>1. /\ UNCHANGED <<user, wsConn, real_connected, sent, closeSent, taken, data>>
        /\ wpc = "ready" /\ wpc' \in {"read", "send", "resend"}
        /\ wpc' = "resend" => resend # 0
    BY <1>6 DEF Ready, server
  <2>2. \/ real_connected /\ resend' = resend /\ wpc' = IF resend # 0 THEN "resend" ELSE "send"
        \/ ~real_connected /\ wpc' = "read" /\ resend' = IF resend = 0 THEN data ELSE resend
    BY <1>6 DEF Ready
  <2>3. Handled = taken - 1 /\ taken > 0 /\ data = taken /\ mode # "console"
    BY <1>0, <2>1 DEF Handled, InHand, ClientNumbers, WriterPlaced
  <2>4. ClientFlags' /\ WarmFirst' /\ ClosedLast'
    BY <1>0, <2>1 DEF user, ClientFlags, WarmFirst, ClosedLast
  <2>5. real_connected \/ mode = "raw"
    BY <1>0, <2>1, <2>3 DEF WarmFirst, ClientPlaces
  <2>6. CASE real_connected
    <3>1. Handled' = taken - 1 /\ resend' = resend /\ wpc' = IF resend # 0 THEN "resend" ELSE "send"
      BY <2>1, <2>2, <2>6 DEF Handled, InHand
    <3>2. ClientPlaces' /\ ClientNumbers' /\ WriterPlaced'
      BY <1>0, <2>1, <2>3, <3>1 DEF user, ClientPlaces, ClientNumbers, WriterPlaced, InHand
    <3>3. SentBefore' /\ FirstKept' /\ SentStraight' /\ AllSent'
      BY <1>0, <2>1, <2>3, <2>6, <3>1 DEF user, SentBefore, FirstKept, SentStraight, AllSent
    <3> QED
      BY <2>4, <3>2, <3>3 DEF ClientInv
  <2>7. CASE ~real_connected
    <3>1. /\ Handled' = taken /\ wpc' = "read" /\ mode = "raw" /\ sent = <<>>
          /\ resend' = 1
      BY <1>0, <2>1, <2>2, <2>3, <2>5, <2>7 DEF Handled, InHand, FirstKept, ClientNumbers
    <3>2. ClientPlaces' /\ ClientNumbers' /\ WriterPlaced'
      BY <1>0, <2>1, <2>3, <3>1 DEF user, ClientPlaces, ClientNumbers, WriterPlaced, InHand
    <3>3. SentBefore' /\ FirstKept' /\ SentStraight' /\ AllSent'
      BY <1>0, <2>1, <2>3, <2>7, <3>1 DEF user, ClientNumbers, SentBefore, FirstKept,
           SentStraight, AllSent
    <3> QED
      BY <2>4, <3>2, <3>3 DEF ClientInv
  <2> QED
    BY <2>6, <2>7
<1>7. CASE Resends
  <2>1. /\ UNCHANGED <<user, wsConn, real_connected, taken, data, closeSent>>
        /\ wpc = "resend" /\ wpc' = "send" /\ resend' = 0 /\ Delivers(resend)
    BY <1>7 DEF Resends, server
  <2>2. /\ mode = "raw" /\ resend = 1 /\ (sent = <<>> \/ wsConn = "lost") /\ real_connected
    BY <1>0, <2>1 DEF WriterPlaced, FirstKept, SentBefore
  <2>3. Handled' = Handled /\ Handled \in Nat /\ Handled >= 1
    BY <1>0, <2>1, <2>2 DEF Handled, InHand, SentBefore, ClientNumbers
  <2>4. /\ sent' \in Seq(Nat)
        /\ \/ wsConn = "open" /\ Len(sent') = Len(sent) + 1 /\ sent' # <<>>
           \/ wsConn # "open" /\ sent' = sent
        /\ \A i \in DOMAIN sent' :
              \/ i \in DOMAIN sent /\ sent'[i] = sent[i]
              \/ i = Len(sent) + 1 /\ sent'[i] = 1
    BY <1>0, <2>1, <2>2, Delivered
  <2>5. ClientFlags' /\ WarmFirst' /\ ClosedLast'
    BY <1>0, <2>1 DEF user, ClientFlags, WarmFirst, ClosedLast
  <2>6. ClientPlaces' /\ ClientNumbers' /\ WriterPlaced'
    BY <1>0, <2>1, <2>4 DEF user, ClientPlaces, ClientNumbers, WriterPlaced, InHand
  <2>7. \A i \in DOMAIN sent' : sent'[i] <= Handled'
    BY <1>0, <2>3, <2>4 DEF SentBefore
  <2>8. FirstKept'
    <3>1. CASE wsConn = "open"
      <4>1. sent = <<>> /\ Len(sent') = 1 /\ sent' # <<>> /\ sent'[1] = 1
        BY <1>0, <2>2, <2>4, <3>1 DEF ClientNumbers
      <4>2. DOMAIN sent' = {1}
        BY <2>4, <4>1
      <4> QED
        BY <2>1, <2>2, <2>3, <4>1, <4>2 DEF FirstKept
    <3>2. CASE wsConn # "open"
      <4>1. sent' = sent /\ wsConn = "lost"
        BY <1>0, <2>4, <3>2 DEF ClientPlaces
      <4>2. /\ \A i, j \in DOMAIN sent : i < j => sent[i] < sent[j]
            /\ sent # <<>> => sent[1] = 1
        BY <1>0, <2>2 DEF FirstKept
      <4>3. /\ \A i, j \in DOMAIN sent' : i < j => sent'[i] < sent'[j]
            /\ sent' # <<>> => sent'[1] = 1
        BY <4>1, <4>2, Zenon
      <4> QED
        BY <2>1, <2>2, <4>1, <4>3, Zenon DEF FirstKept
    <3> QED
      BY <3>1, <3>2
  <2>9. SentBefore' /\ SentStraight' /\ AllSent'
    BY <1>0, <2>1, <2>2, <2>3, <2>7 DEF user, SentBefore, SentStraight, AllSent
  <2> QED
    BY <2>5, <2>6, <2>8, <2>9 DEF ClientInv
<1>8. CASE Sends
  <2>1. /\ UNCHANGED <<user, wsConn, real_connected, taken, data, resend, closeSent>>
        /\ wpc = "send" /\ Delivers(data) /\ wpc' \in {"read", "done"}
    BY <1>8 DEF Sends, server, reader
  <2>2. /\ data = taken /\ taken > 0 /\ taken \in Nat /\ Handled = taken - 1 /\ Handled' = taken
    BY <1>0, <2>1 DEF ClientNumbers, Handled, InHand
  <2>3. /\ sent' \in Seq(Nat)
        /\ \/ wsConn = "open" /\ Len(sent') = Len(sent) + 1 /\ sent' # <<>>
           \/ wsConn # "open" /\ sent' = sent
        /\ \A i \in DOMAIN sent' :
              \/ i \in DOMAIN sent /\ sent'[i] = sent[i]
              \/ i = Len(sent) + 1 /\ sent'[i] = taken
    BY <1>0, <2>1, <2>2, Delivered
  <2>4. ClientFlags' /\ WarmFirst' /\ ClosedLast'
    BY <1>0, <2>1 DEF user, ClientFlags, WarmFirst, ClosedLast
  <2>5. ClientPlaces' /\ ClientNumbers' /\ WriterPlaced'
    BY <1>0, <2>1, <2>3 DEF user, ClientPlaces, ClientNumbers, WriterPlaced, InHand
  <2>6. \A i \in DOMAIN sent : sent[i] \in Nat /\ sent[i] <= taken - 1 /\ i \in 1 .. Len(sent)
    BY <1>0, <2>2 DEF SentBefore, ClientNumbers
  <2>7. SentBefore'
    <3>1. \A i \in DOMAIN sent' : sent'[i] <= Handled'
      BY <2>2, <2>3, <2>6
    <3>2. resend \in Nat /\ resend <= taken
      BY <1>0, <2>2 DEF SentBefore, ClientNumbers
    <3>3. resend # 0 => wsConn = "lost"
      BY <1>0, <2>1 DEF FirstKept, WriterPlaced
    <3> QED
      BY <2>1, <2>2, <3>1, <3>2, <3>3 DEF SentBefore
  <2>8. FirstKept'
    <3> SUFFICES ASSUME mode = "raw" PROVE FirstKept'
      BY <2>1 DEF user, FirstKept
    <3>1. resend = 0 /\ real_connected /\ (Handled > 0 => sent # <<>> \/ wsConn = "lost")
      BY <1>0, <2>1 DEF FirstKept
    <3>2. sent' # <<>> \/ wsConn' = "lost"
      BY <1>0, <2>1, <2>3 DEF ClientPlaces
    <3>3. \A i, j \in DOMAIN sent' : i < j => sent'[i] < sent'[j]
      <4> SUFFICES ASSUME NEW i \in DOMAIN sent', NEW j \in DOMAIN sent', i < j
                   PROVE  sent'[i] < sent'[j]
        OBVIOUS
      <4>1. i \in DOMAIN sent /\ sent'[i] = sent[i]
        <5>1. DOMAIN sent' = 1 .. Len(sent') /\ Len(sent') <= Len(sent) + 1 /\ Len(sent) \in Nat
          BY <1>0, <2>3 DEF ClientNumbers
        <5>2. i # Len(sent) + 1
          BY <5>1
        <5> QED
          BY <2>3, <5>2
      <4>2. CASE j \in DOMAIN sent /\ sent'[j] = sent[j]
        BY <1>0, <4>1, <4>2 DEF FirstKept
      <4>3. CASE sent'[j] = taken
        BY <2>2, <2>6, <4>1, <4>3
      <4> QED
        BY <2>3, <4>2, <4>3
    <3>4. sent' # <<>> => sent'[1] = 1
      <4>1. CASE sent = <<>> /\ wsConn = "open"
        <5>1. Handled = 0
          BY <1>0, <2>2, <3>1, <4>1
        <5>2. Len(sent') = 1 /\ 1 \in DOMAIN sent'
          BY <2>3, <4>1
        <5> QED
          BY <2>2, <2>3, <4>1, <5>1, <5>2
      <4>2. CASE sent # <<>>
        <5>1. 1 \in DOMAIN sent' /\ 1 \in DOMAIN sent /\ 1 # Len(sent) + 1
          BY <1>0, <2>3, <4>2 DEF ClientNumbers
        <5> QED
          BY <1>0, <2>3, <4>2, <5>1 DEF FirstKept
      <4> QED
        BY <2>3, <4>1, <4>2
    <3> QED
      BY <2>1, <3>1, <3>2, <3>3, <3>4 DEF user, FirstKept
  <2>9. SentStraight' /\ AllSent'
    <3>1. ~closeSent
      BY <1>0, <2>1 DEF ClosedLast
    <3>2. mode # "raw" => \A i \in DOMAIN sent' : sent'[i] = i
      BY <1>0, <2>2, <2>3 DEF SentStraight
    <3>3. mode # "raw" /\ wsConn = "open" => Len(sent') = taken
      BY <1>0, <2>2, <2>3 DEF SentStraight
    <3> QED
      BY <2>1, <2>2, <3>1, <3>2, <3>3 DEF user, SentStraight, AllSent
  <2> QED
    BY <2>4, <2>5, <2>7, <2>8, <2>9 DEF ClientInv
<1>9. CASE EndOfInput
  <2>1. /\ UNCHANGED <<user, wsConn, real_connected, taken, data, resend, sent>>
        /\ wpc = "read" /\ closed /\ taken = typed /\ wpc' = "poison"
        /\ closeSent' = (closeSent \/ wsConn = "open")
    BY <1>9 DEF EndOfInput, server
  <2>2. Handled' = Handled /\ Handled = taken
    BY <2>1 DEF Handled, InHand
  <2>3. ClientFlags'
    BY <1>0, <2>1, Zenon DEF user, ClientFlags
  <2>4. WarmFirst' /\ ClosedLast'
    BY <1>0, <2>1 DEF user, WarmFirst, ClosedLast
  <2>5. ClientPlaces' /\ ClientNumbers' /\ WriterPlaced'
    BY <1>0, <2>1 DEF user, ClientPlaces, ClientNumbers, WriterPlaced, InHand
  <2>6. SentBefore' /\ FirstKept' /\ SentStraight'
    BY <1>0, <2>1, <2>2 DEF user, SentBefore, FirstKept, SentStraight
  <2>7. AllSent'
    BY <1>0, <2>1, <2>2 DEF user, AllSent, SentStraight
  <2> QED
    BY <2>3, <2>4, <2>5, <2>6, <2>7 DEF ClientInv
<1> QED
  BY <1>1, <1>2, <1>3, <1>4, <1>5, <1>6, <1>7, <1>8, <1>9 DEF ClientNext, Writer

\* What the user or a local connection writes reaches the agent in order, and all of it
\* before the agent is told to close; of a pipe at least the first chunk, whenever the
\* agent's first output and the end of the input come.
THEOREM InputIsKept == ASSUME ClientAssumption PROVE ClientSpec => []InputKept
<1>1. ClientInv => InputKept
  <2> SUFFICES ASSUME ClientInv PROVE InputKept
    OBVIOUS
  <2>1. mode # "raw" => sent = [i \in DOMAIN sent |-> i]
    BY DEF ClientInv, ClientNumbers, SentStraight
  <2> QED
    BY <2>1 DEF ClientInv, FirstKept, AllSent, InputKept
<1> QED
  BY <1>1, ClientInits, ClientStep, PTL DEF ClientSpec
=============================================================================
