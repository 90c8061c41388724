-------------------------- MODULE ClipboardProofs ---------------------------
(***************************************************************************)
(* Theorems about ClipboardManager, for any clients, targets and number of *)
(* parts.                                                                  *)
(*                                                                         *)
(* What the manager takes an event for depends on what it has asked and on *)
(* what is before it in the queue.  Safe says how the queue, the clients'  *)
(* conversions, the properties and the list of what is saved belong        *)
(* together: one conversion at most can still be answered, that of the     *)
(* requestor (Conversions); a request to save is later than all of them    *)
(* (Saves); the list is as far as that conversion (Phase); and of a target *)
(* in parts the next part is the one that is on its way (Transfers).       *)
(***************************************************************************)
EXTENDS ClipboardManager, SequenceTheorems, TLAPS

-----------------------------------------------------------------------------
(* Small data is one part.                                                 *)
LEMMA WholeSmall ==
  ASSUME NEW t \in Target, t \notin Large, NEW when
  PROVE  Whole(t, when) = <<[of |-> when, n |-> 1]>>
BY DEF Whole

LEMMA PropertyTyped ==
  /\ Absent \in Property /\ Incr \in Property /\ Data(<<>>) \in Property
  /\ \A p \in Part : Data(<<p>>) \in Property
BY DEF Property, Absent, Incr, Data

LEMMA OneTyped == [of |-> 0, n |-> 1] \in Part
BY ClientsAssumption DEF Part, Time

(* The queue after an event is handled, or has come.                       *)
LEMMA TailTyped ==
  ASSUME events \in Seq(Notice), events # <<>>
  PROVE  Tail(events) \in Seq(Notice) /\ Head(events) \in Notice
BY HeadTailProperties

LEMMA AppendTyped ==
  ASSUME NEW q \in Seq(Notice), NEW e \in Notice
  PROVE  Append(q, e) \in Seq(Notice) /\ q \o <<e>> \in Seq(Notice) /\ q \o <<>> \in Seq(Notice)
BY AppendProperties, ConcatProperties

LEMMA EventTyped ==
  ASSUME NEW type \in {"Clear", "SaveTargets", "Destroyed", "Failed", "Targets", "Multiple",
                       "NewValue", "ManagerClear", "Request", "Deleted"},
         NEW from \in Client \cup {Manager, NoWindow}, NEW targets \in SUBSET Target,
         NEW when \in Time
  PROVE  Event(type, from, targets, when) \in Notice
BY DEF Event, Notice

-----------------------------------------------------------------------------
(* The types after what the manager's requests do.                         *)
LEMMA ConvertTyped ==
  ASSUME TypeOK, NEW what \in {"TARGETS", "MULTIPLE"}, NEW targets \in SUBSET Target,
         NEW when \in Time, NEW rest \in Seq(Notice), Convert(what, targets, when, rest)
  PROVE  asks' \in SUBSET Ask /\ events' \in Seq(Notice)
<1>1. asks' \in SUBSET Ask
  BY DEF TypeOK, Convert, Ask
<1>2. CASE owner \in Client
  BY <1>1, <1>2 DEF Convert
<1>3. CASE owner = NoWindow
  BY <1>1, <1>3, ClientsAssumption, AppendTyped, EventTyped DEF Convert
<1>4. CASE owner = Manager /\ what = "TARGETS"
  BY <1>1, <1>4, ClientsAssumption, AppendTyped, EventTyped DEF Convert
<1>5. CASE owner = Manager /\ what = "MULTIPLE"
  BY <1>1, <1>5, ClientsAssumption, AppendTyped, EventTyped DEF Convert
<1> QED BY <1>2, <1>3, <1>4, <1>5 DEF TypeOK

LEMMA DeleteTyped ==
  ASSUME TypeOK, NEW targets, Delete(targets)
  PROVE  props' \in [Target -> Property] /\ sending' \in SUBSET Sending
<1>1. props' \in [Target -> Property]
  BY PropertyTyped DEF TypeOK, Delete
<1>2. ASSUME NEW r \in sending' PROVE r \in Sending
  <2>1. PICK s \in sending :
          r = [s EXCEPT !.ready = @ \/ (s.target \in targets /\ props[s.target] # Absent)]
    BY <1>2 DEF Delete
  <2> DEFINE b == s.ready \/ (s.target \in targets /\ props[s.target] # Absent)
  <2>2. b \in BOOLEAN
    OBVIOUS
  <2>3. s \in Sending /\ r = [s EXCEPT !.ready = b]
    BY <2>1 DEF TypeOK
  <2> HIDE DEF b
  <2> QED BY <2>2, <2>3 DEF Sending
<1> QED BY <1>1, <1>2

LEMMA WatchTyped ==
  ASSUME TypeOK, NEW w, Watch(w) \/ StopWatching(w)
  PROVE  watched' \in [Client \cup {NoWindow} -> Nat]
BY ClientsAssumption DEF TypeOK, Watch, StopWatching

LEMMA NotifyTyped ==
  ASSUME TypeOK, NEW c, NEW when, NEW result \in {"saved", "failed"}, Notify(c, when, result)
  PROVE  status' \in [Client -> [is : {"none", "waiting", "saved", "failed"}, time : Time]]
BY DEF TypeOK, Notify

LEMMA NothingTyped == Nothing \in [Target -> Entry]
<1>1. <<>> \in Seq(Part)
  BY EmptySeq
<1> QED BY <1>1 DEF Nothing, None, Entry

LEMMA FreeTyped ==
  ASSUME TypeOK, FreeContents
  PROVE  contents' \in [Target -> Entry] /\ spoiled' \in SUBSET Target
BY NothingTyped DEF TypeOK, FreeContents

LEMMA SaveTargetsTyped ==
  ASSUME TypeOK, NEW targets \in SUBSET Target, NEW when \in Time, Tail(events) \in Seq(Notice),
         SaveTargetsOf(targets, when)
  PROVE  /\ contents' \in [Target -> Entry]
         /\ asks' \in SUBSET Ask /\ events' \in Seq(Notice)
<1>1. Pending \in Entry
  <2>1. <<>> \in Seq(Part)
    BY EmptySeq
  <2> QED BY <2>1 DEF Pending, Entry
<1>2. contents' \in [Target -> Entry]
  BY <1>1 DEF TypeOK, SaveTargetsOf
<1> QED BY <1>2, ConvertTyped DEF SaveTargetsOf

-----------------------------------------------------------------------------
(* The types after what clients do.                                        *)
LEMMA AcquireTyped ==
  ASSUME TypeOK, NEW c \in Client, Acquire(c), UNCHANGED mvars
  PROVE  TypeOK'
<1>1. now' \in Time
  BY ClientsAssumption DEF TypeOK, Acquire, Time
<1>2. Event("Clear", NoWindow, {}, now') \in Notice
  BY <1>1, EventTyped
<1>3. events' \in Seq(Notice)
  BY <1>2, AppendTyped DEF TypeOK, Acquire
<1>4. copied' \in [Client -> Time]
  BY <1>1 DEF TypeOK, Acquire
<1> QED BY <1>1, <1>3, <1>4 DEF TypeOK, Acquire, mvars

LEMMA SaveTyped ==
  ASSUME TypeOK, NEW c \in Client, NEW targets \in SUBSET Target, Save(c, targets),
         UNCHANGED mvars
  PROVE  TypeOK'
<1>1. Event("SaveTargets", c, targets, since) \in Notice
  BY EventTyped DEF TypeOK
<1>2. events' \in Seq(Notice)
  BY <1>1, AppendTyped DEF TypeOK, Save
<1>3. status' \in [Client -> [is : {"none", "waiting", "saved", "failed"}, time : Time]]
  BY DEF TypeOK, Save
<1> QED BY <1>2, <1>3 DEF TypeOK, Save, mvars

LEMMA ExitTyped ==
  ASSUME TypeOK, NEW c \in Client, Exit(c), UNCHANGED mvars
  PROVE  TypeOK'
<1>1. Event("Destroyed", c, {}, now) \in Notice
  BY EventTyped DEF TypeOK
<1>2. events' \in Seq(Notice)
  BY <1>1, AppendTyped DEF TypeOK, Exit
<1> QED BY <1>2 DEF TypeOK, Exit, mvars

LEMMA RefuseTyped ==
  ASSUME TypeOK, NEW a \in asks, Refuse(a), UNCHANGED mvars
  PROVE  TypeOK'
<1>1. Event("Failed", NoWindow, {}, a.time) \in Notice
  BY EventTyped DEF TypeOK, Ask
<1>2. events' \in Seq(Notice)
  BY <1>1, AppendTyped DEF TypeOK, Refuse
<1> QED BY <1>2 DEF TypeOK, Refuse, mvars

LEMMA AnswerTargetsTyped ==
  ASSUME TypeOK, NEW a \in asks, NEW targets \in SUBSET Target, AnswerTargets(a, targets),
         UNCHANGED mvars
  PROVE  TypeOK'
<1>1. Event("Targets", NoWindow, targets, a.time) \in Notice
  BY EventTyped DEF TypeOK, Ask
<1>2. events' \in Seq(Notice)
  BY <1>1, AppendTyped DEF TypeOK, AnswerTargets
<1> QED BY <1>2 DEF TypeOK, AnswerTargets, mvars

LEMMA AnswerMultipleTyped ==
  ASSUME TypeOK, NEW a \in asks, NEW targets \in SUBSET Target, AnswerMultiple(a, targets),
         UNCHANGED mvars
  PROVE  TypeOK'
<1> DEFINE when == copied[a.to]
<1>0. a \in Ask /\ when \in Time
  BY DEF TypeOK, Ask
<1>1. Event("Multiple", NoWindow, targets, a.time) \in Notice
  BY <1>0, EventTyped DEF Ask
<1>2. events' \in Seq(Notice)
  BY <1>1, AppendTyped DEF TypeOK, AnswerMultiple
<1>3. ASSUME NEW t \in Target, t \notin Large PROVE Data(Whole(t, when)) \in Property
  <2>1. [of |-> when, n |-> 1] \in Part
    BY <1>0, ClientsAssumption DEF Part
  <2> QED BY <1>3, <2>1, WholeSmall, PropertyTyped
<1>4. props' \in [Target -> Property]
  <2>1. props' = [t \in Target |-> IF t \notin targets THEN props[t]
                    ELSE IF t \in Large THEN Incr ELSE Data(Whole(t, when))]
    BY DEF AnswerMultiple
  <2> HIDE DEF when
  <2> QED BY <1>3, <2>1, PropertyTyped DEF TypeOK
<1>5. sending' \in SUBSET Sending
  <2>1. 1 \in 1..(Parts + 1)
    BY ClientsAssumption
  <2>2. \A t \in targets \cap Large :
          [from |-> a.to, target |-> t, of |-> when, next |-> 1, ready |-> FALSE] \in Sending
    BY <1>0, <2>1 DEF Sending, Ask
  <2>3. sending' = sending \cup
          {[from |-> a.to, target |-> t, of |-> when, next |-> 1, ready |-> FALSE] :
             t \in targets \cap Large}
    BY DEF AnswerMultiple
  <2> HIDE DEF when
  <2> QED BY <2>2, <2>3 DEF TypeOK
<1>6. offered' \in [Time -> SUBSET Target]
  BY <1>0 DEF TypeOK, AnswerMultiple
<1> QED BY <1>2, <1>4, <1>5, <1>6 DEF TypeOK, AnswerMultiple, mvars

LEMMA SendPartTyped ==
  ASSUME TypeOK, NEW s \in sending, SendPart(s), UNCHANGED mvars
  PROVE  TypeOK'
<1>0. s \in Sending /\ s.target \in Target /\ s.next \in Int /\ Parts \in Nat
  BY ClientsAssumption DEF TypeOK, Sending
<1>1. Event("NewValue", NoWindow, {s.target}, s.of) \in Notice
  BY <1>0, EventTyped DEF Sending
<1>2. events' \in Seq(Notice)
  BY <1>1, AppendTyped DEF TypeOK, SendPart
<1>3. CASE s.next <= Parts
  <2>1. [of |-> s.of, n |-> s.next] \in Part
    BY <1>0, <1>3 DEF Part, Sending
  <2>2. props' \in [Target -> Property]
    BY <1>3, <2>1, PropertyTyped DEF TypeOK, SendPart
  <2>3. s.next + 1 \in 1..(Parts + 1)
    BY <1>0, <1>3 DEF Sending
  <2>4. [s EXCEPT !.next = @ + 1, !.ready = FALSE] \in Sending
    BY <1>0, <2>3 DEF Sending
  <2>5. sending' \in SUBSET Sending
    BY <1>3, <2>4 DEF TypeOK, SendPart
  <2> QED BY <1>2, <2>2, <2>5 DEF TypeOK, SendPart, mvars
<1>4. CASE ~(s.next <= Parts)
  <2>1. props' \in [Target -> Property]
    BY <1>4, PropertyTyped DEF TypeOK, SendPart
  <2>2. sending' \in SUBSET Sending
    BY <1>4 DEF TypeOK, SendPart
  <2> QED BY <1>2, <2>1, <2>2 DEF TypeOK, SendPart, mvars
<1> QED BY <1>3, <1>4

LEMMA LoseManagerTyped ==
  ASSUME TypeOK, LoseManager, UNCHANGED mvars
  PROVE  TypeOK'
<1>1. Event("ManagerClear", NoWindow, {}, now) \in Notice
  BY EventTyped DEF TypeOK
<1>2. events' \in Seq(Notice)
  BY <1>1, AppendTyped DEF TypeOK, LoseManager
<1> QED BY <1>2 DEF TypeOK, LoseManager, mvars

LEMMA RequestTyped ==
  ASSUME TypeOK, NEW c \in Client, NEW targets \in SUBSET Target, Request(c, targets),
         UNCHANGED mvars
  PROVE  TypeOK'
<1>1. Event("Request", c, targets, since) \in Notice
  BY EventTyped DEF TypeOK
<1>2. events' \in Seq(Notice)
  BY <1>1, AppendTyped DEF TypeOK, Request
<1> QED BY <1>2 DEF TypeOK, Request, mvars

LEMMA ReadTyped ==
  ASSUME TypeOK, NEW g \in given, Read(g), UNCHANGED mvars
  PROVE  TypeOK'
<1>1. Event("Deleted", g.to, {g.target}, now) \in Notice
  BY EventTyped DEF TypeOK
<1>2. events' \in Seq(Notice)
  BY <1>1, AppendTyped DEF TypeOK, Read
<1> QED BY <1>2 DEF TypeOK, Read, mvars

-----------------------------------------------------------------------------
(* The types after an event is handled.                                    *)
LEMMA HeadTyped ==
  ASSUME TypeOK, NEW type, Handles(type)
  PROVE  /\ Tail(events) \in Seq(Notice)
         /\ Head(events) \in Notice
         /\ Head(events).from \in Client \cup {Manager, NoWindow}
         /\ Head(events).targets \in SUBSET Target
         /\ Head(events).time \in Time
<1>1. Tail(events) \in Seq(Notice) /\ Head(events) \in Notice
  BY TailTyped DEF TypeOK, Handles
<1> QED BY <1>1 DEF Notice

LEMMA ConvertClipboardManagerTyped ==
  ASSUME TypeOK, ConvertClipboardManager
  PROVE  TypeOK'
<1> DEFINE e == Head(events)
<1>1. /\ Tail(events) \in Seq(Notice) /\ e.from \in Client \cup {Manager, NoWindow}
      /\ e.targets \in SUBSET Target /\ e.time \in Time
  BY HeadTyped DEF ConvertClipboardManager
<1>2. CASE RefuseToSave(e)
  <2>1. status' \in [Client -> [is : {"none", "waiting", "saved", "failed"}, time : Time]]
    BY <1>2, NotifyTyped DEF RefuseToSave
  <2> QED BY <1>1, <1>2, <2>1 DEF TypeOK, ConvertClipboardManager, RefuseToSave
<1>3. CASE DropRequest(e)
  <2>1. watched' \in [Client \cup {NoWindow} -> Nat]
    BY <1>3, WatchTyped DEF DropRequest
  <2> QED BY <1>1, <1>3, <2>1 DEF TypeOK, ConvertClipboardManager, DropRequest
<1>4. CASE AcceptRequest(e)
  <2>1. watched' \in [Client \cup {NoWindow} -> Nat]
    BY <1>4, WatchTyped DEF AcceptRequest
  <2>2. requestor' \in Client /\ time' \in Time
    BY <1>1, <1>4 DEF TypeOK, AcceptRequest
  <2>3. CASE e.targets = {}
    <3>1. Convert("TARGETS", {}, e.time, Tail(events)) /\ UNCHANGED contents
      BY <1>4, <2>3 DEF AcceptRequest
    <3>2. asks' \in SUBSET Ask /\ events' \in Seq(Notice)
      BY <1>1, <3>1, ConvertTyped
    <3> QED BY <1>4, <2>1, <2>2, <3>1, <3>2 DEF TypeOK, ConvertClipboardManager, AcceptRequest
  <2>4. CASE e.targets # {}
    <3>1. SaveTargetsOf(e.targets, e.time)
      BY <1>4, <2>4 DEF AcceptRequest
    <3>2. /\ contents' \in [Target -> Entry]
          /\ asks' \in SUBSET Ask /\ events' \in Seq(Notice)
      BY <1>1, <3>1, SaveTargetsTyped
    <3> QED BY <1>4, <2>1, <2>2, <3>2 DEF TypeOK, ConvertClipboardManager, AcceptRequest
  <2> QED BY <2>3, <2>4
<1> QED BY <1>2, <1>3, <1>4 DEF ConvertClipboardManager

LEMMA TargetsReceivedTyped ==
  ASSUME TypeOK, TargetsReceived
  PROVE  TypeOK'
<1>1. Tail(events) \in Seq(Notice) /\ Head(events).targets \in SUBSET Target
  BY HeadTyped DEF TargetsReceived
<1>2. /\ contents' \in [Target -> Entry]
      /\ asks' \in SUBSET Ask /\ events' \in Seq(Notice)
  BY <1>1, SaveTargetsTyped DEF TypeOK, TargetsReceived
<1> QED BY <1>2 DEF TypeOK, TargetsReceived

(* What the owner made of a target is none, or data that has come or will. *)
LEMMA GetPropertyTyped ==
  ASSUME TypeOK, NEW t \in Target
  PROVE  /\ GetProperty(t) \in Entry
         /\ GetProperty(t) \in {None, [type |-> "incr", data |-> <<>>],
                                [type |-> "done", data |-> props[t].part]}
<1>1. props[t] \in Property
  BY DEF TypeOK
<1>2. props[t].type \in {"absent", "incr", "data"}
  BY <1>1 DEF Property
<1>3. props[t].part \in Seq(Part)
  <2>1. <<>> \in Seq(Part)
    BY EmptySeq
  <2>2. \A p \in Part : <<p>> \in Seq(Part)
    OBVIOUS
  <2>3. props[t].part = <<>> \/ \E p \in Part : props[t].part = <<p>>
    BY <1>1 DEF Property
  <2> QED BY <2>1, <2>2, <2>3
<1>4. <<>> \in Seq(Part)
  BY EmptySeq
<1>5. GetProperty(t) \in {None, [type |-> "incr", data |-> <<>>],
                          [type |-> "done", data |-> props[t].part]}
  BY <1>2 DEF GetProperty
<1>6. None \in Entry /\ [type |-> "incr", data |-> <<>>] \in Entry
      /\ [type |-> "done", data |-> props[t].part] \in Entry
  BY <1>3, <1>4 DEF Entry, None
<1> QED BY <1>5, <1>6

LEMMA TouchTyped ==
  ASSUME NEW w, TypeOK, Touch(w) \/ UNCHANGED errors
  PROVE  errors' \in {"fatal", "trapped", "killed"}
BY Zenon DEF TypeOK, Touch

LEMMA MultipleReceivedTyped ==
  ASSUME TypeOK, MultipleReceived
  PROVE  TypeOK'
<1>1. Tail(events) \in Seq(Notice) /\ Head(events).time \in Time
  BY HeadTyped DEF MultipleReceived
<1>2. contents' \in [Target -> Entry]
  BY GetPropertyTyped DEF MultipleReceived
<1>3. props' \in [Target -> Property] /\ sending' \in SUBSET Sending
  BY DeleteTyped DEF MultipleReceived
<1>4. owner' \in Client \cup {Manager, NoWindow} /\ since' \in Time
  BY <1>1 DEF TypeOK, MultipleReceived, SetOwner
<1>5. /\ status' \in [Client -> [is : {"none", "waiting", "saved", "failed"}, time : Time]]
      /\ watched' \in [Client \cup {NoWindow} -> Nat]
      /\ requestor' \in Client \cup {NoWindow}
  <2>1. CASE Incoming(contents')
    BY <2>1 DEF TypeOK, MultipleReceived
  <2>2. CASE ~Incoming(contents')
    BY <2>2, NotifyTyped, WatchTyped DEF MultipleReceived, Finish
  <2> QED BY <2>1, <2>2
<1>6. errors' \in {"fatal", "trapped", "killed"}
  BY TouchTyped DEF MultipleReceived
<1> QED BY <1>1, <1>2, <1>3, <1>4, <1>5, <1>6 DEF TypeOK, MultipleReceived

LEMMA ConversionFailedTyped ==
  ASSUME TypeOK, ConversionFailed
  PROVE  TypeOK'
<1>1. Tail(events) \in Seq(Notice)
  BY HeadTyped DEF ConversionFailed
<1>2. /\ status' \in [Client -> [is : {"none", "waiting", "saved", "failed"}, time : Time]]
      /\ watched' \in [Client \cup {NoWindow} -> Nat]
  BY NotifyTyped, WatchTyped DEF ConversionFailed
<1> QED BY <1>1, <1>2 DEF TypeOK, ConversionFailed

LEMMA EndOfDataTyped ==
  ASSUME TypeOK, NEW t \in Target, EndOfData(t)
  PROVE  /\ contents' \in [Target -> Entry]
         /\ status' \in [Client -> [is : {"none", "waiting", "saved", "failed"}, time : Time]]
         /\ requestor' \in Client \cup {NoWindow}
<1>1. contents' \in [Target -> Entry]
  BY DEF TypeOK, EndOfData, Entry
<1>2. CASE Incoming(contents')
  BY <1>1, <1>2 DEF TypeOK, EndOfData
<1>3. CASE ~Incoming(contents')
  BY <1>1, <1>3, NotifyTyped DEF EndOfData, Finish
<1> QED BY <1>2, <1>3

LEMMA MoreDataTyped ==
  ASSUME TypeOK, NEW t \in Target, MoreData(t)
  PROVE  contents' \in [Target -> Entry]
<1> DEFINE part == IF props[t] = Incr THEN <<[of |-> 0, n |-> 1]>> ELSE props[t].part
<1>1. part \in Seq(Part)
  <2>1. <<>> \in Seq(Part)
    BY EmptySeq
  <2>2. \A p \in Part : <<p>> \in Seq(Part)
    OBVIOUS
  <2>3. props[t].part = <<>> \/ \E p \in Part : props[t].part = <<p>>
    BY DEF TypeOK, Property
  <2> QED BY <2>1, <2>2, <2>3, OneTyped
<1>2. contents[t] \in Entry /\ contents[t].data \in Seq(Part)
  BY DEF TypeOK, Entry
<1>3. contents[t].data \o part \in Seq(Part)
  BY <1>1, <1>2, ConcatProperties
<1>4. contents' = [contents EXCEPT ![t].data = @ \o part]
  BY DEF MoreData
<1> HIDE DEF part
<1> QED BY <1>2, <1>3, <1>4 DEF TypeOK, Entry

LEMMA ReceiveIncrementallyTyped ==
  ASSUME TypeOK, ReceiveIncrementally
  PROVE  TypeOK'
<1>1. Tail(events) \in Seq(Notice) /\ Head(events).targets \in SUBSET Target
  BY HeadTyped DEF ReceiveIncrementally
<1>2. PICK t \in Target :
        IF contents[t].type = "incr"
          THEN Delete({t}) /\ (EndOfData(t) \/ MoreData(t))
          ELSE UNCHANGED <<props, sending, contents, requestor, status>>
  BY <1>1 DEF ReceiveIncrementally
<1>3. CASE contents[t].type # "incr"
  BY <1>1, <1>2, <1>3 DEF TypeOK, ReceiveIncrementally
<1>4. CASE contents[t].type = "incr"
  <2>1. props' \in [Target -> Property] /\ sending' \in SUBSET Sending
    BY <1>2, <1>4, DeleteTyped
  <2>2. CASE EndOfData(t)
    BY <1>1, <2>1, <2>2, EndOfDataTyped DEF TypeOK, ReceiveIncrementally
  <2>3. CASE MoreData(t)
    <3>1. contents' \in [Target -> Entry] /\ UNCHANGED <<requestor, status>>
      BY <2>3, MoreDataTyped DEF MoreData
    <3> QED BY <1>1, <2>1, <3>1 DEF TypeOK, ReceiveIncrementally
  <2> QED BY <1>2, <1>4, <2>2, <2>3
<1> QED BY <1>3, <1>4

LEMMA RequestorDestroyedTyped ==
  ASSUME TypeOK, RequestorDestroyed
  PROVE  TypeOK'
<1>1. Tail(events) \in Seq(Notice)
  BY HeadTyped DEF RequestorDestroyed
<1>2. CASE Head(events).from = requestor
  BY <1>1, <1>2, FreeTyped, WatchTyped DEF TypeOK, RequestorDestroyed
<1>3. CASE Head(events).from # requestor
  BY <1>1, <1>3 DEF TypeOK, RequestorDestroyed
<1> QED BY <1>2, <1>3

LEMMA ClipboardLostTyped ==
  ASSUME TypeOK, ClipboardLost
  PROVE  TypeOK'
<1>1. Tail(events) \in Seq(Notice)
  BY HeadTyped DEF ClipboardLost
<1> QED BY <1>1, FreeTyped, WatchTyped DEF TypeOK, ClipboardLost

LEMMA ManagerLostTyped ==
  ASSUME TypeOK, ManagerLost
  PROVE  TypeOK'
<1>1. Tail(events) \in Seq(Notice)
  BY HeadTyped DEF ManagerLost
<1>2. Event("Clear", NoWindow, {}, time) \in Notice
  BY EventTyped DEF TypeOK
<1>3. events' \in Seq(Notice)
  BY <1>1, <1>2, AppendTyped DEF ManagerLost
<1>4. owner' \in Client \cup {Manager, NoWindow} /\ since' \in Time
  BY DEF TypeOK, ManagerLost, SetOwner
<1> QED BY <1>3, <1>4, FreeTyped DEF TypeOK, ManagerLost

LEMMA FewParts ==
  ASSUME NEW d \in Seq(Part), ~(Len(d) > 1)
  PROVE  d = <<>> \/ \E p \in Part : d = <<p>>
<1> SUFFICES ASSUME d # <<>> PROVE \E p \in Part : d = <<p>>
  OBVIOUS
<1> DEFINE k == Len(d)
<1>1. k \in Nat \ {0} /\ ~(k > 1)
  BY EmptySeq
<1> HIDE DEF k
<1>2. k = 1
  BY <1>1
<1> USE DEF k
<1>3. d[1] \in Part
  BY <1>2, ElementOfSeq
<1>4. d = <<d[1]>>
  BY <1>2
<1> QED BY <1>3, <1>4

LEMMA ConvertClipboardTyped ==
  ASSUME TypeOK, ConvertClipboard
  PROVE  TypeOK'
<1> DEFINE e == Head(events)
           done == {t \in e.targets : Received(t)}
           long == {t \in done : Len(contents[t].data) > 1}
           Copy(t) == [target |-> t, data |-> contents[t].data, time |-> time]
<1>1. /\ Tail(events) \in Seq(Notice) /\ e.from \in Client \cup {Manager, NoWindow}
      /\ e.targets \in SUBSET Target /\ e.time \in Time
  BY HeadTyped DEF ConvertClipboard
<1>2. props' \in [Target -> Property]
  <2>1. ASSUME NEW t \in done \ long PROVE Data(contents[t].data) \in Property
    <3>1. contents[t].data \in Seq(Part) /\ ~(Len(contents[t].data) > 1)
      BY <1>1 DEF TypeOK, Entry
    <3> QED BY <3>1, FewParts, PropertyTyped
  <2>2. CASE e.from = Manager
    <3>1. props' = [t \in Target |-> IF t \in done \ long THEN Data(contents[t].data)
                                     ELSE props[t]]
      BY <2>2 DEF ConvertClipboard
    <3> HIDE DEF done, long
    <3> QED BY <2>1, <3>1 DEF TypeOK
  <2>3. CASE e.from # Manager
    BY <2>3 DEF TypeOK, ConvertClipboard
  <2> QED BY <2>2, <2>3
<1>3. events' \in Seq(Notice)
  <2>1. /\ Event("Failed", NoWindow, {}, e.time) \in Notice
        /\ Event("Multiple", NoWindow, e.targets, e.time) \in Notice
    BY <1>1, EventTyped
  <2>2. OwnAnswer(e) \in {<<>>, <<Event("Failed", NoWindow, {}, e.time)>>,
                          <<Event("Multiple", NoWindow, e.targets, e.time)>>}
    BY DEF OwnAnswer
  <2>3. events' = Tail(events) \o OwnAnswer(e)
    BY DEF ConvertClipboard
  <2> HIDE DEF e
  <2> QED BY <1>1, <2>1, <2>2, <2>3, AppendTyped
<1>4. given' \in SUBSET [to : Client, target : Target]
  <2>1. given' = given \cup {[to |-> e.from, target |-> t] : t \in {u \in long : e.from \in alive}}
    BY DEF ConvertClipboard
  <2>2. \A t \in long : t \in Target
    BY <1>1
  <2> HIDE DEF e, long
  <2> QED BY <2>1, <2>2 DEF TypeOK
<1>5. conversions' \in SUBSET Conversion
  <2>1. conversions' = conversions \cup
          {[to |-> e.from, sent |-> 0, what |-> Copy(t)] : t \in long}
    BY DEF ConvertClipboard
  <2>2. \A t \in long : Copy(t) \in Served
    <3>1. \A t \in long : t \in Target
      BY <1>1
    <3> HIDE DEF long
    <3>2. \A t \in long : contents[t].data \in Seq(Part) /\ time \in Time
      BY <3>1 DEF TypeOK, Entry
    <3> QED BY <3>1, <3>2 DEF Served
  <2> HIDE DEF e, long, Copy
  <2> QED BY <1>1, <2>1, <2>2 DEF TypeOK, Conversion
<1>6. listening' \in SUBSET Client
  BY DEF TypeOK, ConvertClipboard
<1>7. errors' \in {"fatal", "trapped", "killed"}
  <2>1. Touch(e.from) \/ UNCHANGED errors
    BY Zenon DEF ConvertClipboard
  <2> QED BY <2>1, TouchTyped
<1> QED BY <1>2, <1>3, <1>4, <1>5, <1>6, <1>7 DEF TypeOK, ConvertClipboard

LEMMA SendIncrementallyTyped ==
  ASSUME TypeOK, SendIncrementally
  PROVE  TypeOK'
<1>1. Tail(events) \in Seq(Notice)
  BY HeadTyped DEF SendIncrementally
<1>2. CASE UNCHANGED <<given, conversions, errors>>
  BY <1>1, <1>2 DEF TypeOK, SendIncrementally
<1>3. ASSUME NEW c \in conversions, SendNext(c)
      PROVE  TypeOK'
  <2>0. c \in Conversion /\ c.what.target \in Target
    BY DEF TypeOK, Conversion, Served
  <2>1. given' \in SUBSET [to : Client, target : Target]
    BY <1>3, <2>0 DEF TypeOK, SendNext
  <2>2. conversions' \in SUBSET Conversion
    <3>1. CASE c.sent < Len(c.what.data)
      <4>1. [c EXCEPT !.sent = @ + 1] \in Conversion
        BY <2>0 DEF Conversion
      <4> QED BY <1>3, <3>1, <4>1 DEF TypeOK, SendNext
    <3>2. CASE ~(c.sent < Len(c.what.data))
      BY <1>3, <3>2 DEF TypeOK, SendNext
    <3> QED BY <3>1, <3>2
  <2>3. errors' \in {"fatal", "trapped", "killed"}
    BY <1>3, TouchTyped DEF SendNext
  <2> QED BY <1>1, <2>1, <2>2, <2>3 DEF TypeOK, SendIncrementally
<1> QED BY <1>2, <1>3 DEF SendIncrementally

LEMMA TypeOKInit == Init => TypeOK
<1> SUFFICES ASSUME Init PROVE TypeOK
  OBVIOUS
<1>1. 0 \in Time
  BY ClientsAssumption DEF Time
<1>2. /\ owner \in Client \cup {Manager, NoWindow} /\ since \in Time /\ now \in Time
      /\ time \in Time /\ requestor \in Client \cup {NoWindow} /\ managing \in BOOLEAN
  BY <1>1 DEF Init
<1>3. /\ alive \in SUBSET Client /\ listening \in SUBSET Client /\ asks \in SUBSET Ask
      /\ sending \in SUBSET Sending /\ given \in SUBSET [to : Client, target : Target]
      /\ spoiled \in SUBSET Target /\ conversions \in SUBSET Conversion
  BY DEF Init
<1>4. /\ copied \in [Client -> Time] /\ props \in [Target -> Property]
      /\ watched \in [Client \cup {NoWindow} -> Nat]
      /\ status \in [Client -> [is : {"none", "waiting", "saved", "failed"}, time : Time]]
      /\ offered \in [Time -> SUBSET Target]
  BY <1>1, PropertyTyped DEF Init
<1>5. contents \in [Target -> Entry]
  BY NothingTyped DEF Init
<1>6. events \in Seq(Notice)
  BY EmptySeq DEF Init
<1>7. errors \in {"fatal", "trapped", "killed"}
  BY DEF Init
<1> QED BY <1>2, <1>3, <1>4, <1>5, <1>6, <1>7 DEF TypeOK

LEMMA TypeOKNext == TypeOK /\ [Next]_vars => TypeOK'
<1> SUFFICES ASSUME TypeOK, [Next]_vars PROVE TypeOK'
  OBVIOUS
<1>1. CASE Clients /\ UNCHANGED mvars
  <2>1. ASSUME NEW c \in Client, Acquire(c) \/ Exit(c) PROVE TypeOK'
    BY <1>1, <2>1, AcquireTyped, ExitTyped
  <2>2. ASSUME NEW c \in Client, NEW targets \in SUBSET Target,
               Save(c, targets) \/ Request(c, targets)
        PROVE  TypeOK'
    BY <1>1, <2>2, SaveTyped, RequestTyped
  <2>3. ASSUME NEW g \in given, Read(g) PROVE TypeOK'
    BY <1>1, <2>3, ReadTyped
  <2> QED BY <1>1, <2>1, <2>2, <2>3, LoseManagerTyped DEF Clients
<1>2. CASE Answers /\ UNCHANGED mvars
  BY <1>2, RefuseTyped, AnswerTargetsTyped, AnswerMultipleTyped DEF Answers
<1>3. CASE Sends /\ UNCHANGED mvars
  BY <1>3, SendPartTyped DEF Sends
<1>4. CASE ProcessEvent
  BY <1>4, ConvertClipboardManagerTyped, TargetsReceivedTyped, MultipleReceivedTyped,
     ConversionFailedTyped, ReceiveIncrementallyTyped, RequestorDestroyedTyped,
     ClipboardLostTyped, ManagerLostTyped, ConvertClipboardTyped, SendIncrementallyTyped
     DEF ProcessEvent
<1>5. CASE UNCHANGED vars
  BY <1>5 DEF TypeOK, vars, cvars, mvars
<1> QED BY <1>1, <1>2, <1>3, <1>4, <1>5 DEF Next

(* At all times the owner, the times, the conversions, the properties and  *)
(* the filters are ones that the display has, whichever clients and times  *)
(* there are; no filter is taken off that is not there.                    *)
THEOREM TypeOKAlways == Spec => []TypeOK
BY TypeOKInit, TypeOKNext, PTL DEF Spec

-----------------------------------------------------------------------------
(* The events that a queue holds, and those of which one is before another. *)
In(q)    == {q[i] : i \in DOMAIN q}
Pairs(q) == {<<q[p[1]], q[p[2]]>> : p \in {r \in (DOMAIN q) \X (DOMAIN q) : r[1] < r[2]}}

LEMMA PairsMeaning ==
  ASSUME NEW q, NEW e, NEW f
  PROVE  <<e, f>> \in Pairs(q) <=> \E i, j \in DOMAIN q : i < j /\ e = q[i] /\ f = q[j]
<1>1. ASSUME <<e, f>> \in Pairs(q)
      PROVE  \E i, j \in DOMAIN q : i < j /\ e = q[i] /\ f = q[j]
  <2>1. PICK p \in {r \in (DOMAIN q) \X (DOMAIN q) : r[1] < r[2]} : <<e, f>> = <<q[p[1]], q[p[2]]>>
    BY <1>1 DEF Pairs
  <2> QED BY <2>1
<1>2. ASSUME NEW i \in DOMAIN q, NEW j \in DOMAIN q, i < j
      PROVE  <<q[i], q[j]>> \in Pairs(q)
  <2>1. <<i, j>> \in {r \in (DOMAIN q) \X (DOMAIN q) : r[1] < r[2]}
    BY <1>2
  <2> QED BY <2>1 DEF Pairs
<1> QED BY <1>1, <1>2

LEMMA AppendQueue ==
  ASSUME NEW q \in Seq(Notice), NEW e \in Notice
  PROVE  /\ In(Append(q, e)) = In(q) \cup {e}
         /\ \A f, g : <<f, g>> \in Pairs(Append(q, e)) <=>
                        <<f, g>> \in Pairs(q) \/ (f \in In(q) /\ g = e)
<1> DEFINE n == Len(q)
           r == Append(q, e)
<1>1. /\ n \in Nat /\ DOMAIN q = 1..n /\ DOMAIN r = 1..(n + 1)
      /\ \A i \in 1..n : r[i] = q[i]
      /\ r[n + 1] = e
  BY AppendProperties, LenProperties
<1> HIDE DEF n, r
<1>2. In(r) = In(q) \cup {e}
  <2>1. \A x : x \in In(r) <=> \E i \in 1..(n + 1) : x = r[i]
    BY <1>1 DEF In
  <2>2. \A x : x \in In(q) <=> \E i \in 1..n : x = q[i]
    BY <1>1 DEF In
  <2>3. \A x : x \in In(r) <=> x \in In(q) \/ x = e
    BY <1>1, <2>1, <2>2
  <2> QED BY <2>3
<1>3. ASSUME NEW f, NEW g
      PROVE  <<f, g>> \in Pairs(r) <=> <<f, g>> \in Pairs(q) \/ (f \in In(q) /\ g = e)
  <2>1. <<f, g>> \in Pairs(r) <=> \E i, j \in 1..(n + 1) : i < j /\ f = r[i] /\ g = r[j]
    BY <1>1, PairsMeaning
  <2>2. <<f, g>> \in Pairs(q) <=> \E i, j \in 1..n : i < j /\ f = q[i] /\ g = q[j]
    BY <1>1, PairsMeaning
  <2>3. f \in In(q) <=> \E i \in 1..n : f = q[i]
    BY <1>1 DEF In
  <2>4. ASSUME NEW i \in 1..(n + 1), NEW j \in 1..(n + 1), i < j, f = r[i], g = r[j]
        PROVE  <<f, g>> \in Pairs(q) \/ (f \in In(q) /\ g = e)
    <3>1. i \in 1..n /\ f = q[i]
      BY <1>1, <2>4
    <3>2. CASE j = n + 1
      BY <1>1, <2>3, <2>4, <3>1, <3>2
    <3>3. CASE j # n + 1
      BY <1>1, <2>2, <2>4, <3>1, <3>3
    <3> QED BY <3>2, <3>3
  <2>5. ASSUME <<f, g>> \in Pairs(q) PROVE <<f, g>> \in Pairs(r)
    BY <1>1, <2>1, <2>2, <2>5
  <2>6. ASSUME f \in In(q), g = e PROVE <<f, g>> \in Pairs(r)
    BY <1>1, <2>1, <2>3, <2>6
  <2> QED BY <2>1, <2>4, <2>5, <2>6
<1> QED BY <1>2, <1>3 DEF r

LEMMA TailQueue ==
  ASSUME NEW q \in Seq(Notice), q # <<>>
  PROVE  /\ In(q) = {Head(q)} \cup In(Tail(q))
         /\ \A f, g : <<f, g>> \in Pairs(q) <=>
                        <<f, g>> \in Pairs(Tail(q)) \/ (f = Head(q) /\ g \in In(Tail(q)))
<1> DEFINE n == Len(q)
           r == Tail(q)
           h == Head(q)
<1>1. /\ n \in Nat \ {0} /\ DOMAIN q = 1..n /\ DOMAIN r = 1..(n - 1)
      /\ \A i \in 1..(n - 1) : r[i] = q[i + 1]
      /\ h = q[1]
  BY HeadTailProperties, LenProperties, EmptySeq
<1> HIDE DEF n, r, h
<1>0. DOMAIN q = 1..n /\ DOMAIN r = 1..(n - 1)
  BY <1>1
<1>2. /\ \A x : x \in In(q) <=> \E i \in 1..n : x = q[i]
      /\ \A x : x \in In(r) <=> \E i \in 1..(n - 1) : x = r[i]
  BY <1>1 DEF In
<1>3. \A i \in 1..n : i = 1 \/ (i - 1 \in 1..(n - 1) /\ q[i] = r[i - 1])
  BY <1>1
<1>4. \A i \in 1..(n - 1) : i + 1 \in 1..n /\ q[i + 1] = r[i]
  BY <1>1
<1>5. In(q) = {h} \cup In(r)
  <2>1. \A x : x \in In(q) <=> x = h \/ x \in In(r)
    BY <1>1, <1>2, <1>3, <1>4
  <2> QED BY <2>1
<1>6. ASSUME NEW f, NEW g
      PROVE  <<f, g>> \in Pairs(q) <=> <<f, g>> \in Pairs(r) \/ (f = h /\ g \in In(r))
  <2>1. <<f, g>> \in Pairs(q) <=> \E i, j \in DOMAIN q : i < j /\ f = q[i] /\ g = q[j]
    BY PairsMeaning
  <2>2. <<f, g>> \in Pairs(r) <=> \E i, j \in DOMAIN r : i < j /\ f = r[i] /\ g = r[j]
    BY PairsMeaning
  <2>3. <<f, g>> \in Pairs(q) <=> \E i, j \in 1..n : i < j /\ f = q[i] /\ g = q[j]
    BY <1>0, <2>1
  <2>4. <<f, g>> \in Pairs(r) <=> \E i, j \in 1..(n - 1) : i < j /\ f = r[i] /\ g = r[j]
    BY <1>0, <2>2
  <2>5. ASSUME NEW i \in 1..n, NEW j \in 1..n, i < j, f = q[i], g = q[j]
        PROVE  <<f, g>> \in Pairs(r) \/ (f = h /\ g \in In(r))
    <3>1. j - 1 \in 1..(n - 1) /\ g = r[j - 1]
      BY <1>1, <1>3, <2>5
    <3>2. CASE i = 1
      BY <1>1, <1>2, <2>5, <3>1, <3>2
    <3>3. CASE i # 1
      <4>1. i - 1 \in 1..(n - 1) /\ f = r[i - 1] /\ i - 1 < j - 1
        BY <1>1, <1>3, <2>5, <3>3
      <4> QED BY <2>4, <3>1, <4>1
    <3> QED BY <3>2, <3>3
  <2>6. ASSUME <<f, g>> \in Pairs(r) PROVE <<f, g>> \in Pairs(q)
    <3>1. PICK i \in 1..(n - 1), j \in 1..(n - 1) : i < j /\ f = r[i] /\ g = r[j]
      BY <2>4, <2>6
    <3>2. i + 1 \in 1..n /\ j + 1 \in 1..n /\ i + 1 < j + 1 /\ f = q[i + 1] /\ g = q[j + 1]
      BY <1>1, <1>4, <3>1
    <3> QED BY <2>3, <3>2
  <2>7. ASSUME f = h, g \in In(r) PROVE <<f, g>> \in Pairs(q)
    <3>1. PICK j \in 1..(n - 1) : g = r[j]
      BY <1>2, <2>7
    <3>2. 1 \in 1..n /\ j + 1 \in 1..n /\ 1 < j + 1 /\ f = q[1] /\ g = q[j + 1]
      BY <1>1, <1>4, <2>7, <3>1
    <3> QED BY <2>3, <3>2
  <2> QED BY <2>3, <2>5, <2>6, <2>7
<1> QED BY <1>5, <1>6 DEF r, h

-----------------------------------------------------------------------------
(* What holds as long as no failure was taken for that of another          *)
(* conversion.                                                             *)

Comes(type) == \E e \in In(events) : e.type = type

(* An answer that the manager has yet to see, or one that it will get: a   *)
(* client that has copied since refuses.  A failure ends a conversion too. *)
IsAnswer(e)  == e.type \in {"Targets", "Multiple"}
IsOutcome(e) == e.type \in {"Targets", "Multiple", "Failed"}
LiveAsk(a)   == copied[a.to] <= a.time
Live         == (\E a \in asks : LiveAsk(a)) \/ (\E e \in In(events) : IsAnswer(e))

(* No other client's clipboard will be saved.                              *)
Closed == ~managing /\ ~Comes("SaveTargets")

(* A time at which a client copied, and has asked to save it, or did later. *)
Taken(c, when) ==
  0 < when /\ when <= status[c].time /\ \A d \in Client \ {c} : copied[d] # when

(* Times go on, and each is that of one client.                            *)
Clock ==
  /\ since <= now
  /\ \A c \in Client :
       /\ copied[c] <= now /\ status[c].time <= copied[c] /\ status[c].time <= since
       /\ status[c].time > 0 => Taken(c, status[c].time)
  /\ \A c, d \in Client : copied[c] = copied[d] => c = d \/ copied[c] = 0
  /\ owner \in Client => owner \in alive /\ copied[owner] = since

Accepted ==
  /\ time > 0 => \E c \in Client : Taken(c, time)
  /\ requestor # NoWindow => Taken(requestor, time)
  /\ \A a \in asks : \E c \in Client : Taken(c, a.time)
  /\ \A e \in In(events) :
       /\ e.type = "SaveTargets" => e.from \in Client /\ Taken(e.from, e.time)
       /\ IsOutcome(e) => \E c \in Client : Taken(c, e.time)

(* Of two events, the first of which is before the second.                 *)
InOrder(e, f) ==
  /\ e.type = "SaveTargets" => f.type \notin {"Clear", "Request"}
  /\ e.type = "SaveTargets" /\ f.type = "SaveTargets" => e.time < f.time
  /\ e.type = "ManagerClear" => f.type # "SaveTargets"
  /\ e.type = "Destroyed" /\ e.from = requestor => ~IsAnswer(f)
  /\ IsOutcome(e) /\ IsOutcome(f) => e.time # f.time
  /\ e.type = "NewValue" /\ f.type = "NewValue" /\ e.targets = f.targets =>
       e.targets \subseteq spoiled

Ordered == \A e, f \in In(events) : <<e, f>> \in Pairs(events) => InOrder(e, f)

(* A request to save is later than all that was accepted before.           *)
Saves ==
  /\ \A e \in In(events) : e.type = "SaveTargets" =>
       /\ time < e.time
       /\ \A a \in asks : a.time < e.time
       /\ \A f \in In(events) : IsOutcome(f) => f.time < e.time
  /\ owner = Manager => ~Comes("SaveTargets") /\ ~Comes("Clear")
  /\ Comes("ManagerClear") => ~managing
  /\ \A e \in In(events) : e.type = "Destroyed" => e.from \in Client \ alive
  /\ \A a \in asks : a.to \in alive

(* One conversion at most can still be answered, that of the requestor.    *)
Conversions ==
  /\ \A a, b \in asks : a.time = b.time => a = b
  /\ \A a \in asks, e \in In(events) : IsOutcome(e) => a.time # e.time
  /\ \A a \in asks : LiveAsk(a) => a.to = requestor /\ a.time = time
  /\ \A e \in In(events) : IsAnswer(e) => e.time = time
  /\ Live => requestor # NoWindow /\ owner # Manager /\ ~Comes("Clear") /\ ~Comes("Request")
  /\ \A e \in In(events) : e.type = "Request" => e.from # Manager

(* What is saved is as far as the conversion.                              *)
Untouched == \A t \in Target : contents[t] \in {None, Pending}

Awaited(targets) == \A t \in targets : contents[t] = Pending \/ Closed

Placed(t) ==
  IF t \in Large
    THEN props[t] = Incr /\ \A s \in sending : s.target = t => s.next = 1 /\ s.of = time
    ELSE props[t] = Data(Whole(t, time))

Phase ==
  /\ \A a \in asks : LiveAsk(a) /\ a.what = "TARGETS" => Saved = {}
  /\ \A a \in asks : LiveAsk(a) /\ a.what = "MULTIPLE" => Untouched /\ Awaited(a.targets)
  /\ \A e \in In(events) : e.type = "Targets" => Saved = {}
  /\ \A e \in In(events) : e.type = "Multiple" =>
       /\ Untouched /\ Awaited(e.targets)
       /\ offered[e.time] = e.targets
       /\ \A t \in e.targets \ spoiled : Placed(t)
  /\ \A t \in Target \ spoiled :
       contents[t].type = "pending" => owner # Manager /\ ~Comes("Request")

(* A target that comes in parts.                                           *)
Of(t)     == {s \in sending : s.target = t}
Coming(t) == \E e \in In(events) : e.type = "NewValue" /\ e.targets = {t}

Expected(t) ==
  \/ contents[t].type = "incr"
  \/ \E e \in In(events) : e.type = "Multiple" /\ t \in e.targets
  \/ Closed /\ ~Live

Gathered(t) ==
  LET data == contents[t].data IN
    Len(data) <= Parts /\ \A n \in 1..Len(data) : data[n] = [of |-> time, n |-> n]

NextPart(t) ==
  LET k == Len(contents[t].data) IN
  \/ /\ props[t] = Absent /\ ~Coming(t)
     /\ \A s \in Of(t) : s.ready /\ s.next = k + 1
  \/ /\ props[t] = Data(<<[of |-> time, n |-> k + 1]>>) /\ Coming(t) /\ k < Parts
     /\ \A s \in Of(t) : ~s.ready /\ s.next = k + 2
  \/ props[t] = Data(<<>>) /\ Coming(t) /\ k = Parts /\ Of(t) = {}

Transfer(t) ==
  /\ \A s, r \in Of(t) : s = r
  /\ contents[t].type = "incr" =>
       t \in Large /\ Gathered(t) /\ (\A s \in Of(t) : s.of = time) /\ NextPart(t)
  /\ contents[t].type # "incr" => ~Coming(t) /\ \A s \in Of(t) : ~s.ready
  /\ Of(t) # {} \/ props[t] # Absent => Expected(t)
  /\ contents[t].type = "done" => contents[t].data = Whole(t, time)

Transfers ==
  /\ \A e \in In(events) : e.type = "NewValue" => \E t \in Target : e.targets = {t}
  /\ \A t \in Target \ spoiled : Transfer(t)

(* Who was told that a clipboard is saved has it kept.                     *)
Told == \E c \in Client : status[c] = [is |-> "saved", time |-> time]

Kept ==
  /\ owner = Manager => since = time
  /\ \A c \in Client : status[c].is = "saved" => status[c].time <= time
  /\ Told => requestor = NoWindow
  /\ owner = Manager /\ managing /\ (requestor # NoWindow \/ Told) =>
       \A t \in offered[time] \ spoiled : contents[t].type \in {"incr", "done"}
  /\ owner = Manager /\ Told => \A t \in Target \ spoiled : contents[t].type # "incr"

Safe == Clock /\ Accepted /\ Ordered /\ Saves /\ Conversions /\ Phase /\ Transfers /\ Kept

-----------------------------------------------------------------------------
LEMMA Facts ==
  ASSUME TypeOK
  PROVE  /\ In(events) \subseteq Notice
         /\ since \in Nat /\ now \in Nat /\ time \in Nat
         /\ \A c \in Client : copied[c] \in Nat /\ status[c].time \in Nat
         /\ \A a \in asks : a.time \in Nat /\ a.to \in Client
         /\ \A e \in In(events) : e.time \in Nat
         /\ Manager \notin Client /\ NoWindow \notin Client /\ Manager # NoWindow
<1>1. \A i \in DOMAIN events : events[i] \in Notice
  BY LenProperties, ElementOfSeq DEF TypeOK
<1>2. In(events) \subseteq Notice
  BY <1>1 DEF In
<1>3. \A t \in Time : t \in Nat
  BY ClientsAssumption DEF Time
<1>4. \A c \in Client : copied[c] \in Nat /\ status[c].time \in Nat
  BY <1>3 DEF TypeOK
<1> QED BY <1>2, <1>3, <1>4, ClientsAssumption DEF TypeOK, Ask, Notice

(* An event has come.                                                      *)
LEMMA Come ==
  ASSUME TypeOK, NEW e \in Notice, events' = Append(events, e)
  PROVE  /\ In(events') = In(events) \cup {e}
         /\ \A f, g : <<f, g>> \in Pairs(events') <=>
                        <<f, g>> \in Pairs(events) \/ (f \in In(events) /\ g = e)
BY AppendQueue DEF TypeOK

LEMMA OrderedCome ==
  ASSUME TypeOK, Ordered, NEW e \in Notice, events' = Append(events, e),
         UNCHANGED <<requestor, spoiled>>,
         \A f \in In(events) : InOrder(f, e)
  PROVE  Ordered'
<1>1. \A f, g : InOrder(f, g)' <=> InOrder(f, g)
  BY DEF InOrder
<1>2. SUFFICES ASSUME NEW f \in In(events'), NEW g \in In(events'), <<f, g>> \in Pairs(events')
               PROVE  InOrder(f, g)
  BY <1>1 DEF Ordered
<1>3. CASE f \in In(events) /\ g = e
  BY <1>3
<1>4. CASE <<f, g>> \in Pairs(events)
  <2>1. f \in In(events) /\ g \in In(events)
    BY <1>4, PairsMeaning DEF In
  <2> QED BY <1>4, <2>1 DEF Ordered
<1> QED BY <1>2, <1>3, <1>4, Come

LEMMA RefuseSafe ==
  ASSUME TypeOK, Safe, NEW a \in asks, Refuse(a), UNCHANGED mvars
  PROVE  Safe'
<1> DEFINE e == Event("Failed", NoWindow, {}, a.time)
<1>1. e \in Notice /\ e.type = "Failed" /\ e.time = a.time /\ a \in Ask
  BY EventTyped DEF Event, TypeOK, Ask
<1>2. events' = Append(events, e) /\ asks' = asks \ {a}
  BY DEF Refuse
<1>3. UNCHANGED <<owner, since, now, alive, copied, sending, props, given, watched, listening,
        managing, status, offered>> /\ UNCHANGED <<contents, requestor, time, spoiled, mistaken>>
  BY DEF Refuse, mvars
<1> HIDE DEF e
<1>4. /\ In(events') = In(events) \cup {e}
      /\ \A f, g : <<f, g>> \in Pairs(events') <=>
                     <<f, g>> \in Pairs(events) \/ (f \in In(events) /\ g = e)
  BY <1>1, <1>2, Come
<1>5. /\ \A type : Comes(type)' <=> Comes(type) \/ type = "Failed"
      /\ Closed' <=> Closed
      /\ Live' => Live
      /\ \A t : Coming(t)' <=> Coming(t)
      /\ \A c, when : Taken(c, when)' <=> Taken(c, when)
      /\ Saved' = Saved
      /\ \A t : Of(t)' = Of(t)
  BY <1>1, <1>2, <1>3, <1>4 DEF Comes, Closed, Live, LiveAsk, IsAnswer, Coming, Taken, Saved, Of
<1> QED
  <2>1. Clock' BY <1>3, <1>5 DEF Safe, Clock
  <2>2. Accepted' BY <1>1, <1>2, <1>3, <1>4, <1>5 DEF Safe, Accepted, IsOutcome
  <2>3. Ordered'
    <3>1. \A f \in In(events) : InOrder(f, e)
      BY <1>1 DEF Safe, InOrder, Conversions, IsOutcome, IsAnswer
    <3> QED BY <1>1, <1>2, <1>3, <3>1, OrderedCome DEF Safe
  <2>4. Saves' BY <1>1, <1>2, <1>3, <1>4, <1>5 DEF Safe, Saves, IsOutcome
  <2>5. Conversions'
    BY <1>1, <1>2, <1>3, <1>4, <1>5 DEF Safe, Conversions, IsOutcome, IsAnswer, LiveAsk
  <2>6. Phase' BY <1>1, <1>2, <1>3, <1>4, <1>5 DEF Safe, Phase, LiveAsk, Untouched, Awaited, Placed
  <2>7. Transfers'
    BY <1>1, <1>2, <1>3, <1>4, <1>5 DEF Safe, Transfers, Transfer, Gathered, NextPart, Expected
  <2>8. Kept' BY <1>1, <1>2, <1>3, <1>4, <1>5 DEF Safe, Kept, Told
  <2> QED BY <2>1, <2>2, <2>3, <2>4, <2>5, <2>6, <2>7, <2>8 DEF Safe

LEMMA AcquireSafe ==
  ASSUME TypeOK, Safe, NEW c \in Client, Acquire(c), UNCHANGED mvars
  PROVE  Safe'
<1> DEFINE e == Event("Clear", NoWindow, {}, now')
<1>0. now \in Nat /\ now' = now + 1 /\ now' \in Nat
  BY Facts DEF Acquire
<1>1. e \in Notice /\ e.type = "Clear"
  <2>1. now' \in Time
    BY AcquireTyped DEF TypeOK
  <2> QED BY <2>1, EventTyped DEF Event
<1>2. events' = IF owner = Manager THEN Append(events, e) ELSE events
  BY DEF Acquire
<1>3. /\ owner' = c /\ since' = now' /\ c \in alive /\ copied' = [copied EXCEPT ![c] = now']
      /\ UNCHANGED <<alive, asks, sending, props, given, managing, status, offered>>
      /\ UNCHANGED <<contents, requestor, time, spoiled, mistaken>>
  BY DEF Acquire, mvars
<1> HIDE DEF e
<1>4. /\ owner # Manager => events' = events
      /\ owner = Manager => In(events') = In(events) \cup {e}
  BY <1>1, <1>2, Come
<1>5. \A d \in Client : copied'[d] = IF d = c THEN now' ELSE copied[d]
  BY <1>3 DEF TypeOK
<1>6. \A d \in Client : \A when : Taken(d, when) => Taken(d, when)'
  <2> SUFFICES ASSUME NEW d \in Client, NEW when, Taken(d, when) PROVE Taken(d, when)'
    OBVIOUS
  <2>1. when <= status[d].time /\ status[d].time <= now /\ status[d].time \in Nat
    BY Facts DEF Safe, Clock, Taken
  <2>2. when # now'
    BY <1>0, <2>1 DEF Taken
  <2> QED BY <1>3, <1>5, <2>2 DEF Taken
<1>7. /\ \A type : type # "Clear" => (Comes(type)' <=> Comes(type))
      /\ Closed' <=> Closed
      /\ \A a \in asks : LiveAsk(a)' => LiveAsk(a)
      /\ \A t : Coming(t)' <=> Coming(t)
      /\ Saved' = Saved
      /\ \A t : Of(t)' = Of(t)
  <2>1. \A a \in asks : LiveAsk(a)' => LiveAsk(a)
    BY <1>0, <1>3, <1>5, Facts DEF LiveAsk, Safe, Clock
  <2> QED BY <1>1, <1>3, <1>4, <2>1 DEF Comes, Closed, Coming, Saved, Of
<1>8. Live' => Live
  BY <1>1, <1>3, <1>4, <1>7 DEF Live, IsAnswer
<1>9. owner # Manager => \A type : Comes(type)' <=> Comes(type)
  BY <1>4 DEF Comes
<1> QED
  <2>1. Clock'
    <3>1. \A d \in Client : copied'[d] <= now' /\ copied[d] <= copied'[d] /\ copied[d] # now'
      BY <1>0, <1>5, Facts DEF Safe, Clock
    <3>2. \A d \in Client : status'[d].time <= copied'[d] /\ status'[d].time <= since'
      BY <1>0, <1>3, <3>1, Facts DEF Safe, Clock
    <3>3. \A d \in Client : status'[d].time > 0 => Taken(d, status[d].time)'
      BY <1>3, <1>6 DEF Safe, Clock
    <3>4. \A d, f \in Client : copied'[d] = copied'[f] => d = f \/ copied'[d] = 0
      BY <1>5, <3>1 DEF Safe, Clock
    <3>5. since' <= now' /\ (owner' \in Client => owner' \in alive' /\ copied'[owner'] = since')
      BY <1>0, <1>3, <1>5
    <3> QED BY <1>3, <3>1, <3>2, <3>3, <3>4, <3>5 DEF Clock
  <2>2. Accepted'
    <3>1. time' > 0 => \E d \in Client : Taken(d, time)'
      BY <1>3, <1>6 DEF Safe, Accepted
    <3>2. requestor' # NoWindow => Taken(requestor, time)'
      BY <1>3, <1>6 DEF Safe, Accepted, TypeOK
    <3>3. \A a \in asks' : \E d \in Client : Taken(d, a.time)'
      BY <1>3, <1>6 DEF Safe, Accepted
    <3>4. \A f \in In(events') :
            /\ f.type = "SaveTargets" => f.from \in Client /\ Taken(f.from, f.time)'
            /\ IsOutcome(f) => \E d \in Client : Taken(d, f.time)'
      BY <1>1, <1>4, <1>6 DEF Safe, Accepted, IsOutcome
    <3> QED BY <1>3, <3>1, <3>2, <3>3, <3>4 DEF Accepted, Taken, IsOutcome
  <2>3. Ordered'
    <3>1. CASE owner = Manager
      <4>1. \A f \in In(events) : InOrder(f, e)
        BY <1>1, <3>1 DEF Safe, InOrder, Saves, Comes, IsOutcome, IsAnswer
      <4> QED BY <1>1, <1>2, <1>3, <3>1, <4>1, OrderedCome DEF Safe
    <3>2. CASE owner # Manager
      BY <1>2, <1>3, <3>2 DEF Safe, Ordered, InOrder
    <3> QED BY <3>1, <3>2
  <2>4. Saves' BY <1>1, <1>3, <1>4, <1>7, ClientsAssumption DEF Safe, Saves, IsOutcome, Comes
  <2>5. Conversions'
    BY <1>1, <1>3, <1>4, <1>7, <1>8, <1>9, ClientsAssumption
       DEF Safe, Conversions, IsOutcome, IsAnswer
  <2>6. Phase'
    BY <1>1, <1>3, <1>4, <1>7, ClientsAssumption DEF Safe, Phase, Untouched, Awaited, Placed
  <2>7. Transfers'
    BY <1>1, <1>3, <1>4, <1>7, <1>8 DEF Safe, Transfers, Transfer, Gathered, NextPart, Expected
  <2>8. Kept' BY <1>3, ClientsAssumption DEF Safe, Kept, Told
  <2> QED BY <2>1, <2>2, <2>3, <2>4, <2>5, <2>6, <2>7, <2>8 DEF Safe

LEMMA SaveSafe ==
  ASSUME TypeOK, Safe, NEW c \in Client, NEW targets \in SUBSET Target, Save(c, targets),
         UNCHANGED mvars
  PROVE  Safe'
<1> DEFINE e == Event("SaveTargets", c, targets, since)
<1>1. e \in Notice /\ e.type = "SaveTargets" /\ e.from = c /\ e.time = since
  BY EventTyped DEF Event, TypeOK
<1>2. events' = Append(events, e)
  BY DEF Save
<1>3. /\ managing /\ owner = c /\ status[c].time < since
      /\ status' = [status EXCEPT ![c] = [is |-> "waiting", time |-> since]]
      /\ UNCHANGED <<owner, since, now, alive, copied, asks, sending, props, managing, offered>>
      /\ UNCHANGED <<contents, requestor, time, spoiled, mistaken>>
  BY DEF Save, mvars
<1> HIDE DEF e
<1>4. In(events') = In(events) \cup {e}
  BY <1>1, <1>2, Come
<1>5. \A d \in Client : status'[d] = IF d = c THEN [is |-> "waiting", time |-> since] ELSE status[d]
  BY <1>3 DEF TypeOK
<1>6. ASSUME NEW d \in Client, NEW when \in Nat, Taken(d, when)
      PROVE  Taken(d, when)' /\ when < since
  <2>0. copied[c] = since /\ status[d].time <= since
    BY <1>3 DEF Safe, Clock
  <2>1. when <= status[d].time /\ status[d].time <= since /\ copied[c] = since
    BY <1>6, <2>0 DEF Taken
  <2>2. CASE d = c
    BY <1>3, <1>5, <1>6, <2>1, <2>2, Facts DEF Taken
  <2>3. CASE d # c
    BY <1>3, <1>5, <1>6, <2>1, <2>3, Facts DEF Taken
  <2> QED BY <2>2, <2>3
<1>7. /\ \A type : type # "SaveTargets" => (Comes(type)' <=> Comes(type))
      /\ Closed' <=> Closed
      /\ \A a : LiveAsk(a)' <=> LiveAsk(a)
      /\ Live' <=> Live
      /\ \A t : Coming(t)' <=> Coming(t)
      /\ Saved' = Saved
      /\ \A t : Of(t)' = Of(t)
  BY <1>1, <1>3, <1>4 DEF Comes, Closed, Live, LiveAsk, IsAnswer, Coming, Saved, Of
<1>8. Taken(c, since)' /\ since > 0
  <2>1. copied[c] = since /\ since > 0
    BY <1>3, Facts DEF Safe, Clock
  <2>2. \A d \in Client \ {c} : copied[d] # since
    BY <2>1, Facts DEF Safe, Clock
  <2> QED BY <1>3, <1>5, <2>1, <2>2, Facts DEF Taken
<1> QED
  <2>1. Clock'
    BY <1>3, <1>5, <1>6, <1>8, Facts DEF Safe, Clock
  <2>2. Accepted'
    <3>1. time' > 0 => \E d \in Client : Taken(d, time)'
      BY <1>3, <1>6, Facts DEF Safe, Accepted
    <3>2. requestor' # NoWindow => Taken(requestor, time)'
      BY <1>3, <1>6, Facts DEF Safe, Accepted, TypeOK
    <3>3. \A a \in asks' : \E d \in Client : Taken(d, a.time)'
      BY <1>3, <1>6, Facts DEF Safe, Accepted
    <3>4. ASSUME NEW f \in In(events')
          PROVE  /\ f.type = "SaveTargets" => f.from \in Client /\ Taken(f.from, f.time)'
                 /\ IsOutcome(f) => \E d \in Client : Taken(d, f.time)'
      <4>1. CASE f = e
        BY <1>1, <1>3, <1>8, <4>1 DEF IsOutcome, Taken
      <4>2. CASE f \in In(events)
        BY <1>6, <4>2, Facts DEF Safe, Accepted
      <4> QED BY <1>4, <4>1, <4>2
    <3> QED BY <1>3, <3>1, <3>2, <3>3, <3>4 DEF Accepted, Taken, IsOutcome
  <2>3. Ordered'
    <3>1. \A f \in In(events) : InOrder(f, e)
      BY <1>1, <1>3, <1>6, Facts DEF Safe, InOrder, Accepted, Saves, Comes, IsOutcome, IsAnswer
    <3> QED BY <1>1, <1>2, <1>3, <3>1, OrderedCome DEF Safe
  <2>4. Saves'
    <3>1. time < since
      BY <1>6, <1>8, Facts DEF Safe, Accepted
    <3>2. \A a \in asks : a.time < since
      BY <1>6, Facts DEF Safe, Accepted
    <3>3. \A f \in In(events) : IsOutcome(f) => f.time < since
      BY <1>6, Facts DEF Safe, Accepted
    <3> QED BY <1>1, <1>3, <1>4, <1>7, <3>1, <3>2, <3>3, ClientsAssumption
            DEF Safe, Saves, IsOutcome, Comes
  <2>5. Conversions'
    BY <1>1, <1>3, <1>4, <1>7 DEF Safe, Conversions, IsOutcome, IsAnswer
  <2>6. Phase'
    BY <1>1, <1>3, <1>4, <1>7 DEF Safe, Phase, Untouched, Awaited, Placed
  <2>7. Transfers'
    BY <1>1, <1>3, <1>4, <1>7 DEF Safe, Transfers, Transfer, Gathered, NextPart, Expected
  <2>8. Kept'
    <3>1. Told' => Told
      BY <1>3, <1>5 DEF Told
    <3> QED BY <1>3, <1>5, <3>1, ClientsAssumption DEF Safe, Kept
  <2> QED BY <2>1, <2>2, <2>3, <2>4, <2>5, <2>6, <2>7, <2>8 DEF Safe

LEMMA ExitSafe ==
  ASSUME TypeOK, Safe, NEW c \in Client, Exit(c), UNCHANGED mvars
  PROVE  Safe'
<1> DEFINE e == Event("Destroyed", c, {}, now)
<1>1. e \in Notice /\ e.type = "Destroyed" /\ e.from = c
  BY EventTyped DEF Event, TypeOK
<1>2. events' = IF Notices(c) THEN Append(events, e) ELSE events
  BY DEF Exit
<1>3. /\ alive' = alive \ {c} /\ owner' = (IF owner = c THEN NoWindow ELSE owner)
      /\ asks' = {a \in asks : a.to # c} /\ sending' = {s \in sending : s.from # c}
      /\ UNCHANGED <<since, now, copied, props, managing, status, offered>>
      /\ UNCHANGED <<contents, requestor, time, spoiled, mistaken>>
  BY DEF Exit, mvars
<1> HIDE DEF e
<1>4. /\ In(events') \subseteq In(events) \cup {e}
      /\ In(events) \subseteq In(events')
  BY <1>1, <1>2, Come
<1>5. /\ \A type : type # "Destroyed" => (Comes(type)' <=> Comes(type))
      /\ Closed' <=> Closed
      /\ \A a : LiveAsk(a)' <=> LiveAsk(a)
      /\ \A t : Coming(t)' <=> Coming(t)
      /\ \A d, when : Taken(d, when)' <=> Taken(d, when)
      /\ Saved' = Saved
      /\ \A t : Of(t)' \subseteq Of(t)
  BY <1>1, <1>3, <1>4 DEF Comes, Closed, LiveAsk, Coming, Taken, Saved, Of
<1>6. Live' => Live
  BY <1>1, <1>3, <1>4, <1>5 DEF Live, IsAnswer
<1> QED
  <2>1. Clock' BY <1>3, <1>5, ClientsAssumption DEF Safe, Clock
  <2>2. Accepted' BY <1>1, <1>3, <1>4, <1>5 DEF Safe, Accepted, IsOutcome
  <2>3. Ordered'
    <3>1. CASE Notices(c)
      <4>1. \A f \in In(events) : InOrder(f, e)
        BY <1>1 DEF Safe, InOrder, IsOutcome, IsAnswer
      <4> QED BY <1>1, <1>2, <1>3, <3>1, <4>1, OrderedCome DEF Safe
    <3>2. CASE ~Notices(c)
      BY <1>2, <1>3, <3>2 DEF Safe, Ordered, InOrder
    <3> QED BY <3>1, <3>2
  <2>4. Saves' BY <1>1, <1>3, <1>4, <1>5, ClientsAssumption DEF Safe, Saves, IsOutcome, Comes
  <2>5. Conversions'
    BY <1>1, <1>3, <1>4, <1>5, <1>6, ClientsAssumption DEF Safe, Conversions, IsOutcome, IsAnswer
  <2>6. Phase'
    BY <1>1, <1>3, <1>4, <1>5, ClientsAssumption DEF Safe, Phase, Untouched, Awaited, Placed
  <2>7. Transfers'
    BY <1>1, <1>3, <1>4, <1>5, <1>6 DEF Safe, Transfers, Transfer, Gathered, NextPart, Expected
  <2>8. Kept' BY <1>3, ClientsAssumption DEF Safe, Kept, Told
  <2> QED BY <2>1, <2>2, <2>3, <2>4, <2>5, <2>6, <2>7, <2>8 DEF Safe

LEMMA LoseManagerSafe ==
  ASSUME TypeOK, Safe, LoseManager, UNCHANGED mvars
  PROVE  Safe'
<1> DEFINE e == Event("ManagerClear", NoWindow, {}, now)
<1>1. e \in Notice /\ e.type = "ManagerClear"
  BY EventTyped DEF Event, TypeOK
<1>2. events' = Append(events, e)
  BY DEF LoseManager
<1>3. /\ managing /\ managing' = FALSE
      /\ UNCHANGED <<owner, since, now, alive, copied, asks, sending, props, status, offered>>
      /\ UNCHANGED <<contents, requestor, time, spoiled, mistaken>>
  BY DEF LoseManager, mvars
<1> HIDE DEF e
<1>4. In(events') = In(events) \cup {e}
  BY <1>1, <1>2, Come
<1>5. /\ \A type : type # "ManagerClear" => (Comes(type)' <=> Comes(type))
      /\ Closed => Closed'
      /\ \A a : LiveAsk(a)' <=> LiveAsk(a)
      /\ Live' <=> Live
      /\ \A t : Coming(t)' <=> Coming(t)
      /\ \A d, when : Taken(d, when)' <=> Taken(d, when)
      /\ Saved' = Saved
      /\ \A t : Of(t)' = Of(t)
  BY <1>1, <1>3, <1>4 DEF Comes, Closed, Live, LiveAsk, IsAnswer, Coming, Taken, Saved, Of
<1> QED
  <2>1. Clock' BY <1>3, <1>5 DEF Safe, Clock
  <2>2. Accepted' BY <1>1, <1>3, <1>4, <1>5 DEF Safe, Accepted, IsOutcome
  <2>3. Ordered'
    <3>1. \A f \in In(events) : InOrder(f, e)
      BY <1>1, <1>3 DEF Safe, InOrder, IsOutcome, IsAnswer
    <3> QED BY <1>1, <1>2, <1>3, <3>1, OrderedCome DEF Safe
  <2>4. Saves' BY <1>1, <1>3, <1>4, <1>5 DEF Safe, Saves, IsOutcome, Comes
  <2>5. Conversions'
    BY <1>1, <1>3, <1>4, <1>5 DEF Safe, Conversions, IsOutcome, IsAnswer
  <2>6. Phase'
    BY <1>1, <1>3, <1>4, <1>5 DEF Safe, Phase, Untouched, Awaited, Placed
  <2>7. Transfers'
    BY <1>1, <1>3, <1>4, <1>5 DEF Safe, Transfers, Transfer, Gathered, NextPart, Expected
  <2>8. Kept' BY <1>3 DEF Safe, Kept, Told
  <2> QED BY <2>1, <2>2, <2>3, <2>4, <2>5, <2>6, <2>7, <2>8 DEF Safe

LEMMA RequestSafe ==
  ASSUME TypeOK, Safe, NEW c \in Client, NEW targets \in SUBSET Target, Request(c, targets),
         UNCHANGED mvars
  PROVE  Safe'
<1> DEFINE e == Event("Request", c, targets, since)
<1>1. e \in Notice /\ e.type = "Request" /\ e.from = c
  BY EventTyped DEF Event, TypeOK
<1>2. events' = Append(events, e)
  BY DEF Request
<1>3. /\ owner = Manager
      /\ UNCHANGED <<owner, since, now, alive, copied, asks, sending, props, managing, status,
           offered>>
      /\ UNCHANGED <<contents, requestor, time, spoiled, mistaken>>
  BY DEF Request, mvars
<1> HIDE DEF e
<1>4. In(events') = In(events) \cup {e}
  BY <1>1, <1>2, Come
<1>5. /\ \A type : type # "Request" => (Comes(type)' <=> Comes(type))
      /\ Closed' <=> Closed
      /\ \A a : LiveAsk(a)' <=> LiveAsk(a)
      /\ Live' <=> Live
      /\ \A t : Coming(t)' <=> Coming(t)
      /\ \A d, when : Taken(d, when)' <=> Taken(d, when)
      /\ Saved' = Saved
      /\ \A t : Of(t)' = Of(t)
  BY <1>1, <1>3, <1>4 DEF Comes, Closed, Live, LiveAsk, IsAnswer, Coming, Taken, Saved, Of
<1> QED
  <2>1. Clock' BY <1>3, <1>5 DEF Safe, Clock
  <2>2. Accepted' BY <1>1, <1>3, <1>4, <1>5 DEF Safe, Accepted, IsOutcome
  <2>3. Ordered'
    <3>1. \A f \in In(events) : InOrder(f, e)
      BY <1>1, <1>3 DEF Safe, InOrder, Saves, Comes, IsOutcome, IsAnswer
    <3> QED BY <1>1, <1>2, <1>3, <3>1, OrderedCome DEF Safe
  <2>4. Saves' BY <1>1, <1>3, <1>4, <1>5 DEF Safe, Saves, IsOutcome, Comes
  <2>5. Conversions'
    BY <1>1, <1>3, <1>4, <1>5, ClientsAssumption DEF Safe, Conversions, IsOutcome, IsAnswer
  <2>6. Phase'
    BY <1>1, <1>3, <1>4, <1>5 DEF Safe, Phase, Untouched, Awaited, Placed
  <2>7. Transfers'
    BY <1>1, <1>3, <1>4, <1>5 DEF Safe, Transfers, Transfer, Gathered, NextPart, Expected
  <2>8. Kept' BY <1>3 DEF Safe, Kept, Told
  <2> QED BY <2>1, <2>2, <2>3, <2>4, <2>5, <2>6, <2>7, <2>8 DEF Safe

LEMMA ReadSafe ==
  ASSUME TypeOK, Safe, NEW g \in given, Read(g), UNCHANGED mvars
  PROVE  Safe'
<1> DEFINE e == Event("Deleted", g.to, {g.target}, now)
<1>1. e \in Notice /\ e.type = "Deleted"
  BY EventTyped DEF Event, TypeOK
<1>2. events' = Append(events, e) \/ events' = events
  BY DEF Read
<1>3. /\ UNCHANGED <<owner, since, now, alive, copied, asks, sending, props, managing, status,
           offered>>
      /\ UNCHANGED <<contents, requestor, time, spoiled, mistaken>>
  BY DEF Read, mvars
<1> HIDE DEF e
<1>4. /\ In(events') \subseteq In(events) \cup {e}
      /\ In(events) \subseteq In(events')
  BY <1>1, <1>2, Come
<1>5. /\ \A type : type # "Deleted" => (Comes(type)' <=> Comes(type))
      /\ Closed' <=> Closed
      /\ \A a : LiveAsk(a)' <=> LiveAsk(a)
      /\ Live' <=> Live
      /\ \A t : Coming(t)' <=> Coming(t)
      /\ \A d, when : Taken(d, when)' <=> Taken(d, when)
      /\ Saved' = Saved
      /\ \A t : Of(t)' = Of(t)
  BY <1>1, <1>3, <1>4 DEF Comes, Closed, Live, LiveAsk, IsAnswer, Coming, Taken, Saved, Of
<1> QED
  <2>1. Clock' BY <1>3, <1>5 DEF Safe, Clock
  <2>2. Accepted' BY <1>1, <1>3, <1>4, <1>5 DEF Safe, Accepted, IsOutcome
  <2>3. Ordered'
    <3>1. \A f \in In(events) : InOrder(f, e)
      BY <1>1 DEF InOrder, IsOutcome, IsAnswer
    <3>2. CASE events' = Append(events, e)
      BY <1>1, <1>3, <3>1, <3>2, OrderedCome DEF Safe
    <3>3. CASE events' = events
      BY <1>3, <3>3 DEF Safe, Ordered, InOrder
    <3> QED BY <1>2, <3>2, <3>3
  <2>4. Saves' BY <1>1, <1>3, <1>4, <1>5 DEF Safe, Saves, IsOutcome, Comes
  <2>5. Conversions'
    BY <1>1, <1>3, <1>4, <1>5 DEF Safe, Conversions, IsOutcome, IsAnswer
  <2>6. Phase'
    BY <1>1, <1>3, <1>4, <1>5 DEF Safe, Phase, Untouched, Awaited, Placed
  <2>7. Transfers'
    BY <1>1, <1>3, <1>4, <1>5 DEF Safe, Transfers, Transfer, Gathered, NextPart, Expected
  <2>8. Kept' BY <1>3 DEF Safe, Kept, Told
  <2> QED BY <2>1, <2>2, <2>3, <2>4, <2>5, <2>6, <2>7, <2>8 DEF Safe

(* The answer to a live conversion is the only one, and is that of the     *)
(* requestor, who is there.                                                *)
LEMMA AnswersAlone ==
  ASSUME TypeOK, Safe, NEW a \in asks, LiveAsk(a)
  PROVE  /\ Live /\ requestor # NoWindow /\ owner # Manager
         /\ ~Comes("Clear") /\ ~Comes("Request")
         /\ a.to = requestor /\ a.time = time /\ copied[a.to] = time /\ a.to \in alive
         /\ \A e \in In(events) : ~IsAnswer(e)
         /\ \A b \in asks : LiveAsk(b) => b = a
<1>1. Live /\ a.to = requestor /\ a.time = time /\ a.to \in alive
  BY DEF Live, Safe, Conversions, Saves
<1>2. requestor # NoWindow /\ owner # Manager /\ ~Comes("Clear") /\ ~Comes("Request")
  BY <1>1 DEF Safe, Conversions
<1>3. copied[a.to] = time
  <2>1. time <= status[requestor].time /\ status[requestor].time <= copied[requestor]
    BY <1>1, <1>2, Facts DEF Safe, Accepted, Clock, Taken
  <2>2. copied[requestor] <= time
    BY <1>1 DEF LiveAsk
  <2> QED BY <1>1, <2>1, <2>2, Facts
<1>4. \A e \in In(events) : ~IsAnswer(e)
  BY <1>1 DEF Safe, Conversions, IsAnswer, IsOutcome
<1>5. \A b \in asks : LiveAsk(b) => b = a
  BY <1>1 DEF Safe, Conversions
<1> QED BY <1>1, <1>2, <1>3, <1>4, <1>5

LEMMA AnswerTargetsSafe ==
  ASSUME TypeOK, Safe, NEW a \in asks, NEW targets \in SUBSET Target, AnswerTargets(a, targets),
         UNCHANGED mvars
  PROVE  Safe'
<1> DEFINE e == Event("Targets", NoWindow, targets, a.time)
<1>1. e \in Notice /\ e.type = "Targets" /\ e.time = a.time /\ a \in Ask
  BY EventTyped DEF Event, TypeOK, Ask
<1>2. events' = Append(events, e) /\ asks' = asks \ {a}
  BY DEF AnswerTargets
<1>3. /\ a.what = "TARGETS" /\ LiveAsk(a)
      /\ UNCHANGED <<owner, since, now, alive, copied, sending, props, managing, status, offered>>
      /\ UNCHANGED <<contents, requestor, time, spoiled, mistaken>>
  BY Facts DEF AnswerTargets, mvars, LiveAsk, TypeOK
<1> HIDE DEF e
<1>4. In(events') = In(events) \cup {e}
  BY <1>1, <1>2, Come
<1>5. /\ \A type : type # "Targets" => (Comes(type)' <=> Comes(type))
      /\ Closed' <=> Closed
      /\ \A b : LiveAsk(b)' <=> LiveAsk(b)
      /\ \A t : Coming(t)' <=> Coming(t)
      /\ \A d, when : Taken(d, when)' <=> Taken(d, when)
      /\ Saved' = Saved
      /\ \A t : Of(t)' = Of(t)
  BY <1>1, <1>3, <1>4 DEF Comes, Closed, LiveAsk, Coming, Taken, Saved, Of
<1>6. /\ Live /\ requestor # NoWindow /\ owner # Manager
      /\ ~Comes("Clear") /\ ~Comes("Request")
      /\ a.to = requestor /\ a.time = time /\ a.to \in alive
      /\ \A f \in In(events) : ~IsAnswer(f)
      /\ \A b \in asks : LiveAsk(b) => b = a
  BY <1>3, AnswersAlone
<1> QED
  <2>1. Clock' BY <1>3, <1>5 DEF Safe, Clock
  <2>2. Accepted' BY <1>1, <1>2, <1>3, <1>4, <1>5 DEF Safe, Accepted, IsOutcome
  <2>3. Ordered'
    <3>1. \A f \in In(events) : InOrder(f, e)
      BY <1>1, <1>6 DEF Safe, InOrder, Saves, Conversions, IsOutcome, IsAnswer
    <3> QED BY <1>1, <1>2, <1>3, <3>1, OrderedCome DEF Safe
  <2>4. Saves' BY <1>1, <1>2, <1>3, <1>4, <1>5 DEF Safe, Saves, IsOutcome
  <2>5. Conversions'
    BY <1>1, <1>2, <1>3, <1>4, <1>5, <1>6 DEF Safe, Conversions, IsOutcome, IsAnswer
  <2>6. Phase'
    BY <1>1, <1>2, <1>3, <1>4, <1>5, <1>6 DEF Safe, Phase, Untouched, Awaited, Placed, IsAnswer
  <2>7. Transfers'
    BY <1>1, <1>3, <1>4, <1>5, <1>6 DEF Safe, Transfers, Transfer, Gathered, NextPart, Expected
  <2>8. Kept' BY <1>3 DEF Safe, Kept, Told
  <2> QED BY <2>1, <2>2, <2>3, <2>4, <2>5, <2>6, <2>7, <2>8 DEF Safe

LEMMA AnswerMultipleSafe ==
  ASSUME TypeOK, TypeOK', Safe, NEW a \in asks, NEW targets \in SUBSET Target,
         AnswerMultiple(a, targets), UNCHANGED mvars
  PROVE  Safe'
<1> DEFINE e == Event("Multiple", NoWindow, targets, a.time)
           new(t) == [from |-> a.to, target |-> t, of |-> time, next |-> 1, ready |-> FALSE]
<1>1. e \in Notice /\ e.type = "Multiple" /\ e.time = a.time /\ e.targets = targets /\ a \in Ask
  BY EventTyped DEF Event, TypeOK, Ask
<1>2. events' = Append(events, e) /\ asks' = asks \ {a}
  BY DEF AnswerMultiple
<1>3. /\ a.what = "MULTIPLE" /\ LiveAsk(a) /\ targets \subseteq a.targets
      /\ UNCHANGED <<owner, since, now, alive, copied, managing, status>>
      /\ UNCHANGED <<contents, requestor, time, spoiled, mistaken>>
  BY Facts DEF AnswerMultiple, mvars, LiveAsk, TypeOK
<1> HIDE DEF e
<1>4. In(events') = In(events) \cup {e}
  BY <1>1, <1>2, Come
<1>5. /\ \A type : type # "Multiple" => (Comes(type)' <=> Comes(type))
      /\ Closed' <=> Closed
      /\ \A b : LiveAsk(b)' <=> LiveAsk(b)
      /\ \A t : Coming(t)' <=> Coming(t)
      /\ \A d, when : Taken(d, when)' <=> Taken(d, when)
      /\ Saved' = Saved
  BY <1>1, <1>3, <1>4 DEF Comes, Closed, LiveAsk, Coming, Taken, Saved
<1>6. /\ Live /\ requestor # NoWindow /\ owner # Manager
      /\ ~Comes("Clear") /\ ~Comes("Request")
      /\ a.to = requestor /\ a.time = time /\ copied[a.to] = time /\ a.to \in alive
      /\ \A f \in In(events) : ~IsAnswer(f)
      /\ \A b \in asks : LiveAsk(b) => b = a
  BY <1>3, AnswersAlone
<1>7. Untouched /\ Awaited(targets)
  BY <1>3 DEF Safe, Phase, Awaited
<1>8. /\ props' = [t \in Target |->
                     IF t \notin targets THEN props[t]
                     ELSE IF t \in Large THEN Incr ELSE Data(Whole(t, time))]
      /\ sending' = sending \cup {new(t) : t \in targets \cap Large}
      /\ offered' = [offered EXCEPT ![time] = targets]
  BY <1>6 DEF AnswerMultiple
<1>9. ASSUME NEW t \in Target \ spoiled
      PROVE  contents[t].type \in {"none", "pending"} /\ Of(t) = {} /\ props[t] = Absent
  <2>1. contents[t].type \in {"none", "pending"}
    BY <1>7 DEF Untouched, None, Pending
  <2>2. ~Expected(t)
    BY <1>6, <2>1 DEF Expected, IsAnswer
  <2> QED BY <2>1, <2>2 DEF Safe, Transfers, Transfer
<1>10. ASSUME NEW t \in Target \ spoiled
       PROVE  /\ Of(t)' = IF t \in targets \cap Large THEN {new(t)} ELSE {}
              /\ props'[t] = IF t \notin targets THEN Absent
                             ELSE IF t \in Large THEN Incr ELSE Data(Whole(t, time))
  <2>1. Of(t)' = IF t \in targets \cap Large THEN {new(t)} ELSE {}
    BY <1>8, <1>9 DEF Of
  <2> QED BY <1>8, <1>9, <2>1
<1> HIDE DEF new
<1> QED
  <2>1. Clock' BY <1>3, <1>5 DEF Safe, Clock
  <2>2. Accepted' BY <1>1, <1>2, <1>3, <1>4, <1>5 DEF Safe, Accepted, IsOutcome
  <2>3. Ordered'
    <3>1. \A f \in In(events) : InOrder(f, e)
      BY <1>1, <1>6 DEF Safe, InOrder, Saves, Conversions, IsOutcome, IsAnswer
    <3> QED BY <1>1, <1>2, <1>3, <3>1, OrderedCome DEF Safe
  <2>4. Saves' BY <1>1, <1>2, <1>3, <1>4, <1>5 DEF Safe, Saves, IsOutcome
  <2>5. Conversions'
    BY <1>1, <1>2, <1>3, <1>4, <1>5, <1>6 DEF Safe, Conversions, IsOutcome, IsAnswer
  <2>6. Phase'
    <3>1. offered'[e.time] = targets
      BY <1>1, <1>6, <1>8 DEF TypeOK
    <3>2. ASSUME NEW t \in targets \ spoiled PROVE Placed(t)'
      <4>1. t \in Target \ spoiled
        BY <3>2
      <4>2. CASE t \in Large
        <5>1. props'[t] = Incr /\ Of(t)' = {new(t)}
          BY <1>10, <3>2, <4>1, <4>2
        <5>2. new(t).next = 1 /\ new(t).of = time
          BY DEF new
        <5> QED BY <1>3, <4>2, <5>1, <5>2 DEF Placed, Of
      <4>3. CASE t \notin Large
        BY <1>3, <1>10, <3>2, <4>1, <4>3 DEF Placed
      <4> QED BY <4>2, <4>3
    <3>3. Untouched' /\ Awaited(targets)'
      BY <1>3, <1>5, <1>7 DEF Untouched, Awaited
    <3> QED BY <1>1, <1>2, <1>3, <1>4, <1>5, <1>6, <3>1, <3>2, <3>3 DEF Safe, Phase, IsAnswer
  <2>7. Transfers'
    <3>1. ASSUME NEW t \in Target \ spoiled PROVE Transfer(t)'
      <4>1. contents'[t].type \in {"none", "pending"} /\ ~Coming(t)'
        BY <1>3, <1>5, <1>9, <3>1 DEF Safe, Transfers, Transfer
      <4>2. \A s \in Of(t)' : s = new(t) /\ ~s.ready
        BY <1>10, <3>1 DEF new
      <4>3. Of(t)' # {} \/ props'[t] # Absent => Expected(t)'
        BY <1>1, <1>4, <1>10, <3>1 DEF Expected
      <4> QED BY <4>1, <4>2, <4>3 DEF Transfer
    <3> QED BY <1>1, <1>3, <1>4, <3>1 DEF Safe, Transfers
  <2>8. Kept' BY <1>3, <1>6 DEF Safe, Kept, Told
  <2> QED BY <2>1, <2>2, <2>3, <2>4, <2>5, <2>6, <2>7, <2>8 DEF Safe

LEMMA SendPartSafe ==
  ASSUME TypeOK, TypeOK', Safe, NEW s \in sending, SendPart(s), UNCHANGED mvars
  PROVE  Safe'
<1> DEFINE t == s.target
           e == Event("NewValue", NoWindow, {t}, s.of)
           next == [s EXCEPT !.next = @ + 1, !.ready = FALSE]
<1>1. /\ e \in Notice /\ e.type = "NewValue" /\ e.targets = {t}
      /\ s \in Sending /\ t \in Target /\ s.ready
  <2>1. s \in Sending /\ t \in Target /\ s.of \in Time
    BY ClientsAssumption DEF TypeOK, Sending
  <2> QED BY <2>1, EventTyped DEF Event, SendPart
<1>2. events' = Append(events, e)
  BY DEF SendPart
<1>3. /\ UNCHANGED <<owner, since, now, alive, copied, asks, managing, status, offered>>
      /\ UNCHANGED <<contents, requestor, time, spoiled, mistaken>>
  BY DEF SendPart, mvars
<1>4. /\ s.next \in Nat /\ Parts \in Nat
      /\ s.next <= Parts =>
           /\ props' = [props EXCEPT ![t] = Data(<<[of |-> s.of, n |-> s.next]>>)]
           /\ sending' = (sending \ {s}) \cup {next}
      /\ ~(s.next <= Parts) =>
           props' = [props EXCEPT ![t] = Data(<<>>)] /\ sending' = sending \ {s}
      /\ next.target = t /\ next.next = s.next + 1 /\ ~next.ready /\ next.of = s.of
  BY <1>1, ClientsAssumption DEF SendPart, Sending
<1> HIDE DEF e, next
<1>5. In(events') = In(events) \cup {e}
  BY <1>1, <1>2, Come
<1>6. /\ \A type : type # "NewValue" => (Comes(type)' <=> Comes(type))
      /\ Closed' <=> Closed
      /\ \A a : LiveAsk(a)' <=> LiveAsk(a)
      /\ Live' <=> Live
      /\ \A u : u # t => (Coming(u)' <=> Coming(u))
      /\ Coming(t)'
      /\ \A d, when : Taken(d, when)' <=> Taken(d, when)
      /\ Saved' = Saved
  BY <1>1, <1>3, <1>5 DEF Comes, Closed, Live, LiveAsk, IsAnswer, Coming, Taken, Saved
<1>7. \A u \in Target : u # t => props'[u] = props[u] /\ Of(u)' = Of(u)
  BY <1>4 DEF TypeOK, Of
<1>8. ASSUME t \notin spoiled
      PROVE  /\ contents[t].type = "incr" /\ t \in Large /\ Gathered(t)
             /\ \A r \in Of(t) : r = s
             /\ s.of = time /\ props[t] = Absent /\ ~Coming(t)
             /\ s.next = Len(contents[t].data) + 1
  <2>1. Transfer(t) /\ s \in Of(t)
    BY <1>1, <1>8 DEF Safe, Transfers, Of
  <2>2. contents[t].type = "incr" /\ \A r \in Of(t) : r = s
    BY <1>1, <2>1 DEF Transfer
  <2>3. Gathered(t) /\ s.of = time /\ NextPart(t) /\ t \in Large
    BY <2>1, <2>2 DEF Transfer
  <2> QED BY <1>1, <2>1, <2>2, <2>3 DEF NextPart
<1> QED
  <2>1. Clock' BY <1>3, <1>6 DEF Safe, Clock
  <2>2. Accepted' BY <1>1, <1>3, <1>5, <1>6 DEF Safe, Accepted, IsOutcome
  <2>3. Ordered'
    <3>1. ASSUME NEW f \in In(events) PROVE InOrder(f, e)
      <4>1. f.type = "NewValue" /\ f.targets = {t} => {t} \subseteq spoiled
        BY <1>8, <3>1 DEF Coming
      <4> QED BY <1>1, <4>1 DEF Safe, InOrder, IsOutcome, IsAnswer
    <3> QED BY <1>1, <1>2, <1>3, <3>1, OrderedCome DEF Safe
  <2>4. Saves' BY <1>1, <1>3, <1>5, <1>6 DEF Safe, Saves, IsOutcome
  <2>5. Conversions'
    BY <1>1, <1>3, <1>5, <1>6 DEF Safe, Conversions, IsOutcome, IsAnswer
  <2>6. Phase'
    <3>1. ASSUME NEW f \in In(events), f.type = "Multiple", NEW u \in f.targets \ spoiled
          PROVE  Placed(u)'
      <4>1. u \in Target /\ Untouched /\ Placed(u)
        BY <3>1, Facts DEF Safe, Phase, Notice
      <4>2. u # t
        BY <1>8, <3>1, <4>1 DEF Untouched, None, Pending
      <4> QED BY <1>3, <1>7, <4>1, <4>2 DEF Placed, Of
    <3> QED BY <1>1, <1>3, <1>5, <1>6, <3>1 DEF Safe, Phase, Untouched, Awaited
  <2>7. Transfers'
    <3>1. ASSUME NEW u \in Target \ spoiled, u # t PROVE Transfer(u)'
      <4>1. Transfer(u)
        BY <3>1 DEF Safe, Transfers
      <4> QED BY <1>1, <1>3, <1>5, <1>6, <1>7, <3>1, <4>1
              DEF Transfer, Gathered, NextPart, Expected
    <3>2. ASSUME t \notin spoiled PROVE Transfer(t)'
      <4> DEFINE k == Len(contents[t].data)
      <4>1. k \in Nat /\ k <= Parts /\ k' = k /\ s.next = k + 1 /\ s.of = time
        BY <1>1, <1>3, <1>8, <3>2, LenProperties DEF TypeOK, Entry, Gathered
      <4>2. contents'[t].type = "incr" /\ t \in Large /\ Gathered(t)'
        BY <1>3, <1>8, <3>2 DEF Gathered
      <4>3. CASE s.next <= Parts
        <5>1. Of(t)' = {next}
          BY <1>4, <1>8, <3>2, <4>3 DEF Of
        <5>2. props'[t] = Data(<<[of |-> time, n |-> k + 1]>>)
          BY <1>1, <1>4, <4>1, <4>3 DEF TypeOK
        <5>3. k < Parts /\ next.next = k + 2 /\ next.of = time /\ ~next.ready
          BY <1>4, <4>1, <4>3
        <5> HIDE DEF k
        <5>4. NextPart(t)'
          BY <1>3, <1>6, <4>1, <5>1, <5>2, <5>3 DEF NextPart, k
        <5>5. Expected(t)'
          BY <4>2 DEF Expected
        <5> QED BY <1>3, <4>2, <5>1, <5>3, <5>4, <5>5 DEF Transfer
      <4>4. CASE ~(s.next <= Parts)
        <5>1. Of(t)' = {}
          BY <1>4, <1>8, <3>2, <4>4 DEF Of
        <5>2. props'[t] = Data(<<>>)
          BY <1>1, <1>4, <4>4 DEF TypeOK
        <5>3. k = Parts
          BY <1>4, <4>1, <4>4
        <5> HIDE DEF k
        <5>4. NextPart(t)'
          BY <1>3, <1>6, <4>1, <5>1, <5>2, <5>3 DEF NextPart, k
        <5>5. Expected(t)'
          BY <4>2 DEF Expected
        <5> QED BY <1>3, <4>2, <5>1, <5>3, <5>4, <5>5 DEF Transfer
      <4> QED BY <4>3, <4>4
    <3> QED BY <1>1, <1>3, <1>5, <3>1, <3>2 DEF Safe, Transfers
  <2>8. Kept' BY <1>3 DEF Safe, Kept, Told
  <2> QED BY <2>1, <2>2, <2>3, <2>4, <2>5, <2>6, <2>7, <2>8 DEF Safe

-----------------------------------------------------------------------------
(* What the manager has handled the first event of.                        *)
LEMMA Handled ==
  ASSUME TypeOK, events # <<>>
  PROVE  /\ Head(events) \in In(events) /\ Head(events) \in Notice
         /\ Tail(events) \in Seq(Notice)
         /\ In(events) = {Head(events)} \cup In(Tail(events))
         /\ \A f, g : <<f, g>> \in Pairs(Tail(events)) => <<f, g>> \in Pairs(events)
         /\ \A f \in In(Tail(events)) : <<Head(events), f>> \in Pairs(events)
<1>1. events \in Seq(Notice)
  BY DEF TypeOK
<1>2. Head(events) \in Notice /\ Tail(events) \in Seq(Notice)
  BY <1>1, HeadTailProperties
<1> QED BY <1>1, <1>2, TailQueue

LEMMA OrderedHandled ==
  ASSUME TypeOK, Ordered, events # <<>>, events' = Tail(events), spoiled \subseteq spoiled',
         \A f, g \in In(events') :
           f.type = "Destroyed" /\ f.from = requestor' => f.from = requestor \/ ~IsAnswer(g)
  PROVE  Ordered'
<1> SUFFICES ASSUME NEW f \in In(events'), NEW g \in In(events'), <<f, g>> \in Pairs(events')
             PROVE  InOrder(f, g)'
  BY DEF Ordered
<1>1. f \in In(events) /\ g \in In(events) /\ <<f, g>> \in Pairs(events)
  BY Handled
<1>2. InOrder(f, g)
  BY <1>1 DEF Ordered
<1> QED BY <1>2 DEF InOrder, IsAnswer, IsOutcome

(* ... and an event has come of that.                                      *)
LEMMA HandledCome ==
  ASSUME TypeOK, events # <<>>, NEW e \in Notice, events' = Append(Tail(events), e)
  PROVE  /\ In(events') = In(Tail(events)) \cup {e}
         /\ \A f, g : <<f, g>> \in Pairs(events') <=>
                        <<f, g>> \in Pairs(Tail(events)) \/ (f \in In(Tail(events)) /\ g = e)
BY Handled, AppendQueue

LEMMA PairsIn ==
  ASSUME NEW q, NEW f, NEW g, <<f, g>> \in Pairs(q)
  PROVE  f \in In(q) /\ g \in In(q)
BY PairsMeaning DEF In

LEMMA OrderedHandledCome ==
  ASSUME TypeOK, Ordered, events # <<>>, NEW e \in Notice, events' = Append(Tail(events), e),
         spoiled \subseteq spoiled',
         \A f, g \in In(Tail(events)) :
           f.type = "Destroyed" /\ f.from = requestor' => f.from = requestor \/ ~IsAnswer(g),
         \A f \in In(Tail(events)) : InOrder(f, e)'
  PROVE  Ordered'
<1> SUFFICES ASSUME NEW f, NEW g, <<f, g>> \in Pairs(events')
             PROVE  InOrder(f, g)'
  BY DEF Ordered
<1>1. CASE f \in In(Tail(events)) /\ g = e
  BY <1>1 DEF InOrder, IsAnswer, IsOutcome
<1>2. CASE <<f, g>> \in Pairs(Tail(events))
  <2>1. f \in In(Tail(events)) /\ g \in In(Tail(events))
    BY <1>2, PairsIn
  <2>2. <<f, g>> \in Pairs(events) /\ f \in In(events) /\ g \in In(events)
    BY <1>2, <2>1, Handled
  <2>3. InOrder(f, g)
    BY <2>2 DEF Ordered
  <2> QED BY <2>1, <2>3 DEF InOrder, IsAnswer, IsOutcome
<1> QED BY <1>1, <1>2, HandledCome

(* An event that changes nothing of what is saved.                         *)
LEMMA QuietSafe ==
  ASSUME TypeOK, Safe, events # <<>>, events' = Tail(events),
         Head(events).type \notin {"Targets", "Multiple", "Failed"},
         Head(events).type = "NewValue" => Head(events).targets \subseteq spoiled,
         \A c \in Client : /\ status'[c].time = status[c].time
                           /\ status'[c].is = "saved" => status[c].is = "saved",
         UNCHANGED <<owner, since, now, alive, copied, asks, sending, props, managing, offered>>,
         UNCHANGED <<contents, requestor, time, spoiled>>
  PROVE  Safe'
<1> DEFINE e == Head(events)
<1>1. /\ e.type \notin {"Targets", "Multiple", "Failed"}
      /\ e.type = "NewValue" => e.targets \subseteq spoiled
      /\ \A c \in Client : /\ status'[c].time = status[c].time
                           /\ status'[c].is = "saved" => status[c].is = "saved"
  OBVIOUS
<1>2. In(events) = {e} \cup In(events')
  BY Handled
<1>3. /\ UNCHANGED <<owner, since, now, alive, copied, asks, sending, props, managing, offered>>
      /\ UNCHANGED <<contents, requestor, time, spoiled>>
  OBVIOUS
<1> HIDE DEF e
<1>4. /\ \A type : Comes(type)' => Comes(type)
      /\ Closed => Closed'
      /\ \A a : LiveAsk(a)' <=> LiveAsk(a)
      /\ Live' <=> Live
      /\ \A t \in Target \ spoiled : Coming(t)' <=> Coming(t)
      /\ \A d \in Client : \A when : Taken(d, when)' <=> Taken(d, when)
      /\ Saved' = Saved
      /\ \A t : Of(t)' = Of(t)
  <2>1. \A t \in Target \ spoiled : Coming(t)' <=> Coming(t)
    BY <1>1, <1>2 DEF Coming
  <2>2. (\A a : LiveAsk(a)' <=> LiveAsk(a)) /\ (Live' <=> Live)
    BY <1>1, <1>2, <1>3 DEF Live, LiveAsk, IsAnswer
  <2> QED BY <1>1, <1>2, <1>3, <2>1, <2>2 DEF Comes, Closed, Taken, Saved, Of
<1> QED
  <2>1. Clock' BY <1>1, <1>3, <1>4 DEF Safe, Clock
  <2>2. Accepted' BY <1>1, <1>2, <1>3, <1>4 DEF Safe, Accepted, IsOutcome, TypeOK
  <2>3. Ordered' BY <1>3, OrderedHandled DEF Safe
  <2>4. Saves' BY <1>1, <1>2, <1>3, <1>4 DEF Safe, Saves, IsOutcome
  <2>5. Conversions'
    BY <1>1, <1>2, <1>3, <1>4 DEF Safe, Conversions, IsOutcome, IsAnswer
  <2>6. Phase'
    BY <1>1, <1>2, <1>3, <1>4 DEF Safe, Phase, Untouched, Awaited, Placed
  <2>7. Transfers'
    <3>1. ASSUME NEW t \in Target \ spoiled PROVE Transfer(t)'
      <4>1. Transfer(t)
        BY <3>1 DEF Safe, Transfers
      <4>2. Expected(t) => Expected(t)'
        BY <1>1, <1>2, <1>3, <1>4 DEF Expected
      <4>3. (NextPart(t) => NextPart(t)') /\ (Gathered(t) => Gathered(t)')
        BY <1>3, <1>4, <3>1 DEF NextPart, Gathered
      <4> QED BY <1>3, <1>4, <3>1, <4>1, <4>2, <4>3 DEF Transfer
    <3> QED BY <1>2, <1>3, <3>1 DEF Safe, Transfers
  <2>8. Kept'
    <3>1. Told' => Told
      BY <1>1, <1>3 DEF Told, TypeOK
    <3> QED BY <1>1, <1>3, <3>1 DEF Safe, Kept
  <2> QED BY <2>1, <2>2, <2>3, <2>4, <2>5, <2>6, <2>7, <2>8 DEF Safe

LEMMA SendIncrementallySafe ==
  ASSUME TypeOK, Safe, SendIncrementally
  PROVE  Safe'
<1>1. /\ events # <<>> /\ events' = Tail(events) /\ Head(events).type = "Deleted"
      /\ UNCHANGED <<owner, since, now, alive, copied, asks, sending, props, managing, offered>>
      /\ UNCHANGED <<contents, requestor, time, spoiled, status>>
  BY DEF SendIncrementally, Handles
<1> QED BY <1>1, QuietSafe

LEMMA ConvertClipboardSafe ==
  ASSUME TypeOK, Safe, ConvertClipboard
  PROVE  Safe'
<1>1. events # <<>> /\ Head(events).type = "Request"
  BY DEF ConvertClipboard, Handles
<1>2. Head(events).from # Manager
  BY <1>1, Handled DEF Safe, Conversions
<1>3. events' = Tail(events)
  <2>1. events' = Tail(events) \o <<>>
    BY <1>2 DEF ConvertClipboard, OwnAnswer
  <2> QED BY <2>1, <1>1, Handled, ConcatEmptySeq
<1>4. /\ UNCHANGED <<owner, since, now, alive, copied, asks, sending, props, managing, offered>>
      /\ UNCHANGED <<contents, requestor, time, spoiled, status>>
  BY <1>2 DEF ConvertClipboard
<1> QED BY <1>1, <1>3, <1>4, QuietSafe

(* What is saved can be given up when no answer is to come.                *)
LEMMA FreedSafe ==
  ASSUME TypeOK, TypeOK', Safe, events # <<>>, events' = Tail(events), ~Live,
         Head(events).type \in {"Clear", "Destroyed"},
         owner # Manager \/ ~Told,
         requestor' = NoWindow, FreeContents,
         UNCHANGED <<owner, since, now, alive, copied, asks, sending, props, managing, status,
           offered, time>>
  PROVE  Safe'
<1> DEFINE e == Head(events)
<1>1. In(events) = {e} \cup In(events') /\ e.type \in {"Clear", "Destroyed"}
  BY Handled
<1>2. /\ UNCHANGED <<owner, since, now, alive, copied, asks, sending, props, managing, status,
           offered, time>>
      /\ requestor' = NoWindow /\ contents' = Nothing
      /\ spoiled' = spoiled \cup {t \in Target : contents[t].type = "incr"}
  BY DEF FreeContents
<1> HIDE DEF e
<1>3. ~Live'
  BY <1>1, <1>2 DEF Live, LiveAsk
<1>4. /\ \A type : Comes(type)' => Comes(type)
      /\ \A type : type \notin {"Clear", "Destroyed"} => (Comes(type)' <=> Comes(type))
      /\ Closed <=> Closed'
      /\ \A t : Coming(t)' <=> Coming(t)
      /\ \A d, when : Taken(d, when)' <=> Taken(d, when)
      /\ Saved' = {}
      /\ \A t : Of(t)' = Of(t)
  <2>1. Saved' = {}
    BY <1>2 DEF Saved, Nothing
  <2> QED BY <1>1, <1>2, <2>1 DEF Comes, Closed, Coming, Taken, Of
<1>5. \A t \in Target : contents'[t] = None
  BY <1>2 DEF Nothing
<1>6. (\A a \in asks' : ~LiveAsk(a)') /\ (\A f \in In(events') : ~IsAnswer(f))
  BY <1>3 DEF Live, IsAnswer
<1> QED
  <2>1. Clock' BY <1>2, <1>4 DEF Safe, Clock
  <2>2. Accepted' BY <1>1, <1>2, <1>4 DEF Safe, Accepted, IsOutcome
  <2>3. Ordered' BY <1>2, <1>6, OrderedHandled DEF Safe
  <2>4. Saves' BY <1>1, <1>2, <1>4 DEF Safe, Saves, IsOutcome
  <2>5. Conversions'
    BY <1>1, <1>2, <1>3, <1>6 DEF Safe, Conversions, IsOutcome, IsAnswer
  <2>6. Phase'
    BY <1>5, <1>6 DEF Phase, IsAnswer, None
  <2>7. Transfers'
    <3>1. ASSUME NEW t \in Target \ spoiled' PROVE Transfer(t)'
      <4>1. Transfer(t) /\ contents[t].type # "incr"
        BY <1>2, <3>1 DEF Safe, Transfers
      <4>2. Expected(t) => Expected(t)'
        BY <1>3, <1>4, <4>1 DEF Expected, Live, IsAnswer
      <4> QED BY <1>2, <1>4, <1>5, <3>1, <4>1, <4>2 DEF Transfer, None
    <3> QED BY <1>1, <1>2, <3>1 DEF Safe, Transfers
  <2>8. Kept'
    <3>1. Told' <=> Told
      BY <1>2 DEF Told
    <3> QED BY <1>2, <3>1 DEF Safe, Kept
  <2> QED BY <2>1, <2>2, <2>3, <2>4, <2>5, <2>6, <2>7, <2>8 DEF Safe

(* Nothing is answered any more when the clipboard is lost.                *)
LEMMA ClipboardLostSafe ==
  ASSUME TypeOK, TypeOK', Safe, ClipboardLost
  PROVE  Safe'
<1>1. events # <<>> /\ events' = Tail(events) /\ Head(events).type = "Clear"
  BY DEF ClipboardLost, Handles
<1>2. Comes("Clear")
  BY <1>1, Handled DEF Comes
<1>3. ~Live /\ owner # Manager
  BY <1>2 DEF Safe, Conversions, Saves
<1>4. /\ UNCHANGED <<owner, since, now, alive, copied, asks, sending, props, managing, status,
           offered, time>>
      /\ requestor' = NoWindow /\ FreeContents
  BY DEF ClipboardLost
<1> QED BY <1>1, <1>3, <1>4, FreedSafe

(* Nor is there an answer once the end of its client is known.             *)
LEMMA RequestorDestroyedSafe ==
  ASSUME TypeOK, TypeOK', Safe, RequestorDestroyed
  PROVE  Safe'
<1> DEFINE e == Head(events)
<1>1. events # <<>> /\ events' = Tail(events) /\ e.type = "Destroyed"
  BY DEF RequestorDestroyed, Handles
<1>2. CASE e.from # requestor
  <2>1. /\ UNCHANGED <<owner, since, now, alive, copied, asks, sending, props, managing, offered>>
        /\ UNCHANGED <<contents, requestor, time, spoiled, status>>
    BY <1>2 DEF RequestorDestroyed
  <2> QED BY <1>1, <2>1, QuietSafe
<1>3. CASE e.from = requestor
  <2>1. e \in In(events) /\ \A f \in In(events) : f = e \/ <<e, f>> \in Pairs(events)
    BY <1>1, Handled
  <2>2. \A f \in In(events) : ~IsAnswer(f)
    BY <1>1, <1>3, <2>1 DEF Safe, Ordered, InOrder, IsAnswer
  <2>3. requestor \in Client \ alive
    BY <1>1, <1>3, <2>1 DEF Safe, Saves
  <2>4. ~Live /\ ~Told
    BY <2>2, <2>3, ClientsAssumption DEF Live, Safe, Saves, Conversions, Kept
  <2>5. /\ UNCHANGED <<owner, since, now, alive, copied, asks, sending, props, managing, status,
             offered, time>>
        /\ requestor' = NoWindow /\ FreeContents
    BY <1>3 DEF RequestorDestroyed
  <2> QED BY <1>1, <2>4, <2>5, FreedSafe
<1> QED BY <1>2, <1>3

(* A failure is that of the conversion in progress, which nothing else     *)
(* answers.                                                                *)
LEMMA ConversionFailedSafe ==
  ASSUME TypeOK, TypeOK', Safe, ~mistaken', ConversionFailed
  PROVE  Safe'
<1> DEFINE e == Head(events)
<1>1. events # <<>> /\ events' = Tail(events) /\ e.type = "Failed" /\ e.time = time
  BY DEF ConversionFailed, Handles
<1>2. In(events) = {e} \cup In(events') /\ \A f \in In(events') : <<e, f>> \in Pairs(events)
  BY <1>1, Handled
<1>3. /\ UNCHANGED <<owner, since, now, alive, copied, asks, sending, props, managing, offered>>
      /\ UNCHANGED <<contents, time, spoiled>> /\ requestor' = NoWindow
      /\ Notify(requestor, time, "failed")
  BY DEF ConversionFailed
<1>4. \A c \in Client : /\ status'[c].time = status[c].time
                        /\ status'[c].is = "saved" => status[c].is = "saved"
  BY <1>3 DEF Notify, TypeOK
<1>5. e.type = "Failed" /\ e.time = time
  BY <1>1
<1> HIDE DEF e
<1>6. (\A a \in asks : ~LiveAsk(a)) /\ (\A f \in In(events) : ~IsAnswer(f))
  BY <1>2, <1>5 DEF Safe, Conversions, Ordered, InOrder, IsOutcome, IsAnswer
<1>7. (\A a \in asks' : ~LiveAsk(a)') /\ (\A f \in In(events') : ~IsAnswer(f)) /\ ~Live /\ ~Live'
  BY <1>2, <1>3, <1>6 DEF Live, LiveAsk
<1>8. /\ \A type : Comes(type)' => Comes(type)
      /\ Closed' <=> Closed
      /\ \A t : Coming(t)' <=> Coming(t)
      /\ \A d \in Client : \A when : Taken(d, when)' <=> Taken(d, when)
      /\ Saved' = Saved
      /\ \A t : Of(t)' = Of(t)
  BY <1>2, <1>3, <1>4, <1>5 DEF Comes, Closed, Coming, Taken, Saved, Of
<1> QED
  <2>1. Clock' BY <1>3, <1>4, <1>8 DEF Safe, Clock
  <2>2. Accepted' BY <1>2, <1>3, <1>8 DEF Safe, Accepted, IsOutcome
  <2>3. Ordered' BY <1>1, <1>3, <1>7, OrderedHandled DEF Safe
  <2>4. Saves' BY <1>2, <1>3, <1>8 DEF Safe, Saves, IsOutcome
  <2>5. Conversions'
    BY <1>2, <1>3, <1>7 DEF Safe, Conversions, IsOutcome, IsAnswer
  <2>6. Phase'
    BY <1>3, <1>7, <1>8 DEF Safe, Phase, IsAnswer
  <2>7. Transfers'
    <3>1. ASSUME NEW t \in Target \ spoiled PROVE Transfer(t)'
      <4>1. Transfer(t)
        BY <3>1 DEF Safe, Transfers
      <4>2. Expected(t) => Expected(t)'
        BY <1>3, <1>6, <1>7, <1>8 DEF Expected, IsAnswer
      <4>3. (NextPart(t) => NextPart(t)') /\ (Gathered(t) => Gathered(t)')
        BY <1>3, <1>8, <3>1 DEF NextPart, Gathered
      <4> QED BY <1>3, <1>8, <3>1, <4>1, <4>2, <4>3 DEF Transfer
    <3> QED BY <1>2, <1>3, <3>1 DEF Safe, Transfers
  <2>8. Kept'
    <3>1. \A c \in Client : status[c] = [is |-> status[c].is, time |-> status[c].time]
      BY DEF TypeOK
    <3>2. Told' => Told
      BY <1>3, <1>4, <3>1 DEF Told
    <3> QED BY <1>3, <1>4, <3>2 DEF Safe, Kept
  <2> QED BY <2>1, <2>2, <2>3, <2>4, <2>5, <2>6, <2>7, <2>8 DEF Safe

(* Nobody asks the manager to save anything once it has been replaced.     *)
LEMMA ManagerLostSafe ==
  ASSUME TypeOK, TypeOK', Safe, ManagerLost
  PROVE  Safe'
<1> DEFINE e == Head(events)
<1>0. PICK x : x = Event("Clear", NoWindow, {}, time)
  OBVIOUS
<1>1. events # <<>> /\ e.type = "ManagerClear" /\ x \in Notice /\ x.type = "Clear"
  BY <1>0, EventTyped DEF ManagerLost, Handles, Event, TypeOK
<1>2. /\ owner = Manager /\ owner' # Manager => events' = Append(Tail(events), x)
      /\ owner # Manager \/ owner' = Manager => events' = Tail(events)
  <2>1. Tail(events) \in Seq(Notice)
    BY <1>1, Handled
  <2>2. CASE owner = Manager /\ owner' # Manager
    <3>1. events' = Tail(events) \o <<x>>
      BY <1>0, <2>2 DEF ManagerLost
    <3> QED BY <1>1, <2>1, <2>2, <3>1, AppendIsConcat
  <2>3. CASE ~(owner = Manager /\ owner' # Manager)
    <3>1. events' = Tail(events) \o <<>>
      BY <2>3 DEF ManagerLost
    <3> QED BY <2>1, <2>3, <3>1, ConcatEmptySeq
  <2> QED BY <2>2, <2>3
<1>3. /\ UNCHANGED <<now, alive, copied, asks, sending, props, managing, status, offered>>
      /\ UNCHANGED <<requestor, time>> /\ contents' = Nothing
      /\ spoiled' = spoiled \cup {t \in Target : contents[t].type = "incr"}
  BY DEF ManagerLost, FreeContents
<1>4. \/ owner' = owner /\ since' = since
      \/ owner' = NoWindow /\ since' = time /\ time >= since
  BY DEF ManagerLost, SetOwner
<1>5. /\ In(events) = {e} \cup In(Tail(events)) /\ In(Tail(events)) \subseteq In(events')
      /\ In(events') \subseteq In(Tail(events)) \cup {x}
      /\ \A f \in In(Tail(events)) : <<e, f>> \in Pairs(events)
  BY <1>1, <1>2, Handled, HandledCome
<1> HIDE DEF e
<1>6. ~managing /\ ~Comes("SaveTargets")
  BY <1>1, <1>5 DEF Safe, Saves, Comes, Ordered, InOrder
<1>7. /\ \A type : type \notin {"ManagerClear", "Clear"} => (Comes(type)' <=> Comes(type))
      /\ Comes("ManagerClear")' => Comes("ManagerClear")
      /\ Closed' /\ Closed
      /\ \A a : LiveAsk(a)' <=> LiveAsk(a)
      /\ Live' <=> Live
      /\ \A t : Coming(t)' <=> Coming(t)
      /\ \A d, when : Taken(d, when)' <=> Taken(d, when)
      /\ Saved' = {}
      /\ \A t : Of(t)' = Of(t)
  <2>1. Saved' = {}
    BY <1>3 DEF Saved, Nothing
  <2> QED BY <1>1, <1>3, <1>5, <1>6, <2>1
          DEF Comes, Closed, Live, LiveAsk, IsAnswer, Coming, Taken, Of
<1>8. \A t \in Target : contents'[t] = None
  BY <1>3 DEF Nothing
<1>9. owner # Manager \/ owner' = Manager => In(events') = In(Tail(events))
  BY <1>2
<1> QED
  <2>1. Clock'
    <3>1. time <= now
      BY Facts DEF Safe, Accepted, Clock, Taken
    <3>2. since' <= now' /\ since <= since'
      BY <1>3, <1>4, <3>1, Facts DEF Safe, Clock
    <3>3. \A c \in Client : status'[c].time <= since'
      BY <1>3, <1>4, <3>2, Facts DEF Safe, Clock
    <3> QED BY <1>3, <1>4, <1>7, <3>2, <3>3, ClientsAssumption DEF Safe, Clock
  <2>2. Accepted' BY <1>1, <1>3, <1>5, <1>7 DEF Safe, Accepted, IsOutcome
  <2>3. Ordered'
    <3>1. \A f \in In(Tail(events)) : InOrder(f, x)'
      BY <1>1, <1>5, <1>6 DEF InOrder, IsOutcome, IsAnswer, Comes
    <3>2. CASE owner = Manager /\ owner' # Manager
      BY <1>1, <1>2, <1>3, <3>1, <3>2, OrderedHandledCome DEF Safe
    <3>3. CASE owner # Manager \/ owner' = Manager
      BY <1>1, <1>2, <1>3, <3>3, OrderedHandled DEF Safe
    <3> QED BY <3>2, <3>3
  <2>4. Saves'
    <3>1. owner' = Manager => ~Comes("Clear")'
      BY <1>1, <1>4, <1>5, <1>9, ClientsAssumption DEF Safe, Saves, Comes
    <3> QED BY <1>1, <1>3, <1>5, <1>6, <1>7, <3>1 DEF Safe, Saves, IsOutcome, Closed, Comes
  <2>5. Conversions'
    <3>1. Live' => ~Comes("Clear")' /\ owner' # Manager
      BY <1>4, <1>5, <1>7, <1>9, ClientsAssumption DEF Safe, Conversions, Comes
    <3> QED BY <1>1, <1>3, <1>5, <1>7, <3>1 DEF Safe, Conversions, IsOutcome, IsAnswer
  <2>6. Phase'
    <3>1. Untouched' /\ \A targets \in SUBSET Target : Awaited(targets)'
      BY <1>7, <1>8 DEF Untouched, Awaited
    <3>2. ASSUME NEW f \in In(events'), f.type = "Multiple"
          PROVE  /\ offered'[f.time] = f.targets /\ f.targets \in SUBSET Target
                 /\ \A t \in f.targets \ spoiled' : Placed(t)'
      BY <1>1, <1>3, <1>5, <3>2, Facts DEF Safe, Phase, Placed, Notice
    <3>3. \A a \in asks' : a.targets \in SUBSET Target
      BY <1>3 DEF TypeOK, Ask
    <3> QED BY <1>7, <1>8, <3>1, <3>2, <3>3 DEF Phase, None
  <2>7. Transfers'
    <3>1. ASSUME NEW t \in Target \ spoiled' PROVE Transfer(t)'
      <4>1. Transfer(t) /\ contents[t].type # "incr"
        BY <1>3, <3>1 DEF Safe, Transfers
      <4>2. Expected(t) => Expected(t)'
        BY <1>1, <1>5, <1>7, <4>1 DEF Expected
      <4> QED BY <1>3, <1>7, <1>8, <3>1, <4>1, <4>2 DEF Transfer, None
    <3> QED BY <1>1, <1>3, <1>5, <3>1 DEF Safe, Transfers
  <2>8. Kept'
    <3>1. Told' <=> Told
      BY <1>3 DEF Told
    <3>2. owner' = Manager => since' = time
      BY <1>4, ClientsAssumption DEF Safe, Kept
    <3> QED BY <1>3, <1>6, <1>8, <3>1, <3>2 DEF Safe, Kept, None
  <2> QED BY <2>1, <2>2, <2>3, <2>4, <2>5, <2>6, <2>7, <2>8 DEF Safe

(* The manager asks for a conversion.  A client that has copied after the  *)
(* requestor refuses it; what came of earlier conversions is known.        *)
LEMMA ConvertSafe ==
  ASSUME TypeOK, TypeOK', Safe, events # <<>>,
         NEW what \in {"TARGETS", "MULTIPLE"}, NEW targets \in SUBSET Target, NEW when \in Time,
         what = "TARGETS" => targets = {},
         Convert(what, targets, when, Tail(events)),
         time' = when, time <= when, requestor' \in Client, Taken(requestor', when),
         contents' = [t \in Target |-> IF t \in targets THEN Pending ELSE None],
         UNCHANGED <<owner, since, now, alive, copied, sending, props, managing, status, offered,
           spoiled>>,
         owner # Manager, ~Comes("Clear"), ~Comes("Request"),
         \A c \in Client : status[c] # [is |-> "saved", time |-> when],
         \A a \in asks : ~LiveAsk(a) /\ a.time # when,
         \A f \in In(Tail(events)) :
           /\ ~IsAnswer(f)
           /\ f.type = "Failed" => f.time # when
           /\ f.type = "SaveTargets" => when < f.time,
         \A t \in Target \ spoiled : Of(t) = {} /\ props[t] = Absent /\ ~Coming(t)
  PROVE  Safe'
<1> DEFINE a == [to |-> owner, what |-> what, targets |-> targets, time |-> when]
<1>0. PICK x : x = Event("Failed", NoWindow, {}, when)
  OBVIOUS
<1>1. x \in Notice /\ x.type = "Failed" /\ x.time = when /\ when \in Nat
  <2>1. when \in Nat
    BY ClientsAssumption DEF Time
  <2> QED BY <1>0, <2>1, EventTyped DEF Event
<1>2. \/ /\ owner \in Client /\ events' = Tail(events)
         /\ asks' = asks \cup {a}
      \/ /\ owner \notin Client /\ events' = Append(Tail(events), x) /\ asks' = asks
  BY <1>0 DEF Convert, TypeOK
<1>3. /\ UNCHANGED <<owner, since, now, alive, copied, sending, props, managing, status, offered,
           spoiled>>
      /\ time' = when
      /\ contents' = [t \in Target |-> IF t \in targets THEN Pending ELSE None]
  OBVIOUS
<1>4. /\ In(Tail(events)) \subseteq In(events)
      /\ In(Tail(events)) \subseteq In(events') /\ In(events') \subseteq In(Tail(events)) \cup {x}
      /\ x \in In(events') => owner \notin Client /\ asks' = asks
  <2>1. CASE owner \in Client
    <3>1. In(events') = In(Tail(events))
      BY <1>2, <2>1
    <3>2. x \notin In(Tail(events)) 
      BY <1>1
    <3> QED BY <3>1, <3>2, Handled
  <2>2. CASE owner \notin Client
    BY <1>1, <1>2, <2>2, Handled, HandledCome
  <2> QED BY <2>1, <2>2
<1>5. a.to = owner /\ a.time = when /\ a.what = what /\ a.targets = targets
  OBVIOUS
<1> HIDE DEF a
<1>6. asks \subseteq asks' /\ asks' \subseteq asks \cup {a} /\ (a \in asks' => owner \in Client)
  <2>1. a \notin asks
    BY <1>5
  <2> QED BY <1>2, <2>1
<1>7. /\ \A type : type # "Failed" => (Comes(type)' => Comes(type))
      /\ Closed => Closed'
      /\ \A b : LiveAsk(b)' <=> LiveAsk(b)
      /\ \A t \in Target \ spoiled : ~Coming(t)'
      /\ \A d, w : Taken(d, w)' <=> Taken(d, w)
      /\ \A t : Of(t)' = Of(t)
  BY <1>1, <1>3, <1>4 DEF Comes, Closed, LiveAsk, Coming, Taken, Of
<1>8. owner \in Client /\ LiveAsk(a) => owner = requestor'
  <2>1. SUFFICES ASSUME owner \in Client, copied[owner] <= when, owner # requestor' PROVE FALSE
    BY <1>5 DEF LiveAsk
  <2>2. copied[owner] = since /\ since # when
    BY <2>1 DEF Safe, Clock, Taken
  <2>3. when <= status[requestor'].time /\ status[requestor'].time <= since
    BY DEF Safe, Clock, Taken
  <2> QED BY <1>1, <2>1, <2>2, <2>3, Facts
<1>9. \A t \in Target : contents'[t] = IF t \in targets THEN Pending ELSE None
  BY <1>3
<1> QED
  <2>1. Clock' BY <1>3, <1>7 DEF Safe, Clock
  <2>2. Accepted'
    <3>1. PICK r \in Client : r = requestor' /\ Taken(r, when)
      OBVIOUS
    <3>2. r \in Client /\ Taken(r, when)'
      BY <1>7, <3>1
    <3>3. Taken(requestor, time)'
      BY <1>3, <3>1, <3>2 DEF Taken
    <3>4. \A b \in asks' : \E c \in Client : Taken(c, b.time)'
      BY <1>5, <1>6, <1>7, <3>2 DEF Safe, Accepted
    <3>5. \A f \in In(events') :
            /\ f.type = "SaveTargets" => f.from \in Client /\ Taken(f.from, f.time)'
            /\ IsOutcome(f) => \E c \in Client : Taken(c, f.time)'
      BY <1>1, <1>4, <1>7, <3>2 DEF Safe, Accepted, IsOutcome
    <3> QED BY <1>3, <3>2, <3>3, <3>4, <3>5 DEF Accepted, Taken, IsOutcome
  <2>3. Ordered'
    <3>1. \A f, g \in In(Tail(events)) : ~IsAnswer(g)
      OBVIOUS
    <3>2. CASE events' = Tail(events)
      BY <1>3, <3>1, <3>2, OrderedHandled DEF Safe
    <3>3. CASE events' = Append(Tail(events), x)
      <4>1. \A f \in In(Tail(events)) : InOrder(f, x)'
        BY <1>1 DEF InOrder, IsOutcome, IsAnswer
      <4> QED BY <1>1, <1>3, <3>1, <3>3, <4>1, OrderedHandledCome DEF Safe
    <3> QED BY <1>2, <3>2, <3>3
  <2>4. Saves'
    <3>1. ASSUME NEW f \in In(events'), f.type = "SaveTargets"
          PROVE  /\ when < f.time
                 /\ \A b \in asks' : b.time < f.time
                 /\ \A g \in In(events') : IsOutcome(g) => g.time < f.time
      <4>1. f \in In(Tail(events)) /\ f \in In(events) /\ when < f.time
        BY <1>1, <1>4, <3>1
      <4>2. \A b \in asks' : b.time < f.time
        BY <1>5, <1>6, <3>1, <4>1 DEF Safe, Saves
      <4>3. \A g \in In(events') : IsOutcome(g) => g.time < f.time
        BY <1>1, <1>4, <3>1, <4>1 DEF Safe, Saves
      <4> QED BY <4>1, <4>2, <4>3
    <3>2. \A b \in asks' : b.to \in alive'
      BY <1>3, <1>5, <1>6 DEF Safe, Saves, Clock
    <3> QED BY <1>1, <1>3, <1>4, <1>7, <3>1, <3>2 DEF Safe, Saves, IsOutcome
  <2>5. Conversions'
    <3>1. \A b, c \in asks' : b.time = c.time => b = c
      BY <1>5, <1>6 DEF Safe, Conversions
    <3>2. ASSUME NEW b \in asks', NEW f \in In(events'), IsOutcome(f) PROVE b.time # f.time
      <4>1. CASE f = x
        BY <1>1, <1>4, <3>2, <4>1
      <4>2. CASE f \in In(Tail(events))
        BY <1>4, <1>5, <1>6, <3>2, <4>2 DEF Safe, Conversions, IsOutcome, IsAnswer
      <4> QED BY <1>4, <4>1, <4>2
    <3>3. \A b \in asks' : LiveAsk(b)' => b.to = requestor' /\ b.time = time'
      BY <1>3, <1>5, <1>6, <1>7, <1>8
    <3>4. \A f \in In(events') : ~IsAnswer(f)
      BY <1>1, <1>4 DEF IsAnswer
    <3>5. requestor' # NoWindow /\ owner' # Manager /\ ~Comes("Clear")' /\ ~Comes("Request")'
      BY <1>3, <1>7, ClientsAssumption
    <3>6. \A f \in In(events') : f.type = "Request" => f.from # Manager
      BY <1>1, <1>4 DEF Safe, Conversions
    <3> QED BY <3>1, <3>2, <3>3, <3>4, <3>5, <3>6 DEF Conversions, IsOutcome, IsAnswer
  <2>6. Phase'
    <3>1. Untouched' /\ Awaited(targets)'
      BY <1>9 DEF Untouched, Awaited
    <3>2. targets = {} => Saved' = {}
      BY <1>9 DEF Saved
    <3>3. \A b \in asks' : LiveAsk(b)' => b = a
      BY <1>6, <1>7
    <3>4. \A f \in In(events') : f.type \notin {"Targets", "Multiple"}
      BY <1>1, <1>4 DEF IsAnswer
    <3>5. owner' # Manager /\ ~Comes("Request")'
      BY <1>3, <1>7
    <3> QED BY <1>5, <3>1, <3>2, <3>3, <3>4, <3>5 DEF Phase
  <2>7. Transfers'
    <3>1. ASSUME NEW t \in Target \ spoiled PROVE Transfer(t)'
      <4>1. contents'[t].type \in {"none", "pending"}
        BY <1>9, <3>1 DEF None, Pending
      <4> QED BY <1>3, <1>7, <3>1, <4>1 DEF Transfer
    <3> QED BY <1>1, <1>3, <1>4, <3>1 DEF Safe, Transfers
  <2>8. Kept'
    <3>1. ~Told'
      BY <1>3 DEF Told
    <3>2. \A c \in Client : status[c].is = "saved" => status[c].time <= when
      BY <1>1, Facts DEF Safe, Kept
    <3> QED BY <1>3, <3>1, <3>2 DEF Kept
  <2> QED BY <2>1, <2>2, <2>3, <2>4, <2>5, <2>6, <2>7, <2>8 DEF Safe

(* Nothing is left of earlier conversions when a request is accepted.      *)
LEMMA AcceptRequestSafe ==
  ASSUME TypeOK, TypeOK', Safe, Handles("SaveTargets"), AcceptRequest(Head(events)),
         UNCHANGED <<owner, since, now, alive, copied, sending, props, managing, status, offered,
           spoiled>>
  PROVE  Safe'
<1> DEFINE e == Head(events)
           what == IF e.targets = {} THEN "TARGETS" ELSE "MULTIPLE"
<1>1. /\ events # <<>> /\ e.type = "SaveTargets" /\ e \in In(events) /\ e \in Notice
      /\ In(events) = {e} \cup In(Tail(events))
      /\ \A f \in In(Tail(events)) : <<e, f>> \in Pairs(events)
  BY Handled DEF Handles
<1>2. requestor = NoWindow /\ Saved = {} /\ requestor' = e.from /\ time' = e.time
  BY DEF AcceptRequest
<1>3. contents' = [t \in Target |-> IF t \in e.targets THEN Pending ELSE None]
  <2>1. \A t \in Target : contents[t] = None
    BY <1>2 DEF Saved
  <2>2. e.targets = {} => contents' = contents
    BY DEF AcceptRequest
  <2>3. e.targets # {} =>
          contents' = [t \in Target |-> IF t \in e.targets THEN Pending ELSE contents[t]]
    BY DEF AcceptRequest, SaveTargetsOf
  <2>4. contents = [t \in Target |-> contents[t]]
    BY DEF TypeOK
  <2> QED BY <2>1, <2>2, <2>3, <2>4
<1>4. Convert(what, e.targets, e.time, Tail(events))
  BY DEF AcceptRequest, SaveTargetsOf
<1>5. e.time \in Time /\ e.targets \in SUBSET Target
  BY <1>1 DEF Notice
<1> HIDE DEF e
<1>6. what \in {"TARGETS", "MULTIPLE"} /\ (what = "TARGETS" => e.targets = {})
  OBVIOUS
<1> HIDE DEF what
<1>7. e.from \in Client /\ Taken(e.from, e.time) /\ Comes("SaveTargets")
  BY <1>1 DEF Safe, Accepted, Comes
<1>8. ~Live
  BY <1>2 DEF Safe, Conversions
<1>9. owner # Manager /\ ~Comes("Clear") /\ ~Comes("Request")
  BY <1>1, <1>7 DEF Safe, Saves, Ordered, InOrder, Comes
<1>10. \A a \in asks : ~LiveAsk(a) /\ a.time # e.time
  BY <1>1, <1>8, Facts DEF Live, Safe, Saves
<1>11. \A f \in In(Tail(events)) :
         /\ ~IsAnswer(f)
         /\ f.type = "Failed" => f.time # e.time
         /\ f.type = "SaveTargets" => e.time < f.time
  <2>1. \A f \in In(Tail(events)) : ~IsAnswer(f)
    BY <1>1, <1>8 DEF Live
  <2>2. \A f \in In(Tail(events)) : f.type = "Failed" => f.time < e.time
    BY <1>1 DEF Safe, Saves, IsOutcome
  <2>3. \A f \in In(Tail(events)) : f.type = "SaveTargets" => e.time < f.time
    BY <1>1 DEF Safe, Ordered, InOrder
  <2> QED BY <1>1, <2>1, <2>2, <2>3, Facts
<1>12. ASSUME NEW t \in Target \ spoiled
       PROVE  Of(t) = {} /\ props[t] = Absent /\ ~Coming(t)
  <2>1. contents[t] = None
    BY <1>2 DEF Saved
  <2>2. ~Expected(t)
    BY <1>7, <1>8, <2>1 DEF Expected, Closed, Live, IsAnswer, None
  <2> QED BY <2>1, <2>2 DEF Safe, Transfers, Transfer, None
<1>13. time <= e.time /\ time < e.time
  BY <1>1, Facts DEF Safe, Saves
<1>14. \A c \in Client : status[c] # [is |-> "saved", time |-> e.time]
  BY <1>1, <1>13, Facts DEF Safe, Kept
<1> QED BY <1>1, <1>2, <1>3, <1>4, <1>5, <1>6, <1>7, <1>9, <1>10, <1>11, <1>12, <1>13, <1>14,
           ConvertSafe

LEMMA ConvertClipboardManagerSafe ==
  ASSUME TypeOK, TypeOK', Safe, ConvertClipboardManager
  PROVE  Safe'
<1> DEFINE e == Head(events)
<1>1. /\ Handles("SaveTargets") /\ events # <<>> /\ e.type = "SaveTargets"
      /\ UNCHANGED <<owner, since, now, alive, copied, sending, props, managing, offered, spoiled>>
  BY DEF ConvertClipboardManager, Handles
<1>2. CASE AcceptRequest(e)
  <2>1. status' = status
    BY <1>2 DEF AcceptRequest
  <2> QED BY <1>1, <1>2, <2>1, AcceptRequestSafe
<1>3. CASE RefuseToSave(e)
  <2>1. \A c \in Client : /\ status'[c].time = status[c].time
                          /\ status'[c].is = "saved" => status[c].is = "saved"
    BY <1>3 DEF RefuseToSave, Notify, TypeOK
  <2>2. events' = Tail(events) /\ UNCHANGED <<asks, contents, requestor, time>>
    BY <1>3 DEF RefuseToSave
  <2> QED BY <1>1, <2>1, <2>2, QuietSafe
<1>4. CASE DropRequest(e)
  <2>1. events' = Tail(events) /\ UNCHANGED <<asks, contents, requestor, time, status>>
    BY <1>4 DEF DropRequest
  <2> QED BY <1>1, <2>1, QuietSafe
<1> QED BY <1>2, <1>3, <1>4 DEF ConvertClipboardManager

(* An answer is the last that is heard of its conversion.                  *)
LEMMA AnswerHandled ==
  ASSUME TypeOK, Safe, events # <<>>, IsAnswer(Head(events))
  PROVE  /\ Live /\ requestor \in Client /\ Taken(requestor, time)
         /\ Head(events).time = time
         /\ owner # Manager /\ ~Comes("Clear") /\ ~Comes("Request")
         /\ \A a \in asks : ~LiveAsk(a) /\ a.time # time
         /\ \A f \in In(Tail(events)) :
              /\ ~IsAnswer(f)
              /\ f.type = "Failed" => f.time # time
              /\ f.type = "SaveTargets" => time < f.time
         /\ \A c \in Client : status[c] # [is |-> "saved", time |-> time]
<1> DEFINE e == Head(events)
<1>1. /\ e \in In(events) /\ In(events) = {e} \cup In(Tail(events)) /\ IsAnswer(e)
      /\ \A f \in In(Tail(events)) : <<e, f>> \in Pairs(events)
  BY Handled
<1> HIDE DEF e
<1>2. e.time = time /\ Live
  BY <1>1 DEF Safe, Conversions, Live
<1>3. requestor \in Client /\ Taken(requestor, time)
  BY <1>2 DEF Safe, Conversions, Accepted, TypeOK
<1>4. \A a \in asks : ~LiveAsk(a) /\ a.time # time
  BY <1>1, <1>2 DEF Safe, Conversions, IsOutcome, IsAnswer
<1>5. \A f \in In(Tail(events)) :
        /\ ~IsAnswer(f)
        /\ f.type = "Failed" => f.time # time
        /\ f.type = "SaveTargets" => time < f.time
  BY <1>1, <1>2 DEF Safe, Conversions, Ordered, InOrder, Saves, IsOutcome, IsAnswer
<1>6. \A c \in Client : status[c] # [is |-> "saved", time |-> time]
  BY <1>2 DEF Safe, Conversions, Kept, Told
<1> QED BY <1>2, <1>3, <1>4, <1>5, <1>6 DEF e, Safe, Conversions

LEMMA TargetsReceivedSafe ==
  ASSUME TypeOK, TypeOK', Safe, TargetsReceived
  PROVE  Safe'
<1> DEFINE e == Head(events)
<1>1. /\ events # <<>> /\ e.type = "Targets" /\ e \in In(events) /\ e.targets \in SUBSET Target
      /\ IsAnswer(e)
  BY Handled DEF TargetsReceived, Handles, Notice, IsAnswer
<1>2. /\ SaveTargetsOf(e.targets, time)
      /\ UNCHANGED <<owner, since, now, alive, copied, sending, props, managing, status, offered,
           requestor, time, spoiled>>
  BY DEF TargetsReceived
<1>3. /\ Live /\ requestor \in Client /\ Taken(requestor, time)
      /\ owner # Manager /\ ~Comes("Clear") /\ ~Comes("Request")
      /\ \A a \in asks : ~LiveAsk(a) /\ a.time # time
      /\ \A f \in In(Tail(events)) :
           /\ ~IsAnswer(f)
           /\ f.type = "Failed" => f.time # time
           /\ f.type = "SaveTargets" => time < f.time
      /\ \A c \in Client : status[c] # [is |-> "saved", time |-> time]
  BY <1>1, AnswerHandled
<1>4. \A f \in In(events) : f.type # "Multiple"
  BY <1>1, <1>3, Handled DEF IsAnswer
<1> HIDE DEF e
<1>5. Saved = {}
  BY <1>1 DEF Safe, Phase
<1>6. \A t \in Target : contents[t] = None
  BY <1>5 DEF Saved
<1>7. ASSUME NEW t \in Target \ spoiled
      PROVE  Of(t) = {} /\ props[t] = Absent /\ ~Coming(t)
  <2>1. ~Expected(t)
    BY <1>3, <1>4, <1>6 DEF Expected, None
  <2> QED BY <1>6, <2>1 DEF Safe, Transfers, Transfer, None
<1>8. contents' = [t \in Target |-> IF t \in e.targets THEN Pending ELSE None]
  BY <1>2, <1>6 DEF SaveTargetsOf
<1>9. Convert("MULTIPLE", e.targets, time, Tail(events)) /\ time \in Time /\ time <= time
  BY <1>2, Facts DEF SaveTargetsOf, TypeOK
<1>10. requestor' \in Client /\ Taken(requestor', time) /\ time' = time
  BY <1>2, <1>3
<1> QED BY <1>1, <1>2, <1>3, <1>5, <1>7, <1>8, <1>9, <1>10, ConvertSafe

(* What the manager makes of the answer, target by target.                 *)
LEMMA GetPropertyMeaning ==
  ASSUME TypeOK, NEW t \in Target, contents[t] \in {None, Pending}
  PROVE  /\ contents[t] = None => GetProperty(t) = None
         /\ contents[t] # None /\ props[t] = Absent => GetProperty(t) = None
         /\ contents[t] # None /\ props[t] = Incr =>
              GetProperty(t) = [type |-> "incr", data |-> <<>>]
         /\ \A p : contents[t] # None /\ props[t] = Data(p) =>
              GetProperty(t) = [type |-> "done", data |-> p]
<1>1. contents[t] = None => GetProperty(t) = None
  BY DEF GetProperty
<1>2. contents[t] # None /\ props[t] = Absent => GetProperty(t) = None
  BY DEF GetProperty, Absent
<1>3. contents[t] # None /\ props[t] = Incr => GetProperty(t) = [type |-> "incr", data |-> <<>>]
  BY DEF GetProperty, Incr
<1>4. \A p : contents[t] # None /\ props[t] = Data(p) =>
              GetProperty(t) = [type |-> "done", data |-> p]
  BY DEF GetProperty, Data
<1> QED BY <1>1, <1>2, <1>3, <1>4

LEMMA MultipleReceivedSafe ==
  ASSUME TypeOK, TypeOK', Safe, MultipleReceived
  PROVE  Safe'
<1> DEFINE e == Head(events)
<1>1. /\ events # <<>> /\ events' = Tail(events) /\ e.type = "Multiple" /\ e \in In(events)
      /\ In(events) = {e} \cup In(events') /\ e.targets \in SUBSET Target /\ IsAnswer(e)
  BY Handled DEF MultipleReceived, Handles, Notice, IsAnswer
<1>2. /\ Live /\ requestor \in Client /\ Taken(requestor, time)
      /\ e.time = time
      /\ owner # Manager /\ ~Comes("Clear") /\ ~Comes("Request")
      /\ \A a \in asks : ~LiveAsk(a) /\ a.time # time
      /\ \A f \in In(events') :
           /\ ~IsAnswer(f)
           /\ f.type = "Failed" => f.time # time
           /\ f.type = "SaveTargets" => time < f.time
      /\ \A c \in Client : status[c] # [is |-> "saved", time |-> time]
  BY <1>1, AnswerHandled
<1>3. /\ UNCHANGED <<now, alive, copied, asks, managing, offered, spoiled, time>>
      /\ contents' = [t \in Target |-> GetProperty(t)]
      /\ props' = [t \in Target |-> IF t \in Saved THEN Absent ELSE props[t]]
      /\ sending' = {[s EXCEPT !.ready = @ \/ (s.target \in Saved /\ props[s.target] # Absent)] :
                       s \in sending}
  BY <1>2 DEF MultipleReceived, Delete
<1>4. \/ owner' = owner /\ since' = since
      \/ owner' = Manager /\ since' = time /\ time >= since
  BY <1>2 DEF MultipleReceived, SetOwner
<1>5. \/ Incoming(contents') /\ UNCHANGED <<requestor, status>>
      \/ ~Incoming(contents') /\ requestor' = NoWindow /\ Notify(requestor, time, "saved")
  BY <1>3 DEF MultipleReceived, Finish
<1> HIDE DEF e
<1>6. /\ Untouched /\ Awaited(e.targets) /\ offered[time] = e.targets
      /\ \A t \in e.targets \ spoiled : Placed(t)
  BY <1>1, <1>2 DEF Safe, Phase
<1>7. /\ \A c \in Client : /\ status'[c].time = status[c].time
                           /\ status'[c].is = "saved" =>
                                status[c].is = "saved" \/ status[c].time = time
      /\ Told' => requestor' = NoWindow /\ ~Incoming(contents')
  <2>1. \A c \in Client : /\ status'[c].time = status[c].time
                          /\ status'[c].is = "saved" =>
                               status[c].is = "saved" \/ status[c].time = time
    BY <1>5 DEF Notify, TypeOK
  <2>2. ~Told
    BY <1>2 DEF Told
  <2>3. UNCHANGED <<requestor, status>> => (Told' <=> Told)
    BY <1>3 DEF Told
  <2> QED BY <1>5, <2>1, <2>2, <2>3
<1>8. /\ \A type : Comes(type)' => Comes(type)
      /\ Closed <=> Closed'
      /\ \A a : LiveAsk(a)' <=> LiveAsk(a)
      /\ ~Live'
      /\ \A t : Coming(t)' <=> Coming(t)
      /\ \A c \in Client : \A w : Taken(c, w)' <=> Taken(c, w)
  BY <1>1, <1>2, <1>3, <1>7 DEF Comes, Closed, Live, LiveAsk, Coming, Taken
<1>9. \A s \in sending : s \in Sending /\ s.target \in Large /\ s.target \in Target
  BY ClientsAssumption DEF TypeOK, Sending
<1>10. ASSUME NEW t \in Target \ spoiled
       PROVE  /\ contents'[t].type \in {"none", "incr", "done"}
              /\ t \in e.targets =>
                   (contents[t] = None /\ Closed) \/ contents'[t].type \in {"incr", "done"}
              /\ Transfer(t)'
  <2>0. contents[t] \in {None, Pending} /\ contents'[t] = GetProperty(t)
    BY <1>3, <1>6 DEF Untouched
  <2>1. Transfer(t) /\ contents[t].type # "incr" /\ ~Coming(t)
    BY <2>0 DEF Safe, Transfers, Transfer, None, Pending
  <2>2. CASE t \in e.targets /\ contents[t] # None /\ t \in Large
    <3>1. props[t] = Incr /\ \A s \in Of(t) : s.next = 1 /\ s.of = time
      BY <1>6, <2>2 DEF Placed, Of
    <3>2. contents'[t] = [type |-> "incr", data |-> <<>>]
      BY <2>0, <2>2, <3>1, GetPropertyMeaning
    <3>3. props'[t] = Absent
      BY <1>3, <2>2 DEF Saved
    <3>4. ASSUME NEW s \in Of(t)'
          PROVE  \E r \in Of(t) : s = [r EXCEPT !.ready = TRUE]
      <4>1. PICK r \in sending :
                    s = [r EXCEPT !.ready = @ \/ (r.target \in Saved /\ props[r.target] # Absent)]
        BY <1>3, <3>4 DEF Of
      <4>2. r.target = t /\ s \in sending' /\ s.target = t
        BY <1>9, <3>4, <4>1 DEF Of, Sending
      <4>3. r.target \in Saved /\ props[r.target] # Absent
        BY <2>2, <3>1, <4>2 DEF Saved, Incr, Absent
      <4>4. s = [r EXCEPT !.ready = TRUE]
        BY <1>9, <4>1, <4>3 DEF Sending
      <4> QED BY <4>2, <4>4 DEF Of
    <3>5. /\ \A s \in Of(t)' : s.ready /\ s.next = 1 /\ s.of = time
          /\ \A s, r \in Of(t)' : s = r
      <4>1. \A r \in Of(t) : r \in Sending
        BY <1>9 DEF Of
      <4>2. \A s \in Of(t)' : s.ready /\ s.next = 1 /\ s.of = time
        BY <3>1, <3>4, <4>1 DEF Sending
      <4>3. \A s, r \in Of(t)' : s = r
        BY <2>1, <3>4 DEF Transfer
      <4> QED BY <4>2, <4>3
    <3>6. Len(contents'[t].data) = 0 /\ Parts \in Nat \ {0}
      BY <3>2, ClientsAssumption
    <3>7. Gathered(t)' /\ NextPart(t)'
      BY <1>8, <2>1, <3>3, <3>5, <3>6 DEF Gathered, NextPart
    <3>8. Expected(t)'
      BY <3>2 DEF Expected
    <3> QED BY <1>3, <2>2, <3>2, <3>5, <3>7, <3>8 DEF Transfer
  <2>3. ASSUME t \notin e.targets \/ contents[t] = None \/ t \notin Large
        PROVE  Of(t)' = Of(t)
    <3>1. ASSUME NEW s \in sending, s.target = t
          PROVE  [s EXCEPT !.ready = @ \/ (s.target \in Saved /\ props[s.target] # Absent)] = s
      <4>1. ~Expected(t) \/ contents[t] = None
        <5>1. CASE t \notin e.targets
          BY <1>1, <1>2, <2>1, <5>1 DEF Expected, IsAnswer
        <5> QED BY <1>9, <2>3, <3>1, <5>1
      <4>2. props[t] = Absent \/ contents[t] = None
        BY <2>1, <4>1 DEF Transfer
      <4>3. ~(s.target \in Saved /\ props[s.target] # Absent)
        BY <3>1, <4>2 DEF Saved
      <4>4. s \in Sending
        BY <1>9
      <4> QED BY <4>3, <4>4 DEF Sending
    <3>2. \A s \in Sending : \A b : [s EXCEPT !.ready = b].target = s.target
      BY DEF Sending
    <3>3. \A s \in sending :
            [s EXCEPT !.ready = @ \/ (s.target \in Saved /\ props[s.target] # Absent)].target = s.target
      BY <1>9, <3>2
    <3>4. ASSUME NEW s PROVE s \in Of(t)' <=> s \in Of(t)
      <4>1. s \in sending' <=>
              \E r \in sending :
                s = [r EXCEPT !.ready = @ \/ (r.target \in Saved /\ props[r.target] # Absent)]
        BY <1>3
      <4>2. ASSUME s \in sending', s.target = t PROVE s \in sending
        BY <3>1, <3>3, <4>1, <4>2
      <4>3. ASSUME s \in sending, s.target = t PROVE s \in sending'
        BY <3>1, <4>1, <4>3
      <4> QED BY <4>2, <4>3 DEF Of
    <3> QED BY <3>4
  <2>4. CASE t \in e.targets /\ contents[t] # None /\ t \notin Large
    <3>1. props[t] = Data(Whole(t, time))
      BY <1>6, <2>4 DEF Placed
    <3>2. contents'[t] = [type |-> "done", data |-> Whole(t, time)]
      BY <2>0, <2>4, <3>1, GetPropertyMeaning
    <3>3. props'[t] = Absent /\ Of(t)' = {}
      BY <1>3, <1>9, <2>3, <2>4 DEF Saved, Of
    <3> QED BY <1>3, <1>8, <2>1, <3>2, <3>3 DEF Transfer, Whole
  <2>5. CASE t \in e.targets /\ contents[t] = None
    <3>1. Closed
      BY <1>6, <2>5 DEF Awaited, None, Pending
    <3>2. contents'[t] = None /\ props'[t] = props[t]
      BY <1>3, <2>0, <2>5, GetPropertyMeaning DEF Saved
    <3>3. Expected(t)'
      BY <1>8, <3>1 DEF Expected
    <3> QED BY <1>8, <2>1, <2>3, <2>5, <3>1, <3>2, <3>3 DEF Transfer, None
  <2>6. CASE t \notin e.targets
    <3>1. ~Expected(t)
      BY <1>1, <1>2, <2>1, <2>6 DEF Expected, IsAnswer
    <3>2. Of(t) = {} /\ props[t] = Absent
      BY <2>1, <3>1 DEF Transfer
    <3>3. contents'[t] = None /\ props'[t] = Absent
      BY <1>3, <2>0, <3>2, GetPropertyMeaning
    <3> QED BY <1>8, <2>1, <2>3, <2>6, <3>2, <3>3 DEF Transfer, None
  <2> QED BY <2>2, <2>4, <2>5, <2>6
<1> QED
  <2>1. Clock'
    <3>1. time <= now
      BY <1>2, Facts DEF Safe, Clock, Taken
    <3>2. since' <= now' /\ since <= since'
      BY <1>3, <1>4, <3>1, Facts DEF Safe, Clock
    <3>3. \A c \in Client : status'[c].time <= since'
      BY <1>4, <1>7, <3>2, Facts DEF Safe, Clock
    <3>4. owner' \in Client => owner' = owner /\ since' = since
      BY <1>4, ClientsAssumption
    <3> QED BY <1>3, <1>7, <1>8, <3>2, <3>3, <3>4 DEF Safe, Clock
  <2>2. Accepted'
    <3>1. requestor' \in {requestor, NoWindow}
      BY <1>5
    <3> QED BY <1>1, <1>2, <1>3, <1>8, <3>1 DEF Safe, Accepted, IsOutcome
  <2>3. Ordered' BY <1>1, <1>2, <1>3, OrderedHandled DEF Safe
  <2>4. Saves'
    <3>1. ASSUME owner' = Manager, NEW f \in In(events'), f.type = "SaveTargets" PROVE FALSE
      <4>1. time >= since /\ time < f.time
        BY <1>2, <1>4, <3>1
      <4>2. f \in In(events) /\ f.from \in Client /\ Taken(f.from, f.time)
        BY <1>1, <3>1 DEF Safe, Accepted
      <4>3. f.time <= status[f.from].time /\ status[f.from].time <= since
        BY <4>2 DEF Safe, Clock, Taken
      <4> QED BY <4>1, <4>2, <4>3, Facts
    <3> QED BY <1>1, <1>2, <1>3, <1>8, <3>1 DEF Safe, Saves, IsOutcome, Comes
  <2>5. Conversions'
    BY <1>1, <1>2, <1>3, <1>8 DEF Safe, Conversions, IsOutcome, IsAnswer, Live
  <2>6. Phase'
    BY <1>2, <1>3, <1>8, <1>10 DEF Phase, IsAnswer
  <2>7. Transfers'
    BY <1>1, <1>3, <1>10 DEF Safe, Transfers
  <2>8. Kept'
    <3>1. owner' = Manager => since' = time'
      BY <1>2, <1>3, <1>4
    <3>2. \A c \in Client : status'[c].is = "saved" => status'[c].time <= time'
      BY <1>3, <1>7, Facts DEF Safe, Kept
    <3>3. managing' => \A t \in offered'[time'] \ spoiled' : contents'[t].type \in {"incr", "done"}
      BY <1>1, <1>3, <1>6, <1>10 DEF Closed
    <3>4. Told' => \A t \in Target : contents'[t].type # "incr"
      BY <1>7 DEF Incoming
    <3> QED BY <1>7, <3>1, <3>2, <3>3, <3>4 DEF Kept
  <2> QED BY <2>1, <2>2, <2>3, <2>4, <2>5, <2>6, <2>7, <2>8 DEF Safe

(* While something is being received in parts nothing else is awaited.     *)
LEMMA ReceivingAlone ==
  ASSUME TypeOK, Safe, NEW t \in Target, contents[t].type = "incr"
  PROVE  ~Live
<1>1. ~Untouched /\ Saved # {}
  BY DEF Untouched, Saved, None, Pending
<1>2. \A a \in asks : a.what \in {"TARGETS", "MULTIPLE"}
  BY DEF TypeOK, Ask
<1> QED BY <1>1, <1>2 DEF Safe, Phase, Live, IsAnswer

(* The sender of the target that has been deleted goes on, no other does.  *)
LEMMA SenderGoesOn ==
  ASSUME TypeOK, NEW t \in Target, props[t] # Absent, Delete({t})
  PROVE  /\ props'[t] = Absent
         /\ \A u \in Target \ {t} : props'[u] = props[u] /\ Of(u)' = Of(u)
         /\ \A s \in Of(t)' : \E r \in Of(t) : s = [r EXCEPT !.ready = TRUE]
<1>1. /\ props' = [u \in Target |-> IF u \in {t} THEN Absent ELSE props[u]]
      /\ sending' = {[s EXCEPT !.ready = @ \/ (s.target \in {t} /\ props[s.target] # Absent)] :
                       s \in sending}
  BY DEF Delete
<1>2. \A s \in sending : s \in Sending
  BY DEF TypeOK
<1>3. \A s \in Sending : \A b : [s EXCEPT !.ready = b].target = s.target
  BY DEF Sending
<1>4. \A s \in sending :
        [s EXCEPT !.ready = @ \/ (s.target \in {t} /\ props[s.target] # Absent)].target = s.target
  BY <1>2, <1>3
<1>5. ASSUME NEW s \in sending
      PROVE  [s EXCEPT !.ready = @ \/ (s.target \in {t} /\ props[s.target] # Absent)] =
               IF s.target = t THEN [s EXCEPT !.ready = TRUE] ELSE s
  <2>1. s \in Sending
    BY <1>2
  <2>2. CASE s.target = t
    BY <2>1, <2>2 DEF Sending
  <2>3. CASE s.target # t
    BY <2>1, <2>3 DEF Sending
  <2> QED BY <2>2, <2>3
<1>6. ASSUME NEW s
      PROVE  s \in sending' <=>
               \E r \in sending : s = IF r.target = t THEN [r EXCEPT !.ready = TRUE] ELSE r
  <2>1. s \in sending' <=>
          \E r \in sending :
            s = [r EXCEPT !.ready = @ \/ (r.target \in {t} /\ props[r.target] # Absent)]
    BY <1>1
  <2> QED BY <1>5, <2>1
<1>7. \A u \in Target \ {t} : props'[u] = props[u]
  BY <1>1
<1>8. ASSUME NEW u \in Target \ {t}, NEW s PROVE s \in Of(u)' <=> s \in Of(u)
  <2>1. ASSUME s \in sending', s.target = u PROVE s \in sending
    <3>1. PICK r \in sending : s = IF r.target = t THEN [r EXCEPT !.ready = TRUE] ELSE r
      BY <1>6, <2>1
    <3>2. r.target = s.target
      BY <1>2, <1>3, <3>1
    <3> QED BY <2>1, <3>1, <3>2
  <2>2. ASSUME s \in sending, s.target = u PROVE s \in sending'
    BY <1>6, <2>2
  <2> QED BY <2>1, <2>2 DEF Of
<1>9. ASSUME NEW s \in Of(t)' PROVE \E r \in Of(t) : s = [r EXCEPT !.ready = TRUE]
  <2>1. s \in sending' /\ s.target = t
    BY DEF Of
  <2>2. PICK r \in sending : s = IF r.target = t THEN [r EXCEPT !.ready = TRUE] ELSE r
    BY <1>6, <2>1
  <2> QED BY <2>1, <2>2 DEF Of
<1>10. props'[t] = Absent
  BY <1>1
<1> QED BY <1>7, <1>8, <1>9, <1>10

LEMMA NoSenderGoesOn ==
  ASSUME TypeOK, NEW t \in Target, props[t] = Absent, Delete({t})
  PROVE  \A u \in Target \ {t} : props'[u] = props[u] /\ Of(u)' = Of(u)
<1>1. /\ props' = [u \in Target |-> IF u \in {t} THEN Absent ELSE props[u]]
      /\ sending' = {[s EXCEPT !.ready = @ \/ (s.target \in {t} /\ props[s.target] # Absent)] :
                       s \in sending}
  BY DEF Delete
<1>2. ASSUME NEW s \in sending
      PROVE  [s EXCEPT !.ready = @ \/ (s.target \in {t} /\ props[s.target] # Absent)] = s
  <2>1. s \in Sending /\ ~(s.target \in {t} /\ props[s.target] # Absent)
    BY DEF TypeOK
  <2> QED BY <2>1 DEF Sending
<1>3. sending' = sending
  BY <1>1, <1>2
<1> QED BY <1>1, <1>3 DEF Of

LEMMA DataDistinct ==
  ASSUME NEW p
  PROVE  /\ Data(<<p>>) # Absent /\ Data(<<p>>) # Data(<<>>) /\ Data(<<p>>) # Incr
         /\ Data(<<p>>).part = <<p>>
         /\ Data(<<>>) # Absent /\ Data(<<>>) # Incr
<1>1. <<p>> # <<>>
  OBVIOUS
<1> QED BY <1>1 DEF Data, Absent, Incr

(* What is received of a target is the next part, or the end.              *)
LEMMA PartReceived ==
  ASSUME TypeOK, TypeOK', Safe, NEW t \in Target \ spoiled, contents[t].type = "incr", Coming(t),
         Delete({t}), EndOfData(t) \/ MoreData(t), time' = time, ~Coming(t)'
  PROVE  Transfer(t)' /\ contents'[t].type \in {"incr", "done"}
<1> DEFINE data == contents[t].data
           k    == Len(data)
<1>1. /\ t \in Large /\ Gathered(t) /\ (\A s \in Of(t) : s.of = time) /\ NextPart(t)
      /\ \A s, r \in Of(t) : s = r
  BY DEF Safe, Transfers, Transfer
<1>2. contents[t] \in Entry /\ data \in Seq(Part) /\ k \in Nat /\ DOMAIN data = 1..k
  <2>1. contents[t] \in Entry
    BY DEF TypeOK
  <2>2. data \in Seq(Part)
    BY <2>1 DEF Entry
  <2> QED BY <2>1, <2>2, LenProperties
<1>3. k <= Parts /\ \A n \in 1..k : data[n] = [of |-> time, n |-> n]
  BY <1>1 DEF Gathered
<1>4. \A s \in Of(t) : s \in Sending
  BY DEF TypeOK, Of
<1>5. CASE /\ props[t] = Data(<<[of |-> time, n |-> k + 1]>>) /\ k < Parts
           /\ \A s \in Of(t) : ~s.ready /\ s.next = k + 2
  <2> DEFINE p    == [of |-> time, n |-> k + 1]
             more == data \o <<p>>
  <2>1. props[t] \notin {Absent, Data(<<>>), Incr} /\ props[t].part = <<p>>
    BY <1>5, DataDistinct
  <2>2. contents' = [contents EXCEPT ![t].data = more]
    BY <2>1 DEF MoreData, EndOfData
  <2>3. contents'[t].type = "incr" /\ contents'[t].data = more
    BY <1>2, <2>2 DEF TypeOK, Entry
  <2>4. p \in Part
    <3>1. time \in Time
      BY DEF TypeOK
    <3>2. k + 1 \in 1..Parts
      BY <1>2, <1>5, ClientsAssumption
    <3> QED BY <3>1, <3>2 DEF Part
  <2>5. more = Append(data, p)
    BY <1>2, <2>4, AppendIsConcat
  <2>6. /\ Len(more) = k + 1 /\ \A n \in 1..k : more[n] = data[n]
        /\ more[k + 1] = p
    BY <1>2, <2>4, <2>5, AppendProperties
  <2> HIDE DEF k, data, p, more
  <2>7. \A n \in 1..(k + 1) : more[n] = [of |-> time, n |-> n]
    <3>1. \A n \in 1..(k + 1) : n \in 1..k \/ n = k + 1
      BY <1>2
    <3> QED BY <1>3, <2>6, <3>1 DEF p
  <2>8. Gathered(t)'
    <3>1. Len(contents'[t].data) = k + 1 /\ k + 1 <= Parts
      BY <1>2, <1>5, <2>3, <2>6, ClientsAssumption
    <3> QED BY <2>3, <2>7, <3>1 DEF Gathered
  <2>9. /\ props'[t] = Absent
        /\ \A s \in Of(t)' : \E r \in Of(t) : s = [r EXCEPT !.ready = TRUE]
    BY <2>1, SenderGoesOn
  <2>10. \A r \in Of(t) : [r EXCEPT !.ready = TRUE].ready
                          /\ [r EXCEPT !.ready = TRUE].next = k + 2
                          /\ [r EXCEPT !.ready = TRUE].of = time
    BY <1>1, <1>4, <1>5 DEF Sending
  <2>11. /\ \A s \in Of(t)' : s.ready /\ s.next = k + 2 /\ s.of = time
         /\ \A s, r \in Of(t)' : s = r
    <3>1. \A s \in Of(t)' : s.ready /\ s.next = k + 2 /\ s.of = time
      BY <2>9, <2>10
    <3>2. \A s, r \in Of(t)' : s = r
      BY <1>1, <2>9
    <3> QED BY <3>1, <3>2
  <2>12. NextPart(t)'
    <3>1. Len(contents'[t].data) + 1 = k + 2
      BY <1>2, <2>3, <2>6
    <3> QED BY <2>9, <2>11, <3>1 DEF NextPart
  <2>13. Expected(t)'
    BY <2>3 DEF Expected
  <2> QED BY <1>1, <2>3, <2>8, <2>11, <2>12, <2>13 DEF Transfer
<1>6. CASE props[t] = Data(<<>>) /\ k = Parts /\ Of(t) = {}
  <2>1. props[t] \in {Absent, Data(<<>>)} /\ props[t] # Absent
    BY <1>6, DataDistinct
  <2>2. contents' = [contents EXCEPT ![t].type = "done"]
    BY <2>1 DEF MoreData, EndOfData
  <2>3. contents'[t].type = "done" /\ contents'[t].data = data
    BY <1>2, <2>2 DEF TypeOK, Entry
  <2>4. props'[t] = Absent /\ Of(t)' = {}
    BY <1>6, <2>1, SenderGoesOn
  <2>5. data = Whole(t, time)
    <3>1. DOMAIN data = 1..Parts /\ \A n \in 1..Parts : data[n] = [of |-> time, n |-> n]
      BY <1>2, <1>3, <1>6
    <3>2. data = [n \in DOMAIN data |-> data[n]]
      BY <1>2
    <3> HIDE DEF data
    <3>3. data = [n \in 1..Parts |-> [of |-> time, n |-> n]]
      BY <3>1, <3>2
    <3> QED BY <1>1, <3>3 DEF Whole
  <2>6. contents'[t].data = Whole(t, time')
    BY <2>3, <2>5
  <2> QED BY <2>3, <2>4, <2>6 DEF Transfer, Whole
<1> QED BY <1>1, <1>5, <1>6 DEF NextPart

LEMMA ReceiveIncrementallySafe ==
  ASSUME TypeOK, TypeOK', Safe, ReceiveIncrementally
  PROVE  Safe'
<1> DEFINE e == Head(events)
<1>1. /\ events # <<>> /\ events' = Tail(events) /\ e.type = "NewValue" /\ e \in In(events)
      /\ In(events) = {e} \cup In(events')
      /\ \A f \in In(events') : <<e, f>> \in Pairs(events)
  BY Handled DEF ReceiveIncrementally, Handles
<1>2. /\ UNCHANGED <<owner, since, now, alive, copied, asks, managing, offered, time, spoiled>>
      /\ \E t \in e.targets :
           IF contents[t].type = "incr"
             THEN Delete({t}) /\ (EndOfData(t) \/ MoreData(t))
             ELSE UNCHANGED <<props, sending, contents, requestor, status>>
  BY DEF ReceiveIncrementally
<1>3. PICK t \in Target : e.targets = {t}
  BY <1>1 DEF Safe, Transfers
<1>4. CASE contents[t].type # "incr"
  <2>1. UNCHANGED <<props, sending, contents, requestor, status>>
    BY <1>2, <1>3, <1>4
  <2>2. Coming(t)
    BY <1>1, <1>3 DEF Coming
  <2>3. t \in spoiled
    BY <1>4, <2>2 DEF Safe, Transfers, Transfer
  <2> QED BY <1>1, <1>2, <1>3, <2>1, <2>3, QuietSafe
<1>5. CASE contents[t].type = "incr"
  <2>1. Delete({t}) /\ (EndOfData(t) \/ MoreData(t))
    BY <1>2, <1>3, <1>5
  <2>2. (\A a \in asks : ~LiveAsk(a)) /\ (\A f \in In(events) : ~IsAnswer(f)) /\ ~Live
    BY <1>5, ReceivingAlone DEF Live
  <2>3. /\ \A u \in Target \ {t} : contents'[u] = contents[u]
        /\ contents'[t].type \in {"pending", "incr", "done"}
    <3> DEFINE type == IF props[t] = Absent THEN "pending" ELSE "done"
               data == contents[t].data \o (IF props[t] = Incr THEN <<[of |-> 0, n |-> 1]>>
                                                              ELSE props[t].part)
    <3>1. contents[t] \in Entry /\ contents \in [Target -> Entry]
      BY DEF TypeOK
    <3>2. CASE EndOfData(t)
      <4>1. contents' = [contents EXCEPT ![t].type = type] /\ type \in {"pending", "incr", "done"}
        BY <3>2 DEF EndOfData
      <4> HIDE DEF type
      <4> QED BY <3>1, <4>1 DEF Entry
    <3>3. CASE MoreData(t)
      <4>1. contents' = [contents EXCEPT ![t].data = data]
        BY <3>3 DEF MoreData
      <4> HIDE DEF data
      <4> QED BY <1>5, <3>1, <4>1 DEF Entry
    <3> QED BY <2>1, <3>2, <3>3
  <2>4. \/ UNCHANGED <<requestor, status>>
        \/ ~Incoming(contents') /\ requestor' = NoWindow /\ Notify(requestor, time, "saved")
    BY <2>1 DEF EndOfData, MoreData, Finish
  <2>5. \A c \in Client :
          /\ status'[c].time = status[c].time
          /\ status'[c].is = "saved" =>
               status[c].is = "saved" \/
                  (status[c].time = time /\ c = requestor /\ ~Incoming(contents'))
    BY <2>4 DEF Notify, TypeOK
  <2>6. /\ Told' => Told \/ (requestor # NoWindow /\ ~Incoming(contents'))
        /\ Told' => requestor' = NoWindow
        /\ requestor' \in {requestor, NoWindow}
    <3>1. \A c \in Client : status[c] = [is |-> status[c].is, time |-> status[c].time]
      BY DEF TypeOK
    <3>2. Told' => Told \/ (requestor # NoWindow /\ ~Incoming(contents'))
      BY <1>2, <2>5, <3>1, ClientsAssumption DEF Told
    <3>3. UNCHANGED <<requestor, status>> => (Told' <=> Told)
      BY <1>2 DEF Told
    <3> QED BY <2>4, <3>2, <3>3 DEF Safe, Kept
  <2>7. t \notin spoiled => Coming(t) /\ ~Coming(t)'
    <3>1. Coming(t)
      BY <1>1, <1>3 DEF Coming
    <3>2. ASSUME t \notin spoiled, NEW f \in In(events'), f.type = "NewValue", f.targets = {t}
          PROVE  FALSE
      <4>1. InOrder(e, f)
        BY <1>1, <3>2 DEF Safe, Ordered
      <4> QED BY <1>1, <1>3, <3>2, <4>1 DEF InOrder
    <3> QED BY <3>1, <3>2 DEF Coming
  <2>8. t \notin spoiled =>
          Transfer(t)' /\ contents'[t].type \in {"incr", "done"}
    BY <1>2, <1>5, <2>1, <2>7, PartReceived
  <2>9. \A u \in Target \ {t} : props'[u] = props[u] /\ Of(u)' = Of(u)
    <3>1. CASE props[t] # Absent
      BY <2>1, <3>1, SenderGoesOn
    <3>2. CASE props[t] = Absent
      BY <2>1, <3>2, NoSenderGoesOn
    <3> QED BY <3>1, <3>2
  <2> HIDE DEF e
  <2>10. /\ \A type : Comes(type)' => Comes(type)
         /\ Closed' <=> Closed
         /\ \A u \in Target \ {t} : Coming(u)' <=> Coming(u)
         /\ \A a : LiveAsk(a)' <=> LiveAsk(a)
         /\ ~Live' /\ (\A f \in In(events') : ~IsAnswer(f))
         /\ \A d \in Client : \A w : Taken(d, w)' <=> Taken(d, w)
    BY <1>1, <1>2, <1>3, <2>2, <2>5 DEF Comes, Closed, Coming, LiveAsk, Live, Taken
  <2> QED
    <3>1. Clock' BY <1>2, <2>5, <2>10 DEF Safe, Clock
    <3>2. Accepted'
      BY <1>1, <1>2, <2>6, <2>10 DEF Safe, Accepted, IsOutcome, TypeOK
    <3>3. Ordered' BY <1>1, <1>2, <2>10, OrderedHandled DEF Safe
    <3>4. Saves' BY <1>1, <1>2, <2>10 DEF Safe, Saves, IsOutcome
    <3>5. Conversions'
      BY <1>1, <1>2, <2>2, <2>10 DEF Safe, Conversions, IsOutcome, IsAnswer
    <3>6. Phase'
      <4>1. ASSUME NEW u \in Target \ spoiled, contents'[u].type = "pending"
            PROVE  owner # Manager /\ ~Comes("Request")
        BY <2>3, <2>8, <4>1 DEF Safe, Phase
      <4> QED BY <1>2, <2>2, <2>10, <4>1 DEF Phase, IsAnswer
    <3>7. Transfers'
      <4>1. ASSUME NEW u \in Target \ spoiled, u # t PROVE Transfer(u)'
        <5>1. Transfer(u)
          BY <4>1 DEF Safe, Transfers
        <5>2. contents'[u] = contents[u] /\ props'[u] = props[u] /\ Of(u)' = Of(u)
              /\ (Coming(u)' <=> Coming(u))
          BY <2>3, <2>9, <2>10, <4>1
        <5>3. Expected(u) => Expected(u)'
          BY <2>2, <2>10, <5>2 DEF Expected, IsAnswer
        <5>4. (NextPart(u) => NextPart(u)') /\ (Gathered(u) => Gathered(u)')
          BY <1>2, <5>2 DEF NextPart, Gathered
        <5> QED BY <1>2, <5>1, <5>2, <5>3, <5>4 DEF Transfer
      <4> QED BY <1>1, <1>2, <2>8, <4>1 DEF Safe, Transfers
    <3>8. Kept'
      <4>1. \A c \in Client : status'[c].is = "saved" => status'[c].time <= time'
        BY <1>2, <2>5, Facts DEF Safe, Kept
      <4>2. ASSUME owner = Manager, managing, requestor' # NoWindow \/ Told',
                   NEW u \in offered[time] \ spoiled
            PROVE  contents'[u].type \in {"incr", "done"}
        <5>1. u \in Target
          BY DEF TypeOK
        <5>2. requestor # NoWindow \/ Told
          BY <2>6, <4>2
        <5>3. contents[u].type \in {"incr", "done"}
          BY <4>2, <5>2 DEF Safe, Kept
        <5> QED BY <2>3, <2>8, <4>2, <5>1, <5>3
      <4>3. ASSUME owner = Manager, Told', NEW u \in Target \ spoiled
            PROVE  contents'[u].type # "incr"
        <5>1. CASE Told
          BY <1>5, <2>3, <2>8, <4>3, <5>1 DEF Safe, Kept
        <5>2. CASE ~Incoming(contents')
          BY <5>2 DEF Incoming
        <5> QED BY <2>6, <4>3, <5>1, <5>2
      <4> QED BY <1>2, <2>6, <4>1, <4>2, <4>3 DEF Safe, Kept
    <3> QED BY <3>1, <3>2, <3>3, <3>4, <3>5, <3>6, <3>7, <3>8 DEF Safe
<1> QED BY <1>4, <1>5

-----------------------------------------------------------------------------
LEMMA InitSafe == Init => Safe
<1> SUFFICES ASSUME Init PROVE Safe
  OBVIOUS
<1>1. In(events) = {}
  BY DEF Init, In
<1>2. ~Comes("Clear") /\ ~Comes("SaveTargets") /\ ~Comes("Request") /\ ~Comes("ManagerClear")
  BY <1>1 DEF Comes
<1>3. Clock
  BY ClientsAssumption DEF Init, Clock
<1>4. Accepted
  BY <1>1 DEF Init, Accepted
<1>5. Ordered
  BY <1>1 DEF Ordered
<1>6. Saves
  BY <1>1, <1>2 DEF Init, Saves
<1>7. ~Live
  BY <1>1 DEF Init, Live
<1>8. Conversions
  BY <1>1, <1>7 DEF Init, Conversions
<1>9. Phase
  BY <1>1, <1>2 DEF Init, Phase, Nothing, None
<1>10. ASSUME NEW t \in Target PROVE Transfer(t)
  <2>1. contents[t] = None /\ Of(t) = {} /\ props[t] = Absent /\ ~Coming(t)
    BY <1>1 DEF Init, Nothing, Of, Coming
  <2> QED BY <2>1 DEF Transfer, None
<1>11. Transfers
  BY <1>1, <1>10 DEF Transfers
<1>12. Kept
  BY ClientsAssumption DEF Init, Kept, Told
<1> QED BY <1>3, <1>4, <1>5, <1>6, <1>8, <1>9, <1>11, <1>12 DEF Safe

LEMMA SafeNext ==
  ASSUME TypeOK, TypeOK', ~mistaken => Safe, [Next]_vars
  PROVE  ~mistaken' => Safe'
<1> SUFFICES ASSUME ~mistaken' PROVE Safe'
  OBVIOUS
<1>1. CASE Clients /\ UNCHANGED mvars
  <2>0. Safe
    BY <1>1 DEF mvars
  <2>1. ASSUME NEW c \in Client, Acquire(c) \/ Exit(c) PROVE Safe'
    BY <1>1, <2>0, <2>1, AcquireSafe, ExitSafe
  <2>2. ASSUME NEW c \in Client, NEW targets \in SUBSET Target,
               Save(c, targets) \/ Request(c, targets)
        PROVE  Safe'
    BY <1>1, <2>0, <2>2, SaveSafe, RequestSafe
  <2>3. ASSUME NEW g \in given, Read(g) PROVE Safe'
    BY <1>1, <2>0, <2>3, ReadSafe
  <2> QED BY <1>1, <2>0, <2>1, <2>2, <2>3, LoseManagerSafe DEF Clients
<1>2. CASE Answers /\ UNCHANGED mvars
  <2>0. Safe
    BY <1>2 DEF mvars
  <2>1. ASSUME NEW a \in asks, Refuse(a) PROVE Safe'
    BY <1>2, <2>0, <2>1, RefuseSafe
  <2>2. ASSUME NEW a \in asks, NEW targets \in SUBSET Target,
               AnswerTargets(a, targets) \/ AnswerMultiple(a, targets)
        PROVE  Safe'
    BY <1>2, <2>0, <2>2, AnswerTargetsSafe, AnswerMultipleSafe
  <2> QED BY <1>2, <2>1, <2>2 DEF Answers
<1>3. CASE Sends /\ UNCHANGED mvars
  BY <1>3, SendPartSafe DEF Sends, mvars
<1>4. CASE ProcessEvent
  <2>0. Safe
    BY <1>4 DEF ProcessEvent, ConvertClipboardManager, TargetsReceived, MultipleReceived,
       ConversionFailed, ReceiveIncrementally, RequestorDestroyed, ClipboardLost, ManagerLost,
       ConvertClipboard, SendIncrementally
  <2> QED BY <1>4, <2>0, ConvertClipboardManagerSafe, TargetsReceivedSafe, MultipleReceivedSafe,
          ConversionFailedSafe, ReceiveIncrementallySafe, RequestorDestroyedSafe,
          ClipboardLostSafe, ManagerLostSafe, ConvertClipboardSafe, SendIncrementallySafe
          DEF ProcessEvent
<1>5. CASE UNCHANGED vars
  <2>1. /\ UNCHANGED <<owner, since, now, alive, copied, asks, sending, props, events, managing,
             status, offered>>
        /\ UNCHANGED <<contents, requestor, time, spoiled, mistaken>>
    BY <1>5 DEF vars, cvars, mvars
  <2>2. Safe
    BY <2>1
  <2>3. /\ \A c, when : Taken(c, when)' <=> Taken(c, when)
        /\ \A type : Comes(type)' <=> Comes(type)
        /\ (Closed' <=> Closed) /\ (Live' <=> Live) /\ (Told' <=> Told) /\ Saved' = Saved
        /\ \A a : LiveAsk(a)' <=> LiveAsk(a)
        /\ \A t : Of(t)' = Of(t) /\ (Coming(t)' <=> Coming(t)) /\ (Placed(t)' <=> Placed(t))
        /\ \A e, f : InOrder(e, f)' <=> InOrder(e, f)
    BY <2>1 DEF Taken, Comes, Closed, Live, LiveAsk, Told, Saved, Of, Coming, Placed, InOrder
  <2>4. Clock' /\ Accepted' /\ Kept'
    BY <2>1, <2>2, <2>3 DEF Safe, Clock, Accepted, Kept
  <2>5. Ordered' /\ Saves' /\ Conversions'
    BY <2>1, <2>2, <2>3 DEF Safe, Ordered, Saves, Conversions
  <2>6. Phase'
    BY <2>1, <2>2, <2>3 DEF Safe, Phase, Untouched, Awaited
  <2>7. Transfers'
    BY <2>1, <2>2, <2>3 DEF Safe, Transfers, Transfer, Gathered, NextPart, Expected
  <2> QED BY <2>4, <2>5, <2>6, <2>7 DEF Safe
<1> QED BY <1>1, <1>2, <1>3, <1>4, <1>5 DEF Next

-----------------------------------------------------------------------------
(* What is being sent in parts is one copy, whole.                         *)
Faithful ==
  mistaken \/ \A c \in conversions :
                c.what.target \in spoiled \/ c.what.data = Whole(c.what.target, c.what.time)

(* What a step adds to the histories, and who serves.                      *)
LEMMA Histories ==
  ASSUME [Next]_vars
  PROVE  /\ spoiled \subseteq spoiled' /\ (mistaken => mistaken') /\ (upset => upset')
         /\ ConvertClipboard \/ SendIncrementally \/
              (conversions' = conversions /\ fault' = fault /\
                 (delivered' = {} \/ delivered' = delivered))
         /\ ConversionFailed \/ mistaken' = mistaken
<1>1. CASE UNCHANGED mvars /\ delivered' = {}
  <2>1. UNCHANGED <<conversions, fault, spoiled, upset, mistaken>>
    BY <1>1 DEF mvars
  <2> QED BY <1>1, <2>1
<1>2. CASE UNCHANGED vars
  <2>1. UNCHANGED <<conversions, fault, spoiled, upset, mistaken, delivered>>
    BY <1>2 DEF vars, mvars
  <2> QED BY <2>1
<1>3. CASE ConvertClipboardManager \/ TargetsReceived \/ ReceiveIncrementally
  <2>1. UNCHANGED <<conversions, fault, spoiled, upset, mistaken>> /\ delivered' = {}
    BY <1>3 DEF ConvertClipboardManager, TargetsReceived, ReceiveIncrementally
  <2> QED BY <2>1
<1>4. CASE MultipleReceived
  <2>1. UNCHANGED <<conversions, fault, spoiled, mistaken>> /\ delivered' = {}
    BY <1>4 DEF MultipleReceived
  <2>2. upset' = (upset \/ owner' # Manager)
    BY <1>4 DEF MultipleReceived
  <2> QED BY <2>1, <2>2
<1>5. CASE ConversionFailed
  <2>1. UNCHANGED <<conversions, fault, spoiled>> /\ delivered' = {}
    BY <1>5 DEF ConversionFailed
  <2>2. /\ mistaken' = (mistaken \/ Head(events).time # time)
        /\ upset' = (upset \/ Saved # {} \/ mistaken')
    BY <1>5 DEF ConversionFailed
  <2> QED BY <1>5, <2>1, <2>2
<1>6. CASE RequestorDestroyed \/ ClipboardLost \/ ManagerLost
  <2>1. UNCHANGED <<conversions, fault, upset, mistaken>> /\ delivered' = {}
    BY <1>6 DEF RequestorDestroyed, ClipboardLost, ManagerLost
  <2>2. spoiled \subseteq spoiled'
    BY <1>6 DEF RequestorDestroyed, ClipboardLost, ManagerLost, FreeContents
  <2> QED BY <2>1, <2>2
<1>7. CASE ConvertClipboard \/ SendIncrementally
  <2>1. UNCHANGED <<spoiled, upset, mistaken>>
    BY <1>7 DEF ConvertClipboard, SendIncrementally
  <2> QED BY <1>7, <2>1
<1> QED BY <1>1, <1>2, <1>3, <1>4, <1>5, <1>6, <1>7 DEF Next, ProcessEvent

LEMMA ConvertClipboardServes ==
  ASSUME TypeOK, ~mistaken => Safe, Faithful, TypeIsKnown, ConvertClipboard
  PROVE  Faithful' /\ ServedIsSaved' /\ TypeIsKnown'
<1> DEFINE e == Head(events)
           done == {t \in e.targets : Received(t)}
           long == {t \in done : Len(contents[t].data) > 1}
           Copy(t) == [target |-> t, data |-> contents[t].data, time |-> time]
<1>1. /\ delivered' = {Copy(t) : t \in done \ long}
      /\ conversions' = conversions \cup
           {[to |-> e.from, sent |-> 0, what |-> Copy(t)] : t \in long}
      /\ fault' = (\E t \in e.targets : contents[t].type = "pending")
      /\ UNCHANGED <<spoiled, mistaken>>
  BY DEF ConvertClipboard
<1>2. e.targets \in SUBSET Target /\ Comes("Request")
  BY Handled DEF ConvertClipboard, Handles, Notice, Comes
<1>3. ASSUME ~mistaken, NEW t \in done, t \notin spoiled
      PROVE  contents[t].data = Whole(t, time)
  BY <1>2, <1>3 DEF Safe, Transfers, Transfer, Received
<1>4. \A t \in done : mistaken \/ Copy(t).target \in spoiled \/
                        Copy(t).data = Whole(Copy(t).target, Copy(t).time)
  BY <1>3
<1>5. long \subseteq done
  OBVIOUS
<1>6. TypeIsKnown'
  <2>1. ASSUME ~mistaken, spoiled = {}, NEW t \in e.targets, contents[t].type = "pending"
        PROVE  FALSE
    BY <1>2, <2>1 DEF Safe, Phase
  <2> HIDE DEF e
  <2> QED BY <1>1, <2>1 DEF TypeIsKnown
<1> HIDE DEF e, done, long, Copy
<1>7. ServedIsSaved'
  BY <1>1, <1>4 DEF ServedIsSaved, Whole
<1>8. Faithful'
  <2>1. ASSUME ~mistaken, NEW c \in conversions'
        PROVE  c.what.target \in spoiled \/ c.what.data = Whole(c.what.target, c.what.time)
    <3>1. CASE c \in conversions
      BY <2>1, <3>1 DEF Faithful
    <3>2. ASSUME NEW t \in long, c = [to |-> e.from, sent |-> 0, what |-> Copy(t)]
          PROVE  c.what.target \in spoiled \/ c.what.data = Whole(c.what.target, c.what.time)
      BY <1>4, <1>5, <2>1, <3>2
    <3> QED BY <1>1, <2>1, <3>1, <3>2
  <2> QED BY <1>1, <2>1 DEF Faithful, Whole
<1> QED BY <1>6, <1>7, <1>8

LEMMA SendIncrementallyServes ==
  ASSUME TypeOK, Faithful, TypeIsKnown, SendIncrementally
  PROVE  Faithful' /\ ServedIsSaved' /\ TypeIsKnown'
<1>1. UNCHANGED <<fault, spoiled, mistaken>>
  BY DEF SendIncrementally
<1>2. TypeIsKnown'
  BY <1>1 DEF TypeIsKnown
<1>3. CASE UNCHANGED conversions /\ delivered' = {}
  BY <1>1, <1>2, <1>3 DEF Faithful, ServedIsSaved, Whole
<1>4. ASSUME NEW c \in conversions, SendNext(c) PROVE Faithful' /\ ServedIsSaved'
  <2>1. c \in Conversion /\ [c EXCEPT !.sent = @ + 1].what = c.what
    BY DEF TypeOK, Conversion
  <2>2. /\ \A d \in delivered' : d = c.what
        /\ \A d \in conversions' : \E f \in conversions : d.what = f.what
    BY <1>4, <2>1 DEF SendNext
  <2> QED BY <1>1, <2>2 DEF Faithful, ServedIsSaved, Whole
<1>5. (UNCHANGED conversions /\ delivered' = {}) \/ \E c \in conversions : SendNext(c)
  BY DEF SendIncrementally
<1> QED BY <1>2, <1>3, <1>4, <1>5

LEMMA ServedNext ==
  ASSUME TypeOK, ~mistaken => Safe, Faithful, ServedIsSaved, TypeIsKnown, [Next]_vars
  PROVE  Faithful' /\ ServedIsSaved' /\ TypeIsKnown'
<1>1. CASE ConvertClipboard \/ SendIncrementally
  BY <1>1, ConvertClipboardServes, SendIncrementallyServes
<1>2. CASE /\ conversions' = conversions /\ fault' = fault
           /\ delivered' = {} \/ delivered' = delivered
  <2>1. spoiled \subseteq spoiled' /\ (mistaken => mistaken')
    BY Histories
  <2>2. TypeIsKnown'
    BY <1>2, <2>1 DEF TypeIsKnown
  <2>3. Faithful'
    BY <1>2, <2>1 DEF Faithful, Whole
  <2>4. ServedIsSaved'
    BY <1>2, <2>1 DEF ServedIsSaved, Whole
  <2> QED BY <2>2, <2>3, <2>4
<1> QED BY <1>1, <1>2, Histories

(* What is saved is that of a requestor or of the manager, who is perhaps  *)
(* to learn that it has lost the clipboard.                                *)
Owning ==
  /\ mistaken => upset
  /\ ~upset /\ Saved # {} => requestor # NoWindow \/ owner = Manager \/ Comes("Clear")
  /\ ~upset /\ (\E t \in Target : contents[t].type \in {"incr", "done"}) =>
       owner = Manager \/ Comes("Clear")

LEMMA OwningNext ==
  ASSUME TypeOK, TypeOK', ~mistaken => Safe, Owning, [Next]_vars
  PROVE  Owning'
<1>1. mistaken' => upset'
  <2>1. CASE ConversionFailed
    <3>1. upset' = (upset \/ Saved # {} \/ mistaken')
      BY <2>1 DEF ConversionFailed
    <3> QED BY <3>1
  <2>2. CASE mistaken' = mistaken
    BY <2>2, Histories DEF Owning
  <2> QED BY <2>1, <2>2, Histories
<1>2. SUFFICES ASSUME ~upset' PROVE Owning'
  BY <1>1 DEF Owning
<1>3. ~upset /\ ~mistaken /\ Safe
  BY <1>2, Histories DEF Owning
<1>4. /\ Saved # {} => requestor # NoWindow \/ owner = Manager \/ Comes("Clear")
      /\ (\E t \in Target : contents[t].type \in {"incr", "done"}) =>
           owner = Manager \/ Comes("Clear")
  BY <1>3 DEF Owning
<1>5. ASSUME UNCHANGED <<contents, requestor>>,
             owner = Manager \/ Comes("Clear") => owner' = Manager \/ Comes("Clear")'
      PROVE  Owning'
  BY <1>1, <1>4, <1>5 DEF Owning, Saved
<1>6. ASSUME contents' = Nothing PROVE Owning'
  BY <1>1, <1>6 DEF Owning, Saved, Nothing, None
<1>7. ASSUME events # <<>>, events' = Tail(events), Head(events).type # "Clear", Comes("Clear")
      PROVE  Comes("Clear")'
  BY <1>7, Handled DEF Comes
<1>8. CASE Clients /\ UNCHANGED mvars
  <2>1. UNCHANGED <<contents, requestor>>
    BY <1>8 DEF mvars
  <2>2. ASSUME NEW c \in Client, Acquire(c) PROVE Owning'
    <3>1. PICK e \in Notice : e.type = "Clear" /\ (owner = Manager => events' = Append(events, e))
                              /\ (owner # Manager => events' = events)
      <4>1. now' \in Time
        BY <2>2 DEF TypeOK
      <4> QED BY <2>2, <4>1, EventTyped DEF Acquire, Event
    <3>2. owner = Manager => Comes("Clear")'
      BY <3>1, Come DEF Comes
    <3>3. owner # Manager => (Comes("Clear") => Comes("Clear")')
      BY <3>1 DEF Comes
    <3> QED BY <1>5, <2>1, <3>2, <3>3
  <2>3. ASSUME NEW e \in Notice, events' = Append(events, e) \/ events' = events,
               owner' = owner \/ owner # Manager
        PROVE  Owning'
    <3>1. Comes("Clear") => Comes("Clear")'
      BY <2>3, Come DEF Comes
    <3> QED BY <1>5, <2>1, <2>3, <3>1
  <2>4. ASSUME NEW c \in Client, Exit(c) PROVE Owning'
    <3>1. Event("Destroyed", c, {}, now) \in Notice
      BY EventTyped DEF TypeOK
    <3> QED BY <2>3, <2>4, <3>1, ClientsAssumption DEF Exit
  <2>5. ASSUME NEW c \in Client, NEW targets \in SUBSET Target,
               Save(c, targets) \/ Request(c, targets)
        PROVE  Owning'
    <3>1. /\ Event("SaveTargets", c, targets, since) \in Notice
          /\ Event("Request", c, targets, since) \in Notice
      BY EventTyped DEF TypeOK
    <3> QED BY <2>3, <2>5, <3>1 DEF Save, Request
  <2>6. ASSUME NEW g \in given, Read(g) PROVE Owning'
    <3>1. Event("Deleted", g.to, {g.target}, now) \in Notice
      BY EventTyped DEF TypeOK
    <3> QED BY <2>3, <2>6, <3>1 DEF Read
  <2>7. ASSUME LoseManager PROVE Owning'
    <3>1. Event("ManagerClear", NoWindow, {}, now) \in Notice
      BY EventTyped DEF TypeOK
    <3> QED BY <2>3, <2>7, <3>1 DEF LoseManager
  <2> QED BY <1>8, <2>2, <2>4, <2>5, <2>6, <2>7 DEF Clients
<1>9. CASE (Answers \/ Sends) /\ UNCHANGED mvars
  <2>1. UNCHANGED <<contents, requestor>> /\ owner' = owner
    BY <1>9 DEF mvars, Answers, Sends, Refuse, AnswerTargets, AnswerMultiple, SendPart
  <2>2. \E e \in Notice : events' = Append(events, e)
    <3>1. ASSUME NEW a \in asks, NEW targets \in SUBSET Target
          PROVE  /\ Event("Failed", NoWindow, {}, a.time) \in Notice
                 /\ Event("Targets", NoWindow, targets, a.time) \in Notice
                 /\ Event("Multiple", NoWindow, targets, a.time) \in Notice
      BY EventTyped DEF TypeOK, Ask
    <3>2. ASSUME NEW s \in sending PROVE Event("NewValue", NoWindow, {s.target}, s.of) \in Notice
      <4>1. s.target \in Target /\ s.of \in Time
        BY ClientsAssumption DEF TypeOK, Sending
      <4> QED BY <4>1, EventTyped
    <3> QED BY <1>9, <3>1, <3>2 DEF Answers, Sends, Refuse, AnswerTargets, AnswerMultiple, SendPart
  <2>3. Comes("Clear") => Comes("Clear")'
    BY <2>2, Come DEF Comes
  <2> QED BY <1>5, <2>1, <2>3
<1>10. CASE ConvertClipboardManager
  <2>1. events # <<>> /\ Head(events).type = "SaveTargets" /\ owner' = owner
    BY <1>10 DEF ConvertClipboardManager, Handles
  <2>2. CASE AcceptRequest(Head(events))
    <3>1. requestor' \in Client /\ Saved = {}
      BY <2>1, <2>2, Handled DEF AcceptRequest, TypeOK
    <3>2. \A t \in Target : contents'[t] \in {None, Pending}
      BY <2>2, <3>1 DEF AcceptRequest, SaveTargetsOf, Saved
    <3> QED BY <1>1, <3>1, <3>2, ClientsAssumption DEF Owning, None, Pending
  <2>3. CASE RefuseToSave(Head(events)) \/ DropRequest(Head(events))
    BY <1>5, <1>7, <2>1, <2>3 DEF RefuseToSave, DropRequest
  <2> QED BY <1>10, <2>2, <2>3 DEF ConvertClipboardManager
<1>11. CASE TargetsReceived
  <2>1. events # <<>> /\ IsAnswer(Head(events)) /\ Head(events).type = "Targets"
    BY <1>11 DEF TargetsReceived, Handles, IsAnswer
  <2>2. requestor' \in Client
    BY <1>3, <1>11, <2>1, AnswerHandled DEF TargetsReceived
  <2>3. Saved = {}
    BY <1>3, <2>1, Handled DEF Safe, Phase
  <2>4. \A t \in Target : contents'[t] \in {None, Pending}
    BY <1>11, <2>3 DEF TargetsReceived, SaveTargetsOf, Saved
  <2> QED BY <1>1, <2>2, <2>4, ClientsAssumption DEF Owning, None, Pending
<1>12. CASE MultipleReceived
  <2>1. owner' = Manager
    BY <1>2, <1>12 DEF MultipleReceived
  <2> QED BY <1>1, <2>1 DEF Owning
<1>13. CASE ConversionFailed
  <2>1. Saved = {} /\ contents' = contents
    BY <1>2, <1>13 DEF ConversionFailed
  <2> QED BY <1>1, <2>1 DEF Owning, Saved, None
<1>14. CASE ReceiveIncrementally
  <2>1. events # <<>> /\ Head(events).type = "NewValue" /\ events' = Tail(events) /\ owner' = owner
    BY <1>14 DEF ReceiveIncrementally, Handles
  <2>2. CASE UNCHANGED <<contents, requestor>>
    BY <1>5, <1>7, <2>1, <2>2
  <2>3. ASSUME NEW t \in Target, contents[t].type = "incr" PROVE Owning'
    <3>1. owner = Manager \/ Comes("Clear")
      BY <1>4, <2>3
    <3> QED BY <1>1, <1>7, <2>1, <3>1 DEF Owning
  <2>4. Head(events).targets \in SUBSET Target
    BY <2>1, Handled DEF Notice
  <2> QED BY <1>14, <2>2, <2>3, <2>4 DEF ReceiveIncrementally
<1>15. CASE RequestorDestroyed \/ ClipboardLost
  <2>1. contents' = Nothing \/
          (UNCHANGED <<contents, requestor>> /\ owner' = owner /\ events # <<>> /\
             events' = Tail(events) /\ Head(events).type # "Clear")
    BY <1>15 DEF RequestorDestroyed, ClipboardLost, FreeContents, Handles
  <2> QED BY <1>5, <1>6, <1>7, <2>1
<1>16. CASE ManagerLost
  BY <1>6, <1>16 DEF ManagerLost, FreeContents
<1>17. CASE ConvertClipboard
  <2>1. /\ events # <<>> /\ Head(events).type = "Request" /\ owner' = owner
        /\ UNCHANGED <<contents, requestor>>
    BY <1>17 DEF ConvertClipboard, Handles
  <2>2. Head(events).from # Manager
    BY <1>3, <2>1, Handled DEF Safe, Conversions
  <2>3. events' = Tail(events) \o <<>>
    BY <1>17, <2>2 DEF ConvertClipboard, OwnAnswer
  <2>4. events' = Tail(events)
    BY <2>1, <2>3, Handled, ConcatEmptySeq
  <2> QED BY <1>5, <1>7, <2>1, <2>4
<1>18. CASE SendIncrementally
  BY <1>5, <1>7, <1>18 DEF SendIncrementally, Handles
<1>19. CASE UNCHANGED vars
  <2>1. UNCHANGED <<contents, requestor, owner, events>>
    BY <1>19 DEF vars, cvars, mvars
  <2> QED BY <1>5, <2>1 DEF Comes
<1> QED BY <1>8, <1>9, <1>10, <1>11, <1>12, <1>13, <1>14, <1>15, <1>16, <1>17, <1>18, <1>19
        DEF Next, ProcessEvent

-----------------------------------------------------------------------------
(* The invariant: the history of each clipboard up to the queue.           *)
Inv ==
  /\ TypeOK
  /\ ~mistaken => Safe
  /\ Faithful /\ ServedIsSaved /\ TypeIsKnown
  /\ Owning

LEMMA InvInit == Init => Inv
<1> SUFFICES ASSUME Init PROVE Inv
  OBVIOUS
<1>1. Faithful /\ ServedIsSaved /\ TypeIsKnown
  BY DEF Init, Faithful, ServedIsSaved, TypeIsKnown
<1>2. Owning
  <2>1. ~mistaken /\ Saved = {} /\ \A t \in Target : contents[t].type = "none"
    BY DEF Init, Saved, Nothing, None
  <2> QED BY <2>1 DEF Owning
<1> QED BY <1>1, <1>2, TypeOKInit, InitSafe DEF Inv

LEMMA InvNext == Inv /\ [Next]_vars => Inv'
<1> SUFFICES ASSUME Inv, [Next]_vars PROVE Inv'
  OBVIOUS
<1>1. TypeOK'
  BY TypeOKNext DEF Inv
<1> QED BY <1>1, SafeNext, ServedNext, OwningNext DEF Inv

LEMMA InvAlways == Spec => []Inv
BY InvInit, InvNext, PTL DEF Spec

(* Whatever is copied, refused, received in parts or lost in whichever     *)
(* order, by however many clients: who was told that its clipboard is      *)
(* saved has every target kept, whole, as long as the manager owns it.     *)
THEOREM SavedIsKeptAlways == Spec => []SavedIsKept
<1>1. ASSUME Inv PROVE SavedIsKept
  <2> SUFFICES ASSUME NEW c \in Client, owner = Manager, managing, ~mistaken,
                      status[c] = [is |-> "saved", time |-> since],
                      NEW t \in offered[since] \ spoiled
               PROVE  contents[t] = [type |-> "done", data |-> Whole(t, since)]
    BY DEF SavedIsKept
  <2>1. TypeOK /\ Safe
    BY <1>1 DEF Inv
  <2>2. since = time /\ Told
    BY <2>1 DEF Safe, Kept, Told
  <2>3. t \in Target /\ contents[t] \in Entry
    BY <2>1 DEF TypeOK
  <2>4. contents[t].type = "done"
    BY <2>1, <2>2, <2>3 DEF Safe, Kept
  <2>5. contents[t].data = Whole(t, time)
    BY <2>1, <2>3, <2>4 DEF Safe, Transfers, Transfer
  <2> QED BY <2>2, <2>3, <2>4, <2>5 DEF Entry
<1> QED BY <1>1, InvAlways, PTL

(* Nobody is served, at once or in parts, a mixture of copies or a part of *)
(* one, unless the reception of that target was broken off.                *)
THEOREM ServedIsSavedAlways == Spec => []ServedIsSaved
<1>1. Inv => ServedIsSaved
  BY DEF Inv
<1> QED BY <1>1, InvAlways, PTL

(* No request finds data without a type, unless a reception was broken off. *)
THEOREM TypeIsKnownAlways == Spec => []TypeIsKnown
<1>1. Inv => TypeIsKnown
  BY DEF Inv
<1> QED BY <1>1, InvAlways, PTL

(* As long as no conversion fails nothing is saved for nobody: the manager *)
(* owns what is in its list, or is to learn of its loss.                   *)
THEOREM NothingLeftOverAlways == Spec => []NothingLeftOver
<1>1. ASSUME Inv PROVE NothingLeftOver
  <2> SUFFICES ASSUME requestor = NoWindow, ~upset, Saved # {}, owner # Manager
               PROVE  \E i \in DOMAIN events : events[i].type = "Clear"
    BY DEF NothingLeftOver
  <2>1. Comes("Clear")
    BY <1>1 DEF Inv, Owning
  <2> QED BY <2>1 DEF Comes, In
<1> QED BY <1>1, InvAlways, PTL

=============================================================================
