--------------------------- MODULE PlayersProofs ---------------------------
(***************************************************************************)
(* The keys for players go to the player that asked last, and those that   *)
(* run are all known: KeysGoToPlayers of MCDesktop, for any players and    *)
(* applications, any number of starts and of changes of owners, and a      *)
(* clock of any width.                                                     *)
(***************************************************************************)
EXTENDS DesktopProofs, FiniteSetTheorems

(* The players that take the keys (plugins/media-keys).                    *)

(* One sequence is another one with an element more at a place.            *)
HasAt(T, r, s, i, e) ==
  /\ r \in Seq(T) /\ Len(r) = Len(s) + 1
  /\ r[i] = e
  /\ \A j \in 1..Len(s) : j < i => r[j] = s[j]
  /\ \A j \in 1..Len(s) : j >= i => r[j + 1] = s[j]

(* So it is when the element is inserted.                                  *)
LEMMA AddedOne ==
  ASSUME NEW T, NEW s \in Seq(T), NEW i \in 1..Len(s) + 1, NEW e \in T
  PROVE  HasAt(T, PL!InsertAt(s, i, e), s, i, e)
<1> DEFINE low  == SubSeq(s, 1, i - 1)
           high == SubSeq(s, i, Len(s))
           both == low \o <<e>>
           r    == PL!InsertAt(s, i, e)
<1>0. Len(s) \in Nat /\ i \in Nat /\ 1 <= i /\ i <= Len(s) + 1
  OBVIOUS
<1>1. low \in Seq(T) /\ Len(low) = i - 1 /\ \A j \in 1..i - 1 : low[j] = s[j]
  BY <1>0
<1>2. high \in Seq(T) /\ Len(high) = Len(s) - (i - 1) /\ \A j \in 1..Len(s) - (i - 1) : high[j] = s[i + j - 1]
  BY <1>0
<1>3. r = both \o high
  BY DEF PL!InsertAt
<1>11. HasAt(T, r, s, i, e) => HasAt(T, PL!InsertAt(s, i, e), s, i, e)
  OBVIOUS
<1> HIDE DEF r
<1>4. both \in Seq(T) /\ Len(both) = i /\ \A j \in 1..i : both[j] = IF j < i THEN s[j] ELSE e
  <2>1. <<e>> \in Seq(T) /\ Len(<<e>>) = 1 /\ <<e>>[1] = e
    OBVIOUS
  <2>2. PICK one : one = <<e>>
    OBVIOUS
  <2>3. both = low \o one
    BY <2>2
  <2> HIDE DEF low, both
  <2>4. /\ both \in Seq(T) /\ Len(both) = (i - 1) + 1
        /\ \A j \in 1..(i - 1) + 1 : both[j] = IF j <= i - 1 THEN low[j] ELSE one[j - (i - 1)]
    BY <1>1, <2>1, <2>2, <2>3, ConcatProperties
  <2>5. one[1] = e
    BY <2>1, <2>2
  <2> HIDE <2>2, <2>3
  <2> QED
    BY <1>0, <1>1, <2>4, <2>5
<1> HIDE DEF low, high, both
<1>5. /\ r \in Seq(T) /\ Len(r) = i + (Len(s) - (i - 1))
      /\ \A j \in 1..i + (Len(s) - (i - 1)) : r[j] = IF j <= i THEN both[j] ELSE high[j - i]
  <2>1. /\ both \o high \in Seq(T) /\ Len(both \o high) = Len(both) + Len(high)
        /\ \A j \in 1..Len(both) + Len(high) :
             (both \o high)[j] = IF j <= Len(both) THEN both[j] ELSE high[j - Len(both)]
    BY <1>2, <1>4, ConcatProperties
  <2> QED
    BY <1>2, <1>3, <1>4, <2>1, Zenon
<1>6. i + (Len(s) - (i - 1)) = Len(s) + 1
  BY <1>0
<1>7. ASSUME NEW j \in 1..Len(s) + 1 PROVE r[j] = IF j < i THEN s[j] ELSE IF j = i THEN e ELSE s[j - 1]
  <2>1. r[j] = IF j <= i THEN both[j] ELSE high[j - i]
    BY <1>5, <1>6
  <2>2. CASE j <= i
    <3>1. j \in 1..i
      BY <1>0, <2>2
    <3>2. both[j] = IF j < i THEN s[j] ELSE e
      BY <1>4, <3>1
    <3> QED
      BY <1>0, <2>1, <2>2, <3>2
  <2>3. CASE ~(j <= i)
    <3>1. j - i \in 1..Len(s) - (i - 1) /\ i + (j - i) - 1 = j - 1 /\ ~(j < i) /\ j # i
      BY <1>0, <2>3
    <3>2. high[j - i] = s[i + (j - i) - 1]
      BY <1>2, <3>1
    <3> QED
      BY <2>1, <2>3, <3>1, <3>2
  <2> QED
    BY <2>2, <2>3
<1>8. r[i] = e
  BY <1>0, <1>7
<1>9. ASSUME NEW j \in 1..Len(s), j < i PROVE r[j] = s[j]
  BY <1>0, <1>7, <1>9
<1>10. ASSUME NEW j \in 1..Len(s), j >= i PROVE r[j + 1] = s[j]
  <2>1. j + 1 \in 1..Len(s) + 1 /\ ~(j + 1 < i) /\ j + 1 # i /\ (j + 1) - 1 = j
    BY <1>0, <1>10
  <2> QED
    BY <1>7, <2>1
<1> QED
  BY <1>5, <1>6, <1>8, <1>9, <1>10, <1>11 DEF HasAt

-----------------------------------------------------------------------------
(* The first of some positions is one of them, and no other is before it.  *)
LEMMA FirstIsLeast ==
  ASSUME NEW T \in SUBSET Nat, T # {}
  PROVE  PL!Min(T) \in T /\ \A y \in T : PL!Min(T) <= y
BY Least DEF PL!Min

(* What is left of the list of players without one, whose first is found.  *)
LEMMA WithoutOne ==
  ASSUME NEW T, x4 \in Seq(T), NEW app
  PROVE  /\ PL!Without(app) \in Seq(T)
         /\ \A i \in 1..Len(PL!Without(app)) : \E j \in 1..Len(x4) : PL!Without(app)[i] = x4[j]
         /\ \A j \in 1..Len(x4) : x4[j].app # app
              => \E i \in 1..Len(PL!Without(app)) : PL!Without(app)[i] = x4[j]
         /\ x4 # <<>> /\ x4[1].app # app => PL!Without(app) # <<>> /\ PL!Without(app)[1] = x4[1]
<1>1. CASE PL!Of(app) = {}
  <2>1. PL!Without(app) = x4
    BY <1>1 DEF PL!Without
  <2> QED
    BY <2>1
<1>2. CASE PL!Of(app) # {}
  <2>1. PICK k : k = PL!Min(PL!Of(app))
    OBVIOUS
  <2>2. PICK s : s = x4
    OBVIOUS
  <2>3. PL!Of(app) \in SUBSET Nat
    BY DEF PL!Of
  <2>4. k \in 1..Len(s) /\ s[k].app = app /\ s \in Seq(T)
    <3>1. k \in PL!Of(app)
      BY <1>2, <2>1, <2>3, FirstIsLeast
    <3> QED
      BY <2>2, <3>1 DEF PL!Of
  <2>5. PICK r : r = PL!Without(app)
    OBVIOUS
  <2>6. r = SubSeq(s, 1, k - 1) \o SubSeq(s, k + 1, Len(s))
    BY <1>2, <2>1, <2>2, <2>5 DEF PL!Without, PL!RemoveAt
  <2>7. /\ r \in Seq(T) /\ Len(r) = Len(s) - 1
        /\ \A j \in 1..Len(s) - 1 : r[j] = IF j < k THEN s[j] ELSE s[j + 1]
    <3>1. LacksAt(T, r, s, k)
      BY ONLY <2>4, <2>6, RemovedOne, Zenon
    <3> QED
      BY <3>1 DEF LacksAt
  <2> HIDE <2>6
  <2>8. ASSUME NEW i \in 1..Len(r) PROVE \E j \in 1..Len(s) : r[i] = s[j]
    <3>1. i \in 1..Len(s) - 1 /\ i \in 1..Len(s) /\ i + 1 \in 1..Len(s)
      BY <2>4, <2>7
    <3> QED
      BY <2>7, <3>1
  <2>9. ASSUME NEW j \in 1..Len(s), s[j].app # app
        PROVE  \E i \in 1..Len(r) : r[i] = s[j]
    <3>1. j # k
      BY <2>4, <2>9
    <3>2. CASE j < k
      BY <2>4, <2>7, <3>2
    <3>3. CASE j > k
      <4>1. j - 1 \in 1..Len(s) - 1 /\ ~(j - 1 < k) /\ (j - 1) + 1 = j
        BY <2>4, <3>3
      <4> QED
        BY <2>7, <4>1
    <3> QED
      BY <2>4, <3>1, <3>2, <3>3
  <2>10. s # <<>> /\ s[1].app # app => r # <<>> /\ r[1] = s[1]
    <3> SUFFICES ASSUME s # <<>>, s[1].app # app PROVE r # <<>> /\ r[1] = s[1]
      OBVIOUS
    <3>1. 1 < k /\ 1 \in 1..Len(s) - 1
      BY <2>4
    <3> QED
      BY <2>7, <3>1
  <2> QED
    BY <2>2, <2>5, <2>7, <2>8, <2>9, <2>10
<1> QED
  BY <1>1, <1>2

(* A list is another one with a player, who is at its head unless another  *)
(* has a later time.                                                       *)
IsWith(r, list, p) ==
  /\ \A i \in 1..Len(r) : r[i] = p \/ \E j \in 1..Len(list) : r[i] = list[j]
  /\ \E i \in 1..Len(r) : r[i] = p
  /\ \A j \in 1..Len(list) : \E i \in 1..Len(r) : r[i] = list[j]
  /\ (\A j \in 1..Len(list) : list[j].time <= p.time) => r[1] = p
  /\ list # <<>> /\ list[1].time > p.time => r[1] = list[1]

(* So it is when he is inserted.                                           *)
LEMMA InsertedOne ==
  ASSUME NEW T, \A q \in T : q.time \in Nat, NEW list \in Seq(T), NEW p \in T,
         NEW r, r = PL!Inserted(list, p)
  PROVE  r \in Seq(T) /\ IsWith(r, list, p)
<1> DEFINE places == {i \in DOMAIN list : list[i].time <= p.time} \cup {Len(list) + 1}
<1>1. places \in SUBSET Nat /\ places # {} /\ places \subseteq 1..Len(list) + 1
  OBVIOUS
<1>2. PICK k : k = PL!Min(places)
  OBVIOUS
<1>3. k \in places /\ \A y \in places : k <= y
  BY <1>1, <1>2, FirstIsLeast
<1>5. r = PL!InsertAt(list, k, p)
  BY <1>2 DEF PL!Inserted
<1>6. k \in 1..Len(list) + 1
  BY <1>1, <1>3
<1>7. /\ r \in Seq(T) /\ Len(r) = Len(list) + 1 /\ r[k] = p
      /\ \A j \in 1..Len(list) : j < k => r[j] = list[j]
      /\ \A j \in 1..Len(list) : j >= k => r[j + 1] = list[j]
  <2>1. HasAt(T, r, list, k, p)
    BY <1>5, <1>6, AddedOne, Zenon
  <2> QED
    BY <2>1 DEF HasAt
<1> HIDE <1>5
<1>8. ASSUME NEW i \in 1..Len(r) PROVE r[i] = p \/ \E j \in 1..Len(list) : r[i] = list[j]
  <2>1. CASE i < k
    <3>1. i \in 1..Len(list)
      BY <1>6, <1>7, <2>1
    <3> QED
      BY <1>7, <2>1, <3>1
  <2>2. CASE i > k
    <3>1. i - 1 \in 1..Len(list) /\ i - 1 >= k /\ (i - 1) + 1 = i
      BY <1>6, <1>7, <2>2
    <3> QED
      BY <1>7, <3>1
  <2>3. i = k => r[i] = p
    BY <1>7
  <2> QED
    BY <1>6, <1>7, <2>1, <2>2, <2>3
<1>9. \E i \in 1..Len(r) : r[i] = p
  BY <1>6, <1>7
<1>10. ASSUME NEW j \in 1..Len(list) PROVE \E i \in 1..Len(r) : r[i] = list[j]
  <2>1. CASE j < k
    BY <1>7, <2>1
  <2>2. CASE ~(j < k)
    <3>1. j + 1 \in 1..Len(r) /\ j >= k
      BY <1>6, <1>7, <2>2
    <3> QED
      BY <1>7, <3>1
  <2> QED
    BY <2>1, <2>2
<1>11. ASSUME \A j \in 1..Len(list) : list[j].time <= p.time PROVE r[1] = p
  <2>1. 1 \in places
    BY <1>11
  <2>2. k = 1
    BY <1>3, <1>6, <2>1
  <2> QED
    BY <1>7, <2>2
<1>12. ASSUME list # <<>>, list[1].time > p.time PROVE r[1] = list[1]
  <2>1. 1 \notin places
    BY <1>12
  <2>2. 1 < k /\ 1 \in 1..Len(list)
    BY <1>3, <1>6, <1>12, <2>1
  <2> QED
    BY <1>7, <2>2
<1> QED
  BY <1>7, <1>8, <1>9, <1>10, <1>11, <1>12 DEF IsWith

(* A time that has not wrapped is the clock's.                             *)
LEMMA TimeIsClock ==
  ASSUME NEW t \in Nat
  PROVE  t % Width \in Nat /\ (t < Width => t % Width = t)
<1>1. Width \in Nat /\ Width > 0
  BY WidthAssumption
<1>2. t % Width \in Nat
  BY <1>1
<1>3. t < Width => t % Width = t
  BY <1>1
<1> QED
  BY <1>2, <1>3

(* Who asks is then one of the players, and those who were still are; with *)
(* the current time he is the first.                                       *)
LEMMA GrabIsKept ==
  ASSUME PL!PlayersAreInTime, NEW app \in App \cup {PL!Mpris}, NEW current \in BOOLEAN,
         PL!GrabMediaPlayerKeys(app, current), x3' = x3
  PROVE  /\ PL!PlayersAreInTime'
         /\ PL!Of(app)' # {}
         /\ \A b1 : PL!Of(b1) # {} => PL!Of(b1)' # {}
<1> DEFINE T == [app : App \cup {PL!Mpris}, time : Nat]
<1>1. PICK t : t = IF current THEN x3 % Width ELSE 1
  OBVIOUS
<1> USE DEF PL!PlayersAreInTime
<1>2. t \in Nat /\ (x3 < Width => t = IF current THEN x3 ELSE 1)
  BY <1>1, TimeIsClock
<1> DEFINE stays == PL!Of(app) # {} /\ x4[PL!Min(PL!Of(app))].time >= t
<1>3. /\ x4' = IF stays THEN x4 ELSE PL!Inserted(PL!Without(app), [app |-> app, time |-> t])
      /\ x10' = IF current THEN app ELSE IF x10 = app THEN PL!NoApp ELSE x10
      /\ x11' = IF current /\ stays THEN x11 \cup {"tie"} ELSE x11
  BY <1>1 DEF PL!GrabMediaPlayerKeys
<1>4. x4 \in Seq(T)
  OBVIOUS
<1>t. [app |-> app, time |-> t] \in T /\ \A q \in T : q.time \in Nat
  BY <1>2
<1> HIDE DEF T
<1>w. /\ PL!Without(app) \in Seq(T)
      /\ \A i \in 1..Len(PL!Without(app)) : \E j \in 1..Len(x4) : PL!Without(app)[i] = x4[j]
      /\ \A j \in 1..Len(x4) : x4[j].app # app
           => \E i \in 1..Len(PL!Without(app)) : PL!Without(app)[i] = x4[j]
      /\ x4 # <<>> /\ x4[1].app # app => PL!Without(app) # <<>> /\ PL!Without(app)[1] = x4[1]
  BY <1>4, WithoutOne
<1>5. CASE stays
  <2>1. x4' = x4 /\ PL!Of(app) # {}
    BY <1>3, <1>5
  <2>2. \A b1 : PL!Of(b1)' = PL!Of(b1)
    BY <2>1 DEF PL!Of
  <2>3. current => "tie" \in x11'
    BY <1>3, <1>5
  <2>4. ~current => x11' = x11 /\ (x10' = PL!NoApp \/ x10' = x10)
    BY <1>3
  <2>5. PL!PlayersAreInTime'
    BY <2>1, <2>3, <2>4
  <2> QED
    BY <2>1, <2>2, <2>5
<1>6. CASE ~stays
  <2>1. PICK list, p : list = PL!Without(app) /\ p = [app |-> app, time |-> t]
    OBVIOUS
  <2>2. /\ list \in Seq(T)
        /\ \A i \in 1..Len(list) : \E j \in 1..Len(x4) : list[i] = x4[j]
        /\ \A j \in 1..Len(x4) : x4[j].app # app => \E i \in 1..Len(list) : list[i] = x4[j]
        /\ x4 # <<>> /\ x4[1].app # app => list # <<>> /\ list[1] = x4[1]
    BY <1>w, <2>1
  <2>3. x4' = PL!Inserted(list, p) /\ x11' = x11
    BY <1>3, <1>6, <2>1
  <2>4. p \in T /\ p.app = app /\ p.time = t /\ \A q \in T : q.time \in Nat
    BY <1>t, <2>1
  <2>5. /\ x4' \in Seq(T)
        /\ \A i \in 1..Len(x4') : x4'[i] = p \/ \E j \in 1..Len(list) : x4'[i] = list[j]
        /\ \E i \in 1..Len(x4') : x4'[i] = p
        /\ \A j \in 1..Len(list) : \E i \in 1..Len(x4') : x4'[i] = list[j]
        /\ (\A j \in 1..Len(list) : list[j].time <= p.time) => x4'[1] = p
        /\ list # <<>> /\ list[1].time > p.time => x4'[1] = list[1]
    <3>1. PICK more : more = PL!Inserted(list, p)
      OBVIOUS
    <3>2. more \in Seq(T) /\ IsWith(more, list, p)
      BY <2>2, <2>4, <3>1, InsertedOne
    <3>3. x4' = more
      BY <2>3, <3>1
    <3> QED
      BY <3>2, <3>3 DEF IsWith
  <2>6. PL!Of(app)' # {}
    BY <2>4, <2>5 DEF PL!Of
  <2>7. ASSUME NEW b1, PL!Of(b1) # {} PROVE PL!Of(b1)' # {}
    <3>1. CASE b1 = app
      BY <2>6, <3>1
    <3>2. CASE b1 # app
      <4>1. PICK j \in 1..Len(x4) : x4[j].app = b1
        BY <1>4, <2>7 DEF PL!Of
      <4>2. PICK i \in 1..Len(x4') : x4'[i] = x4[j]
        BY <2>2, <2>5, <3>2, <4>1
      <4> QED
        BY <2>5, <4>1, <4>2 DEF PL!Of
    <3> QED
      BY <3>1, <3>2
  <2>8. ASSUME x3 < Width, "tie" \notin x11
        PROVE  /\ \A i \in DOMAIN x4' : x4'[i].time \in 1..x3
               /\ x10' # PL!NoApp => x4' # <<>> /\ x4'[1].app = x10' /\ x4'[1].time > 1
    <3>1. /\ \A i \in 1..Len(x4) : x4[i].time \in 1..x3
          /\ x10 # PL!NoApp => x4 # <<>> /\ x4[1].app = x10 /\ x4[1].time > 1
      BY <1>4, <2>8
    <3>2. \A i \in 1..Len(list) : list[i].time \in 1..x3
      BY <2>2, <3>1
    <3>3. t \in 1..x3 /\ t = (IF current THEN x3 ELSE 1)
      BY <1>2, <2>8
    <3>4. \A i \in DOMAIN x4' : x4'[i].time \in 1..x3
      <4>1. DOMAIN x4' = 1..Len(x4')
        BY <2>5
      <4> QED
        BY <2>4, <2>5, <3>2, <3>3, <4>1
    <3>5. x4' # <<>>
      BY <2>5
    <3>6. CASE current
      <4>1. x4'[1] = p
        BY <2>2, <2>4, <2>5, <3>2, <3>3, <3>6
      <4>2. x10' = app
        BY <1>3, <3>6
      <4> QED
        BY <2>4, <3>3, <3>4, <3>5, <3>6, <4>1, <4>2
    <3>7. ASSUME ~current, x10' # PL!NoApp PROVE x4'[1].app = x10' /\ x4'[1].time > 1
      <4>1. x10' = x10 /\ x10 # app
        BY <1>3, <3>7
      <4>2. list # <<>> /\ list[1] = x4[1] /\ list[1].time > 1
        BY <2>2, <3>1, <3>7, <4>1
      <4>3. x4'[1] = x4[1]
        BY <2>4, <2>5, <3>3, <3>7, <4>2
      <4> QED
        BY <3>1, <3>7, <4>1, <4>3
    <3> QED
      BY <3>4, <3>5, <3>6, <3>7
  <2>9. PL!PlayersAreInTime'
    BY <2>3, <2>5, <2>8 DEF T
  <2> QED
    BY <2>6, <2>7, <2>9
<1> QED
  BY <1>5, <1>6

(* The list and the clock: no step but asking adds a player.               *)
LEMMA PlayersStep ==
  ASSUME PL!PlayersAreInTime, [PL!Next]_PL!vars
  PROVE  PL!PlayersAreInTime'
<1>1. ASSUME NEW app \in App \cup {PL!Mpris}, NEW current \in BOOLEAN,
             PL!GrabMediaPlayerKeys(app, current), x3' = x3
      PROVE  PL!PlayersAreInTime'
  BY <1>1, GrabIsKept
<1>2. ASSUME NEW app \in App, NEW current \in BOOLEAN, PL!Grabs(app, current)
      PROVE  PL!PlayersAreInTime'
  BY <1>1, <1>2 DEF PL!Grabs
<1>3. CASE PL!MprisGrabs
  <2>1. CASE PL!OnTheBus
    <3>1. PL!GrabMediaPlayerKeys(PL!Mpris, TRUE) /\ x3' = x3
      BY <1>3, <2>1 DEF PL!MprisGrabs
    <3> QED
      BY <1>1, <3>1
  <2>2. CASE ~PL!OnTheBus
    <3>1. UNCHANGED <<x3, x4, x10>> /\ x11 \subseteq x11'
      BY <1>3, <2>2 DEF PL!MprisGrabs
    <3> QED
      BY <3>1 DEF PL!PlayersAreInTime
  <2> QED
    BY <2>1, <2>2
<1>4. CASE PL!Tick
  <2>1. x3' = x3 + 1 /\ UNCHANGED <<x4, x10, x11>>
    BY <1>4 DEF PL!Tick
  <2>2. Width \in Nat
    BY WidthAssumption
  <2> QED
    BY <2>1, <2>2 DEF PL!PlayersAreInTime
<1>5. CASE PL!StopMediaKeys
  BY <1>5 DEF PL!StopMediaKeys, PL!PlayersAreInTime
<1>6. ASSUME NEW app \in App, PL!Releases(app)
      PROVE  PL!PlayersAreInTime'
  <2> DEFINE T == [app : App \cup {PL!Mpris}, time : Nat]
  <2>1. x4 \in Seq(T)
    BY DEF PL!PlayersAreInTime
  <2> HIDE DEF T
  <2>2. PICK list : list = PL!Without(app)
    OBVIOUS
  <2>3. /\ list \in Seq(T)
        /\ \A i \in 1..Len(list) : \E j \in 1..Len(x4) : list[i] = x4[j]
        /\ x4 # <<>> /\ x4[1].app # app => list # <<>> /\ list[1] = x4[1]
    BY <2>1, <2>2, WithoutOne
  <2>4. x4' = list /\ x10' = (IF x10 = app THEN PL!NoApp ELSE x10) /\ UNCHANGED <<x3, x11>>
    BY <1>6, <2>2 DEF PL!Releases
  <2>5. ASSUME x3 < Width, "tie" \notin x11
        PROVE  /\ \A i \in DOMAIN x4' : x4'[i].time \in 1..x3
               /\ x10' # PL!NoApp => x4' # <<>> /\ x4'[1].app = x10' /\ x4'[1].time > 1
    <3>1. /\ \A i \in 1..Len(x4) : x4[i].time \in 1..x3
          /\ x10 # PL!NoApp => x4 # <<>> /\ x4[1].app = x10 /\ x4[1].time > 1
      BY <2>1, <2>5 DEF PL!PlayersAreInTime
    <3>2. \A i \in 1..Len(list) : list[i].time \in 1..x3
      BY <2>3, <3>1
    <3>3. DOMAIN x4' = 1..Len(list)
      BY <2>3, <2>4
    <3>4. ASSUME x10' # PL!NoApp PROVE x4' # <<>> /\ x4'[1].app = x10' /\ x4'[1].time > 1
      BY <2>3, <2>4, <3>1, <3>4
    <3> QED
      BY <2>4, <3>2, <3>3, <3>4
  <2>6. x4' \in Seq(T)
    BY <2>3, <2>4
  <2> QED
    BY <2>4, <2>5, <2>6 DEF PL!PlayersAreInTime, T
<1>7. ASSUME UNCHANGED <<x3, x4, x10>>, x11 \subseteq x11' PROVE PL!PlayersAreInTime'
  BY <1>7 DEF PL!PlayersAreInTime
<1>8. CASE PL!StartMediaKeys \/ PL!Start \/ PL!CsdNameAppeared \/ UNCHANGED PL!vars
  BY <1>7, <1>8 DEF PL!StartMediaKeys, PL!Start, PL!CsdNameAppeared, PL!vars
<1>9. CASE PL!Stop \/ PL!CsdNameVanished \/ PL!GotProxy
  BY <1>7, <1>9 DEF PL!Stop, PL!CsdNameVanished, PL!GotProxy, PL!Overtaken
<1> QED
  BY <1>2, <1>3, <1>4, <1>5, <1>6, <1>8, <1>9 DEF PL!Next

(* The proxy: each step leaves one, or none, and what is on its way.       *)
LEMMA ProxyStep ==
  ASSUME PL!PlayersAreInTime, PL!ProxyIsOne, [PL!Next]_PL!vars
  PROVE  PL!ProxyIsOne'
<1> USE DEF PL!ProxyIsOne
<1>1. PL!Of(PL!Mpris)' = PL!Of(PL!Mpris) \/ x4' # x4
  BY DEF PL!Of
<1>2. ASSUME NEW app \in App, NEW current \in BOOLEAN, PL!Grabs(app, current)
      PROVE  PL!ProxyIsOne'
  <2>1. PL!GrabMediaPlayerKeys(app, current) /\ UNCHANGED <<on, x3, x5, x6, x7, x8, x9>>
    BY <1>2 DEF PL!Grabs
  <2>2. PL!Of(PL!Mpris) # {} => PL!Of(PL!Mpris)' # {}
    BY <2>1, GrabIsKept
  <2>3. x11 \subseteq x11' /\ ("late" \in x11' => "late" \in x11)
    BY <2>1 DEF PL!GrabMediaPlayerKeys
  <2> QED
    BY <2>1, <2>2, <2>3
<1>3. CASE PL!MprisGrabs
  <2>1. UNCHANGED <<on, x3, x5, x6, x7, x8>>
    BY <1>3 DEF PL!MprisGrabs
  <2>2. CASE PL!OnTheBus
    <3>1. PL!GrabMediaPlayerKeys(PL!Mpris, TRUE)
      BY <1>3, <2>2 DEF PL!MprisGrabs
    <3>2. PL!Of(PL!Mpris)' # {}
      BY <2>1, <3>1, GrabIsKept
    <3>3. x11 \subseteq x11' /\ ("late" \in x11' => "late" \in x11)
      BY <3>1 DEF PL!GrabMediaPlayerKeys
    <3> QED
      BY <2>1, <3>2, <3>3
  <2>3. CASE ~PL!OnTheBus
    <3>1. x11' = x11 \cup {"failed"}
      BY <1>3, <2>3 DEF PL!MprisGrabs
    <3> QED
      BY <2>1, <3>1
  <2> QED
    BY <2>2, <2>3
<1>4. ASSUME NEW app \in App, PL!Releases(app)
      PROVE  PL!ProxyIsOne'
  <2>1. x4' = PL!Without(app) /\ UNCHANGED <<on, x5, x6, x7, x8, x9, x11>>
    BY <1>4 DEF PL!Releases
  <2>2. PICK T : x4 \in Seq(T)
    BY DEF PL!PlayersAreInTime
  <2>3. /\ PL!Without(app) \in Seq(T)
        /\ \A j \in 1..Len(x4) : x4[j].app # app
             => \E i \in 1..Len(PL!Without(app)) : PL!Without(app)[i] = x4[j]
    BY <2>2, WithoutOne
  <2>4. app # PL!Mpris
    BY NamesAssumption DEF PL!Mpris
  <2>5. ASSUME PL!Of(PL!Mpris) # {} PROVE PL!Of(PL!Mpris)' # {}
    <3>1. PICK j \in 1..Len(x4) : x4[j].app = PL!Mpris
      BY <2>2, <2>5 DEF PL!Of
    <3>2. PICK i \in 1..Len(x4') : x4'[i] = x4[j]
      BY <2>1, <2>3, <2>4, <3>1
    <3>3. DOMAIN x4' = 1..Len(x4')
      BY <2>1, <2>3
    <3> QED
      BY <3>1, <3>2, <3>3 DEF PL!Of
  <2> QED
    BY <2>1, <2>5
<1>5. CASE PL!StopMediaKeys
  BY <1>5 DEF PL!StopMediaKeys
<1>6. CASE PL!Start
  BY <1>1, <1>6 DEF PL!Start
<1>7. CASE PL!CsdNameAppeared
  BY <1>1, <1>7 DEF PL!CsdNameAppeared
<1>8. CASE PL!CsdNameVanished
  BY <1>1, <1>8 DEF PL!CsdNameVanished, PL!Overtaken
<1>9. CASE PL!GotProxy
  <2>1. /\ x6 > 0 /\ x6' = x6 - 1 /\ UNCHANGED <<on, x4, x5>>
        /\ (x7' /\ x9' /\ x11' = x11) \/ (~x7' /\ x11' = x11 \cup {"failed"})
    BY <1>9 DEF PL!GotProxy
  <2>2. x8' => x8 \/ x7
    BY <1>9, Zenon DEF PL!GotProxy
  <2>3. PL!Of(PL!Mpris)' = PL!Of(PL!Mpris)
    BY <2>1 DEF PL!Of
  <2>4. (~on => x5 = "unwatched")' /\ x6' \in Nat
    BY <2>1
  <2>5. ASSUME "late" \notin x11'
        PROVE  ~x8' /\ (x7' => x5' = "there") /\ (x6' > 0 => x5' = "there" /\ ~x7' /\ x6' = 1)
    <3>1. x5 = "there" /\ ~x7 /\ x6 = 1 /\ ~x8
      BY <2>1, <2>5
    <3> QED
      BY <2>1, <2>2, <3>1
  <2>6. on' /\ x5' = "there" /\ x11' \cap {"failed", "forgotten"} = {}
          => x6' > 0 \/ x9' \/ PL!Of(PL!Mpris)' # {}
    BY <2>1
  <2> QED
    BY <2>4, <2>5, <2>6
<1>10. CASE PL!Stop
  BY <1>1, <1>10 DEF PL!Stop, PL!Overtaken
<1>11. CASE PL!Tick \/ PL!StartMediaKeys \/ UNCHANGED PL!vars
  BY <1>1, <1>11 DEF PL!Tick, PL!StartMediaKeys, PL!vars
<1> QED
  BY <1>2, <1>3, <1>4, <1>5, <1>6, <1>7, <1>8, <1>9, <1>10, <1>11 DEF PL!Next

-----------------------------------------------------------------------------
(* The players that run (plugins/mpris).                                   *)

(* Who watches after a step that leaves the watchers alone.                *)
LEMMA WatchingKept == x7' = x7 => MP!Watching' = MP!Watching
BY DEF MP!Watching

(* What the bus sends is a message.                                        *)
LEMMA SignalType ==
  ASSUME MP!PlayerTypes, NEW n \in Player, NEW lost \in BOOLEAN, NEW gained \in BOOLEAN
  PROVE  [to |-> MP!Watching, name |-> n, lost |-> lost, gained |-> gained, names |-> {}] \in MP!Message
<1>1. MP!Watching \in SUBSET MP!Id
  BY DEF MP!Watching
<1> QED
  BY <1>1 DEF MP!Message

(* So is what it answers.                                                  *)
LEMMA AnswerType ==
  ASSUME MP!PlayerTypes, NEW ask \in x3
  PROVE  /\ ask.id \in MP!Watching /\ ask.for \in Player \cup {NoPlayer}
         /\ [to |-> {ask.id}, name |-> ask.for, lost |-> FALSE, gained |-> ask.for \in x1,
              names |-> IF ask.for = NoPlayer THEN x1 ELSE {}] \in MP!Message
<1>1. ask.id \in MP!Watching /\ ask.for \in Player \cup {NoPlayer}
  BY DEF MP!PlayerTypes
<1>2. MP!Watching \in SUBSET MP!Id
  BY DEF MP!Watching
<1>3. (ask.for \in x1) \in BOOLEAN /\ (IF ask.for = NoPlayer THEN x1 ELSE {}) \in SUBSET Player
  BY DEF MP!PlayerTypes
<1> QED
  BY <1>1, <1>2, <1>3 DEF MP!Message

(* A sequence is another without the first of its elements that is n.      *)
LacksFirst(r, q, n) ==
  \E k \in 1..Len(q) :
    /\ q[k] = n /\ \A j \in 1..Len(q) : q[j] = n => k <= j
    /\ Len(r) = Len(q) - 1
    /\ \A j \in 1..Len(q) - 1 : r[j] = IF j < k THEN q[j] ELSE q[j + 1]

(* So is the queue that the first is removed from.                         *)
LEMMA VanishedOne ==
  ASSUME NEW T, NEW q \in Seq(T), NEW n, MP!Contains(q, n), NEW r, r = MP!Vanished(q, n)
  PROVE  r \in Seq(T) /\ LacksFirst(r, q, n)
<1> DEFINE places == {i \in 1..Len(q) : q[i] = n}
<1>1. places \in SUBSET Nat /\ places # {}
  BY DEF MP!Contains
<1>2. PICK k : k = MP!Min(places)
  OBVIOUS
<1>3. k \in places /\ \A y \in places : k <= y
  BY <1>1, <1>2, Least DEF MP!Min
<1>4. r = SubSeq(q, 1, k - 1) \o SubSeq(q, k + 1, Len(q))
  BY <1>1, <1>2 DEF MP!Vanished, MP!Contains, MP!RemoveFirst, MP!SelectInSeq, MP!RemoveAt
<1>5. k \in 1..Len(q)
  BY <1>3
<1>6. /\ r \in Seq(T) /\ Len(r) = Len(q) - 1
      /\ \A j \in 1..Len(q) - 1 : r[j] = IF j < k THEN q[j] ELSE q[j + 1]
  <2> HIDE DEF places
  <2>1. q \in Seq(T)
    OBVIOUS
  <2> QED
    <3>1. LacksAt(T, r, q, k)
      BY ONLY <1>4, <1>5, <2>1, RemovedOne, Zenon
    <3> QED
      BY <3>1 DEF LacksAt
<1> QED
  BY <1>3, <1>5, <1>6 DEF LacksFirst

(* A queue keeps what it has of other names, and its head if it is one.    *)
KeepsBut(r, q, n) ==
  /\ \A p \in 1..Len(q) : q[p] # n => \E j \in 1..Len(r) : r[j] = q[p]
  /\ q # <<>> /\ q[1] # n => r # <<>> /\ r[1] = q[1]

(* A name that vanishes for one watcher is queued for the other at most.   *)
LEMMA VanishedIsQueued ==
  ASSUME NEW q \in Seq(Player), NEW n, NEW known, NEW others, MP!Queued(q, known, others),
         NEW r, r = MP!Vanished(q, n)
  PROVE  r \in Seq(Player) /\ MP!Queued(r, known \ {n}, others) /\ KeepsBut(r, q, n)
<1>1. CASE MP!Contains(q, n)
  <2>1. PICK k \in 1..Len(q) :
          /\ q[k] = n /\ \A j \in 1..Len(q) : q[j] = n => k <= j
          /\ r \in Seq(Player) /\ Len(r) = Len(q) - 1
          /\ \A j \in 1..Len(q) - 1 : r[j] = IF j < k THEN q[j] ELSE q[j + 1]
    <3>1. r \in Seq(Player) /\ LacksFirst(r, q, n)
      BY <1>1, VanishedOne
    <3> QED
      BY <3>1 DEF LacksFirst
  <2>2. Len(q) \in Nat /\ DOMAIN q = 1..Len(q) /\ DOMAIN r = 1..Len(q) - 1
    BY <2>1
  <2> DEFINE old(j) == IF j < k THEN j ELSE j + 1
  <2>3. \A j \in DOMAIN r : old(j) \in DOMAIN q /\ old(j) # k /\ r[j] = q[old(j)]
    BY <2>1, <2>2
  <2>4. \A j, l \in DOMAIN r : j # l => old(j) # old(l)
    BY <2>1, <2>2
  <2>5. \A p \in DOMAIN q : p # k => \E j \in DOMAIN r : old(j) = p
    <3> SUFFICES ASSUME NEW p \in DOMAIN q, p # k PROVE \E j \in DOMAIN r : old(j) = p
      OBVIOUS
    <3>1. CASE p < k
      BY <2>1, <2>2, <3>1
    <3>2. CASE p > k
      <4>1. p - 1 \in DOMAIN r /\ old(p - 1) = p
        BY <2>1, <2>2, <3>2
      <4> QED
        BY <4>1
    <3> QED
      BY <2>1, <2>2, <3>1, <3>2
  <2> HIDE DEF old
  <2>6. \A p, l \in DOMAIN q : p # l /\ q[p] = q[l] =>
          /\ q[p] \in known \cap others
          /\ \A o \in DOMAIN q : q[p] = q[o] => o \in {p, l}
    BY DEF MP!Queued
  <2>7. \A p \in DOMAIN q : q[p] \in known \cup others
    BY DEF MP!Queued
  <2>8. ASSUME NEW p \in DOMAIN r PROVE r[p] \in (known \ {n}) \cup others
    <3>1. CASE r[p] = n
      <4>1. q[old(p)] \in known \cap others
        BY <2>1, <2>2, <2>3, <2>6, <3>1
      <4> QED
        BY <2>3, <4>1
    <3>2. CASE r[p] # n
      BY <2>3, <2>7, <3>2
    <3> QED
      BY <3>1, <3>2
  <2>9. ASSUME NEW p \in DOMAIN r, NEW l \in DOMAIN r, p # l, r[p] = r[l]
        PROVE  /\ r[p] \in (known \ {n}) \cap others
               /\ \A o \in DOMAIN r : r[p] = r[o] => o \in {p, l}
    <3>1. /\ old(p) \in DOMAIN q /\ old(l) \in DOMAIN q /\ old(p) # old(l)
          /\ q[old(p)] = q[old(l)] /\ r[p] = q[old(p)]
      BY <2>3, <2>4, <2>9
    <3>2. /\ q[old(p)] \in known \cap others
          /\ \A o \in DOMAIN q : q[old(p)] = q[o] => o \in {old(p), old(l)}
      BY <2>6, <3>1
    <3>3. q[old(p)] # n
      BY <2>1, <2>2, <2>3, <3>2
    <3>4. \A o \in DOMAIN r : r[p] = r[o] => o \in {p, l}
      BY <2>3, <2>4, <3>1, <3>2
    <3> QED
      BY <3>1, <3>2, <3>3, <3>4
  <2>10. MP!Queued(r, known \ {n}, others)
    BY <2>8, <2>9 DEF MP!Queued
  <2>11. \A p \in 1..Len(q) : q[p] # n => \E j \in 1..Len(r) : r[j] = q[p]
    <3> SUFFICES ASSUME NEW p \in 1..Len(q), q[p] # n PROVE \E j \in 1..Len(r) : r[j] = q[p]
      OBVIOUS
    <3>1. PICK j \in DOMAIN r : old(j) = p
      BY <2>1, <2>2, <2>5
    <3> QED
      BY <2>1, <2>2, <2>3, <3>1
  <2>12. q # <<>> /\ q[1] # n => r # <<>> /\ r[1] = q[1]
    <3> SUFFICES ASSUME q # <<>>, q[1] # n PROVE r # <<>> /\ r[1] = q[1]
      OBVIOUS
    <3>1. k > 1 /\ 1 \in 1..Len(q) - 1
      BY <2>1, <2>2
    <3> QED
      BY <2>1, <3>1
  <2> QED
    BY <2>1, <2>10, <2>11, <2>12 DEF KeepsBut
<1>2. CASE ~MP!Contains(q, n)
  <2>1. r = q /\ \A p \in 1..Len(q) : q[p] # n
    BY <1>2 DEF MP!Vanished, MP!Contains
  <2>2. MP!Queued(q, known \ {n}, others)
    BY <2>1 DEF MP!Queued
  <2>3. KeepsBut(q, q, n)
    BY DEF KeepsBut
  <2> QED
    BY <2>1, <2>2, <2>3
<1> QED
  BY <1>1, <1>2

(* A queue has all that another one has.                                   *)
HasAll(r, q) == \A p \in 1..Len(q) : \E j \in 1..Len(r) : r[j] = q[p]

(* A name that appears is queued for the watcher that did not know it.     *)
LEMMA AppearedIsQueued ==
  ASSUME NEW q \in Seq(Player), NEW n \in Player, NEW known, NEW others, MP!Queued(q, known, others),
         n \notin known, NEW r, r = MP!Appeared(q, n)
  PROVE  /\ r \in Seq(Player) /\ MP!Queued(r, known \cup {n}, others)
         /\ r # <<>> /\ r[1] = n /\ HasAll(r, q)
<1>1. PICK one : one = <<n>>
  OBVIOUS
<1>2. one \in Seq(Player) /\ Len(one) = 1 /\ one[1] = n
  BY <1>1
<1>3. r = one \o q
  BY <1>1 DEF MP!Appeared
<1>4. /\ r \in Seq(Player) /\ Len(r) = 1 + Len(q)
      /\ \A j \in 1..1 + Len(q) : r[j] = IF j <= 1 THEN one[j] ELSE q[j - 1]
  <2>1. /\ one \o q \in Seq(Player) /\ Len(one \o q) = Len(one) + Len(q)
        /\ \A j \in 1..Len(one) + Len(q) : (one \o q)[j] = IF j <= Len(one) THEN one[j] ELSE q[j - Len(one)]
    BY <1>2, ConcatProperties
  <2> QED
    BY <1>2, <1>3, <2>1, Zenon
<1> HIDE <1>1, <1>3
<1>5. Len(q) \in Nat /\ DOMAIN q = 1..Len(q) /\ DOMAIN r = 1..Len(q) + 1
  BY <1>4
<1>6. r[1] = n /\ \A j \in 1..Len(q) : j + 1 \in DOMAIN r /\ r[j + 1] = q[j]
  <2>1. r[1] = n
    BY <1>2, <1>4, <1>5
  <2>2. ASSUME NEW j \in 1..Len(q) PROVE j + 1 \in DOMAIN r /\ r[j + 1] = q[j]
    <3>1. j + 1 \in 1..1 + Len(q) /\ ~(j + 1 <= 1) /\ (j + 1) - 1 = j
      BY <1>5
    <3> QED
      BY <1>4, <1>5, <3>1
  <2> QED
    BY <2>1, <2>2
<1>7. \A p \in DOMAIN r : p # 1 => \E j \in DOMAIN q : p = j + 1 /\ r[p] = q[j]
  <2> SUFFICES ASSUME NEW p \in DOMAIN r, p # 1 PROVE \E j \in DOMAIN q : p = j + 1 /\ r[p] = q[j]
    OBVIOUS
  <2>1. p - 1 \in DOMAIN q /\ p = (p - 1) + 1
    BY <1>5
  <2> QED
    BY <1>5, <1>6, <2>1
<1>8. \A p, l \in DOMAIN q : p # l /\ q[p] = q[l] =>
        /\ q[p] \in known \cap others
        /\ \A o \in DOMAIN q : q[p] = q[o] => o \in {p, l}
  BY DEF MP!Queued
<1>9. \A p \in DOMAIN q : q[p] \in known \cup others
  BY DEF MP!Queued
<1>10. \A p \in DOMAIN r : r[p] \in (known \cup {n}) \cup others
  BY <1>6, <1>7, <1>9
<1>11. \A p, l \in DOMAIN q : q[p] = n /\ q[l] = n => p = l
  BY <1>8
<1>12. ASSUME NEW p \in DOMAIN r, NEW l \in DOMAIN r, p # l, r[p] = r[l]
       PROVE  /\ r[p] \in (known \cup {n}) \cap others
              /\ \A o \in DOMAIN r : r[p] = r[o] => o \in {p, l}
  <2>1. CASE r[p] = n
    <3>1. PICK j \in DOMAIN q : q[j] = n
      BY <1>7, <1>12, <2>1
    <3>2. n \in others
      BY <1>9, <3>1
    <3>3. ASSUME NEW o \in DOMAIN r, r[o] = n, o # p, o # l PROVE FALSE
      <4>1. \A x, y \in DOMAIN r : x # 1 /\ y # 1 /\ r[x] = n /\ r[y] = n => x = y
        BY <1>7, <1>11
      <4> QED
        BY <1>12, <2>1, <3>3, <4>1
    <3> QED
      BY <2>1, <3>2, <3>3
  <2>2. CASE r[p] # n
    <3>1. PICK j \in DOMAIN q : p = j + 1 /\ r[p] = q[j]
      BY <1>6, <1>7, <2>2
    <3>2. PICK k \in DOMAIN q : l = k + 1 /\ r[l] = q[k]
      BY <1>6, <1>7, <1>12, <2>2
    <3>3. /\ q[j] \in known \cap others
          /\ \A o \in DOMAIN q : q[j] = q[o] => o \in {j, k}
      BY <1>8, <1>12, <3>1, <3>2
    <3>4. ASSUME NEW o \in DOMAIN r, r[p] = r[o] PROVE o \in {p, l}
      <4>1. PICK i \in DOMAIN q : o = i + 1 /\ r[o] = q[i]
        BY <1>6, <1>7, <2>2, <3>4
      <4> QED
        BY <3>1, <3>2, <3>3, <3>4, <4>1
    <3> QED
      BY <3>1, <3>3, <3>4
  <2> QED
    BY <2>1, <2>2
<1>13. MP!Queued(r, known \cup {n}, others)
  BY <1>10, <1>12 DEF MP!Queued
<1>14. r # <<>> /\ HasAll(r, q)
  BY <1>4, <1>5, <1>6 DEF HasAll
<1> QED
  BY <1>4, <1>6, <1>13, <1>14

(* What a queue is after a message, besides what it has: the other names   *)
(* are kept, one that is gained and new to the watcher is at the head, and *)
(* none goes unless it is lost.                                            *)
Follows(r, q, known, m) ==
  /\ \A p \in 1..Len(q) : q[p] # m.name \/ ~m.lost => \E j \in 1..Len(r) : r[j] = q[p]
  /\ m.gained /\ (m.name \in known => m.lost) => r # <<>> /\ r[1] = m.name
  /\ ~m.gained /\ q # <<>> /\ q[1] # m.name => r # <<>> /\ r[1] = q[1]

(* A watcher that is told of a name tells the plugin, whose queue remains  *)
(* what the watchers know.                                                 *)
LEMMA ToldIsQueued ==
  ASSUME NEW q \in Seq(Player), NEW known, NEW others, MP!Queued(q, known, others),
         NEW m, m.name \in Player, NEW r, r = MP!Tell(q, known, m)
  PROVE  r \in Seq(Player) /\ MP!Queued(r, MP!Known(known, m), others) /\ Follows(r, q, known, m)
<1>1. PICK mid : mid = IF m.lost /\ m.name \in known THEN MP!Vanished(q, m.name) ELSE q
  OBVIOUS
<1>2. r = IF m.gained /\ (m.lost \/ m.name \notin known) THEN MP!Appeared(mid, m.name) ELSE mid
  BY <1>1 DEF MP!Tell
<1>3. PICK left : left = IF m.lost THEN known \ {m.name} ELSE known
  OBVIOUS
<1>4. mid \in Seq(Player) /\ MP!Queued(mid, left, others)
  <2>1. CASE m.lost /\ m.name \in known
    <3>1. mid = MP!Vanished(q, m.name) /\ left = known \ {m.name}
      BY <1>1, <1>3, <2>1
    <3> QED
      BY <3>1, VanishedIsQueued
  <2>2. CASE ~(m.lost /\ m.name \in known)
    <3>1. mid = q /\ left = known
      BY <1>1, <1>3, <2>2
    <3> QED
      BY <3>1
  <2> QED
    BY <2>1, <2>2
<1>5. /\ \A p \in 1..Len(q) : q[p] # m.name \/ ~m.lost => \E j \in 1..Len(mid) : mid[j] = q[p]
      /\ q # <<>> /\ q[1] # m.name => mid # <<>> /\ mid[1] = q[1]
  <2>1. CASE m.lost /\ m.name \in known
    <3>1. mid = MP!Vanished(q, m.name)
      BY <1>1, <2>1
    <3>2. KeepsBut(mid, q, m.name)
      BY <3>1, VanishedIsQueued
    <3> QED
      BY <2>1, <3>2 DEF KeepsBut
  <2>2. CASE ~(m.lost /\ m.name \in known)
    BY <1>1, <2>2
  <2> QED
    BY <2>1, <2>2
<1>6. CASE m.gained /\ (m.lost \/ m.name \notin known)
  <2>1. r = MP!Appeared(mid, m.name) /\ m.name \notin left
    BY <1>2, <1>3, <1>6
  <2>2. /\ r \in Seq(Player) /\ MP!Queued(r, left \cup {m.name}, others)
        /\ r # <<>> /\ r[1] = m.name /\ HasAll(r, mid)
    BY <1>4, <2>1, AppearedIsQueued
  <2>3. MP!Known(known, m) = left \cup {m.name}
    BY <1>3, <1>6 DEF MP!Known
  <2>4. Follows(r, q, known, m)
    <3>1. \A p \in 1..Len(q) : q[p] # m.name \/ ~m.lost => \E j \in 1..Len(r) : r[j] = q[p]
      BY <1>5, <2>2 DEF HasAll
    <3> QED
      BY <1>6, <2>2, <3>1 DEF Follows
  <2> QED
    BY <2>2, <2>3, <2>4
<1>7. CASE ~(m.gained /\ (m.lost \/ m.name \notin known))
  <2>1. r = mid /\ MP!Known(known, m) = left
    BY <1>2, <1>3, <1>7 DEF MP!Known
  <2>2. Follows(r, q, known, m)
    BY <1>5, <1>7, <2>1 DEF Follows
  <2> QED
    BY <1>4, <2>1, <2>2
<1> QED
  BY <1>6, <1>7

(* The types: of what is asked, answered and signalled.                    *)
LEMMA MprisTypes ==
  ASSUME MP!LetGo, MP!PlayerTypes, [MP!Next]_MP!vars
  PROVE  MP!PlayerTypes'
<1> USE DEF MP!PlayerTypes
<1>1. ASSUME NEW n \in Player, NEW lost \in BOOLEAN, NEW gained \in BOOLEAN, MP!OwnerChanges(n, lost, gained)
      PROVE  MP!PlayerTypes'
  <2>1. /\ UNCHANGED <<on, begun, x3, x5, x7, x8, x6, x9>>
        /\ x1' \in SUBSET Player
    BY <1>1 DEF MP!OwnerChanges
  <2>2. MP!Watching' = MP!Watching
    BY <2>1, WatchingKept
  <2>3. x4' \in Seq(MP!Message)
    <3>1. PICK m : m = [to |-> MP!Watching, name |-> n, lost |-> lost, gained |-> gained, names |-> {}]
      OBVIOUS
    <3>2. m \in MP!Message
      BY <3>1, SignalType
    <3>3. x4' = x4 \/ x4' = Append(x4, m)
      BY <1>1, <3>1 DEF MP!OwnerChanges
    <3>4. x4 \in Seq(MP!Message)
      OBVIOUS
    <3> QED
      BY ONLY <3>2, <3>3, <3>4
  <2> QED
    BY <2>1, <2>2, <2>3
<1>2. ASSUME NEW ask, MP!BusAnswers(ask)
      PROVE  MP!PlayerTypes'
  <2>1. /\ UNCHANGED <<on, begun, x1, x5, x7, x8, x6, x9>>
        /\ x3' = x3 \ {ask} /\ ask \in x3
    BY <1>2 DEF MP!BusAnswers
  <2>2. MP!Watching' = MP!Watching
    BY <2>1, WatchingKept
  <2>3. x4' \in Seq(MP!Message)
    <3>1. PICK m \in MP!Message : x4' = Append(x4, m)
      BY <1>2, <2>1, AnswerType DEF MP!BusAnswers
    <3> QED
      BY <3>1
  <2> QED
    BY <2>1, <2>2, <2>3
<1>3. CASE MP!Start
  <2>1. /\ ~on /\ on' /\ begun < MaxStarts /\ begun' = begun + 1 /\ x5' = x5 + 1 /\ x6' = x5 /\ x9' = <<>>
        /\ x7' = [x7 EXCEPT ![x5] = "connecting"] /\ UNCHANGED <<x1, x3, x4, x8>>
    BY <1>3 DEF MP!Start
  <2>2. x5 \in MP!Id /\ x7[x5] = "none"
    BY <2>1, MediaKeysAssumption DEF MP!Id
  <2>3. MP!Watching' = MP!Watching
    BY <2>1, <2>2 DEF MP!Watching
  <2>4. \A i \in MP!Id : i >= x5' => x7'[i] = "none"
    BY <2>1, <2>2 DEF MP!Id
  <2> QED
    BY <2>1, <2>2, <2>3, <2>4, MediaKeysAssumption
<1>4. ASSUME NEW i \in MP!Id, MP!GotBus(i)
      PROVE  MP!PlayerTypes'
  <2>1. /\ UNCHANGED <<on, begun, x1, x4, x5, x8, x6, x9>>
        /\ x7[i] = "connecting"
        /\ \/ x7' = [x7 EXCEPT ![i] = "watching"] /\ x3' = x3 \cup {[id |-> i, for |-> NoPlayer]}
           \/ x7' = [x7 EXCEPT ![i] = "stopped"] /\ x3' = x3
    BY <1>4 DEF MP!GotBus
  <2>2. MP!Watching \subseteq MP!Watching' /\ (x3' # x3 => i \in MP!Watching')
    BY <2>1 DEF MP!Watching
  <2>3. \A j \in MP!Id : j >= x5' => x7'[j] = "none"
    BY <2>1
  <2>4. x3' \in SUBSET [id : MP!Watching', for : Player \cup {NoPlayer}]
    BY <2>1, <2>2
  <2> QED
    BY <2>1, <2>3, <2>4
<1>5. CASE MP!NamesListed
  <2>1. /\ UNCHANGED <<on, begun, x1, x5, x7, x8, x6, x9>>
        /\ x4 # <<>> /\ x4' = Tail(x4)
        /\ x3' = x3 \cup [id : Head(x4).to \cap MP!Watching, for : Head(x4).names]
    BY <1>5 DEF MP!NamesListed
  <2>2. MP!Watching' = MP!Watching
    BY <2>1, WatchingKept
  <2>3. x4' \in Seq(MP!Message) /\ Head(x4) \in MP!Message
    BY <2>1
  <2>4. Head(x4).names \subseteq Player
    BY <2>3 DEF MP!Message
  <2> QED
    BY <2>1, <2>2, <2>3, <2>4
<1>6. CASE MP!NameOwnerKnown
  <2>1. /\ UNCHANGED <<on, begun, x1, x3, x5, x7, x6>>
        /\ x4 # <<>> /\ x4' = Tail(x4) /\ Head(x4).name # NoPlayer
    BY <1>6 DEF MP!NameOwnerKnown
  <2>2. MP!Watching' = MP!Watching
    BY <2>1, WatchingKept
  <2>3. x4' \in Seq(MP!Message) /\ Head(x4) \in MP!Message
    BY <2>1
  <2>4. Head(x4).name \in Player
    BY <2>1, <2>3 DEF MP!Message
  <2>5. \A known \in SUBSET Player : MP!Known(known, Head(x4)) \in SUBSET Player
    BY <2>4 DEF MP!Known
  <2>6. x8' \in [MP!Id -> SUBSET Player]
    <3>1. PICK to : x8' = [i \in MP!Id |-> IF i \in to THEN MP!Known(x8[i], Head(x4)) ELSE x8[i]]
      BY <1>6 DEF MP!NameOwnerKnown
    <3> QED
      BY <2>5, <3>1
  <2>7. \A q \in Seq(Player) : \A known : MP!Tell(q, known, Head(x4)) \in Seq(Player)
    <3> SUFFICES ASSUME NEW q \in Seq(Player), NEW known PROVE MP!Tell(q, known, Head(x4)) \in Seq(Player)
      OBVIOUS
    <3>1. MP!Vanished(q, Head(x4).name) \in Seq(Player)
      <4>1. CASE MP!Contains(q, Head(x4).name)
        BY <4>1, VanishedOne
      <4>2. CASE ~MP!Contains(q, Head(x4).name)
        BY <4>2 DEF MP!Vanished
      <4> QED
        BY <4>1, <4>2
    <3>2. \A r \in Seq(Player) : MP!Appeared(r, Head(x4).name) \in Seq(Player)
      BY <2>4 DEF MP!Appeared
    <3> QED
      BY <3>1, <3>2 DEF MP!Tell
  <2>8. x9' \in Seq(Player)
    BY <1>6, <2>7 DEF MP!NameOwnerKnown
  <2> QED
    BY <2>1, <2>2, <2>3, <2>6, <2>8
<1>7. CASE MP!Stop
  <2>1. /\ UNCHANGED <<begun, x1, x4, x5, x9>> /\ on /\ ~on' /\ x6' = 0
    BY <1>7 DEF MP!Stop
  <2>2. CASE x6 = 0
    <3>1. UNCHANGED <<x3, x7, x8>>
      BY <1>7, <2>2 DEF MP!Stop, MP!Unwatch
    <3>2. MP!Watching' = MP!Watching
      BY <3>1, WatchingKept
    <3> QED
      BY <2>1, <3>1, <3>2
  <2>3. CASE x6 # 0
    <3>1. /\ x7' = [x7 EXCEPT ![x6] = "stopped"] /\ x8' = [x8 EXCEPT ![x6] = {}]
          /\ x3' = {k \in x3 : k.id # x6}
      BY <1>7, <2>3 DEF MP!Stop, MP!Unwatch
    <3>2. MP!Watching' = MP!Watching \ {x6}
      BY <3>1 DEF MP!Watching
    <3>3. \A i \in MP!Id : i >= x5' => x7'[i] = "none"
      BY <2>1, <3>1 DEF MP!Id
    <3>4. x3' \in SUBSET [id : MP!Watching', for : Player \cup {NoPlayer}]
      BY <3>1, <3>2
    <3> QED
      BY <2>1, <3>1, <3>3, <3>4
  <2> QED
    BY <2>2, <2>3
<1>8. CASE UNCHANGED MP!vars
  <2>1. UNCHANGED <<on, begun, x1, x3, x4, x5, x6, x7, x8, x9>>
    BY <1>8 DEF MP!vars, MP!watchvars
  <2> QED
    BY <2>1, WatchingKept
<1> QED
  BY <1>1, <1>2, <1>3, <1>4, <1>5, <1>6, <1>7, <1>8 DEF MP!Next

(* A message is sent behind the others, or the first is handled.           *)
Sent(r, s, m) ==
  /\ Len(s) \in Nat /\ Len(r) = Len(s) + 1 /\ DOMAIN s = 1..Len(s) /\ DOMAIN r = 1..Len(s) + 1
  /\ \A j \in 1..Len(s) : r[j] = s[j]
  /\ r[Len(s) + 1] = m

Handled(r, s) ==
  /\ Len(s) \in Nat \ {0} /\ Len(r) = Len(s) - 1 /\ DOMAIN s = 1..Len(s) /\ DOMAIN r = 1..Len(s) - 1
  /\ \A j \in 1..Len(s) - 1 : r[j] = s[j + 1]
  /\ Head(s) = s[1] /\ s[1] \in MP!Message

Signal(n, lost, gained) == [to |-> MP!Watching, name |-> n, lost |-> lost, gained |-> gained, names |-> {}]

(* What a change of a name's owner does.                                   *)
LEMMA OwnerStep ==
  ASSUME MP!PlayerTypes, NEW n \in Player, NEW lost \in BOOLEAN, NEW gained \in BOOLEAN,
         MP!OwnerChanges(n, lost, gained)
  PROVE  /\ UNCHANGED <<on, begun, x3, x5, x6, x7, x8, x9>> /\ MP!Watching' = MP!Watching
         /\ lost <=> n \in x1
         /\ lost \/ gained
         /\ x1' = IF gained THEN x1 \cup {n} ELSE x1 \ {n}
         /\ IF MP!Watching = {} THEN x4' = x4 ELSE Sent(x4', x4, Signal(n, lost, gained))
<1>1. UNCHANGED <<on, begun, x3, x5, x6, x7, x8, x9>>
  BY DEF MP!OwnerChanges
<1>2. MP!Watching' = MP!Watching
  BY <1>1, WatchingKept
<1>3. (lost <=> n \in x1) /\ (lost \/ gained)
  BY Zenon DEF MP!OwnerChanges
<1>4. x1' = IF gained THEN x1 \cup {n} ELSE x1 \ {n}
  BY DEF MP!OwnerChanges
<1>5. IF MP!Watching = {} THEN x4' = x4 ELSE Sent(x4', x4, Signal(n, lost, gained))
  <2>1. PICK m : m = Signal(n, lost, gained)
    OBVIOUS
  <2>2. m \in MP!Message /\ x4 \in Seq(MP!Message)
    BY <2>1, SignalType DEF Signal, MP!PlayerTypes
  <2>3. x4' = IF MP!Watching = {} THEN x4 ELSE Append(x4, m)
    BY <2>1 DEF MP!OwnerChanges, Signal
  <2>4. Sent(Append(x4, m), x4, m)
    BY <2>2 DEF Sent
  <2> QED
    BY <2>1, <2>3, <2>4
<1> QED
  BY <1>1, <1>2, <1>3, <1>4, <1>5

(* What an answer of the bus does.                                         *)
LEMMA AnswerStep ==
  ASSUME MP!PlayerTypes, NEW ask, MP!BusAnswers(ask)
  PROVE  /\ UNCHANGED <<on, begun, x1, x5, x6, x7, x8, x9, x10>> /\ MP!Watching' = MP!Watching
         /\ ask \in x3 /\ x3' = x3 \ {ask} /\ ask.id \in MP!Watching /\ ask.for \in Player \cup {NoPlayer}
         /\ \E m : /\ Sent(x4', x4, m) /\ m.to = {ask.id} /\ m.name = ask.for /\ ~m.lost
                   /\ m.gained <=> ask.for \in x1
                   /\ ask.for = NoPlayer => m.names = x1
<1>1. UNCHANGED <<on, begun, x1, x5, x6, x7, x8, x9, x10>> /\ ask \in x3 /\ x3' = x3 \ {ask}
  BY DEF MP!BusAnswers
<1>2. MP!Watching' = MP!Watching
  BY <1>1, WatchingKept
<1>3. PICK m : m = [to |-> {ask.id}, name |-> ask.for, lost |-> FALSE, gained |-> ask.for \in x1,
                    names |-> IF ask.for = NoPlayer THEN x1 ELSE {}]
  OBVIOUS
<1>4. ask.id \in MP!Watching /\ ask.for \in Player \cup {NoPlayer} /\ m \in MP!Message
  BY <1>1, <1>3, AnswerType
<1>5. x4' = Append(x4, m) /\ x4 \in Seq(MP!Message)
  BY <1>3 DEF MP!BusAnswers, MP!PlayerTypes
<1>6. Sent(x4', x4, m)
  BY <1>4, <1>5 DEF Sent
<1>7. m.to = {ask.id} /\ m.name = ask.for /\ ~m.lost /\ (ask.for = NoPlayer => m.names = x1)
  BY <1>3
<1>8. m.gained <=> ask.for \in x1
  BY <1>3, Zenon
<1> QED
  BY <1>1, <1>2, <1>4, <1>6, <1>7, <1>8

(* What a start does.                                                      *)
LEMMA StartStep ==
  ASSUME MP!PlayerTypes, MP!Start
  PROVE  /\ UNCHANGED <<x1, x3, x4, x8>> /\ MP!Watching' = MP!Watching /\ ~on /\ on'
         /\ x5 \in MP!Id /\ x5 \in Nat /\ x5' = x5 + 1 /\ x6' = x5 /\ x6 = 0 /\ x9' = <<>> /\ x10' = NoPlayer
         /\ x7[x5] = "none" /\ x5 \notin MP!Watching
<1>1. /\ ~on /\ on' /\ begun < MaxStarts /\ x5' = x5 + 1 /\ x6' = x5 /\ x9' = <<>> /\ x10' = NoPlayer
      /\ x7' = [x7 EXCEPT ![x5] = "connecting"] /\ UNCHANGED <<x1, x3, x4, x8>>
  BY DEF MP!Start
<1>2. x5 \in MP!Id /\ x7[x5] = "none" /\ x6 = 0 /\ x5 \in Nat
  BY <1>1, MediaKeysAssumption DEF MP!Id, MP!PlayerTypes
<1>3. MP!Watching' = MP!Watching /\ x5 \notin MP!Watching
  BY <1>1, <1>2 DEF MP!Watching, MP!PlayerTypes
<1> QED
  BY <1>1, <1>2, <1>3

(* What a connection does, or that there is none.                          *)
LEMMA ConnectStep ==
  ASSUME MP!PlayerTypes, NEW i \in MP!Id, MP!GotBus(i)
  PROVE  /\ UNCHANGED <<on, begun, x1, x4, x5, x6, x8, x9>> /\ x10' = NoPlayer
         /\ i \notin MP!Watching /\ x7[i] = "connecting" /\ i < x5
         /\ \/ MP!Watching' = MP!Watching \cup {i} /\ x3' = x3 \cup {[id |-> i, for |-> NoPlayer]}
            \/ MP!Watching' = MP!Watching /\ x3' = x3
<1>1. /\ UNCHANGED <<on, begun, x1, x4, x5, x6, x8, x9>> /\ x10' = NoPlayer
      /\ x7[i] = "connecting"
      /\ \/ x7' = [x7 EXCEPT ![i] = "watching"] /\ x3' = x3 \cup {[id |-> i, for |-> NoPlayer]}
         \/ x7' = [x7 EXCEPT ![i] = "stopped"] /\ x3' = x3
  BY DEF MP!GotBus
<1>2. i < x5 /\ i \notin MP!Watching
  BY <1>1, MediaKeysAssumption DEF MP!PlayerTypes, MP!Id, MP!Watching
<1>3. x7' = [x7 EXCEPT ![i] = "watching"] => MP!Watching' = MP!Watching \cup {i}
  BY DEF MP!PlayerTypes, MP!Watching
<1>4. x7' = [x7 EXCEPT ![i] = "stopped"] => MP!Watching' = MP!Watching
  BY <1>1 DEF MP!PlayerTypes, MP!Watching
<1> QED
  BY <1>1, <1>2, <1>3, <1>4

(* What a list of names does.                                              *)
LEMMA ListedStep ==
  ASSUME MP!PlayerTypes, MP!NamesListed
  PROVE  /\ UNCHANGED <<on, begun, x1, x5, x6, x7, x8, x9, x10>> /\ MP!Watching' = MP!Watching
         /\ Handled(x4', x4) /\ x4[1].name = NoPlayer
         /\ x3' = x3 \cup [id : x4[1].to \cap MP!Watching, for : x4[1].names]
<1>1. /\ UNCHANGED <<on, begun, x1, x5, x6, x7, x8, x9, x10>> /\ x4 # <<>> /\ x4' = Tail(x4)
      /\ Head(x4).name = NoPlayer /\ x3' = x3 \cup [id : Head(x4).to \cap MP!Watching, for : Head(x4).names]
  BY DEF MP!NamesListed
<1>2. MP!Watching' = MP!Watching
  BY <1>1, WatchingKept
<1>3. Handled(x4', x4) /\ Head(x4) = x4[1]
  BY <1>1 DEF Handled, MP!PlayerTypes
<1> QED
  BY <1>1, <1>2, <1>3

(* What a message about a name does to what the watchers know.             *)
LEMMA KnownStep ==
  ASSUME MP!PlayerTypes, MP!NameOwnerKnown
  PROVE  /\ UNCHANGED <<on, begun, x1, x3, x5, x6, x7, x10>> /\ MP!Watching' = MP!Watching
         /\ Handled(x4', x4) /\ x4[1].name \in Player
         /\ \A i \in MP!Id : x8'[i] = IF i \in x4[1].to \cap MP!Watching THEN MP!Known(x8[i], x4[1]) ELSE x8[i]
<1>1. /\ UNCHANGED <<on, begun, x1, x3, x5, x6, x7, x10>> /\ x4 # <<>> /\ x4' = Tail(x4)
      /\ Head(x4).name # NoPlayer
      /\ x8' = [i \in MP!Id |-> IF i \in Head(x4).to \cap MP!Watching THEN MP!Known(x8[i], Head(x4)) ELSE x8[i]]
  BY DEF MP!NameOwnerKnown
<1>2. MP!Watching' = MP!Watching
  BY <1>1, WatchingKept
<1>3. Handled(x4', x4) /\ Head(x4) = x4[1] /\ x4[1] \in MP!Message
  BY <1>1 DEF Handled, MP!PlayerTypes
<1>4. x4[1].name \in Player
  BY <1>1, <1>3 DEF MP!Message
<1> QED
  BY <1>1, <1>2, <1>3, <1>4

(* What a stop does.                                                       *)
LEMMA StopStep ==
  ASSUME MP!PlayerTypes, MP!Stop
  PROVE  /\ UNCHANGED <<begun, x1, x4, x5, x9>> /\ on /\ ~on' /\ x6' = 0 /\ x10' = NoPlayer
         /\ x6 \in Nat /\ x6 < x5
         /\ MP!Watching' = MP!Watching \ ({x6} \ {0})
         /\ \A i \in MP!Id : x8'[i] = IF i = x6 /\ i # 0 THEN {} ELSE x8[i]
         /\ x3' = IF x6 = 0 THEN x3 ELSE {k \in x3 : k.id # x6}
<1>1. /\ UNCHANGED <<begun, x1, x4, x5, x9>> /\ on /\ ~on' /\ x6' = 0 /\ x10' = NoPlayer
  BY DEF MP!Stop
<1>2. x6 \in Nat /\ x6 < x5
  BY <1>1, MediaKeysAssumption DEF MP!PlayerTypes
<1>3. CASE x6 = 0
  <2>1. UNCHANGED <<x3, x7, x8>>
    BY <1>3 DEF MP!Stop, MP!Unwatch
  <2>2. MP!Watching' = MP!Watching
    BY <2>1, WatchingKept
  <2> QED
    BY <1>1, <1>2, <1>3, <2>1, <2>2
<1>4. CASE x6 # 0
  <2>1. /\ x7' = [x7 EXCEPT ![x6] = "stopped"] /\ x8' = [x8 EXCEPT ![x6] = {}]
        /\ x3' = {k \in x3 : k.id # x6}
    BY <1>4 DEF MP!Stop, MP!Unwatch
  <2>2. MP!Watching' = MP!Watching \ {x6}
    BY <2>1 DEF MP!Watching, MP!PlayerTypes
  <2>3. \A i \in MP!Id : x8'[i] = IF i = x6 /\ i # 0 THEN {} ELSE x8[i]
    BY <1>4, <2>1 DEF MP!PlayerTypes
  <2> QED
    BY <1>1, <1>2, <1>4, <2>1, <2>2, <2>3
<1> QED
  BY <1>3, <1>4

(* Who has yet to watch has heard of nothing: messages are only for those  *)
(* who watch.                                                              *)
LEMMA UntoldStep ==
  ASSUME MP!PlayerTypes, MP!NewAreUntold, [MP!Next]_MP!vars
  PROVE  MP!NewAreUntold'
<1> DEFINE Untold(i) == x8[i] = {} /\ \A j \in DOMAIN x4 : i \notin x4[j].to
           Heard(i)  == x8'[i] = {} /\ \A j \in DOMAIN x4' : i \notin x4'[j].to
<1>0. \A i \in MP!Id : i \notin MP!Watching /\ (i \in {0, x6} \/ i >= x5) => Untold(i)
  BY DEF MP!NewAreUntold
<1>1. ASSUME \A i \in MP!Id : i \notin MP!Watching' /\ (i \in {0, x6'} \/ i >= x5') => Heard(i)
      PROVE  MP!NewAreUntold'
  BY <1>1 DEF MP!NewAreUntold, MP!Id
<1>2. ASSUME NEW n \in Player, NEW lost \in BOOLEAN, NEW gained \in BOOLEAN, MP!OwnerChanges(n, lost, gained)
      PROVE  MP!NewAreUntold'
  <2>1. /\ UNCHANGED <<x5, x6, x8>> /\ MP!Watching' = MP!Watching
        /\ x4' = x4 \/ Sent(x4', x4, Signal(n, lost, gained))
    BY <1>2, OwnerStep
  <2>2. \A i : i \notin MP!Watching => i \notin Signal(n, lost, gained).to
    BY DEF Signal
  <2>3. \A i : i \notin MP!Watching /\ Untold(i) => Heard(i)
    BY <2>1, <2>2 DEF Sent
  <2> QED
    BY <1>0, <1>1, <2>1, <2>3
<1>3. ASSUME NEW ask, MP!BusAnswers(ask)
      PROVE  MP!NewAreUntold'
  <2>1. /\ UNCHANGED <<x5, x6, x8>> /\ MP!Watching' = MP!Watching /\ ask.id \in MP!Watching
    BY <1>3, AnswerStep
  <2>2. PICK m : Sent(x4', x4, m) /\ m.to = {ask.id}
    BY <1>3, AnswerStep
  <2>3. \A i : i \notin MP!Watching /\ Untold(i) => Heard(i)
    BY <2>1, <2>2 DEF Sent
  <2> QED
    BY <1>0, <1>1, <2>1, <2>3
<1>4. CASE MP!Start
  <2>1. UNCHANGED <<x4, x8>> /\ MP!Watching' = MP!Watching /\ x5 \in Nat /\ x5' = x5 + 1 /\ x6' = x5
    BY <1>4, StartStep
  <2>2. \A i \in MP!Id : i \in {0, x6'} \/ i >= x5' => i \in {0, x6} \/ i >= x5
    BY <2>1, MediaKeysAssumption DEF MP!Id
  <2> QED
    BY <1>0, <1>1, <2>1, <2>2
<1>5. ASSUME NEW i \in MP!Id, MP!GotBus(i)
      PROVE  MP!NewAreUntold'
  <2>1. UNCHANGED <<x4, x5, x6, x8>> /\ MP!Watching \subseteq MP!Watching'
    BY <1>5, ConnectStep
  <2> QED
    BY <1>0, <1>1, <2>1
<1>6. CASE MP!NamesListed
  <2>1. UNCHANGED <<x5, x6, x8>> /\ MP!Watching' = MP!Watching /\ Handled(x4', x4)
    BY <1>6, ListedStep
  <2>2. \A i : Untold(i) => Heard(i)
    BY <2>1 DEF Handled
  <2> QED
    BY <1>0, <1>1, <2>1, <2>2
<1>7. CASE MP!NameOwnerKnown
  <2>1. UNCHANGED <<x5, x6>> /\ MP!Watching' = MP!Watching /\ Handled(x4', x4)
    BY <1>7, KnownStep
  <2>2. \A i \in MP!Id : i \notin MP!Watching => x8'[i] = x8[i]
    BY <1>7, KnownStep
  <2>3. \A i \in MP!Id : i \notin MP!Watching /\ Untold(i) => Heard(i)
    BY <2>1, <2>2 DEF Handled
  <2> QED
    BY <1>0, <1>1, <2>1, <2>3
<1>8. CASE MP!Stop
  <2>1. UNCHANGED <<x4, x5>> /\ x6' = 0 /\ x6 \in Nat /\ x6 < x5 /\ x5 \in Nat
    BY <1>8, StopStep DEF MP!PlayerTypes
  <2>2. MP!Watching' = MP!Watching \ ({x6} \ {0})
    BY <1>8, StopStep
  <2>3. \A i \in MP!Id : x8'[i] = IF i = x6 /\ i # 0 THEN {} ELSE x8[i]
    BY <1>8, StopStep
  <2>4. \A i \in MP!Id : i \notin MP!Watching' /\ (i \in {0, x6'} \/ i >= x5') => i \notin MP!Watching
    BY <2>1, <2>2
  <2>5. \A i \in MP!Id : Untold(i) => Heard(i)
    BY <2>1, <2>3
  <2> QED
    BY <1>0, <1>1, <2>1, <2>4, <2>5
<1>9. CASE UNCHANGED MP!vars
  <2>1. UNCHANGED <<x4, x5, x6, x7, x8>>
    BY <1>9 DEF MP!vars, MP!watchvars
  <2>2. MP!Watching' = MP!Watching
    BY <2>1, WatchingKept
  <2> QED
    BY <1>0, <1>1, <2>1, <2>2
<1> QED
  BY <1>2, <1>3, <1>4, <1>5, <1>6, <1>7, <1>8, <1>9 DEF MP!Next

(* A watcher that is not told of a loss is one that came to watch later.   *)
LEMMA LostStep ==
  ASSUME MP!PlayerTypes, MP!NewAreUntold, MP!LostComeFirst, [MP!Next]_MP!vars
  PROVE  MP!LostComeFirst'
<1> DEFINE First(i, j) == (i \in MP!Id => x8[i] = {}) /\ \A k \in 1..j : i \notin x4[k].to
           Then(i, j)  == (i \in MP!Id => x8'[i] = {}) /\ \A k \in 1..j : i \notin x4'[k].to
<1>0. \A i \in {0, x6}, j \in DOMAIN x4 : x4[j].lost /\ i \notin x4[j].to => First(i, j)
  BY DEF MP!LostComeFirst
<1>1. ASSUME \A i \in {0, x6'}, j \in DOMAIN x4' : x4'[j].lost /\ i \notin x4'[j].to => Then(i, j)
      PROVE  MP!LostComeFirst'
  BY <1>1 DEF MP!LostComeFirst, MP!Id
<1>2. \A i \in MP!Id : i \notin MP!Watching /\ (i \in {0, x6} \/ i >= x5)
        => x8[i] = {} /\ \A j \in DOMAIN x4 : i \notin x4[j].to
  BY DEF MP!NewAreUntold
<1>3. \A j \in DOMAIN x4 : x4[j].to \subseteq MP!Id
  <2>1. \A j \in DOMAIN x4 : x4[j] \in MP!Message
    BY DEF MP!PlayerTypes
  <2> QED
    BY <2>1 DEF MP!Message
<1>4. ASSUME NEW n \in Player, NEW lost \in BOOLEAN, NEW gained \in BOOLEAN, MP!OwnerChanges(n, lost, gained)
      PROVE  MP!LostComeFirst'
  <2>1. /\ UNCHANGED <<x6, x8>>
        /\ x4' = x4 \/ Sent(x4', x4, Signal(n, lost, gained))
    BY <1>4, OwnerStep
  <2>2. CASE x4' = x4
    BY <1>0, <1>1, <2>1, <2>2
  <2>3. CASE Sent(x4', x4, Signal(n, lost, gained))
    <3>1. ASSUME NEW i \in {0, x6}, NEW j \in 1..Len(x4), x4'[j].lost, i \notin x4'[j].to
          PROVE  Then(i, j)
      <4>1. x4'[j] = x4[j] /\ \A k \in 1..j : x4'[k] = x4[k]
        BY <2>3 DEF Sent
      <4> QED
        BY <1>0, <2>1, <2>3, <3>1, <4>1 DEF Sent
    <3>2. ASSUME NEW i \in {0, x6}, i \notin Signal(n, lost, gained).to
          PROVE  Then(i, Len(x4) + 1)
      <4>1. i \notin MP!Watching
        BY <3>2 DEF Signal
      <4>2. i \in MP!Id => x8[i] = {} /\ \A j \in DOMAIN x4 : i \notin x4[j].to
        BY <1>2, <4>1
      <4>3. \A k \in 1..Len(x4) : x4'[k] = x4[k] /\ i \notin x4[k].to
        BY <1>3, <2>3, <4>2 DEF Sent
      <4>4. \A k \in 1..Len(x4) + 1 : i \notin x4'[k].to
        BY <2>3, <3>2, <4>3 DEF Sent
      <4> QED
        BY <2>1, <4>2, <4>4
    <3>3. ASSUME NEW i \in {0, x6'}, NEW j \in DOMAIN x4', x4'[j].lost, i \notin x4'[j].to
          PROVE  Then(i, j)
      <4>1. j \in 1..Len(x4) \/ (j = Len(x4) + 1 /\ x4'[j] = Signal(n, lost, gained))
        BY <2>3 DEF Sent
      <4> HIDE DEF Then
      <4> QED
        BY <2>1, <3>1, <3>2, <3>3, <4>1
    <3> QED
      BY <1>1, <3>3
  <2> QED
    BY <2>1, <2>2, <2>3
<1>5. ASSUME NEW ask, MP!BusAnswers(ask)
      PROVE  MP!LostComeFirst'
  <2>1. UNCHANGED <<x6, x8>>
    BY <1>5, AnswerStep
  <2>2. PICK m : Sent(x4', x4, m) /\ ~m.lost
    BY <1>5, AnswerStep
  <2>3. ASSUME NEW i \in {0, x6}, NEW j \in DOMAIN x4', x4'[j].lost, i \notin x4'[j].to
        PROVE  Then(i, j)
    <3>1. j \in 1..Len(x4) /\ j \in DOMAIN x4
      BY <2>2, <2>3 DEF Sent
    <3>2. x4'[j] = x4[j] /\ \A k \in 1..j : x4'[k] = x4[k]
      BY <2>2, <3>1 DEF Sent
    <3> QED
      BY <1>0, <2>1, <2>3, <3>1, <3>2
  <2> QED
    BY <1>1, <2>1, <2>3
<1>6. CASE MP!Start
  <2>1. /\ UNCHANGED <<x4, x8>> /\ x5 \in MP!Id /\ x6' = x5 /\ x5 \in Nat /\ x6 = 0
        /\ x5 \notin MP!Watching
    BY <1>6, StartStep
  <2>2. x8[x5] = {} /\ \A j \in DOMAIN x4 : x5 \notin x4[j].to
    BY <1>2, <2>1
  <2>3. \A j \in DOMAIN x4 : 1..j \subseteq DOMAIN x4
    BY DEF MP!PlayerTypes
  <2>4. \A j \in DOMAIN x4 : Then(x5, j)
    BY <2>1, <2>2, <2>3
  <2> QED
    BY <1>0, <1>1, <2>1, <2>4
<1>7. ASSUME NEW i \in MP!Id, MP!GotBus(i)
      PROVE  MP!LostComeFirst'
  <2>1. UNCHANGED <<x4, x6, x8>>
    BY <1>7, ConnectStep
  <2> QED
    BY <1>0, <1>1, <2>1
<1>8. CASE MP!NamesListed
  <2>1. UNCHANGED <<x6, x8>> /\ Handled(x4', x4)
    BY <1>8, ListedStep
  <2>2. \A j \in DOMAIN x4' : j + 1 \in DOMAIN x4 /\ x4'[j] = x4[j + 1]
    BY <2>1 DEF Handled
  <2>3. \A j \in DOMAIN x4' : \A k \in 1..j : k + 1 \in 1..j + 1 /\ x4'[k] = x4[k + 1]
    BY <2>1 DEF Handled
  <2> QED
    BY <1>0, <1>1, <2>1, <2>2, <2>3
<1>9. CASE MP!NameOwnerKnown
  <2>1. UNCHANGED x6 /\ Handled(x4', x4)
    BY <1>9, KnownStep
  <2>2. \A j \in DOMAIN x4' : j + 1 \in DOMAIN x4 /\ x4'[j] = x4[j + 1]
    BY <2>1 DEF Handled
  <2>3. \A j \in DOMAIN x4' : \A k \in 1..j : k + 1 \in 1..j + 1 /\ x4'[k] = x4[k + 1]
    BY <2>1 DEF Handled
  <2>4. \A j \in DOMAIN x4' : 1 \in 1..j + 1
    BY <2>1 DEF Handled
  <2>5. \A i \in MP!Id : i \notin x4[1].to => x8'[i] = x8[i]
    BY <1>9, KnownStep
  <2>6. ASSUME NEW i \in {0, x6}, NEW j \in DOMAIN x4', x4'[j].lost, i \notin x4'[j].to
        PROVE  Then(i, j)
    <3>1. First(i, j + 1)
      BY <1>0, <2>2, <2>6
    <3>2. i \in MP!Id => x8'[i] = {}
      BY <2>4, <2>5, <3>1
    <3> QED
      BY <2>3, <3>1, <3>2
  <2> QED
    BY <1>1, <2>1, <2>6
<1>10. CASE MP!Stop
  <2>1. UNCHANGED x4 /\ x6' = 0
    BY <1>10, StopStep
  <2>2. \A i \in MP!Id : x8'[i] = IF i = x6 /\ i # 0 THEN {} ELSE x8[i]
    BY <1>10, StopStep
  <2> QED
    BY <1>0, <1>1, <2>1, <2>2
<1>11. CASE UNCHANGED MP!vars
  <2>1. UNCHANGED <<x4, x6, x8>>
    BY <1>11 DEF MP!vars, MP!watchvars
  <2> QED
    BY <1>0, <1>1, <2>1
<1> QED
  BY <1>4, <1>5, <1>6, <1>7, <1>8, <1>9, <1>10, <1>11 DEF MP!Next

(* What is heard of a name does not change unless something is sent,       *)
(* handled or changes hands.                                               *)
LEMMA HeardIsKept ==
  ASSUME NEW i, NEW n, MP!LastIsTrue(i, n), MP!KnownIsTrue(i, n),
         UNCHANGED <<x1, x4>>, x8'[i] = x8[i], \A for : [id |-> i, for |-> for] \in x3 => [id |-> i, for |-> for] \in x3'
  PROVE  MP!LastIsTrue(i, n)' /\ MP!KnownIsTrue(i, n)'
<1>1. \A j : MP!Says(j, i, n)' <=> MP!Says(j, i, n)
  BY DEF MP!Says
<1>2. MP!Asked(i, n) => MP!Asked(i, n)'
  BY DEF MP!Asked
<1>3. MP!LastIsTrue(i, n)'
  BY <1>1 DEF MP!LastIsTrue
<1>4. MP!KnownIsTrue(i, n)'
  BY <1>1, <1>2 DEF MP!KnownIsTrue
<1> QED
  BY <1>3, <1>4

(* A message that is sent is the last.                                     *)
LEMMA SentIsHeard ==
  ASSUME NEW m, Sent(x4', x4, m), NEW l, l = Len(x4) + 1, NEW i, NEW n
  PROVE  /\ l \in DOMAIN x4' /\ x4'[l] = m
         /\ \A j \in DOMAIN x4 : j \in DOMAIN x4' /\ j < l /\ x4'[j] = x4[j]
         /\ \A j \in DOMAIN x4 : MP!Says(j, i, n)' <=> MP!Says(j, i, n)
         /\ \A j \in DOMAIN x4' : j \in DOMAIN x4 \/ j = l
         /\ MP!Says(l, i, n)' <=> i \in m.to /\ m.name = n /\ (m.lost \/ m.gained)
<1>1. /\ l \in DOMAIN x4' /\ x4'[l] = m
      /\ \A j \in DOMAIN x4 : j \in DOMAIN x4' /\ j < l /\ x4'[j] = x4[j]
      /\ \A j \in DOMAIN x4' : j \in DOMAIN x4 \/ j = l
  BY DEF Sent
<1>2. \A j \in DOMAIN x4 : MP!Says(j, i, n)' <=> MP!Says(j, i, n)
  BY <1>1 DEF MP!Says
<1>3. MP!Says(l, i, n)' <=> i \in m.to /\ m.name = n /\ (m.lost \/ m.gained)
  BY <1>1 DEF MP!Says
<1> QED
  BY <1>1, <1>2, <1>3

(* What is heard of a name does not change by a message that says nothing  *)
(* of it.                                                                  *)
LEMMA OthersAreHeard ==
  ASSUME NEW m, Sent(x4', x4, m), NEW i, NEW n, MP!LastIsTrue(i, n), MP!KnownIsTrue(i, n),
         ~(i \in m.to /\ m.name = n /\ (m.lost \/ m.gained)),
         x8'[i] = x8[i], n \in x1' <=> n \in x1, n \in x1 /\ MP!Asked(i, n) => MP!Asked(i, n)'
  PROVE  MP!LastIsTrue(i, n)' /\ MP!KnownIsTrue(i, n)'
<1>0. PICK l : l = Len(x4) + 1
  OBVIOUS
<1>1. /\ \A j \in DOMAIN x4 : j \in DOMAIN x4' /\ x4'[j] = x4[j]
      /\ \A j \in DOMAIN x4 : MP!Says(j, i, n)' <=> MP!Says(j, i, n)
      /\ \A j \in DOMAIN x4' : MP!Says(j, i, n)' => j \in DOMAIN x4
  <2>1. /\ \A j \in DOMAIN x4 : j \in DOMAIN x4' /\ x4'[j] = x4[j]
        /\ \A j \in DOMAIN x4 : MP!Says(j, i, n)' <=> MP!Says(j, i, n)
        /\ \A j \in DOMAIN x4' : j \in DOMAIN x4 \/ j = l
    BY <1>0, SentIsHeard
  <2>2. ~MP!Says(l, i, n)'
    BY <1>0, SentIsHeard
  <2> QED
    BY <2>1, <2>2
<1>2. MP!LastIsTrue(i, n)'
  <2> SUFFICES ASSUME NEW j \in DOMAIN x4', MP!Says(j, i, n)', \A k \in DOMAIN x4' : k > j => ~MP!Says(k, i, n)'
               PROVE  x4'[j].gained <=> n \in x1'
    BY DEF MP!LastIsTrue
  <2>1. j \in DOMAIN x4 /\ MP!Says(j, i, n) /\ \A k \in DOMAIN x4 : k > j => ~MP!Says(k, i, n)
    BY <1>1
  <2> QED
    BY <1>1, <2>1 DEF MP!LastIsTrue
<1>3. MP!KnownIsTrue(i, n)'
  BY <1>1 DEF MP!KnownIsTrue
<1> QED
  BY <1>2, <1>3

(* What is yet to be heard remains so when the first message is handled.   *)
LEMMA HandledIsHeard ==
  ASSUME Handled(x4', x4), UNCHANGED x1, NEW i, NEW n, MP!LastIsTrue(i, n)
  PROVE  /\ MP!LastIsTrue(i, n)'
         /\ (\A j \in DOMAIN x4' : ~MP!Says(j, i, n)') => \A j \in DOMAIN x4 : j # 1 => ~MP!Says(j, i, n)
<1>1. \A j \in DOMAIN x4' : j + 1 \in DOMAIN x4 /\ x4'[j] = x4[j + 1]
  BY DEF Handled
<1>2. \A j \in DOMAIN x4 : j # 1 => j - 1 \in DOMAIN x4' /\ x4'[j - 1] = x4[j]
  BY DEF Handled
<1>3. \A j \in DOMAIN x4' : MP!Says(j, i, n)' <=> MP!Says(j + 1, i, n)
  BY <1>1 DEF MP!Says
<1>4. \A j \in DOMAIN x4 : j # 1 => (MP!Says(j - 1, i, n)' <=> MP!Says(j, i, n))
  BY <1>2 DEF MP!Says
<1>5. \A j \in DOMAIN x4', k \in DOMAIN x4 : k > j + 1 => k # 1 /\ k - 1 > j
  BY DEF Handled
<1>6. MP!LastIsTrue(i, n)'
  <2> SUFFICES ASSUME NEW j \in DOMAIN x4', MP!Says(j, i, n)', \A k \in DOMAIN x4' : k > j => ~MP!Says(k, i, n)'
               PROVE  x4'[j].gained <=> n \in x1'
    BY DEF MP!LastIsTrue
  <2>1. j + 1 \in DOMAIN x4 /\ MP!Says(j + 1, i, n)
    BY <1>1, <1>3
  <2>2. \A k \in DOMAIN x4 : k > j + 1 => ~MP!Says(k, i, n)
    BY <1>2, <1>4, <1>5
  <2>3. x4[j + 1].gained <=> n \in x1
    BY <2>1, <2>2 DEF MP!LastIsTrue
  <2> QED
    BY <1>1, <2>3
<1>7. ASSUME \A j \in DOMAIN x4' : ~MP!Says(j, i, n)', NEW j \in DOMAIN x4, j # 1
      PROVE  ~MP!Says(j, i, n)
  BY <1>2, <1>4, <1>7
<1> QED
  BY <1>6, <1>7

(* What a watcher knows follows what it hears, and it hears of every name  *)
(* that runs.                                                              *)
LEMMA HeardStep ==
  ASSUME MP!LetGo, MP!PlayerTypes, MP!NewAreUntold, MP!NamesAreHeard, [MP!Next]_MP!vars
  PROVE  MP!NamesAreHeard'
<1> DEFINE True(i, n) == MP!LastIsTrue(i, n)' /\ MP!KnownIsTrue(i, n)'
<1>0. \A i \in MP!Watching, n \in Player : MP!LastIsTrue(i, n) /\ MP!KnownIsTrue(i, n)
  BY DEF MP!NamesAreHeard
<1>1. ASSUME \A i \in MP!Watching', n \in Player : True(i, n)
      PROVE  MP!NamesAreHeard'
  BY <1>1 DEF MP!NamesAreHeard
<1>2. MP!Watching \subseteq MP!Id /\ NoPlayer \notin Player /\ x1 \subseteq Player
  BY NamesAssumption DEF MP!Watching, MP!PlayerTypes
<1> HIDE DEF True
<1>3. ASSUME NEW n \in Player, NEW lost \in BOOLEAN, NEW gained \in BOOLEAN, MP!OwnerChanges(n, lost, gained)
      PROVE  MP!NamesAreHeard'
  <2>1. /\ UNCHANGED <<x3, x8>> /\ MP!Watching' = MP!Watching /\ (lost \/ gained)
        /\ x1' = IF gained THEN x1 \cup {n} ELSE x1 \ {n}
        /\ MP!Watching # {} => Sent(x4', x4, Signal(n, lost, gained))
    BY <1>3, OwnerStep
  <2>2. PICK m : m = Signal(n, lost, gained)
    OBVIOUS
  <2>3. m.to = MP!Watching /\ m.name = n /\ m.lost = lost /\ m.gained = gained
    BY <2>2 DEF Signal
  <2>4. ASSUME NEW i \in MP!Watching, NEW o \in Player PROVE True(i, o)
    <3>1. Sent(x4', x4, m)
      BY <2>1, <2>2
    <3>2. MP!LastIsTrue(i, o) /\ MP!KnownIsTrue(i, o)
      BY <1>0
    <3>3. PICK l : l = Len(x4) + 1
      OBVIOUS
    <3>4. CASE o = n
      <4>1. /\ l \in DOMAIN x4' /\ x4'[l] = m
            /\ \A j \in DOMAIN x4 : j \in DOMAIN x4' /\ j < l /\ x4'[j] = x4[j]
            /\ \A j \in DOMAIN x4' : j \in DOMAIN x4 \/ j = l
        BY <3>1, <3>3, SentIsHeard
      <4>2. MP!Says(l, i, o)'
        <5>1. MP!Says(l, i, o)' <=> i \in m.to /\ m.name = o /\ (m.lost \/ m.gained)
          BY <3>1, <3>3, SentIsHeard
        <5> QED
          BY <2>1, <2>3, <3>4, <5>1
      <4>3. gained <=> n \in x1'
        BY <2>1
      <4>4. MP!LastIsTrue(i, o)'
        <5> SUFFICES ASSUME NEW j \in DOMAIN x4', \A k \in DOMAIN x4' : k > j => ~MP!Says(k, i, o)'
                     PROVE  x4'[j].gained <=> o \in x1'
          BY DEF MP!LastIsTrue
        <5>1. j = l
          <6>1. \A k \in DOMAIN x4 : k < l => l > k
            BY <3>1, <3>3 DEF Sent
          <6> QED
            BY <4>1, <4>2, <6>1
        <5> QED
          BY <2>3, <3>4, <4>1, <4>3, <5>1
      <4>5. MP!KnownIsTrue(i, o)'
        BY <4>1, <4>2 DEF MP!KnownIsTrue
      <4> QED
        BY <4>4, <4>5 DEF True
    <3>5. CASE o # n
      <4>1. ~(i \in m.to /\ m.name = o /\ (m.lost \/ m.gained)) /\ (o \in x1' <=> o \in x1) /\ x8'[i] = x8[i]
        BY <2>1, <2>3, <3>5
      <4>2. MP!Asked(i, o) => MP!Asked(i, o)'
        <5>1. \A j \in DOMAIN x4 : j \in DOMAIN x4' /\ x4'[j] = x4[j]
          BY <3>1 DEF Sent
        <5> QED
          BY <2>1, <5>1 DEF MP!Asked
      <4> QED
        BY <3>1, <3>2, <4>1, <4>2, OthersAreHeard DEF True
    <3> QED
      BY <3>4, <3>5
  <2> QED
    BY <1>1, <2>1, <2>4
<1>4. ASSUME NEW ask, MP!BusAnswers(ask)
      PROVE  MP!NamesAreHeard'
  <2>1. /\ UNCHANGED <<x1, x8>> /\ MP!Watching' = MP!Watching
        /\ ask \in x3 /\ x3' = x3 \ {ask} /\ ask.for \in Player \cup {NoPlayer}
    BY <1>4, AnswerStep
  <2>2. PICK m : /\ Sent(x4', x4, m) /\ m.to = {ask.id} /\ m.name = ask.for /\ ~m.lost
                 /\ m.gained <=> ask.for \in x1
                 /\ ask.for = NoPlayer => m.names = x1
    BY <1>4, AnswerStep
  <2>3. ASSUME NEW i \in MP!Watching, NEW o \in Player PROVE True(i, o)
    <3>2. MP!LastIsTrue(i, o) /\ MP!KnownIsTrue(i, o)
      BY <1>0
    <3>3. PICK l : l = Len(x4) + 1
      OBVIOUS
    <3>4. CASE i = ask.id /\ o = ask.for /\ m.gained
      <4>1. /\ l \in DOMAIN x4' /\ x4'[l] = m
            /\ \A j \in DOMAIN x4 : j \in DOMAIN x4' /\ j < l /\ x4'[j] = x4[j]
            /\ \A j \in DOMAIN x4' : j \in DOMAIN x4 \/ j = l
        BY <2>2, <3>3, SentIsHeard
      <4>2. MP!Says(l, i, o)'
        <5>1. MP!Says(l, i, o)' <=> i \in m.to /\ m.name = o /\ (m.lost \/ m.gained)
          BY <2>2, <3>3, SentIsHeard
        <5> QED
          BY <2>2, <3>4, <5>1
      <4>3. o \in x1'
        BY <2>1, <2>2, <3>4
      <4>4. MP!LastIsTrue(i, o)'
        <5> SUFFICES ASSUME NEW j \in DOMAIN x4', \A k \in DOMAIN x4' : k > j => ~MP!Says(k, i, o)'
                     PROVE  x4'[j].gained <=> o \in x1'
          BY DEF MP!LastIsTrue
        <5>1. j = l
          <6>1. \A k \in DOMAIN x4 : k < l => l > k
            BY <2>2, <3>3 DEF Sent
          <6> QED
            BY <4>1, <4>2, <6>1
        <5> QED
          BY <3>4, <4>1, <4>3, <5>1
      <4>5. MP!KnownIsTrue(i, o)'
        BY <4>1, <4>2 DEF MP!KnownIsTrue
      <4> QED
        BY <4>4, <4>5 DEF True
    <3>5. CASE ~(i = ask.id /\ o = ask.for /\ m.gained)
      <4>1. ~(i \in m.to /\ m.name = o /\ (m.lost \/ m.gained)) /\ (o \in x1' <=> o \in x1) /\ x8'[i] = x8[i]
        BY <2>1, <2>2, <3>5
      <4>2. ASSUME o \in x1, MP!Asked(i, o) PROVE MP!Asked(i, o)'
        <5>1. \A j \in DOMAIN x4 : j \in DOMAIN x4' /\ x4'[j] = x4[j]
          BY <2>2 DEF Sent
        <5>2. CASE \E j \in DOMAIN x4 : i \in x4[j].to /\ x4[j].name = NoPlayer /\ o \in x4[j].names
          BY <5>1, <5>2 DEF MP!Asked
        <5>3. ASSUME NEW for \in {o, NoPlayer}, [id |-> i, for |-> for] \in x3 PROVE MP!Asked(i, o)'
          <6>1. CASE [id |-> i, for |-> for] # ask
            BY <2>1, <5>3, <6>1 DEF MP!Asked
          <6>2. CASE [id |-> i, for |-> for] = ask
            <7>1. ask.id = i /\ ask.for = for
              BY <6>2
            <7>2. for = NoPlayer
              BY <2>2, <3>5, <4>2, <5>3, <7>1
            <7>3. i \in m.to /\ m.name = NoPlayer /\ o \in m.names
              BY <2>2, <4>2, <7>1, <7>2
            <7>4. l \in DOMAIN x4' /\ x4'[l] = m
              BY <2>2, <3>3, SentIsHeard
            <7> QED
              BY <7>3, <7>4 DEF MP!Asked
          <6> QED
            BY <6>1, <6>2
        <5> QED
          BY <4>2, <5>2, <5>3 DEF MP!Asked
      <4> QED
        BY <2>2, <3>2, <4>1, <4>2, OthersAreHeard DEF True
    <3> QED
      BY <3>4, <3>5
  <2> QED
    BY <1>1, <2>1, <2>3
<1>5. CASE MP!Start
  <2>1. UNCHANGED <<x1, x3, x4, x8>> /\ MP!Watching' = MP!Watching
    BY <1>5, StartStep
  <2>2. \A i \in MP!Watching, n \in Player : True(i, n)
    BY <1>0, <2>1, HeardIsKept DEF True
  <2> QED
    BY <1>1, <2>1, <2>2
<1>6. ASSUME NEW i \in MP!Id, MP!GotBus(i)
      PROVE  MP!NamesAreHeard'
  <2>1. /\ UNCHANGED <<x1, x4, x8>> /\ x3 \subseteq x3'
        /\ i \notin MP!Watching /\ x7[i] = "connecting"
        /\ \/ MP!Watching' = MP!Watching \cup {i} /\ [id |-> i, for |-> NoPlayer] \in x3'
           \/ MP!Watching' = MP!Watching
    BY <1>6, ConnectStep
  <2>2. \A j \in MP!Watching, n \in Player : True(j, n)
    BY <1>0, <2>1, HeardIsKept DEF True
  <2>3. ASSUME [id |-> i, for |-> NoPlayer] \in x3', NEW n \in Player
        PROVE  True(i, n)
    <3>1. i \in {0, x6}
      BY <2>1 DEF MP!LetGo
    <3>2. x8[i] = {} /\ \A j \in DOMAIN x4 : i \notin x4[j].to
      BY <2>1, <3>1 DEF MP!NewAreUntold
    <3>3. \A j \in DOMAIN x4' : ~MP!Says(j, i, n)'
      BY <2>1, <3>2 DEF MP!Says
    <3>4. MP!Asked(i, n)'
      BY <2>3 DEF MP!Asked
    <3>5. MP!LastIsTrue(i, n)'
      BY <3>3 DEF MP!LastIsTrue
    <3>6. MP!KnownIsTrue(i, n)'
      BY <2>1, <3>2, <3>4 DEF MP!KnownIsTrue
    <3> QED
      BY <3>5, <3>6 DEF True
  <2> QED
    BY <1>1, <2>1, <2>2, <2>3
<1>7. CASE MP!NamesListed
  <2>1. /\ UNCHANGED <<x1, x8>> /\ MP!Watching' = MP!Watching
        /\ Handled(x4', x4) /\ x4[1].name = NoPlayer
        /\ x3' = x3 \cup [id : x4[1].to \cap MP!Watching, for : x4[1].names]
    BY <1>7, ListedStep
  <2>2. ASSUME NEW i \in MP!Watching, NEW n \in Player PROVE True(i, n)
    <3>1. /\ MP!LastIsTrue(i, n)'
          /\ (\A j \in DOMAIN x4' : ~MP!Says(j, i, n)') => \A j \in DOMAIN x4 : j # 1 => ~MP!Says(j, i, n)
      BY <1>0, <2>1, HandledIsHeard
    <3>2. ~MP!Says(1, i, n)
      BY <1>2, <2>1 DEF MP!Says
    <3>3. MP!Asked(i, n) => MP!Asked(i, n)'
      <4>1. CASE \E for \in {n, NoPlayer} : [id |-> i, for |-> for] \in x3
        BY <2>1, <4>1 DEF MP!Asked
      <4>2. ASSUME NEW j \in DOMAIN x4, i \in x4[j].to, x4[j].name = NoPlayer, n \in x4[j].names
            PROVE  MP!Asked(i, n)'
        <5>1. CASE j = 1
          <6>1. [id |-> i, for |-> n] \in x3'
            BY <2>1, <4>2, <5>1
          <6> QED
            BY <6>1 DEF MP!Asked
        <5>2. CASE j # 1
          <6>1. j - 1 \in DOMAIN x4' /\ x4'[j - 1] = x4[j]
            BY <2>1, <5>2 DEF Handled
          <6> QED
            BY <4>2, <6>1 DEF MP!Asked
        <5> QED
          BY <5>1, <5>2
      <4> QED
        BY <4>1, <4>2 DEF MP!Asked
    <3>4. MP!KnownIsTrue(i, n)
      BY <1>0
    <3>5. MP!KnownIsTrue(i, n)'
      BY <2>1, <3>1, <3>2, <3>3, <3>4 DEF MP!KnownIsTrue
    <3> QED
      BY <3>1, <3>5 DEF True
  <2> QED
    BY <1>1, <2>1, <2>2
<1>8. CASE MP!NameOwnerKnown
  <2>1. /\ UNCHANGED <<x1, x3>> /\ MP!Watching' = MP!Watching
        /\ Handled(x4', x4) /\ x4[1].name \in Player
    BY <1>8, KnownStep
  <2>2. \A i \in MP!Id : x8'[i] = IF i \in x4[1].to \cap MP!Watching THEN MP!Known(x8[i], x4[1]) ELSE x8[i]
    BY <1>8, KnownStep
  <2>3. ASSUME NEW i \in MP!Watching, NEW n \in Player PROVE True(i, n)
    <3>1. /\ MP!LastIsTrue(i, n)'
          /\ (\A j \in DOMAIN x4' : ~MP!Says(j, i, n)') => \A j \in DOMAIN x4 : j # 1 => ~MP!Says(j, i, n)
      BY <1>0, <2>1, HandledIsHeard
    <3>2. 1 \in DOMAIN x4 /\ \A j \in DOMAIN x4 : j > 1 => j # 1
      BY <2>1 DEF Handled
    <3>3. ASSUME \A j \in DOMAIN x4' : ~MP!Says(j, i, n)'
          PROVE  /\ n \in x8'[i] => n \in x1'
                 /\ n \in x1' \ x8'[i] => MP!Asked(i, n)'
      <4>1. CASE MP!Says(1, i, n)
        <5>1. x4[1].gained <=> n \in x1
          BY <1>0, <3>1, <3>2, <3>3, <4>1 DEF MP!LastIsTrue
        <5>2. x8'[i] = MP!Known(x8[i], x4[1]) /\ x4[1].name = n /\ (x4[1].lost \/ x4[1].gained)
          BY <1>2, <2>2, <4>1 DEF MP!Says
        <5>3. n \in x8'[i] <=> x4[1].gained
          BY <5>2 DEF MP!Known
        <5> QED
          BY <2>1, <5>1, <5>3
      <4>2. CASE ~MP!Says(1, i, n)
        <5>1. n \in x8'[i] <=> n \in x8[i]
          BY <1>2, <2>2, <4>2 DEF MP!Says, MP!Known
        <5>2. \A j \in DOMAIN x4 : ~MP!Says(j, i, n)
          BY <3>1, <3>3, <4>2
        <5>3. MP!Asked(i, n) => MP!Asked(i, n)'
          <6>1. \A j \in DOMAIN x4 : j # 1 => j - 1 \in DOMAIN x4' /\ x4'[j - 1] = x4[j]
            BY <2>1 DEF Handled
          <6> QED
            BY <1>2, <2>1, <6>1 DEF MP!Asked
        <5>4. /\ n \in x8[i] => n \in x1
              /\ n \in x1 \ x8[i] => MP!Asked(i, n)
          BY <1>0, <5>2 DEF MP!KnownIsTrue
        <5> QED
          BY <2>1, <5>1, <5>3, <5>4
      <4> QED
        BY <4>1, <4>2
    <3>4. MP!KnownIsTrue(i, n)'
      BY <3>3 DEF MP!KnownIsTrue
    <3> QED
      BY <3>1, <3>4 DEF True
  <2> QED
    BY <1>1, <2>1, <2>3
<1>9. CASE MP!Stop
  <2>1. UNCHANGED <<x1, x4>> /\ MP!Watching' = MP!Watching \ ({x6} \ {0})
    BY <1>9, StopStep
  <2>2. \A i \in MP!Watching' : i \in MP!Watching /\ x8'[i] = x8[i]
    <3>1. \A i \in MP!Id : x8'[i] = IF i = x6 /\ i # 0 THEN {} ELSE x8[i]
      BY <1>9, StopStep
    <3> QED
      BY <1>2, <2>1, <3>1
  <2>3. \A i \in MP!Watching' : \A for : [id |-> i, for |-> for] \in x3 => [id |-> i, for |-> for] \in x3'
    <3>1. x3' = IF x6 = 0 THEN x3 ELSE {k \in x3 : k.id # x6}
      BY <1>9, StopStep
    <3> QED
      BY <2>1, <3>1
  <2>4. \A i \in MP!Watching', n \in Player : True(i, n)
    BY <1>0, <2>1, <2>2, <2>3, HeardIsKept DEF True
  <2> QED
    BY <1>1, <2>4
<1>10. CASE UNCHANGED MP!vars
  <2>1. UNCHANGED <<x1, x3, x4, x7, x8>>
    BY <1>10 DEF MP!vars, MP!watchvars
  <2>2. MP!Watching' = MP!Watching
    BY <2>1, WatchingKept
  <2>3. \A i \in MP!Watching, n \in Player : True(i, n)
    BY <1>0, <2>1, HeardIsKept DEF True
  <2> QED
    BY <1>1, <2>2, <2>3
<1> QED
  BY <1>3, <1>4, <1>5, <1>6, <1>7, <1>8, <1>9, <1>10 DEF MP!Next

(* It is the same whose names are named first.                             *)
LEMMA QueuedForBoth ==
  ASSUME NEW q, NEW known, NEW others, MP!Queued(q, known, others)
  PROVE  MP!Queued(q, others, known)
BY DEF MP!Queued

(* What a queue is after a message to a watcher, if it gets it.            *)
Told(r, q, known, m, told) == IF told THEN Follows(r, q, known, m) ELSE r = q

LEMMA ToldOrNot ==
  ASSUME NEW q \in Seq(Player), NEW known, NEW others, MP!Queued(q, known, others),
         NEW m, m.name \in Player, NEW told \in BOOLEAN,
         NEW r, r = IF told THEN MP!Tell(q, known, m) ELSE q,
         NEW now, now = IF told THEN MP!Known(known, m) ELSE known
  PROVE  r \in Seq(Player) /\ MP!Queued(r, now, others) /\ Told(r, q, known, m, told)
<1>1. CASE told
  <2>1. r = MP!Tell(q, known, m) /\ now = MP!Known(known, m)
    BY <1>1
  <2>2. r \in Seq(Player) /\ MP!Queued(r, MP!Known(known, m), others) /\ Follows(r, q, known, m)
    BY <2>1, ToldIsQueued
  <2> QED
    BY <1>1, <2>1, <2>2 DEF Told
<1>2. CASE ~told
  BY <1>2 DEF Told
<1> QED
  BY <1>1, <1>2

(* A name in it stays there unless it is lost.                             *)
LEMMA ToldAreKept ==
  ASSUME NEW q \in Seq(Player), NEW r \in Seq(Player), NEW known, NEW m, NEW told \in BOOLEAN,
         Told(r, q, known, m, told), NEW n \in MP!ToSet(q), n # m.name \/ ~m.lost
  PROVE  n \in MP!ToSet(r)
BY DEF Told, Follows, MP!ToSet

(* What the watcher knows then is in it, if all that is not lost was.      *)
LEMMA ToldIsThere ==
  ASSUME NEW q \in Seq(Player), NEW r \in Seq(Player), NEW known, NEW m, NEW told \in BOOLEAN,
         Told(r, q, known, m, told), told \/ known = {} \/ ~m.lost,
         \A n \in known : n # m.name \/ ~m.lost => n \in MP!ToSet(q)
  PROVE  (IF told THEN MP!Known(known, m) ELSE known) \subseteq MP!ToSet(r)
<1>1. ASSUME NEW n \in known, n # m.name \/ ~m.lost
      PROVE  n \in MP!ToSet(r)
  BY <1>1, ToldAreKept
<1>2. CASE told
  <2> SUFFICES ASSUME NEW n \in MP!Known(known, m) PROVE n \in MP!ToSet(r)
    BY <1>2
  <2>1. CASE n \in known /\ (n # m.name \/ ~m.lost)
    BY <1>1, <2>1
  <2>2. CASE ~(n \in known /\ (n # m.name \/ ~m.lost))
    <3>1. n = m.name /\ m.gained /\ (m.name \in known => m.lost)
      BY <2>2 DEF MP!Known
    <3>2. Follows(r, q, known, m)
      BY <1>2 DEF Told
    <3>3. r # <<>> /\ r[1] = n
      BY <3>1, <3>2 DEF Follows
    <3> QED
      BY <3>3 DEF MP!ToSet
  <2> QED
    BY <2>1, <2>2
<1>3. CASE ~told
  BY <1>1, <1>3
<1> QED
  BY <1>2, <1>3

(* What a message about a name does to the queue: the first watcher is     *)
(* told, then that of the plugin, if it is another.                        *)
LEMMA QueueStep ==
  ASSUME MP!PlayerTypes, MP!QueueIsKnown, on, MP!NameOwnerKnown
  PROVE  LET m  == x4[1]
             to == m.to \cap MP!Watching
         IN  /\ 0 \in MP!Id /\ x6 \in MP!Id /\ x9' \in Seq(Player)
             /\ x6 = 0 => /\ MP!Queued(x9', x8'[0], {})
                          /\ Told(x9', x9, x8[0], m, 0 \in to)
             /\ x6 # 0 => /\ MP!Queued(x9', x8'[x6], x8'[0])
                          /\ \E mid \in Seq(Player) : /\ Told(mid, x9, x8[0], m, 0 \in to)
                                                      /\ Told(x9', mid, x8[x6], m, x6 \in to)
<1>1. PICK m : m = x4[1]
  OBVIOUS
<1>2. PICK to : to = m.to \cap MP!Watching
  OBVIOUS
<1>3. m.name \in Player /\ Head(x4) = m
  BY <1>1, KnownStep DEF Handled
<1>4. \A i \in MP!Id : x8'[i] = IF i \in to THEN MP!Known(x8[i], m) ELSE x8[i]
  BY <1>1, <1>2, KnownStep
<1>5. 0 \in MP!Id /\ x6 \in MP!Id /\ x9 \in Seq(Player)
  BY MediaKeysAssumption DEF MP!PlayerTypes, MP!Id
<1>6. PICK mid : mid = IF 0 \in to THEN MP!Tell(x9, x8[0], m) ELSE x9
  OBVIOUS
<1>7. x9' = IF x6 \in to \ {0} THEN MP!Tell(mid, x8[x6], m) ELSE mid
  BY <1>2, <1>3, <1>6 DEF MP!NameOwnerKnown
<1>8. PICK known : known = x8[0]
  OBVIOUS
<1>9. PICK now : now = IF 0 \in to THEN MP!Known(known, m) ELSE known
  OBVIOUS
<1>10. now = x8'[0]
  BY <1>4, <1>5, <1>8, <1>9
<1>11. PICK told \in BOOLEAN : told <=> 0 \in to
  BY Zenon
<1>12. mid = (IF told THEN MP!Tell(x9, known, m) ELSE x9) /\ now = IF told THEN MP!Known(known, m) ELSE known
  BY <1>6, <1>8, <1>9, <1>11
<1>13. CASE x6 = 0
  <2>1. MP!Queued(x9, known, {})
    BY <1>8, <1>13 DEF MP!QueueIsKnown, MP!Others
  <2>2. mid \in Seq(Player) /\ MP!Queued(mid, now, {}) /\ Told(mid, x9, known, m, told)
    BY <1>3, <1>5, <1>12, <2>1, ToldOrNot
  <2>3. x9' = mid
    BY <1>7, <1>13
  <2>4. Told(x9', x9, x8[0], m, 0 \in to)
    BY <1>8, <1>11, <2>2, <2>3 DEF Told
  <2> QED
    BY <1>1, <1>2, <1>5, <1>10, <1>13, <2>2, <2>3, <2>4
<1>14. CASE x6 # 0
  <2>1. PICK own : own = x8[x6]
    OBVIOUS
  <2>2. MP!Queued(x9, known, own)
    BY <1>8, <1>14, <2>1, QueuedForBoth DEF MP!QueueIsKnown, MP!Others
  <2>3. mid \in Seq(Player) /\ MP!Queued(mid, now, own) /\ Told(mid, x9, known, m, told)
    BY <1>3, <1>5, <1>12, <2>2, ToldOrNot
  <2>4. MP!Queued(mid, own, now)
    BY <2>3, QueuedForBoth
  <2>5. PICK also \in BOOLEAN : also <=> x6 \in to
    BY Zenon
  <2>6. PICK then : then = IF also THEN MP!Known(own, m) ELSE own
    OBVIOUS
  <2>7. then = x8'[x6]
    BY <1>4, <1>5, <2>1, <2>5, <2>6
  <2>8. PICK r : r = IF also THEN MP!Tell(mid, own, m) ELSE mid
    OBVIOUS
  <2>9. r = x9'
    BY <1>7, <1>14, <2>1, <2>5, <2>8
  <2>10. r \in Seq(Player) /\ MP!Queued(r, then, now) /\ Told(r, mid, own, m, also)
    BY <1>3, <2>3, <2>4, <2>6, <2>8, ToldOrNot
  <2>11. Told(mid, x9, x8[0], m, 0 \in to) /\ Told(x9', mid, x8[x6], m, x6 \in to)
    BY <1>8, <1>11, <2>1, <2>3, <2>5, <2>9, <2>10 DEF Told
  <2> QED
    BY <1>1, <1>2, <1>5, <1>10, <1>14, <2>3, <2>7, <2>9, <2>10, <2>11
<1> QED
  BY <1>13, <1>14

(* The queue is what the watchers know: a name that is lost while one of   *)
(* them is not told is one that this watcher has not heard of.             *)
LEMMA QueueIsKept ==
  ASSUME MP!PlayerTypes, MP!LetGo, MP!NewAreUntold, MP!LostComeFirst, MP!QueueIsKnown, [MP!Next]_MP!vars
  PROVE  MP!QueueIsKnown'
<1>1. ASSUME UNCHANGED <<on, x6, x8, x9>>
      PROVE  MP!QueueIsKnown'
  BY <1>1 DEF MP!QueueIsKnown, MP!Others, MP!Queued
<1>2. ASSUME NEW n \in Player, NEW lost \in BOOLEAN, NEW gained \in BOOLEAN, MP!OwnerChanges(n, lost, gained)
      PROVE  MP!QueueIsKnown'
  BY <1>1, <1>2, OwnerStep
<1>3. ASSUME NEW ask, MP!BusAnswers(ask)
      PROVE  MP!QueueIsKnown'
  BY <1>1, <1>3, AnswerStep
<1>4. CASE MP!Start
  <2>1. UNCHANGED x8 /\ on' /\ x5 \in MP!Id /\ x6' = x5 /\ x6 = 0 /\ x9' = <<>> /\ x5 \notin MP!Watching
    BY <1>4, StartStep
  <2>2. x8[x5] = {}
    BY <2>1, MediaKeysAssumption DEF MP!NewAreUntold, MP!Id
  <2>3. x8'[x6'] = {}
    BY <2>1, <2>2
  <2> QED
    BY <2>1, <2>3 DEF MP!QueueIsKnown, MP!Queued
<1>5. ASSUME NEW i \in MP!Id, MP!GotBus(i)
      PROVE  MP!QueueIsKnown'
  BY <1>1, <1>5, ConnectStep
<1>6. CASE MP!NamesListed
  BY <1>1, <1>6, ListedStep
<1>7. CASE MP!NameOwnerKnown
  <2>1. UNCHANGED <<on, x6>> /\ Handled(x4', x4)
    BY <1>7, KnownStep
  <2>2. CASE ~on
    BY <2>1, <2>2 DEF MP!QueueIsKnown
  <2>3. CASE on
    <3>1. PICK m : m = x4[1]
      OBVIOUS
    <3>2. PICK to : to = m.to \cap MP!Watching
      OBVIOUS
    <3>3. /\ 0 \in MP!Id /\ x6 \in MP!Id /\ x9' \in Seq(Player) /\ x9 \in Seq(Player)
          /\ x6 = 0 => /\ MP!Queued(x9', x8'[0], {})
                       /\ Told(x9', x9, x8[0], m, 0 \in to)
      BY <1>7, <2>3, <3>1, <3>2, QueueStep DEF MP!PlayerTypes
    <3>4. x6 # 0 => /\ MP!Queued(x9', x8'[x6], x8'[0])
                    /\ \E mid \in Seq(Player) : /\ Told(mid, x9, x8[0], m, 0 \in to)
                                                /\ Told(x9', mid, x8[x6], m, x6 \in to)
      BY <1>7, <2>3, <3>1, <3>2, QueueStep
    <3>5. x8'[x6] = IF x6 \in to THEN MP!Known(x8[x6], m) ELSE x8[x6]
      BY <1>7, <3>1, <3>2, <3>3, KnownStep
    <3>6. x8[x6] \subseteq MP!ToSet(x9)
      BY <2>3 DEF MP!QueueIsKnown
    <3>7. x6 \notin to => x8[x6] = {} \/ ~m.lost
      <4>1. CASE x6 \notin MP!Watching
        BY <3>3, <4>1 DEF MP!NewAreUntold
      <4>2. CASE x6 \notin m.to /\ m.lost
        <5>1. 1 \in DOMAIN x4 /\ x4[1].lost /\ x6 \notin x4[1].to
          BY <2>1, <3>1, <4>2 DEF Handled
        <5> QED
          BY <3>3, <5>1 DEF MP!LostComeFirst
      <4> QED
        BY <3>2, <4>1, <4>2
    <3>8. PICK own : own = x8[x6]
      OBVIOUS
    <3>9. PICK r \in Seq(Player) : r = x9'
      BY <3>3
    <3>10. PICK told \in BOOLEAN : told <=> x6 \in to
      BY Zenon
    <3>11. PICK q \in Seq(Player) : q = x9
      BY <3>3
    <3>12. PICK mid \in Seq(Player) : /\ Told(r, mid, own, m, told)
                                      /\ \A n \in own : n # m.name \/ ~m.lost => n \in MP!ToSet(mid)
      <4>1. CASE x6 = 0
        <5>1. Told(r, q, own, m, told)
          BY <3>3, <3>8, <3>9, <3>10, <3>11, <4>1 DEF Told
        <5> QED
          BY <3>6, <3>8, <3>11, <5>1
      <4>2. CASE x6 # 0
        <5>1. PICK mid \in Seq(Player) : /\ Told(mid, x9, x8[0], m, 0 \in to)
                                         /\ Told(x9', mid, x8[x6], m, x6 \in to)
          BY <3>4, <4>2
        <5>2. Told(r, mid, own, m, told)
          BY <3>8, <3>9, <3>10, <5>1 DEF Told
        <5>3. PICK first : first = x8[0]
          OBVIOUS
        <5>4. PICK also \in BOOLEAN : also <=> 0 \in to
          BY Zenon
        <5>5. Told(mid, q, first, m, also)
          BY <3>11, <5>1, <5>3, <5>4 DEF Told
        <5>6. \A n \in own : n \in MP!ToSet(q)
          BY <3>6, <3>8, <3>11
        <5>7. \A n \in own : n # m.name \/ ~m.lost => n \in MP!ToSet(mid)
          BY <5>5, <5>6, ToldAreKept
        <5> QED
          BY <5>2, <5>7
      <4> QED
        BY <4>1, <4>2
    <3>13. told \/ own = {} \/ ~m.lost
      BY <3>7, <3>8, <3>10
    <3>14. (IF told THEN MP!Known(own, m) ELSE own) \subseteq MP!ToSet(r)
      BY <3>12, <3>13, ToldIsThere
    <3>15. x8'[x6] \subseteq MP!ToSet(x9')
      BY <3>5, <3>8, <3>9, <3>10, <3>14
    <3>16. MP!Queued(x9', x8'[x6], IF x6 = 0 THEN {} ELSE x8'[0])
      BY <3>3, <3>4
    <3> QED
      BY <2>1, <3>15, <3>16 DEF MP!QueueIsKnown, MP!Others
  <2> QED
    BY <2>2, <2>3
<1>8. CASE MP!Stop
  BY <1>8, StopStep DEF MP!QueueIsKnown
<1>9. CASE UNCHANGED MP!vars
  BY <1>1, <1>9 DEF MP!vars, MP!watchvars
<1> QED
  BY <1>2, <1>3, <1>4, <1>5, <1>6, <1>7, <1>8, <1>9 DEF MP!Next

(* The head of the queue stays there when another name is lost.            *)
LEMMA HeadIsKept ==
  ASSUME NEW q, NEW r, NEW known, NEW m, NEW told \in BOOLEAN, Told(r, q, known, m, told),
         NEW n, ~m.gained, q # <<>>, q[1] = n, m.name # n
  PROVE  r # <<>> /\ r[1] = n
BY DEF Told, Follows

(* The player that was run last is at the head, or about to get there.     *)
LEMMA LatestIsKept ==
  ASSUME MP!PlayerTypes, MP!LetGo, MP!NamesAreHeard, MP!QueueIsKnown, MP!LatestIsAhead, [MP!Next]_MP!vars
  PROVE  MP!LatestIsAhead'
<1>1. ASSUME x10' = NoPlayer
      PROVE  MP!LatestIsAhead'
  BY <1>1 DEF MP!LatestIsAhead
<1>2. ASSUME UNCHANGED <<on, x3, x4, x6, x8, x9, x10>>, MP!Watching' = MP!Watching
      PROVE  MP!LatestIsAhead'
  BY <1>2 DEF MP!LatestIsAhead
<1>3. ASSUME NEW n \in Player, NEW lost \in BOOLEAN, NEW gained \in BOOLEAN, MP!OwnerChanges(n, lost, gained)
      PROVE  MP!LatestIsAhead'
  <2>1. UNCHANGED <<on, x3, x6, x8, x9>> /\ MP!Watching' = MP!Watching
    BY <1>3, OwnerStep
  <2>2. lost <=> n \in x1
    BY <1>3, OwnerStep
  <2>3. IF MP!Watching = {} THEN x4' = x4 ELSE Sent(x4', x4, Signal(n, lost, gained))
    BY <1>3, OwnerStep
  <2>4. x10' = IF gained THEN (IF MP!Settled THEN n ELSE NoPlayer) ELSE IF x10 = n THEN NoPlayer ELSE x10
    BY <1>3 DEF MP!OwnerChanges
  <2>5. Signal(n, lost, gained).name = n /\ Signal(n, lost, gained).to = MP!Watching
    BY DEF Signal
  <2>6. (Signal(n, lost, gained).gained <=> gained) /\ (Signal(n, lost, gained).lost <=> lost)
    BY Zenon DEF Signal
  <2>7. CASE gained /\ MP!Settled
    <3>1. on /\ x3 = {} /\ x4 = <<>> /\ x6 = x5 - 1 /\ x7[x6] = "watching" /\ x6 \in MP!Id
      BY <2>7, MediaKeysAssumption DEF MP!Settled, MP!PlayerTypes, MP!Id
    <3>2. x6 \in MP!Watching
      BY <3>1 DEF MP!Watching
    <3>3. Sent(x4', x4, Signal(n, lost, gained))
      BY <2>3, <3>2
    <3>4. Len(x4) = 0 /\ DOMAIN x4 = {}
      BY <3>1
    <3>5. x4' # <<>> /\ DOMAIN x4' = 1..1 /\ x4'[1] = Signal(n, lost, gained)
      <4>1. DOMAIN x4' = 1..0 + 1 /\ x4'[0 + 1] = Signal(n, lost, gained)
        BY <3>3, <3>4 DEF Sent
      <4>2. 1 \in DOMAIN x4'
        BY <4>1
      <4>3. x4' # <<>>
        BY <4>2
      <4> QED
        BY <4>1, <4>3
    <3>6. ASSUME NEW i \in MP!Watching, n \in x8[i] PROVE lost
      <4>1. MP!KnownIsTrue(i, n)
        BY DEF MP!NamesAreHeard
      <4>2. n \in x1
        BY <3>4, <3>6, <4>1 DEF MP!KnownIsTrue
      <4> QED
        BY <2>2, <4>2
    <3>7. x4'[1].gained /\ x4'[1].name = n /\ x4'[1].to = MP!Watching /\ (x4'[1].lost <=> lost)
      BY <2>5, <2>6, <2>7, <3>5
    <3>8. x10' = n
      BY <2>4, <2>7
    <3> QED
      BY <2>1, <3>1, <3>2, <3>5, <3>6, <3>7, <3>8 DEF MP!LatestIsAhead
  <2>8. CASE gained /\ ~MP!Settled
    BY <1>1, <2>4, <2>8
  <2>9. CASE ~gained /\ x10 # n
    <3>1. x10' = x10
      BY <2>4, <2>9
    <3>2. CASE x10 = NoPlayer
      BY <1>1, <3>1, <3>2
    <3>3. CASE x10 # NoPlayer
      <4>1. on /\ x6 \in MP!Watching /\ x3 = {}
        BY <3>3 DEF MP!LatestIsAhead
      <4>2. Sent(x4', x4, Signal(n, lost, gained))
        BY <2>3, <4>1
      <4>3. PICK m : m = Signal(n, lost, gained)
        OBVIOUS
      <4>4. ~m.gained /\ m.name \notin {x10, NoPlayer}
        BY <2>5, <2>6, <2>9, <4>3, NamesAssumption
      <4>5. /\ Len(x4) \in Nat /\ DOMAIN x4 = 1..Len(x4) /\ DOMAIN x4' = 1..Len(x4) + 1 /\ x4' # <<>>
            /\ \A j \in 1..Len(x4) : x4'[j] = x4[j]
            /\ x4'[Len(x4) + 1] = m
        BY <4>2, <4>3 DEF Sent
      <4>6. \A j \in DOMAIN x4' : j > 1 => ~x4'[j].gained /\ x4'[j].name \notin {x10, NoPlayer}
        BY <3>3, <4>4, <4>5 DEF MP!LatestIsAhead
      <4>7. x4 # <<>> => x4'[1] = x4[1]
        <5>1. x4 # <<>> => Len(x4) > 0
          BY DEF MP!PlayerTypes
        <5> QED
          BY <4>5, <5>1
      <4>8. x4 = <<>> => x4'[1] = m
        BY <4>5
      <4>9. \/ /\ x4' # <<>> /\ x4'[1].gained /\ x4'[1].name = x10 /\ MP!Watching \subseteq x4'[1].to
               /\ \A i \in MP!Watching : x10 \in x8[i] => x4'[1].lost
            \/ /\ x9 # <<>> /\ x9[1] = x10
               /\ ~x4'[1].gained /\ x4'[1].name \notin {x10, NoPlayer}
        BY <3>3, <4>4, <4>5, <4>7, <4>8 DEF MP!LatestIsAhead
      <4> QED
        BY <2>1, <3>1, <4>1, <4>6, <4>9 DEF MP!LatestIsAhead
    <3> QED
      BY <3>2, <3>3
  <2>10. CASE ~gained /\ x10 = n
    BY <1>1, <2>4, <2>10
  <2> QED
    BY <2>7, <2>8, <2>9, <2>10
<1>4. ASSUME NEW ask, MP!BusAnswers(ask)
      PROVE  MP!LatestIsAhead'
  <2>1. ask \in x3 /\ x10' = x10
    BY <1>4, AnswerStep
  <2> QED
    BY <1>1, <2>1 DEF MP!LatestIsAhead
<1>5. CASE MP!Start
  BY <1>1, <1>5, StartStep
<1>6. ASSUME NEW i \in MP!Id, MP!GotBus(i)
      PROVE  MP!LatestIsAhead'
  BY <1>1, <1>6, ConnectStep
<1>7. CASE MP!NamesListed
  <2>1. x10' = x10 /\ x4[1].name = NoPlayer /\ x4 # <<>>
    BY <1>7, ListedStep DEF MP!NamesListed
  <2> QED
    BY <1>1, <2>1 DEF MP!LatestIsAhead
<1>8. CASE MP!NameOwnerKnown
  <2>1. UNCHANGED <<on, x3, x6, x10>> /\ MP!Watching' = MP!Watching /\ Handled(x4', x4)
    BY <1>8, KnownStep
  <2>2. CASE x10 = NoPlayer
    BY <1>1, <2>1, <2>2
  <2>3. CASE x10 # NoPlayer
    <3>1. PICK m : m = x4[1]
      OBVIOUS
    <3>2. PICK to : to = m.to \cap MP!Watching
      OBVIOUS
    <3>3. PICK n : n = x10
      OBVIOUS
    <3>4. on /\ x6 \in MP!Watching /\ x3 = {}
      BY <2>3 DEF MP!LatestIsAhead
    <3>5. x6 = 0 => Told(x9', x9, x8[0], m, 0 \in to)
      BY <1>8, <3>1, <3>2, <3>4, QueueStep
    <3>6. x6 # 0 => \E mid \in Seq(Player) : /\ Told(mid, x9, x8[0], m, 0 \in to)
                                             /\ Told(x9', mid, x8[x6], m, x6 \in to)
      BY <1>8, <3>1, <3>2, <3>4, QueueStep
    <3>7. /\ 1 \in DOMAIN x4 /\ x4 # <<>>
          /\ \A j \in DOMAIN x4' : j + 1 \in DOMAIN x4 /\ j + 1 > 1 /\ x4'[j] = x4[j + 1] /\ j \in Nat
      BY <2>1 DEF Handled
    <3>8. \A j \in DOMAIN x4' : ~x4'[j].gained /\ x4'[j].name \notin {n, NoPlayer}
      BY <2>3, <3>3, <3>7 DEF MP!LatestIsAhead
    <3>9. PICK r, q : r = x9' /\ q = x9
      OBVIOUS
    <3>10. PICK first, own : first = x8[0] /\ own = x8[x6]
      OBVIOUS
    <3>11. PICK also \in BOOLEAN : also <=> 0 \in to
      BY Zenon
    <3>12. PICK told \in BOOLEAN : told <=> x6 \in to
      BY Zenon
    <3>13. PICK mid : /\ Told(r, mid, own, m, told)
                      /\ mid = q \/ Told(mid, q, first, m, also)
      <4>1. CASE x6 = 0
        <5>1. Told(r, q, own, m, told)
          BY <3>5, <3>9, <3>10, <3>12, <4>1 DEF Told
        <5> QED
          BY <5>1
      <4>2. CASE x6 # 0
        <5>1. PICK mid \in Seq(Player) : /\ Told(mid, x9, x8[0], m, 0 \in to)
                                         /\ Told(x9', mid, x8[x6], m, x6 \in to)
          BY <3>6, <4>2
        <5>2. Told(mid, q, first, m, also)
          BY <3>9, <3>10, <3>11, <5>1 DEF Told
        <5>3. Told(r, mid, own, m, told)
          BY <3>9, <3>10, <3>12, <5>1 DEF Told
        <5> QED
          BY <5>2, <5>3
      <4> QED
        BY <4>1, <4>2
    <3>14. r # <<>> /\ r[1] = n
      <4>1. CASE /\ m.gained /\ m.name = n /\ MP!Watching \subseteq m.to
                 /\ \A i \in MP!Watching : n \in x8[i] => m.lost
        <5>1. told
          BY <3>2, <3>4, <3>12, <4>1
        <5>2. n \in own => m.lost
          BY <3>4, <3>10, <4>1
        <5>3. Follows(r, mid, own, m)
          BY <3>13, <5>1 DEF Told
        <5> QED
          BY <4>1, <5>2, <5>3 DEF Follows
      <4>2. CASE q # <<>> /\ q[1] = n /\ ~m.gained /\ m.name # n
        <5>1. mid # <<>> /\ mid[1] = n
          BY <3>13, <4>2, HeadIsKept
        <5> QED
          BY <3>13, <4>2, <5>1, HeadIsKept
      <4>3. \/ /\ m.gained /\ m.name = n /\ MP!Watching \subseteq m.to
               /\ \A i \in MP!Watching : n \in x8[i] => m.lost
            \/ q # <<>> /\ q[1] = n /\ ~m.gained /\ m.name # n
        BY <2>3, <3>1, <3>3, <3>7, <3>9 DEF MP!LatestIsAhead
      <4> QED
        BY <4>1, <4>2, <4>3
    <3>15. x4' # <<>> => 1 \in DOMAIN x4'
      BY <2>1 DEF Handled, MP!PlayerTypes, MP!NameOwnerKnown
    <3> QED
      BY <2>1, <3>3, <3>4, <3>8, <3>9, <3>14, <3>15 DEF MP!LatestIsAhead
  <2> QED
    BY <2>2, <2>3
<1>9. CASE MP!Stop
  BY <1>1, <1>9, StopStep
<1>10. CASE UNCHANGED MP!vars
  <2>1. MP!Watching' = MP!Watching
    BY <1>10, WatchingKept DEF MP!vars, MP!watchvars
  <2> QED
    BY <1>2, <1>10, <2>1 DEF MP!vars, MP!watchvars
<1> QED
  BY <1>3, <1>4, <1>5, <1>6, <1>7, <1>8, <1>9, <1>10 DEF MP!Next

(* A set has as many elements in the module of the players.                *)
LEMMA SameCardinality == \A T : MP!Cardinality(T) = Cardinality(T)
BY Zenon DEF MP!Cardinality, Cardinality

(* Once all is quiet the queue is the players that run: what the watchers  *)
(* know is true, and the first knows nothing but what it watches.          *)
LEMMA QuietIsQueued ==
  ASSUME MP!PlayerTypes, MP!LetGo, MP!NewAreUntold, MP!NamesAreHeard, MP!QueueIsKnown, MP!LatestIsAhead
  PROVE  MP!PlayersAreQueued
<1> SUFFICES ASSUME MP!Settled
             PROVE  /\ MP!ToSet(x9) = x1
                    /\ Cardinality(MP!Watching) = 1 => Len(x9) = Cardinality(x1)
                    /\ x10 # NoPlayer => Head(x9) = x10
  BY SameCardinality DEF MP!PlayersAreQueued
<1>1. on /\ x3 = {} /\ x4 = <<>> /\ x6 = x5 - 1 /\ x7[x6] = "watching" /\ x6 \in MP!Id /\ 0 \in MP!Id
  BY MediaKeysAssumption DEF MP!Settled, MP!PlayerTypes, MP!Id
<1>2. x6 \in MP!Watching
  BY <1>1 DEF MP!Watching
<1>3. DOMAIN x4 = {}
  BY <1>1
<1>4. \A i \in MP!Watching : x8[i] = x1
  <2> SUFFICES ASSUME NEW i \in MP!Watching PROVE x8[i] = x1
    OBVIOUS
  <2>1. x8[i] \subseteq Player /\ x1 \subseteq Player
    BY DEF MP!PlayerTypes, MP!Watching
  <2>2. ASSUME NEW n \in Player PROVE n \in x8[i] <=> n \in x1
    <3>1. MP!KnownIsTrue(i, n)
      BY DEF MP!NamesAreHeard
    <3>2. ~MP!Asked(i, n)
      BY <1>1, <1>3 DEF MP!Asked
    <3> QED
      BY <1>3, <3>1, <3>2 DEF MP!KnownIsTrue
  <2> QED
    BY <2>1, <2>2
<1>5. MP!Others \subseteq x1
  <2>1. CASE 0 \in MP!Watching
    BY <1>4, <2>1 DEF MP!Others
  <2>2. CASE 0 \notin MP!Watching
    BY <1>1, <2>2 DEF MP!Others, MP!NewAreUntold
  <2> QED
    BY <2>1, <2>2
<1>6. MP!Queued(x9, x1, MP!Others) /\ x1 \subseteq MP!ToSet(x9)
  BY <1>1, <1>2, <1>4 DEF MP!QueueIsKnown
<1>7. x9 \in Seq(Player)
  BY DEF MP!PlayerTypes
<1>8. MP!ToSet(x9) = x1
  BY <1>5, <1>6, <1>7 DEF MP!Queued, MP!ToSet
<1>9. ASSUME Cardinality(MP!Watching) = 1
      PROVE  Len(x9) = Cardinality(x1)
  <2>1. IsFiniteSet(MP!Watching)
    <3>1. IsFiniteSet(MP!Id)
      BY MediaKeysAssumption, FS_Interval DEF MP!Id
    <3> QED
      BY <3>1, FS_Subset DEF MP!Watching
  <2>2. MP!Watching = {x6}
    BY <1>2, <1>9, <2>1, FS_Singleton
  <2>3. MP!Others = {}
    BY <1>1, <2>2 DEF MP!Others, MP!NewAreUntold
  <2>4. \A p, r \in 1..Len(x9) : x9[p] = x9[r] => p = r
    BY <1>6, <1>7, <2>3 DEF MP!Queued
  <2>5. PICK n \in Nat : n = Len(x9)
    BY <1>7
  <2>6. IsFiniteSet(1..n) /\ Cardinality(1..n) = n
    <3>1. IsFiniteSet(1..n) /\ Cardinality(1..n) = IF 1 > n THEN 0 ELSE n - 1 + 1
      BY FS_Interval
    <3> QED
      BY <3>1
  <2>7. x9 \in Injection(1..n, x1) /\ x9 \in Surjection(1..n, x1)
    <3>1. x9 \in [1..n -> x1]
      BY <1>7, <1>8, <2>5 DEF MP!ToSet
    <3>2. x9 \in Injection(1..n, x1)
      BY <2>4, <2>5, <3>1 DEF Injection, IsInjective
    <3>3. x9 \in Surjection(1..n, x1)
      BY <1>7, <1>8, <2>5, <3>1 DEF Surjection, MP!ToSet
    <3> QED
      BY <3>2, <3>3
  <2>8. Cardinality(x1) = Cardinality(1..n)
    BY <2>6, <2>7, FS_Surjection
  <2> QED
    BY <2>5, <2>6, <2>8
<1>10. x10 # NoPlayer => Head(x9) = x10
  BY <1>1, <1>7 DEF MP!LatestIsAhead
<1> QED
  BY <1>8, <1>9, <1>10

(* What the keys' way to the players rests on, for the plugin that is      *)
(* picked.                                                                 *)
PlayersInv ==
  /\ plugin = "mpris" => /\ MP!PlayerTypes /\ MP!NewAreUntold /\ MP!LostComeFirst /\ MP!NamesAreHeard
                         /\ MP!QueueIsKnown /\ MP!LatestIsAhead
  /\ plugin = "players" => PL!PlayersAreInTime /\ PL!ProxyIsOne

(* At first nothing is known, and nothing is under way.                    *)
LEMMA InitPlayersInv == SumInit => PlayersInv
<1> SUFFICES ASSUME SumInit PROVE PlayersInv
  OBVIOUS
<1>1. on = FALSE /\ begun = 0
  BY DEF SumInit, Init, MKInit
<1>2. ASSUME MP!Init
      PROVE  /\ MP!PlayerTypes /\ MP!NewAreUntold /\ MP!LostComeFirst /\ MP!NamesAreHeard
             /\ MP!QueueIsKnown /\ MP!LatestIsAhead
  <2>1. /\ x1 \in SUBSET Player /\ x3 = {} /\ x4 = <<>> /\ x5 = 0 /\ x6 = 0
        /\ x7 = [i \in MP!Id |-> "none"] /\ x8 = [i \in MP!Id |-> {}] /\ x9 = <<>> /\ x10 = NoPlayer
    BY <1>2 DEF MP!Init
  <2>2. MP!Watching = {}
    BY <2>1 DEF MP!Watching
  <2>3. MP!PlayerTypes
    BY <1>1, <2>1, MediaKeysAssumption DEF MP!PlayerTypes
  <2>4. MP!NewAreUntold /\ MP!LostComeFirst
    BY <2>1 DEF MP!NewAreUntold, MP!LostComeFirst
  <2>5. MP!NamesAreHeard
    BY <2>2 DEF MP!NamesAreHeard
  <2>6. MP!QueueIsKnown /\ MP!LatestIsAhead
    BY <1>1, <2>1 DEF MP!QueueIsKnown, MP!LatestIsAhead
  <2> QED
    BY <2>3, <2>4, <2>5, <2>6
<1>3. PL!Init => PL!PlayersAreInTime /\ PL!ProxyIsOne
  BY DEF PL!Init, PL!PlayersAreInTime, PL!ProxyIsOne
<1> QED
  BY <1>2, <1>3 DEF SumInit, PlayersInv

(* Every step keeps it.                                                    *)
LEMMA PlayersInvStep ==
  ASSUME Kept, PlayersInv, [SumNext]_<<plugin, size, vars, xs>>
  PROVE  PlayersInv'
<1> USE Picked DEF Kept, PlayersInv
<1>1. plugin = "mpris" => MP!PlayerTypes'
  BY MprisTypes
<1>2. plugin = "mpris" => MP!NewAreUntold' /\ MP!LostComeFirst' /\ MP!NamesAreHeard'
  BY UntoldStep, LostStep, HeardStep
<1>3. plugin = "mpris" => MP!QueueIsKnown' /\ MP!LatestIsAhead'
  BY QueueIsKept, LatestIsKept
<1>4. plugin = "players" => PL!PlayersAreInTime' /\ PL!ProxyIsOne'
  BY PlayersStep, ProxyStep
<1> QED
  BY <1>1, <1>2, <1>3, <1>4

(* The keys go to the player that asked last and the proxy speaks for the  *)
(* name that is there (plugins/media-keys); and once all is quiet the      *)
(* queue is the players that run, the last at its head, whatever came      *)
(* between the signals and the answers (plugins/mpris): for any players    *)
(* and applications, any number of starts and of changes of owners, and    *)
(* a clock of any width.                                                   *)
THEOREM KeysGoToPlayersAlways == SumSpec => []KeysGoToPlayers
<1>1. Kept /\ PlayersInv => KeysGoToPlayers
  <2> SUFFICES ASSUME Kept, PlayersInv PROVE KeysGoToPlayers
    OBVIOUS
  <2>1. plugin = "mpris" => MP!PlayersAreQueued
    BY QuietIsQueued DEF Kept, PlayersInv
  <2>2. PL!PlayersAreInTime => PL!LastAskedListens
    BY DEF PL!PlayersAreInTime, PL!LastAskedListens
  <2>3. PL!ProxyIsOne => PL!ProxyFollowsName
    BY DEF PL!ProxyIsOne, PL!ProxyFollowsName, PL!Of
  <2> QED
    BY <2>1, <2>2, <2>3 DEF PlayersInv, KeysGoToPlayers
<1> QED
  BY <1>1, KeptAlways, InitPlayersInv, PlayersInvStep, PTL DEF SumSpec

=============================================================================
