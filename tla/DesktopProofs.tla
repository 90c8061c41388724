--------------------------- MODULE DesktopProofs ---------------------------
(***************************************************************************)
(* Proofs about the parts of MCDesktop, for all values of the constants    *)
(* and any number of starts: about the keys that media-keys and            *)
(* keybindings grab, as theorems of DesktopKeys, and, of whichever plugin  *)
(* is picked, that it keeps what it promises the daemon, leaves nothing    *)
(* dangling and publishes serials that tell what changed; then, that the   *)
(* parts of the housekeeping plugin keep house, and that the datetime      *)
(* mechanism answers truly.                                                *)
(***************************************************************************)
EXTENDS MCDesktop, NaturalsInduction, SequenceTheorems, WellFoundedInduction, TLAPS

(* As long as no start runs late, the plugin has its settings, one list of *)
(* one screen and one watch, or none of them and no key.                   *)
Orderly ==
  /\ screens > 0 => screens = 1 /\ watches = 1 /\ settings /\ on
  /\ screens = 0 => watches = 0 /\ ~settings /\ KeysOf(key) = {}

IInv ==
  /\ screens \in Nat
  /\ late \in BOOLEAN
  /\ DOMAIN key = Entry /\ DOMAIN wanted = Entry
  /\ ~active => KeysOf(binding) = {}
  /\ ~late => Orderly
  /\ GrabsAreBound

-----------------------------------------------------------------------------
(* What registering grabs, besides what is grabbed, are keys of the list.  *)
LEMMA RegisteredIsListed ==
  ASSUME NEW held, NEW bound
  PROVE  RegisterKeys(held, bound) \subseteq held \cup (KeysOf(bound) \ taken)
BY DEF RegisterKeys, Grabbed, KeysOf

(* Unregistering leaves no key of the list.                                *)
LEMMA UnregisteredIsUnlisted ==
  ASSUME NEW held, NEW bound
  PROVE  UnregisterKeys(held, bound) = held \ KeysOf(bound)
BY DEF UnregisterKeys, Ungrabbed, KeysOf

(* An empty list has no key.                                               *)
LEMMA ClearedHasNoKey == KeysOf(Cleared) = {}
BY DEF KeysOf, Cleared

(* Nothing is grabbed at first, and nothing bound.                         *)
LEMMA InitIInv == Init => IInv
<1> SUFFICES ASSUME Init PROVE IInv
  OBVIOUS
<1>1. KeysOf(key) = {}
  BY DEF Init, MKInit, KeysOf, NoKey
<1>2. DOMAIN wanted = Entry /\ DOMAIN key = Entry
  BY DEF Init, MKInit
<1>3. screens = 0 /\ watches = 0 /\ late = FALSE /\ settings = FALSE
  BY DEF Init, MKInit
<1>4. grabs = {} /\ binding = Cleared
  BY DEF Init, KBInit
<1>5. screens \in Nat /\ ~(screens > 0)
  BY <1>3
<1>6. late \in BOOLEAN /\ ~settings
  BY <1>3, Zenon
<1>7. KeysOf(binding) = {} /\ grabs \subseteq KeysOf(key) \cup KeysOf(binding)
  BY <1>4, ClearedHasNoKey
<1> QED
  BY <1>1, <1>2, <1>3, <1>5, <1>6, <1>7, Zenon DEF IInv, Orderly, GrabsAreBound

(* Every step of either plugin keeps the invariant.                        *)
LEMMA NextIInv == IInv /\ [Next]_vars => IInv'
<1> SUFFICES ASSUME IInv, [Next]_vars PROVE IInv'
  OBVIOUS
<1> USE DEF IInv, Orderly, GrabsAreBound
<1>1. ASSUME MKNext, UNCHANGED <<taken, kbvars>> PROVE IInv'
  <2>1. CASE MKStart
    BY <1>1, <2>1 DEF MKStart, kbvars
  <2>2. CASE MKStartIdle
    <3>1. KeysOf(wanted) \subseteq KeysOf(key')
      <4>1. \A e \in Entry : wanted[e] \subseteq key'[e]
        BY <2>2 DEF MKStartIdle, NoKey
      <4>2. DOMAIN key' = Entry
        BY <2>2 DEF MKStartIdle
      <4> QED
        BY <4>1, <4>2 DEF KeysOf
    <3>2. ~late' => ~late /\ on /\ screens = 0
      <4>1. late' = (late \/ ~on \/ screens > 0)
        BY <2>2 DEF MKStartIdle
      <4>2. ~late' => ~late /\ on /\ ~(screens > 0)
        BY <4>1, Zenon
      <4>3. ~(screens > 0) => screens = 0
        OBVIOUS
      <4> QED
        BY <4>2, <4>3, Zenon
    <3>3. grabs' \subseteq grabs \cup KeysOf(wanted)
      BY <2>2 DEF MKStartIdle, Grabbed
    <3> QED
      BY <1>1, <2>2, <3>1, <3>2, <3>3 DEF MKStartIdle, kbvars
  <2>3. CASE MKStop
    <3>1. KeysOf(key') = {} /\ DOMAIN key' = Entry
      BY <2>3 DEF MKStop, KeysOf, NoKey
    <3>2. ~late => grabs' \subseteq KeysOf(binding)
      BY <2>3 DEF MKStop, Ungrabbed
    <3> QED
      BY <1>1, <2>3, <3>1, <3>2 DEF MKStop, kbvars
  <2>4. CASE \E e \in Entry, k \in Key \cup {NoKey} : ChangeShortcut(e, k)
    BY <1>1, <2>4 DEF ChangeShortcut, kbvars
  <2>5. ASSUME NEW e \in Entry, UpdateKbd(e) PROVE IInv'
    <3>1. ~late => screens > 0
      BY <2>5 DEF UpdateKbd
    <3>2. /\ key' = [key EXCEPT ![e] = wanted[e]]
          /\ DOMAIN key' = Entry
          /\ UNCHANGED <<wanted, screens, settings, watches, on, late>>
      BY <2>5 DEF UpdateKbd
    <3>3. ASSUME ~late PROVE grabs' \subseteq KeysOf(key') \cup KeysOf(binding)
      <4>1. grabs' \subseteq (grabs \ key[e]) \cup wanted[e]
        BY <2>5, <3>1, <3>3 DEF UpdateKbd, Grabbed, Ungrabbed
      <4>2. wanted[e] \subseteq KeysOf(key')
        BY <3>2 DEF KeysOf
      <4>3. KeysOf(key) \ key[e] \subseteq KeysOf(key')
        BY <3>2 DEF KeysOf
      <4> QED
        BY <3>3, <4>1, <4>2, <4>3
    <3> QED
      BY <1>1, <3>1, <3>2, <3>3 DEF kbvars
  <2> QED
    BY <1>1, <2>1, <2>2, <2>3, <2>4, <2>5 DEF MKNext
<1>2. ASSUME KBNext, UNCHANGED <<taken, mkvars>> PROVE IInv'
  <2> USE <1>2 DEF mkvars
  <2>1. CASE KBStart
    <3>1. grabs' \subseteq grabs \cup KeysOf(binding')
      BY <2>1, RegisteredIsListed DEF KBStart
    <3>2. KeysOf(binding) = {} /\ active'
      BY <2>1 DEF KBStart
    <3> QED
      BY <3>1, <3>2
  <2>2. CASE BindingsCallback
    <3>1. grabs' \subseteq (grabs \ KeysOf(binding)) \cup KeysOf(binding')
      BY <2>2, RegisteredIsListed, UnregisteredIsUnlisted DEF BindingsCallback
    <3> QED
      BY <2>2, <3>1 DEF BindingsCallback
  <2>3. CASE KBStop
    <3>1. grabs' = grabs \ KeysOf(binding)
      BY <2>3, UnregisteredIsUnlisted DEF KBStop
    <3>2. KeysOf(binding') = {}
      BY <2>3, ClearedHasNoKey DEF KBStop
    <3> QED
      BY <3>1, <3>2
  <2>4. CASE \E p \in Path, k \in Key \cup {NoKey} : ChangeBinding(p, k)
    BY <2>4 DEF ChangeBinding
  <2> QED
    BY <1>2, <2>1, <2>2, <2>3, <2>4 DEF KBNext
<1>3. CASE UNCHANGED <<grabs, mkvars, kbvars>>
  BY <1>3 DEF mkvars, kbvars
<1>4. ASSUME NEW c \in Contested, OthersGrab(c) \/ OthersUngrab(c) PROVE UNCHANGED grabs
  BY <1>4 DEF OthersGrab, OthersUngrab
<1> QED
  BY <1>1, <1>2, <1>3, <1>4 DEF Next, vars

(* Whatever is grabbed is bound, for any keys, entries and custom bindings *)
(* and any number of starts, unless a start that was queued ran late.      *)
THEOREM GrabsAreBoundHolds == Spec => []GrabsAreBound
<1>1. IInv => GrabsAreBound
  BY DEF IInv
<1> QED
  BY InitIInv, NextIInv, <1>1, PTL DEF Spec

-----------------------------------------------------------------------------
(* TypeOK, strengthened: a stop takes away a watch only from a manager     *)
(* that has its settings, and then there is one.                           *)
TypeInv ==
  /\ TypeOK
  /\ settings \in BOOLEAN
  /\ settings => watches > 0

(* A list of keys holds keycodes if each of its keys does.                 *)
LEMMA ListedCodes ==
  ASSUME NEW table, \A x \in DOMAIN table : table[x] \subseteq Code
  PROVE  KeysOf(table) \subseteq Code
BY DEF KeysOf

(* What is read from dconf are bindings of keycodes.                       *)
LEMMA EntriesType ==
  ASSUME NEW c \in [Path -> SUBSET Code]
  PROVE  DOMAIN GetEntries(c) \subseteq Path /\ KeysOf(GetEntries(c)) \subseteq Code
<1>1. DOMAIN GetEntries(c) \subseteq Path
  BY DEF GetEntries
<1>2. \A p \in DOMAIN GetEntries(c) : GetEntries(c)[p] \subseteq Code
  BY DEF GetEntries
<1> QED
  BY <1>1, <1>2, ListedCodes

(* Nothing is bound at first.                                              *)
LEMMA InitType == Init => TypeInv
<1> SUFFICES ASSUME Init PROVE TypeInv
  OBVIOUS
<1>1. /\ wanted \in [Entry -> SUBSET Code] /\ key \in [Entry -> SUBSET Code]
      /\ custom \in [Path -> SUBSET Code] /\ grabs = {} /\ taken = {} /\ unseen = {}
  BY KeyAssumption DEF Init, MKInit, KBInit, NoKey
<1>2. idles = 0 /\ screens = 0 /\ watches = 0 /\ settings = FALSE
  BY DEF Init, MKInit
<1>3. DOMAIN binding \subseteq Path /\ KeysOf(binding) \subseteq Code
  BY ClearedHasNoKey DEF Init, KBInit, Cleared
<1>4. TypeOK
  BY <1>1, <1>2, <1>3 DEF TypeOK
<1>5. ~settings
  BY <1>2, Zenon
<1> QED
  BY <1>2, <1>4, <1>5 DEF TypeInv

(* The steps of the media keys keep the types.                             *)
LEMMA MKType ==
  ASSUME TypeInv, MKNext, UNCHANGED <<taken, kbvars>>
  PROVE  TypeInv'
<1>1. /\ custom' \in [Path -> SUBSET Code]
      /\ DOMAIN binding' \subseteq Path /\ KeysOf(binding') \subseteq Code
  BY DEF TypeInv, TypeOK, kbvars, KeysOf
<1>2. \A k \in Key \cup {NoKey} : k \in SUBSET Code
  BY KeyAssumption DEF NoKey
<1>3. wanted \in [Entry -> SUBSET Code] /\ key \in [Entry -> SUBSET Code]
  BY DEF TypeInv, TypeOK
<1>4. KeysOf(wanted) \subseteq Code /\ KeysOf(key) \subseteq Code
  BY <1>3, ListedCodes
<1>5. CASE MKStart
  <2>1. TypeOK'
    BY <1>1, <1>5 DEF MKStart, TypeInv, TypeOK
  <2>2. settings' = settings /\ watches' = watches
    BY <1>5 DEF MKStart
  <2> QED
    BY <2>1, <2>2, Zenon DEF TypeInv
<1>6. CASE MKStartIdle
  <2>1. TypeOK'
    BY <1>1, <1>3, <1>4, <1>6 DEF MKStartIdle, Grabbed, TypeInv, TypeOK
  <2>2. watches' > 0
    BY <1>6 DEF MKStartIdle, TypeInv, TypeOK
  <2>3. settings' \in BOOLEAN
    BY <1>6 DEF MKStartIdle
  <2> QED
    BY <2>1, <2>2, <2>3 DEF TypeInv
<1>7. CASE MKStop
  <2>1. watches' \in Nat
    <3>1. CASE settings
      BY <1>7, <3>1 DEF MKStop, TypeInv, TypeOK
    <3>2. CASE ~settings
      BY <1>7, <3>2 DEF MKStop, TypeInv, TypeOK
    <3> QED
      BY <3>1, <3>2
  <2>2. grabs' \in SUBSET Code /\ grabs' \cap taken = {} /\ unseen' \in SUBSET Entry
    BY <1>7 DEF MKStop, Ungrabbed, TypeInv, TypeOK
  <2>3. key' \in [Entry -> SUBSET Code] /\ UNCHANGED <<wanted, idles>> /\ screens' = 0
    BY <1>7 DEF MKStop, NoKey
  <2>4. TypeOK'
    BY <1>1, <1>3, <2>1, <2>2, <2>3 DEF TypeInv, TypeOK
  <2>5. settings' \in BOOLEAN /\ ~settings'
    BY <1>7, Zenon DEF MKStop
  <2> QED
    BY <2>4, <2>5 DEF TypeInv
<1>8. ASSUME NEW e \in Entry, NEW k \in Key \cup {NoKey}, ChangeShortcut(e, k) PROVE TypeInv'
  <2>1. wanted' \in [Entry -> SUBSET Code] /\ unseen' \in SUBSET Entry
    BY <1>2, <1>3, <1>8 DEF ChangeShortcut, TypeInv, TypeOK
  <2>2. UNCHANGED <<idles, screens, settings, watches, key, grabs>>
    BY <1>8 DEF ChangeShortcut
  <2>3. TypeOK'
    BY <1>1, <2>1, <2>2 DEF TypeInv, TypeOK
  <2> QED
    BY <2>2, <2>3, Zenon DEF TypeInv
<1>9. ASSUME NEW e \in Entry, UpdateKbd(e) PROVE TypeInv'
  <2>1. /\ key' \in [Entry -> SUBSET Code] /\ unseen' \in SUBSET Entry
        /\ grabs' \in SUBSET Code /\ grabs' \cap taken = {}
    BY <1>3, <1>9 DEF UpdateKbd, Grabbed, Ungrabbed, TypeInv, TypeOK
  <2>2. UNCHANGED <<wanted, idles, screens, settings, watches>>
    BY <1>9 DEF UpdateKbd
  <2>3. TypeOK'
    BY <1>1, <1>3, <2>1, <2>2 DEF TypeInv, TypeOK
  <2> QED
    BY <2>2, <2>3, Zenon DEF TypeInv
<1> QED
  BY <1>5, <1>6, <1>7, <1>8, <1>9 DEF MKNext

(* The steps of the custom bindings keep the types.                        *)
LEMMA KBType ==
  ASSUME TypeInv, KBNext, UNCHANGED <<taken, mkvars>>
  PROVE  TypeInv'
<1>1. UNCHANGED <<wanted, unseen, idles, screens, settings, watches, key>>
  BY DEF mkvars
<1>2. grabs \in SUBSET Code /\ grabs \cap taken = {} /\ custom \in [Path -> SUBSET Code]
  BY DEF TypeInv, TypeOK
<1>3. SUFFICES /\ grabs' \in SUBSET Code /\ grabs' \cap taken = {} /\ custom' \in [Path -> SUBSET Code]
               /\ DOMAIN binding' \subseteq Path /\ KeysOf(binding') \subseteq Code
  <2>1. TypeOK'
    BY <1>1, <1>3 DEF TypeInv, TypeOK
  <2> QED
    BY <1>1, <2>1, Zenon DEF TypeInv
<1>4. CASE KBStart \/ BindingsCallback
  <2>1. binding' = GetEntries(custom) /\ custom' = custom
    BY <1>4 DEF KBStart, BindingsCallback
  <2>2. grabs' \subseteq grabs \cup (KeysOf(GetEntries(custom)) \ taken)
    BY <1>4, RegisteredIsListed, UnregisteredIsUnlisted DEF KBStart, BindingsCallback
  <2> QED
    BY <1>2, <2>1, <2>2, EntriesType
<1>5. CASE KBStop
  <2>1. grabs' \subseteq grabs /\ binding' = Cleared /\ custom' = custom
    BY <1>5, UnregisteredIsUnlisted DEF KBStop
  <2>2. DOMAIN Cleared = {}
    BY DEF Cleared
  <2> QED
    BY <1>2, <2>1, <2>2, ClearedHasNoKey
<1>6. ASSUME NEW p \in Path, NEW k \in Key \cup {NoKey}, ChangeBinding(p, k)
      PROVE  /\ UNCHANGED <<grabs, binding>> /\ custom' \in [Path -> SUBSET Code]
  <2>1. k \in SUBSET Code
    BY KeyAssumption DEF NoKey
  <2> QED
    BY <1>2, <1>6, <2>1 DEF ChangeBinding
<1> QED
  BY <1>4, <1>5, <1>6 DEF KBNext, TypeInv, TypeOK

(* So do other applications, who take no key that the daemon has.          *)
LEMMA OthersType ==
  ASSUME TypeInv, UNCHANGED <<mkvars, kbvars>>, grabs' = grabs,
         taken' \in SUBSET Code, grabs \cap taken' = {}
  PROVE  TypeInv'
<1>1. UNCHANGED <<grabs, wanted, key, custom, binding, unseen, idles, screens, watches, settings>>
  BY DEF mkvars, kbvars
<1>2. TypeOK'
  BY <1>1 DEF TypeInv, TypeOK, KeysOf
<1> QED
  BY <1>1, <1>2, Zenon DEF TypeInv

LEMMA NextType ==
  ASSUME TypeInv, [Next]_vars
  PROVE  TypeInv'
<1>1. CASE UNCHANGED vars
  BY <1>1, OthersType DEF vars, TypeInv, TypeOK
<1>2. ASSUME NEW c \in Contested, OthersGrab(c) \/ OthersUngrab(c), UNCHANGED <<mkvars, kbvars>>
      PROVE  TypeInv'
  <2>1. taken' \in SUBSET Code /\ grabs \cap taken' = {} /\ grabs' = grabs
    BY <1>2, ContestedAssumption DEF OthersGrab, OthersUngrab, TypeInv, TypeOK
  <2> QED
    BY <1>2, <2>1, OthersType
<1> QED
  BY <1>1, <1>2, MKType, KBType DEF Next

(* Keys and lists hold keycodes, no keycode has two owners, and no count   *)
(* goes below zero, however late the queued starts run.                    *)
THEOREM TypeOKAlways == Spec => []TypeOK
<1>1. TypeInv /\ [Next]_vars => TypeInv'
  BY NextType
<1>2. TypeInv => TypeOK
  BY DEF TypeInv
<1> QED
  BY InitType, <1>1, <1>2, PTL DEF Spec

-----------------------------------------------------------------------------
(* BoundIsGrabbed is inductive with what "shared" records: what is bound   *)
(* twice now, and the keys of a plugin that has no screen to grab them on. *)
SharedInv ==
  /\ BoundTwice(key, binding) \subseteq shared
  /\ screens = 0 => KeysOf(key) \subseteq shared

BoundInv == SharedInv /\ BoundIsGrabbed

(* The keys of two entries, of two bindings, or of an entry and a binding, *)
(* have in common only what is bound twice.                                *)
LEMMA MeetIsShared ==
  ASSUME NEW table, NEW bound
  PROVE  /\ \A e, f \in DOMAIN table : e # f => table[e] \cap table[f] \subseteq BoundTwice(table, bound)
         /\ \A p, q \in DOMAIN bound : p # q => bound[p] \cap bound[q] \subseteq BoundTwice(table, bound)
         /\ \A e \in DOMAIN table, p \in DOMAIN bound : table[e] \cap bound[p] \subseteq BoundTwice(table, bound)
<1>1. \A e \in DOMAIN table : table[e] \subseteq KeysOf(table)
  BY DEF KeysOf
<1>2. \A p \in DOMAIN bound : bound[p] \subseteq KeysOf(bound)
  BY DEF KeysOf
<1> QED
  BY <1>1, <1>2 DEF BoundTwice

(* Nothing is bound twice where there is no key at all.                    *)
LEMMA NoneIsShared ==
  ASSUME NEW table, KeysOf(table) = {}
  PROVE  BoundTwice(table, Cleared) = {}
BY ClearedHasNoKey DEF BoundTwice

(* The parts of BoundIsGrabbed: of entries, and of custom bindings.        *)
LEMMA BoundParts ==
  BoundIsGrabbed <=>
    /\ screens > 0 => \A e \in Entry : key[e] \cap shared = {} => key[e] \subseteq grabs
    /\ \A p \in DOMAIN binding : binding[p] \cap shared = {} => binding[p] \subseteq grabs
BY DEF BoundIsGrabbed

(* The steps of the media keys keep what is bound grabbed.                 *)
LEMMA MKBound ==
  ASSUME TypeInv, BoundInv, MKNext, UNCHANGED <<taken, kbvars>>, shared \subseteq shared',
         BoundTwice(key', binding') \subseteq shared', KeysOf(key') \cap taken \subseteq shared'
  PROVE  BoundIsGrabbed'
<1>1. /\ binding' = binding /\ DOMAIN key = Entry
      /\ key \in [Entry -> SUBSET Code] /\ wanted \in [Entry -> SUBSET Code]
      /\ screens \in Nat
  BY DEF kbvars, TypeInv, TypeOK
<1>2. /\ screens > 0 => \A e \in Entry : key[e] \cap shared = {} => key[e] \subseteq grabs
      /\ \A p \in DOMAIN binding : binding[p] \cap shared = {} => binding[p] \subseteq grabs
  BY BoundParts DEF BoundInv
<1>3. SUFFICES
        /\ screens' > 0 => \A e \in Entry : key'[e] \cap shared' = {} => key'[e] \subseteq grabs'
        /\ \A p \in DOMAIN binding : binding[p] \cap shared' = {} => binding[p] \subseteq grabs'
  BY <1>1, <1>3 DEF BoundIsGrabbed
<1>4. /\ \A e, f \in Entry : e # f => key[e] \cap key[f] \subseteq shared
      /\ \A e \in Entry, p \in DOMAIN binding : key[e] \cap binding[p] \subseteq shared
  BY <1>1, MeetIsShared DEF BoundInv, SharedInv
<1>5. CASE UNCHANGED <<screens, key, grabs>>
  BY <1>2, <1>5
<1>6. CASE MKStartIdle
  <2>1. /\ grabs' = grabs \cup (KeysOf(wanted) \ taken)
        /\ \A e \in Entry : key'[e] = IF wanted[e] # NoKey THEN wanted[e] ELSE key[e]
    BY <1>6 DEF MKStartIdle, Grabbed
  <2>2. \A e \in Entry : wanted[e] \subseteq KeysOf(wanted)
    BY <1>1 DEF KeysOf
  <2>3. ASSUME NEW e \in Entry, key'[e] \cap shared' = {}, key'[e] = key[e]
        PROVE  key[e] \subseteq grabs
    <3>1. CASE screens > 0
      BY <1>2, <2>3, <3>1
    <3>2. CASE screens = 0
      <4>1. key[e] \subseteq shared
        BY <1>1, <3>2 DEF BoundInv, SharedInv, KeysOf
      <4> QED
        BY <2>3, <4>1
    <3> QED
      BY <1>1, <3>1, <3>2
  <2>4. ASSUME NEW e \in Entry, key'[e] \cap shared' = {}, key'[e] = wanted[e]
        PROVE  wanted[e] \subseteq grabs'
    <3>1. wanted[e] \cap taken = {}
      <4>1. wanted[e] \subseteq KeysOf(key')
        BY <1>6, <2>4 DEF MKStartIdle, KeysOf
      <4> QED
        BY <2>4, <4>1
    <3> QED
      BY <2>1, <2>2, <3>1
  <2> QED
    BY <1>2, <2>1, <2>3, <2>4
<1>7. CASE MKStop
  <2>1. screens' = 0 /\ (grabs' = grabs \/ grabs' = grabs \ KeysOf(key))
    BY <1>7 DEF MKStop, Ungrabbed
  <2>2. ASSUME NEW p \in DOMAIN binding, binding[p] \cap shared = {}
        PROVE  binding[p] \cap KeysOf(key) = {}
    BY <1>1, <1>4, <2>2 DEF KeysOf
  <2> QED
    BY <1>2, <2>1, <2>2
<1>8. ASSUME NEW e \in Entry, UpdateKbd(e)
      PROVE  /\ screens' > 0 => \A f \in Entry : key'[f] \cap shared' = {} => key'[f] \subseteq grabs'
             /\ \A p \in DOMAIN binding : binding[p] \cap shared' = {} => binding[p] \subseteq grabs'
  <2>1. /\ screens' = screens /\ key' = [key EXCEPT ![e] = wanted[e]]
        /\ screens > 0 => grabs' = (grabs \ key[e]) \cup (wanted[e] \ taken)
        /\ ~(screens > 0) => grabs' = grabs
    BY <1>8 DEF UpdateKbd, Grabbed, Ungrabbed
  <2>2. ASSUME screens > 0, NEW f \in Entry, key'[f] \cap shared' = {}
        PROVE  key'[f] \subseteq grabs'
    <3>1. CASE f = e
      <4>1. key'[e] = wanted[e] /\ DOMAIN key' = Entry
        BY <1>1, <2>1
      <4>2. key'[e] \cap taken \subseteq shared'
        BY <4>1 DEF KeysOf
      <4>3. wanted[e] \cap taken = {}
        BY <2>2, <3>1, <4>1, <4>2
      <4> QED
        BY <2>1, <2>2, <3>1, <4>1, <4>3
    <3>2. CASE f # e
      <4>1. key'[f] = key[f] /\ key[f] \cap shared = {}
        BY <1>1, <2>1, <2>2, <3>2
      <4>2. key[f] \cap key[e] = {} /\ key[f] \subseteq grabs
        BY <1>2, <1>4, <2>2, <3>2, <4>1
      <4> QED
        BY <2>1, <2>2, <4>1, <4>2
    <3> QED
      BY <3>1, <3>2
  <2>3. ASSUME NEW p \in DOMAIN binding, binding[p] \cap shared' = {}
        PROVE  binding[p] \subseteq grabs'
    <3>1. binding[p] \cap key[e] = {} /\ binding[p] \subseteq grabs
      BY <1>2, <1>4, <2>3
    <3> QED
      BY <2>1, <3>1
  <2> QED
    BY <2>1, <2>2, <2>3
<1> QED
  BY <1>5, <1>6, <1>7, <1>8 DEF MKNext, MKStart, ChangeShortcut

(* What is read anew is grabbed but for what is bound twice.               *)
LEMMA RegisteredIsGrabbed ==
  ASSUME NEW held, NEW bound, NEW table, NEW p \in DOMAIN bound,
         bound[p] \cap BoundTwice(table, bound) = {}, bound[p] \cap taken = {}
  PROVE  bound[p] \subseteq RegisterKeys(held, bound)
<1>1. \A q \in DOMAIN bound \ {p} : bound[q] \cap bound[p] = {}
  BY MeetIsShared
<1>2. ~KeyAlreadyUsed(bound, p)
  BY <1>1 DEF KeyAlreadyUsed
<1> QED
  BY <1>2 DEF RegisterKeys, Grabbed

(* So do those of the custom bindings.                                     *)
LEMMA KBBound ==
  ASSUME TypeInv, BoundInv, KBNext, UNCHANGED <<taken, mkvars>>, shared \subseteq shared',
         BoundTwice(key', binding') \subseteq shared', KeysOf(binding') \cap taken \subseteq shared'
  PROVE  BoundIsGrabbed'
<1>1. key' = key /\ screens' = screens /\ DOMAIN key = Entry
  BY DEF mkvars, TypeInv, TypeOK
<1>2. /\ screens > 0 => \A e \in Entry : key[e] \cap shared = {} => key[e] \subseteq grabs
      /\ \A p \in DOMAIN binding : binding[p] \cap shared = {} => binding[p] \subseteq grabs
  BY BoundParts DEF BoundInv
<1>3. SUFFICES
        /\ screens > 0 => \A e \in Entry : key[e] \cap shared' = {} => key[e] \subseteq grabs'
        /\ \A p \in DOMAIN binding' : binding'[p] \cap shared' = {} => binding'[p] \subseteq grabs'
  BY <1>1, <1>3 DEF BoundIsGrabbed
<1>4. ASSUME NEW e \in Entry, key[e] \cap shared = {}
      PROVE  key[e] \cap KeysOf(binding) = {}
  <2>1. \A p \in DOMAIN binding : key[e] \cap binding[p] \subseteq shared
    BY <1>1, MeetIsShared DEF BoundInv, SharedInv
  <2> QED
    BY <1>4, <2>1 DEF KeysOf
<1>5. CASE KBStart \/ BindingsCallback
  <2> DEFINE held == IF KBStart THEN grabs ELSE UnregisterKeys(grabs, binding)
  <2>1. binding' = GetEntries(custom) /\ grabs' = RegisterKeys(held, binding')
    BY <1>5 DEF KBStart, BindingsCallback
  <2>2. grabs \ KeysOf(binding) \subseteq held
    BY UnregisteredIsUnlisted
  <2>3. held \subseteq grabs'
    BY <2>1 DEF RegisterKeys, Grabbed
  <2> HIDE DEF held
  <2>4. ASSUME NEW p \in DOMAIN binding', binding'[p] \cap shared' = {}
        PROVE  binding'[p] \subseteq grabs'
    <3>1. binding'[p] \cap BoundTwice(key', binding') = {}
      BY <2>4
    <3>2. binding'[p] \cap taken = {}
      BY <2>4 DEF KeysOf
    <3> QED
      BY <2>1, <3>1, <3>2, RegisteredIsGrabbed
  <2> QED
    BY <1>2, <1>4, <2>2, <2>3, <2>4
<1>6. CASE KBStop
  <2>1. grabs' = grabs \ KeysOf(binding) /\ binding' = Cleared
    BY <1>6, UnregisteredIsUnlisted DEF KBStop
  <2>2. DOMAIN binding' = {}
    BY <2>1 DEF Cleared
  <2> QED
    BY <1>2, <1>4, <2>1, <2>2
<1>7. CASE UNCHANGED <<grabs, binding>>
  BY <1>2, <1>7
<1> QED
  BY <1>5, <1>6, <1>7 DEF KBNext, ChangeBinding

(* A key that is bound is grabbed, unless it was bound twice at some time, *)
(* or had by another application while it was bound, or set while the      *)
(* plugin had no screen, for any keys, any number of entries, bindings and *)
(* starts, whatever others grab, and however late the queued starts run.   *)
THEOREM BoundIsGrabbedHolds == Spec => []BoundIsGrabbed
<1>1. Init => BoundInv
  <2> SUFFICES ASSUME Init PROVE BoundInv
    OBVIOUS
  <2>1. KeysOf(key) = {} /\ screens = 0 /\ binding = Cleared /\ DOMAIN binding = {}
    BY DEF Init, MKInit, KBInit, KeysOf, NoKey, Cleared
  <2> QED
    BY <2>1, NoneIsShared DEF BoundInv, SharedInv, BoundIsGrabbed
<1>2. TypeInv /\ BoundInv /\ [Next]_vars => BoundInv'
  <2> SUFFICES ASSUME TypeInv, BoundInv, [Next]_vars PROVE BoundInv'
    OBVIOUS
  <2>1. CASE UNCHANGED vars
    BY <2>1 DEF vars, mkvars, kbvars, BoundInv, SharedInv, BoundIsGrabbed, BoundTwice, KeysOf
  <2>2. CASE Next
    <3>1. /\ shared \subseteq shared' /\ BoundTwice(key', binding') \subseteq shared'
          /\ screens' = 0 => KeysOf(key') \subseteq shared'
          /\ KeysOf(key') \cap taken' \subseteq shared' /\ KeysOf(binding') \cap taken' \subseteq shared'
      BY <2>2 DEF Next
    <3>2. BoundIsGrabbed'
      <4>1. CASE MKNext /\ UNCHANGED <<taken, kbvars>>
        BY <3>1, <4>1, MKBound
      <4>2. CASE KBNext /\ UNCHANGED <<taken, mkvars>>
        BY <3>1, <4>2, KBBound
      <4>3. ASSUME NEW c \in Contested, OthersGrab(c) \/ OthersUngrab(c), UNCHANGED <<mkvars, kbvars>>
            PROVE  BoundIsGrabbed'
        <5>1. UNCHANGED <<grabs, screens, key, binding>>
          BY <4>3 DEF OthersGrab, OthersUngrab, mkvars, kbvars
        <5> QED
          BY <3>1, <5>1 DEF BoundInv, BoundIsGrabbed
      <4> QED
        BY <2>2, <4>1, <4>2, <4>3 DEF Next
    <3>3. SharedInv'
      BY <3>1 DEF SharedInv, BoundTwice, KeysOf
    <3> QED
      BY <3>2, <3>3 DEF BoundInv
  <2> QED
    BY <2>1, <2>2
<1>3. TypeInv /\ [Next]_vars => TypeInv'
  BY NextType
<1>4. BoundInv => BoundIsGrabbed
  BY DEF BoundInv
<1> QED
  BY InitType, <1>1, <1>2, <1>3, <1>4, PTL DEF Spec

-----------------------------------------------------------------------------
(* Of each plugin: that it has let go of what it took hold of when it is   *)
(* stopped, which is LetGo of its module, and what the properties of the   *)
(* desktop rest on besides.  The lemmas are about the steps of one plugin,  *)
(* whose variables are those that MCDesktop gives it.                      *)

(* No timer of a stopped typing-break plugin starts the monitor.           *)
LEMMA TypingBreakLetsGo == TB!LetGo /\ [TB!Next]_TB!vars => TB!LetGo'
BY DEF TB!LetGo, TB!Next, TB!vars, TB!Start, TB!ReallySetup, TB!ChangeEnabled, TB!EnabledCallback, TB!Enable,
       TB!Disable, TB!Timeout, TB!MonitorExits, TB!ChildWatch, TB!Stop

(* A stopped sound plugin is told nothing that would set its timer.        *)
LEMMA SoundLetsGo == SO!LetGo /\ [SO!Next]_SO!vars => SO!LetGo'
BY DEF SO!LetGo, SO!Next, SO!vars, SO!Start, SO!Play, SO!ChangeTheme, SO!Notified, SO!TriggerFlush, SO!FlushCb,
       SO!Stop

(* A stopped background plugin has no proxy that listens, whose signal     *)
(* would set the timer.                                                    *)
LEMMA BackgroundLetsGo == BG!LetGo /\ [BG!Next]_BG!vars => BG!LetGo'
BY DEF BG!LetGo, BG!Next, BG!vars, BG!Start, BG!Stop, BG!SessionRunning, BG!QueueSetupBackground, BG!Changing,
       BG!ChangeMay, BG!HandlingChanged, BG!LoadPreferences, BG!BgChanged, BG!BaulComesOrGoes, BG!ResizeScreen,
       BG!ScreenSizeChanged, BG!SetupBackground, BG!RemoveBackground

(* The other two have nothing but what the start makes and the stop        *)
(* releases.                                                               *)
LEMMA A11ySettingsLetsGo == AS!LetGo /\ [AS!Next]_AS!vars => AS!LetGo'
BY DEF AS!LetGo, AS!Next, AS!vars, AS!Start, AS!Overrule, AS!Stop, AS!ChangeApp, AS!AppsSettingsChanged

(* A stop destroys the widget that listens for the theme.                  *)
LEMMA XrdbLetsGo == XR!LetGo /\ [XR!Next]_XR!vars => XR!LetGo'
BY DEF XR!LetGo, XR!Next, XR!vars, XR!Start, XR!ChangeTheme, XR!ChangeFiles, XR!ThemeChanged, XR!Stop, XR!ChildWatch

(* A stopped housekeeping plugin is told nothing that would set its timer. *)
LEMMA HousekeepingLetsGo == HK!LetGo /\ [HK!Next]_HK!vars => HK!LetGo'
BY DEF HK!LetGo, HK!Next, HK!vars, HK!Start, HK!SettingsChanged, HK!DoCleanupOnce, HK!Daily, HK!Stop, HK!Changing,
       HK!ChangeLimit, HK!AddThumbnail

(* One handler of each kind is there for the one start that is not         *)
(* stopped, and a helper that runs was spawned.                            *)
LEMMA MouseLetsGo == M!LetGo /\ [M!Next]_M!vars => M!LetGo' /\ (late => late')
<1> SUFFICES ASSUME M!LetGo, [M!Next]_M!vars PROVE M!LetGo' /\ (late => late')
  OBVIOUS
<1> USE DEF M!LetGo
<1>1. CASE M!Start
  BY <1>1 DEF M!Start
<1>2. CASE M!IdleCb
  <2>1. late' = (late \/ ~on \/ x8)
    BY <1>2 DEF M!IdleCb
  <2>2. ~late' => ~late /\ on /\ ~x8
    BY <2>1, Zenon
  <2>3. late => late'
    BY <2>1, Zenon
  <2>4. M!SetHelpers({"syndaemon", "locate-pointer"}, x12 \ {"syndaemon"})
    BY <1>2, Zenon DEF M!IdleCb, M!Helper
  <2>5. ~late' => x11' \cap {"locate-pointer"} \subseteq x12'
    BY <2>2, <2>4 DEF M!SetHelpers
  <2> QED
    BY <1>2, <2>2, <2>3, <2>5 DEF M!IdleCb
<1>3. ASSUME NEW k, M!SettingsCallback(k) PROVE M!LetGo' /\ (late => late')
  BY <1>3 DEF M!SettingsCallback, M!SetHelpers
<1>4. CASE M!DevicePresence
  BY <1>4 DEF M!DevicePresence, M!SetHelpers
<1>5. CASE M!Stop
  BY <1>5 DEF M!Stop
<1>6. ASSUME NEW h, M!HelperExits(h) PROVE M!LetGo' /\ (late => late')
  BY <1>6 DEF M!HelperExits
<1>7. CASE UNCHANGED <<on, late, x8, x9, x10, x11, x12>>
  BY <1>7
<1>8. \A k, v : M!ChangeKey(k, v) => UNCHANGED <<on, late, x8, x9, x10, x11, x12>>
  BY DEF M!ChangeKey
<1>9. \A d : M!Plug(d) \/ M!Unplug(d) => UNCHANGED <<on, late, x8, x9, x10, x11, x12>>
  BY DEF M!Plug, M!Unplug
<1>10. UNCHANGED M!vars => UNCHANGED <<on, late, x8, x9, x10, x11, x12>>
  BY DEF M!vars
<1> QED
  BY <1>1, <1>2, <1>3, <1>4, <1>5, <1>6, <1>7, <1>8, <1>9, <1>10 DEF M!Next

(* So are those of the keyboard plugin, whose other steps touch none of    *)
(* them.                                                                   *)
LEMMA KeyboardLetsGo == KB!LetGo /\ [KB!Next]_KB!vars => KB!LetGo' /\ (late => late')
<1> SUFFICES ASSUME KB!LetGo, [KB!Next]_KB!vars PROVE KB!LetGo' /\ (late => late')
  OBVIOUS
<1> DEFINE Kept == UNCHANGED <<on, late, x3, x4, x9>>
<1>1. CASE KB!StartIdle
  <2>1. late' = (late \/ ~on \/ x3)
    BY <1>1 DEF KB!StartIdle
  <2>2. ~late' => ~late /\ on /\ ~x3
    BY <2>1, Zenon
  <2>3. late => late'
    BY <2>1, Zenon
  <2> QED
    BY <1>1, <2>2, <2>3 DEF KB!StartIdle, KB!LetGo
<1>2. CASE KB!Stop
  BY <1>2 DEF KB!Stop, KB!LetGo
<1>3. CASE KB!Start
  BY <1>3 DEF KB!Start, KB!LetGo
<1>4. CASE Kept
  BY <1>4 DEF KB!LetGo
<1>5. KB!ChangeSettings \/ KB!SettingsChanged \/ KB!DesktopChanged \/ KB!ToggleNumlock => Kept
  BY DEF KB!ChangeSettings, KB!SettingsChanged, KB!DesktopChanged, KB!ToggleNumlock
<1>6. KB!NumlockCallback \/ KB!Plug \/ KB!NewDevice \/ KB!DelayedShowTimeout \/ KB!MessageFilter => Kept
  BY DEF KB!NumlockCallback, KB!Plug, KB!NewDevice, KB!DelayedShowTimeout, KB!MessageFilter
<1>7. (\E i : KB!CloseDialog(i)) \/ KB!ShowLayout \/ KB!CloseLayout => Kept
  BY DEF KB!CloseDialog, KB!ShowLayout, KB!CloseLayout
<1>8. UNCHANGED KB!vars => Kept
  BY DEF KB!vars
<1> QED
  BY <1>1, <1>2, <1>3, <1>4, <1>5, <1>6, <1>7, <1>8 DEF KB!Next

(* A dialog that has to wait brings a timer and a message with it, and     *)
(* what uses up either shows all that wait.                                *)
LEMMA DialogsWait ==
  KB!DialogsAreCounted /\ KB!WaitingHasTimer /\ [KB!Next]_KB!vars
    => KB!DialogsAreCounted' /\ KB!WaitingHasTimer'
<1> SUFFICES ASSUME KB!DialogsAreCounted, KB!WaitingHasTimer, [KB!Next]_KB!vars
             PROVE  KB!DialogsAreCounted' /\ KB!WaitingHasTimer'
  OBVIOUS
<1> USE DEF KB!DialogsAreCounted, KB!WaitingHasTimer
<1>1. CASE KB!ShowDialog
  BY <1>1 DEF KB!ShowDialog
<1>2. CASE UNCHANGED KB!delayed
  BY <1>2 DEF KB!delayed
<1>3. \A s : KB!ApplyXkb(s) => KB!ShowDialog \/ UNCHANGED KB!delayed
  BY Zenon DEF KB!ApplyXkb
<1>4. KB!StartIdle \/ KB!SettingsChanged \/ KB!NewDevice => KB!ShowDialog \/ UNCHANGED KB!delayed
  BY <1>3, Zenon DEF KB!StartIdle, KB!SettingsChanged, KB!NewDevice, KB!Apply
<1>5. CASE KB!DelayedShowTimeout
  BY <1>5 DEF KB!DelayedShowTimeout
<1>6. CASE KB!MessageFilter
  BY <1>6 DEF KB!MessageFilter
<1>7. ASSUME NEW i \in DOMAIN x15, KB!CloseDialog(i)
      PROVE  KB!DialogsAreCounted' /\ KB!WaitingHasTimer'
  BY <1>7 DEF KB!CloseDialog
<1>8. KB!Start \/ KB!Stop \/ KB!ChangeSettings \/ KB!DesktopChanged \/ KB!ToggleNumlock \/ KB!NumlockCallback
        \/ KB!Plug \/ KB!ShowLayout \/ KB!CloseLayout \/ UNCHANGED KB!vars => UNCHANGED KB!delayed
  BY Zenon DEF KB!Start, KB!Stop, KB!ChangeSettings, KB!DesktopChanged, KB!ToggleNumlock, KB!NumlockCallback,
               KB!Plug, KB!ShowLayout, KB!CloseLayout, KB!vars
<1> QED
  BY <1>1, <1>2, <1>4, <1>5, <1>6, <1>7, <1>8 DEF KB!Next

(* Only a stop frees the registry and the table of the dialogs, and until  *)
(* the first one the settings are there once the start was run.            *)
LEMMA FreedOnlyByStop == KB!NothingIsFreed /\ [KB!Next]_KB!vars => KB!NothingIsFreed'
<1> SUFFICES ASSUME KB!NothingIsFreed, [KB!Next]_KB!vars PROVE KB!NothingIsFreed'
  OBVIOUS
<1> USE DEF KB!NothingIsFreed, KB!TableIsFreed
<1> DEFINE Kept == UNCHANGED <<on, begun, x3, x6, x7, x21>>
<1>1. CASE Kept
  BY <1>1
<1>2. CASE KB!Start
  BY <1>2 DEF KB!Start, KB!memory
<1>3. CASE KB!Stop
  BY <1>3 DEF KB!Stop
<1>4. ASSUME NEW s, KB!ApplyXkb(s)
      PROVE  /\ x6 # "freed" => x6' # "freed"
             /\ x6 # "freed" /\ ~x21 => ~x21'
  <2>1. CASE UNCHANGED <<x6, x21>>
    BY <2>1
  <2>2. ASSUME NEW left, KB!FilterXkbConfig(left)
        PROVE  /\ x6 # "freed" => x6' # "freed"
               /\ x6 # "freed" /\ ~x21 => ~x21'
    BY <2>2 DEF KB!FilterXkbConfig
  <2> QED
    BY <1>4, <2>1, <2>2, Zenon DEF KB!ApplyXkb
<1>5. CASE KB!StartIdle
  <2>1. KB!Apply(x2) /\ UNCHANGED <<on, begun>> /\ x3' /\ x7' = x7 + 1
    BY <1>5 DEF KB!StartIdle
  <2>2. PICK t : KB!ApplyXkb(t)
    BY <2>1, Zenon DEF KB!Apply
  <2> QED
    BY <1>4, <2>1, <2>2
<1>6. CASE KB!SettingsChanged \/ KB!NewDevice
  <2>1. UNCHANGED <<on, begun, x3, x7>>
    BY <1>6 DEF KB!SettingsChanged, KB!NewDevice
  <2>2. (\E t : KB!ApplyXkb(t)) \/ UNCHANGED <<x6, x21>>
    BY <1>6, Zenon DEF KB!SettingsChanged, KB!NewDevice, KB!Apply
  <2> QED
    BY <1>4, <2>1, <2>2
<1>7. CASE KB!ShowLayout \/ KB!CloseLayout
  <2>1. UNCHANGED <<on, begun, x3, x6, x7>> /\ x21' = (x21 \/ KB!TableIsFreed)
    BY <1>7 DEF KB!ShowLayout, KB!CloseLayout
  <2> QED
    BY <2>1
<1>8. KB!ChangeSettings \/ KB!DesktopChanged \/ KB!ToggleNumlock \/ KB!NumlockCallback \/ KB!Plug => Kept
  BY DEF KB!ChangeSettings, KB!DesktopChanged, KB!ToggleNumlock, KB!NumlockCallback, KB!Plug, KB!memory
<1>9. KB!DelayedShowTimeout \/ KB!MessageFilter \/ (\E i : KB!CloseDialog(i)) \/ UNCHANGED KB!vars => Kept
  BY DEF KB!DelayedShowTimeout, KB!MessageFilter, KB!CloseDialog, KB!vars, KB!memory
<1> QED
  BY <1>1, <1>2, <1>3, <1>5, <1>6, <1>7, <1>8, <1>9 DEF KB!Next

(* The filter of a11y-keyboard shows the icon and asks only with the       *)
(* settings, since it is told of events only with them.                    *)
LEMMA A11yKeyboardLetsGo == AK!LetGo /\ [AK!Next]_AK!vars => AK!LetGo' /\ (late => late')
<1> SUFFICES ASSUME AK!LetGo, [AK!Next]_AK!vars PROVE AK!LetGo' /\ (late => late')
  OBVIOUS
<1> USE DEF AK!LetGo, AK!SetServer, AK!MaybeShowStatusIcon, AK!questions
<1>1. CASE AK!Start
  BY <1>1 DEF AK!Start
<1>2. CASE AK!StartIdle
  <2>1. late' = (late \/ ~on \/ x4)
    BY <1>2 DEF AK!StartIdle
  <2>2. ~late' => ~late /\ on /\ ~x4
    BY <2>1, Zenon
  <2>3. late => late'
    BY <2>1, Zenon
  <2> QED
    BY <1>2, <2>2, <2>3 DEF AK!StartIdle
<1>3. CASE AK!Stop
  <2>1. late' = late /\ x4' = FALSE /\ x11' # "shown" /\ \A f \in AK!Shortcut : x12'[f] = "none"
    BY <1>3 DEF AK!Stop
  <2>2. ~late => x5' = 0 /\ x7' = 0
    BY <1>3 DEF AK!Stop
  <2>3. x8' => x7' > 0
    BY <1>3, Zenon DEF AK!Stop
  <2> QED
    BY <2>1, <2>2, <2>3
<1>4. CASE AK!KeyboardCallback
  BY <1>4 DEF AK!KeyboardCallback
<1>5. CASE AK!ServerChanges
  BY <1>5 DEF AK!ServerChanges
<1>6. CASE AK!DevicePresence
  BY <1>6 DEF AK!DevicePresence
<1>7. CASE AK!XkbEventFilter
  BY <1>7 DEF AK!XkbEventFilter
<1>8. ASSUME NEW f \in AK!Shortcut, NEW r \in BOOLEAN, AK!AlertResponse(f, r) PROVE AK!LetGo' /\ (late => late')
  BY <1>8 DEF AK!AlertResponse, AK!Respond, AK!Read
<1>9. ASSUME NEW n, NEW r \in BOOLEAN, AK!NoteAction(n, r) PROVE AK!LetGo' /\ (late => late')
  BY <1>9 DEF AK!NoteAction, AK!Respond, AK!Read
<1>10. CASE UNCHANGED <<on, late, x4, x5, x7, x8, x11, x12>>
  BY <1>10
<1>11. AK!ChangeSettings \/ AK!Plug => UNCHANGED <<on, late, x4, x5, x7, x8, x11, x12>>
  BY DEF AK!ChangeSettings, AK!Plug
<1>12. \A n : AK!NoteExpires(n) \/ AK!NotificationClosed(n) => UNCHANGED <<on, late, x4, x5, x7, x8, x11, x12>>
  BY DEF AK!NoteExpires, AK!NotificationClosed
<1>13. UNCHANGED AK!vars => UNCHANGED <<on, late, x4, x5, x7, x8, x11, x12>>
  BY DEF AK!vars
<1> QED
  BY <1>1, <1>2, <1>3, <1>4, <1>5, <1>6, <1>7, <1>8, <1>9, <1>10, <1>11, <1>12, <1>13 DEF AK!Next

(* Only the notification that is known is released, and then it is known   *)
(* no longer.                                                              *)
LEMMA NoteStays == AK!NoteIsThere /\ [AK!Next]_AK!vars => AK!NoteIsThere'
<1> SUFFICES ASSUME AK!NoteIsThere, [AK!Next]_AK!vars PROVE AK!NoteIsThere'
  OBVIOUS
<1> USE DEF AK!NoteIsThere, AK!questions
<1>1. CASE UNCHANGED <<x14, x16>>
  BY <1>1
<1>2. AK!Start \/ AK!StartIdle \/ AK!Stop \/ AK!ChangeSettings \/ AK!KeyboardCallback \/ AK!ServerChanges
        \/ AK!Plug \/ AK!DevicePresence \/ UNCHANGED AK!vars => UNCHANGED <<x14, x16>>
  BY DEF AK!Start, AK!StartIdle, AK!Stop, AK!ChangeSettings, AK!KeyboardCallback, AK!ServerChanges, AK!Plug,
         AK!DevicePresence, AK!vars
<1>3. ASSUME NEW f, NEW enabled, AK!Ask(f, enabled) PROVE AK!NoteIsThere'
  BY <1>3 DEF AK!Ask
<1>4. CASE AK!XkbEventFilter
  BY <1>3, <1>4 DEF AK!XkbEventFilter
<1>5. \A f, r, n : AK!AlertResponse(f, r) \/ AK!NoteAction(n, r) \/ AK!NoteExpires(n) => UNCHANGED <<x14, x16>>
  BY DEF AK!AlertResponse, AK!NoteAction, AK!NoteExpires
<1>6. ASSUME NEW n, AK!NotificationClosed(n) PROVE AK!NoteIsThere'
  BY <1>6 DEF AK!NotificationClosed
<1> QED
  BY <1>1, <1>2, <1>4, <1>5, <1>6 DEF AK!Next

(* The monitor of the fonts is set up only for managers that have none,    *)
(* and its timers are removed with it: they find the managers.             *)
LEMMA XSettingsLetsGo ==
  XS!LetGo /\ XS!FontsFindManagers /\ [XS!Next]_XS!vars => XS!LetGo' /\ XS!FontsFindManagers' /\ (late => late')
<1> SUFFICES ASSUME XS!LetGo, XS!FontsFindManagers, [XS!Next]_XS!vars
             PROVE  XS!LetGo' /\ XS!FontsFindManagers' /\ (late => late')
  OBVIOUS
<1> USE DEF XS!LetGo, XS!FontsFindManagers, XS!fontvars, XS!toggles
<1>1. CASE XS!Start
  BY <1>1 DEF XS!Start, XS!Notify
<1>2. CASE XS!StartFontconfigMonitor
  <2>1. late' = (late \/ ~x4 \/ x13)
    BY <1>2 DEF XS!StartFontconfigMonitor
  <2>2. ~late' => ~late /\ x4 /\ ~x13
    BY <2>1, Zenon
  <2>3. late => late'
    BY <2>1, Zenon
  <2> QED
    BY <1>2, <2>2, <2>3 DEF XS!StartFontconfigMonitor
<1>3. CASE XS!Stop
  BY <1>3 DEF XS!Stop
<1>4. CASE XS!ChangeSettings
  BY <1>4 DEF XS!ChangeSettings
<1>5. CASE XS!XSettingsCallback
  BY <1>5 DEF XS!XSettingsCallback
<1>6. CASE XS!XftCallback
  BY <1>6 DEF XS!XftCallback
<1>7. CASE XS!RecalculateScale
  BY <1>7 DEF XS!RecalculateScale
<1>8. CASE XS!FontsChange
  BY <1>8 DEF XS!FontsChange
<1>9. CASE XS!UpdateFonts
  BY <1>9 DEF XS!UpdateFonts
<1>10. CASE UNCHANGED <<on, late, x4, x6, x11, x12, x13, x14, x19>>
  BY <1>10
<1>11. XS!ChangeScreen \/ XS!ToggleBgDraw \/ XS!HideIcons \/ UNCHANGED XS!vars
         => UNCHANGED <<on, late, x4, x6, x11, x12, x13, x14, x19>>
  BY DEF XS!ChangeScreen, XS!ToggleBgDraw, XS!HideIcons, XS!vars
<1> QED
  BY <1>1, <1>2, <1>3, <1>4, <1>5, <1>6, <1>7, <1>8, <1>9, <1>10, <1>11 DEF XS!Next

(* A timer that hides the icons comes with one that shows them, and goes   *)
(* first.                                                                  *)
LEMMA TimersStayCounted == XS!TimersAreCounted /\ [XS!Next]_XS!vars => XS!TimersAreCounted'
<1> SUFFICES ASSUME XS!TimersAreCounted, [XS!Next]_XS!vars PROVE XS!TimersAreCounted'
  OBVIOUS
<1> USE DEF XS!TimersAreCounted, XS!toggles
<1>1. CASE XS!ScaleChangeWorkarounds
  BY <1>1 DEF XS!ScaleChangeWorkarounds
<1>2. CASE UNCHANGED XS!toggles
  BY <1>2
<1>3. XS!Start \/ XS!XftCallback \/ XS!RecalculateScale => XS!ScaleChangeWorkarounds \/ UNCHANGED XS!toggles
  BY Zenon DEF XS!Start, XS!XftCallback, XS!RecalculateScale
<1>4. CASE XS!ToggleBgDraw
  BY <1>4 DEF XS!ToggleBgDraw
<1>5. CASE XS!HideIcons
  BY <1>5 DEF XS!HideIcons
<1>6. XS!StartFontconfigMonitor \/ XS!Stop \/ XS!ChangeSettings \/ XS!XSettingsCallback \/ XS!ChangeScreen
        \/ XS!FontsChange \/ XS!UpdateFonts \/ UNCHANGED XS!vars => UNCHANGED XS!toggles
  BY Zenon DEF XS!StartFontconfigMonitor, XS!Stop, XS!ChangeSettings, XS!XSettingsCallback, XS!ChangeScreen,
               XS!FontsChange, XS!UpdateFonts, XS!vars
<1> QED
  BY <1>1, <1>2, <1>3, <1>4, <1>5, <1>6 DEF XS!Next

(* What differs from an earlier list has the serial of the publication.    *)
Renewed(list, new, now) ==
  DOMAIN new = XS!Name /\ \A m \in XS!Name : new[m] = list[m] \/ new[m].serial = now

(* What is set anew has the serial of the publication.                     *)
LEMMA SetIsNew ==
  ASSUME NEW list, DOMAIN list = XS!Name, NEW n \in XS!Name, NEW v, NEW now
  PROVE  /\ DOMAIN XS!SetSetting(list, n, v, now) = XS!Name
         /\ \A m \in XS!Name : \/ XS!SetSetting(list, n, v, now)[m] = list[m]
                              \/ XS!SetSetting(list, n, v, now)[m].serial = now
BY DEF XS!SetSetting

(* So has what is set after it,                                            *)
LEMMA RenewedAgain ==
  ASSUME NEW old, NEW list, NEW now, DOMAIN list = XS!Name, Renewed(old, list, now), NEW n \in XS!Name, NEW v
  PROVE  Renewed(old, XS!SetSetting(list, n, v, now), now)
BY SetIsNew DEF Renewed

(* and what is set of the resolution, the antialiasing and the cursor,     *)
LEMMA XftRenews ==
  ASSUME NEW old, NEW list, NEW now, Renewed(old, list, now)
  PROVE  Renewed(old, XS!SetXft(list, now), now)
<1> DEFINE x  == XS!XftSettings
           s1 == XS!SetSetting(list, "scale", x.scale, now)
           s2 == XS!SetSetting(s1, "unscaled", x.unscaled, now)
           s3 == XS!SetSetting(s2, "dpi", x.dpi, now)
           s4 == XS!SetSetting(s3, "rgba", x.rgba, now)
           s5 == XS!SetSetting(s4, "lcdfilter", x.lcdfilter, now)
<1>1. \A n \in {"scale", "unscaled", "dpi", "rgba", "lcdfilter", "cursor"} : n \in XS!Name
  BY DEF XS!Name
<1>2. Renewed(old, s1, now)
  BY <1>1, RenewedAgain DEF Renewed
<1>3. Renewed(old, s2, now)
  BY <1>1, <1>2, RenewedAgain DEF Renewed
<1>4. Renewed(old, s3, now)
  BY <1>1, <1>3, RenewedAgain DEF Renewed
<1>5. Renewed(old, s4, now)
  BY <1>1, <1>4, RenewedAgain DEF Renewed
<1>6. Renewed(old, s5, now)
  BY <1>1, <1>5, RenewedAgain DEF Renewed
<1>7. Renewed(old, XS!SetSetting(s5, "cursor", x.cursor, now), now)
  BY <1>1, <1>6, RenewedAgain DEF Renewed
<1> QED
  BY <1>7 DEF XS!SetXft

(* and what the start sets.                                                *)
LEMMA StartRenews == DOMAIN x9 = XS!Name => Renewed(x9, XS!Started, 0)
<1> SUFFICES ASSUME DOMAIN x9 = XS!Name PROVE Renewed(x9, XS!Started, 0)
  OBVIOUS
<1> DEFINE s1 == XS!SetSetting(x9, "theme", x1.theme, 0)
           s2 == XS!SetSetting(s1, "cursor", x1.size, 0)
<1>1. Renewed(x9, s1, 0)
  <2>1. Renewed(x9, x9, 0) /\ "theme" \in XS!Name
    BY DEF Renewed, XS!Name
  <2> QED
    BY <2>1, RenewedAgain
<1>2. Renewed(x9, s2, 0)
  <2>1. "cursor" \in XS!Name
    BY DEF XS!Name
  <2> QED
    BY <1>1, <2>1, RenewedAgain DEF Renewed
<1>3. Renewed(x9, XS!SetXft(s2, 0), 0)
  BY <1>2, XftRenews
<1> QED
  BY <1>3 DEF XS!Started

(* Every publication is one of the list with what is new in it, under the  *)
(* next serial.                                                            *)
LEMMA SerialsAreKept ==
  XS!LetGo /\ XS!ListIsPublished /\ [XS!Next]_XS!vars => XS!ListIsPublished' /\ XS!SerialTellsChange
<1> SUFFICES ASSUME XS!LetGo, XS!ListIsPublished, [XS!Next]_XS!vars
             PROVE  XS!ListIsPublished' /\ XS!SerialTellsChange
  OBVIOUS
<1>1. ASSUME NEW list, XS!Notify(list, x10), Renewed(x9, list, x10)
      PROVE  XS!ListIsPublished' /\ XS!SerialTellsChange
  BY <1>1 DEF XS!Notify, Renewed, XS!ListIsPublished, XS!SerialTellsChange
<1>2. CASE UNCHANGED <<x9, x10>> /\ x11' \in {x11, Lost}
  BY <1>2 DEF XS!ListIsPublished, XS!SerialTellsChange
<1>3. CASE XS!Start
  <2>1. CASE x3
    BY <1>2, <1>3, <2>1 DEF XS!Start
  <2>2. CASE ~x3
    <3>1. XS!Notify(XS!Started, 0) /\ x11 = Lost
      BY <1>3, <2>2 DEF XS!Start, XS!LetGo
    <3>2. Renewed(x9, XS!Started, 0)
      BY StartRenews DEF XS!ListIsPublished
    <3> QED
      BY <3>1, <3>2 DEF XS!Notify, Renewed, XS!ListIsPublished, XS!SerialTellsChange
  <2> QED
    BY <2>1, <2>2
<1>4. \A v : Renewed(x9, XS!SetSetting(x9, "theme", v, x10), x10)
               /\ Renewed(x9, XS!SetSetting(x9, "stamp", v, x10), x10)
  <2>1. Renewed(x9, x9, x10) /\ "theme" \in XS!Name /\ "stamp" \in XS!Name
    BY DEF Renewed, XS!Name, XS!ListIsPublished
  <2> QED
    BY <2>1, RenewedAgain DEF XS!ListIsPublished
<1>5. Renewed(x9, XS!SetXft(x9, x10), x10)
  <2>1. Renewed(x9, x9, x10)
    BY DEF Renewed, XS!ListIsPublished
  <2> QED
    BY <2>1, XftRenews
<1>6. CASE XS!XSettingsCallback
  BY <1>1, <1>4, <1>6 DEF XS!XSettingsCallback
<1>7. CASE XS!XftCallback
  BY <1>1, <1>5, <1>7 DEF XS!XftCallback
<1>8. CASE XS!RecalculateScale
  BY <1>1, <1>2, <1>5, <1>8 DEF XS!RecalculateScale
<1>9. CASE XS!UpdateFonts
  BY <1>1, <1>2, <1>4, <1>9 DEF XS!UpdateFonts
<1>10. CASE XS!Stop
  BY <1>2, <1>10 DEF XS!Stop
<1>11. XS!StartFontconfigMonitor \/ XS!ChangeSettings \/ XS!ChangeScreen \/ XS!FontsChange \/ XS!ToggleBgDraw
         \/ XS!HideIcons \/ UNCHANGED XS!vars => UNCHANGED <<x9, x10, x11>>
  BY DEF XS!StartFontconfigMonitor, XS!ChangeSettings, XS!ChangeScreen, XS!FontsChange, XS!ToggleBgDraw,
         XS!HideIcons, XS!vars
<1> QED
  BY <1>2, <1>3, <1>6, <1>7, <1>8, <1>9, <1>10, <1>11 DEF XS!Next

(* A stop stops the watcher that the plugin knows, of which alone the      *)
(* plugin was told to connect.                                             *)
LEMMA MprisLetsGo == MP!LetGo /\ [MP!Next]_MP!vars => MP!LetGo'
<1> SUFFICES ASSUME MP!LetGo, [MP!Next]_MP!vars PROVE MP!LetGo'
  OBVIOUS
<1> DEFINE Kept == UNCHANGED <<on, x5, x6, x7>>
<1>1. CASE MP!Start
  BY <1>1 DEF MP!Start, MP!LetGo
<1>2. CASE MP!Stop
  BY <1>2 DEF MP!Stop, MP!Unwatch, MP!LetGo
<1>3. ASSUME NEW i \in MP!Id, MP!GotBus(i) PROVE MP!LetGo'
  BY <1>3 DEF MP!GotBus, MP!LetGo
<1>4. CASE Kept
  BY <1>4 DEF MP!LetGo
<1>5. MP!NamesListed \/ MP!NameOwnerKnown => Kept
  BY DEF MP!NamesListed, MP!NameOwnerKnown
<1>6. \A ask : MP!BusAnswers(ask) => Kept
  BY DEF MP!BusAnswers
<1>7. \A n, lost, gained : MP!OwnerChanges(n, lost, gained) => Kept
  BY DEF MP!OwnerChanges
<1>8. UNCHANGED MP!vars => Kept
  BY DEF MP!vars, MP!watchvars
<1> QED
  BY <1>1, <1>2, <1>3, <1>4, <1>5, <1>6, <1>7, <1>8 DEF MP!Next

(* No proxy is being made of a stopped plugin but one that came late.      *)
LEMMA MediaPlayersLetGo == PL!LetGo /\ [PL!Next]_PL!vars => PL!LetGo' /\ (PL!CameLate => PL!CameLate')
<1> SUFFICES ASSUME PL!LetGo, [PL!Next]_PL!vars PROVE PL!LetGo' /\ (PL!CameLate => PL!CameLate')
  OBVIOUS
<1> USE DEF PL!LetGo, PL!CameLate
<1>1. CASE PL!Start
  BY <1>1 DEF PL!Start
<1>2. CASE PL!Stop
  BY <1>2 DEF PL!Stop, PL!Overtaken
<1>3. CASE PL!CsdNameAppeared
  BY <1>3 DEF PL!CsdNameAppeared
<1>4. CASE PL!CsdNameVanished
  BY <1>4 DEF PL!CsdNameVanished, PL!Overtaken
<1>5. CASE PL!GotProxy
  BY <1>5 DEF PL!GotProxy
<1>6. CASE UNCHANGED <<on, x5, x6, x7>> /\ x11 \subseteq x11'
  BY <1>6
<1>7. ASSUME NEW app, NEW current, PL!GrabMediaPlayerKeys(app, current) PROVE x11 \subseteq x11'
  BY <1>7 DEF PL!GrabMediaPlayerKeys
<1>8. (PL!Tick \/ PL!StartMediaKeys \/ PL!StopMediaKeys \/ PL!MprisGrabs)
         => UNCHANGED <<on, x5, x6, x7>> /\ x11 \subseteq x11'
  BY <1>7 DEF PL!Tick, PL!StartMediaKeys, PL!StopMediaKeys, PL!MprisGrabs
<1>9. \A app \in App : PL!Releases(app) \/ (\E current \in BOOLEAN : PL!Grabs(app, current))
         => UNCHANGED <<on, x5, x6, x7>> /\ x11 \subseteq x11'
  BY <1>7 DEF PL!Releases, PL!Grabs
<1>10. UNCHANGED PL!vars => UNCHANGED <<on, x5, x6, x7>> /\ x11 \subseteq x11'
  BY DEF PL!vars
<1> QED
  BY <1>1, <1>2, <1>3, <1>4, <1>5, <1>6, <1>8, <1>9, <1>10 DEF PL!Next

(* A stop ends the dialog and removes the timer, unless the check that had *)
(* the dialog sets it again and the monitor goes astray.                   *)
LEMMA DiskSpaceLetsGo == DS!LetGo /\ [DS!Next]_DS!vars => DS!LetGo' /\ (DS!Astray => DS!Astray')
<1> SUFFICES ASSUME DS!LetGo, [DS!Next]_DS!vars PROVE DS!LetGo' /\ (DS!Astray => DS!Astray')
  OBVIOUS
<1> USE DEF DS!LetGo, DS!Astray, DS!world, DS!parts
<1>1. CASE DS!Start
  BY <1>1 DEF DS!Start
<1>2. CASE DS!Tick
  BY <1>2 DEF DS!Tick
<1>3. CASE DS!MountsChanged
  BY <1>3 DEF DS!MountsChanged
<1>4. CASE DS!Dismiss
  BY <1>4 DEF DS!Dismiss
<1>5. CASE DS!Act
  BY <1>5 DEF DS!Act, DS!CheckIsOver
<1>6. CASE DS!UpdateConfig
  BY <1>6 DEF DS!UpdateConfig
<1>7. CASE DS!Clean
  BY <1>7 DEF DS!Clean
<1>8. ASSUME NEW v \in DS!Volume, DS!PeriodIsOver(v) PROVE DS!LetGo' /\ (DS!Astray => DS!Astray')
  BY <1>8 DEF DS!PeriodIsOver
<1>9. ASSUME NEW v \in DS!Volume, DS!Move(v) \/ DS!ChangeFree(v) \/ DS!ToggleIgnored(v)
      PROVE  DS!LetGo' /\ (DS!Astray => DS!Astray')
  BY <1>9 DEF DS!Move, DS!ChangeFree, DS!ToggleIgnored, DS!Changing
<1>10. CASE UNCHANGED DS!vars
  BY <1>10 DEF DS!vars
<1> QED
  BY <1>1, <1>2, <1>3, <1>4, <1>5, <1>6, <1>7, <1>8, <1>9, <1>10 DEF DS!Next

-----------------------------------------------------------------------------
(* What is known of the plugin that is picked: that it has let go of what  *)
(* it took hold of, and what its other properties rest on.                 *)
Kept ==
  /\ on \in BOOLEAN
  /\ plugin = "keys" => IInv
  /\ plugin = "typing-break" => TB!LetGo
  /\ plugin = "mouse" => M!LetGo
  /\ plugin = "a11y-keyboard" => AK!LetGo /\ AK!NoteIsThere
  /\ plugin = "keyboard" => KB!LetGo /\ KB!DialogsAreCounted /\ KB!WaitingHasTimer /\ KB!NothingIsFreed
  /\ plugin = "xsettings" => /\ XS!LetGo /\ XS!FontsFindManagers
                             /\ XS!TimersAreCounted /\ XS!ListIsPublished
  /\ plugin = "background" => BG!LetGo
  /\ plugin = "sound" => SO!LetGo
  /\ plugin = "a11y-settings" => AS!LetGo
  /\ plugin = "xrdb" => XR!LetGo
  /\ plugin = "mpris" => MP!LetGo
  /\ plugin = "players" => PL!LetGo
  /\ plugin = "housekeeping" => HK!LetGo
  /\ plugin = "disk-space" => DS!LetGo

(* Nothing is kept at first.                                               *)
LEMMA InitKept == SumInit => Kept
<1> SUFFICES ASSUME SumInit PROVE Kept
  OBVIOUS
<1>1. on = FALSE /\ IInv
  BY InitIInv DEF SumInit, Init, MKInit
<1>2. plugin = "typing-break" => TB!LetGo
  BY DEF SumInit, TB!Init, TB!LetGo
<1>3. plugin = "mouse" => M!LetGo
  BY DEF SumInit, M!Init, M!LetGo
<1>4. plugin = "a11y-keyboard" => AK!LetGo /\ AK!NoteIsThere
  BY DEF SumInit, AK!Init, AK!LetGo, AK!NoteIsThere
<1>5. plugin = "keyboard" => KB!LetGo /\ KB!DialogsAreCounted /\ KB!WaitingHasTimer /\ KB!NothingIsFreed
  <2>1. plugin = "keyboard" => KB!Init
    BY DEF SumInit
  <2> QED
    BY <2>1 DEF KB!Init, KB!LetGo, KB!DialogsAreCounted, KB!WaitingHasTimer, KB!NothingIsFreed, KB!TableIsFreed
<1>6. plugin = "xsettings" => XS!LetGo /\ XS!FontsFindManagers /\ XS!TimersAreCounted /\ XS!ListIsPublished
  <2>1. plugin = "xsettings" => XS!Init
    BY DEF SumInit
  <2> QED
    BY <2>1 DEF XS!Init, XS!LetGo, XS!FontsFindManagers, XS!TimersAreCounted, XS!ListIsPublished
<1>7. plugin = "background" => BG!LetGo
  BY DEF SumInit, BG!Init, BG!LetGo
<1>8. plugin = "sound" => SO!LetGo
  BY DEF SumInit, SO!Init, SO!LetGo
<1>9. plugin = "a11y-settings" => AS!LetGo
  BY DEF SumInit, AS!Init, AS!LetGo
<1>10. plugin = "xrdb" => XR!LetGo
  BY DEF SumInit, XR!Init, XR!LetGo
<1>11. plugin = "mpris" => MP!LetGo
  BY DEF SumInit, MP!Init, MP!LetGo
<1>12. plugin = "players" => PL!LetGo
  BY DEF SumInit, PL!Init, PL!LetGo
<1>13. plugin = "housekeeping" => HK!LetGo
  BY DEF SumInit, HK!Init, HK!LetGo
<1>14. plugin = "disk-space" => DS!LetGo
  BY DEF SumInit, DS!Init, DS!LetGo
<1> QED
  BY <1>1, <1>2, <1>3, <1>4, <1>5, <1>6, <1>7, <1>8, <1>9, <1>10, <1>11, <1>12, <1>13, <1>14 DEF Kept

(* The steps there are: those of the plugin that is picked.                *)
LEMMA Picked ==
  [SumNext]_<<plugin, size, vars, xs>>
    => /\ plugin' = plugin
       /\ plugin = "keys" => [Next]_vars
       /\ plugin = "typing-break" => [TB!Next]_TB!vars
       /\ plugin = "mouse" => [M!Next]_M!vars
       /\ plugin = "locate-pointer" => [LP!Next]_LP!vars
       /\ plugin = "a11y-keyboard" => [AK!Next]_AK!vars
       /\ plugin = "keyboard" => [KB!Next]_KB!vars
       /\ plugin = "xsettings" => [XS!Next]_XS!vars
       /\ plugin = "background" => [BG!Next]_BG!vars
       /\ plugin = "sound" => [SO!Next]_SO!vars
       /\ plugin = "a11y-settings" => [AS!Next]_AS!vars
       /\ plugin = "xrdb" => [XR!Next]_XR!vars
       /\ plugin = "datetime" => [DT!Next]_DT!vars
       /\ plugin = "mpris" => [MP!Next]_MP!vars
       /\ plugin = "players" => [PL!Next]_PL!vars
       /\ plugin = "housekeeping" => [HK!Next]_HK!vars
       /\ plugin = "disk-space" => [DS!Next]_DS!vars
       /\ plugin = "trash" => [TE!Next]_TE!vars
<1>1. CASE UNCHANGED <<plugin, size, vars, xs>>
  BY <1>1 DEF vars, mkvars, kbvars, xs, TB!vars, M!vars, LP!vars, AK!vars, AK!questions, KB!vars, KB!delayed, KB!memory,
     XS!vars, XS!toggles, XS!fontvars, BG!vars, SO!vars, AS!vars, XR!vars, DT!vars, DT!tzvars, DT!dtown,
     MP!vars, MP!watchvars, PL!vars, HK!vars, DS!vars, DS!world, DS!parts, DS!past, TE!vars, TE!thread, TE!trash,
     TE!shared
<1>2. CASE SumNext
  <2>1. plugin' = plugin
    BY <1>2 DEF SumNext, Frozen
  <2> QED
    BY <1>2, <2>1 DEF SumNext
<1> QED
  BY <1>1, <1>2

(* Only starts and stops change whether the plugin is activated.           *)
LEMMA OnIsSet == on \in BOOLEAN /\ [SumNext]_<<plugin, size, vars, xs>> => on' \in BOOLEAN
<1> DEFINE Set == on' \in {on, TRUE, FALSE}
<1>1. Next => Set
  BY DEF Next, MKNext, KBNext, mkvars, MKStart, MKStartIdle, MKStop, ChangeShortcut, UpdateKbd
<1>2. TB!Next => Set
  BY DEF TB!Next, TB!Start, TB!ReallySetup, TB!ChangeEnabled, TB!EnabledCallback, TB!Timeout, TB!MonitorExits,
     TB!ChildWatch, TB!Stop
<1>3. M!Next => Set
  BY DEF M!Next, M!Start, M!IdleCb, M!DevicePresence, M!Stop, M!SettingsCallback, M!ChangeKey, M!Plug, M!Unplug,
     M!HelperExits
<1>4. AK!Next => Set
  BY DEF AK!Next, AK!Start, AK!StartIdle, AK!Stop, AK!ChangeSettings, AK!KeyboardCallback, AK!ServerChanges,
     AK!XkbEventFilter, AK!Plug, AK!DevicePresence, AK!AlertResponse, AK!NoteExpires, AK!NotificationClosed,
     AK!NoteAction
<1>5. KB!Next => Set
  BY DEF KB!Next, KB!Start, KB!StartIdle, KB!Stop, KB!ChangeSettings, KB!SettingsChanged, KB!DesktopChanged,
     KB!ToggleNumlock, KB!NumlockCallback, KB!Plug, KB!NewDevice, KB!DelayedShowTimeout, KB!MessageFilter,
     KB!CloseDialog, KB!ShowLayout, KB!CloseLayout
<1>6. XS!Next => Set
  BY DEF XS!Next, XS!Start, XS!StartFontconfigMonitor, XS!Stop, XS!ChangeSettings, XS!XSettingsCallback,
     XS!XftCallback, XS!ChangeScreen, XS!RecalculateScale, XS!FontsChange, XS!UpdateFonts, XS!ToggleBgDraw,
     XS!HideIcons
<1>7. BG!Next => Set
  BY DEF BG!Next, BG!Start, BG!Stop, BG!SessionRunning, BG!QueueSetupBackground, BG!ChangeMay, BG!HandlingChanged,
     BG!LoadPreferences, BG!BgChanged, BG!BaulComesOrGoes, BG!ResizeScreen, BG!ScreenSizeChanged
<1>8. SO!Next => Set
  BY DEF SO!Next, SO!Start, SO!FlushCb, SO!Stop, SO!Play, SO!ChangeTheme, SO!Notified
<1>9. AS!Next => Set
  BY DEF AS!Next, AS!Start, AS!Overrule, AS!Stop, AS!ChangeApp, AS!AppsSettingsChanged
<1>10. XR!Next => Set
  BY DEF XR!Next, XR!Start, XR!ChangeTheme, XR!ChangeFiles, XR!ThemeChanged, XR!Stop, XR!ChildWatch
<1>11. MP!Next => Set
  BY DEF MP!Next, MP!Start, MP!Stop, MP!NamesListed, MP!NameOwnerKnown, MP!GotBus, MP!BusAnswers, MP!OwnerChanges
<1>12. PL!Next => Set
  BY DEF PL!Next, PL!Tick, PL!StartMediaKeys, PL!StopMediaKeys, PL!Start, PL!Stop, PL!CsdNameAppeared,
     PL!CsdNameVanished, PL!GotProxy, PL!MprisGrabs, PL!Releases, PL!Grabs
<1>13. HK!Next => Set
  BY DEF HK!Next, HK!Start, HK!SettingsChanged, HK!DoCleanupOnce, HK!Daily, HK!Stop, HK!ChangeLimit, HK!AddThumbnail
<1>14. DS!Next => Set
  BY DEF DS!Next, DS!Start, DS!Tick, DS!MountsChanged, DS!Dismiss, DS!Act, DS!UpdateConfig, DS!Clean,
     DS!PeriodIsOver, DS!Changing, DS!Move, DS!ChangeFree, DS!ToggleIgnored
<1>15. plugin \in {"locate-pointer", "datetime", "trash"} /\ Frozen => Set
  BY DEF Frozen
<1>16. SumNext => Set
  BY <1>1, <1>2, <1>3, <1>4, <1>5, <1>6, <1>7, <1>8, <1>9, <1>10, <1>11, <1>12, <1>13, <1>14, <1>15 DEF SumNext
<1>17. UNCHANGED <<plugin, size, vars, xs>> => Set
  BY DEF vars, mkvars
<1> QED
  BY <1>16, <1>17

(* Every step keeps it: that of the plugin that is picked.                 *)
LEMMA StepKept == Kept /\ [SumNext]_<<plugin, size, vars, xs>> => Kept'
<1> SUFFICES ASSUME Kept, [SumNext]_<<plugin, size, vars, xs>> PROVE Kept'
  OBVIOUS
<1>1. on' \in BOOLEAN
  BY OnIsSet DEF Kept
<1>2. plugin' = plugin
  BY Picked
<1> USE <1>1, <1>2, Picked DEF Kept
<1>3. CASE plugin = "keys"
  BY <1>3, NextIInv
<1>4. CASE plugin = "typing-break"
  BY <1>4, TypingBreakLetsGo
<1>5. CASE plugin = "mouse"
  BY <1>5, MouseLetsGo
<1>6. CASE plugin = "a11y-keyboard"
  BY <1>6, A11yKeyboardLetsGo, NoteStays
<1>7. CASE plugin = "keyboard"
  BY <1>7, KeyboardLetsGo, DialogsWait, FreedOnlyByStop
<1>8. CASE plugin = "xsettings"
  BY <1>8, XSettingsLetsGo, TimersStayCounted, SerialsAreKept
<1>9. CASE plugin = "background"
  BY <1>9, BackgroundLetsGo
<1>10. CASE plugin = "sound"
  BY <1>10, SoundLetsGo
<1>11. CASE plugin = "a11y-settings"
  BY <1>11, A11ySettingsLetsGo
<1>12. CASE plugin = "xrdb"
  BY <1>12, XrdbLetsGo
<1>13. CASE plugin = "mpris"
  BY <1>13, MprisLetsGo
<1>14. CASE plugin = "players"
  BY <1>14, MediaPlayersLetGo
<1>15. CASE plugin = "housekeeping"
  BY <1>15, HousekeepingLetsGo
<1>16. CASE plugin = "disk-space"
  BY <1>16, DiskSpaceLetsGo
<1>17. CASE plugin \notin {"keys", "typing-break", "mouse", "a11y-keyboard", "keyboard", "xsettings", "background",
                           "sound", "a11y-settings", "xrdb", "mpris", "players", "housekeeping", "disk-space"}
  BY <1>17
<1> QED
  BY <1>3, <1>4, <1>5, <1>6, <1>7, <1>8, <1>9, <1>10, <1>11, <1>12, <1>13, <1>14, <1>15, <1>16, <1>17

(* So it always holds.                                                     *)
LEMMA KeptAlways == SumSpec => []Kept
BY InitKept, StepKept, PTL DEF SumSpec

-----------------------------------------------------------------------------
(* What a plugin that is not activated owes the daemon.                    *)
Serves == on \in BOOLEAN /\ (~on /\ ~Late => Held = {})

(* Who has let go holds nothing.                                           *)
LEMMA KeptServes == Kept => Serves
<1> SUFFICES ASSUME Kept, ~on, ~Late PROVE Held = {}
  BY DEF Kept, Serves
<1>1. ~late /\ (plugin = "players" => "late" \notin x11) /\ (plugin = "disk-space" => ~x18)
  BY DEF Late, PL!CameLate, DS!Astray
<1> USE <1>1 DEF Kept, Held
<1>2. CASE plugin = "keys"
  BY <1>2 DEF IInv, Orderly
<1>3. CASE plugin = "typing-break"
  BY <1>3 DEF TB!LetGo, TB!Held
<1>4. CASE plugin = "mouse"
  BY <1>4 DEF M!LetGo, M!Held
<1>5. CASE plugin = "a11y-keyboard"
  BY <1>5 DEF AK!LetGo, AK!Held
<1>6. CASE plugin = "keyboard"
  BY <1>6 DEF KB!LetGo, KB!Held
<1>7. CASE plugin = "xsettings"
  BY <1>7 DEF XS!LetGo, XS!Held
<1>8. CASE plugin = "background"
  BY <1>8 DEF BG!LetGo, BG!Held
<1>9. CASE plugin = "sound"
  BY <1>9 DEF SO!LetGo, SO!Held
<1>10. CASE plugin = "a11y-settings"
  BY <1>10 DEF AS!LetGo, AS!Held
<1>11. CASE plugin = "xrdb"
  BY <1>11 DEF XR!LetGo, XR!Held
<1>12. CASE plugin = "mpris"
  BY <1>12 DEF MP!LetGo, MP!Held
<1>13. CASE plugin = "players"
  BY <1>13 DEF PL!LetGo, PL!Held
<1>14. CASE plugin = "housekeeping"
  BY <1>14 DEF HK!LetGo, HK!Held
<1>15. CASE plugin = "disk-space"
  BY <1>15 DEF DS!LetGo, DS!Held
<1>16. CASE plugin \notin {"keys", "typing-break", "mouse", "a11y-keyboard", "keyboard", "xsettings", "background",
                           "sound", "a11y-settings", "xrdb", "mpris", "players", "housekeeping", "disk-space"}
  BY <1>16
<1> QED
  BY <1>2, <1>3, <1>4, <1>5, <1>6, <1>7, <1>8, <1>9, <1>10, <1>11, <1>12, <1>13, <1>14, <1>15, <1>16

(* That a start came late is not forgotten.                                *)
LEMMA LateStays == Kept /\ [SumNext]_<<plugin, size, vars, xs>> => (Late => Late')
<1> SUFFICES ASSUME Kept, [SumNext]_<<plugin, size, vars, xs>>, Late PROVE Late'
  OBVIOUS
<1>1. plugin' = plugin
  BY Picked
<1>2. late => late'
  <2>1. Next => (late => late')
    BY DEF Next, MKNext, KBNext, mkvars, MKStart, MKStartIdle, MKStop, ChangeShortcut, UpdateKbd
  <2>2. CASE plugin \in {"keys", "mouse", "a11y-keyboard", "keyboard", "xsettings"}
    BY <2>1, <2>2, Picked, MouseLetsGo, A11yKeyboardLetsGo, KeyboardLetsGo, XSettingsLetsGo DEF Kept, vars, mkvars
  <2>3. CASE plugin \notin {"keys", "mouse", "a11y-keyboard", "keyboard", "xsettings"}
    BY <2>3 DEF SumNext, Frozen, vars, mkvars
  <2> QED
    BY <2>2, <2>3
<1>3. plugin = "players" /\ PL!CameLate => PL!CameLate'
  BY Picked, MediaPlayersLetGo DEF Kept
<1>4. plugin = "disk-space" /\ DS!Astray => DS!Astray'
  BY Picked, DiskSpaceLetsGo DEF Kept
<1> QED
  BY <1>1, <1>2, <1>3, <1>4 DEF Late

(* Every step is a step of the promise, or a stutter.                      *)
LEMMA StepIsService ==
  Kept /\ Serves /\ Serves' /\ [SumNext]_<<plugin, size, vars, xs>> => [S!Next]_S!vars
<1> SUFFICES ASSUME Serves, Serves', Late => Late' PROVE S!Next
  BY LateStays
<1>1. CASE ~on /\ on'
  BY <1>1 DEF S!Next, S!Activate
<1>2. CASE on /\ ~on'
  BY <1>2 DEF Serves, S!Next, S!Deactivate
<1>3. CASE on' = on
  BY <1>3 DEF Serves, S!Next, S!Work
<1> QED
  BY <1>1, <1>2, <1>3 DEF Serves

(* Every plugin keeps what it promises the daemon (the start and stop      *)
(* functions of each), however often it is started and stopped and         *)
(* whatever else happens: a stop lets go of settings, handlers, filters,   *)
(* timers, children, proxies, dialogs and grabs, and nothing that is left  *)
(* to happen after it takes hold of anything, until a start comes late.    *)
THEOREM EveryPluginServes == SumSpec => ServicePromise
<1>1. SumInit => S!Init
  <2> SUFFICES ASSUME SumInit PROVE S!Init
    OBVIOUS
  <2>1. on = FALSE /\ late = FALSE
    BY DEF SumInit, Init, MKInit
  <2>2. ~Late
    BY <2>1 DEF SumInit, Late, PL!Init, PL!CameLate, DS!Init, DS!Astray
  <2>3. Held = {}
    BY <2>1, <2>2, InitKept, KeptServes DEF Serves
  <2>4. Late = FALSE
    BY <2>2 DEF Late
  <2> QED
    BY <2>1, <2>3, <2>4 DEF S!Init
<1> QED
  BY <1>1, KeptAlways, KeptServes, StepIsService, PTL DEF SumSpec, S!Spec, ServicePromise

(* No callback finds what it uses to be gone, for any number of starts and *)
(* changes: the handlers of the mouse plugin run with their settings and   *)
(* those of fontconfig with their managers (unless a start came late), the *)
(* timer and the filter that show a dialog of the keyboard plugin are      *)
(* there while it waits, the notification that a11y-keyboard knows was not *)
(* released, and the icons of the desktop come back.  The registry of the  *)
(* keyboard plugin and its table of dialogs are there when they are used   *)
(* before the plugin is stopped for the first time; a stop frees both and  *)
(* leaves the pointers, and nothing is proved of what follows them.        *)
THEOREM NothingDanglesAlways == SumSpec => []NothingDangles
<1>1. Kept => NothingDangles
  <2> SUFFICES ASSUME Kept PROVE NothingDangles
    OBVIOUS
  <2>1. plugin = "mouse" => M!HandlersHaveSettings
    BY DEF Kept, M!LetGo, M!HandlersHaveSettings
  <2>2. plugin = "xsettings" => XS!IconsComeBack
    BY DEF Kept, XS!TimersAreCounted, XS!IconsComeBack
  <2>3. plugin = "keyboard" => KB!FreedByStop
    BY DEF Kept, KB!NothingIsFreed, KB!FreedByStop
  <2> QED
    BY <2>1, <2>2, <2>3 DEF Kept, NothingDangles
<1> QED
  BY <1>1, KeptAlways, PTL

(* The serials of the published XSETTINGS tell what changed                *)
(* (xsettings_manager_set_setting, xsettings_manager_notify), whatever     *)
(* settings, screens and fonts change in whatever order.                   *)
THEOREM SerialsTellChangesAlways == SumSpec => SerialsTellChanges
<1>1. Kept /\ [SumNext]_<<plugin, size, vars, xs>> => [plugin = "xsettings" => XS!SerialTellsChange]_<<x10, x11>>
  BY Picked, SerialsAreKept DEF Kept
<1> QED
  BY <1>1, KeptAlways, PTL DEF SumSpec, SerialsTellChanges

-----------------------------------------------------------------------------
(* The typing monitor, of whose timers the known one is the only one until *)
(* something parted it from the setting.                                   *)
MonitorInv ==
  plugin = "typing-break" => TB!Flags /\ TB!LetGo /\ TB!OneKiller /\ TB!ChildIsWanted

(* At first nothing runs.                                                  *)
LEMMA InitMonitorInv == SumInit => MonitorInv
<1> SUFFICES ASSUME SumInit, plugin = "typing-break"
             PROVE  TB!Flags /\ TB!LetGo /\ TB!OneKiller /\ TB!ChildIsWanted
  BY DEF MonitorInv
<1>1. TB!Init
  BY DEF SumInit
<1>2. TB!Flags
  BY <1>1 DEF TB!Init, TB!Flags
<1>3. TB!LetGo /\ TB!OneKiller /\ TB!ChildIsWanted
  BY <1>1 DEF TB!Init, TB!LetGo, TB!OneKiller, TB!ChildIsWanted
<1> QED
  BY <1>2, <1>3

(* The flags stay flags.                                                   *)
LEMMA FlagsStep == TB!Flags /\ [TB!Next]_TB!vars => TB!Flags'
BY DEF TB!Flags, TB!Next, TB!vars, TB!Start, TB!ReallySetup, TB!ChangeEnabled, TB!EnabledCallback, TB!Enable,
       TB!Disable, TB!Timeout, TB!MonitorExits, TB!ChildWatch, TB!Stop

(* Each step keeps it: the timer that is removed is the known one, and the *)
(* child that is started is started for the setting.                       *)
LEMMA MonitorStep ==
  ASSUME TB!Flags, TB!LetGo, TB!OneKiller, TB!ChildIsWanted, [TB!Next]_TB!vars
  PROVE  TB!Flags' /\ TB!LetGo' /\ TB!OneKiller' /\ TB!ChildIsWanted'
<1>0. TB!Flags'
  BY FlagsStep
<1> USE <1>0 DEF TB!Flags, TB!LetGo, TB!OneKiller, TB!ChildIsWanted
<1>1. CASE TB!Start
  BY <1>1 DEF TB!Start
<1>2. CASE TB!ReallySetup
  BY <1>2 DEF TB!ReallySetup, TB!Enable
<1>3. CASE TB!ChangeEnabled
  BY <1>3 DEF TB!ChangeEnabled
<1>4. CASE TB!EnabledCallback
  <2>1. CASE x1
    <3>1. TB!Enable(FALSE) /\ UNCHANGED <<on, x1, x3>> /\ on /\ x2' = FALSE
      BY <1>4, <2>1 DEF TB!EnabledCallback
    <3> QED
      BY <2>1, <3>1 DEF TB!Enable
  <2>2. CASE ~x1
    BY <1>4, <2>2 DEF TB!EnabledCallback, TB!Disable
  <2> QED
    BY <2>1, <2>2
<1>5. CASE TB!Timeout
  BY <1>5 DEF TB!Timeout
<1>6. CASE TB!MonitorExits
  BY <1>6 DEF TB!MonitorExits
<1>7. CASE TB!ChildWatch
  BY <1>7 DEF TB!ChildWatch
<1>8. CASE TB!Stop
  BY <1>8 DEF TB!Stop
<1>9. CASE UNCHANGED TB!vars
  BY <1>9 DEF TB!vars
<1> QED
  BY <1>1, <1>2, <1>3, <1>4, <1>5, <1>6, <1>7, <1>8, <1>9 DEF TB!Next

(* Once all is quiet the monitor runs exactly if it is enabled             *)
(* (typing_break_enabled_callback, typing_break_timeout, child_watch),     *)
(* unless one of what MonitorFollowsSetting excepts has happened.          *)
THEOREM MonitorFollowsSettingAlways == SumSpec => [](plugin = "typing-break" => TB!MonitorFollowsSetting)
<1>1. MonitorInv /\ [SumNext]_<<plugin, size, vars, xs>> => MonitorInv'
  BY Picked, MonitorStep DEF MonitorInv
<1>2. MonitorInv => (plugin = "typing-break" => TB!MonitorFollowsSetting)
  BY DEF MonitorInv, TB!Flags, TB!OneKiller, TB!ChildIsWanted, TB!MonitorFollowsSetting
<1> QED
  BY <1>1, <1>2, InitMonitorInv, PTL DEF SumSpec

-----------------------------------------------------------------------------
(* The parts of the housekeeping plugin keep house.                        *)

(* What the thread that empties the trash adds to its queue, and what the  *)
(* main loop takes from it.                                                *)
LEMMA DoneComesLast == Append(<<"update">>, "done") = <<"update", "done">>
<1> DEFINE Word == {"update", "done"}
           s == Append(<<"update">>, "done")
           t == <<"update", "done">>
<1>1. <<"update">> \in Seq(Word) /\ Len(<<"update">>) = 1 /\ "done" \in Word
  OBVIOUS
<1>2. s \in Seq(Word) /\ Len(s) = 2 /\ s[1] = "update" /\ s[2] = "done"
  BY <1>1, AppendProperties
<1>3. t \in Seq(Word) /\ Len(t) = 2 /\ t[1] = "update" /\ t[2] = "done"
  OBVIOUS
<1>4. \A i \in 1..Len(s) : s[i] = t[i]
  BY <1>2, <1>3
<1> HIDE DEF s, t, Word
<1>5. s = t
  BY <1>2, <1>3, <1>4, SeqEqual
<1> QED
  BY <1>5 DEF s, t

(* What the queue of the trash ever holds, told apart.                     *)
LEMMA Queues ==
  /\ Append(<<>>, "update") = <<"update">>
  /\ Append(<<>>, "done") = <<"done">>
  /\ Append(<<"update">>, "done") = <<"update", "done">>
  /\ Head(<<"update">>) = "update" /\ Tail(<<"update">>) = <<>>
  /\ Head(<<"done">>) = "done" /\ Tail(<<"done">>) = <<>>
  /\ Head(<<"update", "done">>) = "update" /\ Tail(<<"update", "done">>) = <<"done">>
  /\ <<>> # <<"update">> /\ <<>> # <<"done">> /\ <<>> # <<"update", "done">>
  /\ <<"update">> # <<"done">> /\ <<"update">> # <<"update", "done">> /\ <<"done">> # <<"update", "done">>
BY DoneComesLast

(* The thread and the main loop of the trash.                              *)
TrashInv ==
  TE!Types /\ TE!OneReport /\ TE!DialogIsThere /\ TE!UpdatesFindFiles

(* No thread runs and nothing is shown at first.                           *)
LEMMA InitTrashInv == TE!Init => TrashInv
<1> SUFFICES ASSUME TE!Init PROVE TrashInv
  OBVIOUS
<1>1. TE!Types
  BY DEF TE!Init, TE!Types
<1>2. TE!OneReport
  BY Queues DEF TE!Init, TE!OneReport, TE!Updating, TE!Queued, TE!Shown
<1>3. TE!DialogIsThere /\ TE!UpdatesFindFiles
  BY DEF TE!Init, TE!DialogIsThere, TE!UpdatesFindFiles
<1> QED
  BY <1>1, <1>2, <1>3 DEF TrashInv

(* The thread fills in a report only while nobody has one, and hands it    *)
(* over once it is complete.                                               *)
LEMMA ThreadStep == TrashInv /\ TE!Thread => TrashInv'
<1> SUFFICES ASSUME TrashInv, TE!Thread PROVE TrashInv'
  OBVIOUS
<1> USE Queues DEF TrashInv, TE!Types, TE!OneReport, TE!DialogIsThere, TE!UpdatesFindFiles, TE!Updating, TE!Queued,
        TE!Shown, TE!trash, TE!shared, TE!thread
<1>1. CASE TE!NextFile
  BY <1>1 DEF TE!NextFile
<1>2. CASE TE!Fill
  BY <1>2 DEF TE!Fill
<1>3. CASE TE!Raise
  BY <1>3 DEF TE!Raise
<1>4. CASE TE!Send
  BY <1>4 DEF TE!Send
<1>5. CASE TE!Remove
  BY <1>5 DEF TE!Remove
<1>6. CASE TE!EndPass
  BY <1>6 DEF TE!EndPass
<1> QED
  BY <1>1, <1>2, <1>3, <1>4, <1>5, <1>6 DEF TE!Thread

(* The main loop takes the file first and the flag last, so that the       *)
(* thread fills in no other before it is through.                          *)
LEMMA LoopStep ==
  TrashInv /\ (TE!ShowUpdate \/ TE!ClearFile \/ TE!ClearPending \/ TE!Done) => TrashInv'
<1> SUFFICES ASSUME TrashInv, TE!ShowUpdate \/ TE!ClearFile \/ TE!ClearPending \/ TE!Done PROVE TrashInv'
  OBVIOUS
<1> USE Queues DEF TrashInv, TE!Types, TE!OneReport, TE!DialogIsThere, TE!UpdatesFindFiles, TE!Updating, TE!Queued,
        TE!Shown, TE!trash, TE!shared, TE!thread
<1>1. CASE TE!ShowUpdate
  BY <1>1 DEF TE!ShowUpdate
<1>2. CASE TE!ClearFile
  BY <1>2 DEF TE!ClearFile
<1>3. CASE TE!ClearPending
  BY <1>3 DEF TE!ClearPending
<1>4. CASE TE!Done
  BY <1>4 DEF TE!Done
<1> QED
  BY <1>1, <1>2, <1>3, <1>4

(* A thread is started only when there is no dialog, hence none before it. *)
LEMMA UserStep ==
  ASSUME TrashInv,
         \/ TE!TrashEmpty \/ TE!AddFile \/ TE!ChangeConfirm
         \/ \E yes \in BOOLEAN : TE!ConfirmationResponse(yes) \/ TE!Cancel(yes)
  PROVE  TrashInv'
<1> USE Queues DEF TrashInv, TE!Types, TE!OneReport, TE!DialogIsThere, TE!UpdatesFindFiles, TE!Updating, TE!Queued,
        TE!Shown, TE!trash, TE!shared, TE!thread
<1>1. CASE TE!TrashEmpty
  BY <1>1 DEF TE!TrashEmpty, TE!Begin
<1>2. CASE TE!AddFile
  BY <1>2 DEF TE!AddFile
<1>3. CASE TE!ChangeConfirm
  BY <1>3 DEF TE!ChangeConfirm
<1>4. ASSUME NEW yes \in BOOLEAN, TE!ConfirmationResponse(yes) PROVE TrashInv'
  BY <1>4 DEF TE!ConfirmationResponse, TE!Begin
<1>5. ASSUME NEW closes \in BOOLEAN, TE!Cancel(closes) PROVE TrashInv'
  BY <1>5 DEF TE!Cancel
<1> QED
  BY <1>1, <1>2, <1>3, <1>4, <1>5

(* The thread and the main loop never meet over the file that is reported  *)
(* (trash_empty_maybe_schedule_update, trash_empty_update_dialog): the     *)
(* flag that no lock protects is enough, and neither's assertion fails.    *)
LEMMA TrashStep == TrashInv /\ [TE!Next]_TE!vars => TrashInv'
<1>1. TrashInv /\ UNCHANGED TE!vars => TrashInv'
  BY DEF TE!vars, TrashInv, TE!Types, TE!OneReport, TE!DialogIsThere, TE!UpdatesFindFiles, TE!Updating, TE!Queued,
        TE!Shown, TE!trash, TE!shared, TE!thread
<1> QED
  BY <1>1, ThreadStep, LoopStep, UserStep DEF TE!Next

(* A file is said to be deleted only of those that were counted.           *)
LEMMA CountStep ==
  TrashInv /\ TE!AllAreCounted /\ [TE!Next]_TE!vars => TE!AllAreCounted'
<1> SUFFICES ASSUME TrashInv, TE!AllAreCounted, [TE!Next]_TE!vars PROVE TE!AllAreCounted'
  OBVIOUS
<1> USE DEF TE!AllAreCounted
<1>0. TE!Types /\ TE!OneReport /\ TE!DialogIsThere
  BY DEF TrashInv
<1>1. CASE UNCHANGED <<x5, x6, x7, x8, x9, x10, x12, x13, x14, x17>>
  BY <1>1
<1>2. CASE TE!NextFile
  BY <1>0, <1>2 DEF TE!NextFile, TE!trash, TE!shared, TE!Types
<1>3. CASE TE!Fill
  BY <1>0, <1>3 DEF TE!Fill, TE!trash, TE!DialogIsThere
<1>4. CASE TE!Raise
  BY <1>0, <1>4 DEF TE!Raise, TE!trash
<1>5. CASE TE!Send
  BY <1>0, <1>5 DEF TE!Send, TE!trash, TE!shared
<1>6. CASE TE!Remove
  <2>1. /\ x6 = "remove" /\ x6' = "next" /\ x10' = x10 + 1 /\ UNCHANGED <<x5, x7, x9, x12, x13, x14, x17>>
        /\ (x5 = "delete" /\ x8 > 0 /\ x8' = x8 - 1) \/ x8' = x8
    BY <1>6 DEF TE!Remove, TE!shared
  <2>2. x8' \in Nat
    BY <2>1
  <2> QED
    BY <2>1, <2>2
<1>7. CASE TE!EndPass
  <2>1. CASE x5 = "count"
    <3>1. /\ x6 = "next" /\ (x9 = 0 \/ x7) /\ x5' = "delete" /\ x14' = x10 /\ x10' = 0 /\ x9' = x8
          /\ UNCHANGED <<x6, x7, x8, x12, x13, x17>>
      BY <1>7, <2>1 DEF TE!EndPass, TE!trash
    <3> QED
      BY <2>1, <3>1
  <2>2. CASE x5 # "count"
    <3>1. x5' = "off" /\ UNCHANGED <<x6, x7, x8, x9, x10, x12, x13, x14, x17>>
      BY <1>7, <2>2 DEF TE!EndPass, TE!trash
    <3> QED
      BY <2>2, <3>1
  <2> QED
    BY <2>1, <2>2
<1>8. CASE TE!ClearFile
  BY <1>8 DEF TE!ClearFile, TE!thread, TE!trash
<1>9. CASE /\ TE!Begin /\ x3 = "none" /\ UNCHANGED <<x8, x12, x13, x14, x17>>
  <2>1. x5' = "count" /\ x6' = "next" /\ x9' = x8 /\ x10' = 0 /\ x7' = FALSE
    BY <1>9 DEF TE!Begin
  <2>2. x6 = "next" /\ x15 = <<>> /\ x16 = "off"
    BY <1>0, <1>9 DEF TE!DialogIsThere
  <2>3. ~x12
    BY <1>0, <2>2 DEF TE!OneReport, TE!Queued
  <2> QED
    BY <1>9, <2>1, <2>3
<1>10. CASE TE!TrashEmpty
  BY <1>1, <1>9, <1>10 DEF TE!TrashEmpty, TE!thread, TE!trash, TE!shared
<1>11. ASSUME NEW yes \in BOOLEAN, TE!ConfirmationResponse(yes) PROVE TE!AllAreCounted'
  <2>1. x3 = "none"
    BY <1>0, <1>11 DEF TE!ConfirmationResponse, TE!DialogIsThere
  <2> QED
    BY <1>1, <1>9, <1>11, <2>1 DEF TE!ConfirmationResponse, TE!thread, TE!trash, TE!shared
<1>12. ASSUME NEW closes \in BOOLEAN, TE!Cancel(closes) PROVE TE!AllAreCounted'
  BY <1>12 DEF TE!Cancel, TE!thread, TE!trash, TE!shared
<1>13. CASE TE!AddFile
  BY <1>13 DEF TE!AddFile, TE!thread, TE!shared
<1>14. TE!ShowUpdate \/ TE!ClearPending \/ TE!Done \/ TE!ChangeConfirm \/ UNCHANGED TE!vars
         => UNCHANGED <<x5, x6, x7, x8, x9, x10, x12, x13, x14, x17>>
  BY DEF TE!ShowUpdate, TE!ClearPending, TE!Done, TE!ChangeConfirm, TE!vars, TE!thread, TE!trash, TE!shared
<1> QED
  BY <1>1, <1>2, <1>3, <1>4, <1>5, <1>6, <1>7, <1>8, <1>10, <1>11, <1>12, <1>13, <1>14 DEF TE!Next, TE!Thread

(* What the property says of the trash.                                    *)
LEMMA TrashIsEmptied ==
  TrashInv /\ TE!AllAreCounted => TE!UpdatesFindFiles /\ TE!FractionIsDefined
<1> SUFFICES ASSUME TrashInv, TE!AllAreCounted PROVE TE!UpdatesFindFiles /\ TE!FractionIsDefined
  OBVIOUS
<1>1. x16 = "shown" => x12 /\ x6 # "fill"
  BY DEF TrashInv, TE!OneReport, TE!Shown, TE!Updating
<1> QED
  BY <1>1 DEF TrashInv, TE!AllAreCounted, TE!FractionIsDefined

-----------------------------------------------------------------------------
(* A size that an int can tell is the limit in bytes.                      *)
LEMMA LimitIsSize ==
  ASSUME x2 \in Int, -Half <= x2, x2 < Half
  PROVE  HK!Limit = x2
<1>1. x2 + Half \in 0..(2 * Half - 1) /\ 2 * Half \in Nat
  BY HalfAssumption
<1>2. \A m \in Nat : \A k \in 0..(m - 1) : k % m = k
  OBVIOUS
<1>3. (x2 + Half) % (2 * Half) = x2 + Half
  BY <1>1, <1>2
<1> QED
  BY <1>3, HalfAssumption DEF HK!Limit

(* The thumbnails, their limits and the timers.                            *)
HouseInv ==
  /\ on \in BOOLEAN
  /\ x1 \in {-1, 0, 1} /\ x2 \in {-1, 0, 2, Half, 2 * Half} /\ x3 \subseteq Thumbnails
  /\ HK!LetGo /\ HK!RunsDaily
  /\ HK!LimitsAreApplied /\ HK!CleanupIsExact /\ HK!ZeroIsApplied

(* What a cleanup leaves is what the limits that are set then allow.       *)
LEMMA CleanupLeaves ==
  ASSUME HouseInv, HK!DoCleanup
  PROVE  /\ x8' = <<x1, x2>> /\ x9' = FALSE /\ x3' \subseteq x3
         /\ HK!CleanupIsExact'
<1>1. PICK some \in SUBSET HK!Fresh : HK!MayLeave(some) /\ x3' = some
  BY DEF HK!DoCleanup
<1>2. x8' = <<x1, x2>> /\ x9' = FALSE /\ x10' = x3
  BY DEF HK!DoCleanup
<1>3. \A t \in x3 : t.age \in Int
  BY DEF HouseInv, Thumbnails
<1> DEFINE old == {t \in x3 : x1 >= 0 /\ t.age > x1}
<1>4. HK!Fresh = x3 \ old
  BY <1>3 DEF HK!Fresh, HouseInv
<1>5. some \subseteq x3 \ old
  BY <1>1, <1>4
<1>6. x2 \in Int /\ Half \in Int /\ (x2 < Half => HK!Limit = x2)
  BY HalfAssumption, LimitIsSize DEF HouseInv
<1>7. x2 \in 0..(Half - 1) /\ x1 >= 0 => HK!Bytes(some) <= x2
  <2> SUFFICES ASSUME x2 \in 0..(Half - 1), x1 >= 0 PROVE HK!Bytes(some) <= x2
    OBVIOUS
  <2>1. HK!Limit = x2 /\ x2 >= 0
    BY <1>6
  <2>2. HK!TotalSize = HK!Bytes(HK!Fresh)
    BY DEF HK!TotalSize
  <2>3. CASE ~(HK!TotalSize <= HK!Limit)
    BY <1>1, <2>1, <2>3 DEF HK!MayLeave
  <2>4. CASE HK!TotalSize <= HK!Limit
    BY <1>1, <2>1, <2>2, <2>4 DEF HK!MayLeave
  <2> QED
    BY <2>3, <2>4
<1>8. x2 < 0 \/ x1 < 0 \/ (x2 < Half /\ HK!Bytes(x3 \ old) <= x2) => some = x3 \ old
  <2>1. CASE HK!Limit < 0 \/ HK!TotalSize <= HK!Limit
    BY <1>1, <1>4, <2>1, Zenon DEF HK!MayLeave
  <2>2. CASE x2 < 0
    BY <1>6, <2>1, <2>2, HalfAssumption
  <2>3. CASE x1 < 0
    <3>1. HK!TotalSize = 0
      BY <2>3 DEF HK!TotalSize, HouseInv
    <3>2. HK!Limit \in Int
      BY HalfAssumption DEF HK!Limit, HouseInv
    <3> QED
      BY <2>1, <3>1, <3>2
  <2>4. CASE x1 >= 0 /\ x2 < Half /\ HK!Bytes(x3 \ old) <= x2
    <3>1. HK!TotalSize = HK!Bytes(x3 \ old)
      BY <1>4, <2>4 DEF HK!TotalSize
    <3> QED
      BY <1>6, <2>1, <2>4, <3>1
  <2> QED
    BY <2>2, <2>3, <2>4 DEF HouseInv
<1>9. \A t \in some, u \in (x3 \ old) \ some : t.age <= u.age
  <2> SUFFICES ASSUME NEW t \in some, NEW u \in (x3 \ old) \ some PROVE t.age <= u.age
    OBVIOUS
  <2>1. some # HK!Fresh
    BY <1>4
  <2>2. PICK last \in HK!Fresh \ some :
          (\A r \in some : r.age <= last.age) /\ (\A r \in HK!Fresh \ some : r.age >= last.age)
    BY <1>1, <2>1 DEF HK!MayLeave
  <2>3. t.age \in Int /\ u.age \in Int /\ last.age \in Int
    BY <1>3, <1>4, <1>5
  <2> QED
    BY <1>4, <2>2, <2>3
<1> HIDE DEF old
<1>10. HK!CleanupIsExact'
  <2>1. x8'[1] = x1 /\ x8'[2] = x2
    BY <1>2
  <2>2. {t \in x10' : x8'[1] >= 0 /\ t.age > x8'[1]} = old
    BY <1>2, <2>1 DEF old
  <2>3. x3' \subseteq x10' \ old
    BY <1>1, <1>2, <1>5
  <2> QED
    BY <1>1, <1>2, <1>7, <1>8, <1>9, <2>1, <2>2, <2>3 DEF HK!CleanupIsExact
<1> QED
  BY <1>1, <1>2, <1>5, <1>10

(* Nothing was cleaned up at first, and no timer is set.                   *)
LEMMA InitHouseInv == HK!Init => HouseInv
BY DEF HK!Init, HouseInv, HK!LetGo, HK!RunsDaily, HK!LimitsAreApplied, HK!CleanupIsExact, HK!ZeroIsApplied

(* Each step keeps it: a change of the limits is signalled while the       *)
(* plugin has its settings, and the signal sets the timer.                 *)
LEMMA HouseStep == HouseInv /\ [HK!Next]_HK!vars => HouseInv'
<1> SUFFICES ASSUME HouseInv, [HK!Next]_HK!vars PROVE HouseInv'
  OBVIOUS
<1> DEFINE Others == on \in BOOLEAN /\ x1 \in {-1, 0, 1} /\ x2 \in {-1, 0, 2, Half, 2 * Half}
                     /\ x3 \subseteq Thumbnails
                     /\ HK!LetGo /\ HK!RunsDaily /\ HK!LimitsAreApplied /\ HK!ZeroIsApplied
<1> USE DEF HK!LetGo, HK!RunsDaily, HK!LimitsAreApplied, HK!ZeroIsApplied
<1>0. Others
  BY DEF HouseInv
<1>1. ASSUME HK!Nothing PROVE HK!CleanupIsExact'
  BY <1>1 DEF HK!Nothing, HK!CleanupIsExact, HouseInv
<1>2. CASE HK!Start
  <2>1. Others'
    BY <1>0, <1>2 DEF HK!Start, HK!Nothing
  <2> QED
    BY <1>1, <1>2, <2>1 DEF HK!Start, HouseInv
<1>3. CASE HK!SettingsChanged
  <2>1. Others'
    BY <1>0, <1>3 DEF HK!SettingsChanged, HK!Nothing
  <2> QED
    BY <1>1, <1>3, <2>1 DEF HK!SettingsChanged, HouseInv
<1>4. CASE HK!DoCleanupOnce
  <2>1. Others'
    BY <1>0, <1>4, CleanupLeaves DEF HK!DoCleanupOnce
  <2> QED
    BY <1>4, <2>1, CleanupLeaves DEF HK!DoCleanupOnce, HouseInv
<1>5. CASE HK!Daily
  <2>1. Others'
    BY <1>0, <1>5, CleanupLeaves DEF HK!Daily
  <2> QED
    BY <1>5, <2>1, CleanupLeaves DEF HK!Daily, HouseInv
<1>6. CASE HK!Stop
  <2>1. CASE x7 /\ (x1 = 0 \/ x2 = 0) /\ HK!DoCleanup
    <3>1. Others'
      BY <1>0, <1>6, <2>1, CleanupLeaves DEF HK!Stop
    <3> QED
      BY <2>1, <3>1, CleanupLeaves DEF HouseInv
  <2>2. CASE ~(x7 /\ (x1 = 0 \/ x2 = 0)) /\ HK!Nothing
    <3>1. Others'
      BY <1>0, <1>6, <2>2 DEF HK!Stop, HK!Nothing
    <3> QED
      BY <1>1, <2>2, <3>1 DEF HouseInv
  <2> QED
    BY <1>6, <2>1, <2>2 DEF HK!Stop
<1>7. CASE HK!ChangeLimit
  <2>1. Others'
    BY <1>0, <1>7 DEF HK!ChangeLimit, HK!Changing
  <2>2. HK!CleanupIsExact'
    BY <1>7 DEF HK!ChangeLimit, HK!CleanupIsExact, HouseInv
  <2> QED
    BY <2>1, <2>2 DEF HouseInv
<1>8. ASSUME NEW t \in Thumbnails, HK!AddThumbnail(t) PROVE HouseInv'
  <2>1. Others'
    BY <1>0, <1>8 DEF HK!AddThumbnail, HK!Changing
  <2>2. HK!CleanupIsExact'
    BY <1>8 DEF HK!AddThumbnail, HK!CleanupIsExact
  <2> QED
    BY <2>1, <2>2 DEF HouseInv
<1>9. CASE UNCHANGED HK!vars
  <2>1. Others' /\ HK!CleanupIsExact'
    BY <1>0, <1>9 DEF HK!vars, HK!CleanupIsExact, HouseInv
  <2> QED
    BY <2>1 DEF HouseInv
<1> QED
  BY <1>2, <1>3, <1>4, <1>5, <1>6, <1>7, <1>8, <1>9 DEF HK!Next

-----------------------------------------------------------------------------
(* An entry of a volume that is full.                                      *)
FullEntry == [free : 0..1, due : BOOLEAN]

(* Of a list, by place: the volumes to warn of, and those up to the first  *)
(* of them.                                                                *)
Shows(list, entries) ==
  {i \in DOMAIN list : entries[list[i].of].free > list[i].free /\ entries[list[i].of].due}
Made(list, entries) == {i \in DOMAIN list : \A j \in Shows(list, entries) : i <= j}

(* The loop of a check up to the first warning: it adds an entry for that  *)
(* one only, drops none, and up to it every volume has one.                *)
LEMMA WarnNotes ==
  ASSUME NEW list, NEW entries \in [DS!Volume -> FullEntry \cup {DS!None}], NEW busy, NEW by, NEW current,
         \A i \in DOMAIN list : list[i] \in [of : DS!Volume, free : 0..1],
         DS!MaybeWarn(list, entries, busy, by, current)
  PROVE  /\ x7' \in [DS!Volume -> FullEntry \cup {DS!None}]
         /\ \A v \in DS!Volume : entries[v] # DS!None => x7'[v] # DS!None
         /\ \A v \in DS!Volume : entries[v] = DS!None /\ x7'[v] # DS!None =>
              x6 /\ \E i \in Made(list, entries) \cap Shows(list, entries) : list[i].of = v
         /\ x6 => \A i \in Made(list, entries) : x7'[list[i].of] # DS!None
<1> DEFINE made == Made(list, entries)
           Dropped(i) == entries[list[i].of].free > list[i].free
           Chosen(v) == CHOOSE i \in made : list[i].of = v
           Noted(i) == [free |-> list[i].free,
                        due |-> entries[list[i].of].due /\ i \notin Shows(list, entries)]
           Dropping(v) == \E i \in made : x6 /\ list[i].of = v /\ Dropped(i)
<1>1. x7' = [v \in DS!Volume |-> IF Dropping(v) THEN Noted(Chosen(v)) ELSE entries[v]]
  BY DEF DS!MaybeWarn, Made, Shows
<1>2. \A v \in DS!Volume : Dropping(v) => Chosen(v) \in made /\ list[Chosen(v)].of = v
  OBVIOUS
<1>3. made \subseteq DOMAIN list
  BY DEF Made
<1>4. \A v \in DS!Volume : Dropping(v) => Noted(Chosen(v)) \in FullEntry /\ Noted(Chosen(v)) # DS!None
  <2> SUFFICES ASSUME NEW v \in DS!Volume, Dropping(v)
               PROVE  Noted(Chosen(v)) \in FullEntry /\ Noted(Chosen(v)) # DS!None
    OBVIOUS
  <2>1. Chosen(v) \in DOMAIN list
    BY <1>2, <1>3
  <2> HIDE DEF Chosen, Dropping
  <2>2. list[Chosen(v)].free \in 0..1
    BY <2>1
  <2>3. Noted(Chosen(v)).free \in 0..1 /\ Noted(Chosen(v)) \in FullEntry
    BY <2>2 DEF FullEntry
  <2>4. DS!None.free = 2
    BY DEF DS!None, DS!Enough
  <2> QED
    BY <2>3, <2>4
<1> HIDE DEF Noted, Chosen
<1>5. x7' \in [DS!Volume -> FullEntry \cup {DS!None}]
  BY <1>1, <1>4
<1>6. \A v \in DS!Volume : entries[v] # DS!None => x7'[v] # DS!None
  BY <1>1, <1>4
<1>7. \A v \in DS!Volume : entries[v] = DS!None /\ x7'[v] # DS!None =>
        x6 /\ \E i \in made \cap Shows(list, entries) : list[i].of = v
  <2> SUFFICES ASSUME NEW v \in DS!Volume, entries[v] = DS!None, x7'[v] # DS!None
               PROVE  x6 /\ \E i \in made \cap Shows(list, entries) : list[i].of = v
    OBVIOUS
  <2>1. PICK i \in made : x6 /\ list[i].of = v /\ Dropped(i)
    BY <1>1
  <2>2. i \in Shows(list, entries)
    BY <1>3, <2>1 DEF Shows, DS!None
  <2> QED
    BY <2>1, <2>2
<1>8. ASSUME x6, NEW i \in made PROVE x7'[list[i].of] # DS!None
  <2>1. list[i].of \in DS!Volume /\ list[i].free \in 0..1
    BY <1>3
  <2>2. CASE Dropped(i)
    BY <1>1, <1>4, <1>8, <2>1, <2>2
  <2>3. CASE ~Dropped(i)
    <3>1. entries[list[i].of] # DS!None
      BY <2>1, <2>3 DEF DS!None, DS!Enough
    <3> QED
      BY <1>6, <2>1, <3>1
  <2> QED
    BY <2>2, <2>3
<1> QED
  BY <1>5, <1>6, <1>7, <1>8

(* What the monitor keeps with every step.                                 *)
DiskTypes ==
  /\ x1 \subseteq DS!Volume
  /\ on \in BOOLEAN /\ x5 \in BOOLEAN /\ x6 \in BOOLEAN /\ x8 \in BOOLEAN /\ x14 \in BOOLEAN /\ x18 \in BOOLEAN

DiskInv ==
  /\ DiskTypes
  /\ DS!LetGo /\ DS!MonitorIsWhole
  /\ DS!EntriesAreOfFull /\ DS!TableHasEntries /\ DS!KnownAreTold
  /\ DS!WarningHasTimer
  /\ DS!EntriesAreLookedAt /\ DS!RestIsFull /\ DS!CheckGoesThrough

(* What any check leaves, whatever entries it drops before its loop.       *)
LEMMA Warned ==
  ASSUME NEW list, NEW entries \in [DS!Volume -> FullEntry \cup {DS!None}], NEW busy, NEW by, NEW current,
         \A i \in DOMAIN list : list[i] \in [of : DS!Volume, free : 0..1],
         \A v \in DS!Volume : entries[v] \in {x7[v], DS!None},
         DiskInv, DS!MaybeWarn(list, entries, busy, by, current), UNCHANGED <<x2, x6, x8>>
  PROVE  /\ DS!EntriesAreOfFull' /\ DS!TableHasEntries' /\ DS!KnownAreTold'
         /\ x14' \in BOOLEAN
         /\ \A v \in DS!Recorded' \ x17' :
              \/ v \in DS!Recorded \ x17 /\ entries[v] # DS!None
              \/ current /\ \E i \in DOMAIN list : list[i].of = v
<1> DEFINE made == Made(list, entries)
           shows == Shows(list, entries)
           kept == {v \in DS!Volume : entries[v] # DS!None}
           new == {list[i].of : i \in made \cap shows}
<1>1. /\ x15' = (IF busy THEN (x15 \cap kept) \ new ELSE (x15 \cap kept) \cup new)
      /\ x16' = (IF busy THEN (x16 \cap kept) \cup new ELSE (x16 \cap kept) \ new)
      /\ x17' = (x17 \cap kept) \cup (IF current THEN {} ELSE {list[i].of : i \in made})
      /\ x14' = (x6 /\ shows = {} /\ current)
      /\ x12' = (IF busy THEN x12
                 ELSE IF shows = {} THEN NoWarning
                 ELSE [rest |-> [i \in DOMAIN list \ made |-> list[i]], by |-> by, current |-> current])
  BY Zenon DEF DS!MaybeWarn, Made, Shows
<1>2. /\ x7' \in [DS!Volume -> FullEntry \cup {DS!None}]
      /\ \A v \in DS!Volume : entries[v] # DS!None => x7'[v] # DS!None
      /\ \A v \in DS!Volume : entries[v] = DS!None /\ x7'[v] # DS!None => x6 /\ v \in new
  BY WarnNotes
<1>3. made \subseteq DOMAIN list
  BY DEF Made
<1>4. DS!Recorded' = {v \in DS!Volume : x7'[v] # DS!None} /\ DS!Recorded = {v \in DS!Volume : x7[v] # DS!None}
  BY DEF DS!Recorded, DS!Volume, DS!None, DS!Enough
<1> HIDE DEF made, shows
<1>5. DS!EntriesAreOfFull'
  <2>1. x2' \in [DS!Volume -> 0..DS!Enough]
    BY DEF DiskInv, DS!EntriesAreOfFull
  <2>2. CASE x12' = x12
    BY <1>2, <2>1, <2>2 DEF DiskInv, DS!EntriesAreOfFull, FullEntry, DS!Enough, DS!Volume, DS!None
  <2>3. CASE x12' = NoWarning
    BY <1>2, <2>1, <2>3 DEF DS!EntriesAreOfFull, FullEntry, DS!Enough, DS!Volume, DS!None
  <2>4. CASE x12' = [rest |-> [i \in DOMAIN list \ made |-> list[i]], by |-> by, current |-> current]
    <3>1. \A i \in DOMAIN x12'.rest : x12'.rest[i] \in [of : DS!Volume, free : 0..1]
      BY <2>4
    <3>2. x12' = [rest |-> x12'.rest, by |-> x12'.by, current |-> x12'.current]
      BY <2>4
    <3> QED
      BY <1>2, <2>1, <3>1, <3>2 DEF DS!EntriesAreOfFull, FullEntry, DS!Enough, DS!Volume, DS!None
  <2> QED
    BY <1>1, <2>2, <2>3, <2>4
<1>6. DS!TableHasEntries'
  <2>1. ASSUME ~x6 PROVE DS!Recorded' = {} /\ ~x14'
    <3>1. \A v \in DS!Volume : entries[v] = DS!None
      BY <1>4, <2>1 DEF DiskInv, DS!TableHasEntries
    <3> QED
      BY <1>1, <1>2, <1>4, <2>1, <3>1
  <2> QED
    BY <2>1 DEF DiskInv, DS!TableHasEntries
<1>7. DS!KnownAreTold'
  <2> SUFFICES ASSUME NEW v \in DS!Recorded' PROVE v \in x15' \cup x16'
    BY DEF DS!KnownAreTold
  <2>1. CASE entries[v] = DS!None
    <3>1. v \in new
      BY <1>2, <1>4, <2>1
    <3> QED
      BY <1>1, <3>1
  <2>2. CASE entries[v] # DS!None
    <3>1. v \in kept /\ v \in x15 \cup x16
      BY <1>4, <2>2 DEF DiskInv, DS!KnownAreTold
    <3> HIDE DEF kept, new
    <3> QED
      BY <1>1, <3>1
  <2> QED
    BY <2>1, <2>2
<1>8. ASSUME NEW v \in DS!Recorded', v \notin x17'
      PROVE  \/ v \in DS!Recorded \ x17 /\ entries[v] # DS!None
             \/ current /\ \E i \in DOMAIN list : list[i].of = v
  <2>1. CASE entries[v] # DS!None
    BY <1>1, <1>4, <1>8, <2>1
  <2>2. CASE entries[v] = DS!None
    <3>1. PICK i \in made \cap shows : list[i].of = v
      BY <1>2, <1>4, <2>2
    <3> QED
      BY <1>1, <1>3, <1>8, <3>1
  <2> QED
    BY <2>1, <2>2
<1> QED
  BY <1>1, <1>5, <1>6, <1>7, <1>8 DEF DiskInv, DiskTypes

(* The list of a check: each volume that is full, with what is free on it. *)
LEMMA ListIsFull ==
  ASSUME DS!EntriesAreOfFull
  PROVE  /\ \A i \in DOMAIN DS!FullList :
              /\ DS!FullList[i] \in [of : DS!Volume, free : 0..1]
              /\ DS!FullList[i].of \in DS!Full /\ DS!FullList[i].free = x2[DS!FullList[i].of]
         /\ \A v \in DS!Full : v \in DS!Volume => \E i \in DOMAIN DS!FullList : DS!FullList[i].of = v
<1> DEFINE fstab == <<"root", "home">>
           places == {j \in DOMAIN fstab : fstab[j] \in DS!Full}
<1>1. DS!FullList = [i \in places |-> [of |-> fstab[i], free |-> x2[fstab[i]]]]
  BY DEF DS!FullList
<1>2. DS!Volume = {fstab[i] : i \in DOMAIN fstab}
  BY DEF DS!Volume
<1>3. \A v \in DS!Full : x2[v] < 2
  BY DEF DS!Full, DS!Enough
<1>4. \A v \in DS!Volume : x2[v] \in 0..2
  BY DEF DS!EntriesAreOfFull, DS!Enough
<1> HIDE DEF fstab
<1>5. ASSUME NEW i \in places
      PROVE  /\ DS!FullList[i] = [of |-> fstab[i], free |-> x2[fstab[i]]]
             /\ fstab[i] \in DS!Volume /\ fstab[i] \in DS!Full /\ x2[fstab[i]] \in 0..1
  BY <1>1, <1>2, <1>3, <1>4
<1>6. DOMAIN DS!FullList = places
  BY <1>1
<1>7. ASSUME NEW v \in DS!Full, v \in DS!Volume PROVE \E i \in DOMAIN DS!FullList : DS!FullList[i].of = v
  BY <1>2, <1>5, <1>6, <1>7
<1> HIDE DEF places
<1> QED
  BY <1>5, <1>6, <1>7

(* A check from the start: by the timer, which drops the entries of those  *)
(* that have space again, and by "mounts-changed", which drops those of    *)
(* the unmounted as well.                                                  *)
LEMMA CheckKeeps ==
  ASSUME NEW entries \in [DS!Volume -> FullEntry \cup {DS!None}], NEW by,
         \A v \in DS!Volume : entries[v] \in {x7[v], DS!None},
         \A v \in DS!Volume : v \in DS!Looked \ DS!Full => entries[v] = DS!None,
         \A v \in DS!Volume : v \in DS!Full => entries[v] = x7[v],
         x5' = x5 \/ \A v \in DS!Volume : entries[v] # DS!None => v \in x1,
         DiskInv, DS!MaybeWarn(DS!FullList, entries, x12 # NoWarning, by, TRUE),
         UNCHANGED <<x1, x2, x6, x8, x10>>
  PROVE  /\ DS!EntriesAreOfFull' /\ DS!TableHasEntries' /\ DS!KnownAreTold' /\ x14' \in BOOLEAN
         /\ DS!EntriesAreLookedAt' /\ DS!RestIsFull' /\ DS!CheckGoesThrough'
<1> DEFINE list == DS!FullList
           made == Made(list, entries)
           shows == Shows(list, entries)
<1>1. /\ \A i \in DOMAIN list : /\ list[i] \in [of : DS!Volume, free : 0..1]
                                /\ list[i].of \in DS!Full /\ list[i].free = x2[list[i].of]
      /\ \A v \in DS!Full : v \in DS!Volume => \E i \in DOMAIN list : list[i].of = v
  BY ListIsFull DEF DiskInv
<1> HIDE DEF list
<1>2. DS!MaybeWarn(list, entries, x12 # NoWarning, by, TRUE)
  BY DEF list
<1>3. /\ DS!EntriesAreOfFull' /\ DS!TableHasEntries' /\ DS!KnownAreTold' /\ x14' \in BOOLEAN
      /\ \A v \in DS!Recorded' \ x17' :
           (v \in DS!Recorded \ x17 /\ entries[v] # DS!None) \/ \E i \in DOMAIN list : list[i].of = v
  <2>1. PICK full : full = list
    OBVIOUS
  <2>2. PICK busy \in BOOLEAN, current \in BOOLEAN : busy = (x12 # NoWarning) /\ current = TRUE
    OBVIOUS
  <2>3. \A i \in DOMAIN full : full[i] \in [of : DS!Volume, free : 0..1]
    BY <1>1, <2>1
  <2>4. DS!MaybeWarn(full, entries, busy, by, current)
    BY <1>2, <2>1, <2>2
  <2>5. UNCHANGED <<x2, x6, x8>>
    OBVIOUS
  <2>6. /\ DS!EntriesAreOfFull' /\ DS!TableHasEntries' /\ DS!KnownAreTold'
        /\ x14' \in BOOLEAN
        /\ \A v \in DS!Recorded' \ x17' :
             \/ v \in DS!Recorded \ x17 /\ entries[v] # DS!None
             \/ current /\ \E i \in DOMAIN full : full[i].of = v
    BY <2>3, <2>4, <2>5, Warned
  <2> QED
    BY <2>1, <2>2, <2>6
<1>4. /\ x14' = (x6 /\ shows = {})
      /\ x12' = (IF x12 # NoWarning THEN x12
                 ELSE IF shows = {} THEN NoWarning
                 ELSE [rest |-> [i \in DOMAIN list \ made |-> list[i]], by |-> by, current |-> TRUE])
  BY <1>2, ZenonT(40) DEF DS!MaybeWarn, Made, Shows
<1>5. x6 => \A i \in made : x7'[list[i].of] # DS!None
  BY <1>1, <1>2, WarnNotes, ZenonT(40)
<1>6. /\ \A v \in DS!Volume : entries[v] # DS!None => x7'[v] # DS!None
  BY <1>1, <1>2, WarnNotes, ZenonT(40)
<1>7. DS!Recorded' = {v \in DS!Volume : x7'[v] # DS!None} /\ DS!Recorded = {v \in DS!Volume : x7[v] # DS!None}
  BY DEF DS!Recorded, DS!Volume, DS!None, DS!Enough
<1>8. DS!Looked = x1 \ x10 /\ DS!Full = {v \in DS!Looked : x2[v] < 2} /\ DS!Full' = DS!Full
  BY DEF DS!Looked, DS!Full, DS!Enough
<1> HIDE DEF made, shows
<1>9. DS!EntriesAreLookedAt'
  <2> SUFFICES ASSUME NEW v \in DS!Recorded' \ x17' PROVE v \notin x10' /\ (x5' \/ v \in x1')
    BY DEF DS!EntriesAreLookedAt
  <2>1. CASE v \in DS!Recorded \ x17 /\ entries[v] # DS!None
    BY <1>7, <2>1 DEF DiskInv, DS!EntriesAreLookedAt
  <2>2. CASE \E i \in DOMAIN list : list[i].of = v
    BY <1>1, <1>8, <2>2
  <2> QED
    BY <1>3, <2>1, <2>2
<1>10. DS!RestIsFull'
  <2> SUFFICES ASSUME DS!UpToDate', NEW i \in DOMAIN x12'.rest
               PROVE  x12'.rest[i].of \in DS!Full' /\ x12'.rest[i].free = x2'[x12'.rest[i].of]
    BY DEF DS!RestIsFull
  <2>1. CASE x12 # NoWarning
    <3>1. x12' = x12
      BY <1>4, <2>1
    <3> QED
      BY <1>8, <3>1 DEF DiskInv, DS!RestIsFull, DS!UpToDate
  <2>2. CASE x12 = NoWarning
    <3>1. x12' # NoWarning
      BY DEF DS!UpToDate
    <3>2. x12' = [rest |-> [j \in DOMAIN list \ made |-> list[j]], by |-> by, current |-> TRUE]
      BY <1>4, <2>2, <3>1
    <3>3. i \in DOMAIN list /\ x12'.rest[i] = list[i]
      BY <3>2
    <3> QED
      BY <1>1, <1>8, <3>3
  <2> QED
    BY <2>1, <2>2
<1>11. ASSUME NEW v \in DS!Recorded' \ x17', v \in x1 PROVE v \in DS!Full
  <2>1. CASE v \in DS!Recorded \ x17 /\ entries[v] # DS!None
    <3>1. v \notin x10 /\ v \in DS!Volume
      BY <1>7, <2>1 DEF DiskInv, DS!EntriesAreLookedAt
    <3> QED
      BY <1>8, <1>11, <2>1, <3>1
  <2>2. CASE \E i \in DOMAIN list : list[i].of = v
    BY <1>1, <2>2
  <2> QED
    BY <1>3, <2>1, <2>2
<1>12. ASSUME x6, x14' \/ DS!UpToDate', NEW v \in DS!Full, v \in DS!Volume
       PROVE  v \in DS!Recorded' \/ (~x14' /\ \E i \in DOMAIN x12'.rest : x12'.rest[i].of = v)
  <2>1. PICK i \in DOMAIN list : list[i].of = v
    BY <1>1, <1>12
  <2>2. CASE i \in made
    BY <1>5, <1>7, <1>12, <2>1, <2>2
  <2>3. CASE i \notin made
    <3>1. shows # {} /\ ~x14'
      BY <1>4, <2>1, <2>3 DEF made, Made, shows
    <3>2. CASE x12 = NoWarning
      <4>1. x12' = [rest |-> [j \in DOMAIN list \ made |-> list[j]], by |-> by, current |-> TRUE]
        BY <1>4, <3>1, <3>2
      <4>2. i \in DOMAIN x12'.rest /\ x12'.rest[i] = list[i]
        BY <2>1, <2>3, <4>1
      <4> QED
        BY <2>1, <3>1, <4>2
    <3>3. CASE x12 # NoWarning
      <4>1. x12' = x12 /\ DS!UpToDate
        BY <1>4, <1>12, <3>1, <3>3 DEF DS!UpToDate
      <4>2. v \in DS!Recorded \/ \E j \in DOMAIN x12.rest : x12.rest[j].of = v
        BY <1>12, <4>1 DEF DiskInv, DS!CheckGoesThrough
      <4>3. v \in DS!Recorded => v \in DS!Recorded'
        BY <1>6, <1>7, <1>12
      <4> QED
        BY <3>1, <4>1, <4>2, <4>3
    <3> QED
      BY <3>2, <3>3
  <2> QED
    BY <2>2, <2>3
<1>13. DS!CheckGoesThrough'
  <2>1. DS!Full \subseteq DS!Volume
    BY <1>8 DEF DiskInv, DiskTypes
  <2> QED
    BY <1>8, <1>11, <1>12, <2>1 DEF DS!CheckGoesThrough
<1> QED
  BY <1>3, <1>9, <1>10, <1>13

(* The check that goes on when the warning is closed: with the rest of a   *)
(* list that may be out of date, of which then nothing is said.            *)
LEMMA DismissKeeps ==
  ASSUME DiskInv, x12 # NoWarning,
         DS!MaybeWarn(x12.rest, x7, FALSE, x12.by, x12.current), UNCHANGED <<x1, x2, x5, x6, x8, x10>>
  PROVE  /\ DS!EntriesAreOfFull' /\ DS!TableHasEntries' /\ DS!KnownAreTold' /\ x14' \in BOOLEAN
         /\ DS!EntriesAreLookedAt' /\ DS!RestIsFull' /\ DS!CheckGoesThrough'
<1>1. PICK list, entries, busy, by, current :
        list = x12.rest /\ entries = x7 /\ busy = FALSE /\ by = x12.by /\ current = x12.current
  OBVIOUS
<1> DEFINE made == Made(list, entries)
           shows == Shows(list, entries)
<1>2. DS!MaybeWarn(list, entries, busy, by, current)
  BY <1>1
<1>3. /\ \A i \in DOMAIN list : list[i] \in [of : DS!Volume, free : 0..1]
      /\ entries \in [DS!Volume -> FullEntry \cup {DS!None}]
      /\ \A v \in DS!Volume : entries[v] \in {x7[v], DS!None}
      /\ UNCHANGED <<x2, x6, x8>>
  BY <1>1 DEF DiskInv, DS!EntriesAreOfFull, FullEntry, DS!Enough
<1>4. /\ DS!EntriesAreOfFull' /\ DS!TableHasEntries' /\ DS!KnownAreTold' /\ x14' \in BOOLEAN
      /\ \A v \in DS!Recorded' \ x17' :
           \/ v \in DS!Recorded \ x17 /\ entries[v] # DS!None
           \/ current /\ \E i \in DOMAIN list : list[i].of = v
  BY <1>2, <1>3, Warned
<1>5. /\ x14' = (x6 /\ shows = {} /\ current)
      /\ x12' = (IF busy THEN x12
                 ELSE IF shows = {} THEN NoWarning
                 ELSE [rest |-> [i \in DOMAIN list \ made |-> list[i]], by |-> by, current |-> current])
  BY <1>2, Zenon DEF DS!MaybeWarn, Made, Shows
<1>6. /\ \A v \in DS!Volume : entries[v] # DS!None => x7'[v] # DS!None
      /\ x6 => \A i \in made : x7'[list[i].of] # DS!None
  BY <1>2, <1>3, WarnNotes
<1>7. DS!Recorded' = {v \in DS!Volume : x7'[v] # DS!None} /\ DS!Recorded = {v \in DS!Volume : x7[v] # DS!None}
  BY DEF DS!Recorded, DS!Volume, DS!None, DS!Enough
<1>8. DS!Looked = x1 \ x10 /\ DS!Full = {v \in DS!Looked : x2[v] < 2} /\ DS!Full' = DS!Full
  BY DEF DS!Looked, DS!Full, DS!Enough
<1>9. DS!Full \subseteq DS!Volume
  BY <1>8 DEF DiskInv, DiskTypes
<1> HIDE DEF made, shows
<1>10. x14' \/ DS!UpToDate' => current
  BY <1>1, <1>5 DEF DS!UpToDate
<1>11. current => /\ DS!UpToDate
                  /\ \A i \in DOMAIN list : list[i].of \in DS!Full /\ list[i].free = x2[list[i].of]
  BY <1>1 DEF DiskInv, DS!RestIsFull, DS!UpToDate
<1>12. DS!EntriesAreLookedAt'
  <2> SUFFICES ASSUME NEW v \in DS!Recorded' \ x17' PROVE v \notin x10' /\ (x5' \/ v \in x1')
    BY DEF DS!EntriesAreLookedAt
  <2>1. CASE v \in DS!Recorded \ x17
    BY <2>1 DEF DiskInv, DS!EntriesAreLookedAt
  <2>2. CASE current /\ \E i \in DOMAIN list : list[i].of = v
    BY <1>8, <1>11, <2>2
  <2> QED
    BY <1>4, <2>1, <2>2
<1>13. DS!RestIsFull'
  <2> SUFFICES ASSUME DS!UpToDate', NEW i \in DOMAIN x12'.rest
               PROVE  x12'.rest[i].of \in DS!Full' /\ x12'.rest[i].free = x2'[x12'.rest[i].of]
    BY DEF DS!RestIsFull
  <2>1. x12' # NoWarning
    BY DEF DS!UpToDate
  <2>2. x12' = [rest |-> [j \in DOMAIN list \ made |-> list[j]], by |-> by, current |-> current]
    BY <1>1, <1>5, <2>1
  <2>3. i \in DOMAIN list /\ x12'.rest[i] = list[i]
    BY <2>2
  <2> QED
    BY <1>8, <1>10, <1>11, <2>3
<1>14. ASSUME current, NEW v \in DS!Recorded' \ x17', v \in x1 PROVE v \in DS!Full
  <2>1. CASE v \in DS!Recorded \ x17
    BY <1>11, <1>14, <2>1 DEF DiskInv, DS!CheckGoesThrough
  <2>2. CASE \E i \in DOMAIN list : list[i].of = v
    BY <1>11, <1>14, <2>2
  <2> QED
    BY <1>4, <2>1, <2>2
<1>15. ASSUME x6, current, NEW v \in DS!Full
       PROVE  v \in DS!Recorded' \/ (~x14' /\ \E i \in DOMAIN x12'.rest : x12'.rest[i].of = v)
  <2>1. CASE v \in DS!Recorded
    BY <1>1, <1>6, <1>7, <2>1
  <2>2. CASE v \notin DS!Recorded
    <3>1. PICK i \in DOMAIN list : list[i].of = v
      BY <1>1, <1>11, <1>15, <2>2 DEF DiskInv, DS!CheckGoesThrough
    <3>2. CASE i \in made
      BY <1>6, <1>7, <1>9, <1>15, <3>1, <3>2
    <3>3. CASE i \notin made
      <4>1. shows # {} /\ ~x14'
        BY <1>5, <3>1, <3>3 DEF made, Made, shows
      <4>2. x12' = [rest |-> [j \in DOMAIN list \ made |-> list[j]], by |-> by, current |-> current]
        BY <1>1, <1>5, <4>1
      <4>3. i \in DOMAIN x12'.rest /\ x12'.rest[i] = list[i]
        BY <3>1, <3>3, <4>2
      <4> QED
        BY <3>1, <4>1, <4>3
    <3> QED
      BY <3>2, <3>3
  <2> QED
    BY <2>1, <2>2
<1>16. DS!CheckGoesThrough'
  BY <1>8, <1>10, <1>14, <1>15 DEF DS!CheckGoesThrough
<1> QED
  BY <1>4, <1>12, <1>13, <1>16

(* There is no table and no warning at first.                              *)
LEMMA InitDiskInv == DS!Init => DiskInv
<1> SUFFICES ASSUME DS!Init PROVE DiskInv
  OBVIOUS
<1>1. /\ ~on /\ x1 = DS!Volume /\ x2 \in [DS!Volume -> {1, DS!Enough}] /\ ~x4 /\ ~x5 /\ ~x6 /\ ~x8 /\ ~x9 /\ ~x11
      /\ x7 = [v \in DS!Volume |-> DS!None] /\ x12 = NoWarning /\ ~x14
  BY DEF DS!Init
<1>2. DiskTypes
  BY <1>1 DEF DS!Init, DiskTypes
<1>3. DS!LetGo /\ DS!MonitorIsWhole /\ DS!WarningHasTimer
  BY <1>1 DEF DS!LetGo, DS!MonitorIsWhole, DS!WarningHasTimer
<1>4. DS!EntriesAreOfFull
  BY <1>1 DEF DS!EntriesAreOfFull, DS!Enough
<1>5. DS!Recorded = {}
  BY <1>1 DEF DS!Recorded
<1>6. DS!TableHasEntries /\ DS!KnownAreTold /\ DS!EntriesAreLookedAt /\ DS!RestIsFull /\ DS!CheckGoesThrough
  BY <1>1, <1>5 DEF DS!TableHasEntries, DS!KnownAreTold, DS!EntriesAreLookedAt, DS!RestIsFull, DS!CheckGoesThrough,
     DS!UpToDate
<1> QED
  BY <1>2, <1>3, <1>4, <1>6 DEF DiskInv

(* A change makes the check that is going on out of date.                  *)
LEMMA Outdates ==
  ASSUME DiskInv, x12' = IF x12 = NoWarning THEN NoWarning ELSE [x12 EXCEPT !.current = FALSE], x14' = FALSE
  PROVE  /\ ~DS!UpToDate' /\ DS!RestIsFull' /\ DS!CheckGoesThrough'
         /\ x12' # NoWarning =>
              /\ x12 # NoWarning
              /\ x12' = [rest |-> x12'.rest, by |-> x12'.by, current |-> x12'.current]
              /\ x12'.rest = x12.rest
<1>1. x12 # NoWarning => x12 = [rest |-> x12.rest, by |-> x12.by, current |-> x12.current]
  BY DEF DiskInv, DS!EntriesAreOfFull
<1>2. x12' # NoWarning => /\ x12 # NoWarning
                          /\ x12' = [rest |-> x12.rest, by |-> x12.by, current |-> FALSE]
  BY <1>1
<1>3. ~DS!UpToDate'
  BY <1>2 DEF DS!UpToDate
<1> QED
  BY <1>2, <1>3 DEF DS!RestIsFull, DS!CheckGoesThrough

(* Each step of the monitor keeps all of it.                               *)
LEMMA DiskStep == DiskInv /\ [DS!Next]_DS!vars => DiskInv'
<1> SUFFICES ASSUME DiskInv, [DS!Next]_DS!vars PROVE DiskInv'
  OBVIOUS
<1> DEFINE Checks == DS!TableHasEntries /\ DS!KnownAreTold /\ DS!EntriesAreLookedAt /\ DS!RestIsFull
                     /\ DS!CheckGoesThrough
<1>0. /\ DS!LetGo'
      /\ DiskTypes /\ DS!LetGo /\ DS!MonitorIsWhole /\ DS!WarningHasTimer /\ DS!EntriesAreOfFull /\ Checks
  BY DiskSpaceLetsGo DEF DiskInv
<1>1. DS!Recorded' = {v \in DS!Volume : x7'[v] # DS!None} /\ DS!Recorded = {v \in DS!Volume : x7[v] # DS!None}
  BY DEF DS!Recorded, DS!Volume, DS!None, DS!Enough
<1>2. DS!Looked = x1 \ x10 /\ DS!Full = {v \in DS!Looked : x2[v] < 2}
  BY DEF DS!Looked, DS!Full, DS!Enough
<1>3. DS!Full' = {v \in x1' \ x10' : x2'[v] < 2}
  BY DEF DS!Looked, DS!Full, DS!Enough
<1>4. x7 \in [DS!Volume -> FullEntry \cup {DS!None}]
  BY <1>0 DEF DS!EntriesAreOfFull, FullEntry, DS!Enough
<1> USE DEF DiskTypes, DS!MonitorIsWhole, DS!WarningHasTimer
<1>5. CASE DS!Start
  <2>1. /\ ~on /\ on' /\ UNCHANGED <<x1, x2, x5, x7, x12, x14, x15, x16, x17>>
        /\ \/ UNCHANGED <<x6, x8, x9, x10, x11, x18>> /\ (x6 \/ x8 \/ x11)
           \/ ~x6 /\ ~x11 /\ x6' /\ x8' /\ x9' /\ x11' /\ x18' \in BOOLEAN
    BY <1>0, <1>5 DEF DS!Start, DS!world, DS!parts, DS!past
  <2>2. DiskTypes' /\ DS!MonitorIsWhole' /\ DS!WarningHasTimer'
    <3>1. UNCHANGED <<x6, x8, x9, x10, x11, x18>> => x18
      BY <1>0, <2>1 DEF DS!LetGo
    <3>2. DiskTypes'
      BY <1>0, <2>1
    <3>3. DS!MonitorIsWhole' /\ DS!WarningHasTimer'
      BY <2>1, <3>1
    <3> QED
      BY <3>2, <3>3
  <2>3. DS!EntriesAreOfFull'
    BY <1>0, <2>1 DEF DS!EntriesAreOfFull, DS!Volume, DS!None, DS!Enough
  <2>4. CASE UNCHANGED <<x6, x8, x9, x10, x11, x18>>
    <3>1. DS!Full' = DS!Full /\ DS!Recorded' = DS!Recorded
      BY <1>1, <1>2, <1>3, <2>1, <2>4
    <3>2. Checks'
      BY <1>0, <2>1, <2>4, <3>1 DEF DS!TableHasEntries, DS!KnownAreTold, DS!EntriesAreLookedAt, DS!RestIsFull,
         DS!CheckGoesThrough, DS!UpToDate
    <3> QED
      BY <1>0, <2>2, <2>3, <3>2 DEF DiskInv
  <2>5. CASE ~x6 /\ ~x11 /\ x6' /\ x8' /\ x9' /\ x11' /\ x18' \in BOOLEAN
    <3>1. DS!Recorded' = {} /\ ~x14' /\ x12' = NoWarning
      BY <1>0, <1>1, <2>1, <2>5 DEF DS!TableHasEntries
    <3>2. Checks'
      BY <2>5, <3>1 DEF DS!TableHasEntries, DS!KnownAreTold, DS!EntriesAreLookedAt, DS!RestIsFull,
         DS!CheckGoesThrough, DS!UpToDate
    <3> QED
      BY <1>0, <2>2, <2>3, <3>2 DEF DiskInv
  <2> QED
    BY <2>1, <2>4, <2>5
<1>6. CASE DS!Tick
  <2>1. /\ x11 /\ DS!CheckAllMounts(x7, "timer")
        /\ UNCHANGED <<on, x1, x2, x4, x5, x6, x8, x9, x10, x11, x18>>
    BY <1>6 DEF DS!Tick, DS!world, DS!parts
  <2>2. PICK entries : entries = [v \in DS!Volume |-> IF v \in DS!Looked \ DS!Full THEN DS!None ELSE x7[v]]
    OBVIOUS
  <2>3. DS!MaybeWarn(DS!FullList, entries, x12 # NoWarning, "timer", TRUE)
    BY <2>1, <2>2 DEF DS!CheckAllMounts
  <2>4. /\ entries \in [DS!Volume -> FullEntry \cup {DS!None}]
        /\ \A v \in DS!Volume : entries[v] \in {x7[v], DS!None}
        /\ \A v \in DS!Volume : v \in DS!Looked \ DS!Full => entries[v] = DS!None
        /\ \A v \in DS!Volume : v \in DS!Full => entries[v] = x7[v]
    BY <1>4, <2>2
  <2>5. x5' = x5 /\ UNCHANGED <<x1, x2, x6, x8, x10>>
    BY <2>1
  <2>6. DS!EntriesAreOfFull' /\ Checks' /\ x14' \in BOOLEAN
    BY <2>3, <2>4, <2>5, CheckKeeps
  <2>7. DiskTypes' /\ DS!MonitorIsWhole' /\ DS!WarningHasTimer'
    BY <1>0, <2>1, <2>6
  <2> QED
    BY <1>0, <2>6, <2>7 DEF DiskInv
<1>7. CASE DS!MountsChanged
  <2>1. PICK seen : seen = [v \in DS!Volume |-> IF v \in x1 THEN x7[v] ELSE DS!None]
    OBVIOUS
  <2>2. /\ x5 /\ x5' = FALSE /\ DS!CheckAllMounts(seen, "mounts") /\ (x11 => x11') /\ x11' \in {x11, TRUE}
        /\ UNCHANGED <<on, x1, x2, x4, x6, x8, x9, x10, x18>>
    BY <1>7, <2>1 DEF DS!MountsChanged
  <2>3. PICK entries : entries = [v \in DS!Volume |-> IF v \in DS!Looked \ DS!Full THEN DS!None ELSE seen[v]]
    OBVIOUS
  <2>4. DS!MaybeWarn(DS!FullList, entries, x12 # NoWarning, "mounts", TRUE)
    BY <2>2, <2>3 DEF DS!CheckAllMounts
  <2>5. /\ entries \in [DS!Volume -> FullEntry \cup {DS!None}]
        /\ \A v \in DS!Volume : entries[v] \in {x7[v], DS!None}
        /\ \A v \in DS!Volume : v \in DS!Looked \ DS!Full => entries[v] = DS!None
        /\ \A v \in DS!Volume : v \in DS!Full => entries[v] = x7[v]
        /\ \A v \in DS!Volume : entries[v] # DS!None => v \in x1
    BY <1>2, <1>4, <2>1, <2>3
  <2>6. UNCHANGED <<x1, x2, x6, x8, x10>>
    BY <2>2
  <2>7. DS!EntriesAreOfFull' /\ Checks' /\ x14' \in BOOLEAN
    BY <2>4, <2>5, <2>6, CheckKeeps
  <2>8. on
    BY <1>0, <2>2 DEF DS!LetGo
  <2>9. DiskTypes' /\ DS!MonitorIsWhole' /\ DS!WarningHasTimer'
    BY <1>0, <2>2, <2>7, <2>8
  <2> QED
    BY <1>0, <2>7, <2>9 DEF DiskInv
<1>8. CASE DS!Dismiss
  <2>1. /\ x12 # NoWarning /\ DS!MaybeWarn(x12.rest, x7, FALSE, x12.by, x12.current)
        /\ UNCHANGED <<on, x1, x2, x4, x5, x6, x8, x9, x10, x18>> /\ (x11 => x11')
    BY <1>0, <1>8 DEF DS!Dismiss, DS!world, DS!parts, DS!CheckIsOver
  <2>2. UNCHANGED <<x1, x2, x5, x6, x8, x10>>
    BY <2>1
  <2>3. /\ DS!EntriesAreOfFull' /\ Checks' /\ x14' \in BOOLEAN
    BY <2>1, <2>2, DismissKeeps
  <2>4. DiskTypes' /\ DS!MonitorIsWhole' /\ DS!WarningHasTimer'
    BY <1>0, <2>1, <2>3
  <2> QED
    BY <1>0, <2>3, <2>4 DEF DiskInv
<1>9. CASE DS!Act
  <2>1. /\ x12' = NoWarning /\ (x11 => x11')
        /\ UNCHANGED <<on, x1, x2, x5, x6, x7, x8, x9, x10, x14, x15, x16, x17, x18>>
    BY <1>0, <1>9 DEF DS!Act, DS!CheckIsOver, DS!world, DS!past
  <2>2. DiskTypes' /\ DS!MonitorIsWhole' /\ DS!WarningHasTimer'
    BY <1>0, <2>1
  <2>3. DS!EntriesAreOfFull'
    BY <1>0, <2>1 DEF DS!EntriesAreOfFull, DS!Volume, DS!None, DS!Enough
  <2>4. DS!Full' = DS!Full /\ DS!Recorded' = DS!Recorded /\ ~DS!UpToDate'
    BY <1>1, <1>2, <1>3, <2>1 DEF DS!UpToDate
  <2>5. Checks'
    BY <1>0, <2>1, <2>4 DEF DS!TableHasEntries, DS!KnownAreTold, DS!EntriesAreLookedAt, DS!RestIsFull,
       DS!CheckGoesThrough
  <2> QED
    BY <1>0, <2>2, <2>3, <2>5 DEF DiskInv
<1>10. CASE DS!UpdateConfig
  <2>1. /\ x10' = x3 /\ x7' = [v \in DS!Volume |-> IF v \in x3 THEN DS!None ELSE x7[v]]
        /\ x15' = x15 \ x3 /\ x16' = x16 \ x3 /\ x17' = x17 \ x3
        /\ x14' = FALSE
        /\ x12' = IF x12 = NoWarning THEN NoWarning ELSE [x12 EXCEPT !.current = FALSE]
        /\ UNCHANGED <<on, x1, x2, x5, x6, x8, x9, x11, x18>>
    BY <1>10 DEF DS!UpdateConfig
  <2>2. /\ DS!RestIsFull' /\ DS!CheckGoesThrough'
        /\ x12' # NoWarning =>
             /\ x12 # NoWarning
             /\ x12' = [rest |-> x12'.rest, by |-> x12'.by, current |-> x12'.current]
             /\ x12'.rest = x12.rest
    BY <2>1, Outdates
  <2>3. DiskTypes' /\ DS!MonitorIsWhole' /\ DS!WarningHasTimer'
    BY <1>0, <2>1, <2>2
  <2>4. DS!EntriesAreOfFull'
    <3>1. x7' \in [DS!Volume -> FullEntry \cup {DS!None}]
      BY <1>4, <2>1
    <3> QED
      BY <1>0, <2>1, <2>2, <3>1 DEF DS!EntriesAreOfFull, FullEntry, DS!Volume, DS!None, DS!Enough
  <2>5. DS!Recorded' = DS!Recorded \ x3
    BY <1>1, <2>1
  <2>6. DS!TableHasEntries' /\ DS!KnownAreTold' /\ DS!EntriesAreLookedAt'
    BY <1>0, <2>1, <2>5 DEF DS!TableHasEntries, DS!KnownAreTold, DS!EntriesAreLookedAt
  <2> QED
    BY <1>0, <2>2, <2>3, <2>4, <2>6 DEF DiskInv
<1>11. CASE DS!Clean
  <2>1. /\ on' = FALSE /\ x6' = FALSE /\ x7' = [v \in DS!Volume |-> DS!None] /\ x5' = FALSE /\ x12' = NoWarning
        /\ x8' = FALSE /\ x14' = FALSE /\ x18' \in BOOLEAN /\ UNCHANGED <<x1, x2>>
    BY <1>0, <1>11 DEF DS!Clean
  <2>2. DiskTypes' /\ DS!MonitorIsWhole' /\ DS!WarningHasTimer'
    BY <1>0, <2>1
  <2>3. DS!EntriesAreOfFull'
    BY <1>0, <2>1 DEF DS!EntriesAreOfFull, DS!Volume, DS!None, DS!Enough
  <2>4. DS!Recorded' = {}
    BY <1>1, <2>1
  <2>5. Checks'
    BY <2>1, <2>4 DEF DS!TableHasEntries, DS!KnownAreTold, DS!EntriesAreLookedAt, DS!RestIsFull,
       DS!CheckGoesThrough, DS!UpToDate
  <2> QED
    BY <1>0, <2>2, <2>3, <2>5 DEF DiskInv
<1>12. ASSUME NEW v \in DS!Volume, DS!PeriodIsOver(v) PROVE DiskInv'
  <2>1. /\ x7[v] # DS!None /\ x7' = [x7 EXCEPT ![v].due = TRUE]
        /\ UNCHANGED <<on, x1, x2, x5, x6, x8, x9, x10, x11, x12, x14, x15, x16, x17, x18>>
    BY <1>1, <1>12 DEF DS!PeriodIsOver, DS!world, DS!parts, DS!past
  <2>2. x7[v] \in FullEntry
    BY <1>4, <2>1
  <2>3. x7'[v] \in FullEntry /\ x7'[v] # DS!None /\ \A w \in DS!Volume \ {v} : x7'[w] = x7[w]
    <3>1. x7' = [x7 EXCEPT ![v] = [x7[v] EXCEPT !.due = TRUE]]
      BY <2>1
    <3>2. x7'[v] = [x7[v] EXCEPT !.due = TRUE] /\ \A w \in DS!Volume \ {v} : x7'[w] = x7[w]
      BY <1>4, <3>1
    <3>3. x7'[v] \in FullEntry
      BY <2>2, <3>2 DEF FullEntry
    <3>4. x7'[v].free \in 0..1 /\ DS!None.free = 2
      BY <3>3 DEF FullEntry, DS!None, DS!Enough
    <3>5. x7'[v] # DS!None
      BY <3>4
    <3> QED
      BY <3>2, <3>3, <3>5
  <2>4. x7' \in [DS!Volume -> FullEntry \cup {DS!None}]
    BY <1>4, <2>1, <2>3
  <2>5. DS!Recorded' = DS!Recorded /\ DS!Full' = DS!Full
    BY <1>1, <1>2, <1>3, <2>1, <2>3
  <2>6. DiskTypes' /\ DS!MonitorIsWhole' /\ DS!WarningHasTimer'
    BY <1>0, <2>1
  <2>7. DS!EntriesAreOfFull'
    BY <1>0, <2>1, <2>4 DEF DS!EntriesAreOfFull, FullEntry, DS!Volume, DS!None, DS!Enough
  <2>8. Checks'
    BY <1>0, <2>1, <2>5 DEF DS!TableHasEntries, DS!KnownAreTold, DS!EntriesAreLookedAt, DS!RestIsFull,
       DS!CheckGoesThrough, DS!UpToDate
  <2> QED
    BY <1>0, <2>6, <2>7, <2>8 DEF DiskInv
<1>13. ASSUME NEW v \in DS!Volume, DS!Move(v) \/ DS!ChangeFree(v) \/ DS!ToggleIgnored(v) PROVE DiskInv'
  <2>1. /\ x14' = FALSE
        /\ x12' = IF x12 = NoWarning THEN NoWarning ELSE [x12 EXCEPT !.current = FALSE]
        /\ UNCHANGED <<on, x6, x7, x8, x9, x10, x11, x15, x16, x17, x18>>
    BY <1>13 DEF DS!Move, DS!ChangeFree, DS!ToggleIgnored, DS!Changing, DS!parts
  <2>2. /\ DS!RestIsFull' /\ DS!CheckGoesThrough'
        /\ x12' # NoWarning =>
             /\ x12 # NoWarning
             /\ x12' = [rest |-> x12'.rest, by |-> x12'.by, current |-> x12'.current]
             /\ x12'.rest = x12.rest
    BY <2>1, Outdates
  <2>3. /\ x1' \subseteq DS!Volume /\ x5' \in BOOLEAN /\ x2' \in [DS!Volume -> 0..2]
        /\ x5' = x8 \/ UNCHANGED <<x1, x5>>
    <3>1. x2 \in [DS!Volume -> 0..2]
      BY <1>0 DEF DS!EntriesAreOfFull, DS!Enough
    <3>2. CASE DS!Move(v)
      BY <1>0, <3>1, <3>2 DEF DS!Move
    <3>3. CASE DS!ChangeFree(v)
      BY <1>0, <3>1, <3>3 DEF DS!ChangeFree, DS!Enough
    <3>4. CASE DS!ToggleIgnored(v)
      BY <1>0, <3>1, <3>4 DEF DS!ToggleIgnored
    <3> QED
      BY <1>13, <3>2, <3>3, <3>4
  <2>4. DiskTypes' /\ DS!MonitorIsWhole' /\ DS!WarningHasTimer'
    BY <1>0, <2>1, <2>2, <2>3
  <2>5. DS!EntriesAreOfFull'
    BY <1>0, <2>1, <2>2, <2>3 DEF DS!EntriesAreOfFull, DS!Volume, DS!None, DS!Enough
  <2>6. DS!Recorded' = DS!Recorded
    BY <1>1, <2>1
  <2>7. DS!TableHasEntries' /\ DS!KnownAreTold' /\ DS!EntriesAreLookedAt'
    BY <1>0, <2>1, <2>3, <2>6 DEF DS!TableHasEntries, DS!KnownAreTold, DS!EntriesAreLookedAt
  <2> QED
    BY <1>0, <2>2, <2>4, <2>5, <2>7 DEF DiskInv
<1>14. CASE UNCHANGED DS!vars
  <2>1. UNCHANGED <<on, x1, x2, x5, x6, x7, x8, x9, x10, x11, x12, x14, x15, x16, x17, x18>>
    BY <1>14 DEF DS!vars, DS!world, DS!parts, DS!past
  <2>2. DS!Full' = DS!Full /\ DS!Recorded' = DS!Recorded
    BY <1>1, <1>2, <1>3, <2>1
  <2>3. DiskTypes' /\ DS!MonitorIsWhole' /\ DS!WarningHasTimer'
    BY <1>0, <2>1
  <2>4. DS!EntriesAreOfFull'
    BY <1>0, <2>1 DEF DS!EntriesAreOfFull, DS!Volume, DS!None, DS!Enough
  <2>5. Checks'
    BY <1>0, <2>1, <2>2 DEF DS!TableHasEntries, DS!KnownAreTold, DS!EntriesAreLookedAt, DS!RestIsFull,
       DS!CheckGoesThrough, DS!UpToDate
  <2> QED
    BY <1>0, <2>3, <2>4, <2>5 DEF DiskInv
<1> QED
  BY <1>5, <1>6, <1>7, <1>8, <1>9, <1>10, <1>11, <1>12, <1>13, <1>14 DEF DS!Next

-----------------------------------------------------------------------------
(* What is kept of the part that is picked.                                *)
Keeping ==
  /\ plugin = "housekeeping" => HouseInv
  /\ plugin = "disk-space" => DiskInv
  /\ plugin = "trash" => TrashInv /\ TE!AllAreCounted

(* All of it is so at first.                                               *)
LEMMA InitKeeping == SumInit => Keeping
<1> SUFFICES ASSUME SumInit PROVE Keeping
  OBVIOUS
<1>1. plugin = "housekeeping" => HouseInv
  BY InitHouseInv DEF SumInit
<1>2. plugin = "disk-space" => DiskInv
  BY InitDiskInv DEF SumInit
<1>3. plugin = "trash" => TE!Init
  BY DEF SumInit
<1>4. TE!Init => TE!AllAreCounted
  BY MaxFilesAssumption DEF TE!Init, TE!AllAreCounted
<1> QED
  BY <1>1, <1>2, <1>3, <1>4, InitTrashInv DEF Keeping

(* The parts of the housekeeping plugin keep house.  The thumbnails that   *)
(* are left are those the limits allow, which are applied when they change *)
(* (csd_housekeeping-manager.c, do_cleanup); the volumes that are full are *)
(* known once a check went through, the user was told of each, and the     *)
(* monitor is whole, whatever happens in the main loop of a warning        *)
(* (csd_disk-space.c, ldsm_check_all_mounts, ldsm_maybe_warn_mounts); and  *)
(* the thread that empties the trash and the dialog never meet over a file *)
(* (csd_trash-empty.c).                                                    *)
THEOREM HouseIsKeptAlways == SumSpec => []HouseIsKept
<1>1. Keeping /\ [SumNext]_<<plugin, size, vars, xs>> => Keeping'
  <2> SUFFICES ASSUME Keeping, [SumNext]_<<plugin, size, vars, xs>> PROVE Keeping'
    OBVIOUS
  <2>1. plugin' = plugin
    BY Picked
  <2>2. plugin = "housekeeping" => HouseInv'
    BY Picked, HouseStep DEF Keeping
  <2>3. plugin = "disk-space" => DiskInv'
    BY Picked, DiskStep DEF Keeping
  <2>4. plugin = "trash" => TrashInv' /\ TE!AllAreCounted'
    BY Picked, TrashStep, CountStep DEF Keeping
  <2> QED
    BY <2>1, <2>2, <2>3, <2>4 DEF Keeping
<1>2. Keeping => HouseIsKept
  <2> SUFFICES ASSUME Keeping PROVE HouseIsKept
    OBVIOUS
  <2>1. plugin = "housekeeping" => HK!LimitsAreApplied /\ HK!CleanupIsExact /\ HK!ZeroIsApplied
    BY DEF Keeping, HouseInv
  <2>2. DiskInv => DS!FullAreKnown /\ DS!KnownAreTold /\ DS!MonitorIsWhole
    <3> SUFFICES ASSUME DiskInv PROVE DS!FullAreKnown
      BY DEF DiskInv
    <3> SUFFICES ASSUME x14, ~x5 PROVE DS!Full \subseteq DS!Recorded /\ DS!Recorded \subseteq DS!Full \cup x17
      BY DEF DS!FullAreKnown
    <3>1. x6
      BY DEF DiskInv, DS!TableHasEntries
    <3>2. DS!Full \subseteq DS!Recorded
      BY <3>1 DEF DiskInv, DS!CheckGoesThrough
    <3>3. \A v \in DS!Recorded \ x17 : v \in x1
      BY DEF DiskInv, DS!EntriesAreLookedAt
    <3>4. DS!Recorded \subseteq DS!Full \cup x17
      BY <3>3 DEF DiskInv, DS!CheckGoesThrough
    <3> QED
      BY <3>2, <3>4
  <2>3. plugin = "trash" => TE!UpdatesFindFiles /\ TE!FractionIsDefined
    BY TrashIsEmptied DEF Keeping
  <2> QED
    BY <2>1, <2>2, <2>3 DEF Keeping, HouseIsKept
<1> QED
  BY <1>1, <1>2, InitKeeping, PTL DEF SumSpec

-----------------------------------------------------------------------------
(* The datetime mechanism answers truly.                                   *)

(* One sequence is another one without the element at a place.             *)
LacksAt(T, r, s, i) ==
  /\ r \in Seq(T) /\ Len(r) = Len(s) - 1
  /\ \A j \in 1..Len(s) - 1 : r[j] = IF j < i THEN s[j] ELSE s[j + 1]

(* So it is when the element is taken out.                                 *)
LEMMA RemovedOne ==
  ASSUME NEW T, NEW s \in Seq(T), NEW i \in 1..Len(s)
  PROVE  LacksAt(T, SubSeq(s, 1, i - 1) \o SubSeq(s, i + 1, Len(s)), s, i)
<1> DEFINE low  == SubSeq(s, 1, i - 1)
           high == SubSeq(s, i + 1, Len(s))
           r    == low \o high
<1>0. Len(s) \in Nat /\ i \in Nat /\ 1 <= i /\ i <= Len(s)
  OBVIOUS
<1>1. low \in Seq(T) /\ Len(low) = i - 1 /\ \A j \in 1..i - 1 : low[j] = s[j]
  BY <1>0
<1>2. high \in Seq(T) /\ Len(high) = Len(s) - i /\ \A j \in 1..Len(s) - i : high[j] = s[i + j]
  <2>1. high \in Seq(T)
    BY <1>0
  <2>2. Len(high) = Len(s) - i
    BY <1>0
  <2>3. \A j \in 1..Len(s) - i : high[j] = s[i + j]
    BY <1>0
  <2> QED
    BY <2>1, <2>2, <2>3
<1>3. r = low \o high
  OBVIOUS
<1>7. LacksAt(T, r, s, i) => LacksAt(T, SubSeq(s, 1, i - 1) \o SubSeq(s, i + 1, Len(s)), s, i)
  OBVIOUS
<1> HIDE DEF low, high, r
<1>4. /\ r \in Seq(T) /\ Len(r) = (i - 1) + (Len(s) - i)
      /\ \A j \in 1..(i - 1) + (Len(s) - i) : r[j] = IF j <= i - 1 THEN low[j] ELSE high[j - (i - 1)]
  <2>1. low \in Seq(T) /\ high \in Seq(T)
    BY <1>1, <1>2
  <2>2. /\ low \o high \in Seq(T) /\ Len(low \o high) = Len(low) + Len(high)
        /\ \A j \in 1..Len(low) + Len(high) :
             (low \o high)[j] = IF j <= Len(low) THEN low[j] ELSE high[j - Len(low)]
    BY <2>1, ConcatProperties
  <2> QED
    BY <1>1, <1>2, <1>3, <2>2, Zenon
<1>5. (i - 1) + (Len(s) - i) = Len(s) - 1
  BY <1>0
<1>6. ASSUME NEW j \in 1..Len(s) - 1 PROVE r[j] = IF j < i THEN s[j] ELSE s[j + 1]
  <2>1. r[j] = IF j <= i - 1 THEN low[j] ELSE high[j - (i - 1)]
    BY <1>4, <1>5
  <2>2. CASE j < i
    <3>1. j \in 1..i - 1 /\ j <= i - 1
      BY <1>0, <2>2
    <3> QED
      BY <1>1, <2>1, <2>2, <3>1
  <2>3. CASE ~(j < i)
    <3>1. j - (i - 1) \in 1..Len(s) - i /\ ~(j <= i - 1) /\ i + (j - (i - 1)) = j + 1
      BY <1>0, <2>3
    <3>2. high[j - (i - 1)] = s[i + (j - (i - 1))]
      BY <1>2, <3>1
    <3> QED
      BY <2>1, <2>3, <3>1, <3>2
  <2> QED
    BY <2>2, <2>3
<1> QED
  BY <1>4, <1>5, <1>6, <1>7 DEF LacksAt

(* A set of numbers that is not empty has a least one.                     *)
LEMMA Least ==
  ASSUME NEW T \in SUBSET Nat, T # {}
  PROVE  \E x \in T : \A y \in T : x <= y
<1>1. PICK x \in T : \A y \in T : ~ (<<y, x>> \in OpToRel(<, Nat))
  BY NatLessThanWellFounded, WFMin
<1>2. \A n, m \in Nat : <<n, m>> \in OpToRel(<, Nat) <=> n < m
  BY DEF OpToRel
<1>3. \A y \in T : ~(y < x)
  BY <1>1, <1>2
<1>4. \A n, m \in Nat : ~(n < m) => m <= n
  OBVIOUS
<1>5. \A y \in T : x <= y
  BY <1>3, <1>4
<1> QED
  BY <1>5

(* A zone that was written is found again, if its name is valid and the    *)
(* copy has the inode of no other.                                         *)
LEMMA WrittenIsFound ==
  ASSUME NEW lt, NEW files, NEW z \in DT!Zone, DT!IsValid(z),
         lt \in {DT!Link(z)} \cup DT!Copy(z), lt.inode = DT!NoZone,
         \A i \in DOMAIN DT!ConfigKey : DT!ConfigKey[i] \in DOMAIN files => files[DT!ConfigKey[i]] = z
  PROVE  DT!StripPath(DT!Find(lt, files)) = DT!StripPath(z)
<1> DEFINE names == {z, DT!StripPath(z), DT!NoZone}
           link  == IF lt.kind = "link" THEN DT!StripPath(lt.zone) ELSE DT!NoZone
           named == [i \in DOMAIN DT!ConfigKey |-> DT!ReadKey(files, DT!ConfigKey[i])]
           inode == IF lt.kind = "link" THEN DT!StripPath(lt.zone) ELSE lt.inode
           data  == DT!StripPath(lt.zone)
           all   == <<link>> \o named \o <<inode, data>>
           valid == {i \in DOMAIN all : DT!IsValid(all[i])}
<1>1. lt.zone = z
  BY DEF DT!Link, DT!Copy
<1>2. link \in names /\ inode \in names /\ data \in names /\ data = DT!StripPath(z)
  BY <1>1
<1>3. <<link>> \in Seq(names) /\ <<inode, data>> \in Seq(names)
  BY <1>2
<1>4. named \in Seq(names)
  <2>1. DOMAIN DT!ConfigKey = 1..6
    BY DEF DT!ConfigKey
  <2>2. \A i \in 1..6 : named[i] \in names
    BY <2>1 DEF DT!ReadKey
  <2>3. named \in [1..6 -> names]
    BY <2>1, <2>2
  <2> QED
    BY <2>3
<1> HIDE DEF link, named, inode, data, names
<1>5. <<link>> \o named \in Seq(names)
  BY <1>3, <1>4, ConcatProperties
<1>6. /\ all \in Seq(names) /\ Len(all) = Len(<<link>> \o named) + 2
      /\ all[Len(all)] = data
  <2> DEFINE head == <<link>> \o named
             last == <<inode, data>>
  <2>1. head \in Seq(names) /\ last \in Seq(names) /\ Len(last) = 2 /\ last[2] = data
    BY <1>3, <1>5
  <2> HIDE DEF head, last
  <2>2. /\ head \o last \in Seq(names) /\ Len(head \o last) = Len(head) + Len(last)
        /\ \A i \in 1..Len(head) + Len(last) :
             (head \o last)[i] = IF i <= Len(head) THEN head[i] ELSE last[i - Len(head)]
    BY <2>1, ConcatProperties, Zenon
  <2>3. Len(head) \in Nat
    BY <2>1
  <2>4. (head \o last)[Len(head) + 2] = data
    BY <2>1, <2>2, <2>3
  <2> QED
    BY <2>2, <2>4 DEF head, last
<1>7. all \in Seq(names) /\ DOMAIN all = 1..Len(all) /\ Len(all) \in DOMAIN all
  BY <1>5, <1>6
<1> HIDE DEF all
<1>8. DT!IsValid(data)
  BY <1>2 DEF DT!IsValid, DT!StripPath, DT!NoZone
<1>9. valid # {} /\ valid \in SUBSET Nat
  BY <1>6, <1>7, <1>8
<1>10. DT!Min(valid) \in valid
  BY <1>9, Least DEF DT!Min
<1>11. all[DT!Min(valid)] \in names /\ DT!IsValid(all[DT!Min(valid)])
  BY <1>7, <1>10
<1>12. DT!Find(lt, files) = all[DT!Min(valid)]
  BY <1>9 DEF DT!Find, all, link, named, inode, data
<1>13. DT!StripPath(DT!StripPath(z)) = DT!StripPath(z)
  BY DEF DT!StripPath
<1>14. ~DT!IsValid(DT!NoZone)
  BY DEF DT!IsValid, DT!NoZone
<1> QED
  BY <1>11, <1>12, <1>13, <1>14 DEF names

-----------------------------------------------------------------------------
(* Handling a call goes from stage to stage.                               *)
LEMMA StagesStep == DT!StagesHaveCalls /\ [DT!Next]_DT!vars => DT!StagesHaveCalls'
<1> SUFFICES ASSUME DT!StagesHaveCalls, [DT!Next]_DT!vars PROVE DT!StagesHaveCalls'
  OBVIOUS
<1> USE DEF DT!StagesHaveCalls
<1>1. CASE UNCHANGED <<x10, x11>>
  BY <1>1
<1>2. CASE DT!Receive
  <2>1. x10' \in DT!Call /\ x11' = "auth"
    BY <1>2 DEF DT!Receive
  <2>2. DT!NoCall \notin DT!Call
    BY DEF DT!NoCall, DT!Call
  <2> QED
    BY <2>1, <2>2
<1>3. CASE x10' = DT!NoCall /\ x11' = "idle"
  BY <1>3
<1>4. ASSUME NEW authorized \in BOOLEAN, DT!CheckPolkit(authorized) PROVE DT!StagesHaveCalls'
  <2>1. CASE DT!Reply(TRUE)
    BY <1>3, <2>1 DEF DT!Reply
  <2>2. CASE x10' = x10 /\ x10[1] = "SetTimezone" /\ x11' = "zone"
    BY <1>4, <2>2 DEF DT!CheckPolkit
  <2>3. CASE /\ x10' = x10 /\ x10[1] # "SetTimezone"
             /\ x11' = IF x10[1] = "SetHardwareClockUsingUtc" THEN "utc" ELSE "clock"
    <3>1. x10 \in DT!Call /\ x10 # DT!NoCall
      BY <1>4 DEF DT!CheckPolkit
    <3>2. x10[1] \in {"SetTime", "AdjustTime", "SetTimezone", "SetHardwareClockUsingUtc"}
      BY <3>1 DEF DT!Call
    <3> QED
      BY <2>3, <3>1, <3>2
  <2> QED
    BY <1>4, <2>1, <2>2, <2>3 DEF DT!CheckPolkit
<1>5. CASE DT!SetTimeOfDay
  BY <1>3, <1>5 DEF DT!SetTimeOfDay, DT!Reply
<1>6. CASE DT!SetMode
  BY <1>3, <1>6 DEF DT!SetMode, DT!Reply
<1>7. DT!SetHardwareClock \/ DT!UpdateSysconfig \/ DT!ZoneIsSet \/ DT!SetZoneFails
        => x10' = DT!NoCall /\ x11' = "idle"
  BY DEF DT!SetHardwareClock, DT!UpdateSysconfig, DT!ZoneIsSet, DT!SetZoneFails, DT!Reply
<1>8. DT!Activate \/ DT!ReceiveQuery \/ DT!TimePasses \/ DT!SetZone \/ DT!DoExit \/ DT!Tamper \/ DT!TamperClock
        \/ DT!Observe \/ (\E c \in DT!Call \cup {DT!Query} : DT!Ask(c)) \/ UNCHANGED DT!vars
        => UNCHANGED <<x10, x11>>
  BY DEF DT!Activate, DT!ReceiveQuery, DT!TimePasses, DT!SetZone, DT!DoExit, DT!Tamper, DT!TamperClock, DT!Observe,
         DT!Ask, DT!vars, DT!dtown
<1> QED
  BY <1>1, <1>2, <1>3, <1>4, <1>5, <1>6, <1>7, <1>8 DEF DT!Next

(* What the clocks are set to is what is due.                              *)
LEMMA ClocksStep ==
  DT!StagesHaveCalls /\ DT!ClocksAreAtStage /\ [DT!Next]_DT!vars => DT!ClocksAreAtStage'
<1> SUFFICES ASSUME DT!StagesHaveCalls, DT!ClocksAreAtStage, [DT!Next]_DT!vars PROVE DT!ClocksAreAtStage'
  OBVIOUS
<1> USE DEF DT!ClocksAreAtStage
<1>1. CASE /\ UNCHANGED <<x12, x13, x14, x15, x16, x17, x20>>
           /\ x11' \in {"hwclock", "sysconfig"} => UNCHANGED <<x10, x11>>
  BY <1>1
<1>2. CASE DT!Receive
  <2>1. x13' = x14' /\ x14' \in Int
    BY <1>2 DEF DT!Receive, DT!ReadClock, DT!Asked, DT!Ahead
  <2> QED
    BY <1>2, <2>1 DEF DT!Receive, DT!clocks
<1>3. CASE DT!TimePasses
  BY <1>3 DEF DT!TimePasses, DT!clocks
<1>4. CASE DT!SetTimeOfDay
  BY <1>4 DEF DT!SetTimeOfDay, DT!Reply
<1>5. CASE DT!SetHardwareClock
  BY <1>5 DEF DT!SetHardwareClock, DT!Reply
<1>6. CASE DT!SetMode
  BY <1>6 DEF DT!SetMode, DT!Systohc, DT!Reply
<1>7. CASE DT!Tamper
  BY <1>7 DEF DT!Tamper, DT!clocks
<1>8. CASE DT!TamperClock
  BY <1>8 DEF DT!TamperClock
<1>9. ASSUME NEW authorized \in BOOLEAN, DT!CheckPolkit(authorized) PROVE DT!ClocksAreAtStage'
  <2>1. UNCHANGED <<x12, x13, x14, x15, x16, x17, x20>>
    BY <1>9 DEF DT!CheckPolkit, DT!clocks
  <2>2. x11' \in {"idle", "zone", "utc", "clock"}
    BY <1>9 DEF DT!CheckPolkit, DT!Reply
  <2> QED
    BY <1>1, <2>1, <2>2
<1>10. DT!UpdateSysconfig \/ DT!ZoneIsSet \/ DT!SetZoneFails
         => UNCHANGED <<x12, x13, x14, x15, x16, x17, x20>> /\ x11' = "idle"
  BY DEF DT!UpdateSysconfig, DT!ZoneIsSet, DT!SetZoneFails, DT!Reply, DT!clocks
<1>11. DT!Activate \/ DT!ReceiveQuery \/ DT!SetZone \/ DT!DoExit
         \/ DT!Observe \/ (\E c \in DT!Call \cup {DT!Query} : DT!Ask(c)) \/ UNCHANGED DT!vars
         => UNCHANGED <<x10, x11, x12, x13, x14, x15, x16, x17, x20>>
  BY DEF DT!Activate, DT!ReceiveQuery, DT!SetZone, DT!DoExit, DT!Observe, DT!Ask, DT!vars, DT!dtown, DT!clocks
<1> QED
  BY <1>1, <1>2, <1>3, <1>4, <1>5, <1>6, <1>7, <1>8, <1>9, <1>10, <1>11 DEF DT!Next

(* While a zone is being set the files that were written name it.          *)
LEMMA ZoneStep ==
  DT!StagesHaveCalls /\ DT!ZoneIsAtStage /\ [DT!Next]_DT!vars => DT!ZoneIsAtStage'
<1> SUFFICES ASSUME DT!StagesHaveCalls, DT!ZoneIsAtStage, [DT!Next]_DT!vars PROVE DT!ZoneIsAtStage'
  OBVIOUS
<1> USE DEF DT!ZoneIsAtStage
<1>0. Len(DT!ConfigKey) = 6 /\ DOMAIN DT!ConfigKey = 1..6
  BY DEF DT!ConfigKey
<1>1. CASE /\ UNCHANGED <<x1, x2, x3, x20>>
           /\ x11' = x11 /\ x10' = x10
  BY <1>1
<1>2. CASE x11' # "zone" /\ x3' = DT!NoJob
  <2>1. DT!NoJob \in [zone : DT!Zone \cup {DT!NoZone}, done : 0..7]
    BY DEF DT!NoJob
  <2> QED
    BY <1>0, <1>2, <2>1
<1>3. CASE x11' # "zone" /\ x11 # "zone" /\ x3' = x3
  BY <1>3
<1>4. ASSUME NEW authorized \in BOOLEAN, DT!CheckPolkit(authorized) PROVE DT!ZoneIsAtStage'
  <2>1. CASE x3' = x3 /\ x11' \in {"idle", "utc", "clock"}
    BY <1>3, <1>4, <2>1 DEF DT!CheckPolkit
  <2>2. CASE /\ x10[1] = "SetTimezone" /\ x10[2] # DT!NoZone /\ x10' = x10
             /\ DT!SetFromFile(x10[2]) /\ x11' = "zone"
    <3>1. x10 \in DT!Call
      BY <1>4 DEF DT!StagesHaveCalls, DT!CheckPolkit
    <3>2. x10[2] \in DT!Zone
      BY <2>2, <3>1 DEF DT!Call
    <3>3. x3' = [zone |-> x10[2], done |-> 0] /\ x3' # DT!NoJob
      BY <2>2 DEF DT!SetFromFile, DT!NoJob
    <3> QED
      BY <1>0, <2>2, <3>2, <3>3
  <2> QED
    BY <1>4, <2>1, <2>2 DEF DT!CheckPolkit, DT!Reply
<1>5. CASE DT!SetZone
  <2>1. x10' = x10 /\ x11' = "zone" /\ x11 = "zone" /\ x20' = x20
    BY <1>5 DEF DT!SetZone, DT!dtown
  <2>2. x3.zone # DT!NoZone /\ x3.zone \in DT!Zone /\ x3.zone = x10[2]
    BY <2>1 DEF DT!Zone, DT!NoZone
  <2>3. \A n : [x3 EXCEPT !.done = n] # DT!NoJob
    BY <2>2 DEF DT!NoJob
  <2>4. CASE DT!SetLink \/ DT!SetCopy
    <3>1. x1' \in {DT!Link(x3.zone)} \cup DT!Copy(x3.zone) /\ x3' = [x3 EXCEPT !.done = 1] /\ x2' = x2
      BY <2>4 DEF DT!SetLink, DT!SetCopy
    <3> QED
      BY <1>0, <2>1, <2>2, <2>3, <3>1
  <2>5. CASE DT!UpdateConfig
    <3>1. /\ x3.done \in 1..6 /\ x3' = [x3 EXCEPT !.done = x3.done + 1] /\ x1' = x1
          /\ x2' = IF DT!ConfigKey[x3.done] \in DOMAIN x2
                     THEN [x2 EXCEPT ![DT!ConfigKey[x3.done]] = x3.zone] ELSE x2
      BY <1>0, <2>5 DEF DT!UpdateConfig
    <3>2. x3'.done = x3.done + 1 /\ x3'.zone = x3.zone /\ x3' \in [zone : DT!Zone \cup {DT!NoZone}, done : 0..7]
      BY <1>0, <3>1
    <3>3. ASSUME ~x20', NEW i \in 1..6, i < x3'.done, DT!ConfigKey[i] \in DOMAIN x2'
          PROVE  x2'[DT!ConfigKey[i]] = x3'.zone
      <4>1. DT!ConfigKey[i] \in DOMAIN x2
        BY <3>1, <3>3
      <4>2. CASE i = x3.done
        BY <3>1, <3>2, <4>1, <4>2
      <4>3. CASE i < x3.done
        <5>1. x2[DT!ConfigKey[i]] = x3.zone
          BY <1>0, <2>1, <3>3, <4>1, <4>3
        <5> QED
          BY <3>1, <3>2, <4>1, <5>1
      <4> QED
        BY <3>1, <3>2, <3>3, <4>2, <4>3
    <3> QED
      BY <1>0, <2>1, <2>2, <2>3, <3>1, <3>2, <3>3
  <2> QED
    BY <1>5, <2>4, <2>5 DEF DT!SetZone
<1>6. DT!ZoneIsSet \/ DT!SetZoneFails => x11' # "zone" /\ x3' = DT!NoJob
  BY DEF DT!ZoneIsSet, DT!SetZoneFails, DT!SetLocaltimeFails, DT!UpdateConfigFails, DT!Reply
<1>7. CASE DT!Tamper
  BY <1>7 DEF DT!Tamper, DT!OtherSets
<1>8. DT!Receive \/ DT!SetTimeOfDay \/ DT!SetHardwareClock \/ DT!SetMode \/ DT!UpdateSysconfig
        => x3' = x3 /\ (x11' # "zone") /\ (x11 # "zone")
  BY DEF DT!StagesHaveCalls, DT!Receive, DT!SetTimeOfDay, DT!SetHardwareClock, DT!SetMode, DT!UpdateSysconfig,
     DT!Reply, DT!tzvars
<1>9. CASE DT!TamperClock
  BY <1>9 DEF DT!TamperClock
<1>10. DT!Activate \/ DT!ReceiveQuery \/ DT!TimePasses \/ DT!DoExit
         \/ DT!Observe \/ (\E c \in DT!Call \cup {DT!Query} : DT!Ask(c)) \/ UNCHANGED DT!vars
         => UNCHANGED <<x1, x2, x3, x10, x11, x20>>
  BY DEF DT!Activate, DT!ReceiveQuery, DT!TimePasses, DT!DoExit, DT!Observe, DT!MonitorChanged, DT!Ask, DT!vars,
         DT!dtown, DT!tzvars, DT!clocks
<1> QED
  BY <1>1, <1>2, <1>3, <1>4, <1>5, <1>6, <1>7, <1>8, <1>9, <1>10 DEF DT!Next

(* The object has the zone that is found, once it was told.                *)
LEMMA ObjectStep == DT!ObjectFollowsSystem /\ [DT!Next]_DT!vars => DT!ObjectFollowsSystem'
<1> SUFFICES ASSUME DT!ObjectFollowsSystem, [DT!Next]_DT!vars PROVE DT!ObjectFollowsSystem'
  OBVIOUS
<1>1. CASE UNCHANGED <<x1, x2, x4, x5, x6>>
  BY <1>1 DEF DT!ObjectFollowsSystem
<1>2. CASE x5' \/ x6'
  BY <1>2 DEF DT!ObjectFollowsSystem
<1>3. CASE DT!Observe
  BY <1>3 DEF DT!Observe, DT!MonitorChanged, DT!ObjectFollowsSystem
<1>4. DT!SetZone \/ DT!SetZoneFails \/ DT!Tamper => x5' \/ x6' \/ UNCHANGED <<x1, x2, x4, x5, x6>>
  BY Zenon DEF DT!SetZone, DT!SetZoneFails, DT!Tamper, DT!SetLink, DT!SetCopy, DT!UpdateConfig, DT!SetLocaltimeFails,
     DT!UpdateConfigFails, DT!OtherSets, DT!Stir
<1>5. DT!Activate \/ DT!Receive \/ DT!ReceiveQuery \/ DT!TimePasses \/ DT!SetTimeOfDay \/ DT!SetHardwareClock \/ DT!SetMode
        \/ DT!UpdateSysconfig \/ DT!ZoneIsSet \/ DT!DoExit \/ DT!TamperClock
        \/ (\E c \in DT!Call \cup {DT!Query} : DT!Ask(c)) \/ (\E authorized \in BOOLEAN : DT!CheckPolkit(authorized))
        \/ UNCHANGED DT!vars
      => UNCHANGED <<x1, x2, x4, x5, x6>>
  BY DEF DT!Activate, DT!Receive, DT!ReceiveQuery, DT!TimePasses, DT!SetTimeOfDay, DT!SetHardwareClock, DT!SetMode,
     DT!UpdateSysconfig, DT!ZoneIsSet, DT!DoExit, DT!TamperClock, DT!Ask, DT!CheckPolkit, DT!vars, DT!tzvars
<1> QED
  BY <1>1, <1>2, <1>3, <1>4, <1>5 DEF DT!Next

(* A call that is answered with success did what it was asked for, and     *)
(* until the next is handled only others undo it.                          *)
LEMMA AnswersStep ==
  ASSUME DT!StagesHaveCalls, DT!ClocksAreAtStage, DT!ZoneIsAtStage, DT!AnswersAreTrue,
         DT!StagesHaveCalls', [DT!Next]_DT!vars
  PROVE  DT!AnswersAreTrue'
<1>1. CASE x10' # DT!NoCall \/ x19'.error \/ x20'
  BY <1>1 DEF DT!AnswersAreTrue
<1>2. CASE UNCHANGED <<x1, x2, x10, x12, x13, x15, x16, x17, x18, x19, x20>>
  BY <1>2 DEF DT!AnswersAreTrue
<1>3. DT!Reply(TRUE) => x19'.error
  BY DEF DT!Reply
<1>4. DT!Reply(FALSE) => x19' = [call |-> x10, error |-> FALSE]
  BY DEF DT!Reply
<1>5. CASE DT!SetHardwareClock
  <2>1. CASE DT!Reply(TRUE)
    BY <1>1, <1>3, <2>1
  <2>2. CASE DT!Reply(FALSE) /\ ~x20
    <3>1. x11 = "hwclock" /\ x12 = x13 - x15 /\ x10[1] \in {"SetTime", "AdjustTime"}
      BY <1>5, <2>2 DEF DT!SetHardwareClock, DT!StagesHaveCalls, DT!ClocksAreAtStage
    <3>2. UNCHANGED <<x12, x13, x15>> /\ (x16' # DT!NoProgram => x16'.ahead = x12)
      BY <1>5, <2>2 DEF DT!SetHardwareClock, DT!Systohc, DT!Reply
    <3> QED
      BY <1>4, <2>2, <3>1, <3>2 DEF DT!AnswersAreTrue
  <2>3. CASE x20
    BY <1>1, <1>5, <2>3 DEF DT!SetHardwareClock
  <2> QED
    BY <1>5, <2>1, <2>2, <2>3 DEF DT!SetHardwareClock
<1>6. CASE DT!SetMode
  <2>1. x10[1] = "SetHardwareClockUsingUtc"
    BY <1>6 DEF DT!SetMode, DT!StagesHaveCalls
  <2>2. CASE DT!Reply(TRUE)
    BY <1>1, <1>3, <2>2
  <2>3. CASE x16 = DT!NoProgram /\ DT!Reply(FALSE) /\ x16' = x16
    BY <1>4, <2>1, <2>3 DEF DT!AnswersAreTrue
  <2>4. CASE x11' = "sysconfig"
    BY <1>1, <2>4 DEF DT!StagesHaveCalls
  <2> QED
    BY <1>6, <2>2, <2>3, <2>4 DEF DT!SetMode
<1>7. CASE DT!UpdateSysconfig
  <2>1. CASE DT!Reply(TRUE)
    BY <1>1, <1>3, <2>1
  <2>2. CASE DT!Reply(FALSE) /\ x18' = (IF x18 = "none" THEN "none" ELSE x10[2])
    <3>1. x10[1] = "SetHardwareClockUsingUtc" /\ x16.mode = x10[2] /\ x17 = x10[2]
      BY <1>7 DEF DT!UpdateSysconfig, DT!StagesHaveCalls, DT!ClocksAreAtStage
    <3>2. UNCHANGED <<x16, x17>>
      BY <1>7 DEF DT!UpdateSysconfig
    <3> QED
      BY <1>4, <2>2, <3>1, <3>2 DEF DT!AnswersAreTrue
  <2> QED
    BY <1>7, <2>1, <2>2 DEF DT!UpdateSysconfig
<1>8. CASE DT!ZoneIsSet
  <2>1. DT!Reply(FALSE) /\ UNCHANGED <<x1, x2, x20>> /\ x3 # DT!NoJob /\ x3.done = Len(DT!ConfigKey) + 1
    BY <1>8 DEF DT!ZoneIsSet, DT!JobIsDone
  <2>2. x11 = "zone" /\ x10[1] = "SetTimezone" /\ x3.zone = x10[2] /\ x10[2] \in DT!Zone
    BY <2>1 DEF DT!StagesHaveCalls, DT!ZoneIsAtStage
  <2>3. Len(DT!ConfigKey) = 6 /\ DOMAIN DT!ConfigKey = 1..6
    BY DEF DT!ConfigKey
  <2>4. CASE ~x20
    <3>1. /\ x1 \in {DT!Link(x10[2])} \cup DT!Copy(x10[2])
          /\ \A i \in DOMAIN DT!ConfigKey :
               DT!ConfigKey[i] \in DOMAIN x2 => x2[DT!ConfigKey[i]] = x10[2]
      BY <2>1, <2>2, <2>3, <2>4 DEF DT!ZoneIsAtStage
    <3>2. DT!IsValid(x10[2]) /\ x1.inode = DT!NoZone
            => DT!StripPath(DT!Find(x1, x2)) = DT!StripPath(x10[2])
      BY <2>2, <3>1, WrittenIsFound
    <3> QED
      BY <1>4, <2>1, <2>2, <3>2 DEF DT!AnswersAreTrue
  <2>5. CASE x20
    BY <1>1, <2>1, <2>5
  <2> QED
    BY <2>4, <2>5
<1>9. DT!SetZoneFails => x19'.error
  BY DEF DT!SetZoneFails, DT!Reply
<1>10. ASSUME NEW authorized \in BOOLEAN, DT!CheckPolkit(authorized)
       PROVE  x10' # DT!NoCall \/ x19'.error
  BY <1>10 DEF DT!CheckPolkit, DT!Reply, DT!StagesHaveCalls
<1>11. DT!SetTimeOfDay => x10' # DT!NoCall \/ x19'.error
  BY DEF DT!SetTimeOfDay, DT!Reply, DT!StagesHaveCalls
<1>12. DT!TimePasses \/ DT!SetZone => x10' # DT!NoCall
  BY DEF DT!TimePasses, DT!SetZone, DT!dtown, DT!StagesHaveCalls
<1>13. DT!Receive => x11' # "idle"
  BY DEF DT!Receive
<1>14. DT!Tamper \/ DT!TamperClock => x20'
  BY DEF DT!Tamper, DT!TamperClock
<1>15. DT!Activate \/ DT!ReceiveQuery \/ DT!DoExit \/ DT!Observe
         \/ (\E c \in DT!Call \cup {DT!Query} : DT!Ask(c)) \/ UNCHANGED DT!vars
       => UNCHANGED <<x1, x2, x10, x12, x13, x15, x16, x17, x18, x19, x20>>
  BY DEF DT!Activate, DT!ReceiveQuery, DT!DoExit, DT!Observe, DT!MonitorChanged, DT!Ask, DT!vars, DT!tzvars, DT!dtown,
     DT!clocks
<1>16. DT!Receive => x10' # DT!NoCall
  BY <1>13 DEF DT!StagesHaveCalls
<1> QED
  BY <1>1, <1>2, <1>5, <1>6, <1>7, <1>8, <1>9, <1>10, <1>11, <1>12, <1>14, <1>15, <1>16 DEF DT!Next

-----------------------------------------------------------------------------
(* What is kept of the mechanism and of the object that knows the zone.    *)
Answering ==
  plugin = "datetime" =>
    /\ DT!StagesHaveCalls /\ DT!ClocksAreAtStage /\ DT!ZoneIsAtStage
    /\ DT!AnswersAreTrue /\ DT!ObjectFollowsSystem

(* Nothing was asked at first.                                             *)
LEMMA InitAnswering == SumInit => Answering
<1> SUFFICES ASSUME SumInit, plugin = "datetime"
             PROVE  /\ DT!StagesHaveCalls /\ DT!ClocksAreAtStage /\ DT!ZoneIsAtStage
                    /\ DT!AnswersAreTrue /\ DT!ObjectFollowsSystem
  BY DEF Answering
<1>1. DT!Init
  BY DEF SumInit
<1>2. x10 = DT!NoCall /\ x11 = "idle" /\ x12 = 0 /\ x13 = 0 /\ x14 = 0 /\ x15 = 0 /\ x19.call = DT!NoCall
  BY <1>1 DEF DT!Init
<1>3. x3 = DT!NoJob /\ x4 = DT!Find(x1, x2)
  BY <1>1 DEF DT!Init, DT!TZInit
<1>4. DT!StagesHaveCalls /\ DT!ClocksAreAtStage
  BY <1>2 DEF DT!StagesHaveCalls, DT!ClocksAreAtStage
<1>5. DT!ZoneIsAtStage
  BY <1>2, <1>3 DEF DT!ZoneIsAtStage, DT!NoJob, DT!ConfigKey
<1>6. DT!AnswersAreTrue
  BY <1>2 DEF DT!AnswersAreTrue, DT!NoCall
<1> QED
  BY <1>3, <1>4, <1>5, <1>6 DEF DT!ObjectFollowsSystem

(* What the mechanism answers is so (the functions of                      *)
(* csd_datetime_mechanism.c that set the clock, the zone and the hardware  *)
(* clock's mode), and the zone that a SystemTimezone object knows is the   *)
(* system's: for any number of calls and of changes by others, wherever    *)
(* the system keeps its zone.                                              *)
THEOREM AnswersAreTrueAlways == SumSpec => []AnswersAreTrue
<1>1. Answering /\ [SumNext]_<<plugin, size, vars, xs>> => Answering'
  <2> SUFFICES ASSUME Answering, [SumNext]_<<plugin, size, vars, xs>>, plugin' = "datetime" PROVE Answering'
    BY DEF Answering
  <2>1. plugin = "datetime" /\ [DT!Next]_DT!vars
    BY Picked
  <2> QED
    BY <2>1, StagesStep, ClocksStep, ZoneStep, AnswersStep, ObjectStep, Zenon DEF Answering
<1>2. Answering => AnswersAreTrue
  BY DEF Answering, AnswersAreTrue
<1> QED
  BY <1>1, <1>2, InitAnswering, PTL DEF SumSpec

=============================================================================
