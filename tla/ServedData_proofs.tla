-------------------------- MODULE ServedData_proofs --------------------------
(***************************************************************************)
(* What the database serves, for any requests, VMs, names, lists and       *)
(* collections: the stored inventories are current and the outbox brings   *)
(* the console up to date (UserData); utilization is answered from whole   *)
(* reports only (Rightsizing).                                             *)
(***************************************************************************)
EXTENDS UserData, Rightsizing, FiniteSetTheorems, TLAPS

\* A set of positions has a last one.
LEMMA MaxOfPositions ==
    ASSUME NEW n \in Nat, NEW S \in SUBSET (0..n), S # {}
    PROVE  Max(S) \in S /\ \A i \in S : i <= Max(S)
<1> DEFINE above == {n - i : i \in S}
<1>1. \A i \in S : i \in Nat /\ n - i \in Nat
  OBVIOUS
<1>2. above \subseteq Nat /\ above # {}
  BY <1>1
<1>3. PICK d \in above : \A c \in above : ~ (<<c, d>> \in OpToRel(<, Nat))
  BY <1>2, WFMin, NatLessThanWellFounded
<1>4. \A c, e \in Nat : c < e => <<c, e>> \in OpToRel(<, Nat)
  BY Zenon DEF OpToRel
<1>5. \A c \in above : ~ (c < d)
  BY <1>2, <1>3, <1>4, Zenon
<1>6. PICK e \in S : d = n - e
  OBVIOUS
<1>7. \A i \in S : i <= e
  <2>1. \A i \in S : ~ (n - i < n - e)
    BY <1>5, <1>6
  <2> QED
    BY <1>1, <2>1
<1>8. \A i \in S : e >= i
  BY <1>1, <1>7
<1>9. Max(S) \in S /\ \A i \in S : Max(S) >= i
  BY <1>8, Zenon DEF Max
<1> QED
  BY <1>1, <1>9

\* The list of a finite set has every element of it once.
LEMMA ListOfSet ==
    ASSUME NEW S, IsFiniteSet(S)
    PROVE  /\ Cardinality(S) \in Nat
           /\ SetToSeq(S) \in [1..Cardinality(S) -> S]
           /\ \A i, j \in 1..Cardinality(S) : SetToSeq(S)[i] = SetToSeq(S)[j] => i = j
           /\ \A x \in S : \E i \in 1..Cardinality(S) : SetToSeq(S)[i] = x
<1> DEFINE n == Cardinality(S)
<1>1. n \in Nat /\ ExistsBijection(1..n, S)
  BY FS_CardinalityType
<1>2. \E f \in [1..n -> S] : IsInjective(f)
  BY <1>1 DEF ExistsBijection, Bijection, Injection
<1>3. SetToSeq(S) \in [1..n -> S] /\ IsInjective(SetToSeq(S))
  BY <1>2, Zenon DEF SetToSeq
<1>4. SetToSeq(S) \in Injection(1..n, S)
  BY <1>3, Zenon DEF Injection
<1>5. IsFiniteSet(1..n) /\ Cardinality(1..n) = n
  <2>1. 1 \in Int /\ n \in Int
    BY <1>1
  <2>2. Cardinality(1..n) = IF 1 > n THEN 0 ELSE n - 1 + 1
    BY <2>1, FS_Interval
  <2> QED
    BY <1>1, <2>1, <2>2, FS_Interval
<1>6. SetToSeq(S) \in Surjection(1..n, S)
  BY <1>4, <1>5, FS_Injection
<1>7. \A i, j \in 1..n : SetToSeq(S)[i] = SetToSeq(S)[j] => i = j
  BY <1>3 DEF IsInjective
<1>8. \A x \in S : \E i \in 1..n : SetToSeq(S)[i] = x
  BY <1>6, Zenon DEF Surjection
<1> QED
  BY <1>1, <1>3, <1>7, <1>8

-----------------------------------------------------------------------------
(* What the console makes of an outbox *)

\* The value an event leaves with the console.
Left(e) == IF e.kind = "delete" THEN Nil ELSE e.inv

\* The positions B of a second part behind n of a first, and A of the first.
Positions(A, s) == A \subseteq 1..Len(s)
Joined(A, n, B) == A \cup {n + i : i \in B}

\* Of two parts of an outbox the second decides, unless it says nothing.
LEMMA LastWins ==
    ASSUME NEW s \in Seq(Events), NEW t \in Seq(Events), NEW held,
           NEW A, Positions(A, s), NEW B, Positions(B, t), NEW k
    PROVE  /\ B = {} => Apply(held, s \o t, Joined(A, Len(s), B)) = Apply(held, s, A)
           /\ k \in B /\ B = {k} => Apply(held, s \o t, Joined(A, Len(s), B)) = Left(t[k])
<1> DEFINE C == Joined(A, Len(s), B)
<1>0. C = A \cup {Len(s) + i : i \in B}
  BY DEF Joined
<1> HIDE DEF C
<1>1. Len(s) \in Nat /\ Len(t) \in Nat /\ A \in SUBSET (1..Len(s)) /\ B \in SUBSET (1..Len(t))
  BY DEF Positions
<1>2. ASSUME B = {} PROVE Apply(held, s \o t, C) = Apply(held, s, A)
  <2>1. C = A
    BY <1>0, <1>2
  <2>2. CASE A = {}
    BY <2>1, <2>2 DEF Apply
  <2>3. CASE A # {}
    <3>1. Max(A) \in A
      <4>1. A \in SUBSET (0..Len(s))
        BY <1>1
      <4> QED
        BY <1>1, <2>3, <4>1, MaxOfPositions
    <3>2. (s \o t)[Max(A)] = s[Max(A)]
      <4>1. \A i \in 1..Len(s) : (s \o t)[i] = s[i]
        BY <1>1
      <4> QED
        BY <1>1, <3>1, <4>1
    <3> QED
      BY <2>1, <2>3, <3>2 DEF Apply
  <2> QED
    BY <2>2, <2>3
<1>3. ASSUME k \in B, B = {k} PROVE Apply(held, s \o t, C) = Left(t[k])
  <2>1. k \in Nat /\ k >= 1 /\ k <= Len(t) /\ C = A \cup {Len(s) + k}
    BY <1>0, <1>1, <1>3
  <2>2. \A i \in C : i \in Nat /\ Len(s) + k >= i
    BY <1>1, <2>1
  <2>3. Max(C) = Len(s) + k
    <3>1. \A x \in C : (\A y \in C : x >= y) => x = Len(s) + k
      BY <1>1, <2>1, <2>2
    <3>2. Len(s) + k \in C /\ \A y \in C : Len(s) + k >= y
      BY <2>1, <2>2
    <3> QED
      BY <3>1, <3>2, Zenon DEF Max
  <2>4. (s \o t)[Len(s) + k] = t[k]
    BY <1>1, <2>1
  <2> QED
    BY <2>1, <2>3, <2>4 DEF Apply, Left
<1> QED
  BY <1>2, <1>3 DEF C

\* The events of two parts of an outbox.
Both(s, t) ==
    /\ Positions(MainEvents(s), s) /\ Positions(MainEvents(t), t)
    /\ MainEvents(s \o t) = Joined(MainEvents(s), Len(s), MainEvents(t))
    /\ \A g \in Requests :
         /\ Positions(GroupEvents(s, g), s) /\ Positions(GroupEvents(t, g), t)
         /\ GroupEvents(s \o t, g) = Joined(GroupEvents(s, g), Len(s), GroupEvents(t, g))

\* Concatenation shifts the positions of the second part.
LEMMA EventsOfBoth ==
    ASSUME NEW s \in Seq(Events), NEW t \in Seq(Events)
    PROVE  Both(s, t)
<1>1. /\ Len(s) \in Nat /\ Len(t) \in Nat /\ DOMAIN s = 1..Len(s) /\ DOMAIN t = 1..Len(t)
      /\ DOMAIN (s \o t) = 1..(Len(s) + Len(t))
      /\ \A i \in 1..Len(s) : (s \o t)[i] = s[i]
      /\ \A i \in 1..Len(t) : (s \o t)[Len(s) + i] = t[i]
  OBVIOUS
<1>2. \A j \in 1..(Len(s) + Len(t)) : j \in 1..Len(s) \/ \E i \in 1..Len(t) : j = Len(s) + i
  <2>1. \A j \in 1..(Len(s) + Len(t)) : j > Len(s) => j - Len(s) \in 1..Len(t) /\ j = Len(s) + (j - Len(s))
    BY <1>1
  <2>2. \A j \in 1..(Len(s) + Len(t)) : ~ (j > Len(s)) => j \in 1..Len(s)
    BY <1>1
  <2> QED
    BY <2>1, <2>2, Zenon
<1>3. \A i \in 1..Len(t) : Len(s) + i \in 1..(Len(s) + Len(t))
  BY <1>1
<1>4. \A i \in 1..Len(s) : i \in 1..(Len(s) + Len(t))
  BY <1>1
<1> DEFINE L == Len(s)  M == Len(t)  N == Len(s) + Len(t)  u == s \o t
<1>5. MainEvents(u) = MainEvents(s) \cup {L + i : i \in MainEvents(t)}
  <2>1. ASSUME NEW j \in MainEvents(u) PROVE j \in MainEvents(s) \cup {L + i : i \in MainEvents(t)}
    <3>1. j \in 1..N
      BY <1>1, <2>1, Zenon DEF MainEvents
    <3>2. CASE j \in 1..L
      BY <1>1, <2>1, <3>2, Zenon DEF MainEvents
    <3>3. CASE \E i \in 1..M : j = L + i
      <4>1. PICK i \in 1..M : j = L + i
        BY <3>3
      <4>2. i \in MainEvents(t)
        BY <1>1, <2>1, <4>1, Zenon DEF MainEvents
      <4> QED
        BY <4>1, <4>2, Zenon
    <3> QED
      BY <1>2, <3>1, <3>2, <3>3, Zenon
  <2>2. ASSUME NEW j \in MainEvents(s) PROVE j \in MainEvents(u)
    BY <1>1, <1>4, <2>2, Zenon DEF MainEvents
  <2>3. ASSUME NEW i \in MainEvents(t) PROVE L + i \in MainEvents(u)
    BY <1>1, <1>3, <2>3, Zenon DEF MainEvents
  <2> QED
    BY <2>1, <2>2, <2>3, Zenon
<1>6. \A g \in Requests : GroupEvents(u, g) = GroupEvents(s, g) \cup {L + i : i \in GroupEvents(t, g)}
  <2> TAKE g \in Requests
  <2>1. ASSUME NEW j \in GroupEvents(u, g) PROVE j \in GroupEvents(s, g) \cup {L + i : i \in GroupEvents(t, g)}
    <3>1. j \in 1..N
      BY <1>1, <2>1, Zenon DEF GroupEvents
    <3>2. CASE j \in 1..L
      BY <1>1, <2>1, <3>2, Zenon DEF GroupEvents
    <3>3. CASE \E i \in 1..M : j = L + i
      <4>1. PICK i \in 1..M : j = L + i
        BY <3>3
      <4>2. i \in GroupEvents(t, g)
        BY <1>1, <2>1, <4>1, Zenon DEF GroupEvents
      <4> QED
        BY <4>1, <4>2, Zenon
    <3> QED
      BY <1>2, <3>1, <3>2, <3>3, Zenon
  <2>2. ASSUME NEW j \in GroupEvents(s, g) PROVE j \in GroupEvents(u, g)
    BY <1>1, <1>4, <2>2, Zenon DEF GroupEvents
  <2>3. ASSUME NEW i \in GroupEvents(t, g) PROVE L + i \in GroupEvents(u, g)
    BY <1>1, <1>3, <2>3, Zenon DEF GroupEvents
  <2> QED
    BY <2>1, <2>2, <2>3, Zenon
<1>7. MainEvents(s) \in SUBSET (1..L) /\ MainEvents(t) \in SUBSET (1..M)
      /\ \A g \in Requests : GroupEvents(s, g) \in SUBSET (1..L) /\ GroupEvents(t, g) \in SUBSET (1..M)
  BY <1>1, Zenon DEF MainEvents, GroupEvents
<1> QED
  BY <1>5, <1>6, <1>7 DEF Joined, Positions, Both

\* Once more of an outbox is read, what no new event is about stays.
Reads(s, t, held) ==
    /\ MainEvents(t) = {} => Replay(held, s \o t).main = Replay(held, s).main
    /\ \A k \in MainEvents(t) : MainEvents(t) = {k} => Replay(held, s \o t).main = Left(t[k])
    /\ \A g \in Requests :
         /\ GroupEvents(t, g) = {} => Replay(held, s \o t).groups[g] = Replay(held, s).groups[g]
         /\ \A k \in GroupEvents(t, g) : GroupEvents(t, g) = {k} => Replay(held, s \o t).groups[g] = Left(t[k])

\* Replay of an outbox that has grown.
LEMMA Replayed ==
    ASSUME NEW s \in Seq(Events), NEW t \in Seq(Events), NEW held
    PROVE  Reads(s, t, held)
<1>1. /\ Replay(held, s).main = Apply(held.main, s, MainEvents(s))
      /\ Replay(held, s \o t).main = Apply(held.main, s \o t, MainEvents(s \o t))
      /\ \A g \in Requests :
           /\ Replay(held, s).groups[g] = Apply(held.groups[g], s, GroupEvents(s, g))
           /\ Replay(held, s \o t).groups[g] = Apply(held.groups[g], s \o t, GroupEvents(s \o t, g))
  BY DEF Replay
<1>2. /\ MainEvents(t) = {} => Apply(held.main, s \o t, MainEvents(s \o t)) = Apply(held.main, s, MainEvents(s))
      /\ \A k \in MainEvents(t) :
            MainEvents(t) = {k} => Apply(held.main, s \o t, MainEvents(s \o t)) = Left(t[k])
  <2>1. /\ Positions(MainEvents(s), s) /\ Positions(MainEvents(t), t)
        /\ MainEvents(s \o t) = Joined(MainEvents(s), Len(s), MainEvents(t))
    BY EventsOfBoth DEF Both
  <2>2. ASSUME NEW k, NEW h
        PROVE  /\ MainEvents(t) = {} => Apply(h, s \o t, Joined(MainEvents(s), Len(s), MainEvents(t))) = Apply(h, s, MainEvents(s))
               /\ k \in MainEvents(t) /\ MainEvents(t) = {k} => Apply(h, s \o t, Joined(MainEvents(s), Len(s), MainEvents(t))) = Left(t[k])
    BY <2>1, LastWins
  <2> QED
    BY <2>1, <2>2, Zenon
<1>3. ASSUME NEW g \in Requests
      PROVE  /\ GroupEvents(t, g) = {} =>
                   Apply(held.groups[g], s \o t, GroupEvents(s \o t, g)) = Apply(held.groups[g], s, GroupEvents(s, g))
             /\ \A k \in GroupEvents(t, g) : GroupEvents(t, g) = {k} =>
                   Apply(held.groups[g], s \o t, GroupEvents(s \o t, g)) = Left(t[k])
  <2>1. /\ Positions(GroupEvents(s, g), s) /\ Positions(GroupEvents(t, g), t)
        /\ GroupEvents(s \o t, g) = Joined(GroupEvents(s, g), Len(s), GroupEvents(t, g))
    BY EventsOfBoth DEF Both
  <2>2. ASSUME NEW k, NEW h
        PROVE  /\ GroupEvents(t, g) = {} => Apply(h, s \o t, Joined(GroupEvents(s, g), Len(s), GroupEvents(t, g))) = Apply(h, s, GroupEvents(s, g))
               /\ k \in GroupEvents(t, g) /\ GroupEvents(t, g) = {k} => Apply(h, s \o t, Joined(GroupEvents(s, g), Len(s), GroupEvents(t, g))) = Left(t[k])
    BY <2>1, LastWins
  <2> QED
    BY <2>1, <2>2, Zenon
<1> QED
  BY <1>1, <1>2, <1>3, Zenon DEF Reads

\* What the events of a transaction have to say for the console to catch up.
Tells(d, e, t) ==
    /\ t \in Seq(Events) /\ e.outbox = d.outbox \o t
    /\ \/ MainEvents(t) = {} /\ e.main = d.main
       \/ \E k \in MainEvents(t) : MainEvents(t) = {k} /\ Left(t[k]) = e.main
    /\ \A g \in Requests :
         \/ GroupEvents(t, g) = {} /\ e.inventory[g] \in {d.inventory[g], Nil}
         \/ \E k \in GroupEvents(t, g) : GroupEvents(t, g) = {k} /\ Left(t[k]) = e.inventory[g]

\* Events that tell of all changes keep the console able to catch up.
LEMMA TellsCatchUp ==
    ASSUME NEW d \in Dbs, NEW e \in Dbs, NEW t, Tells(d, e, t), NEW held,
           CaughtUp(d, Replay(held, d.outbox))
    PROVE  CaughtUp(e, Replay(held, e.outbox))
<1>1. d.outbox \in Seq(Events) /\ t \in Seq(Events) /\ e.outbox = d.outbox \o t
  BY DEF Tells, Dbs
<1> DEFINE old == Replay(held, d.outbox)  new == Replay(held, d.outbox \o t)
<1>0. /\ MainEvents(t) = {} => new.main = old.main
      /\ \A k \in MainEvents(t) : MainEvents(t) = {k} => new.main = Left(t[k])
      /\ \A g \in Requests :
           /\ GroupEvents(t, g) = {} => new.groups[g] = old.groups[g]
           /\ \A k \in GroupEvents(t, g) : GroupEvents(t, g) = {k} => new.groups[g] = Left(t[k])
  BY <1>1, Replayed DEF Reads
<1>2. new.main = e.main
  <2>1. CASE MainEvents(t) = {} /\ e.main = d.main
    BY <1>0, <2>1, Zenon DEF CaughtUp
  <2>2. CASE \E k \in MainEvents(t) : MainEvents(t) = {k} /\ Left(t[k]) = e.main
    BY <1>0, <2>2, Zenon
  <2> QED
    BY <2>1, <2>2, Zenon DEF Tells
<1>3. ASSUME NEW g \in Requests, e.inventory[g] # Nil PROVE new.groups[g] = e.inventory[g]
  <2>1. CASE GroupEvents(t, g) = {} /\ e.inventory[g] \in {d.inventory[g], Nil}
    <3>1. new.groups[g] = old.groups[g]
      BY <1>0, <2>1, Zenon
    <3>2. e.inventory[g] = d.inventory[g]
      BY <1>3, <2>1, Zenon
    <3> QED
      BY <1>3, <3>1, <3>2, Zenon DEF CaughtUp
  <2>2. CASE \E k \in GroupEvents(t, g) : GroupEvents(t, g) = {k} /\ Left(t[k]) = e.inventory[g]
    BY <1>0, <2>2, Zenon
  <2> QED
    BY <2>1, <2>2, Zenon DEF Tells
<1> QED
  BY <1>1, <1>2, <1>3, Zenon DEF CaughtUp

\* One event.
LEMMA OneEvent ==
    ASSUME NEW e \in Events
    PROVE  /\ <<e>> \in Seq(Events) /\ <<e>>[1] = e
           /\ MainEvents(<<e>>) = IF e.kind = "inventory" THEN {1} ELSE {}
           /\ \A g \in Requests :
                GroupEvents(<<e>>, g) = IF e.kind # "inventory" /\ e.group = g THEN {1} ELSE {}
<1>1. <<e>> \in Seq(Events) /\ DOMAIN <<e>> = {1} /\ <<e>>[1] = e
  <2>1. 1..1 = {1}
    OBVIOUS
  <2> QED
    BY <2>1
<1> HIDE DEF Events
<1>2. MainEvents(<<e>>) = IF e.kind = "inventory" THEN {1} ELSE {}
  BY <1>1, Zenon DEF MainEvents
<1>3. ASSUME NEW g \in Requests
      PROVE  GroupEvents(<<e>>, g) = IF e.kind # "inventory" /\ e.group = g THEN {1} ELSE {}
  BY <1>1, Zenon DEF GroupEvents
<1> QED
  BY <1>1, <1>2, <1>3, Zenon

\* One event for each group of a set.
EventList(gs, ev) == [i \in DOMAIN SetToSeq(gs) |-> ev[SetToSeq(gs)[i]]]
AboutGroups(gs, ev) == \A g \in gs : ev[g] \in Events /\ ev[g].kind # "inventory" /\ ev[g].group = g

OneEach(gs, ev, t) ==
    /\ t \in Seq(Events) /\ MainEvents(t) = {}
    /\ \A g \in gs : \E k \in GroupEvents(t, g) : GroupEvents(t, g) = {k} /\ t[k] = ev[g]
    /\ \A g \in Requests \ gs : GroupEvents(t, g) = {}

\* SetToSeq lists each group once, so each has one event.
LEMMA ListedEvents ==
    ASSUME NEW gs \in SUBSET Requests, NEW ev, AboutGroups(gs, ev)
    PROVE  OneEach(gs, ev, EventList(gs, ev))
<1> DEFINE n == Cardinality(gs)  list == SetToSeq(gs)  t == EventList(gs, ev)
<1>1. IsFiniteSet(gs)
  BY UserDataAssumption, FS_Subset
<1>2. /\ n \in Nat /\ list \in [1..n -> gs]
      /\ \A i, j \in 1..n : list[i] = list[j] => i = j
      /\ \A x \in gs : \E i \in 1..n : list[i] = x
  BY <1>1, ListOfSet
<1> HIDE DEF n, list
<1>3. t = [i \in 1..n |-> ev[list[i]]] /\ DOMAIN t = 1..n
  BY <1>2 DEF list, EventList
<1> HIDE DEF t
<1>4. \A i \in 1..n : list[i] \in gs /\ t[i] = ev[list[i]] /\ t[i] \in Events
  BY <1>2, <1>3 DEF AboutGroups
<1>5. t \in Seq(Events)
  BY <1>2, <1>3, <1>4
<1>6. \A i \in 1..n : t[i].kind # "inventory" /\ t[i].group = list[i]
  BY <1>4 DEF AboutGroups
<1>7. MainEvents(t) = {}
  BY <1>3, <1>6, Zenon DEF MainEvents
<1>8. ASSUME NEW g \in gs
      PROVE  \E k \in GroupEvents(t, g) : GroupEvents(t, g) = {k} /\ t[k] = ev[g]
  <2>1. PICK k \in 1..n : list[k] = g
    BY <1>2
  <2>2. GroupEvents(t, g) = {k}
    BY <1>2, <1>3, <1>6, <2>1 DEF GroupEvents
  <2>3. t[k] = ev[g]
    BY <1>4, <2>1, Zenon
  <2> QED
    BY <2>2, <2>3, Zenon
<1>9. ASSUME NEW g \in Requests \ gs PROVE GroupEvents(t, g) = {}
  BY <1>3, <1>4, <1>6 DEF GroupEvents
<1> QED
  BY <1>5, <1>7, <1>8, <1>9, Zenon DEF OneEach, t

-----------------------------------------------------------------------------
(* The transactions on a database *)

\* A group that is not there matches nothing.
NoOrphans(d) == \A g \in Requests : ~GroupGet(d, g) => d.matches[g] = {}

\* What a transaction keeps; new are the groups it may create.
Keeps(d, e, new) ==
    /\ e \in Dbs /\ Current(e) /\ NoOrphans(e)
    /\ \A g \in Requests : GroupGet(e, g) => GroupGet(d, g) \/ g \in new
    /\ \A held : CaughtUp(d, Replay(held, d.outbox)) => CaughtUp(e, Replay(held, e.outbox))

\* What BuildInventory returns is an inventory.
LEMMA InventoryBuilt ==
    ASSUME NEW d \in Dbs, NEW T \in SUBSET VMs
    PROVE  BuildInventory(d, T) \in Inventories
<1>1. d.labels \in [VMs -> SUBSET Labels] /\ d.excluded \in SUBSET VMs
  BY DEF Dbs
<1>2. LabelsOf(d, T) \in [VMs -> SUBSET Labels]
  BY <1>1 DEF LabelsOf
<1> DEFINE L == LabelsOf(d, T)
<1>3. BuildInventory(d, T) = [of |-> T, without |-> T \cap d.excluded, labels |-> L, utilization |-> FALSE]
  BY DEF BuildInventory
<1>4. L \in [VMs -> SUBSET Labels]
  BY <1>2
<1> HIDE DEF L
<1> QED
  BY <1>1, <1>3, <1>4 DEF Inventories

\* And so is what is saved for a group.
LEMMA InventoryTypes ==
    ASSUME NEW d \in Dbs, NEW S \in SUBSET VMs, NEW g \in Requests
    PROVE  BuildInventory(d, S) \in Inventories /\ GroupInventory(d, g) \in Inventories /\ Nil \in Inventories
<1>1. \A T \in SUBSET VMs : BuildInventory(d, T) \in Inventories
  BY InventoryBuilt
<1>2. GetMatchedIDs(d, g) \in SUBSET VMs
  BY DEF Dbs, GetMatchedIDs
<1>3. Nil \in Inventories
  BY DEF Inventories
<1> QED
  BY <1>1, <1>2, <1>3, Zenon DEF GroupInventory

\* A new inventory is one of the VMs it is built for.
LEMMA BuiltReflects ==
    ASSUME NEW d, NEW S
    PROVE  Reflects(d, BuildInventory(d, S), S)
  BY DEF Reflects, BuildInventory

\* An inventory remains one as long as the exclusions of its VMs do.
LEMMA StillReflects ==
    ASSUME NEW d, NEW e, NEW inv, NEW S, S \cap e.excluded = S \cap d.excluded, Reflects(d, inv, S)
    PROVE  Reflects(e, inv, S)
  BY DEF Reflects

\* AddGroupInventoryEvent and AddGroupInventoryDeleteEvent: what an event leaves.
LEMMA GroupEventFacts ==
    ASSUME NEW g \in Requests, NEW inv \in Inventories
    PROVE  /\ UpsertEvent(g, inv) \in Events /\ GroupEvent(g, inv) \in Events
           /\ UpsertEvent(g, inv).kind # "inventory" /\ GroupEvent(g, inv).kind # "inventory"
           /\ UpsertEvent(g, inv).group = g /\ GroupEvent(g, inv).group = g
           /\ Left(UpsertEvent(g, inv)) = inv /\ Left(GroupEvent(g, inv)) = inv
<1>1. /\ UpsertEvent(g, inv) \in Events /\ UpsertEvent(g, inv).kind # "inventory"
      /\ UpsertEvent(g, inv).group = g /\ Left(UpsertEvent(g, inv)) = inv
  BY DEF UpsertEvent, Events, Left
<1>2. /\ DeleteEvent(g) \in Events /\ DeleteEvent(g).kind # "inventory"
      /\ DeleteEvent(g).group = g /\ Left(DeleteEvent(g)) = Nil
  BY DEF DeleteEvent, Events, Left
<1> QED
  BY <1>1, <1>2, Zenon DEF GroupEvent

\* Transactions about labels change nothing else.
LEMMA LabelsKeep ==
    ASSUME NEW d \in Dbs, Current(d), NoOrphans(d), NEW L \in [VMs -> SUBSET Labels]
    PROVE  Keeps(d, [d EXCEPT !.labels = L], {})
<1> DEFINE e == [d EXCEPT !.labels = L]
<1>1. /\ e \in Dbs /\ e.vms = d.vms /\ e.excluded = d.excluded /\ e.groups = d.groups
      /\ e.matches = d.matches /\ e.inventory = d.inventory /\ e.main = d.main /\ e.outbox = d.outbox
  BY DEF Dbs
<1> HIDE DEF e
<1>2. Current(e)
  BY <1>1 DEF Current, Reflects, GroupGet
<1>3. NoOrphans(e) /\ \A g \in Requests : GroupGet(e, g) => GroupGet(d, g)
  BY <1>1 DEF NoOrphans, GroupGet
<1>4. \A held : CaughtUp(d, held) => CaughtUp(e, held)
  BY <1>1 DEF CaughtUp
<1> QED
  BY <1>1, <1>2, <1>3, <1>4 DEF Keeps, e

\* Saving a main inventory writes it and one event.
LEMMA MainSaved ==
    ASSUME NEW d \in Dbs, NEW main \in Inventories,
           NEW m, m = AddInventoryUpdateEvent([d EXCEPT !.main = main])
    PROVE  /\ m \in Dbs /\ m.vms = d.vms /\ m.labels = d.labels /\ m.excluded = d.excluded
           /\ m.groups = d.groups /\ m.matches = d.matches /\ m.inventory = d.inventory /\ m.main = main
           /\ Tells(d, m, <<[kind |-> "inventory", inv |-> m.main]>>)
<1> DEFINE ev == [kind |-> "inventory", inv |-> main]
<1>2. m = [[d EXCEPT !.main = main] EXCEPT !.outbox = @ \o <<[kind |-> "inventory", inv |-> [d EXCEPT !.main = main].main]>>]
  BY DEF AddInventoryUpdateEvent, AddEvents
<1>3. [d EXCEPT !.main = main].main = main
  BY DEF Dbs
<1>4. m = [[d EXCEPT !.main = main] EXCEPT !.outbox = @ \o <<ev>>]
  BY <1>2, <1>3
<1>5. ev \in Events /\ ev.kind = "inventory" /\ Left(ev) = main
  BY DEF Events, Left
<1> HIDE DEF ev
<1>6. /\ <<ev>> \in Seq(Events) /\ <<ev>>[1] = ev /\ MainEvents(<<ev>>) = {1}
      /\ \A g \in Requests : GroupEvents(<<ev>>, g) = {}
  BY <1>5, OneEvent, Zenon
<1>7. d.outbox \o <<ev>> \in Seq(Events)
  BY <1>6 DEF Dbs
<1>8. /\ m \in Dbs /\ m.vms = d.vms /\ m.labels = d.labels /\ m.excluded = d.excluded
      /\ m.groups = d.groups /\ m.matches = d.matches /\ m.inventory = d.inventory /\ m.main = main
      /\ m.outbox = d.outbox \o <<ev>>
  <2> DEFINE o == d.outbox \o <<ev>>
  <2>1. m = [[d EXCEPT !.main = main] EXCEPT !.outbox = o]
    BY <1>4 DEF Dbs
  <2>2. o \in Seq(Events)
    BY <1>7
  <2> HIDE DEF o
  <2>3. /\ m \in Dbs /\ m.vms = d.vms /\ m.labels = d.labels /\ m.excluded = d.excluded
        /\ m.groups = d.groups /\ m.matches = d.matches /\ m.inventory = d.inventory /\ m.main = main
        /\ m.outbox = o
    BY <2>1, <2>2 DEF Dbs
  <2> QED
    BY <2>3 DEF o
<1>9. Tells(d, m, <<ev>>)
  BY <1>5, <1>6, <1>8, Zenon DEF Tells
<1> QED
  BY <1>8, <1>9 DEF ev

\* buildAndSaveMainInventory.
LEMMA MainFields ==
    ASSUME NEW d \in Dbs, NEW m, m = buildAndSaveMainInventory(d)
    PROVE  /\ m \in Dbs /\ m.vms = d.vms /\ m.excluded = d.excluded /\ m.groups = d.groups
           /\ m.matches = d.matches /\ m.inventory = d.inventory /\ m.main = BuildInventory(d, d.vms)
           /\ Tells(d, m, <<[kind |-> "inventory", inv |-> m.main]>>)
<1> DEFINE main == BuildInventory(d, d.vms)
<1>1. m = AddInventoryUpdateEvent([d EXCEPT !.main = main])
  BY DEF buildAndSaveMainInventory
<1>2. main \in Inventories
  <2>1. d.vms \in SUBSET VMs
    BY DEF Dbs
  <2> HIDE DEF main
  <2>2. \A T \in SUBSET VMs : BuildInventory(d, T) \in Inventories
    BY InventoryBuilt
  <2> QED
    BY <2>1, <2>2 DEF main
<1> HIDE DEF main
<1>3. /\ m \in Dbs /\ m.vms = d.vms /\ m.excluded = d.excluded /\ m.groups = d.groups
      /\ m.matches = d.matches /\ m.inventory = d.inventory /\ m.main = main
      /\ Tells(d, m, <<[kind |-> "inventory", inv |-> m.main]>>)
  BY <1>1, <1>2, MainSaved
<1> QED
  BY <1>3 DEF main

\* The loop over the groups of an exclusion, in v1 and v2.
LEMMA RebuildFields ==
    ASSUME NEW d \in Dbs, NEW gs \in SUBSET Requests, NEW e, e = RebuildGroups(d, gs)
    PROVE  /\ e \in Dbs /\ e.vms = d.vms /\ e.excluded = d.excluded /\ e.groups = d.groups
           /\ e.matches = d.matches /\ e.main = d.main
           /\ \A g \in Requests : e.inventory[g] = IF g \in gs THEN GroupInventory(d, g) ELSE d.inventory[g]
           /\ \E t : Tells(d, e, t)
<1> DEFINE saved == [g \in Requests |-> IF gen = "v1" THEN buildAndSaveGroupInventoryV1(d, g)
                                        ELSE buildAndSaveGroupInventory(d, g)]
           inv == [g \in Requests |-> IF g \in gs THEN saved[g].inv ELSE d.inventory[g]]
           ev == [g \in Requests |-> saved[g].event]
           t == EventList(gs, ev)
<1>1. \A g \in Requests : /\ GroupInventory(d, g) \in Inventories /\ saved[g].inv = GroupInventory(d, g)
                          /\ ev[g] \in Events /\ ev[g].kind # "inventory" /\ ev[g].group = g
                          /\ Left(ev[g]) = GroupInventory(d, g)
  <2> TAKE g \in Requests
  <2>1. GroupInventory(d, g) \in Inventories
    <3>1. {} \in SUBSET VMs
      OBVIOUS
    <3> QED
      BY <3>1, InventoryTypes
  <2>2. saved[g].inv = GroupInventory(d, g)
    BY DEF buildAndSaveGroupInventory, buildAndSaveGroupInventoryV1
  <2>3. ev[g] = IF gen = "v1" THEN UpsertEvent(g, GroupInventory(d, g)) ELSE GroupEvent(g, GroupInventory(d, g))
    BY DEF buildAndSaveGroupInventory, buildAndSaveGroupInventoryV1
  <2> QED
    <3> DEFINE i == GroupInventory(d, g)
    <3> HIDE DEF i
    <3>1. i \in Inventories
      BY <2>1 DEF i
    <3>2. /\ UpsertEvent(g, i) \in Events /\ GroupEvent(g, i) \in Events
          /\ UpsertEvent(g, i).kind # "inventory" /\ GroupEvent(g, i).kind # "inventory"
          /\ UpsertEvent(g, i).group = g /\ GroupEvent(g, i).group = g
          /\ Left(UpsertEvent(g, i)) = i /\ Left(GroupEvent(g, i)) = i
      BY <3>1, GroupEventFacts
    <3> QED
      BY <2>1, <2>2, <2>3, <3>2, Zenon DEF i
<1>2. inv \in [Requests -> Inventories]
  BY <1>1 DEF Dbs
<1>3. /\ t \in Seq(Events) /\ MainEvents(t) = {}
      /\ \A g \in gs : \E k \in GroupEvents(t, g) : GroupEvents(t, g) = {k} /\ t[k] = ev[g]
      /\ \A g \in Requests \ gs : GroupEvents(t, g) = {}
  <2>1. AboutGroups(gs, ev)
    BY <1>1 DEF AboutGroups
  <2> HIDE DEF ev
  <2>2. OneEach(gs, ev, t)
    BY <2>1, ListedEvents
  <2> QED
    BY <2>2, Zenon DEF OneEach
<1>4. \A i \in DOMAIN SetToSeq(gs) : SetToSeq(gs)[i] \in Requests
  <2>1. IsFiniteSet(gs)
    BY UserDataAssumption, FS_Subset
  <2> QED
    BY <2>1, ListOfSet
<1>5. e = [[d EXCEPT !.inventory = inv] EXCEPT !.outbox = d.outbox \o t]
  <2>1. t = [i \in DOMAIN SetToSeq(gs) |-> saved[SetToSeq(gs)[i]].event]
    BY <1>4 DEF EventList
  <2>2. [d EXCEPT !.inventory = [g \in Requests |-> IF g \in gs THEN saved[g].inv ELSE @[g]]] = [d EXCEPT !.inventory = inv]
    BY DEF Dbs
  <2>3. e = [[d EXCEPT !.inventory = inv] EXCEPT !.outbox = @ \o t]
    BY <2>1, <2>2, Zenon DEF RebuildGroups, AddEvents
  <2>4. [d EXCEPT !.inventory = inv].outbox = d.outbox
    BY DEF Dbs
  <2> HIDE DEF inv, t
  <2> QED
    BY <2>3, <2>4 DEF Dbs
<1>6. \A g \in Requests : inv[g] = IF g \in gs THEN GroupInventory(d, g) ELSE d.inventory[g]
  BY <1>1
<1> HIDE DEF inv, t, ev, saved
<1>7. d.outbox \o t \in Seq(Events)
  BY <1>3 DEF Dbs
<1>8. /\ e \in Dbs /\ e.vms = d.vms /\ e.excluded = d.excluded /\ e.groups = d.groups
      /\ e.matches = d.matches /\ e.main = d.main /\ e.inventory = inv /\ e.outbox = d.outbox \o t
  <2> DEFINE o == d.outbox \o t
  <2>1. e = [[d EXCEPT !.inventory = inv] EXCEPT !.outbox = o] /\ o \in Seq(Events)
    BY <1>5, <1>7
  <2> HIDE DEF o
  <2>2. /\ e \in Dbs /\ e.vms = d.vms /\ e.excluded = d.excluded /\ e.groups = d.groups
        /\ e.matches = d.matches /\ e.main = d.main /\ e.inventory = inv /\ e.outbox = o
    BY <1>2, <2>1 DEF Dbs
  <2> QED
    BY <2>2 DEF o
<1>9. Tells(d, e, t)
  <2>1. ASSUME NEW g \in Requests
        PROVE  \/ GroupEvents(t, g) = {} /\ e.inventory[g] \in {d.inventory[g], Nil}
               \/ \E k \in GroupEvents(t, g) : GroupEvents(t, g) = {k} /\ Left(t[k]) = e.inventory[g]
    <3>1. CASE g \in gs
      <4>1. PICK k \in GroupEvents(t, g) : GroupEvents(t, g) = {k} /\ t[k] = ev[g]
        BY <1>3, <3>1
      <4>2. Left(t[k]) = GroupInventory(d, g) /\ e.inventory[g] = GroupInventory(d, g)
        BY <1>1, <1>6, <1>8, <3>1, <4>1, Zenon
      <4> QED
        BY <4>1, <4>2, Zenon
    <3>2. CASE g \notin gs
      BY <1>3, <1>6, <1>8, <3>2, Zenon
    <3> QED
      BY <3>1, <3>2
  <2> QED
    BY <1>3, <1>8, <2>1, Zenon DEF Tells
<1> QED
  BY <1>6, <1>8, <1>9, Zenon

\* An exclusion rebuilds the main inventory and those of the groups it touches.
LEMMA ExclusionKeeps ==
    ASSUME NEW d \in Dbs, Current(d), NoOrphans(d), NEW X \in SUBSET VMs, NEW gs \in SUBSET Requests,
           \A g \in Requests \ gs : d.matches[g] \cap X = d.matches[g] \cap d.excluded,
           \A g \in gs : d.matches[g] # {}
    PROVE  Keeps(d, RebuildGroups(buildAndSaveMainInventory([d EXCEPT !.excluded = X]), gs), {})
<1> DEFINE u == [d EXCEPT !.excluded = X]  m == buildAndSaveMainInventory(u)  e == RebuildGroups(m, gs)
<1>1. /\ u \in Dbs /\ u.vms = d.vms /\ u.excluded = X /\ u.groups = d.groups /\ u.matches = d.matches
      /\ u.inventory = d.inventory /\ u.main = d.main /\ u.outbox = d.outbox
  BY DEF Dbs
<1> HIDE DEF u
<1>2. /\ m \in Dbs /\ m.vms = u.vms /\ m.excluded = u.excluded /\ m.groups = u.groups
      /\ m.matches = u.matches /\ m.inventory = u.inventory /\ m.main = BuildInventory(u, u.vms)
      /\ Tells(u, m, <<[kind |-> "inventory", inv |-> m.main]>>)
  BY <1>1, MainFields
<1> HIDE DEF m
<1>3. /\ e \in Dbs /\ e.vms = m.vms /\ e.excluded = m.excluded /\ e.groups = m.groups
      /\ e.matches = m.matches /\ e.main = m.main
      /\ \A g \in Requests : e.inventory[g] = IF g \in gs THEN GroupInventory(m, g) ELSE m.inventory[g]
      /\ \E t : Tells(m, e, t)
  BY <1>2, RebuildFields
<1> HIDE DEF e
<1>4. /\ e.vms = d.vms /\ e.excluded = X /\ e.groups = d.groups /\ e.matches = d.matches
      /\ u.excluded = e.excluded /\ m.excluded = e.excluded
  BY <1>1, <1>2, <1>3
<1>5. Current(e)
  <2>1. Reflects(e, e.main, e.vms)
    <3>1. Reflects(u, BuildInventory(u, u.vms), u.vms)
      BY BuiltReflects
    <3>2. Reflects(u, e.main, e.vms)
      BY <1>2, <1>3, <3>1, Zenon
    <3>3. e.vms \cap e.excluded = e.vms \cap u.excluded
      BY <1>4
    <3> QED
      BY <3>2, <3>3, StillReflects, Zenon
  <2>2. ASSUME NEW g \in Requests
        PROVE  IF ~GroupGet(e, g) \/ e.matches[g] = {} THEN e.inventory[g] = Nil
               ELSE Reflects(e, e.inventory[g], e.matches[g])
    <3>1. GroupGet(e, g) <=> GroupGet(d, g)
      BY <1>4 DEF GroupGet
    <3>2. CASE g \in gs
      <4>1. d.matches[g] # {} /\ GroupGet(d, g)
        BY <3>2 DEF NoOrphans
      <4>2. e.inventory[g] = BuildInventory(m, m.matches[g])
        BY <1>1, <1>2, <1>3, <3>2, <4>1 DEF GroupInventory, GetMatchedIDs
      <4>3. Reflects(m, BuildInventory(m, m.matches[g]), m.matches[g])
        BY BuiltReflects
      <4>4. Reflects(e, e.inventory[g], e.matches[g])
        <5>1. Reflects(m, e.inventory[g], e.matches[g])
          BY <1>3, <4>2, <4>3, Zenon
        <5>2. e.matches[g] \cap e.excluded = e.matches[g] \cap m.excluded
          BY <1>4
        <5> QED
          BY <5>1, <5>2, StillReflects, Zenon
      <4> QED
        BY <1>4, <3>1, <4>1, <4>4
    <3>3. CASE g \notin gs
      <4>1. e.inventory[g] = d.inventory[g]
        BY <1>1, <1>2, <1>3, <3>3
      <4>2. d.matches[g] \cap e.excluded = d.matches[g] \cap d.excluded
        BY <1>4, <3>3
      <4>3. IF ~GroupGet(d, g) \/ d.matches[g] = {} THEN d.inventory[g] = Nil
            ELSE Reflects(d, d.inventory[g], d.matches[g])
        BY Zenon DEF Current
      <4>4. Reflects(d, d.inventory[g], d.matches[g]) => Reflects(e, d.inventory[g], d.matches[g])
        BY <4>2, StillReflects
      <4> QED
        BY <1>4, <3>1, <4>1, <4>3, <4>4, Zenon
    <3> QED
      BY <3>2, <3>3
  <2> QED
    BY <2>1, <2>2, Zenon DEF Current
<1>6. NoOrphans(e) /\ \A g \in Requests : GroupGet(e, g) => GroupGet(d, g)
  BY <1>4, Zenon DEF NoOrphans, GroupGet
<1>7. ASSUME NEW held, CaughtUp(d, Replay(held, d.outbox)) PROVE CaughtUp(e, Replay(held, e.outbox))
  <2>1. CaughtUp(u, Replay(held, u.outbox))
    BY <1>1, <1>7, Zenon DEF CaughtUp
  <2>2. CaughtUp(m, Replay(held, m.outbox))
    BY <1>1, <1>2, <2>1, TellsCatchUp, Zenon
  <2> QED
    BY <1>2, <1>3, <2>2, TellsCatchUp, Zenon
<1> QED
  BY <1>3, <1>5, <1>6, <1>7, Zenon DEF Keeps, e, m, u

\* A change of one group: it, its matches, its inventory and the events.
GroupChange(d, g, group, S, inv, t) ==
    [d EXCEPT !.groups[g] = group, !.matches[g] = S, !.inventory[g] = inv, !.outbox = @ \o t]
Change(d, g, group, S, inv, t) ==
    /\ d \in Dbs /\ g \in Requests /\ group \in {NoGroup} \cup Groups /\ S \in SUBSET VMs
    /\ inv \in Inventories /\ t \in Seq(Events)

\* The fields after a change of one group.
LEMMA GroupFields ==
    ASSUME NEW d, NEW g, NEW group, NEW S, NEW inv, NEW t, Change(d, g, group, S, inv, t),
           NEW e, e = GroupChange(d, g, group, S, inv, t)
    PROVE  /\ e \in Dbs /\ e.vms = d.vms /\ e.excluded = d.excluded /\ e.main = d.main
           /\ e.outbox = d.outbox \o t
           /\ \A h \in Requests : /\ e.groups[h] = IF h = g THEN group ELSE d.groups[h]
                                  /\ e.matches[h] = IF h = g THEN S ELSE d.matches[h]
                                  /\ e.inventory[h] = IF h = g THEN inv ELSE d.inventory[h]
<1> DEFINE o == d.outbox \o t
           G == [d.groups EXCEPT ![g] = group]
           M == [d.matches EXCEPT ![g] = S]
           I == [d.inventory EXCEPT ![g] = inv]
<1>1. o \in Seq(Events) /\ G \in [Requests -> {NoGroup} \cup Groups]
      /\ M \in [Requests -> SUBSET VMs] /\ I \in [Requests -> Inventories]
  BY DEF Dbs, Change
<1>2. e = [d EXCEPT !.groups = G, !.matches = M, !.inventory = I, !.outbox = o]
  BY DEF GroupChange
<1>3. \A h \in Requests : /\ G[h] = IF h = g THEN group ELSE d.groups[h]
                          /\ M[h] = IF h = g THEN S ELSE d.matches[h]
                          /\ I[h] = IF h = g THEN inv ELSE d.inventory[h]
  BY DEF Dbs, Change
<1> HIDE DEF o, G, M, I
<1>4. /\ e \in Dbs /\ e.vms = d.vms /\ e.excluded = d.excluded /\ e.main = d.main
      /\ e.outbox = o /\ e.groups = G /\ e.matches = M /\ e.inventory = I
  BY <1>1, <1>2 DEF Dbs, Change
<1> QED
  BY <1>3, <1>4 DEF o

\* A change of one group that saves its inventory with the event about it.
LEMMA GroupKeeps ==
    ASSUME NEW d \in Dbs, Current(d), NoOrphans(d), NEW g \in Requests,
           NEW group \in {NoGroup} \cup Groups, NEW S \in SUBSET VMs, group = NoGroup => S = {},
           NEW inv, inv = IF S = {} THEN Nil ELSE BuildInventory(d, S),
           NEW t, \/ t = <<GroupEvent(g, inv)>>
                  \/ t = <<>> /\ (inv = d.inventory[g] \/ inv = Nil),
           NEW e, e = GroupChange(d, g, group, S, inv, t)
    PROVE  Keeps(d, e, {g})
<1>1. inv \in Inventories
  BY InventoryTypes
<1>2. t \in Seq(Events) /\ MainEvents(t) = {}
      /\ (t # <<>> => GroupEvents(t, g) = {1} /\ Left(t[1]) = inv)
      /\ (t = <<>> => GroupEvents(t, g) = {})
      /\ \A h \in Requests \ {g} : GroupEvents(t, h) = {}
  <2>1. CASE t = <<GroupEvent(g, inv)>>
    <3>1. /\ GroupEvent(g, inv) \in Events /\ GroupEvent(g, inv).kind # "inventory"
          /\ GroupEvent(g, inv).group = g /\ Left(GroupEvent(g, inv)) = inv
      BY <1>1, GroupEventFacts
    <3> DEFINE ev == GroupEvent(g, inv)
    <3> HIDE DEF ev
    <3>2. ev \in Events /\ ev.kind # "inventory" /\ ev.group = g /\ Left(ev) = inv /\ t = <<ev>>
      BY <2>1, <3>1 DEF ev
    <3>3. /\ <<ev>> \in Seq(Events) /\ <<ev>>[1] = ev /\ MainEvents(<<ev>>) = {}
          /\ \A h \in Requests : GroupEvents(<<ev>>, h) = IF h = g THEN {1} ELSE {}
      BY <3>2, OneEvent
    <3>4. t # <<>>
      BY <3>2
    <3> QED
      BY <3>2, <3>3, <3>4, Zenon
  <2>2. CASE t = <<>>
    BY <2>2 DEF MainEvents, GroupEvents
  <2> QED
    BY <2>1, <2>2
<1>3. /\ e \in Dbs /\ e.vms = d.vms /\ e.excluded = d.excluded /\ e.main = d.main
      /\ e.outbox = d.outbox \o t
      /\ \A h \in Requests : /\ e.groups[h] = IF h = g THEN group ELSE d.groups[h]
                             /\ e.matches[h] = IF h = g THEN S ELSE d.matches[h]
                             /\ e.inventory[h] = IF h = g THEN inv ELSE d.inventory[h]
  <2>1. Change(d, g, group, S, inv, t)
    BY <1>1, <1>2, Zenon DEF Change
  <2> QED
    BY <2>1, GroupFields, SMT
<1>4. \A J, T : Reflects(d, J, T) => Reflects(e, J, T)
  BY <1>3, StillReflects
<1>5. Current(e)
  <2>1. Reflects(e, e.main, e.vms)
    BY <1>3, <1>4 DEF Current
  <2>2. ASSUME NEW h \in Requests
        PROVE  IF ~GroupGet(e, h) \/ e.matches[h] = {} THEN e.inventory[h] = Nil
               ELSE Reflects(e, e.inventory[h], e.matches[h])
    <3>1. CASE h = g
      <4>1. e.groups[h] = group /\ e.matches[h] = S /\ e.inventory[h] = inv
        BY <1>3, <3>1
      <4>2. S # {} => Reflects(d, inv, S)
        BY BuiltReflects
      <4> QED
        BY <1>4, <4>1, <4>2 DEF GroupGet
    <3>2. CASE h # g
      <4>1. e.groups[h] = d.groups[h] /\ e.matches[h] = d.matches[h] /\ e.inventory[h] = d.inventory[h]
        BY <1>3, <3>2
      <4>2. IF ~GroupGet(d, h) \/ d.matches[h] = {} THEN d.inventory[h] = Nil
            ELSE Reflects(d, d.inventory[h], d.matches[h])
        BY Zenon DEF Current
      <4> QED
        BY <1>4, <4>1, <4>2 DEF GroupGet
    <3> QED
      BY <3>1, <3>2
  <2> QED
    BY <2>1, <2>2, Zenon DEF Current
<1>6. NoOrphans(e) /\ \A h \in Requests : GroupGet(e, h) => GroupGet(d, h) \/ h \in {g}
  BY <1>3, Zenon DEF NoOrphans, GroupGet
<1>7. Tells(d, e, t)
  <2>1. ASSUME NEW h \in Requests
        PROVE  \/ GroupEvents(t, h) = {} /\ e.inventory[h] \in {d.inventory[h], Nil}
               \/ \E k \in GroupEvents(t, h) : GroupEvents(t, h) = {k} /\ Left(t[k]) = e.inventory[h]
    <3>1. CASE h = g /\ t = <<>>
      <4>1. t # <<GroupEvent(g, inv)>>
        BY <3>1
      <4> QED
        BY <1>2, <1>3, <3>1, <4>1, Zenon
    <3>2. CASE h = g /\ t # <<>>
      BY <1>2, <1>3, <3>2, Zenon
    <3>3. CASE h # g
      BY <1>2, <1>3, <3>3, Zenon
    <3> QED
      BY <3>1, <3>2, <3>3
  <2> QED
    BY <1>2, <1>3, <2>1, Zenon DEF Tells
<1>8. \A held : CaughtUp(d, Replay(held, d.outbox)) => CaughtUp(e, Replay(held, e.outbox))
  BY <1>3, <1>7, TellsCatchUp, Zenon
<1> QED
  BY <1>3, <1>5, <1>6, <1>8, Zenon DEF Keeps

\* Storing a group and its matches.
PutGroup(d, g, group, S) == [[d EXCEPT !.groups[g] = group] EXCEPT !.matches[g] = S]

\* GroupStore.Create or Update, then RefreshMatches.
LEMMA StoredGroup ==
    ASSUME NEW d \in Dbs, NEW g \in Requests, NEW group \in Groups,
           NEW c, c = RefreshMatches(GroupCreate(d, g, group), g)
    PROVE  \E S \in SUBSET VMs :
             /\ c = PutGroup(d, g, group, S)
             /\ GetMatchedIDs(c, g) = S
             /\ c.inventory = d.inventory /\ c.outbox = d.outbox
             /\ GroupInventory(c, g) = IF S = {} THEN Nil ELSE BuildInventory(d, S)
<1> DEFINE b == [d EXCEPT !.groups[g] = group]  S == ByFilter(b, b.groups[g].filter)
<1>1. b.vms = d.vms /\ b.labels = d.labels /\ b.excluded = d.excluded /\ b.matches = d.matches
      /\ b.inventory = d.inventory /\ b.outbox = d.outbox /\ b = [b EXCEPT !.vms = d.vms]
  BY DEF Dbs
<1>2. S \in SUBSET VMs
  <2>1. d.vms \in SUBSET VMs
    BY DEF Dbs
  <2> QED
    BY <1>1, <2>1, Zenon DEF ByFilter
<1>3. c = [b EXCEPT !.matches[g] = S]
  BY DEF RefreshMatches, GroupCreate
<1> HIDE DEF S
<1>4. c.matches[g] = S /\ c.labels = d.labels /\ c.excluded = d.excluded /\ c.inventory = d.inventory /\ c.outbox = d.outbox
  BY <1>3 DEF Dbs
<1>5. GroupInventory(c, g) = IF S = {} THEN Nil ELSE BuildInventory(d, S)
  BY <1>4, Zenon DEF GroupInventory, GetMatchedIDs, BuildInventory, LabelsOf
<1> QED
  BY <1>2, <1>3, <1>4, <1>5, Zenon DEF GetMatchedIDs, PutGroup

\* What is saved after it is a change of one group.
LEMMA SavedGroup ==
    ASSUME NEW d \in Dbs, NEW g \in Requests, NEW group \in Groups, NEW S \in SUBSET VMs,
           NEW c, c = PutGroup(d, g, group, S),
           NEW inv, GroupInventory(c, g) = inv
    PROVE  /\ SaveGroup(c, g) = GroupChange(d, g, group, S, inv, <<GroupEvent(g, inv)>>)
           /\ c = GroupChange(d, g, group, S, d.inventory[g], <<>>)
<1> DEFINE t == <<GroupEvent(g, inv)>>
           G == [d.groups EXCEPT ![g] = group]
           M == [d.matches EXCEPT ![g] = S]
           I == [d.inventory EXCEPT ![g] = inv]
<1>1. SaveGroup(c, g) = [[c EXCEPT !.inventory[g] = inv] EXCEPT !.outbox = @ \o t]
  BY Zenon DEF SaveGroup, AddEvents, UpdateInventory
<1> HIDE DEF t
<1>2. SaveGroup(c, g) = [d EXCEPT !.groups = G, !.matches = M, !.inventory = I, !.outbox = d.outbox \o t]
  BY <1>1 DEF Dbs, PutGroup
<1>3. GroupChange(d, g, group, S, inv, t) = [d EXCEPT !.groups = G, !.matches = M, !.inventory = I, !.outbox = d.outbox \o t]
  BY DEF Dbs, GroupChange
<1>4. c = [d EXCEPT !.groups = G, !.matches = M]
  BY DEF Dbs, PutGroup
<1>5. [d.inventory EXCEPT ![g] = d.inventory[g]] = d.inventory /\ d.outbox \o <<>> = d.outbox
  BY DEF Dbs
<1>6. GroupChange(d, g, group, S, d.inventory[g], <<>>) =
        [d EXCEPT !.groups = G, !.matches = M, !.inventory = d.inventory, !.outbox = d.outbox]
  BY <1>5 DEF Dbs, GroupChange
<1>7. [d EXCEPT !.groups = G, !.matches = M, !.inventory = d.inventory, !.outbox = d.outbox]
        = [d EXCEPT !.groups = G, !.matches = M]
  <2> HIDE DEF G, M
  <2> QED
    BY DEF Dbs
<1> QED
  BY <1>2, <1>3, <1>4, <1>6, <1>7 DEF t

\* A group that is stored has a name and a filter.
LEMMA GroupsAreNotNoGroup ==
    ASSUME NEW group \in Groups
    PROVE  group # NoGroup /\ group.filter \in {"all", "labelled"} /\ group.name \in Names
<1>1. DOMAIN group = {"name", "filter"} /\ DOMAIN NoGroup = {"name"}
  BY DEF Groups, NoGroup
<1> QED
  BY <1>1 DEF Groups

\* GroupService.Update.
LEMMA UpdateKeeps ==
    ASSUME NEW d \in Dbs, Current(d), NoOrphans(d), NEW g \in Requests, NEW group \in Groups
    PROVE  Keeps(d, Update(d, g, group), {g})
<1> DEFINE c == RefreshMatches(GroupCreate(d, g, group), g)
<1> HIDE DEF c
<1>0. c = RefreshMatches(GroupCreate(d, g, group), g)
  BY DEF c
<1>1. PICK S \in SUBSET VMs :
        /\ c = PutGroup(d, g, group, S)
        /\ GetMatchedIDs(c, g) = S
        /\ c.inventory = d.inventory /\ c.outbox = d.outbox
        /\ GroupInventory(c, g) = IF S = {} THEN Nil ELSE BuildInventory(d, S)
  BY <1>0, StoredGroup
<1> DEFINE inv == IF S = {} THEN Nil ELSE BuildInventory(d, S)
<1> HIDE DEF inv
<1>2. SaveGroup(c, g) = GroupChange(d, g, group, S, inv, <<GroupEvent(g, inv)>>)
  BY <1>1, SavedGroup DEF inv
<1>3. Keeps(d, SaveGroup(c, g), {g})
  BY <1>2, GroupsAreNotNoGroup, GroupKeeps DEF inv
<1> QED
  BY <1>3 DEF Update, GroupUpdate, GroupCreate, c

\* The creator of a group finds no group of its own.
LEMMA CreateKeeps ==
    ASSUME NEW d \in Dbs, Current(d), NoOrphans(d), NEW g \in Requests, NEW group \in Groups, ~GroupGet(d, g)
    PROVE  Keeps(d, Create(d, g, group), {g})
<1> DEFINE c == RefreshMatches(GroupCreate(d, g, group), g)
<1> HIDE DEF c
<1>0. c = RefreshMatches(GroupCreate(d, g, group), g)
  BY DEF c
<1>1. PICK S \in SUBSET VMs :
        /\ c = PutGroup(d, g, group, S)
        /\ GetMatchedIDs(c, g) = S
        /\ c.inventory = d.inventory /\ c.outbox = d.outbox
        /\ GroupInventory(c, g) = IF S = {} THEN Nil ELSE BuildInventory(d, S)
  BY <1>0, StoredGroup
<1> DEFINE inv == IF S = {} THEN Nil ELSE BuildInventory(d, S)
<1> HIDE DEF inv
<1>2. SaveGroup(c, g) = GroupChange(d, g, group, S, inv, <<GroupEvent(g, inv)>>)
      /\ c = GroupChange(d, g, group, S, d.inventory[g], <<>>)
  BY <1>1, SavedGroup DEF inv
<1>3. CASE S = {}
  <2>1. d.inventory[g] = Nil /\ inv = Nil
    BY <1>3 DEF Current, inv
  <2>2. Keeps(d, c, {g})
    BY <1>2, <1>3, <2>1, GroupsAreNotNoGroup, GroupKeeps DEF inv
  <2> QED
    BY <1>1, <1>3, <2>2 DEF Create, c
<1>4. CASE S # {}
  <2>1. Keeps(d, SaveGroup(c, g), {g})
    BY <1>2, GroupsAreNotNoGroup, GroupKeeps DEF inv
  <2> QED
    BY <1>1, <1>4, <2>1 DEF Create, c
<1> QED
  BY <1>3, <1>4

\* GroupService.Delete.
LEMMA DeleteKeeps ==
    ASSUME NEW d \in Dbs, Current(d), NoOrphans(d), NEW g \in Requests
    PROVE  Keeps(d, Delete(d, g), {g})
<1> DEFINE t == <<DeleteEvent(g)>>
           G == [d.groups EXCEPT ![g] = NoGroup]
           M == [d.matches EXCEPT ![g] = {}]
           I == [d.inventory EXCEPT ![g] = Nil]
<1>1. t = <<GroupEvent(g, Nil)>>
  BY DEF GroupEvent
<1>2. Delete(d, g) = [[[d EXCEPT !.outbox = @ \o t] EXCEPT !.groups[g] = NoGroup, !.inventory[g] = Nil] EXCEPT !.matches[g] = {}]
  BY DEF Delete, DeleteMatches, AddEvents
<1> HIDE DEF t
<1>3. Delete(d, g) = [d EXCEPT !.groups = G, !.matches = M, !.inventory = I, !.outbox = d.outbox \o t]
  BY <1>2 DEF Dbs
<1>4. GroupChange(d, g, NoGroup, {}, Nil, t) = [d EXCEPT !.groups = G, !.matches = M, !.inventory = I, !.outbox = d.outbox \o t]
  BY DEF Dbs, GroupChange
<1>5. Delete(d, g) = GroupChange(d, g, NoGroup, {}, Nil, t)
  BY <1>3, <1>4
<1> QED
  BY <1>1, <1>5, GroupKeeps

\* The groups that contain a VM are the same before and after the main inventory.
LEMMA ContainingGroups ==
    ASSUME NEW d \in Dbs, NEW X \in SUBSET VMs, NEW v,
           NEW m, m = buildAndSaveMainInventory([d EXCEPT !.excluded = X])
    PROVE  GetGroupsContainingVM(m, v) = {g \in Requests : v \in d.matches[g]}
<1> DEFINE u == [d EXCEPT !.excluded = X]
<1>1. u \in Dbs /\ u.matches = d.matches
  BY DEF Dbs
<1> HIDE DEF u
<1>2. m.matches = u.matches
  BY <1>1, MainFields DEF u
<1> QED
  BY <1>1, <1>2 DEF GetGroupsContainingVM, GetMatchedIDs

\* VMService.UpdateMigrationExcluded.
LEMMA ExcludeKeeps ==
    ASSUME NEW d \in Dbs, Current(d), NoOrphans(d), NEW v \in VMs, NEW b
    PROVE  Keeps(d, ExcludeTx(d, v, b), {})
<1> DEFINE X == IF b THEN d.excluded \cup {v} ELSE d.excluded \ {v}
           m == buildAndSaveMainInventory([d EXCEPT !.excluded = X])
           gs == {g \in Requests : v \in d.matches[g]}
<1>1. X \in SUBSET VMs
  BY DEF Dbs
<1>2. \A g \in Requests \ gs : d.matches[g] \cap X = d.matches[g] \cap d.excluded
  BY Zenon
<1>3. UpdateMigrationExcluded(d, v, b) = [d EXCEPT !.excluded = X]
  BY DEF UpdateMigrationExcluded
<1> HIDE DEF X
<1>4. GetGroupsContainingVM(m, v) = gs
  BY <1>1, ContainingGroups
<1>5. ExcludeTx(d, v, b) = RebuildGroups(m, gs)
  BY <1>3, <1>4 DEF ExcludeTx
<1>6. gs \in SUBSET Requests /\ \A g \in gs : d.matches[g] # {}
  BY Zenon
<1> HIDE DEF gs
<1>7. Keeps(d, RebuildGroups(m, gs), {})
  BY <1>1, <1>2, <1>6, ExclusionKeeps
<1> QED
  BY <1>5, <1>7

\* VMService.UpdateMigrationExcludedBatch.
LEMMA ExcludeBatchKeeps ==
    ASSUME NEW d \in Dbs, Current(d), NoOrphans(d), NEW ids, NEW b
    PROVE  Keeps(d, ExcludeBatchTx(d, ids, b), {})
<1> DEFINE I == ToSet(ids)
           X == IF b THEN d.excluded \cup (I \cap d.vms) ELSE d.excluded \ I
           m == buildAndSaveMainInventory([d EXCEPT !.excluded = X])
           gs == UNION {{g \in Requests : v \in d.matches[g]} : v \in I}
<1> HIDE DEF I
<1>1. X \in SUBSET VMs
  BY DEF Dbs
<1>2. \A g \in Requests \ gs : d.matches[g] \cap X = d.matches[g] \cap d.excluded
  <2> SUFFICES ASSUME NEW g \in Requests, g \notin gs
               PROVE  d.matches[g] \cap X = d.matches[g] \cap d.excluded
    OBVIOUS
  <2>1. ASSUME NEW v \in I, v \in d.matches[g] PROVE FALSE
    <3>1. g \in {h \in Requests : v \in d.matches[h]}
      BY <2>1
    <3>2. g \in gs
      BY <3>1, Zenon
    <3> QED
      BY <3>2
  <2> QED
    BY <2>1
<1>3. UpdateMigrationExcludedBatch(d, ids, b) = [d EXCEPT !.excluded = X]
  BY DEF UpdateMigrationExcludedBatch, I
<1> HIDE DEF X
<1>4. \A v : GetGroupsContainingVM(m, v) = {g \in Requests : v \in d.matches[g]}
  BY <1>1, ContainingGroups
<1>5. ExcludeBatchTx(d, ids, b) = RebuildGroups(m, gs)
  <2>1. ExcludeBatchTx(d, ids, b) = RebuildGroups(m, UNION {GetGroupsContainingVM(m, v) : v \in I})
    BY <1>3 DEF ExcludeBatchTx, I
  <2> HIDE DEF m
  <2>2. {GetGroupsContainingVM(m, v) : v \in I} = {{g \in Requests : v \in d.matches[g]} : v \in I}
    BY <1>4, Zenon
  <2> QED
    BY <2>1, <2>2, Zenon
<1>6. gs \in SUBSET Requests /\ \A g \in gs : d.matches[g] # {}
  BY Zenon
<1> HIDE DEF gs
<1>7. Keeps(d, RebuildGroups(m, gs), {})
  BY <1>1, <1>2, <1>6, ExclusionKeeps
<1> QED
  BY <1>5, <1>7

\* The label transactions.
LEMMA LabelTxKeep ==
    ASSUME NEW d \in Dbs, Current(d), NoOrphans(d)
    PROVE  /\ \A v, ls : ls \in SUBSET Labels => Keeps(d, UpdateLabels(d, v, ls), {})
           /\ Keeps(d, d, {})
           /\ Keeps(d, RemoveLabelGlobally(d, UserLabel), {})
           /\ \A add, remove : Keeps(d, UpdateLabelVMs(d, add, remove, UserLabel), {})
<1>0. UserLabel \in Labels
  BY DEF Labels
<1>1. ASSUME NEW v, NEW ls, ls \in SUBSET Labels PROVE Keeps(d, UpdateLabels(d, v, ls), {})
  <2> DEFINE L == [d.labels EXCEPT ![v] = ls]
  <2>1. L \in [VMs -> SUBSET Labels]
    BY <1>1 DEF Dbs
  <2>2. UpdateLabels(d, v, ls) = [d EXCEPT !.labels = L]
    BY DEF UpdateLabels
  <2> HIDE DEF L
  <2> QED
    BY <2>1, <2>2, LabelsKeep
<1>2. Keeps(d, d, {})
  <2>1. d = [d EXCEPT !.labels = d.labels] /\ d.labels \in [VMs -> SUBSET Labels]
    BY DEF Dbs
  <2> QED
    BY <2>1, LabelsKeep
<1>3. Keeps(d, RemoveLabelGlobally(d, UserLabel), {})
  <2> DEFINE L == [v \in VMs |-> d.labels[v] \ {UserLabel}]
  <2>1. L \in [VMs -> SUBSET Labels]
    BY DEF Dbs
  <2>2. RemoveLabelGlobally(d, UserLabel) = [d EXCEPT !.labels = L]
    BY DEF RemoveLabelGlobally
  <2> HIDE DEF L
  <2> QED
    BY <2>1, <2>2, LabelsKeep
<1>4. ASSUME NEW add, NEW remove PROVE Keeps(d, UpdateLabelVMs(d, add, remove, UserLabel), {})
  <2> DEFINE A == ToSet(add)  R == ToSet(remove)
             L == [v \in VMs |-> IF v \in A \cap d.vms THEN d.labels[v] \cup {UserLabel} ELSE d.labels[v]]
             K == [v \in VMs |-> IF v \in R THEN L[v] \ {UserLabel} ELSE L[v]]
             a == [d EXCEPT !.labels = L]
  <2> HIDE DEF A, R
  <2>1. L \in [VMs -> SUBSET Labels] /\ K \in [VMs -> SUBSET Labels]
    BY <1>0 DEF Dbs
  <2>2. AddLabelBatch(d, add, UserLabel) = a
    BY DEF AddLabelBatch, A
  <2>3. a.labels = L
    BY DEF Dbs
  <2>4. RemoveLabelBatch(a, remove, UserLabel) = [a EXCEPT !.labels = K]
    BY <2>3 DEF RemoveLabelBatch, R
  <2> HIDE DEF L, K
  <2>5. [a EXCEPT !.labels = K] = [d EXCEPT !.labels = K]
    BY DEF Dbs
  <2>6. Keeps(d, [d EXCEPT !.labels = K], {})
    BY <2>1, LabelsKeep
  <2> QED
    BY <1>2, <2>2, <2>4, <2>5, <2>6 DEF UpdateLabelVMs
<1> QED
  BY <1>1, <1>2, <1>3, <1>4

-----------------------------------------------------------------------------
(* The steps of a request *)

\* What a request may have at hand while the pool has k collections.
Fine(n, k) ==
    /\ n.pc \in {"idle", "bound", "merged", "got group", "excluded", "read", "done"}
    /\ n.pc \in {"bound", "merged", "got group", "excluded"} => n.db \in 1..k
    /\ n.pc = "merged" => n.id \in Requests /\ n.group \in Groups
    /\ n.pc = "got group" => n.id \in Requests
    /\ n.pc = "excluded" => n.id \in VMs

\* A step of request r leaves it with n, and its database, if it commits, with e.
Committed(r, n, i, e) ==
    /\ dbs' = [dbs EXCEPT ![i] = e] /\ i \in 1..Latest
    /\ \E new : /\ Keeps(dbs[i], e, new)
                /\ \A g \in new : GroupGet(dbs[i], g) \/ (g = r /\ n.pc = "done")

\* Such a step preserves the invariant.
LEMMA RequestStep ==
    ASSUME UserInv, NEW r \in Requests, req[r].pc # "done", UNCHANGED <<gen, draft, closing, view>>,
           NEW n, req' = [req EXCEPT ![r] = n], Fine(n, Latest),
           NEW i, NEW e, dbs' = dbs \/ Committed(r, n, i, e)
    PROVE  UserInv'
<1>1. req = [x \in Requests |-> req[x]] /\ dbs \in Seq(Dbs)
  BY DEF UserInv, UserTypeOK
<1>2. req'[r] = n /\ (\A x \in Requests : x # r => req'[x] = req[x]) /\ req' = [x \in Requests |-> req'[x]]
  BY <1>1
<1>3. \A x \in Requests : req[x].pc = "done" => req'[x].pc = "done"
  BY <1>2
<1>4. /\ dbs' \in Seq(Dbs) /\ Latest' = Latest /\ (dbs' = <<>> <=> dbs = <<>>)
      /\ \A j \in 1..Latest : dbs'[j] = dbs[j] \/ (Committed(r, n, i, e) /\ j = i /\ dbs'[j] = e)
  <2>1. CASE dbs' = dbs
    BY <1>1, <2>1 DEF Latest
  <2>2. CASE Committed(r, n, i, e)
    <3>1. e \in Dbs /\ i \in 1..Len(dbs) /\ dbs' = [dbs EXCEPT ![i] = e]
      BY <2>2 DEF Committed, Keeps, Latest
    <3> QED
      BY <1>1, <2>2, <3>1 DEF Latest
  <2> QED
    BY <2>1, <2>2
<1>5. \A x \in Requests : RequestOK(x)'
  <2>1. \A x \in Requests : RequestOK(x)
    BY DEF UserInv, UserTypeOK
  <2> SUFFICES ASSUME NEW x \in Requests PROVE RequestOK(x)'
    OBVIOUS
  <2>2. CASE x = r
    BY <1>2, <1>4, <2>2, Zenon DEF RequestOK, Fine
  <2>3. CASE x # r
    BY <1>2, <1>4, <2>1, <2>3, Zenon DEF RequestOK
  <2> QED
    BY <2>2, <2>3
<1>6. UserTypeOK'
  <2>1. UserTypeOK
    BY DEF UserInv
  <2>2. gen' \in {"v1", "v2"} /\ closing' \in BOOLEAN
    BY <2>1 DEF UserTypeOK
  <2>3. \/ draft' = NoDraft
        \/ \E S \in VmSets : draft' = [stage |-> "parsed", db |-> NewDb(S)]
        \/ draft'.stage = "built" /\ draft'.db \in Dbs
    BY <2>1, Zenon DEF UserTypeOK
  <2>4. view' \in [main : Inventories, groups : [Requests -> Inventories]]
    BY <2>1, Zenon DEF UserTypeOK
  <2> QED
    BY <1>2, <1>4, <1>5, <2>2, <2>3, <2>4 DEF UserTypeOK
<1>7. ASSUME NEW j \in 1..Latest'
      PROVE  /\ Current(dbs'[j]) /\ GroupsOwned(dbs[j])'
             /\ \A held : CaughtUp(dbs[j], Replay(held, dbs[j].outbox)) => CaughtUp(dbs'[j], Replay(held, dbs'[j].outbox))
  <2>1. Current(dbs[j]) /\ GroupsOwned(dbs[j])
    BY <1>4, <1>7 DEF UserInv, InventoriesCurrent
  <2>2. CASE dbs'[j] = dbs[j]
    <3>1. GroupsOwned(dbs[j])'
      BY <1>3, <2>1, <2>2, Zenon DEF GroupsOwned
    <3> QED
      BY <2>1, <2>2, <3>1
  <2>3. CASE Committed(r, n, i, e) /\ j = i /\ dbs'[j] = e
    <3>1. PICK new : /\ Keeps(dbs[j], e, new)
                     /\ \A g \in new : GroupGet(dbs[j], g) \/ (g = r /\ n.pc = "done")
      BY <2>3 DEF Committed
    <3>2. ASSUME NEW g \in Requests PROVE IF GroupGet(e, g) THEN req'[g].pc = "done" ELSE e.matches[g] = {}
      <4>1. CASE GroupGet(e, g)
        <5>1. GroupGet(dbs[j], g) \/ (g = r /\ n.pc = "done")
          BY <3>1, <4>1, Zenon DEF Keeps
        <5>2. GroupGet(dbs[j], g) => req[g].pc = "done"
          BY <2>1, Zenon DEF GroupsOwned
        <5> QED
          BY <1>2, <1>3, <4>1, <5>1, <5>2
      <4>2. CASE ~GroupGet(e, g)
        BY <3>1, <4>2, Zenon DEF Keeps, NoOrphans
      <4> QED
        BY <4>1, <4>2
    <3>3. GroupsOwned(e)'
      BY <3>2, Zenon DEF GroupsOwned
    <3>4. GroupsOwned(dbs[j])'
      BY <2>3, <3>3, Zenon DEF GroupsOwned
    <3> QED
      BY <2>3, <3>1, <3>4, Zenon DEF Keeps
  <2> QED
    BY <1>4, <1>7, <2>2, <2>3
<1>8. InventoriesCurrent'
  <2>1. draft' = draft /\ (draft.stage = "built" => Embedded(draft.db))
    BY DEF UserInv, InventoriesCurrent
  <2> QED
    BY <1>7, <2>1, Zenon DEF InventoriesCurrent
<1>9. ConsoleCatchesUp'
  <2> SUFFICES ASSUME dbs' # <<>> PROVE CaughtUp(dbs'[Latest'], Replay(view', dbs'[Latest'].outbox))
    BY DEF ConsoleCatchesUp
  <2>1. CaughtUp(dbs[Latest], Replay(view, dbs[Latest].outbox))
    BY <1>4 DEF UserInv, ConsoleCatchesUp
  <2>2. Latest' \in 1..Latest'
    BY <1>4 DEF Latest
  <2> QED
    BY <1>4, <1>7, <2>1, <2>2
<1>10. draft'.stage = "built" => Current(draft'.db) /\ GroupsOwned(draft.db)' /\ Announced(draft.db)'
  <2> SUFFICES ASSUME draft.stage = "built" PROVE Current(draft.db) /\ GroupsOwned(draft.db)' /\ Announced(draft.db)'
    OBVIOUS
  <2>1. Current(draft.db) /\ GroupsOwned(draft.db) /\ Announced(draft.db)
    BY DEF UserInv
  <2>2. Announced(draft.db)'
    BY <2>1, Zenon DEF Announced
  <2>3. GroupsOwned(draft.db)'
    BY <1>3, <2>1 DEF GroupsOwned
  <2> QED
    BY <2>1, <2>2, <2>3
<1>11. gen' = "v1" => dbs' # <<>>
  BY <1>4 DEF UserInv
<1> QED
  BY <1>6, <1>7, <1>8, <1>9, <1>10, <1>11 DEF UserInv

\* A request that is under way has a database of the pool at hand.
Active == {"bound", "merged", "got group", "excluded"}

\* That database is current, and the groups in it have answered creators.
LEMMA AtHand ==
    ASSUME UserInv, NEW r \in Requests, req[r].pc \in Active
    PROVE  /\ req[r].db \in 1..Latest /\ Db(r) \in Dbs /\ Current(Db(r)) /\ NoOrphans(Db(r))
           /\ \A g \in Requests : GroupGet(Db(r), g) => req[g].pc = "done"
           /\ req[r].pc # "done" /\ Fine(req[r], Latest)
<1>1. RequestOK(r) /\ dbs \in Seq(Dbs)
  BY DEF UserInv, UserTypeOK
<1>2. req[r].db \in 1..Latest /\ req[r].pc # "done"
  BY <1>1 DEF RequestOK, Active
<1>3. Db(r) \in Dbs
  BY <1>1, <1>2 DEF Db, Latest
<1>4. Current(Db(r)) /\ GroupsOwned(Db(r))
  BY <1>2 DEF UserInv, InventoriesCurrent, Db
<1>5. NoOrphans(Db(r)) /\ \A g \in Requests : GroupGet(Db(r), g) => req[g].pc = "done"
  BY <1>4, Zenon DEF GroupsOwned, NoOrphans
<1> QED
  BY <1>1, <1>2, <1>3, <1>4, <1>5, Zenon DEF RequestOK, Fine

\* A step that answers the request.
LEMMA AnswerStep ==
    ASSUME UserInv, NEW r \in Requests, req[r].pc # "done", NEW status, NEW changed,
           Answer(r, status, changed), Untouched, NEW i, NEW e,
           dbs' = dbs \/ Committed(r, [pc |-> "done"], i, e)
    PROVE  UserInv'
<1> DEFINE n == [pc |-> "done", class |-> status \div 100, changed |-> changed]
<1>1. n.pc = "done" /\ Fine(n, Latest) /\ [pc |-> "done"].pc = "done"
  BY DEF Fine
<1>2. req' = [req EXCEPT ![r] = n]
  BY DEF Answer
<1> HIDE DEF n
<1>3. dbs' = dbs \/ Committed(r, n, i, e)
  BY <1>1 DEF Committed
<1> QED
  BY <1>1, <1>2, <1>3, RequestStep DEF Untouched

\* An early return.
LEMMA Refused ==
    ASSUME UserInv, NEW r \in Requests, req[r].pc # "done", NEW status, Refuse(r, status)
    PROVE  UserInv'
<1>1. Answer(r, status, FALSE) /\ dbs' = dbs /\ Untouched
  BY DEF Refuse
<1> QED
  BY <1>1, AnswerStep

\* A step that reads.
LEMMA Proceeded ==
    ASSUME UserInv, NEW r \in Requests, req[r].pc # "done", NEW n, Fine(n, Latest), Proceed(r, n)
    PROVE  UserInv'
  BY RequestStep DEF Proceed, Untouched

\* A transaction of a request that is answered after it; the groups it touches are
\* there or its own.
Owner(r, new) == \A g \in new : GroupGet(Db(r), g) \/ g = r

\* The transaction and the answer.
LEMMA Answered ==
    ASSUME UserInv, NEW r \in Requests, req[r].pc \in Active, NEW status, NEW changed,
           NEW e, NEW new, Keeps(Db(r), e, new), Owner(r, new),
           Commit(r, e), Answer(r, status, changed), Untouched
    PROVE  UserInv'
<1>1. req[r].db \in 1..Latest /\ req[r].pc # "done"
  BY AtHand
<1>2. Committed(r, [pc |-> "done"], req[r].db, e)
  BY <1>1 DEF Committed, Commit, Db, Owner
<1> QED
  BY <1>1, <1>2, AnswerStep

\* POST /groups.
LEMMA CreateStep ==
    ASSUME UserInv, NEW r \in Requests, NEW name \in Names, NEW filter \in Filters, createGroup(r, name, filter)
    PROVE  UserInv'
<1> DEFINE group == [name |-> name, filter |-> filter]
<1>1. req[r].pc = "bound" /\ req[r].pc \in Active
  BY DEF createGroup, At, Active
<1>2. /\ Db(r) \in Dbs /\ Current(Db(r)) /\ NoOrphans(Db(r)) /\ req[r].pc # "done"
      /\ \A g \in Requests : GroupGet(Db(r), g) => req[g].pc = "done"
  BY <1>1, AtHand
<1>3. CASE filter = "invalid" \/ isUniqueConstraintError(Db(r), r, name)
  BY <1>2, <1>3, Refused DEF createGroup
<1>4. CASE ~(filter = "invalid" \/ isUniqueConstraintError(Db(r), r, name))
  <2>1. group \in Groups
    BY <1>4 DEF Groups, Filters
  <2>2. Commit(r, Create(Db(r), r, group)) /\ Answer(r, 201, TRUE) /\ Untouched
    BY <1>4 DEF createGroup, CreateV1
  <2>3. ~GroupGet(Db(r), r)
    BY <1>2
  <2> HIDE DEF group
  <2>4. Keeps(Db(r), Create(Db(r), r, group), {r})
    BY <1>2, <2>1, <2>3, CreateKeeps
  <2>5. Owner(r, {r})
    BY DEF Owner
  <2> QED
    BY <1>1, <2>2, <2>4, <2>5, Answered
<1> QED
  BY <1>3, <1>4

\* PATCH /groups/{id}, its transaction.
LEMMA UpdateStep ==
    ASSUME UserInv, NEW r \in Requests, updateGroup(r)
    PROVE  UserInv'
<1> DEFINE g == req[r].id  group == req[r].group
<1>1. req[r].pc = "merged" /\ req[r].pc \in Active
  BY DEF updateGroup, At, Active
<1>2. /\ Db(r) \in Dbs /\ Current(Db(r)) /\ NoOrphans(Db(r)) /\ req[r].pc # "done" /\ Fine(req[r], Latest)
  BY <1>1, AtHand
<1>3. g \in Requests /\ group \in Groups
  BY <1>1, <1>2 DEF Fine
<1>4. CASE ~GroupGet(Db(r), g)
  BY <1>2, <1>4, Refused DEF updateGroup
<1>5. CASE GroupGet(Db(r), g) /\ isUniqueConstraintError(Db(r), g, group.name)
  BY <1>2, <1>5, Refused DEF updateGroup
<1>6. CASE GroupGet(Db(r), g) /\ ~isUniqueConstraintError(Db(r), g, group.name)
  <2>1. Commit(r, Update(Db(r), g, group)) /\ Answer(r, 200, TRUE) /\ Untouched
    BY <1>6 DEF updateGroup, UpdateV1
  <2> HIDE DEF g, group
  <2>2. Keeps(Db(r), Update(Db(r), g, group), {g})
    BY <1>2, <1>3, UpdateKeeps
  <2>3. Owner(r, {g})
    BY <1>6 DEF Owner
  <2> QED
    BY <1>1, <2>1, <2>2, <2>3, Answered
<1> QED
  BY <1>4, <1>5, <1>6

\* DELETE /groups/{id}.
LEMMA DeleteStep ==
    ASSUME UserInv, NEW r \in Requests, NEW g \in Requests, deleteGroup(r, g)
    PROVE  UserInv'
<1>1. req[r].pc = "bound" /\ req[r].pc \in Active
  BY DEF deleteGroup, At, Active
<1>2. Db(r) \in Dbs /\ Current(Db(r)) /\ NoOrphans(Db(r)) /\ req[r].pc # "done"
  BY <1>1, AtHand
<1>3. CASE ~GroupGet(Db(r), g)
  BY <1>2, <1>3, Refused DEF deleteGroup
<1>4. CASE GroupGet(Db(r), g)
  <2>1. Commit(r, Delete(Db(r), g)) /\ Answer(r, 204, TRUE) /\ Untouched
    BY <1>4 DEF deleteGroup, DeleteV1
  <2>2. Keeps(Db(r), Delete(Db(r), g), {g})
    BY <1>2, DeleteKeeps
  <2>3. Owner(r, {g})
    BY <1>4 DEF Owner
  <2> QED
    BY <1>1, <2>1, <2>2, <2>3, Answered
<1> QED
  BY <1>3, <1>4

\* PATCH /groups/{id}, the read before the transaction.
LEMMA ReadStep ==
    ASSUME UserInv, NEW r \in Requests, NEW g \in Requests,
           NEW name \in Names \cup {Absent}, NEW filter \in Filters \cup {Absent}, readGroup(r, g, name, filter)
    PROVE  UserInv'
<1> DEFINE existing == Db(r).groups[g]
           group == [name |-> IF name = Absent THEN existing.name ELSE name,
                     filter |-> IF filter = Absent THEN existing.filter ELSE filter]
           n == [pc |-> "merged", db |-> req[r].db, changed |-> FALSE, id |-> g, group |-> group]
<1>1. req[r].pc = "bound" /\ req[r].pc \in Active
  BY DEF readGroup, At, Active
<1>2. Db(r) \in Dbs /\ req[r].pc # "done" /\ req[r].db \in 1..Latest
  BY <1>1, AtHand
<1>3. CASE filter = "invalid"
  BY <1>2, <1>3, Refused DEF readGroup
<1>4. CASE filter # "invalid" /\ ~GroupGet(Db(r), g)
  BY <1>2, <1>4, Refused DEF readGroup
<1>5. CASE filter # "invalid" /\ GroupGet(Db(r), g)
  <2>1. existing \in Groups
    BY <1>2, <1>5 DEF Dbs, GroupGet
  <2>2. existing.name \in Names /\ existing.filter \in {"all", "labelled"}
    BY <2>1, GroupsAreNotNoGroup
  <2> HIDE DEF existing
  <2>3. group \in Groups
    BY <1>5, <2>2 DEF Groups, Filters
  <2>4. Proceed(r, n)
    BY <1>5, Zenon DEF readGroup, existing
  <2> HIDE DEF group
  <2>5. Fine(n, Latest)
    BY <1>2, <2>3 DEF Fine
  <2> HIDE DEF n
  <2> QED
    BY <1>2, <2>4, <2>5, Proceeded
<1> QED
  BY <1>3, <1>4, <1>5

\* GET /groups/{id}.
LEMMA GetStep ==
    ASSUME UserInv, NEW r \in Requests, ListVirtualMachines(r) \/ \E g \in Requests : getGroup(r, g)
    PROVE  UserInv'
<1>1. ASSUME NEW g \in Requests, getGroup(r, g) PROVE UserInv'
  <2> DEFINE n == [pc |-> "got group", db |-> req[r].db, changed |-> FALSE, id |-> g]
  <2>1. req[r].pc = "bound" /\ req[r].pc \in Active
    BY <1>1 DEF getGroup, At, Active
  <2>2. req[r].pc # "done" /\ req[r].db \in 1..Latest
    BY <2>1, AtHand
  <2>3. Fine(n, Latest)
    BY <2>2 DEF Fine
  <2>4. Refuse(r, 404) \/ Proceed(r, n)
    BY <1>1 DEF getGroup
  <2> HIDE DEF n
  <2> QED
    BY <2>2, <2>3, <2>4, Proceeded, Refused
<1>2. ASSUME ListVirtualMachines(r) PROVE UserInv'
  <2> DEFINE ids == GetMatchedIDs(Db(r), req[r].id)
             n == [pc |-> "read", total |-> Cardinality(ids), listed |-> Cardinality(ListVMs(Db(r), ids))]
  <2>1. req[r].pc = "got group"
    BY <1>2 DEF ListVirtualMachines, At
  <2>2. Refuse(r, 500) \/ Proceed(r, n)
    BY <1>2 DEF ListVirtualMachines
  <2>3. Fine(n, Latest)
    BY DEF Fine
  <2> HIDE DEF n
  <2> QED
    BY <2>1, <2>2, <2>3, Proceeded, Refused
<1> QED
  BY <1>1, <1>2

\* PATCH /virtualmachines/{id}, the exclusion.
LEMMA UpdateVMStep ==
    ASSUME UserInv, NEW r \in Requests, NEW v \in VMs, NEW b, updateVirtualMachine(r, v, b)
    PROVE  UserInv'
<1>1. req[r].pc = "bound" /\ req[r].pc \in Active
  BY DEF updateVirtualMachine, At, Active
<1>2. Db(r) \in Dbs /\ Current(Db(r)) /\ NoOrphans(Db(r)) /\ req[r].pc # "done" /\ req[r].db \in 1..Latest
  BY <1>1, AtHand
<1>3. CASE ~VMGet(Db(r), v)
  BY <1>2, <1>3, Refused DEF updateVirtualMachine
<1>4. CASE VMGet(Db(r), v)
  <2> DEFINE n == [pc |-> "excluded", db |-> req[r].db, changed |-> TRUE, id |-> v]
             e == ExcludeTx(Db(r), v, b)
  <2>1. Commit(r, e) /\ Untouched /\ req' = [req EXCEPT ![r] = n]
    BY <1>4 DEF updateVirtualMachine, ExcludeTxV1
  <2>2. Fine(n, Latest)
    BY <1>2 DEF Fine
  <2>3. Keeps(Db(r), e, {})
    BY <1>2, ExcludeKeeps
  <2> HIDE DEF n, e
  <2>4. Committed(r, n, req[r].db, e)
    <3>1. \A g \in {} : GroupGet(Db(r), g) \/ (g = r /\ n.pc = "done")
      OBVIOUS
    <3> QED
      BY <1>2, <2>1, <2>3, <3>1 DEF Committed, Commit, Db
  <2> QED
    BY <1>2, <2>1, <2>2, <2>4, RequestStep DEF Untouched
<1> QED
  BY <1>3, <1>4

\* PATCH /virtualmachines/{id}, the labels.
LEMMA PatchLabelsStep ==
    ASSUME UserInv, NEW r \in Requests, NEW ls \in Patches, patchLabels(r, ls)
    PROVE  UserInv'
<1>1. req[r].pc = "excluded" /\ req[r].pc \in Active
  BY DEF patchLabels, At, Active
<1>2. Db(r) \in Dbs /\ Current(Db(r)) /\ NoOrphans(Db(r)) /\ req[r].pc # "done"
  BY <1>1, AtHand
<1>3. CASE Answer(r, 404, TRUE) /\ UNCHANGED dbs
  BY <1>2, <1>3, AnswerStep DEF patchLabels
<1>4. CASE /\ Commit(r, IF ls = Absent THEN Db(r) ELSE UpdateLabels(Db(r), req[r].id, {ls}))
           /\ Answer(r, 200, TRUE)
  <2> DEFINE e == IF ls = Absent THEN Db(r) ELSE UpdateLabels(Db(r), req[r].id, {ls})
  <2>1. ls # Absent => {ls} \in SUBSET Labels
    BY DEF Patches, Labels
  <2>2. Keeps(Db(r), e, {})
    BY <1>2, <2>1, LabelTxKeep
  <2> HIDE DEF e
  <2>3. Commit(r, e) /\ Answer(r, 200, TRUE) /\ Untouched /\ Owner(r, {})
    BY <1>4 DEF e, patchLabels, Owner
  <2> QED
    BY <1>1, <2>2, <2>3, Answered
<1> QED
  BY <1>3, <1>4 DEF patchLabels

\* POST /virtualmachines/batch-update-exclusion.
LEMMA BatchStep ==
    ASSUME UserInv, NEW r \in Requests, NEW list, NEW b, batchUpdateVMExclusion(r, list, b)
    PROVE  UserInv'
<1> DEFINE ids == deduplicateVMIDs(list)
<1>1. req[r].pc = "bound" /\ req[r].pc \in Active
  BY DEF batchUpdateVMExclusion, At, Active
<1>2. Db(r) \in Dbs /\ Current(Db(r)) /\ NoOrphans(Db(r)) /\ req[r].pc # "done"
  BY <1>1, AtHand
<1>3. CASE list = <<>>
  BY <1>2, <1>3, Refused DEF batchUpdateVMExclusion
<1>4. CASE list # <<>> /\ ~GetMigrationExcludedStates(Db(r), ids)
  BY <1>2, <1>4, Refused DEF batchUpdateVMExclusion
<1>5. CASE list # <<>> /\ GetMigrationExcludedStates(Db(r), ids)
  <2> DEFINE e == ExcludeBatchTx(Db(r), ids, b)
  <2>1. Commit(r, e) /\ Answer(r, 200, TRUE) /\ Untouched
    BY <1>5 DEF batchUpdateVMExclusion, ExcludeBatchTxV1
  <2>2. Keeps(Db(r), e, {}) /\ Owner(r, {})
    BY <1>2, ExcludeBatchKeeps DEF Owner
  <2> HIDE DEF e
  <2> QED
    BY <1>1, <2>1, <2>2, Answered
<1> QED
  BY <1>3, <1>4, <1>5

\* The two handlers of labels.
LEMMA LabelStep ==
    ASSUME UserInv, NEW r \in Requests, deleteLabelGlobally(r) \/ \E add, remove : updateLabelVMs(r, add, remove)
    PROVE  UserInv'
<1>0. Owner(r, {})
  BY DEF Owner
<1>1. req[r].pc = "bound" /\ req[r].pc \in Active
  BY DEF deleteLabelGlobally, updateLabelVMs, At, Active
<1>2. Db(r) \in Dbs /\ Current(Db(r)) /\ NoOrphans(Db(r)) /\ req[r].pc # "done"
  BY <1>1, AtHand
<1>3. ASSUME deleteLabelGlobally(r) PROVE UserInv'
  <2> DEFINE e == RemoveLabelGlobally(Db(r), UserLabel)
  <2>1. Commit(r, e) /\ Answer(r, 200, TRUE) /\ Untouched
    BY <1>3 DEF deleteLabelGlobally
  <2>2. Keeps(Db(r), e, {})
    BY <1>2, LabelTxKeep
  <2> HIDE DEF e
  <2> QED
    BY <1>0, <1>1, <2>1, <2>2, Answered
<1>4. ASSUME NEW add, NEW remove, updateLabelVMs(r, add, remove) PROVE UserInv'
  <2> DEFINE e == UpdateLabelVMs(Db(r), add, remove, UserLabel)
             status == LabelsStatus(Db(r), add, remove)
             changed == e # Db(r)
  <2>1. CASE add = <<>> /\ remove = <<>>
    BY <1>2, <1>4, <2>1, Refused DEF updateLabelVMs
  <2>2. CASE ~(add = <<>> /\ remove = <<>>)
    <3>1. Commit(r, e) /\ Answer(r, status, changed) /\ Untouched
      BY <1>4, <2>2 DEF updateLabelVMs
    <3>2. Keeps(Db(r), e, {})
      BY <1>2, LabelTxKeep
    <3> HIDE DEF e, status, changed
    <3> QED
      BY <1>0, <1>1, <3>1, <3>2, Answered
  <2> QED
    BY <2>1, <2>2
<1> QED
  BY <1>3, <1>4

\* A request is bound to a collection, or finds its handle closed.
LEMMA BindStep ==
    ASSUME UserInv, NEW r \in Requests, LatestService(r) \/ NewHandler(r) \/ HandleClosed(r)
    PROVE  UserInv'
<1>0. Len(dbs) \in Nat /\ (dbs # <<>> => Len(dbs) >= 1)
  BY DEF UserInv, UserTypeOK
<1>1. ASSUME LatestService(r) PROVE UserInv'
  <2>1. req[r].pc # "done" /\ Untouched /\ dbs' = dbs
    BY <1>1 DEF LatestService, Untouched
  <2>2. CASE dbs = <<>>
    BY <1>1, <2>1, <2>2, AnswerStep DEF LatestService
  <2>3. CASE dbs # <<>>
    <3> DEFINE n == [pc |-> "bound", db |-> Latest, changed |-> FALSE]
    <3>1. Proceed(r, n)
      BY <1>1, <2>1, <2>3 DEF LatestService, Proceed
    <3>2. Fine(n, Latest)
      BY <1>0, <2>3 DEF Fine, Latest
    <3> HIDE DEF n
    <3> QED
      BY <2>1, <3>1, <3>2, Proceeded
  <2> QED
    BY <2>2, <2>3
<1>2. ASSUME NewHandler(r) PROVE UserInv'
  <2> DEFINE n == [pc |-> "bound", db |-> 1, changed |-> FALSE]
  <2>1. req[r].pc # "done" /\ Proceed(r, n)
    BY <1>2 DEF NewHandler, Proceed, Untouched
  <2>2. dbs # <<>>
    BY <1>2 DEF UserInv, NewHandler
  <2>3. Fine(n, Latest)
    BY <1>0, <2>2 DEF Fine, Latest
  <2> HIDE DEF n
  <2> QED
    BY <2>1, <2>3, Proceeded
<1>3. ASSUME HandleClosed(r) PROVE UserInv'
  <2>1. req[r].pc # "done" /\ Untouched /\ dbs' = dbs /\ Answer(r, 500, req[r].changed)
    BY <1>3 DEF HandleClosed, Untouched
  <2> QED
    BY <2>1, AnswerStep
<1> QED
  BY <1>1, <1>2, <1>3

-----------------------------------------------------------------------------
(* The collections *)

\* A database a collection has just parsed into.
LEMMA NewDbFields ==
    ASSUME NEW S \in SUBSET VMs, NEW d, d = NewDb(S)
    PROVE  /\ d \in Dbs /\ d.vms = S /\ d.excluded = {} /\ d.main = Nil /\ d.outbox = <<>>
           /\ \A g \in Requests : d.groups[g] = NoGroup /\ d.matches[g] = {} /\ d.inventory[g] = Nil
<1>1. Nil \in Inventories
  BY DEF Inventories
<1>2. /\ d.vms = S /\ d.excluded = {} /\ d.main = Nil /\ d.outbox = <<>>
      /\ \A g \in Requests : d.groups[g] = NoGroup /\ d.matches[g] = {} /\ d.inventory[g] = Nil
  BY DEF NewDb
<1>3. d \in Dbs
  BY <1>1 DEF NewDb, Dbs
<1> QED
  BY <1>2, <1>3

\* An empty outbox changes nothing.
LEMMA NothingRead ==
    ASSUME NEW held
    PROVE  Replay(held, <<>>).main = held.main /\ \A g \in Requests : Replay(held, <<>>).groups[g] = held.groups[g]
<1>1. MainEvents(<<>>) = {} /\ \A g \in Requests : GroupEvents(<<>>, g) = {}
  BY DEF MainEvents, GroupEvents
<1> QED
  BY <1>1 DEF Replay, Apply

\* What the console holds has the type of inventories.
LEMMA ReplayType ==
    ASSUME NEW held \in [main : Inventories, groups : [Requests -> Inventories]], NEW s \in Seq(Events)
    PROVE  Replay(held, s) \in [main : Inventories, groups : [Requests -> Inventories]]
<1>1. ASSUME NEW A, Positions(A, s), NEW h \in Inventories PROVE Apply(h, s, A) \in Inventories
  <2>1. CASE A = {}
    BY <2>1 DEF Apply
  <2>2. CASE A # {}
    <3>1. A \in SUBSET (0..Len(s)) /\ A \subseteq 1..Len(s) /\ Len(s) \in Nat
      BY <1>1 DEF Positions
    <3>2. Max(A) \in A
      BY <2>2, <3>1, MaxOfPositions
    <3>3. s[Max(A)] \in Events
      <4>1. \A k \in 1..Len(s) : s[k] \in Events
        OBVIOUS
      <4> QED
        BY <3>1, <3>2, <4>1, Zenon
    <3> DEFINE e == s[Max(A)]
    <3>4. Apply(h, s, A) = IF e.kind = "delete" THEN Nil ELSE e.inv
      BY <2>2 DEF Apply
    <3> HIDE DEF e
    <3>5. e.kind # "delete" => e.inv \in Inventories
      BY <3>3 DEF e, Events
    <3> QED
      BY <3>4, <3>5 DEF Inventories
  <2> QED
    BY <2>1, <2>2
<1>2. Positions(MainEvents(s), s) /\ \A g \in Requests : Positions(GroupEvents(s, g), s)
  BY EventsOfBoth DEF Both
<1>3. held.main \in Inventories /\ \A g \in Requests : held.groups[g] \in Inventories
  OBVIOUS
<1>4. Apply(held.main, s, MainEvents(s)) \in Inventories
      /\ \A g \in Requests : Apply(held.groups[g], s, GroupEvents(s, g)) \in Inventories
  BY <1>1, <1>2, <1>3
<1> QED
  BY <1>4 DEF Replay

\* What a database announces does not depend on what the console holds.
LEMMA AnnouncedAnyway ==
    ASSUME NEW d, NEW held, NEW other, MainEvents(d.outbox) # {},
           \A g \in Requests : d.inventory[g] # Nil => GroupEvents(d.outbox, g) # {},
           CaughtUp(d, Replay(held, d.outbox))
    PROVE  CaughtUp(d, Replay(other, d.outbox))
<1> DEFINE o == d.outbox
<1>1. Replay(other, o).main = Replay(held, o).main
  BY DEF Replay, Apply
<1>2. \A g \in Requests : GroupEvents(o, g) # {} => Replay(other, o).groups[g] = Replay(held, o).groups[g]
  BY DEF Replay, Apply
<1> QED
  BY <1>1, <1>2 DEF CaughtUp

\* The copy of the user data: groups of the previous collection, no inventory yet.
LEMMA SyncFields ==
    ASSUME NEW S \in SUBSET VMs, NEW s \in Dbs, NEW y, y = SyncAttached(s, NewDb(S))
    PROVE  /\ y \in Dbs /\ y.vms = S /\ y.outbox = <<>>
           /\ \A g \in Requests : /\ y.groups[g] = IF GroupGet(s, g) THEN s.groups[g] ELSE NoGroup
                                  /\ y.matches[g] = {} /\ y.inventory[g] = Nil
<1> DEFINE d == NewDb(S)
<1>1. /\ d \in Dbs /\ d.vms = S /\ d.excluded = {} /\ d.main = Nil /\ d.outbox = <<>>
      /\ \A g \in Requests : d.groups[g] = NoGroup /\ d.matches[g] = {} /\ d.inventory[g] = Nil
  BY NewDbFields
<1> HIDE DEF d
<1> DEFINE G == [g \in Requests |-> IF GroupGet(s, g) THEN s.groups[g] ELSE d.groups[g]]
           a == CopyToAttached(s, d)
<1>2. G \in [Requests -> {NoGroup} \cup Groups]
  BY <1>1 DEF Dbs
<1>3. a = [d EXCEPT !.groups = G]
  BY DEF CopyToAttached
<1>4. \A g \in Requests : G[g] = IF GroupGet(s, g) THEN s.groups[g] ELSE NoGroup
  BY <1>1
<1> HIDE DEF G, a
<1>5. a \in Dbs /\ a.vms = S /\ a.outbox = <<>> /\ a.groups = G /\ a.matches = d.matches /\ a.inventory = d.inventory
  BY <1>1, <1>2, <1>3 DEF Dbs
<1> DEFINE L == [v \in VMs |-> IF v \in s.vms \cap a.vms /\ s.labels[v] # {}
                               THEN s.labels[v] \ systemLabels ELSE a.labels[v]]
           b == CopyLabelsToAttached(s, a)
<1>6. L \in [VMs -> SUBSET Labels]
  BY <1>5 DEF Dbs
<1>7. b = [a EXCEPT !.labels = L]
  BY DEF CopyLabelsToAttached
<1> HIDE DEF L, b
<1>8. b \in Dbs /\ b.vms = S /\ b.outbox = <<>> /\ b.groups = G /\ b.matches = d.matches /\ b.inventory = d.inventory
  BY <1>5, <1>6, <1>7 DEF Dbs
<1> DEFINE X == b.excluded \cup (s.excluded \cap b.vms)
           c == CopyMigrationExclusionToAttached(s, b)
<1>9. X \in SUBSET VMs
  BY <1>8 DEF Dbs
<1>10. c = [b EXCEPT !.excluded = X]
  BY DEF CopyMigrationExclusionToAttached
<1> HIDE DEF X, c
<1>11. c \in Dbs /\ c.vms = S /\ c.outbox = <<>> /\ c.groups = G /\ c.matches = d.matches /\ c.inventory = d.inventory
  BY <1>8, <1>9, <1>10 DEF Dbs
<1> DEFINE K == [v \in VMs |-> IF v \in c.vms \ s.vms THEN c.labels[v] \cup {LabelNew} ELSE c.labels[v]]
<1>12. K \in [VMs -> SUBSET Labels]
  BY <1>11 DEF Dbs, Labels
<1>13. y = [c EXCEPT !.labels = K]
  BY DEF SyncAttached, LabelNewVMsInAttached, a, b, c, d
<1> HIDE DEF K
<1>14. y \in Dbs /\ y.vms = S /\ y.outbox = <<>> /\ y.groups = G /\ y.matches = d.matches /\ y.inventory = d.inventory
  BY <1>11, <1>12, <1>13 DEF Dbs
<1> QED
  BY <1>1, <1>4, <1>14

\* Units 8 and 9: the inventories of the new collection, and an event for each.
LEMMA RefreshFields ==
    ASSUME NEW y \in Dbs, NEW f, f = RefreshGroupInventories(y),
           \A g \in Requests : y.matches[g] = {} /\ y.inventory[g] = Nil
    PROVE  /\ f \in Dbs /\ f.vms = y.vms /\ f.excluded = y.excluded /\ f.groups = y.groups /\ f.outbox = y.outbox
           /\ NoOrphans(f)
           /\ \A g \in Requests : f.inventory[g] = IF ~GroupGet(f, g) \/ f.matches[g] = {} THEN Nil
                                                   ELSE BuildInventory(f, f.matches[g])
<1> DEFINE M == [g \in Requests |-> IF GroupGet(y, g) THEN ByFilter(y, y.groups[g].filter) ELSE y.matches[g]]
           x == [y EXCEPT !.matches = M]
           I == [g \in Requests |-> IF GroupGet(y, g) THEN GroupInventory(x, g) ELSE y.inventory[g]]
<1>1. M \in [Requests -> SUBSET VMs]
  <2>1. y.vms \in SUBSET VMs /\ y.matches \in [Requests -> SUBSET VMs]
    BY DEF Dbs
  <2>2. \A F : ByFilter(y, F) \in SUBSET VMs
    BY <2>1, Zenon DEF ByFilter
  <2> QED
    BY <2>1, <2>2
<1>2. \A g \in Requests : ~GroupGet(y, g) => M[g] = {}
  OBVIOUS
<1>3. f = [x EXCEPT !.inventory = [g \in Requests |-> IF GroupGet(y, g) THEN GroupInventory(x, g) ELSE @[g]]]
  BY Zenon DEF RefreshGroupInventories
<1> HIDE DEF M
<1>4. /\ x \in Dbs /\ x.vms = y.vms /\ x.excluded = y.excluded /\ x.groups = y.groups /\ x.outbox = y.outbox
      /\ x.matches = M /\ x.inventory = y.inventory /\ x.labels = y.labels
  BY <1>1 DEF Dbs
<1> HIDE DEF x
<1>5. f = [x EXCEPT !.inventory = I]
  BY <1>3, <1>4
<1>6. \A g \in Requests : GroupInventory(x, g) \in Inventories
  <2>1. {} \in SUBSET VMs
    OBVIOUS
  <2> QED
    BY <1>4, <2>1, InventoryTypes
<1>7. I \in [Requests -> Inventories]
  BY <1>6 DEF Dbs
<1>8. \A g \in Requests : I[g] = IF GroupGet(y, g) THEN GroupInventory(x, g) ELSE Nil
  OBVIOUS
<1> HIDE DEF I
<1>9. /\ f \in Dbs /\ f.vms = y.vms /\ f.excluded = y.excluded /\ f.groups = y.groups /\ f.outbox = y.outbox
      /\ f.matches = M /\ f.inventory = I /\ f.labels = y.labels
  BY <1>4, <1>5, <1>7 DEF Dbs
<1>10. \A g \in Requests : GroupGet(f, g) <=> GroupGet(y, g)
  BY <1>9 DEF GroupGet
<1>11. \A g \in Requests : GroupInventory(x, g) = IF M[g] = {} THEN Nil ELSE BuildInventory(f, M[g])
  <2>1. ASSUME NEW T PROVE BuildInventory(x, T) = BuildInventory(f, T)
    BY <1>4, <1>9 DEF BuildInventory, LabelsOf
  <2>2. ASSUME NEW g \in Requests
        PROVE  GroupInventory(x, g) = IF M[g] = {} THEN Nil ELSE BuildInventory(x, M[g])
    BY <1>4 DEF GroupInventory, GetMatchedIDs
  <2> QED
    BY <2>1, <2>2
<1>12. NoOrphans(f)
  BY <1>2, <1>9, <1>10 DEF NoOrphans
<1>13. ASSUME NEW g \in Requests
       PROVE  f.inventory[g] = IF ~GroupGet(f, g) \/ f.matches[g] = {} THEN Nil
                               ELSE BuildInventory(f, f.matches[g])
  BY <1>8, <1>9, <1>10, <1>11
<1> QED
  BY <1>9, <1>12, <1>13

\* An event about the main inventory and one for each group of a set.
AllAnnounced(ev, gs, es, s, t) ==
    /\ s \in Seq(Events) /\ t \in Seq(Events) /\ MainEvents(s \o t) # {}
    /\ \A held : Replay(held, s \o t).main = Left(ev)
    /\ \A g \in gs : /\ GroupEvents(s \o t, g) # {}
                     /\ \A held : Replay(held, s \o t).groups[g] = Left(es[g])

\* Whoever reads both parts has all of it.
LEMMA AnnouncedEvents ==
    ASSUME NEW ev \in Events, ev.kind = "inventory", NEW gs \in SUBSET Requests, NEW es, AboutGroups(gs, es),
           NEW t, t = EventList(gs, es), NEW s, s = <<ev>>
    PROVE  AllAnnounced(ev, gs, es, s, t)
<1>1. /\ t \in Seq(Events) /\ MainEvents(t) = {}
      /\ \A g \in gs : \E k \in GroupEvents(t, g) : GroupEvents(t, g) = {k} /\ t[k] = es[g]
      /\ \A g \in Requests \ gs : GroupEvents(t, g) = {}
  <2>1. OneEach(gs, es, t)
    BY ListedEvents
  <2> QED
    BY <2>1, Zenon DEF OneEach
<1>2. /\ s \in Seq(Events) /\ s[1] = ev /\ MainEvents(s) = {1} /\ <<>> \o s = s /\ <<>> \in Seq(Events)
  BY OneEvent
<1>3. /\ MainEvents(s \o t) = Joined(MainEvents(s), Len(s), MainEvents(t))
      /\ \A g \in Requests : GroupEvents(s \o t, g) = Joined(GroupEvents(s, g), Len(s), GroupEvents(t, g))
  <2>1. s \in Seq(Events) /\ t \in Seq(Events)
    BY <1>1, <1>2
  <2>2. Both(s, t)
    BY <2>1, EventsOfBoth
  <2> QED
    BY <2>2, Zenon DEF Both
<1>4. MainEvents(s \o t) # {}
  BY <1>2, <1>3 DEF Joined
<1>5. ASSUME NEW held PROVE Replay(held, s \o t).main = Left(ev)
  <2>1. Reads(s, t, held) /\ Reads(<<>>, s, held)
    BY <1>1, <1>2, Replayed
  <2>2. Replay(held, s \o t).main = Replay(held, s).main
    BY <1>1, <2>1, Zenon DEF Reads
  <2>3. 1 \in MainEvents(s)
    BY <1>2
  <2>4. Replay(held, <<>> \o s).main = Left(s[1])
    BY <1>2, <2>1, <2>3, Zenon DEF Reads
  <2> QED
    BY <1>2, <2>2, <2>4
<1>6. ASSUME NEW g \in gs
      PROVE  GroupEvents(s \o t, g) # {} /\ \A held : Replay(held, s \o t).groups[g] = Left(es[g])
  <2>1. PICK k \in GroupEvents(t, g) : GroupEvents(t, g) = {k} /\ t[k] = es[g]
    BY <1>1
  <2>2. Len(s) + k \in GroupEvents(s \o t, g)
    BY <1>3, <2>1 DEF Joined
  <2>3. ASSUME NEW held PROVE Replay(held, s \o t).groups[g] = Left(t[k])
    <3>1. Reads(s, t, held)
      BY <1>1, <1>2, Replayed
    <3> QED
      BY <2>1, <3>1, Zenon DEF Reads
  <2> QED
    BY <2>1, <2>2, <2>3, Zenon
<1> QED
  BY <1>1, <1>2, <1>4, <1>5, <1>6, Zenon DEF AllAnnounced

\* The inventory unit 8 saves, with or without the utilization.
LEMMA SavedMain ==
    ASSUME NEW f \in Dbs, NEW found \in BOOLEAN,
           NEW main, main = [BuildInventory(f, f.vms) EXCEPT !.utilization = found]
    PROVE  main \in Inventories /\ Reflects(f, main, f.vms) /\ main.labels = LabelsOf(f, f.vms)
<1>1. f.vms \in SUBSET VMs
  BY DEF Dbs
<1>2. f.labels \in [VMs -> SUBSET Labels] /\ f.excluded \in SUBSET VMs
  BY DEF Dbs
<1> DEFINE L == LabelsOf(f, f.vms)
<1>3. L \in [VMs -> SUBSET Labels]
  BY <1>2 DEF LabelsOf
<1>4. BuildInventory(f, f.vms) = [of |-> f.vms, without |-> f.vms \cap f.excluded, labels |-> L,
                                 utilization |-> FALSE]
  BY DEF BuildInventory
<1> HIDE DEF L
<1>5. main = [of |-> f.vms, without |-> f.vms \cap f.excluded, labels |-> L, utilization |-> found]
  BY <1>4
<1>6. main \in Inventories
  BY <1>1, <1>2, <1>3, <1>5 DEF Inventories
<1>7. Reflects(f, main, f.vms) /\ main.labels = L
  BY <1>5 DEF Reflects
<1> QED
  BY <1>6, <1>7 DEF L

\* SaveInventory and Publish.
LEMMA PublishFields ==
    ASSUME NEW f \in Dbs, f.outbox = <<>>, NoOrphans(f),
           \A g \in Requests : f.inventory[g] = IF ~GroupGet(f, g) \/ f.matches[g] = {} THEN Nil
                                                ELSE BuildInventory(f, f.matches[g]),
           NEW found \in BOOLEAN,
           NEW e, e = Publish(SaveInventory(f, found), {g \in Requests : GroupGet(f, g) /\ Nil # f.inventory[g]})
    PROVE  /\ e \in Dbs /\ Current(e) /\ Embedded(e) /\ NoOrphans(e)
           /\ \A g \in Requests : GroupGet(e, g) => GroupGet(f, g)
           /\ MainEvents(e.outbox) # {}
           /\ \A g \in Requests : e.inventory[g] # Nil => GroupEvents(e.outbox, g) # {}
           /\ \A held : CaughtUp(e, Replay(held, e.outbox))
<1> DEFINE built == BuildInventory(f, f.vms)
           main == [built EXCEPT !.utilization = found]
           m == AddInventoryUpdateEvent(SaveInventory(f, found))
           ev == [kind |-> "inventory", inv |-> m.main]
           gs == {g \in Requests : GroupGet(f, g) /\ Nil # f.inventory[g]}
           es == [g \in Requests |-> GroupEvent(g, f.inventory[g])]
           t == EventList(gs, es)
<1>0. main \in Inventories /\ Reflects(f, main, f.vms) /\ main.labels = LabelsOf(f, f.vms)
  BY SavedMain
<1>1. /\ m \in Dbs /\ m.vms = f.vms /\ m.labels = f.labels /\ m.excluded = f.excluded /\ m.groups = f.groups
      /\ m.matches = f.matches /\ m.inventory = f.inventory /\ m.main = main
      /\ Tells(f, m, <<ev>>)
  <2>1. SaveInventory(f, found) = [f EXCEPT !.main = main]
    BY DEF SaveInventory
  <2> HIDE DEF main
  <2> QED
    BY <1>0, <2>1, MainSaved
<1>2. m = AddInventoryUpdateEvent(SaveInventory(f, found)) /\ SaveInventory(f, found).inventory = f.inventory
  <2> HIDE DEF main
  <2> QED
    BY DEF SaveInventory, Dbs
<1>3. ev \in Events /\ ev.kind = "inventory" /\ Left(ev) = m.main
  BY <1>1 DEF Events, Left, Dbs
<1> HIDE DEF m, ev, main
<1>5. m.outbox = <<ev>>
  <2>1. <<>> \o <<ev>> = <<ev>>
    OBVIOUS
  <2> QED
    BY <1>1, <2>1 DEF Tells
<1>6. \A g \in Requests : /\ es[g] \in Events /\ es[g].kind # "inventory" /\ es[g].group = g
                          /\ Left(es[g]) = f.inventory[g]
  <2> SUFFICES ASSUME NEW g \in Requests
               PROVE  /\ es[g] \in Events /\ es[g].kind # "inventory" /\ es[g].group = g
                      /\ Left(es[g]) = f.inventory[g]
    OBVIOUS
  <2>1. f.inventory[g] \in Inventories /\ es[g] = GroupEvent(g, f.inventory[g])
    BY DEF Dbs
  <2> QED
    BY <2>1, GroupEventFacts, Zenon
<1>7. /\ <<ev>> \in Seq(Events) /\ t \in Seq(Events) /\ MainEvents(<<ev>> \o t) # {}
      /\ \A held : Replay(held, <<ev>> \o t).main = Left(ev)
      /\ \A g \in gs : /\ GroupEvents(<<ev>> \o t, g) # {}
                       /\ \A held : Replay(held, <<ev>> \o t).groups[g] = Left(es[g])
  <2>1. AboutGroups(gs, es)
    BY <1>6 DEF AboutGroups
  <2>2. gs \in SUBSET Requests
    OBVIOUS
  <2> HIDE DEF es, gs
  <2> QED
    <3>1. AllAnnounced(ev, gs, es, <<ev>>, t)
      BY <1>3, <2>1, <2>2, AnnouncedEvents
    <3> QED
      BY <3>1, Zenon DEF AllAnnounced
<1>8. e = [m EXCEPT !.outbox = @ \o t]
  <2>1. \A i \in DOMAIN SetToSeq(gs) : SetToSeq(gs)[i] \in Requests
    <3>1. IsFiniteSet(gs)
      BY UserDataAssumption, FS_Subset
    <3> QED
      BY <3>1, ListOfSet
  <2>2. t = [i \in DOMAIN SetToSeq(gs) |-> GroupEvent(SetToSeq(gs)[i], SaveInventory(f, found).inventory[SetToSeq(gs)[i]])]
    BY <1>2, <2>1 DEF EventList
  <2> HIDE DEF t
  <2> QED
    BY <1>2, <2>2, Zenon DEF Publish, AddEvents
<1> HIDE DEF t
<1>9. /\ e \in Dbs /\ e.vms = f.vms /\ e.labels = f.labels /\ e.excluded = f.excluded
      /\ e.groups = f.groups /\ e.matches = f.matches
      /\ e.inventory = f.inventory /\ e.main = m.main /\ e.outbox = <<ev>> \o t
  <2> DEFINE o == <<ev>> \o t
  <2>1. o \in Seq(Events)
    BY <1>7
  <2>3. e = [m EXCEPT !.outbox = o]
    BY <1>5, <1>8
  <2> HIDE DEF o
  <2>2. /\ e \in Dbs /\ e.vms = m.vms /\ e.labels = m.labels /\ e.excluded = m.excluded
        /\ e.groups = m.groups /\ e.matches = m.matches
        /\ e.inventory = m.inventory /\ e.main = m.main /\ e.outbox = o
    BY <1>1, <2>1, <2>3 DEF Dbs
  <2> QED
    BY <1>1, <2>2 DEF o
<1>10. Current(e) /\ Embedded(e) /\ NoOrphans(e) /\ \A g \in Requests : GroupGet(e, g) <=> GroupGet(f, g)
  <2>1. ASSUME NEW J, NEW T PROVE Reflects(f, J, T) => Reflects(e, J, T)
    BY <1>9, StillReflects
  <2>2. \A g \in Requests : GroupGet(e, g) <=> GroupGet(f, g)
    BY <1>9 DEF GroupGet
  <2>3. ASSUME NEW T PROVE LabelsOf(e, T) = LabelsOf(f, T)
    BY <1>9 DEF LabelsOf
  <2>4. ASSUME NEW g \in Requests
        PROVE  IF ~GroupGet(e, g) \/ e.matches[g] = {} THEN e.inventory[g] = Nil
               ELSE /\ Reflects(e, e.inventory[g], e.matches[g])
                    /\ e.inventory[g].labels = LabelsOf(e, e.matches[g])
    <3>1. Reflects(f, BuildInventory(f, f.matches[g]), f.matches[g])
      BY BuiltReflects
    <3>2. BuildInventory(f, f.matches[g]).labels = LabelsOf(f, f.matches[g])
      BY DEF BuildInventory
    <3> QED
      BY <1>9, <2>1, <2>2, <2>3, <3>1, <3>2
  <2>5. Reflects(e, e.main, e.vms) /\ e.main.labels = LabelsOf(e, e.vms)
    BY <1>0, <1>1, <1>9, <2>1, <2>3
  <2>6. Current(e)
    BY <2>4, <2>5, Zenon DEF Current
  <2>7. Embedded(e)
    BY <2>4, <2>5, Zenon DEF Embedded
  <2>8. NoOrphans(e)
    BY <1>9, <2>2 DEF NoOrphans
  <2> QED
    BY <2>2, <2>6, <2>7, <2>8
<1>11. \A g \in Requests : e.inventory[g] # Nil => g \in gs
  BY <1>9
<1>12. \A held : CaughtUp(e, Replay(held, e.outbox))
  <2> SUFFICES ASSUME NEW held PROVE CaughtUp(e, Replay(held, e.outbox))
    OBVIOUS
  <2>1. Replay(held, e.outbox).main = e.main
    BY <1>3, <1>7, <1>9, Zenon
  <2>2. ASSUME NEW g \in Requests, e.inventory[g] # Nil PROVE Replay(held, e.outbox).groups[g] = e.inventory[g]
    <3>1. g \in gs
      BY <1>11, <2>2
    <3>2. Replay(held, <<ev>> \o t).groups[g] = Left(es[g]) /\ Left(es[g]) = f.inventory[g]
      <4> HIDE DEF gs, es
      <4> QED
        BY <1>6, <1>7, <3>1, Zenon
    <3> QED
      BY <1>9, <3>2
  <2> QED
    BY <2>1, <2>2, Zenon DEF CaughtUp
<1>13. MainEvents(e.outbox) # {} /\ \A g \in Requests : e.inventory[g] # Nil => GroupEvents(e.outbox, g) # {}
  BY <1>7, <1>9, <1>11, Zenon
<1> QED
  BY <1>9, <1>10, <1>12, <1>13

\* The draft of a collection, from the unit that parses to the promotion.
LEMMA DraftStep ==
    ASSUME UserInv, UNCHANGED <<gen, dbs, closing, req, view>>,
           \/ draft' = NoDraft
           \/ \E S \in VmSets : draft' = [stage |-> "parsed", db |-> NewDb(S)]
           \/ /\ draft'.stage = "built" /\ draft'.db \in Dbs
              /\ Current(draft'.db) /\ Embedded(draft'.db) /\ GroupsOwned(draft.db)' /\ Announced(draft.db)'
    PROVE  UserInv'
<1>1. UserTypeOK'
  <2>1. UserTypeOK
    BY DEF UserInv
  <2>2. \A r \in Requests : RequestOK(r)'
    BY <2>1 DEF UserTypeOK, RequestOK, Latest
  <2> QED
    BY <2>1, <2>2 DEF UserTypeOK
<1>2. draft'.stage = "built" => /\ Current(draft'.db) /\ Embedded(draft'.db)
                                /\ GroupsOwned(draft.db)' /\ Announced(draft.db)'
  <2>1. draft' = NoDraft => draft'.stage # "built"
    BY DEF NoDraft
  <2>2. (\E S \in VmSets : draft' = [stage |-> "parsed", db |-> NewDb(S)]) => draft'.stage # "built"
    OBVIOUS
  <2> QED
    BY <2>1, <2>2
<1>3. InventoriesCurrent' /\ ConsoleCatchesUp' /\ (gen' = "v1" => dbs' # <<>>)
  BY <1>2 DEF UserInv, InventoriesCurrent, ConsoleCatchesUp, Latest
<1>4. \A i \in 1..Latest' : GroupsOwned(dbs[i])'
  BY DEF UserInv, GroupsOwned, Latest
<1> QED
  BY <1>1, <1>2, <1>3, <1>4 DEF UserInv

\* Parse and Finalize of a failed run.
LEMMA ParseStep ==
    ASSUME UserInv, ParseCollection \/ DiscardCollection
    PROVE  UserInv'
  BY DraftStep DEF ParseCollection, DiscardCollection

\* Units 7 to 9.
LEMMA BuildStep ==
    ASSUME UserInv, BuildCollection
    PROVE  UserInv'
<1> DEFINE y == IF dbs = <<>> THEN draft.db ELSE SyncAttached(dbs[Latest], draft.db)
           f == RefreshGroupInventories(y)
           gs == {g \in Requests : GroupGet(f, g) /\ Nil # f.inventory[g]}
<1>1. PICK S \in VmSets : draft = [stage |-> "parsed", db |-> NewDb(S)]
  <2>1. draft.stage = "parsed" /\ UserTypeOK
    BY DEF BuildCollection, UserInv
  <2>2. NoDraft.stage # "parsed"
    BY DEF NoDraft
  <2> QED
    BY <2>1, <2>2 DEF UserTypeOK
<1>2. S \in SUBSET VMs /\ draft.db = NewDb(S)
  BY <1>1, UserDataAssumption
<1>3. PICK found \in BOOLEAN :
          /\ draft' = [stage |-> "built", db |-> Publish(SaveInventory(f, found), ChangedGroups(y, f))]
          /\ UNCHANGED <<gen, dbs, closing, req, view>>
  BY Zenon DEF BuildCollection
<1> DEFINE e == Publish(SaveInventory(f, found), ChangedGroups(y, f))
<1>4. /\ y \in Dbs /\ y.outbox = <<>>
      /\ \A g \in Requests : y.matches[g] = {} /\ y.inventory[g] = Nil /\ (GroupGet(y, g) => req[g].pc = "done")
  <2>1. CASE dbs = <<>>
    <3>1. y = NewDb(S)
      BY <1>2, <2>1
    <3> HIDE DEF y
    <3> QED
      BY <1>2, <3>1, NewDbFields DEF GroupGet
  <2>2. CASE dbs # <<>>
    <3>1. Latest \in 1..Latest /\ dbs[Latest] \in Dbs
      BY <2>2 DEF UserInv, UserTypeOK, Latest
    <3>2. GroupsOwned(dbs[Latest])
      BY <3>1 DEF UserInv
    <3>3. y = SyncAttached(dbs[Latest], NewDb(S))
      BY <1>2, <2>2
    <3> DEFINE s == dbs[Latest]
    <3> HIDE DEF y, s
    <3>4. /\ y \in Dbs /\ y.vms = S /\ y.outbox = <<>>
          /\ \A g \in Requests : /\ y.groups[g] = IF GroupGet(s, g) THEN s.groups[g] ELSE NoGroup
                                 /\ y.matches[g] = {} /\ y.inventory[g] = Nil
      BY <1>2, <3>1, <3>3, SyncFields DEF s
    <3>5. \A g \in Requests : GroupGet(y, g) => GroupGet(s, g)
      BY <3>4 DEF GroupGet
    <3> QED
      BY <3>2, <3>4, <3>5 DEF s, GroupsOwned
  <2> QED
    BY <2>1, <2>2
<1> HIDE DEF y
<1>5. /\ f \in Dbs /\ f.vms = y.vms /\ f.excluded = y.excluded /\ f.groups = y.groups /\ f.outbox = y.outbox
      /\ NoOrphans(f)
      /\ \A g \in Requests : f.inventory[g] = IF ~GroupGet(f, g) \/ f.matches[g] = {} THEN Nil
                                              ELSE BuildInventory(f, f.matches[g])
  BY <1>4, RefreshFields
<1> HIDE DEF f
<1>6. ChangedGroups(y, f) = gs
  BY <1>4, Zenon DEF ChangedGroups
<1>7. e = Publish(SaveInventory(f, found), gs)
  BY <1>6
<1>13. draft'.stage = "built" /\ draft'.db = e
  BY <1>3
<1> HIDE DEF e
<1>8. /\ e \in Dbs /\ Current(e) /\ Embedded(e) /\ NoOrphans(e)
      /\ \A g \in Requests : GroupGet(e, g) => GroupGet(f, g)
      /\ MainEvents(e.outbox) # {}
      /\ \A g \in Requests : e.inventory[g] # Nil => GroupEvents(e.outbox, g) # {}
      /\ \A held : CaughtUp(e, Replay(held, e.outbox))
  <2>1. f.outbox = <<>>
    BY <1>4, <1>5
  <2> QED
    BY <1>5, <1>7, <2>1, PublishFields, Zenon
<1>9. \A g \in Requests : IF GroupGet(e, g) THEN req'[g].pc = "done" ELSE e.matches[g] = {}
  <2>1. \A g \in Requests : GroupGet(f, g) <=> GroupGet(y, g)
    BY <1>5 DEF GroupGet
  <2> QED
    BY <1>3, <1>4, <1>8, <2>1 DEF NoOrphans
<1>10. draft'.stage = "built" /\ draft'.db = e
  BY <1>13
<1>11. GroupsOwned(draft.db)'
  BY <1>9, <1>10, Zenon DEF GroupsOwned
<1>12. Announced(draft.db)'
  BY <1>8, <1>10, Zenon DEF Announced
<1> QED
  BY <1>3, <1>8, <1>10, <1>11, <1>12, DraftStep

\* pool.Add.
LEMMA PromoteStep ==
    ASSUME UserInv, PromoteCollection
    PROVE  UserInv'
<1>1. UserTypeOK /\ draft.stage = "built" /\ Current(draft.db) /\ GroupsOwned(draft.db) /\ Announced(draft.db)
  BY DEF UserInv, PromoteCollection
<1>2. draft.db \in Dbs /\ dbs \in Seq(Dbs)
  <2>1. NoDraft.stage # "built" /\ \A S : [stage |-> "parsed", db |-> NewDb(S)].stage # "built"
    BY DEF NoDraft
  <2> QED
    BY <1>1, <2>1 DEF UserTypeOK
<1>3. /\ dbs' = Append(dbs, draft.db) /\ draft' = NoDraft /\ closing' \in BOOLEAN
      /\ gen' = gen /\ req' = req /\ view' = view
  BY DEF PromoteCollection
<1> DEFINE n == draft.db
<1> HIDE DEF n
<1>4. /\ dbs' \in Seq(Dbs) /\ Latest' = Latest + 1 /\ Latest \in Nat /\ dbs' # <<>>
      /\ dbs'[Latest'] = n /\ \A i \in 1..Latest : dbs'[i] = dbs[i]
  BY <1>2, <1>3 DEF Latest, n
<1>5. \A i \in 1..Latest' : i \in 1..Latest \/ i = Latest'
  BY <1>4
<1>6. \A r \in Requests : RequestOK(r)'
  <2>1. \A r \in Requests : RequestOK(r)
    BY <1>1 DEF UserTypeOK
  <2>2. \A x : x \in 1..Latest => x \in 1..Latest'
    BY <1>4
  <2> QED
    BY <1>3, <2>1, <2>2, Zenon DEF RequestOK
<1>7. UserTypeOK'
  BY <1>1, <1>3, <1>4, <1>6 DEF UserTypeOK
<1>8. ASSUME NEW i \in 1..Latest' PROVE Current(dbs'[i]) /\ GroupsOwned(dbs[i])'
  <2>1. CASE i \in 1..Latest
    <3>1. Current(dbs[i]) /\ GroupsOwned(dbs[i]) /\ dbs'[i] = dbs[i]
      BY <1>4, <2>1 DEF UserInv, InventoriesCurrent
    <3> QED
      BY <1>3, <3>1, Zenon DEF GroupsOwned
  <2>2. CASE i = Latest'
    <3>1. Current(n) /\ GroupsOwned(n) /\ dbs'[i] = n
      BY <1>1, <1>4, <2>2 DEF n
    <3> QED
      BY <1>3, <3>1, Zenon DEF GroupsOwned
  <2> QED
    BY <1>5, <1>8, <2>1, <2>2
<1>9. ConsoleCatchesUp'
  <2>1. CaughtUp(n, Replay(view, n.outbox))
    BY <1>1 DEF Announced, n
  <2> QED
    BY <1>3, <1>4, <2>1 DEF ConsoleCatchesUp
<1>10. draft'.stage # "built"
  BY <1>3 DEF NoDraft
<1>11. InventoriesCurrent' /\ \A i \in 1..Latest' : GroupsOwned(dbs[i])'
  BY <1>8, <1>10 DEF InventoriesCurrent
<1> QED
  BY <1>4, <1>7, <1>9, <1>10, <1>11 DEF UserInv

\* The console sends and clears the outbox.
LEMMA DeliverStep ==
    ASSUME UserInv, Deliver
    PROVE  UserInv'
<1> DEFINE d == dbs[Latest]  e == [d EXCEPT !.outbox = <<>>]
<1>1. /\ dbs # <<>> /\ view' = Replay(view, d.outbox) /\ dbs' = [dbs EXCEPT ![Latest] = e]
      /\ gen' = gen /\ draft' = draft /\ closing' = closing /\ req' = req
  BY DEF Deliver
<1>2. dbs \in Seq(Dbs) /\ Latest \in 1..Latest /\ d \in Dbs
  BY <1>1 DEF UserInv, UserTypeOK, Latest
<1>3. Current(d) /\ GroupsOwned(d) /\ CaughtUp(d, view')
  BY <1>1, <1>2 DEF UserInv, InventoriesCurrent, ConsoleCatchesUp
<1> HIDE DEF d
<1>4. /\ e \in Dbs /\ e.vms = d.vms /\ e.excluded = d.excluded /\ e.groups = d.groups
      /\ e.matches = d.matches /\ e.inventory = d.inventory /\ e.main = d.main /\ e.outbox = <<>>
  <2> DEFINE o == <<>>
  <2>1. e = [d EXCEPT !.outbox = o] /\ o \in Seq(Events)
    OBVIOUS
  <2> HIDE DEF o, e
  <2>2. /\ e \in Dbs /\ e.vms = d.vms /\ e.excluded = d.excluded /\ e.groups = d.groups
        /\ e.matches = d.matches /\ e.inventory = d.inventory /\ e.main = d.main /\ e.outbox = o
    BY <1>2, <2>1 DEF Dbs
  <2> QED
    BY <2>2 DEF o
<1> HIDE DEF e
<1>5. Current(e)
  BY <1>3, <1>4 DEF Current, GroupGet, Reflects
<1>6. GroupsOwned(e)
  BY <1>3, <1>4 DEF GroupsOwned, GroupGet
<1>7. CaughtUp(e, Replay(view', <<>>))
  BY <1>3, <1>4, NothingRead DEF CaughtUp
<1>8. /\ dbs' \in Seq(Dbs) /\ Latest' = Latest /\ dbs' # <<>> /\ dbs'[Latest'] = e
      /\ \A i \in 1..Latest : dbs'[i] = IF i = Latest THEN e ELSE dbs[i]
  BY <1>1, <1>2, <1>4 DEF Latest
<1>9. ASSUME NEW i \in 1..Latest' PROVE Current(dbs'[i]) /\ GroupsOwned(dbs[i])'
  <2>1. CASE i = Latest
    <3>1. Current(e) /\ GroupsOwned(e) /\ dbs'[i] = e
      BY <1>5, <1>6, <1>8, <2>1
    <3> QED
      BY <1>1, <3>1, Zenon DEF GroupsOwned
  <2>2. CASE i # Latest
    <3>1. Current(dbs[i]) /\ GroupsOwned(dbs[i]) /\ dbs'[i] = dbs[i]
      BY <1>8, <1>9, <2>2 DEF UserInv, InventoriesCurrent
    <3> QED
      BY <1>1, <3>1, Zenon DEF GroupsOwned
  <2> QED
    BY <2>1, <2>2
<1>10. InventoriesCurrent' /\ \A i \in 1..Latest' : GroupsOwned(dbs[i])'
  BY <1>1, <1>9 DEF InventoriesCurrent, UserInv
<1>11. ConsoleCatchesUp'
  BY <1>4, <1>7, <1>8 DEF ConsoleCatchesUp
<1>12. UserTypeOK'
  <2>1. UserTypeOK
    BY DEF UserInv
  <2>2. view' \in [main : Inventories, groups : [Requests -> Inventories]]
    <3>1. view \in [main : Inventories, groups : [Requests -> Inventories]] /\ d.outbox \in Seq(Events)
      BY <1>2, <2>1 DEF UserTypeOK, Dbs
    <3> QED
      BY <1>1, <3>1, ReplayType
  <2>3. \A r \in Requests : RequestOK(r)'
    BY <1>1, <1>8, <2>1 DEF UserTypeOK, RequestOK
  <2> QED
    BY <1>1, <1>8, <2>1, <2>2, <2>3 DEF UserTypeOK
<1>13. draft'.stage = "built" => Current(draft'.db) /\ GroupsOwned(draft.db)' /\ Announced(draft.db)'
  <2> SUFFICES ASSUME draft.stage = "built"
               PROVE  Current(draft.db) /\ GroupsOwned(draft.db)' /\ Announced(draft.db)'
    BY <1>1
  <2>1. Current(draft.db) /\ GroupsOwned(draft.db) /\ Announced(draft.db)
    BY DEF UserInv
  <2>2. GroupsOwned(draft.db)'
    BY <1>1, <2>1, Zenon DEF GroupsOwned
  <2>3. CaughtUp(draft.db, Replay(view', draft.db.outbox))
    BY <2>1, AnnouncedAnyway DEF Announced
  <2>4. Announced(draft.db)'
    BY <1>1, <2>1, <2>3, Zenon DEF Announced
  <2> QED
    BY <2>1, <2>2, <2>4
<1>14. gen' = "v1" => dbs' # <<>>
  BY <1>8
<1> QED
  BY <1>10, <1>11, <1>12, <1>13, <1>14 DEF UserInv

\* prevDB.Close.
LEMMA CloseStep ==
    ASSUME UserInv, ClosePrevDB
    PROVE  UserInv'
<1>1. /\ closing' \in BOOLEAN /\ gen' = gen /\ dbs' = dbs /\ draft' = draft /\ req' = req /\ view' = view
  BY DEF ClosePrevDB
<1>2. UserTypeOK'
  BY <1>1 DEF UserInv, UserTypeOK, RequestOK, Latest
<1>3. InventoriesCurrent' /\ ConsoleCatchesUp' /\ (gen' = "v1" => dbs' # <<>>)
  BY <1>1 DEF UserInv, InventoriesCurrent, ConsoleCatchesUp, Latest
<1>4. (\A i \in 1..Latest' : GroupsOwned(dbs[i])') /\ (draft'.stage = "built" => Current(draft'.db) /\ GroupsOwned(draft.db)' /\ Announced(draft.db)')
  BY <1>1 DEF UserInv, GroupsOwned, Announced, Latest
<1> QED
  BY <1>1, <1>2, <1>3, <1>4 DEF UserInv

-----------------------------------------------------------------------------
(* The theorems *)

\* The databases at startup.
LEMMA UserInitInv == UserInit => UserInv
<1> SUFFICES ASSUME UserInit PROVE UserInv
  OBVIOUS
<1>1. Nil \in Inventories /\ gen \in {"v1", "v2"}
  BY DEF Inventories, UserInit
<1>2. /\ draft = NoDraft /\ closing = FALSE /\ view = [main |-> Nil, groups |-> [g \in Requests |-> Nil]]
      /\ req = [r \in Requests |-> Idle] /\ draft.stage # "built"
  BY DEF UserInit, NoDraft
<1>3. \A r \in Requests : req[r].pc = "idle"
  BY <1>2 DEF Idle
<1>4. dbs \in Seq(Dbs) /\ (\A i \in 1..Latest : Current(dbs[i]) /\ GroupsOwned(dbs[i])) /\ ConsoleCatchesUp
      /\ (gen = "v1" => dbs # <<>>)
  <2>1. CASE gen = "v2"
    <3>1. dbs = <<>> /\ Latest = 0
      BY <2>1 DEF UserInit, Latest
    <3> QED
      BY <2>1, <3>1 DEF ConsoleCatchesUp
  <2>2. CASE gen = "v1"
    <3>1. PICK ls \in {{}, {UserLabel}} :
            dbs = <<AddInventoryUpdateEvent(SaveInventory([NewDb(VMs) EXCEPT !.labels = [v \in VMs |-> ls]], TRUE))>>
      BY <2>2 DEF UserInit, LabelledDb
    <3> DEFINE d == NewDb(VMs)  L == [v \in VMs |-> ls]  e == [d EXCEPT !.labels = L]
               main == [BuildInventory(e, e.vms) EXCEPT !.utilization = TRUE]
               m == AddInventoryUpdateEvent(SaveInventory(e, TRUE))
    <3>2. /\ d \in Dbs /\ d.vms = VMs /\ d.excluded = {} /\ d.main = Nil /\ d.outbox = <<>>
          /\ \A g \in Requests : d.groups[g] = NoGroup /\ d.matches[g] = {} /\ d.inventory[g] = Nil
      <4>1. VMs \in SUBSET VMs
        OBVIOUS
      <4> QED
        BY <4>1, NewDbFields
    <3>3. L \in [VMs -> SUBSET Labels]
      BY DEF Labels
    <3> HIDE DEF d, L
    <3>4. /\ e \in Dbs /\ e.main = Nil /\ e.outbox = <<>>
          /\ e.groups = d.groups /\ e.matches = d.matches /\ e.inventory = d.inventory
      BY <3>2, <3>3 DEF Dbs
    <3> HIDE DEF e
    <3>5. /\ m \in Dbs /\ m.vms = e.vms /\ m.excluded = e.excluded /\ m.groups = e.groups
          /\ m.matches = e.matches /\ m.inventory = e.inventory /\ Reflects(e, m.main, e.vms)
          /\ Tells(e, m, <<[kind |-> "inventory", inv |-> m.main]>>)
      <4>1. main \in Inventories /\ Reflects(e, main, e.vms)
        BY <3>4, SavedMain
      <4>2. SaveInventory(e, TRUE) = [e EXCEPT !.main = main]
        BY DEF SaveInventory
      <4>3. m = AddInventoryUpdateEvent([e EXCEPT !.main = main])
        BY <4>2, Zenon
      <4> HIDE DEF main, m
      <4>4. m \in Dbs /\ m.vms = e.vms /\ m.excluded = e.excluded /\ m.groups = e.groups
            /\ m.matches = e.matches /\ m.inventory = e.inventory /\ m.main = main
            /\ Tells(e, m, <<[kind |-> "inventory", inv |-> m.main]>>)
        BY <3>4, <4>1, <4>3, MainSaved
      <4> QED
        BY <4>1, <4>4
    <3>6. dbs = <<m>>
      BY <3>1 DEF d, L, e
    <3> HIDE DEF m
    <3>7. /\ dbs \in Seq(Dbs) /\ Latest = 1 /\ dbs[1] = m /\ dbs # <<>>
      BY <3>5, <3>6 DEF Latest
    <3>8. Current(m) /\ \A g \in Requests : ~GroupGet(m, g) /\ m.matches[g] = {}
      BY <3>2, <3>4, <3>5 DEF Current, Reflects, GroupGet
    <3>9. GroupsOwned(m)
      BY <3>8 DEF GroupsOwned
    <3>10. CaughtUp(e, Replay(view, e.outbox))
      BY <1>2, <3>2, <3>4, NothingRead DEF CaughtUp
    <3>11. CaughtUp(m, Replay(view, m.outbox))
      BY <3>4, <3>5, <3>10, TellsCatchUp
    <3>12. \A i \in 1..Latest : i = 1
      BY <3>7
    <3> QED
      BY <3>7, <3>8, <3>9, <3>11, <3>12 DEF ConsoleCatchesUp
  <2> QED
    BY <1>1, <2>1, <2>2
<1>5. UserTypeOK
  <2>1. view \in [main : Inventories, groups : [Requests -> Inventories]]
    BY <1>1, <1>2
  <2>2. \A r \in Requests : RequestOK(r)
    BY <1>3 DEF RequestOK
  <2> QED
    BY <1>1, <1>2, <1>4, <2>1, <2>2 DEF UserTypeOK
<1> QED
  BY <1>2, <1>4, <1>5 DEF UserInv, InventoriesCurrent

\* Every step preserves the invariant.
LEMMA UserNextInv == UserInv /\ [UserNext]_userVars => UserInv'
<1> SUFFICES ASSUME UserInv, [UserNext]_userVars PROVE UserInv'
  OBVIOUS
<1>1. ASSUME NEW r \in Requests, LatestService(r) \/ NewHandler(r) \/ HandleClosed(r) PROVE UserInv'
  BY <1>1, BindStep
<1>2. ASSUME NEW r \in Requests, CreateLatestGroup(r) \/ CreateGroup(r) PROVE UserInv'
  BY <1>2, CreateStep DEF CreateLatestGroup, CreateGroup
<1>3. ASSUME NEW r \in Requests, GetLatestGroup(r) \/ GetGroup(r) PROVE UserInv'
  BY <1>3, GetStep DEF GetLatestGroup, GetGroup
<1>4. ASSUME NEW r \in Requests, UpdateLatestGroup(r) \/ UpdateGroup(r) PROVE UserInv'
  BY <1>4, ReadStep, UpdateStep DEF UpdateLatestGroup, UpdateGroup
<1>5. ASSUME NEW r \in Requests, DeleteLatestGroup(r) \/ DeleteGroup(r) PROVE UserInv'
  BY <1>5, DeleteStep DEF DeleteLatestGroup, DeleteGroup
<1>6. ASSUME NEW r \in Requests, UpdateLatestVirtualMachine(r) \/ UpdateVM(r) PROVE UserInv'
  BY <1>6, UpdateVMStep, PatchLabelsStep DEF UpdateLatestVirtualMachine, UpdateVM
<1>7. ASSUME NEW r \in Requests, BatchUpdateLatestVMExclusion(r) \/ BatchUpdateVMExclusion(r) PROVE UserInv'
  BY <1>7, BatchStep DEF BatchUpdateLatestVMExclusion, BatchUpdateVMExclusion
<1>8. ASSUME NEW r \in Requests, \/ UpdateLatestLabelVMs(r) \/ DeleteLatestLabelGlobally(r)
                                 \/ UpdateLabelVMsV1(r) \/ DeleteLabelGlobally(r)
      PROVE  UserInv'
  BY <1>8, LabelStep DEF UpdateLatestLabelVMs, DeleteLatestLabelGlobally, UpdateLabelVMsV1, DeleteLabelGlobally
<1>9. CASE ParseCollection \/ BuildCollection \/ DiscardCollection \/ PromoteCollection \/ ClosePrevDB \/ Deliver
  BY <1>9, ParseStep, BuildStep, PromoteStep, CloseStep, DeliverStep
<1>10. CASE UNCHANGED userVars
  <2>1. UNCHANGED <<gen, dbs, closing, req, view>> /\ draft' = draft
    BY <1>10 DEF userVars
  <2>2. UserTypeOK /\ (draft.stage = "built" => /\ Current(draft.db) /\ Embedded(draft.db)
                                               /\ GroupsOwned(draft.db) /\ Announced(draft.db))
    BY DEF UserInv, InventoriesCurrent
  <2>3. draft.stage = "built" => /\ Current(draft'.db) /\ Embedded(draft'.db)
                                 /\ GroupsOwned(draft.db)' /\ Announced(draft.db)'
    BY <2>1, <2>2 DEF GroupsOwned, Announced
  <2> QED
    BY <2>1, <2>2, <2>3, DraftStep DEF UserTypeOK
<1> QED
  BY <1>1, <1>2, <1>3, <1>4, <1>5, <1>6, <1>7, <1>8, <1>9, <1>10, Zenon DEF UserNext

\* What users add, in both API generations: through every request, collection and
\* delivery the databases, the draft and the console's view fit together.
THEOREM UserInvariance == UserSpec => []UserInv
  BY UserInitInv, UserNextInv, PTL DEF UserSpec

\* buildAndSaveMainInventory, buildAndSaveGroupInventory and RefreshGroupInventories:
\* for any requests, VM sets and lists, every inventory stored in any collection has
\* the VMs it is about and their exclusions, and a collection about to be promoted has
\* their labels too. Of the labels of a promoted collection, and of the utilization
\* after an exclusion, it says nothing: LabelsCurrent and UtilizationKept do not hold.
THEOREM InventoriesStayCurrent == UserSpec => []InventoriesCurrent
<1>1. UserInv => InventoriesCurrent
  BY DEF UserInv
<1> QED
  BY <1>1, UserInvariance, PTL

\* EventService, the outbox and unit 9 of a collection: whatever the console has
\* read so far, the events that are pending bring it up to date.
THEOREM ConsoleHasInventories == UserSpec => []ConsoleCatchesUp
<1>1. UserInv => ConsoleCatchesUp
  BY DEF UserInv
<1> QED
  BY <1>1, UserInvariance, PTL

-----------------------------------------------------------------------------
(* Rightsizing *)

\* A list is cut into a natural number of batches, an empty one into none.
LEMMA BatchesType ==
    ASSUME NEW vms, IsList(vms), NEW size \in Nat \ {0}
    PROVE  Batches(vms, size) \in Nat /\ Batches(vms, size) = (Len(vms) + size - 1) \div size
<1>1. Len(vms) \in Nat
  BY DEF IsList
<1>2. \A n \in Nat : (n + size - 1) \div size \in Nat
  OBVIOUS
<1> QED
  BY <1>1, <1>2 DEF Batches, CeilDiv

\* An empty list has no batch.
LEMMA NoBatches ==
    ASSUME NEW size \in Nat \ {0}
    PROVE  Batches(<<>>, size) = 0
<1>1. Len(<<>>) = 0
  OBVIOUS
<1>2. (0 + size - 1) \div size = 0
  OBVIOUS
<1> QED
  BY <1>1, <1>2 DEF Batches, CeilDiv

\* The list of a run before the discover unit is a list.
LEMMA EmptyIsList == IsList(<<>>)
<1> QED
  BY DEF IsList, Range

\* The position j of a list is in the batch (j - 1) / size + 1, which is one of them.
LEMMA PositionHasBatch ==
    ASSUME NEW n \in Nat, NEW size \in Nat \ {0}, NEW j \in 1..n
    PROVE  LET b == (j - 1) \div size + 1
           IN b \in 1..((n + size - 1) \div size) /\ j \in ((b - 1) * size + 1)..(b * size)
<1> DEFINE q == (j - 1) \div size
<1>1. q \in Nat /\ q * size <= j - 1 /\ j - 1 < q * size + size
  OBVIOUS
<1>2. (n + size - 1) \div size >= q + 1
  <2>1. n + size - 1 >= (q + 1) * size
    <3>1. (q + 1) * size = q * size + size
      BY <1>1
    <3> QED
      BY <3>1, <1>1
  <2> QED
    BY <2>1, <1>1
<1>3. (q + 1) * size = q * size + size
  BY <1>1
<1>4. q * size \in Nat
  BY <1>1
<1> QED
  BY <1>1, <1>2, <1>3, <1>4

\* What a batch holds, as positions of the list.
LEMMA BatchPositions ==
    ASSUME NEW vms, IsList(vms), NEW size \in Nat \ {0}, NEW b \in Nat \ {0}
    PROVE  /\ Range(Batch(vms, size, b)) \subseteq Range(vms)
           /\ \A j \in 1..Len(vms) :
                j \in ((b - 1) * size + 1)..(b * size) => vms[j] \in Range(Batch(vms, size, b))
<1> DEFINE lo == (b - 1) * size + 1
           n == Len(vms)
           hi == Min({b * size, n})
<1>1. n \in Nat /\ vms \in Seq(Range(vms)) /\ lo \in Nat \ {0} /\ b * size \in Nat
  BY DEF IsList
<1>2. hi = IF b * size <= n THEN b * size ELSE n
  <2> DEFINE m == b * size
  <2>1. m \in Nat
    BY <1>1
  <2> HIDE DEF m, n
  <2>2. \A x, y \in Nat : Min({x, y}) = IF x <= y THEN x ELSE y
    BY DEF Min
  <2> QED
    BY <2>1, <2>2, <1>1 DEF m
<1>3. Batch(vms, size, b) = SubSeq(vms, lo, hi)
  BY DEF Batch
<1> HIDE DEF lo, hi, n
<1>4. SubSeq(vms, lo, hi) = [i \in 1..(hi - lo + 1) |-> vms[i + lo - 1]]
  BY <1>1, <1>2 DEF n
<1>5. \A i \in 1..(hi - lo + 1) : i + lo - 1 \in 1..n
  BY <1>1, <1>2
<1>6. \A j \in 1..n : j \in lo..(b * size) => j - lo + 1 \in 1..(hi - lo + 1) /\ (j - lo + 1) + lo - 1 = j
  BY <1>1, <1>2
<1>7. DOMAIN vms = 1..n
  BY <1>1 DEF n
<1> DEFINE sub == [i \in 1..(hi - lo + 1) |-> vms[i + lo - 1]]
<1>8. \A y : y \in Range(sub) <=> \E i \in 1..(hi - lo + 1) : y = vms[i + lo - 1]
  BY DEF Range
<1>9. \A y : y \in Range(vms) <=> \E j \in 1..n : y = vms[j]
  BY <1>7 DEF Range
<1>10. \A y : y \in Range(sub) => y \in Range(vms)
  BY <1>5, <1>8, <1>9
<1>11. ASSUME NEW j \in 1..n, j \in lo..(b * size) PROVE vms[j] \in Range(sub)
  BY <1>6, <1>8, <1>11
<1> QED
  BY <1>3, <1>4, <1>10, <1>11 DEF lo, n

\* The VMs that have metrics in the rows of all batches: those with a counter.
LEMMA AllBatchesMeasure ==
    ASSUME NEW vms, IsList(vms), NEW size \in Nat \ {0}, NEW results
    PROVE  Measured(BatchRows(vms, size, results, Batches(vms, size))) = Range(vms) \ NoData(vms, results)
<1> DEFINE n == Batches(vms, size)
           rows(b) == toStoreMetrics(Batch(vms, size, b), results)
<1>1. n \in Nat /\ n = (Len(vms) + size - 1) \div size /\ Len(vms) \in Nat /\ DOMAIN vms = 1..Len(vms)
  BY BatchesType DEF IsList
<1>2. \A b : \A m \in rows(b) : m[1] \in Range(Batch(vms, size, b)) /\ results[m[1]] # {}
  BY DEF toStoreMetrics
<1>3. \A b \in 1..n : Range(Batch(vms, size, b)) \subseteq Range(vms)
  BY <1>1, BatchPositions
<1>4. \A m \in BatchRows(vms, size, results, n) : \E b \in 1..n : m \in rows(b)
  BY DEF BatchRows
<1>5. \A b \in 1..n : rows(b) \subseteq BatchRows(vms, size, results, n)
  BY DEF BatchRows
<1>6. ASSUME NEW v \in Range(vms) PROVE \E b \in 1..n : v \in Range(Batch(vms, size, b))
  <2>1. PICK j \in 1..Len(vms) : v = vms[j]
    BY <1>1 DEF Range
  <2> DEFINE b == (j - 1) \div size + 1
  <2>2. b \in 1..n /\ j \in ((b - 1) * size + 1)..(b * size)
    BY <1>1, PositionHasBatch
  <2>3. b \in Nat \ {0}
    BY <1>1, <2>2
  <2> HIDE DEF b
  <2> QED
    BY <2>1, <2>2, <2>3, BatchPositions
<1>7. ASSUME NEW v \in Range(vms), results[v] # {}
      PROVE  \E m \in BatchRows(vms, size, results, n) : m[1] = v
  <2>1. PICK b \in 1..n : v \in Range(Batch(vms, size, b))
    BY <1>6
  <2>2. PICK c \in results[v] : TRUE
    BY <1>7
  <2>3. <<v, c>> \in rows(b) /\ <<v, c>>[1] = v
    BY <2>1, <2>2 DEF toStoreMetrics
  <2> QED
    BY <2>3, <1>5
<1> HIDE DEF n, rows
<1>8. \A v : v \in Measured(BatchRows(vms, size, results, n)) <=>
             \E m \in BatchRows(vms, size, results, n) : m[1] = v
  BY DEF Measured
<1>9. \A v : v \in NoData(vms, results) <=> v \in Range(vms) /\ results[v] = {}
  BY DEF NoData
<1>10. \A m \in BatchRows(vms, size, results, n) : m[1] \in Range(vms) /\ results[m[1]] # {}
  BY <1>2, <1>3, <1>4
<1> QED
  BY <1>7, <1>8, <1>9, <1>10 DEF n

\* The rows of one batch more.
LEMMA BatchRowsStep ==
    ASSUME NEW vms, NEW size, NEW results, NEW k \in Nat \ {0}
    PROVE  BatchRows(vms, size, results, k) =
             BatchRows(vms, size, results, k - 1) \cup toStoreMetrics(Batch(vms, size, k), results)
<1>1. 1..k = 1..(k - 1) \cup {k}
  OBVIOUS
<1> QED
  BY <1>1, Zenon DEF BatchRows

\* No batch, no rows.
LEMMA BatchRowsNone ==
    ASSUME NEW vms, NEW size, NEW results
    PROVE  BatchRows(vms, size, results, 0) = {}
<1>1. 1..0 = {}
  OBVIOUS
<1> QED
  BY <1>1 DEF BatchRows

\* Both lists of the discover unit are lists.
LEMMA DiscoveredIsList ==
    ASSUME NEW filtered
    PROVE  IsList(DiscoverVMs(filtered)) /\ IsList(Inventory)
<1> DEFINE kept == {i \in DOMAIN VCenterVMs : filtered => VCenterVMs[i].named}
           id(k) == VCenterVMs[CHOOSE i \in kept : Cardinality({j \in kept : Precedes(j, i)}) + 1 = k].id
           list == [k \in 1..Cardinality(kept) |-> id(k)]
<1>1. IsFiniteSet(kept)
  <2>1. DOMAIN VCenterVMs = 1..Len(VCenterVMs) /\ Len(VCenterVMs) \in Nat
    BY RightsizingAssumption
  <2>2. IsFiniteSet(1..Len(VCenterVMs))
    BY <2>1, FS_Interval
  <2>3. kept \subseteq 1..Len(VCenterVMs)
    BY <2>1
  <2> QED
    BY <2>2, <2>3, FS_Subset
<1>2. Cardinality(kept) \in Nat
  BY <1>1, FS_CardinalityType
<1>3. DiscoverVMs(filtered) = list
  BY DEF DiscoverVMs
<1> HIDE DEF kept, id
<1>4. \A k \in 1..Cardinality(kept) : id(k) \in Range(list)
  BY DEF Range
<1>5. list \in Seq(Range(list))
  <2>1. list \in [1..Cardinality(kept) -> Range(list)]
    BY <1>4
  <2> HIDE DEF list
  <2> QED
    BY <1>2, <2>1
<1> QED
  BY <1>3, <1>5, RightsizingAssumption DEF IsList

\* What the pipeline changes when it takes a unit's result: the stage, how it ended,
\* and the batch.
SameWork(x, y) ==
    y.kind = x.kind /\ y.size = x.size /\ y.vms = x.vms /\ y.results = x.results /\ y.dropped = x.dropped

\* y is x after Advance.
AdvanceFields(x, y) ==
    /\ IsRun(y) /\ SameWork(x, y)
    /\ \/ NextStage(x) = "ended" /\ y.stage = "ended" /\ y.end = "completed"
       \/ y.stage = "ended" /\ y.end = "stopped"
       \/ /\ NextStage(x) # "ended" /\ y.stage = NextStage(x) /\ y.end = x.end
          /\ y.batch = IF x.stage = "batch" THEN x.batch + 1 ELSE x.batch
    /\ y.batch \in {x.batch, x.batch + 1}

\* Advance ends the run, or takes it to the stage NextStage names.
LEMMA AdvanceChanges ==
    ASSUME NEW x, IsRun(x)
    PROVE  AdvanceFields(x, Advance(x))
<1> DEFINE s == NextStage(x)
<1>1. CASE s = "ended"
  <2>1. Advance(x) = [x EXCEPT !.stage = "ended", !.end = "completed"]
    BY <1>1 DEF Advance
  <2> QED
    BY <2>1, <1>1 DEF AdvanceFields, SameWork, IsRun, RunFields
<1>2. CASE s # "ended" /\ x.stop
  <2>1. Advance(x) = [x EXCEPT !.stage = "ended", !.end = "stopped"]
    BY <1>2 DEF Advance
  <2> QED
    BY <2>1, <1>2 DEF AdvanceFields, SameWork, IsRun, RunFields
<1>3. CASE s # "ended" /\ ~x.stop
  <2> DEFINE b == IF x.stage = "batch" THEN x.batch + 1 ELSE x.batch
  <2>1. Advance(x) = [x EXCEPT !.stage = s, !.batch = b]
    BY <1>3 DEF Advance
  <2>2. b \in {x.batch, x.batch + 1}
    OBVIOUS
  <2> HIDE DEF s, b
  <2>3. [x EXCEPT !.stage = s, !.batch = b].stage = s /\ [x EXCEPT !.stage = s, !.batch = b].batch = b
    BY DEF IsRun, RunFields
  <2>4. IsRun([x EXCEPT !.stage = s, !.batch = b]) /\ SameWork(x, [x EXCEPT !.stage = s, !.batch = b])
        /\ [x EXCEPT !.stage = s, !.batch = b].end = x.end
    BY DEF SameWork, IsRun, RunFields
  <2> QED
    BY <2>1, <2>2, <2>3, <2>4, <1>3 DEF AdvanceFields, s, b
<1> QED
  BY <1>1, <1>2, <1>3

\* A run and its report agree.
Fits(x, p) == RunOK(x) /\ ReportOK(x, p)

\* What holds of a run wherever its pipeline is.
WorkOK(x) ==
    /\ IsRun(x) /\ x.kind \in {"http", "collector", "v2"}
    /\ x.size \in Nat \ {0} /\ x.batch \in Nat \ {0} /\ IsList(x.vms)
    /\ x.kind = "v2" => x.vms = Inventory

\* What is in the report after the unit z is at.
AfterUnit(z, q) ==
    LET n == Batches(z.vms, z.size)
        u == z.stage
    IN /\ IsReport(q) /\ q.expected \in {0, n} /\ q.written \in 0..q.expected
       /\ q.warnings \subseteq Range(z.vms)
       /\ u = "connect" =>
             z.kind # "v2" /\ z.vms = <<>> /\ z.batch = 1 /\ q.expected = 0 /\ Has(z, q, 0, {})
       /\ u = "discover" => z.kind # "v2"
       /\ u \in {"discover", "query"} => q.expected = n /\ z.batch = 1 /\ Has(z, q, 0, {})
       /\ u = "batch" => q.expected = n /\ z.batch <= n /\ Has(z, q, z.batch, {})
       /\ u \in {"warnings", "utilization"} => Whole(z, q)
       /\ u = "utilization" => q.utilization = UtilizationRows(q.metrics)
       /\ u # "utilization" => q.utilization = {}

\* The connect unit leaves the report alone.
LEMMA ConnectStores ==
    ASSUME NEW w, NEW p, WorkOK(w), ReportOK(w, p), w.stage = "connect", UnitOf(w) = w.stage
    PROVE  /\ WorkOK(Ended(w)) /\ AfterUnit(Ended(w), Stored(Ended(w), p))
           /\ Ended(w).stage = w.stage /\ Ended(w).end = w.end /\ Ended(w).dropped = w.dropped
<1> DEFINE z == Ended(w)
<1>1. z = [w EXCEPT !.client = TRUE, !.session = TRUE]
  BY DEF Ended, Connect
<1>2. IsRun(z) /\ SameWork(w, z) /\ z.stage = w.stage /\ z.end = w.end /\ z.batch = w.batch
  BY <1>1 DEF WorkOK, IsRun, SameWork, RunFields
<1> HIDE DEF z
<1>3. Stored(z, p) = p
  BY <1>2 DEF Stored
<1>4. AfterUnit(z, p)
  BY <1>2 DEF AfterUnit, ReportOK, BeforeUnit, SameWork, Has
<1> QED
  BY <1>2, <1>3, <1>4 DEF WorkOK, SameWork, z

\* The discover unit sets the expected count of the list it has found.
LEMMA DiscoverStores ==
    ASSUME NEW w, NEW p, WorkOK(w), ReportOK(w, p), w.stage = "discover", UnitOf(w) = w.stage
    PROVE  /\ WorkOK(Ended(w)) /\ AfterUnit(Ended(w), Stored(Ended(w), p))
           /\ Ended(w).stage = w.stage /\ Ended(w).end = w.end /\ Ended(w).dropped = w.dropped
<1> DEFINE z == Ended(w)
           vms == IF w.discover = "inventory" THEN ListInventoryVMs
                  ELSE DiscoverVMs(w.discover = "filtered")
           none == NoCounters(vms)
           n == Batches(z.vms, z.size)
           q == [p EXCEPT !.expected = n]
<1>1. z = [w EXCEPT !.vms = vms, !.results = none]
  BY DEF Ended, Discovered
<1>2. IsList(vms)
  BY DiscoveredIsList DEF ListInventoryVMs
<1> HIDE DEF vms, none
<1>3. z.vms = vms /\ z.results = none
  BY <1>1 DEF WorkOK, IsRun, RunFields
<1>4. IsRun(z) /\ z.kind = w.kind /\ z.size = w.size /\ z.batch = w.batch /\ z.stage = w.stage
      /\ z.end = w.end /\ z.dropped = w.dropped
  BY <1>1 DEF WorkOK, IsRun, RunFields
<1> HIDE DEF z
<1>5. w.kind # "v2" /\ w.batch = 1 /\ p.written = 0 /\ p.metrics = {} /\ p.warnings = {} /\ p.utilization = {}
  BY BatchRowsNone DEF ReportOK, BeforeUnit, Has
<1>6. WorkOK(z)
  BY <1>2, <1>3, <1>4, <1>5 DEF WorkOK
<1>7. Stored(z, p) = q
  BY <1>4 DEF Stored, UpdateExpectedBatchCount, Batches
<1> HIDE DEF n
<1>8. IsReport(q) /\ q.expected = Batches(z.vms, z.size) /\ q.written = 0 /\ q.metrics = {} /\ q.warnings = {}
      /\ q.utilization = {}
  <2>1. IsReport(p)
    BY DEF ReportOK
  <2>2. IsReport(q) /\ q.expected = n /\ q.written = p.written /\ q.metrics = p.metrics
        /\ q.warnings = p.warnings /\ q.utilization = p.utilization
    BY <2>1 DEF IsReport, ReportFields
  <2> QED
    BY <2>2, <1>5 DEF n
<1>9. Batches(z.vms, z.size) \in Nat
  BY <1>6, BatchesType DEF WorkOK
<1> HIDE DEF q
<1>10. AfterUnit(z, q)
  BY <1>4, <1>5, <1>8, <1>9, BatchRowsNone DEF AfterUnit, Has
<1> QED
  BY <1>4, <1>6, <1>7, <1>10 DEF z

\* A batch unit adds the rows of its batch, and counts it.
LEMMA BatchStores ==
    ASSUME NEW w, NEW p, WorkOK(w), ReportOK(w, p), w.stage = "batch", UnitOf(w) = w.stage
    PROVE  AfterUnit(w, Stored(w, p))
<1> DEFINE metrics == toStoreMetrics(Batch(w.vms, w.size, w.batch), w.results)
           m1 == p.metrics \cup metrics
           p1 == [p EXCEPT !.metrics = m1]
           w1 == p1.written + 1
           q == [p1 EXCEPT !.written = w1]
           n == Batches(w.vms, w.size)
<1>1. Stored(w, p) = q
  BY DEF Stored, PersistMetrics, PersistBatch, WriteBatch, IncrementWrittenBatchCount,
         toRightSizingStoreMetrics
<1> HIDE DEF metrics, m1
<1>2. IsReport(p1) /\ p1.metrics = p.metrics \cup metrics /\ p1.expected = p.expected
      /\ p1.written = p.written /\ p1.warnings = p.warnings /\ p1.utilization = p.utilization
  <2>1. IsReport(p)
    BY DEF ReportOK
  <2>2. IsReport(p1) /\ p1.metrics = m1 /\ p1.expected = p.expected
        /\ p1.written = p.written /\ p1.warnings = p.warnings /\ p1.utilization = p.utilization
    BY <2>1 DEF IsReport, ReportFields
  <2> QED
    BY <2>2 DEF m1
<1> HIDE DEF p1
<1>3. IsReport(q) /\ q.metrics = p.metrics \cup metrics /\ q.expected = p.expected
      /\ q.written = p.written + 1 /\ q.warnings = p.warnings /\ q.utilization = p.utilization
  <2> HIDE DEF w1
  <2>1. IsReport(q) /\ q.metrics = p1.metrics /\ q.expected = p1.expected
        /\ q.written = w1 /\ q.warnings = p1.warnings /\ q.utilization = p1.utilization
    BY <1>2 DEF IsReport, ReportFields
  <2> QED
    BY <1>2, <2>1 DEF w1
<1> HIDE DEF q
<1>4. p.expected = n /\ w.batch <= n /\ p.written = w.batch - 1 /\ p.warnings = {} /\ p.utilization = {}
      /\ p.metrics = BatchRows(w.vms, w.size, w.results, w.batch - 1)
  BY DEF ReportOK, BeforeUnit, Has
<1>5. w.batch \in Nat \ {0}
  BY DEF WorkOK
<1>6. q.metrics = BatchRows(w.vms, w.size, w.results, w.batch)
  BY <1>3, <1>4, <1>5, BatchRowsStep DEF metrics
<1>7. n \in Nat
  BY BatchesType DEF WorkOK
<1>8. q.written = w.batch
  BY <1>3, <1>4, <1>5
<1> QED
  BY <1>1, <1>3, <1>4, <1>5, <1>6, <1>7, <1>8 DEF AfterUnit, Has

\* The warnings unit makes the report whole.
LEMMA WarningsStore ==
    ASSUME NEW w, NEW p, WorkOK(w), ReportOK(w, p), w.stage = "warnings", UnitOf(w) = w.stage
    PROVE  AfterUnit(w, Stored(w, p))
<1> DEFINE all == p.warnings \cup NoData(w.vms, w.results)
           q == [p EXCEPT !.warnings = all]
           n == Batches(w.vms, w.size)
<1>1. Stored(w, p) = q
  BY DEF Stored, PersistVMWarnings, WriteVMWarnings
<1>2. IsReport(q) /\ q.warnings = p.warnings \cup NoData(w.vms, w.results) /\ q.expected = p.expected
      /\ q.written = p.written /\ q.metrics = p.metrics /\ q.utilization = p.utilization
  <2> HIDE DEF all
  <2>1. IsReport(p)
    BY DEF ReportOK
  <2>2. IsReport(q) /\ q.warnings = all /\ q.expected = p.expected
        /\ q.written = p.written /\ q.metrics = p.metrics /\ q.utilization = p.utilization
    BY <2>1 DEF IsReport, ReportFields
  <2> QED
    BY <2>2 DEF all
<1> HIDE DEF q
<1>3. p.expected = n /\ Has(w, p, n, {}) /\ p.utilization = {}
  BY DEF ReportOK, BeforeUnit
<1>4. n \in Nat
  BY BatchesType DEF WorkOK
<1>5. NoData(w.vms, w.results) \subseteq Range(w.vms)
  BY DEF NoData
<1>6. q.warnings = NoData(w.vms, w.results)
  BY <1>2, <1>3 DEF Has
<1> HIDE DEF n
<1>7. Whole(w, q)
  BY <1>2, <1>3, <1>6 DEF Whole, Has, n
<1>8. q.expected = n /\ q.written = n
  BY <1>2, <1>3 DEF Has
<1> QED
  BY <1>1, <1>2, <1>3, <1>4, <1>5, <1>6, <1>7, <1>8 DEF AfterUnit, n

\* The utilization unit adds its rows to a whole report.
LEMMA UtilizationStores ==
    ASSUME NEW w, NEW p, WorkOK(w), ReportOK(w, p), w.stage = "utilization", UnitOf(w) = w.stage
    PROVE  AfterUnit(w, Stored(w, p))
<1> DEFINE rows == UtilizationRows(p.metrics)
           q == [p EXCEPT !.utilization = rows]
<1>1. Stored(w, p) = q
  BY DEF Stored, ComputeUtilization, ComputeAndStoreUtilization
<1>2. IsReport(q) /\ q.utilization = UtilizationRows(p.metrics) /\ q.expected = p.expected
      /\ q.written = p.written /\ q.metrics = p.metrics /\ q.warnings = p.warnings
  <2> HIDE DEF rows
  <2>1. IsReport(p)
    BY DEF ReportOK
  <2>2. IsReport(q) /\ q.utilization = rows /\ q.expected = p.expected
        /\ q.written = p.written /\ q.metrics = p.metrics /\ q.warnings = p.warnings
    BY <2>1 DEF IsReport, ReportFields
  <2> QED
    BY <2>2 DEF rows
<1> HIDE DEF q
<1>3. Whole(w, p)
  BY DEF ReportOK, BeforeUnit
<1>4. Whole(w, q)
  BY <1>2, <1>3 DEF Whole, Has
<1>5. q.expected \in {0, Batches(w.vms, w.size)} /\ q.written \in 0..q.expected
      /\ q.warnings \subseteq Range(w.vms)
  BY <1>2 DEF ReportOK
<1> QED
  BY <1>1, <1>2, <1>4, <1>5 DEF AfterUnit

\* Every unit but the query leaves in the report what the next one needs.
LEMMA UnitStores ==
    ASSUME NEW w, NEW p, WorkOK(w), ReportOK(w, p), UnitOf(w) = w.stage,
           w.stage \in Stages \ {"query", "ended"}
    PROVE  /\ WorkOK(Ended(w)) /\ AfterUnit(Ended(w), Stored(Ended(w), p))
           /\ Ended(w).stage = w.stage /\ Ended(w).end = w.end /\ Ended(w).dropped = w.dropped
<1>1. w.stage \in {"connect", "discover", "batch", "warnings", "utilization"}
  BY DEF Stages
<1>2. w.stage \notin {"connect", "discover"} => Ended(w) = w
  BY DEF Ended
<1> QED
  BY <1>1, <1>2, ConnectStores, DiscoverStores, BatchStores, WarningsStore, UtilizationStores

\* The unit after the one z has ended finds in the report what it needs.
LEMMA NextFits ==
    ASSUME NEW z, NEW q, WorkOK(z), AfterUnit(z, q), z.stage \in Stages \ {"ended"},
           z.end = "none", z.dropped = "none",
           NEW y, IsRun(y), SameWork(z, y), NextStage(z) # "ended", y.stage = NextStage(z),
           y.end = z.end, y.batch = IF z.stage = "batch" THEN z.batch + 1 ELSE z.batch
    PROVE  Fits(y, q)
<1> DEFINE n == Batches(z.vms, z.size)
<1>1. n \in Nat /\ z.batch \in Nat \ {0} /\ y.batch \in Nat \ {0}
  BY BatchesType DEF WorkOK
<1> DEFINE more == y.batch <= n
           none == NoData(z.vms, z.results)
<1>2. z.stage = "query" \/ z.stage = "batch" =>
        NextStage(z) = IF more THEN "batch" ELSE IF z.kind = "v2" \/ none # {} THEN "warnings" ELSE "utilization"
  <2>1. ASSUME z.stage = "query" PROVE
        NextStage(z) = IF more THEN "batch" ELSE IF z.kind = "v2" \/ none # {} THEN "warnings" ELSE "utilization"
    <3>1. y.batch = z.batch /\ z.batch + 0 = z.batch
      BY <2>1, <1>1
    <3> QED
      BY <2>1, <3>1 DEF NextStage, Next1, Next2, generateBatches
  <2>2. ASSUME z.stage = "batch" PROVE
        NextStage(z) = IF more THEN "batch" ELSE IF z.kind = "v2" \/ none # {} THEN "warnings" ELSE "utilization"
    <3> DEFINE b == z.batch + 1
               z1 == [z EXCEPT !.batch = b]
    <3>1. y.batch = b
      BY <2>2
    <3>2. NextStage(z) = IF z.kind = "v2" THEN IF b <= n THEN "batch" ELSE "warnings" ELSE generateBatches(z1)
      BY <2>2 DEF NextStage, Next1, Next2
    <3> HIDE DEF b
    <3>3. z1.batch = b /\ z1.vms = z.vms /\ z1.size = z.size /\ z1.results = z.results
      BY DEF WorkOK, IsRun, RunFields
    <3> HIDE DEF z1
    <3> QED
      BY <3>1, <3>2, <3>3 DEF generateBatches
  <2> QED
    BY <2>1, <2>2
<1>3. z.stage = "connect" => NextStage(z) = "discover"
  BY DEF NextStage, Next1, AfterUnit
<1>4. z.stage = "discover" => NextStage(z) = "query"
  BY DEF NextStage, Next1, AfterUnit
<1>5. z.stage = "warnings" => NextStage(z) = "utilization"
  BY DEF NextStage, Next1, Next2
<1>6. z.stage = "utilization" => NextStage(z) = "ended"
  BY DEF NextStage, Next1, Next2
<1>7. y.stage \in Stages \ {"ended"} /\ UnitOf(y) = y.stage
  BY <1>2, <1>3, <1>4, <1>5, <1>6 DEF Stages, UnitOf, SameWork
<1>8. RunOK(y)
  BY <1>1, <1>7 DEF RunOK, WorkOK, SameWork, Ends
<1>9. IsReport(q) /\ q.expected \in {0, n} /\ q.written \in 0..q.expected
      /\ q.warnings \subseteq Range(z.vms)
  BY DEF AfterUnit
<1>10. z.stage # "utilization" /\ q.utilization = {}
  BY <1>6 DEF AfterUnit
<1> HIDE DEF n
<1>11. Batches(y.vms, y.size) = n
  BY DEF SameWork, n
<1>12. \A k, s : Has(y, q, k, s) <=> Has(z, q, k, s)
  BY DEF Has, SameWork
<1>13. CASE z.stage \in {"query", "batch"}
  <2>1. q.expected = n /\ Has(z, q, y.batch - 1, {}) /\ y.batch - 1 <= n
    BY <1>1, <1>13 DEF AfterUnit, n
  <2>2. CASE more
    <3>1. y.stage = "batch"
      BY <1>2, <1>13, <2>2
    <3> QED
      BY <1>7, <1>8, <1>9, <1>10, <1>11, <1>12, <2>1, <2>2, <3>1
      DEF Fits, ReportOK, BeforeUnit, SameWork
  <2>3. CASE ~more
    <3>1. y.batch - 1 = n
      BY <1>1, <2>1, <2>3
    <3>2. y.stage = "warnings" \/ (y.stage = "utilization" /\ none = {})
      BY <1>2, <1>13, <2>3
    <3>3. Has(y, q, n, {})
      BY <2>1, <3>1, <1>12
    <3>4. none = {} => Whole(y, q)
      BY <1>11, <2>1, <3>3 DEF Whole, SameWork, Has
    <3> QED
      BY <1>7, <1>8, <1>9, <1>10, <1>11, <2>1, <3>2, <3>3, <3>4
      DEF Fits, ReportOK, BeforeUnit, SameWork
  <2> QED
    BY <2>2, <2>3
<1>14. CASE z.stage = "connect"
  BY <1>3, <1>7, <1>8, <1>9, <1>10, <1>11, <1>12, <1>14
  DEF Fits, ReportOK, BeforeUnit, SameWork, AfterUnit
<1>15. CASE z.stage = "discover"
  BY <1>4, <1>7, <1>8, <1>9, <1>10, <1>11, <1>12, <1>15
  DEF Fits, ReportOK, BeforeUnit, SameWork, AfterUnit, n
<1>16. CASE z.stage = "warnings"
  <2>1. Whole(z, q)
    BY <1>16 DEF AfterUnit
  <2>2. Whole(y, q)
    BY <2>1 DEF Whole, Has, SameWork
  <2> QED
    BY <1>5, <1>7, <1>8, <1>9, <1>10, <1>11, <1>16, <2>2
    DEF Fits, ReportOK, BeforeUnit, SameWork
<1> QED
  BY <1>10, <1>13, <1>14, <1>15, <1>16 DEF Stages

\* The pipeline goes on, is stopped, or completes with a whole report.
LEMMA AdvanceFits ==
    ASSUME NEW z, NEW q, WorkOK(z), AfterUnit(z, q), z.stage \in Stages \ {"ended"},
           z.end = "none", z.dropped = "none"
    PROVE  Fits(Advance(z), q)
<1> DEFINE y == Advance(z)
<1>1. AdvanceFields(z, y)
  BY AdvanceChanges DEF WorkOK
<1> HIDE DEF y
<1>2. CASE y.stage = NextStage(z) /\ y.end = z.end /\ NextStage(z) # "ended"
           /\ y.batch = IF z.stage = "batch" THEN z.batch + 1 ELSE z.batch
  BY <1>1, <1>2, NextFits DEF AdvanceFields, y
<1>3. CASE y.stage = "ended"
  <2>1. y.batch \in Nat \ {0}
    BY <1>1 DEF AdvanceFields, WorkOK
  <2>2. IsRun(y) /\ SameWork(z, y) /\ (\/ NextStage(z) = "ended" /\ y.end = "completed"
                                       \/ y.end = "stopped")
    BY <1>1, <1>3 DEF AdvanceFields
  <2>3. RunOK(y) /\ UnitOf(y) = "ended"
    BY <1>3, <2>1, <2>2 DEF RunOK, WorkOK, SameWork, Stages, Ends, UnitOf
  <2>4. NextStage(z) = "ended" => z.stage = "utilization"
    BY DEF NextStage, Next1, Next2, generateBatches, Stages, AfterUnit
  <2>5. Whole(z, q) => Whole(y, q)
    BY <2>2 DEF Whole, Has, SameWork
  <2>6. z.stage = "utilization" => Whole(z, q) /\ q.utilization = UtilizationRows(q.metrics)
    BY DEF AfterUnit
  <2>7. z.stage # "utilization" => q.utilization = {}
    BY DEF AfterUnit
  <2>8. IsReport(q) /\ q.expected \in {0, Batches(y.vms, y.size)} /\ q.written \in 0..q.expected
        /\ q.warnings \subseteq Range(y.vms)
    BY <2>2 DEF AfterUnit, SameWork
  <2>9. BeforeUnit(y, q)
    BY <2>3 DEF BeforeUnit
  <2> QED
    BY <2>2, <2>3, <2>4, <2>5, <2>6, <2>7, <2>8, <2>9 DEF Fits, ReportOK, y
<1> QED
  BY <1>1, <1>2, <1>3 DEF AdvanceFields

\* The unit nobody listens to leaves its rows, and the run as it ended.
LEMMA DroppedFits ==
    ASSUME NEW z, NEW q, WorkOK(z), AfterUnit(z, q), z.end = "stopped"
    PROVE  Fits([z EXCEPT !.stage = "ended", !.dropped = "none"], q)
<1> DEFINE y == [z EXCEPT !.stage = "ended", !.dropped = "none"]
<1>1. IsRun(y) /\ y.stage = "ended" /\ y.dropped = "none" /\ y.end = z.end /\ y.kind = z.kind
      /\ y.size = z.size /\ y.vms = z.vms /\ y.results = z.results /\ y.batch = z.batch
  BY DEF WorkOK, IsRun, RunFields
<1> HIDE DEF y
<1>2. RunOK(y) /\ UnitOf(y) = "ended"
  BY <1>1 DEF RunOK, WorkOK, UnitOf, Stages, Ends
<1>3. q.utilization # {} => Whole(z, q)
  BY DEF AfterUnit
<1>4. Whole(z, q) => Whole(y, q)
  BY <1>1 DEF Whole, Has
<1>5. IsReport(q) /\ q.expected \in {0, Batches(y.vms, y.size)} /\ q.written \in 0..q.expected
      /\ q.warnings \subseteq Range(y.vms)
  BY <1>1 DEF AfterUnit
<1>6. BeforeUnit(y, q)
  BY <1>2 DEF BeforeUnit
<1> QED
  BY <1>1, <1>2, <1>3, <1>4, <1>5, <1>6 DEF Fits, ReportOK, y

\* What Fits says of a run by itself.
LEMMA FitsWork ==
    ASSUME NEW x, NEW p, Fits(x, p)
    PROVE  WorkOK(x) /\ ReportOK(x, p) /\ RunOK(x) /\ IsRun(x)
<1> QED
  BY DEF Fits, RunOK, WorkOK

\* A unit other than the query ends well.
LEMMA UnitEndsFits ==
    ASSUME NEW x, NEW p, Fits(x, p), x.stage # "query", x.stage # "ended"
    PROVE  Fits(Advance(Ended(x)), Stored(Ended(x), p))
<1>1. WorkOK(x) /\ ReportOK(x, p) /\ x.stage \in Stages \ {"query", "ended"} /\ x.end = "none"
      /\ x.dropped = "none"
  BY FitsWork DEF RunOK
<1>2. UnitOf(x) = x.stage
  BY <1>1 DEF UnitOf
<1> QED
  BY <1>1, <1>2, UnitStores, AdvanceFits

\* The query unit ends, whatever vCenter has answered.
LEMMA QueryEndsFits ==
    ASSUME NEW x, NEW p, Fits(x, p), x.stage = "query", NEW results
    PROVE  Fits(Advance([x EXCEPT !.results = results]), p)
<1> DEFINE z == [x EXCEPT !.results = results]
<1>1. WorkOK(x) /\ ReportOK(x, p) /\ x.end = "none" /\ x.dropped = "none"
  BY FitsWork DEF RunOK
<1>2. IsRun(z) /\ z.stage = "query" /\ z.dropped = x.dropped /\ z.end = x.end /\ z.kind = x.kind
      /\ z.size = x.size /\ z.vms = x.vms /\ z.batch = x.batch
  BY <1>1 DEF WorkOK, IsRun, RunFields
<1> HIDE DEF z
<1>3. WorkOK(z)
  BY <1>1, <1>2 DEF WorkOK
<1>4. UnitOf(x) = "query"
  BY <1>1 DEF UnitOf
<1>5. p.expected = Batches(x.vms, x.size) /\ x.batch = 1 /\ p.utilization = {}
      /\ p.written = 0 /\ p.metrics = {} /\ p.warnings = {}
  BY <1>1, <1>4, BatchRowsNone DEF ReportOK, BeforeUnit, Has
<1>6. Has(z, p, 0, {})
  BY <1>5, BatchRowsNone DEF Has
<1>7. AfterUnit(z, p)
  BY <1>1, <1>2, <1>5, <1>6 DEF AfterUnit, ReportOK
<1>8. z.stage \in Stages \ {"ended"}
  BY <1>2 DEF Stages
<1> QED
  BY <1>1, <1>2, <1>3, <1>7, <1>8, AdvanceFits DEF z

\* A run that ends on its way, failed or lost with the process, keeps its rows.
LEMMA EndFits ==
    ASSUME NEW x, NEW p, Fits(x, p), x.stage # "ended", NEW end \in {"failed", "lost"}
    PROVE  Fits([x EXCEPT !.stage = "ended", !.end = end], p)
<1> DEFINE y == [x EXCEPT !.stage = "ended", !.end = end]
<1>1. WorkOK(x) /\ ReportOK(x, p) /\ RunOK(x) /\ x.dropped = "none"
  BY FitsWork DEF RunOK
<1>2. IsRun(y) /\ y.stage = "ended" /\ y.dropped = x.dropped /\ y.end = end /\ y.kind = x.kind
      /\ y.size = x.size /\ y.vms = x.vms /\ y.results = x.results /\ y.batch = x.batch
  BY <1>1 DEF WorkOK, IsRun, RunFields
<1> HIDE DEF y
<1>3. RunOK(y) /\ UnitOf(y) = "ended"
  BY <1>1, <1>2 DEF RunOK, UnitOf, Stages, Ends
<1>4. Whole(x, p) => Whole(y, p)
  BY <1>2 DEF Whole, Has
<1>5. BeforeUnit(y, p)
  BY <1>3 DEF BeforeUnit
<1>6. y.end # "completed"
  BY <1>2
<1> QED
  BY <1>1, <1>2, <1>3, <1>4, <1>5, <1>6 DEF Fits, ReportOK, y

\* The pipeline is stopped: the unit it drops may still leave its rows.
LEMMA StopsFits ==
    ASSUME NEW x, NEW p, Fits(x, p), x.stage # "ended"
    PROVE  Fits([x EXCEPT !.stage = "ended", !.end = "stopped", !.dropped = x.stage], p)
<1> DEFINE u == x.stage
           y == [x EXCEPT !.stage = "ended", !.end = "stopped", !.dropped = u]
<1>1. WorkOK(x) /\ ReportOK(x, p) /\ RunOK(x) /\ x.dropped = "none" /\ u \in Stages \ {"ended"}
  BY FitsWork DEF RunOK
<1> HIDE DEF u
<1>2. IsRun(y) /\ y.stage = "ended" /\ y.dropped = u /\ y.end = "stopped" /\ y.kind = x.kind
      /\ y.size = x.size /\ y.vms = x.vms /\ y.results = x.results /\ y.batch = x.batch
  BY <1>1 DEF WorkOK, IsRun, RunFields
<1> HIDE DEF y
<1>3. RunOK(y)
  BY <1>1, <1>2 DEF RunOK, Stages, Ends
<1>4. UnitOf(y) = UnitOf(x)
  BY <1>1, <1>2 DEF UnitOf, Stages, u
<1>5. Whole(x, p) => Whole(y, p)
  BY <1>2 DEF Whole, Has
<1>6. \A k, s : Has(x, p, k, s) => Has(y, p, k, s)
  BY <1>2 DEF Has
<1>7. BeforeUnit(x, p)
  BY <1>1 DEF ReportOK
<1>8. BeforeUnit(y, p)
  BY <1>2, <1>4, <1>5, <1>6, <1>7 DEF BeforeUnit
<1> QED
  BY <1>1, <1>2, <1>3, <1>5, <1>8 DEF Fits, ReportOK, y, u

\* The unit nobody listens to ends without effect.
LEMMA DroppedIgnored ==
    ASSUME NEW x, NEW p, Fits(x, p), x.dropped # "none"
    PROVE  Fits([x EXCEPT !.dropped = "none"], p)
<1> DEFINE y == [x EXCEPT !.dropped = "none"]
<1>1. WorkOK(x) /\ ReportOK(x, p) /\ RunOK(x) /\ x.stage = "ended" /\ x.end = "stopped"
  BY FitsWork DEF RunOK
<1>2. IsRun(y) /\ y.stage = "ended" /\ y.dropped = "none" /\ y.end = "stopped" /\ y.kind = x.kind
      /\ y.size = x.size /\ y.vms = x.vms /\ y.results = x.results /\ y.batch = x.batch
  BY <1>1 DEF WorkOK, IsRun, RunFields
<1> HIDE DEF y
<1>3. RunOK(y) /\ UnitOf(y) = "ended"
  BY <1>1, <1>2 DEF RunOK, UnitOf, Stages, Ends
<1>4. Whole(x, p) => Whole(y, p)
  BY <1>2 DEF Whole, Has
<1>5. BeforeUnit(y, p)
  BY <1>3 DEF BeforeUnit
<1> QED
  BY <1>1, <1>2, <1>3, <1>4, <1>5 DEF Fits, ReportOK, y

\* It ends well.
LEMMA DroppedEndsFits ==
    ASSUME NEW x, NEW p, Fits(x, p), x.dropped # "none", NEW z,
           z = Ended([x EXCEPT !.stage = x.dropped]), z.stage # "query"
    PROVE  Fits([z EXCEPT !.stage = "ended", !.dropped = "none"], Stored(z, p))
<1> DEFINE u == x.dropped
           w == [x EXCEPT !.stage = u]
<1>1. WorkOK(x) /\ ReportOK(x, p) /\ RunOK(x) /\ x.stage = "ended" /\ x.end = "stopped"
      /\ u \in Stages \ {"ended"}
  BY FitsWork DEF RunOK
<1> HIDE DEF u
<1>2. IsRun(w) /\ w.stage = u /\ w.dropped = x.dropped /\ w.end = "stopped" /\ w.kind = x.kind
      /\ w.size = x.size /\ w.vms = x.vms /\ w.results = x.results /\ w.batch = x.batch
  BY <1>1 DEF WorkOK, IsRun, RunFields
<1>3. z = Ended(w)
  BY DEF u
<1> HIDE DEF w
<1>4. WorkOK(w) /\ UnitOf(w) = w.stage /\ UnitOf(x) = u
  BY <1>1, <1>2 DEF WorkOK, UnitOf, u
<1>5. Whole(x, p) => Whole(w, p)
  BY <1>2 DEF Whole, Has
<1>6. \A k, s : Has(x, p, k, s) => Has(w, p, k, s)
  BY <1>2 DEF Has
<1>7. BeforeUnit(x, p)
  BY <1>1 DEF ReportOK
<1>8. BeforeUnit(w, p)
  BY <1>2, <1>4, <1>5, <1>6, <1>7 DEF BeforeUnit
<1>9. ReportOK(w, p)
  BY <1>1, <1>2, <1>5, <1>8 DEF ReportOK
<1>10. w.stage # "query"
  <2>1. w.stage = "query" => Ended(w) = w
    BY DEF Ended
  <2> QED
    BY <2>1, <1>3
<1>11. WorkOK(z) /\ AfterUnit(z, Stored(z, p)) /\ z.end = "stopped"
  BY <1>1, <1>2, <1>3, <1>4, <1>9, <1>10, UnitStores
<1> QED
  BY <1>11, DroppedFits

\* Changes of the other fields: the stop channel, and the session.
LEMMA SameFits ==
    ASSUME NEW x, NEW p, Fits(x, p), NEW y, IsRun(y), SameWork(x, y), y.stage = x.stage,
           y.end = x.end, y.batch = x.batch
    PROVE  Fits(y, p)
<1>1. ReportOK(x, p) /\ RunOK(x)
  BY FitsWork
<1>2. RunOK(y)
  BY <1>1 DEF RunOK, SameWork
<1>3. UnitOf(y) = UnitOf(x)
  BY DEF UnitOf, SameWork
<1>4. Whole(x, p) => Whole(y, p)
  BY DEF Whole, Has, SameWork
<1>5. \A k, s : Has(x, p, k, s) => Has(y, p, k, s)
  BY DEF Has, SameWork
<1>6. BeforeUnit(x, p)
  BY <1>1 DEF ReportOK
<1>7. BeforeUnit(y, p)
  BY <1>3, <1>4, <1>5, <1>6 DEF BeforeUnit, SameWork
<1> QED
  BY <1>1, <1>2, <1>4, <1>7 DEF Fits, ReportOK, SameWork

\* Logging out touches no row.
LEMMA MonitorFits ==
    ASSUME NEW x, NEW p, Fits(x, p)
    PROVE  Fits(LogoutFn(x), p)
<1> DEFINE s == IF x.client THEN FALSE ELSE x.session
           y == [x EXCEPT !.monitor = "done", !.session = s]
<1>1. LogoutFn(x) = y
  BY DEF LogoutFn
<1> HIDE DEF s
<1>2. IsRun(y) /\ SameWork(x, y) /\ y.stage = x.stage /\ y.end = x.end /\ y.batch = x.batch
  BY FitsWork DEF IsRun, RunFields, SameWork
<1> HIDE DEF y
<1> QED
  BY <1>1, <1>2, SameFits

\* Closing the stop channel touches no row.
LEMMA StopFits ==
    ASSUME NEW x, NEW p, Fits(x, p)
    PROVE  Fits([x EXCEPT !.stop = TRUE], p)
<1> DEFINE y == [x EXCEPT !.stop = TRUE]
<1>2. IsRun(y) /\ SameWork(x, y) /\ y.stage = x.stage /\ y.end = x.end /\ y.batch = x.batch
  BY FitsWork DEF IsRun, RunFields, SameWork
<1> HIDE DEF y
<1> QED
  BY <1>2, SameFits DEF y

\* A new run has a report without rows.
LEMMA NewFits ==
    ASSUME NEW kind \in {"http", "collector", "v2"}, NEW stage, NEW size \in Nat \ {0}, NEW discover, NEW vms,
           IF kind = "v2" THEN stage = "query" /\ vms = Inventory ELSE stage = "connect" /\ vms = <<>>
    PROVE  Fits(NewRun(kind, stage, size, discover, vms), CreateReport(Len(vms), size))
<1> DEFINE x == NewRun(kind, stage, size, discover, vms)
           none == NoCounters(vms)
           m == IF kind = "v2" THEN "none" ELSE "watching"
           n == Batches(vms, size)
           p == CreateReport(Len(vms), size)
<1>1. IsList(vms)
  BY EmptyIsList, DiscoveredIsList
<1>2. n \in Nat /\ (kind # "v2" => n = 0)
  BY <1>1, BatchesType, NoBatches
<1>3. x = [kind |-> kind, stage |-> stage, batch |-> 1, size |-> size, discover |-> discover,
           vms |-> vms, results |-> none, stop |-> FALSE, end |-> "none",
           dropped |-> "none", client |-> FALSE, session |-> FALSE, monitor |-> m]
  BY DEF NewRun
<1>4. p = [NewReport EXCEPT !.expected = n]
  BY DEF CreateReport, Batches
<1> HIDE DEF n, none, m, p, x
<1>5. IsRun(x) /\ x.kind = kind /\ x.stage = stage /\ x.batch = 1 /\ x.size = size /\ x.vms = vms
      /\ x.end = "none" /\ x.dropped = "none"
  BY <1>3 DEF IsRun, RunFields
<1>6. IsReport(p) /\ p.expected = n /\ p.written = 0 /\ p.metrics = {} /\ p.warnings = {} /\ p.utilization = {}
  BY <1>4 DEF NewReport, IsReport, ReportFields
<1>7. RunOK(x) /\ UnitOf(x) = stage
  BY <1>1, <1>5 DEF RunOK, UnitOf, Stages, Ends
<1>8. Has(x, p, 0, {})
  BY <1>6, BatchRowsNone DEF Has
<1>9. stage = "query" \/ (stage = "connect" /\ kind # "v2" /\ vms = <<>>)
  OBVIOUS
<1>10. BeforeUnit(x, p)
  BY <1>2, <1>5, <1>6, <1>7, <1>8, <1>9 DEF BeforeUnit, n
<1> QED
  BY <1>2, <1>5, <1>6, <1>7, <1>10 DEF Fits, ReportOK, x, p, n

\* A function on 1..n is a sequence of length n.
LEMMA FunctionIsSequence ==
    ASSUME NEW n \in Nat, NEW S, NEW f \in [1..n -> S]
    PROVE  f \in Seq(S) /\ Len(f) = n
<1> QED
  OBVIOUS

\* What Append gives, position by position.
LEMMA AppendIsFunction ==
    ASSUME NEW S, NEW s \in Seq(S), NEW e
    PROVE  Append(s, e) = [i \in 1..(Len(s) + 1) |-> IF i = Len(s) + 1 THEN e ELSE s[i]]
<1> DEFINE T == S \cup {e}
<1>1. s \in Seq(T) /\ e \in T
  OBVIOUS
<1> HIDE DEF T
<1>2. Append(s, e) \in Seq(T) /\ Len(Append(s, e)) = Len(s) + 1 /\ Len(s) \in Nat
  BY <1>1
<1>3. \A i \in 1..(Len(s) + 1) : Append(s, e)[i] = IF i = Len(s) + 1 THEN e ELSE s[i]
  BY <1>1
<1>4. Append(s, e) = [i \in 1..(Len(s) + 1) |-> Append(s, e)[i]]
  <2> DEFINE a == Append(s, e)
  <2>1. a \in Seq(T) /\ Len(a) = Len(s) + 1
    BY <1>2
  <2> HIDE DEF a
  <2>2. a = [i \in 1..Len(a) |-> a[i]]
    BY <2>1
  <2> QED
    BY <2>1, <2>2 DEF a
<1> QED
  BY <1>3, <1>4

\* The part of RsInv that is not about the runs.
Rest ==
    /\ served \in {"v1", "v2"} /\ agent \in {"up", "stopping", "down"}
    /\ collector \in {"idle", "polling", "checking", "completed", "failed", "cancelled"}
    /\ rsFaults \in 0..MaxFaults

\* And the part that is.
RunsOK ==
    /\ run \in Seq(Range(run)) /\ report \in Seq(Range(report)) /\ Len(report) = Len(run)
    /\ workSrv \in 0..Len(run)
    /\ \A r \in 1..Len(run) : Fits(run[r], report[r])

\* RsInv, in its two parts.
LEMMA RsInvParts == RsInv <=> Rest /\ RunsOK
<1>1. run \in Seq(Range(run)) => DOMAIN run = 1..Len(run)
  OBVIOUS
<1> QED
  BY <1>1 DEF RsInv, Rest, RunsOK, Fits

\* Each run has its report.
LEMMA RunsOKDomain ==
    ASSUME RunsOK
    PROVE  /\ DOMAIN run = 1..Len(run) /\ DOMAIN report = 1..Len(run) /\ Len(run) \in Nat
           /\ \A r \in DOMAIN run : Fits(run[r], report[r])
<1> QED
  BY DEF RunsOK

\* A run and its report are replaced.
LEMMA ReplaceRun ==
    ASSUME RunsOK, NEW r \in DOMAIN run, NEW y, NEW q, Fits(y, q),
           run' = [run EXCEPT ![r] = y], report' = [report EXCEPT ![r] = q], workSrv' = workSrv
    PROVE  RunsOK'
<1>1. DOMAIN run = 1..Len(run) /\ DOMAIN report = 1..Len(run) /\ Len(run) \in Nat
  BY RunsOKDomain
<1>2. DOMAIN run' = 1..Len(run) /\ DOMAIN report' = 1..Len(run)
  BY <1>1
<1>3. run' \in Seq(Range(run')) /\ report' \in Seq(Range(report')) /\ Len(run') = Len(run) /\ Len(report') = Len(run)
  <2>1. run' \in [1..Len(run) -> Range(run')] /\ report' \in [1..Len(run) -> Range(report')]
    BY <1>1, <1>2 DEF Range
  <2> QED
    BY <1>1, <2>1, FunctionIsSequence
<1>4. \A s \in 1..Len(run) : Fits(run'[s], report'[s])
  BY <1>1 DEF RunsOK
<1> QED
  BY <1>3, <1>4 DEF RunsOK

\* The same, the report left alone.
LEMMA ReplaceRunOnly ==
    ASSUME RunsOK, NEW r \in DOMAIN run, NEW y, Fits(y, report[r]),
           run' = [run EXCEPT ![r] = y], report' = report, workSrv' = workSrv
    PROVE  RunsOK'
<1>1. report' = [report EXCEPT ![r] = report[r]]
  BY RunsOKDomain DEF RunsOK
<1> QED
  BY <1>1, ReplaceRun

\* A run and its report are added.
LEMMA AddRun ==
    ASSUME RunsOK, NEW y, NEW q, Fits(y, q),
           run' = Append(run, y), report' = Append(report, q), workSrv' \in {workSrv, Len(run) + 1}
    PROVE  RunsOK'
<1> DEFINE n == Len(run)
<1>1. DOMAIN run = 1..n /\ DOMAIN report = 1..n /\ n \in Nat
  BY RunsOKDomain
<1>2. Append(run, y) = [s \in 1..(n + 1) |-> IF s = n + 1 THEN y ELSE run[s]]
  BY AppendIsFunction DEF RunsOK
<1>3. Append(report, q) = [s \in 1..(n + 1) |-> IF s = n + 1 THEN q ELSE report[s]]
  BY AppendIsFunction DEF RunsOK
<1>4. DOMAIN run' = 1..(n + 1) /\ DOMAIN report' = 1..(n + 1)
  BY <1>2, <1>3
<1>5. \A s \in 1..(n + 1) : Fits(run'[s], report'[s])
  <2>1. \A s \in 1..(n + 1) : s = n + 1 \/ s \in 1..n
    BY <1>1
  <2> QED
    BY <1>2, <1>3, <2>1 DEF RunsOK
<1> HIDE DEF n
<1>6. run' \in Seq(Range(run')) /\ report' \in Seq(Range(report')) /\ Len(run') = n + 1 /\ Len(report') = n + 1
  <2>1. run' = [s \in 1..(n + 1) |-> run'[s]] /\ report' = [s \in 1..(n + 1) |-> report'[s]]
    BY <1>2, <1>3
  <2>2. \A s \in 1..(n + 1) : run'[s] \in Range(run') /\ report'[s] \in Range(report')
    BY <1>4 DEF Range
  <2>3. run' \in [1..(n + 1) -> Range(run')] /\ report' \in [1..(n + 1) -> Range(report')]
    BY <2>1, <2>2
  <2>4. n + 1 \in Nat
    BY <1>1
  <2> QED
    BY <2>3, <2>4, FunctionIsSequence
<1> QED
  BY <1>1, <1>5, <1>6 DEF RunsOK, n

\* The default replaces a size that is not positive.
LEMMA SizePositive ==
    /\ DefaultBatchSize \in Nat \ {0}
    /\ \A n \in BatchSizes : applyCollectionDefaults(n) \in Nat \ {0}
<1> QED
  BY RightsizingAssumption DEF applyCollectionDefaults

\* POST /rightsizing starts a run.
LEMMA TriggerStep ==
    ASSUME RunsOK, TriggerCollection
    PROVE  RunsOK'
<1>1. PICK n \in BatchSizes, discover \in {"inventory", "all", "filtered"} :
        /\ run' = Append(run, NewRun("http", "connect", applyCollectionDefaults(n), discover, <<>>))
        /\ report' = Append(report, CreateReport(0, applyCollectionDefaults(n)))
  BY DEF TriggerCollection
<1>2. Len(<<>>) = 0
  OBVIOUS
<1>3. Fits(NewRun("http", "connect", applyCollectionDefaults(n), discover, <<>>),
           CreateReport(0, applyCollectionDefaults(n)))
  BY <1>2, NewFits, SizePositive
<1>4. workSrv' = Len(run) + 1
  BY DEF TriggerCollection
<1> QED
  BY <1>1, <1>3, <1>4, AddRun

\* Unit 6 of the v1 collection starts a run.
LEMMA CollectorTriggersStep ==
    ASSUME RunsOK, CollectorTriggers
    PROVE  RunsOK'
<1>1. Len(<<>>) = 0
  OBVIOUS
<1>2. Fits(NewRun("collector", "connect", DefaultBatchSize, "inventory", <<>>),
           CreateReport(0, DefaultBatchSize))
  BY <1>1, NewFits, SizePositive
<1> QED
  BY <1>2, AddRun DEF CollectorTriggers

\* Unit 6a of the v2 collection starts a run.
LEMMA CreateReportStep ==
    ASSUME RunsOK, CreateReportFromInventory
    PROVE  RunsOK'
<1>1. Fits(NewRun("v2", "query", DefaultBatchSize, "inventory", Inventory),
           CreateReport(Len(Inventory), DefaultBatchSize))
  BY NewFits, SizePositive
<1> QED
  BY <1>1, AddRun DEF CreateReportFromInventory, ListInventoryVMs

\* A step of a unit that ends well.
LEMMA UnitEndsStep ==
    ASSUME RunsOK, NEW r \in DOMAIN run, UnitEnds(r)
    PROVE  RunsOK'
<1>1. Fits(run[r], report[r]) /\ DOMAIN report = DOMAIN run
  BY RunsOKDomain
<1>2. run[r].stage # "query" /\ run[r].stage # "ended"
  BY DEF UnitEnds, Running
<1>3. Fits(Advance(Ended(run[r])), Stored(Ended(run[r]), report[r]))
  BY <1>1, <1>2, UnitEndsFits
<1>4. run' = [run EXCEPT ![r] = Advance(Ended(run[r]))]
      /\ report' = [report EXCEPT ![r] = Stored(Ended(run[r]), report[r])] /\ workSrv' = workSrv
  BY <1>1 DEF UnitEnds
<1> QED
  BY <1>3, <1>4, ReplaceRun

\* A step of the query unit.
LEMMA QueryEndsStep ==
    ASSUME RunsOK, NEW r \in DOMAIN run, QueryEnds(r)
    PROVE  RunsOK'
<1>1. Fits(run[r], report[r])
  BY RunsOKDomain
<1>2. PICK results : run' = [run EXCEPT ![r] = Advance([run[r] EXCEPT !.results = results])]
  BY Zenon DEF QueryEnds
<1>3. run[r].stage = "query" /\ report' = report /\ workSrv' = workSrv
  BY DEF QueryEnds
<1>4. Fits(Advance([run[r] EXCEPT !.results = results]), report[r])
  BY <1>1, <1>3, QueryEndsFits
<1> QED
  BY <1>2, <1>3, <1>4, ReplaceRunOnly

\* A step of the query unit that finds no counter.
LEMMA QueryFindsNoCounterStep ==
    ASSUME RunsOK, NEW r \in DOMAIN run, QueryFindsNoCounter(r)
    PROVE  RunsOK'
<1> DEFINE x == run[r]
           y == IF x.kind = "v2" THEN [x EXCEPT !.stage = "ended", !.end = "failed"]
                ELSE Advance([x EXCEPT !.results = NoCounters(x.vms)])
<1>1. Fits(x, report[r])
  BY RunsOKDomain
<1>2. x.stage = "query" /\ report' = report /\ workSrv' = workSrv /\ run' = [run EXCEPT ![r] = y]
  BY DEF QueryFindsNoCounter
<1>3. Fits(y, report[r])
  BY <1>1, <1>2, QueryEndsFits, EndFits
<1> QED
  BY <1>2, <1>3, ReplaceRunOnly

\* A step of a unit that fails.
LEMMA UnitFailsStep ==
    ASSUME RunsOK, NEW r \in DOMAIN run, UnitFails(r)
    PROVE  RunsOK'
<1>1. Fits(run[r], report[r]) /\ run[r].stage # "ended"
  BY RunsOKDomain DEF UnitFails, Running
<1>2. Fits([run[r] EXCEPT !.stage = "ended", !.end = "failed"], report[r])
  BY <1>1, EndFits
<1>3. run' = [run EXCEPT ![r] = [run[r] EXCEPT !.stage = "ended", !.end = "failed"]]
      /\ report' = report /\ workSrv' = workSrv
  BY DEF UnitFails
<1> QED
  BY <1>2, <1>3, ReplaceRunOnly

\* A step of a pipeline that sees the stop channel closed.
LEMMA PipelineStopsStep ==
    ASSUME RunsOK, NEW r \in DOMAIN run, PipelineStops(r)
    PROVE  RunsOK'
<1>1. Fits(run[r], report[r]) /\ run[r].stage # "ended"
  BY RunsOKDomain DEF PipelineStops, Running
<1>2. Fits([run[r] EXCEPT !.stage = "ended", !.end = "stopped", !.dropped = run[r].stage], report[r])
  BY <1>1, StopsFits
<1>3. run' = [run EXCEPT ![r] = [run[r] EXCEPT !.stage = "ended", !.end = "stopped", !.dropped = run[r].stage]]
      /\ report' = report /\ workSrv' = workSrv
  BY DEF PipelineStops
<1> QED
  BY <1>2, <1>3, ReplaceRunOnly

\* A step of a unit nobody listens to.
LEMMA DroppedEndsStep ==
    ASSUME RunsOK, NEW r \in DOMAIN run, DroppedEnds(r)
    PROVE  RunsOK'
<1> DEFINE z == Ended([run[r] EXCEPT !.stage = run[r].dropped])
<1>1. Fits(run[r], report[r]) /\ DOMAIN report = DOMAIN run /\ run[r].dropped # "none" /\ workSrv' = workSrv
  BY RunsOKDomain DEF DroppedEnds
<1>2. CASE run' = [run EXCEPT ![r].dropped = "none"] /\ report' = report
  <2>1. Fits([run[r] EXCEPT !.dropped = "none"], report[r])
    BY <1>1, DroppedIgnored
  <2>2. run' = [run EXCEPT ![r] = [run[r] EXCEPT !.dropped = "none"]]
    BY <1>2
  <2> QED
    BY <1>1, <1>2, <2>1, <2>2, ReplaceRunOnly
<1>3. CASE /\ z.stage # "query"
           /\ run' = [run EXCEPT ![r] = [z EXCEPT !.stage = "ended", !.dropped = "none"]]
           /\ report' = [report EXCEPT ![r] = Stored(z, @)]
  <2>1. z = Ended([run[r] EXCEPT !.stage = run[r].dropped])
    OBVIOUS
  <2> HIDE DEF z
  <2>2. Fits([z EXCEPT !.stage = "ended", !.dropped = "none"], Stored(z, report[r]))
    BY <1>1, <1>3, <2>1, DroppedEndsFits
  <2>3. report' = [report EXCEPT ![r] = Stored(z, report[r])]
    BY <1>1, <1>3
  <2> QED
    BY <1>1, <1>3, <2>2, <2>3, ReplaceRun
<1> QED
  BY <1>2, <1>3 DEF DroppedEnds

\* A step of the goroutine that logs out.
LEMMA MonitorStep ==
    ASSUME RunsOK, NEW r \in DOMAIN run, Monitor(r)
    PROVE  RunsOK'
<1>1. Fits(LogoutFn(run[r]), report[r])
  BY RunsOKDomain, MonitorFits
<1>2. run' = [run EXCEPT ![r] = LogoutFn(run[r])] /\ report' = report /\ workSrv' = workSrv
  BY DEF Monitor
<1> QED
  BY <1>1, <1>2, ReplaceRunOnly

\* ServiceManager.Stop closes the stop channel of the service's run.
LEMMA StopStep ==
    ASSUME RunsOK, Stop
    PROVE  RunsOK'
<1>1. CASE Running(workSrv)
  <2>1. workSrv \in DOMAIN run
    BY <1>1, RunsOKDomain DEF Running, RunsOK
  <2>2. Fits([run[workSrv] EXCEPT !.stop = TRUE], report[workSrv])
    BY <2>1, RunsOKDomain, StopFits
  <2>3. run' = [run EXCEPT ![workSrv] = [run[workSrv] EXCEPT !.stop = TRUE]] /\ report' = report /\ workSrv' = workSrv
    BY <1>1, <2>1 DEF Stop
  <2> QED
    BY <2>1, <2>2, <2>3, ReplaceRunOnly
<1>2. CASE ~Running(workSrv)
  BY <1>2 DEF Stop, RunsOK
<1> QED
  BY <1>1, <1>2

\* The process ends: what ran is lost, its rows stay.
LEMMA ExitStep ==
    ASSUME RunsOK, Exit
    PROVE  RunsOK'
<1> DEFINE y(r) == IF Running(r) THEN [run[r] EXCEPT !.stage = "ended", !.end = "lost"] ELSE run[r]
<1>1. DOMAIN run = 1..Len(run) /\ DOMAIN report = 1..Len(run) /\ Len(run) \in Nat
      /\ \A r \in 1..Len(run) : Fits(run[r], report[r])
  BY RunsOKDomain
<1>2. run' = [r \in 1..Len(run) |-> y(r)] /\ report' = report /\ workSrv' = workSrv
  BY <1>1 DEF Exit
<1>3. ASSUME NEW r \in 1..Len(run) PROVE Fits(y(r), report[r])
  BY <1>1, EndFits DEF Running
<1> HIDE DEF y
<1>4. \A r \in 1..Len(run) : y(r) \in Range(run')
  BY <1>2 DEF Range
<1>5. run' \in Seq(Range(run')) /\ Len(run') = Len(run)
  <2>1. run' \in [1..Len(run) -> Range(run')]
    BY <1>2, <1>4
  <2> QED
    BY <1>1, <2>1
<1>6. report \in Seq(Range(report)) /\ Len(report) = Len(run) /\ workSrv \in 0..Len(run)
  BY DEF RunsOK
<1>7. \A r \in 1..Len(run) : run'[r] = y(r)
  BY <1>2
<1> QED
  BY <1>2, <1>3, <1>5, <1>6, <1>7 DEF RunsOK

\* No step leaves the types of the variables that are not about runs.
LEMMA RestStep ==
    ASSUME Rest, RsNext
    PROVE  Rest'
<1> USE DEF Rest
<1>1. MaxFaults \in Nat
  BY RightsizingAssumption
<1>2. CASE TriggerCollection
  BY <1>2 DEF TriggerCollection
<1>3. CASE CollectorTriggers
  BY <1>3 DEF CollectorTriggers
<1>4. CASE CreateReportFromInventory
  BY <1>4 DEF CreateReportFromInventory
<1>5. ASSUME NEW r \in DOMAIN run,
             UnitEnds(r) \/ QueryEnds(r) \/ PipelineStops(r) \/ DroppedEnds(r) \/ Monitor(r)
      PROVE  Rest'
  <2>1. UNCHANGED <<served, agent, collector, rsFaults>>
    BY <1>5 DEF UnitEnds, QueryEnds, PipelineStops, DroppedEnds, Monitor
  <2> QED
    BY <2>1
<1>6. ASSUME NEW r \in DOMAIN run, QueryFindsNoCounter(r) \/ UnitFails(r) PROVE Rest'
  <2>1. UNCHANGED <<served, agent, collector>> /\ (Fault \/ UNCHANGED rsFaults)
    BY <1>6 DEF QueryFindsNoCounter, UnitFails
  <2> QED
    BY <1>1, <2>1 DEF Fault
<1>7. CASE CollectorPolls
  BY <1>7 DEF CollectorPolls, GetStatusState
<1>8. CASE CollectorChecks
  BY <1>8 DEF CollectorChecks, GetStatusIsRunning
<1>9. CASE StopCollection
  BY <1>9 DEF StopCollection
<1>10. CASE FinalizeCollection
  BY <1>10 DEF FinalizeCollection
<1>11. CASE Stop
  BY <1>11 DEF Stop
<1>12. CASE Exit
  BY <1>12 DEF Exit
<1> QED
  BY <1>2, <1>3, <1>4, <1>5, <1>6, <1>7, <1>8, <1>9, <1>10, <1>11, <1>12 DEF RsNext

\* Every step keeps each report in line with its run.
LEMMA RunsStep ==
    ASSUME RunsOK, RsNext
    PROVE  RunsOK'
<1>1. CASE CollectorPolls \/ CollectorChecks \/ StopCollection \/ FinalizeCollection
  <2>1. UNCHANGED <<run, report, workSrv>>
    BY <1>1 DEF CollectorPolls, CollectorChecks, StopCollection, FinalizeCollection
  <2> QED
    BY <2>1 DEF RunsOK
<1> QED
  BY <1>1, TriggerStep, CollectorTriggersStep, CreateReportStep, UnitEndsStep, QueryEndsStep,
     QueryFindsNoCounterStep, UnitFailsStep, PipelineStopsStep, DroppedEndsStep, MonitorStep,
     StopStep, ExitStep DEF RsNext

\* The rows of every report are those of the units its run has been through.
THEOREM RsInvariance == RsSpec => []RsInv
<1>1. RsInit => RsInv
  BY RightsizingAssumption DEF RsInit, RsInv, Range
<1>2. RsInv /\ [RsNext]_rsVars => RsInv'
  <2>1. ASSUME RsInv, RsNext PROVE RsInv'
    <3>1. Rest' /\ RunsOK'
      BY <2>1, RsInvParts, RestStep, RunsStep
    <3> QED
      BY <3>1 DEF RsInv, Rest, RunsOK, Fits
  <2>2. ASSUME RsInv, UNCHANGED rsVars PROVE RsInv'
    BY <2>2 DEF RsInv, rsVars
  <2> QED
    BY <2>1, <2>2
<1> QED
  BY <1>1, <1>2, PTL DEF RsSpec

\* A report LatestReport finds is one of the database with a batch.
LEMMA LatestIsRun ==
    ASSUME RunsOK, NEW d, LatestReport(d) # 0
    PROVE  LatestReport(d) \in DOMAIN run
<1> DEFINE S == {r \in ListReports(d) : report[r].written > 0} \cup {0}
<1>1. S \in SUBSET (0..Len(run)) /\ S # {} /\ Len(run) \in Nat
  BY RunsOKDomain DEF ListReports
<1>2. Max(S) \in S
  BY <1>1, MaxOfPositions
<1>3. LatestReport(d) = Max(S)
  BY DEF LatestReport
<1> HIDE DEF S
<1>4. LatestReport(d) \in S
  BY <1>2, <1>3
<1> QED
  BY <1>4 DEF S, ListReports

\* A report some read answers from has utilization.
LEMMA AnsweringHasRows ==
    ASSUME RunsOK, NEW r \in Answering
    PROVE  r \in DOMAIN run /\ report[r].utilization # {}
<1>1. CASE \E d \in {0} \cup DOMAIN run : r = LatestReport(d) /\ \E v \in VMIds : GetVMUtilization(d, v) = 200
  <2>1. PICK d, v : r = LatestReport(d) /\ GetVMUtilization(d, v) = 200
    BY <1>1
  <2>2. RowsOf(d, v) # {}
    BY <2>1 DEF GetVMUtilization
  <2>3. LatestReport(d) # 0 /\ report[LatestReport(d)].utilization # {}
    BY <2>2 DEF RowsOf
  <2> QED
    BY <2>1, <2>3, LatestIsRun
<1>2. CASE \E d \in {0} \cup DOMAIN run : r = LatestReport(d) /\ \E c \in Clusters : GetClusterUtilization(d, c) = 200
  <2>1. PICK d, c : r = LatestReport(d) /\ GetClusterUtilization(d, c) = 200
    BY <1>2
  <2>2. LatestReport(d) # 0 /\ ListLatestClusterUtilization(d, c) # {}
    BY <2>1 DEF GetClusterUtilization
  <2>3. clusterUtilizationRows(report[LatestReport(d)], c) # {}
    BY <2>2 DEF ListLatestClusterUtilization
  <2>4. report[LatestReport(d)].utilization # {}
    BY <2>3 DEF clusterUtilizationRows
  <2> QED
    BY <2>1, <2>2, <2>4, LatestIsRun
<1>3. CASE r \in DOMAIN run /\ \E c \in Clusters : GetRightsizingReportCluster(r, c) = 200
  <2>1. PICK c : GetRightsizingReportCluster(r, c) = 200
    BY <1>3
  <2>2. c \in ListRightsizingReportClusters(r)
    BY <2>1 DEF GetRightsizingReportCluster
  <2>3. clusterUtilizationRows(report[r], c) # {}
    BY <2>2 DEF ListRightsizingReportClusters
  <2> QED
    BY <1>3, <2>3 DEF clusterUtilizationRows
<1> QED
  BY <1>1, <1>2, <1>3 DEF Answering

\* A whole report has every VM of its run once.
LEMMA WholeListsAll ==
    ASSUME NEW x, NEW p, Fits(x, p), Whole(x, p)
    PROVE  /\ p.written = p.expected /\ p.written = Batches(x.vms, x.size)
           /\ Measured(p.metrics) = Range(x.vms) \ NoData(x.vms, x.results)
           /\ p.warnings = NoData(x.vms, x.results)
<1>1. WorkOK(x)
  BY FitsWork
<1> QED
  BY <1>1, AllBatchesMeasure DEF Whole, Has, WorkOK

\* The database of a v2 collection has one report, the latest once it has a batch.
LEMMA LatestOfCollection ==
    ASSUME RunsOK, NEW r \in DOMAIN run, run[r].kind = "v2", report[r].written \in Nat
    PROVE  LatestReport(r) = IF report[r].written > 0 THEN r ELSE 0
<1>1. r \in Nat \ {0} /\ DOMAIN run = 1..Len(run) /\ Len(run) \in Nat
  BY RunsOKDomain
<1>2. \A s \in DOMAIN run : ReportDb(s) = r <=> s = r
  BY <1>1 DEF ReportDb
<1>3. ListReports(r) = {r}
  BY <1>2 DEF ListReports
<1> DEFINE S == {s \in ListReports(r) : report[s].written > 0} \cup {0}
<1>4. LatestReport(r) = Max(S)
  BY DEF LatestReport
<1>5. S \in SUBSET (0..Len(run)) /\ S # {}
  BY <1>1, <1>3
<1>6. Max(S) \in S /\ \A i \in S : i <= Max(S)
  BY <1>1, <1>5, MaxOfPositions
<1>7. \A i : i \in S <=> i = 0 \/ (i = r /\ report[r].written > 0)
  BY <1>3
<1> HIDE DEF S
<1>8. CASE report[r].written > 0
  <2>1. r \in S /\ Max(S) \in {0, r} /\ r <= Max(S)
    BY <1>6, <1>7, <1>8
  <2> QED
    BY <1>1, <1>4, <1>8, <2>1
<1>9. CASE ~(report[r].written > 0)
  <2>1. Max(S) = 0
    BY <1>6, <1>7, <1>9
  <2> QED
    BY <1>4, <1>9, <2>1
<1> QED
  BY <1>8, <1>9

\* There is a utilization row of a VM exactly when it has metrics.
LEMMA RowsOfMeasured ==
    ASSUME NEW m
    PROVE  /\ \A u \in UtilizationRows(m) : u.vm \in Measured(m)
           /\ \A v \in Measured(m) : \E u \in UtilizationRows(m) : u.vm = v
<1> DEFINE row(v) == [vm |-> v, counters |-> {y[2] : y \in {x \in m : x[1] = v}}]
<1>1. \A v : row(v).vm = v
  OBVIOUS
<1> HIDE DEF row
<1>2. UtilizationRows(m) = {row(v) : v \in Measured(m)}
  BY DEF UtilizationRows, row
<1> QED
  BY <1>1, <1>2

\* What a v2 collection that has come to be served answers.
LEMMA CollectionAnswers ==
    ASSUME RunsOK, NEW r \in DOMAIN run, run[r].kind = "v2", run[r].end = "completed"
    PROVE  /\ \A v \in Range(run[r].vms) : GetVMUtilizationV2(r, v) = 200 <=> run[r].results[v] # {}
           /\ \A c \in Clusters : GetClusterUtilizationV2(r, c) = 200 <=>
                 \E v \in Range(run[r].vms) \ MigrationExcluded : ClusterOf[v] = c /\ run[r].results[v] # {}
<1> DEFINE x == run[r]
           p == report[r]
<1>1. Fits(x, p) /\ WorkOK(x)
  BY RunsOKDomain, FitsWork
<1>2. Whole(x, p) /\ p.utilization = UtilizationRows(p.metrics) /\ x.vms = Inventory
  BY <1>1 DEF Fits, RunOK, ReportOK
<1>3. p.written = Batches(x.vms, x.size) /\ Measured(p.metrics) = Range(x.vms) \ NoData(x.vms, x.results)
  BY <1>1, <1>2, WholeListsAll
<1>4. p.written \in Nat
  BY <1>1, <1>3, BatchesType DEF WorkOK
<1>5. LatestReport(r) = IF p.written > 0 THEN r ELSE 0
  BY <1>4, LatestOfCollection
<1>6. r # 0
  BY RunsOKDomain
<1>7. \A v : v \in Measured(p.metrics) <=> v \in Range(x.vms) /\ x.results[v] # {}
  BY <1>3 DEF NoData
<1>8. p.written = 0 => Range(x.vms) = {}
  <2>1. x.vms \in Seq(Range(x.vms)) /\ Len(x.vms) \in Nat /\ x.size \in Nat \ {0}
    BY <1>1 DEF WorkOK, IsList
  <2>2. p.written = (Len(x.vms) + x.size - 1) \div x.size
    BY <1>1, <1>3, BatchesType DEF WorkOK
  <2>3. \A n \in Nat, s \in Nat \ {0} : (n + s - 1) \div s = 0 => n = 0
    OBVIOUS
  <2>4. p.written = 0 => Len(x.vms) = 0
    BY <2>1, <2>2, <2>3
  <2>5. p.written = 0 => DOMAIN x.vms = {}
    BY <2>1, <2>4
  <2> QED
    BY <2>5 DEF Range
<1>9. \A v : v \in Measured(p.metrics) <=> \E u \in p.utilization : u.vm = v
  BY <1>2, RowsOfMeasured
<1> HIDE DEF x, p
<1>10. ASSUME NEW v \in Range(x.vms) PROVE GetVMUtilizationV2(r, v) = 200 <=> x.results[v] # {}
  <2>1. LatestReport(r) = r
    BY <1>4, <1>5, <1>8, <1>10
  <2>2. RowsOf(r, v) = {u \in p.utilization : u.vm = v}
    BY <2>1, <1>6 DEF RowsOf, p
  <2>3. RowsOf(r, v) # {} <=> v \in Measured(p.metrics)
    BY <2>2, <1>9
  <2> QED
    BY <2>3, <1>7, <1>10 DEF GetVMUtilizationV2
<1>11. ASSUME NEW c \in Clusters
       PROVE  GetClusterUtilizationV2(r, c) = 200 <=>
                 \E v \in Range(x.vms) \ MigrationExcluded : ClusterOf[v] = c /\ x.results[v] # {}
  <2>1. GetClusterUtilizationV2(r, c) = 200 <=>
            LatestReport(r) # 0 /\ ListLatestClusterUtilization(r, c) # {}
    BY DEF GetClusterUtilizationV2, GetClusterUtilization
  <2>2. CASE p.written = 0
    BY <1>4, <1>5, <1>8, <2>1, <2>2
  <2>3. CASE p.written # 0
    <3>1. LatestReport(r) = r
      BY <1>4, <1>5, <2>3
    <3>2. ListLatestClusterUtilization(r, c) = clusterUtilizationRows(p, c)
      BY <3>1, <1>6 DEF ListLatestClusterUtilization, p
    <3>3. clusterUtilizationRows(p, c) # {} <=>
            \E u \in p.utilization : u.vm \in Range(Inventory) \ MigrationExcluded /\ ClusterOf[u.vm] = c
      BY DEF clusterUtilizationRows
    <3>4. (\E u \in p.utilization : u.vm \in Range(Inventory) \ MigrationExcluded /\ ClusterOf[u.vm] = c) <=>
            \E v \in Range(Inventory) \ MigrationExcluded : ClusterOf[v] = c /\ v \in Measured(p.metrics)
      BY <1>9
    <3> QED
      BY <1>2, <1>6, <1>7, <2>1, <3>1, <3>2, <3>3, <3>4
  <2> QED
    BY <2>2, <2>3
<1> QED
  BY <1>10, <1>11 DEF x

\* ServedFromWhole follows from the invariant.
LEMMA InvServes ==
    ASSUME RsInv
    PROVE  ServedFromWhole
<1>1. RunsOK
  BY RsInvParts
<1>2. ASSUME NEW r \in Answering
      PROVE  /\ r # 0 /\ report[r].written = report[r].expected
             /\ GetReport(report[r]).metrics \cup GetReport(report[r]).warnings = Range(run[r].vms)
             /\ GetReport(report[r]).metrics \cap GetReport(report[r]).warnings = {}
  <2>1. r \in DOMAIN run /\ report[r].utilization # {}
    BY <1>1, AnsweringHasRows
  <2>2. Fits(run[r], report[r]) /\ r # 0
    BY <1>1, <2>1, RunsOKDomain
  <2>3. Whole(run[r], report[r])
    BY <2>1, <2>2 DEF Fits, ReportOK
  <2>4. report[r].written = report[r].expected
        /\ Measured(report[r].metrics) = Range(run[r].vms) \ NoData(run[r].vms, run[r].results)
        /\ report[r].warnings = NoData(run[r].vms, run[r].results)
    BY <2>2, <2>3, WholeListsAll
  <2>5. NoData(run[r].vms, run[r].results) \subseteq Range(run[r].vms)
    BY DEF NoData
  <2> QED
    BY <2>2, <2>4, <2>5 DEF GetReport, appendMetrics, appendVMWarnings
<1> QED
  BY <1>1, <1>2, CollectionAnswers DEF ServedFromWhole

\* Utilization is answered from whole reports only.
THEOREM ServedIsWhole == RsSpec => []ServedFromWhole
<1> QED
  BY RsInvariance, InvServes, PTL

\* So does the type invariant.
LEMMA InvTypes ==
    ASSUME RsInv
    PROVE  RsTypeOK
<1>1. RunsOK /\ Rest
  BY RsInvParts
<1>2. \A r \in DOMAIN run : RunOK(run[r]) /\ ReportOK(run[r], report[r])
  BY <1>1, RunsOKDomain, FitsWork
<1>3. \A r \in DOMAIN run :
         /\ run[r].stage \in Stages /\ run[r].end \in Ends
         /\ run[r].dropped \in Stages \cup {"none"} /\ run[r].size > 0
  BY <1>2 DEF RunOK
<1>4. \A r \in DOMAIN run :
         /\ report[r].written \in 0..report[r].expected
         /\ report[r].expected \in {0, Batches(run[r].vms, run[r].size)}
         /\ report[r].warnings \subseteq Range(run[r].vms)
  BY <1>2 DEF ReportOK
<1> QED
  BY <1>1, <1>3, <1>4 DEF RsTypeOK, Rest, RunsOK

\* No report counts more batches than its list has.
THEOREM RsTypes == RsSpec => []RsTypeOK
<1> QED
  BY RsInvariance, InvTypes, PTL
=============================================================================
