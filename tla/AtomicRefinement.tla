-------------------------- MODULE AtomicRefinement --------------------------
(***************************************************************************)
(* AtomicRing implements AtomicQueue: what the threads of a disciplined    *)
(* buffer do, access by access, is what a queue of entries does that are   *)
(* reserved, published and taken, each in one step.                        *)
(***************************************************************************)
EXTENDS AtomicSafety

EntryType == [val : PushId, ready : BOOLEAN]

\* The entry of an index after a step
NextEntry(i) == [val |-> log'[i + 1], ready |-> commit'[SlotOf(i)] = i]

LEMMA EntriesAre ==
    ASSUME Safe
    PROVE  /\ Entries \in Seq(EntryType) /\ Len(Entries) = writeIdx - readIdx
           /\ \A k \in 1 .. writeIdx - readIdx :
                Entries[k] = Entry(readIdx + k - 1) /\ readIdx + k - 1 \in readIdx .. writeIdx - 1
           /\ writeIdx - readIdx \in Nat
<1>1. /\ writeIdx \in Nat /\ readIdx \in Nat /\ readIdx <= writeIdx
      /\ \A i \in 0 .. writeIdx - 1 : Elem(i) \in PushId
  BY Ranges DEF Safe, Window
<1> DEFINE n == writeIdx - readIdx
<1>2. n \in Nat /\ \A k \in 1 .. n : readIdx + k - 1 \in 0 .. writeIdx - 1
                                     /\ readIdx + k - 1 \in readIdx .. writeIdx - 1
  BY <1>1
<1>3. \A k \in 1 .. n : Entry(readIdx + k - 1) \in EntryType
  BY <1>1, <1>2 DEF Entry, EntryType
<1>4. Entries = [k \in 1 .. n |-> Entry(readIdx + k - 1)]
  BY DEF Entries
<1> HIDE DEF n
<1>5. Entries \in Seq(EntryType) /\ Len(Entries) = n
  BY <1>2, <1>3, <1>4
<1> QED BY <1>2, <1>4, <1>5 DEF n

LEMMA NextEntriesAre ==
    ASSUME Disciplined, Safe, NEW t \in Thread, Step(t)
    PROVE  /\ Entries' \in Seq(EntryType) /\ Len(Entries') = writeIdx' - readIdx'
           /\ \A k \in 1 .. writeIdx' - readIdx' : Entries'[k] = NextEntry(readIdx' + k - 1)
           /\ writeIdx' - readIdx' \in Nat
<1>1. /\ writeIdx' \in Nat /\ readIdx' \in Nat /\ readIdx' <= writeIdx'
      /\ log' \in Seq(PushId) /\ Len(log') = writeIdx'
  <2>1. writeIdx \in Int /\ writeIdx' \in Nat /\ readIdx' \in Nat
        /\ readIdx' <= writeIdx /\ writeIdx <= writeIdx'
    BY ReadStep, LogStep, Ranges DEF Safe
  <2>2. \A a, b, c \in Int : a <= b /\ b <= c => a <= c
    OBVIOUS
  <2> QED BY <2>1, <2>2, GhostStep DEF Safe, GhostTypes
<1> DEFINE n == writeIdx' - readIdx'
<1>2. n \in Nat /\ \A k \in 1 .. n : (readIdx' + k - 1) + 1 \in 1 .. Len(log')
  <2>1. \A r, w \in Nat : r <= w =>
          w - r \in Nat /\ \A k \in 1 .. w - r : (r + k - 1) + 1 \in 1 .. w
    OBVIOUS
  <2> QED BY <1>1, <2>1
<1>3. \A k \in 1 .. n : NextEntry(readIdx' + k - 1) \in EntryType
  BY <1>1, <1>2, ElementOfSeq DEF NextEntry, EntryType
<1>4. Entries' = [k \in 1 .. n |-> NextEntry(readIdx' + k - 1)]
  BY DEF Entries, Entry, NextEntry, Elem, CommitStatus
<1> HIDE DEF n
<1>5. Entries' \in Seq(EntryType) /\ Len(Entries') = n
  BY <1>2, <1>3, <1>4
<1>6. \A k \in 1 .. n : Entries'[k] = NextEntry(readIdx' + k - 1)
  BY <1>4
<1> QED BY <1>2, <1>5, <1>6 DEF n

\* A step changes no entry but the one it publishes.
LEMMA EntriesStay ==
    ASSUME Disciplined, Safe, NEW t \in Thread, Step(t), NEW i \in readIdx .. writeIdx - 1,
           ~(PushCommit(t) /\ i = wr[t])
    PROVE  NextEntry(i) = Entry(i)
<1>1. /\ Basics /\ Window /\ Roles /\ Reservations /\ SharedTypes
      /\ i \in Int /\ i \in 0 .. writeIdx - 1 /\ wr[t] \in Int /\ i \in Current
      /\ \A j \in Int : SlotOf(j) \in Slot
  BY Ranges DEF Safe, Basics, TypeOK, Current
<1>2. log'[i + 1] = log[i + 1]
  BY <1>1, LogStep
<1>3. commit'[SlotOf(i)] = commit[SlotOf(i)]
  <2>1. CASE PushCommit(t)
    <3>1. /\ pc[t] = "push_commit" /\ pc[t] \in Reserved
          /\ commit' = [commit EXCEPT ![SlotOf(wr[t])] = wr[t]]
      BY <2>1 DEF PushCommit, CommitMark, Reserved
    <3>2. ~Excess
      BY <1>1, <3>1, NoExcess DEF Pushing
    <3>3. SlotOf(wr[t]) # SlotOf(i)
      BY <1>1, <2>1, <3>1, <3>2, ReservedIsCurrent, CurrentSlots
    <3> QED BY <1>1, <3>1, <3>3 DEF SharedTypes
  <2>2. CASE ~PushCommit(t)
    BY <2>2, Frames
  <2> QED BY <2>1, <2>2
<1> QED BY <1>2, <1>3 DEF NextEntry, Entry, Elem, CommitStatus

\* The exchange or the addition that moves write_idx appends an entry.
LEMMA ReserveAppends ==
    ASSUME Disciplined, Safe, NEW t \in Thread, Step(t), Reserves(t)
    PROVE  Queue!Reserve(val[t]) /\ val[t] \in PushId
<1>1. /\ Basics /\ Window /\ Roles
      /\ writeIdx \in Nat /\ readIdx \in Nat /\ readIdx <= writeIdx /\ Capacity \in Nat \ {0}
      /\ rd[t] \in Int /\ wr[t] \in Int
  BY Ranges DEF Safe, Window
<1>2. /\ writeIdx' = writeIdx + 1 /\ log'[writeIdx + 1] = val[t]
      /\ readIdx' = readIdx /\ commit' = commit /\ pc[t] \in Unreserved
  BY <1>1, LogStep
<1>3. delivered' = delivered /\ ~PushCommit(t)
  BY Frames DEF Reserves, PushReserve, OverwriteReserve, PopTake, PushCommit
<1>4. val[t] \in PushId /\ \A i \in 1 .. Len(log) : log[i] # val[t]
  BY <1>1, <1>2, PushedIsNamed DEF Basics, Names, Pushing
<1>5. Len(Entries) < Capacity + (IF Overwrite THEN 1 ELSE 0)
  <2>1. Len(Entries) = writeIdx - readIdx
    BY EntriesAre
  <2>2. CASE PushReserve(t)
    <3>1. wr[t] = writeIdx /\ wr[t] < rd[t] + Capacity /\ rd[t] <= readIdx
      BY <1>1, <2>2 DEF PushReserve, Window
    <3> QED BY <1>1, <2>1, <3>1
  <2>3. CASE OverwriteReserve(t)
    <3>1. pc[t] = "ow_reserve" /\ Overwrite
      BY <1>1, <2>3 DEF OverwriteReserve, Roles
    <3>2. ~Excess
      BY <1>1, <3>1, NoExcess DEF Pushing, Unreserved
    <3>3. writeIdx <= readIdx + Capacity
      BY <1>1, <3>2 DEF Window
    <3> QED BY <1>1, <2>1, <3>1, <3>3
  <2> QED BY <2>2, <2>3 DEF Reserves
<1>6. \A k \in 1 .. Len(Entries) : Entries[k].val # val[t]
  <2> SUFFICES ASSUME NEW k \in 1 .. writeIdx - readIdx PROVE Entries[k].val # val[t]
    BY EntriesAre
  <2>1. Entries[k].val = log[(readIdx + k - 1) + 1]
    BY EntriesAre DEF Entry, Elem
  <2>2. (readIdx + k - 1) + 1 \in 1 .. Len(log)
    <3>1. Len(log) = writeIdx
      BY <1>1, Ranges
    <3> QED BY <1>1, <3>1
  <2> QED BY <1>4, <2>1, <2>2
<1>7. Entries' = Append(Entries, [val |-> val[t], ready |-> FALSE])
  <2> DEFINE e == [val |-> val[t], ready |-> FALSE]
             longer == Append(Entries, e)
  <2>1. e \in EntryType /\ NextEntry(writeIdx) = e
    <3>1. commit[SlotOf(writeIdx)] # writeIdx
      <4>1. SlotOf(writeIdx) \in Slot /\ writeIdx \in Index
        BY <1>1, Ranges DEF Basics, TypeOK, SharedTypes
      <4> QED BY <1>1, <4>1, AtomicAssumption DEF Safe, Statuses
    <3> QED BY <1>2, <1>4, <3>1 DEF EntryType, NextEntry
  <2> HIDE DEF e
  <2>2. /\ longer \in Seq(EntryType) /\ Len(longer) = (writeIdx - readIdx) + 1
        /\ \A k \in 1 .. writeIdx - readIdx : longer[k] = Entries[k]
        /\ longer[(writeIdx - readIdx) + 1] = e
    BY <2>1, EntriesAre, AppendProperties
  <2>3. Len(Entries') = (writeIdx - readIdx) + 1 /\ Entries' \in Seq(EntryType)
    <3>1. Len(Entries') = writeIdx' - readIdx' /\ Entries' \in Seq(EntryType)
      BY NextEntriesAre
    <3> QED BY <1>1, <1>2, <3>1
  <2>4. ASSUME NEW k \in 1 .. (writeIdx - readIdx) + 1
        PROVE  Entries'[k] = longer[k]
    <3>1. Entries'[k] = NextEntry(readIdx + k - 1)
      <4>1. \A n \in 1 .. writeIdx' - readIdx' : Entries'[n] = NextEntry(readIdx' + n - 1)
        BY NextEntriesAre
      <4>2. readIdx' = readIdx
        BY <1>1, <1>2
      <4>3. k \in 1 .. writeIdx' - readIdx'
        BY <1>1, <1>2, <4>2
      <4> HIDE DEF longer
      <4> QED BY <4>1, <4>2, <4>3
    <3>2. CASE k \in 1 .. writeIdx - readIdx
      <4>1. readIdx + k - 1 \in readIdx .. writeIdx - 1
        BY <1>1, <3>2
      <4> QED BY <1>3, <2>2, <3>1, <3>2, <4>1, EntriesAre, EntriesStay
    <3>3. CASE k = (writeIdx - readIdx) + 1
      <4>1. readIdx + k - 1 = writeIdx
        BY <1>1, <3>3
      <4> QED BY <2>1, <2>2, <3>1, <3>3, <4>1
    <3>4. \A n \in Nat : \A j \in 1 .. n + 1 : j \in 1 .. n \/ j = n + 1
      OBVIOUS
    <3> QED BY <3>2, <3>3, <3>4, EntriesAre
  <2> HIDE DEF longer
  <2>5. Entries' = longer
    BY <2>2, <2>3, <2>4, SeqEqual
  <2> QED BY <2>5 DEF longer, e
<1> QED BY <1>3, <1>4, <1>5, <1>6, <1>7 DEF Queue!Reserve

\* The store of the commit status publishes the entry of the reserved index.
LEMMA CommitPublishes ==
    ASSUME Disciplined, Safe, NEW t \in Thread, Step(t), PushCommit(t)
    PROVE  Queue!Publish(wr[t] - readIdx + 1) /\ wr[t] - readIdx + 1 \in 1 .. Len(Entries)
<1> DEFINE k == wr[t] - readIdx + 1
<1>1. /\ Basics /\ SharedTypes /\ pc[t] = "push_commit"
      /\ commit' = [commit EXCEPT ![SlotOf(wr[t])] = wr[t]]
      /\ UNCHANGED <<writeIdx, readIdx, log, delivered>>
      /\ \A i \in Int : SlotOf(i) \in Slot
  BY Ranges DEF PushCommit, CommitMark, Safe, Basics, TypeOK
<1>2. /\ readIdx <= wr[t] /\ wr[t] < writeIdx /\ CommitStatus(wr[t]) # wr[t]
      /\ writeIdx \in Nat /\ readIdx \in Nat /\ wr[t] \in Nat
  BY <1>1, Ranges DEF Safe, Reservations, Reserved
<1>3. k \in 1 .. writeIdx - readIdx /\ readIdx + k - 1 = wr[t]
  BY <1>2
<1> HIDE DEF k
<1>4. k \in Nat /\ k \in 1 .. Len(Entries)
  BY <1>3, EntriesAre
<1>5. Entries[k] = [val |-> Elem(wr[t]), ready |-> FALSE]
  <2>1. Entries[k] = Entry(wr[t])
    BY <1>3, EntriesAre
  <2>2. (CommitStatus(wr[t]) = wr[t]) = FALSE
    BY <1>2
  <2> QED BY <2>1, <2>2 DEF Entry
<1> DEFINE e == [val |-> Elem(wr[t]), ready |-> TRUE]
           published == [Entries EXCEPT ![k] = e]
<1>6. NextEntry(wr[t]) = e /\ e \in EntryType
  <2>1. commit'[SlotOf(wr[t])] = wr[t]
    BY <1>1, <1>2 DEF SharedTypes
  <2>2. wr[t] \in 0 .. writeIdx - 1
    BY <1>2
  <2> QED BY <1>1, <2>1, <2>2, Ranges DEF NextEntry, Elem, EntryType, Safe
<1> HIDE DEF e
<1>7. /\ published \in Seq(EntryType) /\ Len(published) = writeIdx - readIdx
      /\ \A j \in 1 .. writeIdx - readIdx : published[j] = IF j = k THEN e ELSE Entries[j]
  BY <1>4, <1>6, EntriesAre, ExceptSeq
<1>8. Entries' \in Seq(EntryType) /\ Len(Entries') = writeIdx - readIdx
  BY <1>1, NextEntriesAre
<1>9. ASSUME NEW j \in 1 .. writeIdx - readIdx PROVE Entries'[j] = published[j]
  <2>1. Entries'[j] = NextEntry(readIdx + j - 1)
    BY <1>1, NextEntriesAre
  <2>2. CASE j = k
    BY <1>3, <1>6, <1>7, <2>1, <2>2
  <2>3. CASE j # k
    <3>1. readIdx + j - 1 \in readIdx .. writeIdx - 1 /\ readIdx + j - 1 # wr[t]
      <4>1. \A r, i, h, w \in Int : i \in 1 .. w - r /\ i # h =>
              r + i - 1 \in r .. w - 1 /\ r + i - 1 # r + h - 1
        OBVIOUS
      <4>2. readIdx \in Int /\ j \in Int /\ k \in Int /\ writeIdx \in Int
        BY <1>2, <1>4
      <4> QED BY <1>3, <2>3, <4>1, <4>2
    <3> QED BY <1>7, <2>1, <2>3, <3>1, EntriesAre, EntriesStay
  <2> QED BY <2>2, <2>3
<1> HIDE DEF published
<1>10. Entries' = published
  BY <1>7, <1>8, <1>9, SeqEqual
<1>11. [Entries EXCEPT ![k].ready = TRUE] = published
  <2>1. [Entries[k] EXCEPT !.ready = TRUE] = e
    <3> DEFINE r == Entries[k]
               q == [r EXCEPT !.ready = TRUE]
    <3>1. r \in EntryType /\ r.val = Elem(wr[t])
      BY <1>4, <1>5, EntriesAre, ElementOfSeq
    <3> HIDE DEF r
    <3>2. q \in EntryType /\ q.val = r.val /\ q.ready = TRUE
      BY <3>1 DEF EntryType
    <3> HIDE DEF q
    <3>3. e \in EntryType /\ e.val = Elem(wr[t]) /\ e.ready = TRUE
      BY <1>6 DEF e
    <3>4. \A x, y \in EntryType : x.val = y.val /\ x.ready = y.ready => x = y
      BY DEF EntryType
    <3>5. q = e
      BY <3>1, <3>2, <3>3, <3>4
    <3> QED BY <3>5 DEF q, r
  <2> QED BY <2>1 DEF published
<1>12. Queue!Publish(k)
  BY <1>1, <1>4, <1>5, <1>10, <1>11 DEF Queue!Publish
<1> QED BY <1>4, <1>12 DEF k

\* read_idx moves past the front entry.
LEMMA AdvanceRemoves ==
    ASSUME Disciplined, Safe, NEW t \in Thread, Step(t),
           readIdx' = readIdx + 1, ~Reserves(t), ~PushCommit(t)
    PROVE  /\ Entries # << >> /\ Entries' = Tail(Entries)
           /\ Head(Entries) = Entry(readIdx)
<1>1. /\ writeIdx' = writeIdx /\ writeIdx \in Nat /\ readIdx \in Nat
      /\ readIdx + 1 <= writeIdx
  BY LogStep, ReadStep, Ranges DEF Safe
<1> DEFINE n == writeIdx - readIdx
<1>2. /\ n \in Nat /\ n >= 1 /\ readIdx + 1 - 1 = readIdx
  BY <1>1
<1>3. /\ Entries \in Seq(EntryType) /\ Len(Entries) = n
      /\ \A k \in 1 .. n : Entries[k] = Entry(readIdx + k - 1)
                           /\ readIdx + k - 1 \in readIdx .. writeIdx - 1
  BY EntriesAre
<1>4. /\ Entries' \in Seq(EntryType) /\ Len(Entries') = n - 1
      /\ \A k \in 1 .. n - 1 : Entries'[k] = NextEntry(readIdx + k)
  <2>1. \A r, w \in Nat : /\ w - (r + 1) = (w - r) - 1
                          /\ \A k \in Nat : (r + 1) + k - 1 = r + k
    OBVIOUS
  <2>2. Entries' \in Seq(EntryType) /\ Len(Entries') = writeIdx - (readIdx + 1)
        /\ \A k \in 1 .. writeIdx - (readIdx + 1) : Entries'[k] = NextEntry((readIdx + 1) + k - 1)
    BY <1>1, NextEntriesAre
  <2> QED BY <1>1, <2>1, <2>2
<1> HIDE DEF n
<1>5. Entries # << >>
  BY <1>2, <1>3, EmptySeq
<1>6. /\ Tail(Entries) \in Seq(EntryType) /\ Len(Tail(Entries)) = n - 1
      /\ \A k \in 1 .. n - 1 : Tail(Entries)[k] = Entries[k + 1]
  BY <1>3, <1>5, HeadTailProperties
<1>7. ASSUME NEW k \in 1 .. n - 1 PROVE Entries'[k] = Tail(Entries)[k]
  <2>1. k + 1 \in 1 .. n /\ readIdx + (k + 1) - 1 = readIdx + k
    BY <1>1, <1>2
  <2>2. Entries[k + 1] = Entry(readIdx + k) /\ readIdx + k \in readIdx .. writeIdx - 1
    BY <1>3, <2>1
  <2> QED BY <1>4, <1>6, <2>2, EntriesStay
<1>8. Entries' = Tail(Entries)
  BY <1>4, <1>6, <1>7, SeqEqual
<1>9. Head(Entries) = Entry(readIdx)
  <2>1. 1 \in 1 .. n
    BY <1>2
  <2>2. Head(Entries) = Entries[1]
    BY <1>3, <1>5
  <2> QED BY <1>2, <1>3, <2>1, <2>2
<1> QED BY <1>5, <1>8, <1>9

LEMMA PopTakes ==
    ASSUME Disciplined, Safe, NEW t \in Thread, Step(t), PopTake(t)
    PROVE  Queue!Take
<1>1. /\ rd[t] = readIdx /\ readIdx' = readIdx + 1 /\ pc[t] = "pop_cas"
      /\ delivered' = Append(delivered, IdOf(tmp[t]))
      /\ ~Reserves(t) /\ ~PushCommit(t)
  BY ReadStep DEF PopTake, PushCommit, Reserves, PushReserve, OverwriteReserve
<1>2. CommitStatus(readIdx) = readIdx /\ IdOf(tmp[t]) = Elem(readIdx)
  BY <1>1 DEF Safe, Popping
<1>3. Head(Entries) = [val |-> Elem(readIdx), ready |-> TRUE]
  BY <1>1, <1>2, AdvanceRemoves DEF Entry
<1> QED BY <1>1, <1>2, <1>3, AdvanceRemoves DEF Queue!Take

LEMMA OverwriteEvicts ==
    ASSUME Disciplined, Safe, NEW t \in Thread, Step(t), OverwriteAdvance(t), readIdx' # readIdx
    PROVE  Queue!Evict
<1>1. /\ rd[t] = readIdx /\ readIdx' = readIdx + 1 /\ pc[t] = "ow_advance"
      /\ delivered' = delivered
      /\ ~Reserves(t) /\ ~PushCommit(t)
  BY ReadStep DEF OverwriteAdvance, PushCommit, Reserves, PushReserve, OverwriteReserve,
                  Safe, Roles, ghosts
<1>2. Len(Entries) > Capacity
  <2>1. rd[t] + Capacity = wr[t] /\ wr[t] < writeIdx
    BY <1>1 DEF Safe, Window, Reservations, Reserved
  <2>2. /\ writeIdx \in Nat /\ readIdx \in Nat /\ Capacity \in Nat
    BY Ranges DEF Safe
  <2>3. writeIdx - readIdx > Capacity
    BY <1>1, <2>1, <2>2
  <2> QED BY <2>3, EntriesAre
<1> QED BY <1>1, <1>2, AdvanceRemoves DEF Queue!Evict

LEMMA ClearEmpties ==
    ASSUME Disciplined, Safe, NEW t \in Thread, Step(t), ClearStoreRead(t)
    PROVE  Queue!Clear
<1>1. readIdx' = writeIdx /\ writeIdx' = writeIdx /\ delivered' = delivered
  BY ReadStep DEF ClearStoreRead
<1>2. Entries' \in Seq(EntryType) /\ Len(Entries') = 0
  <2>1. writeIdx \in Int
    BY Ranges DEF Safe
  <2> QED BY <1>1, <2>1, NextEntriesAre
<1>3. Entries' = << >>
  BY <1>2, EmptySeq
<1> QED BY <1>1, <1>3 DEF Queue!Clear

\* The other steps are invisible.
LEMMA OthersStutter ==
    ASSUME Disciplined, Safe, NEW t \in Thread, Step(t),
           ~Reserves(t), ~PushCommit(t), ~PopTake(t), readIdx' = readIdx
    PROVE  UNCHANGED <<Entries, delivered>>
<1>1. writeIdx' = writeIdx /\ delivered' = delivered
  BY Frames
<1>2. /\ Entries \in Seq(EntryType) /\ Len(Entries) = writeIdx - readIdx
      /\ Entries' \in Seq(EntryType) /\ Len(Entries') = writeIdx - readIdx
  BY <1>1, EntriesAre, NextEntriesAre
<1>3. ASSUME NEW k \in 1 .. writeIdx - readIdx PROVE Entries'[k] = Entries[k]
  BY <1>1, EntriesAre, NextEntriesAre, EntriesStay
<1>4. Entries' = Entries
  BY <1>2, <1>3, SeqEqual
<1> QED BY <1>1, <1>4

\* A disciplined buffer is a FIFO queue of entries, reserved at the back, published in any
\* order, and taken from the front only when published, for every number of threads,
\* every capacity and either mode: no interleaving of the accesses of a push, a pop and a
\* clear shows.
THEOREM Refinement == Disciplined => (Spec => ImplementsAtomicQueue)
<1> SUFFICES ASSUME Disciplined PROVE Spec => ImplementsAtomicQueue
  OBVIOUS
<1>1. Init => Queue!Init
  <2> SUFFICES ASSUME Init PROVE Queue!Init
    OBVIOUS
  <2>1. Entries \in Seq(EntryType) /\ Len(Entries) = 0
    BY SafeInit, EntriesAre DEF Init
  <2>2. Entries = << >>
    BY <2>1, EmptySeq
  <2> QED BY <2>2 DEF Init, Queue!Init
<1>2. Safe /\ [Next]_vars => [Queue!Next]_<<Entries, delivered>>
  <2> SUFFICES ASSUME Safe, [Next]_vars
               PROVE  Queue!Next \/ UNCHANGED <<Entries, delivered>>
    OBVIOUS
  <2>1. CASE UNCHANGED vars
    BY <2>1 DEF Entries, Entry, Elem, CommitStatus, vars, shared, ghosts
  <2>2. CASE Next
    <3>1. PICK t \in Thread : Step(t)
      BY <2>2 DEF Next, Step
    <3>2. CASE Reserves(t)
      BY <3>1, <3>2, ReserveAppends DEF Queue!Next
    <3>3. CASE PushCommit(t)
      BY <3>1, <3>3, CommitPublishes DEF Queue!Next
    <3>4. CASE PopTake(t)
      BY <3>1, <3>4, PopTakes DEF Queue!Next
    <3>5. CASE ClearStoreRead(t)
      BY <3>1, <3>5, ClearEmpties DEF Queue!Next
    <3>6. CASE OverwriteAdvance(t) /\ readIdx' # readIdx
      BY <3>1, <3>6, OverwriteEvicts DEF Queue!Next
    <3>7. CASE /\ ~Reserves(t) /\ ~PushCommit(t) /\ ~PopTake(t) /\ ~ClearStoreRead(t)
               /\ ~(OverwriteAdvance(t) /\ readIdx' # readIdx)
      <4>1. readIdx' = readIdx
        BY <3>1, <3>7, Frames DEF Takes
      <4> QED BY <3>1, <3>7, <4>1, OthersStutter
    <3> QED BY <3>2, <3>3, <3>4, <3>5, <3>6, <3>7
  <2> QED BY <2>1, <2>2
<1> QED BY <1>1, <1>2, SafeAlways, PTL DEF Spec, ImplementsAtomicQueue, Queue!Spec
=============================================================================
