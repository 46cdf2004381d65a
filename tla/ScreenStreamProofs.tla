------------------------- MODULE ScreenStreamProofs -------------------------
(***************************************************************************)
(* Proofs about ScreenStream, for any clients, rows, versions and channel  *)
(* capacity: no wakeup is lost, and quiet screens agree.                   *)
(***************************************************************************)
EXTENDS ScreenStream, SequenceTheorems, TLAPS

(* The update that has no parts is one.                                    *)
LEMMA NoUpdateType == NoUpdate \in Update
BY DEF NoUpdate, Update

(* What is read of the screen is an update.                                *)
LEMMA ReadType ==
  ASSUME screen \in Screen, NEW parts \in SUBSET Part
  PROVE  [p \in parts |-> screen[p]] \in Update
<1>1. [p \in parts |-> screen[p]] \in [parts -> Version \cup {Cut}]
  BY DEF Screen
<1> QED
  BY <1>1 DEF Update

-----------------------------------------------------------------------------
(* What a queue is after a push: its length, and where its entries are.    *)
LEMMA PushProperties ==
  ASSUME NEW c \in Client, queue[c] \in Seq(Update), update \in Update,
         Len(queue[c]) <= Capacity
  PROVE  /\ Push(c) \in Seq(Update)
         /\ Len(queue[c]) < Capacity =>
              /\ Len(Push(c)) = Len(queue[c]) + 1
              /\ \A i \in 1 .. Len(queue[c]) : Push(c)[i] = queue[c][i]
         /\ Len(queue[c]) = Capacity =>
              /\ Len(Push(c)) = Len(queue[c])
              /\ \A i \in 1 .. Len(queue[c]) - 1 : Push(c)[i] = queue[c][i + 1]
         /\ Len(Push(c)) \in 1 .. Capacity
         /\ Push(c)[Len(Push(c))] = update
<1> DEFINE q == queue[c]
<1>0. Len(q) \in Nat /\ Capacity \in Nat \ {0}
  BY CapacityAssumption, LenProperties
<1>1. CASE Len(q) < Capacity
  <2>1. Push(c) = Append(q, update)
    BY <1>1 DEF Push
  <2> QED
    BY <1>0, <1>1, <2>1, AppendProperties
<1>2. CASE Len(q) = Capacity
  <2>1. Push(c) = Append(Tail(q), update)
    BY <1>0, <1>2 DEF Push
  <2>2. q # <<>>
    BY <1>0, <1>2, EmptySeq
  <2>3. /\ Tail(q) \in Seq(Update)
        /\ Len(Tail(q)) = Len(q) - 1
        /\ \A i \in 1 .. Len(Tail(q)) : Tail(q)[i] = q[i + 1]
    BY <2>2, HeadTailProperties
  <2>4. /\ Push(c) \in Seq(Update)
        /\ Len(Push(c)) = Len(Tail(q)) + 1
        /\ \A i \in 1 .. Len(Tail(q)) : Push(c)[i] = Tail(q)[i]
        /\ Push(c)[Len(Tail(q)) + 1] = update
    BY <2>1, <2>3, AppendProperties
  <2> QED
    BY <1>0, <1>2, <2>3, <2>4
<1> QED
  BY <1>0, <1>1, <1>2

(* What a client misses are parts.                                         *)
LEMMA MissesType ==
  ASSUME missed \in [Client -> SUBSET Part], NEW parts \in SUBSET Part, Misses(parts)
  PROVE  missed' \in [Client -> SUBSET Part]
  BY DEF Misses

(* A change leaves every part with a version.                              *)
LEMMA ChangeType ==
  ASSUME screen \in Screen, version \in Version, NEW parts, Change(parts)
  PROVE  screen' \in Screen /\ version' \in Version
<1>1. version + 1 \in Version
  BY MaxVersionAssumption DEF Change, Version
<1> QED
  BY <1>1 DEF Change, Screen

(* Every step keeps the types.                                             *)
LEMMA Typing == TypeOK /\ [Next]_vars => TypeOK'
<1> SUFFICES ASSUME TypeOK, [Next]_vars PROVE TypeOK'
  OBVIOUS
<1> USE CapacityAssumption, MaxVersionAssumption, NoUpdateType
<1>1. CASE ProcessOutput
  <2>1. PICK parts \in Chunk :
          /\ Change(parts)
          /\ damage' \in {damage, damage \cup parts} /\ fullDamage' \in {TRUE, fullDamage}
    BY <1>1 DEF ProcessOutput
  <2>2. parts \subseteq Row \cup {Cursor}
    BY ChunkAssumption
  <2>3. screen' \in Screen /\ version' \in Version
    BY <2>1, ChangeType DEF TypeOK
  <2>4. damage' \subseteq Row \cup {Cursor} /\ fullDamage' \in BOOLEAN
    BY <2>1, <2>2 DEF TypeOK
  <2> QED
    BY <1>1, <2>3, <2>4 DEF TypeOK, ProcessOutput
<1>2. CASE MarkDirty
  BY <1>2 DEF TypeOK, MarkDirty
<1>3. CASE Tick
  <2>1. Damaged \subseteq Part
    BY DEF TypeOK, Damaged, Part, Header
  <2>2. missed' = missed \/ missed' \in [Client -> SUBSET Part]
    BY <1>3, <2>1, MissesType DEF Tick, TypeOK
  <2> QED
    BY <1>3, <2>1, <2>2 DEF TypeOK, Tick
<1>4. CASE Collect
  <2>1. [p \in Header |-> screen[p]] \in Update
    BY ReadType DEF TypeOK, Part
  <2>2. ASSUME NEW row \in Row
        PROVE  [p \in damage \cup {row, Cursor} |-> screen[p]] \in Update
    <3>1. damage \cup {row, Cursor} \in SUBSET Part
      BY DEF TypeOK, Part, Header
    <3> QED
      BY <3>1, ReadType DEF TypeOK
  <2> QED
    BY <1>4, <2>1, <2>2 DEF TypeOK, Collect
<1>5. CASE Redraw
  <2>1. PICK cut \in SUBSET Row :
          update' = [p \in Part |-> IF p \in Header THEN update[p]
                                   ELSE IF p \in cut THEN Cut
                                   ELSE screen[p]]
    BY <1>5 DEF Redraw
  <2>2. \A p \in Header : update[p] \in Version \cup {Cut}
    <3>1. PICK parts \in SUBSET Part : update \in [parts -> Version \cup {Cut}]
      BY DEF TypeOK, Update
    <3>2. parts = Header
      BY <1>5, <3>1 DEF TypeOK, Redraw
    <3> QED
      BY <3>1, <3>2
  <2>3. update' \in [Part -> Version \cup {Cut}]
    BY <2>1, <2>2 DEF TypeOK, Screen
  <2>4. update' \in Update
    BY <2>3 DEF Update
  <2> QED
    BY <1>5, <2>4 DEF TypeOK, Redraw
<1>6. CASE Send
  <2>1. \A c \in Client : Push(c) \in Seq(Update) /\ Len(Push(c)) <= Capacity
    <3> TAKE c \in Client
    <3>1. queue[c] \in Seq(Update) /\ update \in Update /\ Len(queue[c]) <= Capacity
      BY DEF TypeOK
    <3>2. Push(c) \in Seq(Update) /\ Len(Push(c)) \in 1 .. Capacity
      BY <3>1, PushProperties
    <3> QED
      BY <3>2
  <2>2. queue' \in [Client -> Seq(Update)] /\ \A c \in Client : Len(queue'[c]) <= Capacity
    BY <1>6, <2>1 DEF TypeOK, Send
  <2>3. DOMAIN update \subseteq Part
    BY DEF TypeOK, Update
  <2>4. missed' \in [Client -> SUBSET Part]
    BY <1>6, <2>3, MissesType DEF TypeOK, Send
  <2>5. outdated' \subseteq Part
    BY <1>6, <2>3 DEF TypeOK, Send
  <2> QED
    BY <1>6, <2>2, <2>4, <2>5 DEF TypeOK, Send, Receivers
<1>7. CASE Stop
  BY <1>7 DEF TypeOK, Stop
<1>8. CASE Resize
  BY <1>8, ChangeType DEF TypeOK, Resize
<1>9. ASSUME NEW c \in Client, TakeSnapshot(c) PROVE TypeOK'
  <2>1. screen' \in Screen /\ version' \in Version
    BY <1>9, ChangeType DEF TypeOK, TakeSnapshot
  <2>2. screen' \in Shown
    BY <2>1 DEF Screen, Shown
  <2> QED
    BY <1>9, <2>1, <2>2 DEF TypeOK, TakeSnapshot
<1>10. ASSUME NEW c \in Client, Subscribe(c) PROVE TypeOK'
  <2>1. <<>> \in Seq(Update) /\ Len(<<>>) = 0
    BY EmptySeq
  <2> QED
    BY <1>10, <2>1 DEF TypeOK, Subscribe
<1>11. ASSUME NEW c \in Client, Forward(c) PROVE TypeOK'
  <2>1. queue[c] \in Seq(Update) /\ queue[c] # <<>>
    BY <1>11 DEF TypeOK, Forward
  <2>2. /\ Head(queue[c]) \in Update
        /\ Tail(queue[c]) \in Seq(Update)
        /\ Len(Tail(queue[c])) = Len(queue[c]) - 1
        /\ Len(queue[c]) \in Nat
    BY <2>1, HeadTailProperties, LenProperties
  <2>3. PICK parts \in SUBSET Part : Head(queue[c]) \in [parts -> Version \cup {Cut}]
    BY <2>2 DEF Update
  <2>4. view' \in [Client -> Shown]
    BY <1>11, <2>3 DEF TypeOK, Forward, Shown
  <2>5. queue' \in [Client -> Seq(Update)] /\ \A d \in Client : Len(queue'[d]) <= Capacity
    BY <1>11, <2>2 DEF TypeOK, Forward
  <2> QED
    BY <1>11, <2>4, <2>5 DEF TypeOK, Forward
<1>12. ASSUME NEW c \in Client, Resync(c) PROVE TypeOK'
  <2>1. screen \in Shown
    BY DEF TypeOK, Screen, Shown
  <2> QED
    BY <1>12, <2>1 DEF TypeOK, Resync
<1>13. ASSUME NEW c \in Client, Leave(c) PROVE TypeOK'
  <2>1. <<>> \in Seq(Update) /\ Len(<<>>) = 0
    BY EmptySeq
  <2> QED
    BY <1>13, <2>1 DEF TypeOK, Leave, Shown, Version
<1>14. CASE UNCHANGED vars
  BY <1>14 DEF TypeOK, vars
<1> QED
  BY <1>1, <1>2, <1>3, <1>4, <1>5, <1>6, <1>7, <1>8, <1>9, <1>10, <1>11,
     <1>12, <1>13, <1>14 DEF Next, BroadcasterStep, ForwarderStep

(* The stream starts with its types.                                       *)
LEMMA InitTyped == Init => TypeOK
<1> SUFFICES ASSUME Init PROVE TypeOK
  OBVIOUS
<1>1. <<>> \in Seq(Update) /\ Len(<<>>) = 0
  BY EmptySeq
<1>2. 0 \in Version /\ 0 <= Capacity
  BY CapacityAssumption, MaxVersionAssumption DEF Version
<1>3. screen \in Screen /\ view \in [Client -> Shown]
  BY <1>2 DEF Init, Screen, Shown
<1>4. queue \in [Client -> Seq(Update)] /\ \A c \in Client : Len(queue[c]) <= Capacity
  BY <1>1, <1>2 DEF Init
<1> QED
  BY <1>2, <1>3, <1>4, NoUpdateType DEF Init, TypeOK, Part, Header

(* Types of the stream, for any clients, rows and bounds: each queue stays *)
(* within the channel's capacity (TypeOK).                                 *)
THEOREM StreamTyped == Spec => []TypeOK
BY InitTyped, Typing, PTL DEF Spec

-----------------------------------------------------------------------------
(* DamageIsSignalled says nothing while a tick is under way.  The damage   *)
(* that no flag announces is reset by the tick that is about to collect,   *)
(* or let pass before.                                                     *)
SignalKept ==
  dirty \/ unmarked \/ broadcaster = "collect" \/ Damaged \subseteq unsignalled

(* Every step leaves the damage signalled, unless it is in the history.    *)
LEMMA SignalSteps == SignalKept /\ [Next]_vars => SignalKept'
<1> SUFFICES ASSUME SignalKept, [Next]_vars PROVE SignalKept'
  OBVIOUS
<1> USE DEF SignalKept, Damaged
<1>1. CASE ProcessOutput \/ MarkDirty \/ Resize
  BY <1>1 DEF ProcessOutput, MarkDirty, Resize, Change
<1>2. CASE Tick
  BY <1>2 DEF Tick
<1>3. CASE Collect
  BY <1>3 DEF Collect
<1>4. CASE Redraw \/ Send \/ Stop
  BY <1>4 DEF Redraw, Send, Stop
<1>5. ASSUME NEW c \in Client, TakeSnapshot(c) PROVE SignalKept'
  BY <1>5 DEF TakeSnapshot
<1>6. ASSUME NEW c \in Client, Subscribe(c) \/ ForwarderStep(c) \/ Leave(c)
      PROVE  SignalKept'
  BY <1>6 DEF Subscribe, ForwarderStep, Forward, Resync, Leave
<1>7. CASE UNCHANGED vars
  BY <1>7 DEF vars
<1> QED
  BY <1>1, <1>2, <1>3, <1>4, <1>5, <1>6, <1>7 DEF Next, BroadcasterStep

(* So it always is.                                                        *)
LEMMA SignalAlways == Spec => []SignalKept
<1>1. Init => SignalKept
  BY DEF Init, SignalKept, Damaged
<1> QED
  BY <1>1, SignalSteps, PTL DEF Spec

(* No wakeup is lost between the byte processor's flag and the damage the  *)
(* broadcaster resets, for any screen and any clients (DamageIsSignalled). *)
THEOREM NoWakeupLost == Spec => []DamageIsSignalled
<1>1. SignalKept => DamageIsSignalled
  BY DEF SignalKept, DamageIsSignalled
<1> QED
  BY <1>1, SignalAlways, PTL

-----------------------------------------------------------------------------
(* The broadcaster will look at the damage, or has ended and never will.   *)
Announced == unmarked \/ dirty \/ broadcaster \in {"collect", "stopped"}

(* A part a client's view, or the last update queued for it, has stale will *)
(* be sent again: it is damaged, which is announced unless the part was    *)
(* sent out of date, or it is in the update about to be sent.              *)
Owed(p) ==
  \/ p \in Damaged /\ (Announced \/ p \in outdated)
  \/ broadcaster = "redraw"
  \/ broadcaster = "send" /\ p \in DOMAIN update

Settled(v, p) == v = screen[p] \/ Owed(p)

(* What is read of an update is as the screen is, or damaged since: also   *)
(* the header of a redraw, that a resize between its two readings changes. *)
UpdateIsFresh ==
  broadcaster \in {"redraw", "send"} =>
    \A p \in DOMAIN update : update[p] = screen[p] \/ p \in Damaged

(* The i-th update of c's queue is the last to change part p.              *)
IsLast(c, i, p) ==
  /\ p \in DOMAIN queue[c][i]
  /\ \A j \in i + 1 .. Len(queue[c]) : p \notin DOMAIN queue[c][j]

Unqueued(c, p) == \A i \in 1 .. Len(queue[c]) : p \notin DOMAIN queue[c][i]

(* However old the updates before it, the last one settles the part.       *)
QueueSettles ==
  \A c \in Client, p \in Part : \A i \in 1 .. Len(queue[c]) :
    IsLast(c, i, p) => Settled(queue[c][i][p], p)

(* A part nothing is queued for is settled in the view already, unless it  *)
(* was missed in the attach, or an update of it was lost: the client is    *)
(* then about to be resynchronised.                                        *)
ViewSettles ==
  \A c \in Client, p \in Part :
    attach[c] # "out" /\ c \notin lagged /\ Unqueued(c, p) =>
      Settled(view[c][p], p) \/ p \in missed[c]

OnlyReceiversQueue ==
  \A c \in Client : attach[c] # "in" => queue[c] = <<>> /\ c \notin lagged

StreamInv ==
  TypeOK /\ UpdateIsFresh /\ QueueSettles /\ ViewSettles /\ OnlyReceiversQueue

-----------------------------------------------------------------------------
(* A step leaves a settled part of an attached client settled, unless it   *)
(* sends the part's update, which takes the debt over, or is a tick that   *)
(* may let the damage pass while the client is in its gap.                 *)
LEMMA SettledStays ==
  ASSUME TypeOK, [Next]_vars, NEW p \in Part, NEW v, NEW c \in Client,
         v = screen[p] \/ Owed(p), ~ (Send /\ p \in DOMAIN update),
         attach[c] # "out", Tick => attach[c] = "in"
  PROVE  v = screen'[p] \/ Owed(p)'
<1> USE DEF Owed, Damaged, Announced
<1>0. /\ screen \in [Part -> Version] /\ damage \subseteq Part
      /\ fullDamage \in BOOLEAN
  BY DEF TypeOK, Screen, Part, Header
<1>1. CASE ProcessOutput
  BY <1>0, <1>1 DEF ProcessOutput, Change
<1>2. CASE MarkDirty \/ Stop
  BY <1>2 DEF MarkDirty, Stop
<1>9. CASE Tick
  BY <1>9 DEF Tick, Receivers
<1>3. CASE Collect
  BY <1>0, <1>3 DEF Collect
<1>4. CASE Redraw
  BY <1>0, <1>4 DEF Redraw
<1>5. CASE Send
  BY <1>5 DEF Send
<1>6. CASE Resize
  BY <1>0, <1>6 DEF Resize, Change
<1>7. ASSUME NEW d \in Client, TakeSnapshot(d)
      PROVE  v = screen'[p] \/ Owed(p)'
  BY <1>0, <1>7 DEF TakeSnapshot, Change
<1>8. ASSUME NEW d \in Client, Subscribe(d) \/ ForwarderStep(d) \/ Leave(d)
      PROVE  v = screen'[p] \/ Owed(p)'
  BY <1>8 DEF Subscribe, ForwarderStep, Forward, Resync, Leave
<1>10. CASE UNCHANGED vars
  BY <1>10 DEF vars
<1> QED
  BY <1>1, <1>2, <1>3, <1>4, <1>5, <1>6, <1>7, <1>8, <1>9, <1>10
  DEF Next, BroadcasterStep

(* An update that is read stays as fresh as the flag and the damage say.   *)
LEMMA FreshSteps == TypeOK /\ UpdateIsFresh /\ [Next]_vars => UpdateIsFresh'
<1> SUFFICES ASSUME TypeOK, UpdateIsFresh, [Next]_vars PROVE UpdateIsFresh'
  OBVIOUS
<1> USE DEF UpdateIsFresh, Damaged
<1>0. /\ screen \in [Part -> Version] /\ damage \subseteq Row \cup {Cursor}
      /\ fullDamage \in BOOLEAN
      /\ \A p \in DOMAIN update : p \in Part
  BY DEF TypeOK, Screen, Update
<1>1. CASE ProcessOutput
  BY <1>0, <1>1 DEF ProcessOutput, Change
<1>2. CASE MarkDirty \/ Stop \/ Tick
  BY <1>2 DEF MarkDirty, Stop, Tick
<1>3. CASE Collect
  BY <1>0, <1>3 DEF Collect
<1>4. CASE Redraw
  <2>1. /\ broadcaster = "redraw"
        /\ UNCHANGED <<screen, damage, fullDamage>>
    BY <1>4 DEF Redraw
  <2>2. PICK cut \in SUBSET Row :
          /\ cut # {} => update[Size] # screen[Size]
          /\ update' = [p \in Part |-> IF p \in Header THEN update[p]
                                      ELSE IF p \in cut THEN Cut
                                      ELSE screen[p]]
    BY <1>4 DEF Redraw
  <2>3. \A p \in Header : update[p] = screen[p] \/ p \in Damaged
    BY <2>1 DEF TypeOK
  <2>4. cut # {} => fullDamage
    BY <1>0, <2>2, <2>3, HeaderAssumption DEF Header
  <2> QED
    BY <2>1, <2>2, <2>3, <2>4
<1>5. CASE Send
  BY <1>5 DEF Send
<1>6. CASE Resize
  BY <1>0, <1>6 DEF Resize, Change
<1>7. ASSUME NEW c \in Client, TakeSnapshot(c) PROVE UpdateIsFresh'
  BY <1>0, <1>7 DEF TakeSnapshot, Change
<1>8. ASSUME NEW c \in Client, Subscribe(c) \/ ForwarderStep(c) \/ Leave(c)
      PROVE  UpdateIsFresh'
  BY <1>8 DEF Subscribe, ForwarderStep, Forward, Resync, Leave
<1>9. CASE UNCHANGED vars
  BY <1>9 DEF vars
<1> QED
  BY <1>1, <1>2, <1>3, <1>4, <1>5, <1>6, <1>7, <1>8, <1>9
  DEF Next, BroadcasterStep

(* Only clients that are attached have anything in their queues.           *)
LEMMA ReceiverSteps ==
  TypeOK /\ OnlyReceiversQueue /\ [Next]_vars => OnlyReceiversQueue'
<1> SUFFICES ASSUME TypeOK, OnlyReceiversQueue, [Next]_vars
             PROVE  OnlyReceiversQueue'
  OBVIOUS
<1> USE DEF OnlyReceiversQueue
<1>0. attach \in [Client -> {"out", "gap", "in"}] /\ queue \in [Client -> Seq(Update)]
  BY DEF TypeOK
<1>1. CASE ProcessOutput \/ MarkDirty \/ Tick \/ Collect \/ Redraw \/ Stop \/ Resize
  BY <1>1 DEF ProcessOutput, MarkDirty, Tick, Collect, Redraw, Stop, Resize
<1>2. CASE Send
  BY <1>2 DEF Send, Receivers
<1>3. ASSUME NEW c \in Client, TakeSnapshot(c) PROVE OnlyReceiversQueue'
  BY <1>0, <1>3 DEF TakeSnapshot
<1>4. ASSUME NEW c \in Client, Subscribe(c) PROVE OnlyReceiversQueue'
  BY <1>0, <1>4 DEF Subscribe
<1>5. ASSUME NEW c \in Client, Forward(c) PROVE OnlyReceiversQueue'
  BY <1>0, <1>5 DEF Forward
<1>6. ASSUME NEW c \in Client, Resync(c) PROVE OnlyReceiversQueue'
  BY <1>0, <1>6 DEF Resync
<1>7. ASSUME NEW c \in Client, Leave(c) PROVE OnlyReceiversQueue'
  BY <1>0, <1>7 DEF Leave
<1>8. CASE UNCHANGED vars
  BY <1>8 DEF vars
<1> QED
  BY <1>1, <1>2, <1>3, <1>4, <1>5, <1>6, <1>7, <1>8
  DEF Next, BroadcasterStep, ForwarderStep

(* The step that sends: an update queued last settles its parts; of the    *)
(* others nothing is lost that was last.                                   *)
LEMMA QueueSend ==
  ASSUME StreamInv, Send, [Next]_vars, NEW c \in Client, NEW p \in Part,
         NEW i \in 1 .. Len(queue'[c]), IsLast(c, i, p)'
  PROVE  queue'[c][i][p] = screen'[p] \/ Owed(p)'
<1> USE DEF StreamInv
<1>0. queue[c] \in Seq(Update) /\ update \in Update /\ Len(queue[c]) <= Capacity
  BY DEF TypeOK
<1>1. Len(queue[c]) \in Nat /\ Capacity \in Nat
  BY <1>0, LenProperties, CapacityAssumption
<1>2. CASE c \notin Receivers
  <2>1. queue'[c] = <<>>
    BY <1>2 DEF Send, OnlyReceiversQueue, Receivers
  <2> QED
    BY <2>1, EmptySeq
<1>3. CASE c \in Receivers
  <2>1. queue'[c] = Push(c)
    BY <1>3 DEF Send
  <2>2. Len(queue'[c]) \in 1 .. Capacity /\ queue'[c][Len(queue'[c])] = update
    BY <1>0, <2>1, PushProperties
  <2>3. /\ p \in DOMAIN queue'[c][i]
        /\ \A j \in i + 1 .. Len(queue'[c]) : p \notin DOMAIN queue'[c][j]
    BY DEF IsLast
  <2>4. CASE p \in DOMAIN update
    <3>1. i = Len(queue'[c])
      BY <1>1, <2>2, <2>3, <2>4
    <3>2. update[p] = screen[p] \/ p \in Damaged
      BY <2>4 DEF UpdateIsFresh, Send
    <3>3. /\ screen' = screen /\ Damaged' = Damaged
          /\ dirty' = dirty /\ unmarked' = unmarked
          /\ update[p] = screen[p] \/ dirty \/ unmarked \/ p \in outdated'
      BY <2>4 DEF Send, Damaged
    <3> QED
      BY <2>2, <3>1, <3>2, <3>3 DEF Owed, Announced
  <2>5. CASE p \notin DOMAIN update
    <3>1. i # Len(queue'[c])
      BY <2>2, <2>3, <2>5
    <3>2. PICK k \in 1 .. Len(queue[c]) : queue[c][k] = queue'[c][i] /\ IsLast(c, k, p)
      <4>1. CASE Len(queue[c]) < Capacity
        <5>1. /\ Len(queue'[c]) = Len(queue[c]) + 1
              /\ \A j \in 1 .. Len(queue[c]) : queue'[c][j] = queue[c][j]
          BY <1>0, <2>1, <4>1, PushProperties
        <5>2. i \in 1 .. Len(queue[c]) /\ queue[c][i] = queue'[c][i]
          BY <1>1, <3>1, <5>1
        <5>3. ASSUME NEW j \in i + 1 .. Len(queue[c]) PROVE p \notin DOMAIN queue[c][j]
          <6>1. j \in i + 1 .. Len(queue'[c]) /\ queue'[c][j] = queue[c][j]
            BY <1>1, <5>1, <5>2
          <6> QED
            BY <2>3, <6>1
        <5>4. IsLast(c, i, p)
          BY <2>3, <5>2, <5>3 DEF IsLast
        <5> QED
          BY <5>2, <5>4
      <4>2. CASE Len(queue[c]) = Capacity
        <5>1. /\ Len(queue'[c]) = Len(queue[c])
              /\ \A j \in 1 .. Len(queue[c]) - 1 : queue'[c][j] = queue[c][j + 1]
          BY <1>0, <2>1, <4>2, PushProperties
        <5>2. i + 1 \in 1 .. Len(queue[c]) /\ queue[c][i + 1] = queue'[c][i]
          BY <1>1, <3>1, <5>1
        <5>3. ASSUME NEW j \in i + 2 .. Len(queue[c]) PROVE p \notin DOMAIN queue[c][j]
          <6>1. j - 1 \in i + 1 .. Len(queue'[c]) /\ j - 1 \in 1 .. Len(queue[c]) - 1
            BY <1>1, <5>1
          <6>2. queue'[c][j - 1] = queue[c][j]
            BY <1>1, <5>1, <6>1
          <6> QED
            BY <2>3, <6>1, <6>2
        <5>4. IsLast(c, i + 1, p)
          BY <1>1, <2>3, <5>2, <5>3 DEF IsLast
        <5> QED
          BY <5>2, <5>4
      <4> QED
        BY <1>0, <1>1, <4>1, <4>2
    <3>3. queue[c][k][p] = screen[p] \/ Owed(p)
      BY <3>2 DEF QueueSettles, Settled
    <3>4. queue[c][k][p] = screen'[p] \/ Owed(p)'
      BY <1>3, <2>5, <3>3, SettledStays DEF Receivers
    <3> QED
      BY <3>2, <3>4
  <2> QED
    BY <2>4, <2>5
<1> QED
  BY <1>2, <1>3

(* Every other step leaves a queue, empties it or takes its head.          *)
LEMMA QueueSteps == StreamInv /\ [Next]_vars => QueueSettles'
<1> SUFFICES ASSUME StreamInv, [Next]_vars, NEW c \in Client, NEW p \in Part,
                    NEW i \in 1 .. Len(queue'[c]), IsLast(c, i, p)'
             PROVE  Settled(queue[c][i][p], p)'
  BY DEF QueueSettles
<1> SUFFICES queue'[c][i][p] = screen'[p] \/ Owed(p)'
  BY DEF Settled
<1> USE DEF StreamInv
<1>0. queue[c] \in Seq(Update) /\ queue \in [Client -> Seq(Update)]
  BY DEF TypeOK
<1>1. CASE Send
  BY <1>1, QueueSend
<1>2. CASE ~Send /\ queue'[c] = queue[c]
  <2>1. IsLast(c, i, p)
    BY <1>2 DEF IsLast
  <2>2. queue[c][i][p] = screen[p] \/ Owed(p)
    BY <1>2, <2>1 DEF QueueSettles, Settled
  <2>3. attach[c] = "in"
    BY <1>2, EmptySeq DEF OnlyReceiversQueue
  <2> QED
    BY <1>2, <2>2, <2>3, SettledStays
<1>3. CASE queue'[c] = <<>>
  BY <1>3, EmptySeq
<1>4. CASE Forward(c) /\ ~Send
  <2>1. queue[c] # <<>> /\ queue'[c] = Tail(queue[c])
    BY <1>0, <1>4 DEF Forward
  <2>2. /\ Len(queue'[c]) = Len(queue[c]) - 1
        /\ Len(queue[c]) \in Nat
        /\ \A j \in 1 .. Len(queue'[c]) : queue'[c][j] = queue[c][j + 1]
    BY <1>0, <2>1, HeadTailProperties, LenProperties
  <2>3. i + 1 \in 1 .. Len(queue[c]) /\ queue[c][i + 1] = queue'[c][i]
    BY <2>2
  <2>4. ASSUME NEW j \in i + 2 .. Len(queue[c]) PROVE p \notin DOMAIN queue[c][j]
    <3>1. j - 1 \in i + 1 .. Len(queue'[c]) /\ j - 1 \in 1 .. Len(queue'[c])
      BY <2>2
    <3>2. queue'[c][j - 1] = queue[c][j]
      BY <2>2, <3>1
    <3> QED
      BY <3>1, <3>2 DEF IsLast
  <2>5. IsLast(c, i + 1, p)
    BY <2>3, <2>4 DEF IsLast
  <2>6. queue[c][i + 1][p] = screen[p] \/ Owed(p)
    BY <2>3, <2>5 DEF QueueSettles, Settled
  <2> QED
    BY <1>4, <2>3, <2>6, SettledStays DEF Forward
<1>5. CASE ProcessOutput \/ MarkDirty \/ Tick \/ Collect \/ Redraw \/ Stop
           \/ Resize \/ UNCHANGED vars
  <2>1. queue' = queue
    BY <1>5 DEF ProcessOutput, MarkDirty, Tick, Collect, Redraw, Stop, Resize, vars
  <2> QED
    BY <1>1, <1>2, <2>1
<1>6. ASSUME NEW d \in Client, TakeSnapshot(d) \/ Resync(d)
      PROVE  queue'[c][i][p] = screen'[p] \/ Owed(p)'
  <2>1. queue' = queue
    BY <1>6 DEF TakeSnapshot, Resync
  <2> QED
    BY <1>1, <1>2, <2>1
<1>7. ASSUME NEW d \in Client, Subscribe(d) \/ Leave(d)
      PROVE  queue'[c][i][p] = screen'[p] \/ Owed(p)'
  <2>1. queue'[c] = queue[c] \/ queue'[c] = <<>>
    BY <1>0, <1>7 DEF Subscribe, Leave
  <2> QED
    BY <1>1, <1>2, <1>3, <2>1
<1>8. ASSUME NEW d \in Client, Forward(d)
      PROVE  queue'[c][i][p] = screen'[p] \/ Owed(p)'
  <2>1. d = c \/ queue'[c] = queue[c]
    BY <1>0, <1>8 DEF Forward
  <2> QED
    BY <1>1, <1>2, <1>4, <1>8, <2>1
<1> QED
  BY <1>1, <1>5, <1>6, <1>7, <1>8 DEF Next, BroadcasterStep, ForwarderStep

(* A client in its attach is told of nothing, but the part it misses is    *)
(* noted; a receiver that lost nothing has every update queued.            *)
LEMMA ViewSend ==
  ASSUME StreamInv, Send, [Next]_vars, NEW c \in Client, NEW p \in Part,
         attach'[c] # "out", c \notin lagged', Unqueued(c, p)'
  PROVE  view'[c][p] = screen'[p] \/ Owed(p)' \/ p \in missed'[c]
<1> USE DEF StreamInv
<1>0. queue[c] \in Seq(Update) /\ update \in Update /\ Len(queue[c]) <= Capacity
  BY DEF TypeOK
<1>1. Len(queue[c]) \in Nat /\ Capacity \in Nat
  BY <1>0, LenProperties, CapacityAssumption
<1>2. /\ attach' = attach /\ view' = view /\ c \notin lagged
      /\ p \in missed[c] => p \in missed'[c]
  BY DEF Send, Misses
<1>3. Unqueued(c, p)
  <2>1. CASE c \in Receivers
    <3>1. Len(queue[c]) < Capacity
      BY <1>0, <1>1, <2>1 DEF Send
    <3>2. queue'[c] = Push(c)
      BY <2>1 DEF Send
    <3>3. /\ Len(queue'[c]) = Len(queue[c]) + 1
          /\ \A j \in 1 .. Len(queue[c]) : queue'[c][j] = queue[c][j]
      BY <1>0, <3>1, <3>2, PushProperties
    <3> QED
      BY <1>1, <3>3 DEF Unqueued
  <2>2. CASE c \notin Receivers
    BY <2>2, EmptySeq DEF Receivers, OnlyReceiversQueue, Unqueued
  <2> QED
    BY <2>1, <2>2
<1>4. view[c][p] = screen[p] \/ Owed(p) \/ p \in missed[c]
  BY <1>2, <1>3 DEF ViewSettles, Settled
<1>5. CASE p \in DOMAIN update
  <2>1. CASE c \in Receivers
    <3>1. queue'[c] = Push(c)
      BY <2>1 DEF Send
    <3>2. Len(queue'[c]) \in 1 .. Capacity /\ queue'[c][Len(queue'[c])] = update
      BY <1>0, <3>1, PushProperties
    <3> QED
      BY <1>1, <1>5, <3>2 DEF Unqueued
  <2>2. CASE c \notin Receivers
    <3>1. attach[c] = "gap"
      BY <1>2, <2>2 DEF TypeOK, Receivers
    <3>2. view[c][p] = screen[p] \/ p \in missed'[c]
      BY <1>5, <3>1 DEF Send, Misses
    <3> QED
      BY <1>2, <3>2 DEF Send
  <2> QED
    BY <2>1, <2>2
<1>6. CASE p \notin DOMAIN update
  <2>1. CASE view[c][p] = screen[p] \/ Owed(p)
    <3>1. view[c][p] = screen'[p] \/ Owed(p)'
      BY <1>2, <1>6, <2>1, SettledStays DEF Send, Tick
    <3> QED
      BY <1>2, <3>1
  <2> QED
    BY <1>2, <1>4, <2>1
<1> QED
  BY <1>5, <1>6

(* A tick in a client's gap: what it lets pass the client is noted to miss.*)
LEMMA ViewLetPass ==
  ASSUME StreamInv, Tick, NEW c \in Client, NEW p \in Part,
         view[c][p] = screen[p] \/ Owed(p), attach[c] = "gap"
  PROVE  view'[c][p] = screen'[p] \/ Owed(p)' \/ p \in missed'[c]
<1>1. CASE Receivers = {}
  BY <1>1 DEF Tick, Misses, Owed
<1>2. CASE Receivers # {}
  BY <1>2 DEF Tick, Owed, Announced, Damaged
<1> QED
  BY <1>1, <1>2

(* A step that does not send and gives c no new view.                      *)
LEMMA ViewStays ==
  ASSUME StreamInv, [Next]_vars, ~Send, NEW c \in Client, NEW p \in Part,
         attach[c] # "out", c \notin lagged, Unqueued(c, p),
         view'[c] = view[c], p \in missed[c] => p \in missed'[c]
  PROVE  view'[c][p] = screen'[p] \/ Owed(p)' \/ p \in missed'[c]
<1>1. view[c][p] = screen[p] \/ Owed(p) \/ p \in missed[c]
  BY DEF StreamInv, ViewSettles, Settled
<1>2. CASE view[c][p] = screen[p] \/ Owed(p)
  <2>1. CASE Tick => attach[c] = "in"
    <3>1. view[c][p] = screen'[p] \/ Owed(p)'
      BY <1>2, <2>1, SettledStays DEF StreamInv
    <3> QED
      BY <3>1
  <2>2. CASE Tick /\ attach[c] # "in"
    <3>1. attach[c] = "gap"
      BY <2>2 DEF StreamInv, TypeOK
    <3> QED
      BY <1>2, <2>2, <3>1, ViewLetPass
  <2> QED
    BY <2>1, <2>2
<1> QED
  BY <1>1, <1>2

(* Every step leaves what a receiver shows settled once its queue is       *)
(* empty: as the screen is, or owed an update, or missed.                  *)
LEMMA ViewSteps == StreamInv /\ [Next]_vars => ViewSettles'
<1> SUFFICES ASSUME StreamInv, [Next]_vars, NEW c \in Client, NEW p \in Part,
                    attach'[c] # "out", c \notin lagged', Unqueued(c, p)'
             PROVE  Settled(view[c][p], p)' \/ p \in missed'[c]
  BY DEF ViewSettles
<1> SUFFICES view'[c][p] = screen'[p] \/ Owed(p)' \/ p \in missed'[c]
  BY DEF Settled
<1>0. /\ attach \in [Client -> {"out", "gap", "in"}]
      /\ queue \in [Client -> Seq(Update)]
      /\ view \in [Client -> [Part -> Version \cup {Cut}]]
      /\ missed \in [Client -> SUBSET Part]
  BY DEF StreamInv, TypeOK, Shown
<1>1. CASE Send
  BY <1>1, ViewSend
<1>2. CASE ~Send /\ queue'[c] = queue[c] /\ attach'[c] = attach[c] /\ c \notin lagged
           /\ view'[c] = view[c] /\ (p \in missed[c] => p \in missed'[c])
  <2>1. Unqueued(c, p)
    BY <1>2 DEF Unqueued
  <2> QED
    BY <1>2, <2>1, ViewStays
<1>3. CASE ProcessOutput \/ MarkDirty \/ Tick \/ Collect \/ Redraw \/ Stop
           \/ Resize \/ UNCHANGED vars
  <2>1. /\ UNCHANGED <<queue, attach, lagged, view>>
        /\ p \in missed[c] => p \in missed'[c]
    BY <1>3 DEF Misses, ProcessOutput, MarkDirty, Tick, Collect, Redraw, Stop, Resize, vars
  <2> QED
    BY <1>1, <1>2, <2>1
<1>4. ASSUME NEW d \in Client,
             TakeSnapshot(d) \/ Subscribe(d) \/ Forward(d) \/ Resync(d) \/ Leave(d),
             d # c
      PROVE  view'[c][p] = screen'[p] \/ Owed(p)' \/ p \in missed'[c]
  <2>1. /\ queue'[c] = queue[c] /\ attach'[c] = attach[c]
        /\ c \notin lagged' => c \notin lagged
        /\ view'[c] = view[c] /\ missed'[c] = missed[c]
    BY <1>0, <1>4 DEF TakeSnapshot, Subscribe, Forward, Resync, Leave
  <2> QED
    BY <1>1, <1>2, <2>1
<1>5. CASE TakeSnapshot(c) \/ Resync(c)
  <2>1. view'[c] = screen'
    BY <1>0, <1>5 DEF TakeSnapshot, Resync
  <2> QED
    BY <2>1
<1>6. CASE Subscribe(c) /\ ~Send
  <2>1. /\ attach[c] = "gap" /\ view' = view /\ missed' = missed
    BY <1>6 DEF Subscribe
  <2>2. queue[c] = <<>> /\ c \notin lagged
    BY <2>1 DEF StreamInv, OnlyReceiversQueue
  <2>3. Unqueued(c, p)
    BY <2>2, EmptySeq DEF Unqueued
  <2> QED
    BY <1>6, <2>1, <2>2, <2>3, ViewStays
<1>7. CASE Forward(c) /\ ~Send
  <2> DEFINE u == Head(queue[c])
  <2>1. /\ attach[c] = "in" /\ c \notin lagged
        /\ queue[c] # <<>> /\ queue'[c] = Tail(queue[c])
        /\ view'[c][p] = IF p \in DOMAIN u THEN u[p] ELSE view[c][p]
        /\ missed'[c] = missed[c] \ DOMAIN u
    BY <1>0, <1>7 DEF Forward
  <2>2. /\ Len(queue'[c]) = Len(queue[c]) - 1
        /\ Len(queue[c]) \in Nat /\ Len(queue[c]) >= 1
        /\ \A j \in 1 .. Len(queue'[c]) : queue'[c][j] = queue[c][j + 1]
        /\ u = queue[c][1]
    BY <1>0, <2>1, HeadTailProperties, LenProperties, EmptySeq
  <2>3. ASSUME NEW j \in 2 .. Len(queue[c]) PROVE p \notin DOMAIN queue[c][j]
    <3>1. j - 1 \in 1 .. Len(queue'[c]) /\ queue'[c][j - 1] = queue[c][j]
      BY <2>2
    <3> QED
      BY <3>1 DEF Unqueued
  <2>4. CASE p \in DOMAIN u
    <3>1. IsLast(c, 1, p) /\ 1 \in 1 .. Len(queue[c])
      BY <2>2, <2>3, <2>4 DEF IsLast
    <3>2. queue[c][1][p] = screen[p] \/ Owed(p)
      BY <3>1 DEF StreamInv, QueueSettles, Settled
    <3>3. queue[c][1][p] = screen'[p] \/ Owed(p)'
      BY <1>7, <2>1, <3>2, SettledStays DEF StreamInv
    <3> QED
      BY <2>1, <2>2, <2>4, <3>3
  <2>5. CASE p \notin DOMAIN u
    <3>1. Unqueued(c, p)
      BY <2>2, <2>3, <2>5 DEF Unqueued
    <3>2. view[c][p] = screen[p] \/ Owed(p) \/ p \in missed[c]
      BY <2>1, <3>1 DEF StreamInv, ViewSettles, Settled
    <3>3. CASE view[c][p] = screen[p] \/ Owed(p)
      <4>1. view[c][p] = screen'[p] \/ Owed(p)'
        BY <1>7, <2>1, <3>3, SettledStays DEF StreamInv
      <4> QED
        BY <2>1, <2>5, <4>1
    <3> QED
      BY <2>1, <2>5, <3>2, <3>3
  <2> QED
    BY <2>4, <2>5
<1>8. CASE Leave(c)
  BY <1>0, <1>8 DEF Leave
<1> QED
  BY <1>1, <1>3, <1>4, <1>5, <1>6, <1>7, <1>8
  DEF Next, BroadcasterStep, ForwarderStep

(* The invariant of the stream holds in every state.                       *)
LEMMA StreamInvAlways == Spec => []StreamInv
<1>1. Init => StreamInv
  <2>1. ASSUME Init PROVE UpdateIsFresh /\ QueueSettles /\ ViewSettles /\ OnlyReceiversQueue
    <3>1. \A c \in Client : queue[c] = <<>> /\ attach[c] = "out" /\ c \notin lagged
      BY <2>1 DEF Init
    <3> QED
      BY <2>1, <3>1, EmptySeq
      DEF Init, UpdateIsFresh, QueueSettles, ViewSettles, OnlyReceiversQueue
  <2> QED
    BY <2>1, InitTyped DEF StreamInv
<1>2. StreamInv /\ [Next]_vars => StreamInv'
  BY Typing, FreshSteps, QueueSteps, ViewSteps, ReceiverSteps DEF StreamInv
<1> QED
  BY <1>1, <1>2, PTL DEF Spec

(* Lag, resync and the replay of updates older than the snapshot do no     *)
(* lasting harm: once nothing is on its way, each attached client shows    *)
(* the screen but for the parts it is excused for, with any number of      *)
(* clients and rows, chunks and any capacity (QuietScreensAgree).          *)
THEOREM QuietClientsAgree == Spec => []QuietScreensAgree
<1>1. StreamInv => QuietScreensAgree
  <2> SUFFICES ASSUME StreamInv, Quiet, NEW c \in Client,
                      attach[c] = "in", NEW p \in Part
               PROVE  view[c][p] = screen[p] \/ p \in Excused(c)
    BY DEF QuietScreensAgree, Agrees
  <2>1. queue[c] = <<>> /\ c \notin lagged
    BY DEF Quiet
  <2>2. Unqueued(c, p)
    BY <2>1, EmptySeq DEF Unqueued
  <2>3. view[c][p] = screen[p] \/ Owed(p) \/ p \in missed[c]
    BY <2>1, <2>2 DEF StreamInv, ViewSettles, Settled
  <2>4. Owed(p) => p \in Excused(c)
    BY DEF Owed, Announced, Quiet, Excused
  <2> QED
    BY <2>3, <2>4 DEF Excused
<1> QED
  BY <1>1, StreamInvAlways, PTL

-----------------------------------------------------------------------------
(* The two races that leave an attached client behind are the only ones.   *)
(* Nothing is sent or let pass while a client has its snapshot and has not *)
(* subscribed, and no attach's own resize overtakes an update that was     *)
(* read, be it only its header, and not sent yet.                          *)
CalmGaps ==
  /\ (\E c \in Client : attach[c] = "gap") => ~ (Tick /\ Receivers = {}) /\ ~Send
  /\ broadcaster \in {"redraw", "send"} =>
       \A c \in Client : TakeSnapshot(c) => screen' = screen

(* Then no client misses a part, and what is sent out of date is announced. *)
NothingMissed ==
  /\ \A c \in Client : missed[c] = {}
  /\ outdated = {}
  /\ broadcaster \in {"redraw", "send"} =>
       \A p \in DOMAIN update : update[p] = screen[p] \/ dirty \/ unmarked

(* No step lets a part be missed but the two races.                        *)
LEMMA CalmSteps ==
  TypeOK /\ NothingMissed /\ [Next]_vars /\ [CalmGaps]_vars => NothingMissed'
<1> SUFFICES ASSUME TypeOK, NothingMissed, [Next]_vars, [CalmGaps]_vars
             PROVE  NothingMissed'
  OBVIOUS
<1> USE DEF NothingMissed
<1>0. /\ screen \in [Part -> Version] /\ missed \in [Client -> SUBSET Part]
      /\ \A p \in DOMAIN update : p \in Part
  BY DEF TypeOK, Screen, Update
<1>1. CASE ProcessOutput
  BY <1>1 DEF ProcessOutput
<1>2. CASE MarkDirty \/ Stop
  BY <1>2 DEF MarkDirty, Stop
<1>3. CASE Tick
  <2>1. Receivers = {} => \A c \in Client : attach[c] # "gap"
    BY <1>3 DEF CalmGaps, Tick, vars
  <2> QED
    BY <1>3, <2>1 DEF Tick, Misses
<1>4. CASE Collect
  BY <1>0, <1>4 DEF Collect, TypeOK
<1>5. CASE Redraw
  <2>1. /\ \A p \in Header : update[p] = screen[p] \/ dirty \/ unmarked
        /\ Size \in Header
        /\ UNCHANGED <<screen, dirty, unmarked, missed, outdated>>
    BY <1>5 DEF Redraw, Header, TypeOK
  <2> QED
    BY <1>0, <1>5, <2>1 DEF Redraw
<1>6. CASE Send
  <2>1. \A c \in Client : attach[c] # "gap"
    BY <1>6 DEF CalmGaps, Send, vars
  <2> QED
    BY <1>6, <2>1 DEF Send, Misses
<1>7. CASE Resize
  BY <1>7 DEF Resize
<1>8. ASSUME NEW c \in Client, TakeSnapshot(c) PROVE NothingMissed'
  <2>1. broadcaster \in {"redraw", "send"} => screen' = screen
    BY <1>8 DEF CalmGaps, vars
  <2> QED
    BY <1>0, <1>8, <2>1 DEF TakeSnapshot
<1>9. ASSUME NEW c \in Client, Subscribe(c) \/ ForwarderStep(c) \/ Leave(c)
      PROVE  NothingMissed'
  BY <1>0, <1>9 DEF Subscribe, ForwarderStep, Forward, Resync, Leave
<1>10. CASE UNCHANGED vars
  BY <1>10 DEF vars
<1> QED
  BY <1>1, <1>2, <1>3, <1>4, <1>5, <1>6, <1>7, <1>8, <1>9, <1>10
  DEF Next, BroadcasterStep

(* session-protocol.md's "always current" holds but for the two races: as  *)
(* long as neither happens, every client attached to a running session     *)
(* shows the screen once nothing is on its way (AttachedIsCurrent).        *)
THEOREM CalmClientsAreCurrent == Spec /\ [][CalmGaps]_vars => []AttachedIsCurrent
<1>1. Init => NothingMissed
  BY DEF Init, NothingMissed
<1>2. TypeOK /\ QuietScreensAgree /\ NothingMissed => AttachedIsCurrent
  <2> SUFFICES ASSUME TypeOK, QuietScreensAgree, NothingMissed, Quiet,
                      broadcaster # "stopped", NEW c \in Client, attach[c] = "in"
               PROVE  view[c] = screen
    BY DEF AttachedIsCurrent
  <2>1. \A p \in Part : view[c][p] = screen[p]
    BY DEF QuietScreensAgree, Agrees, Excused, NothingMissed
  <2>2. view[c] \in [Part -> Version \cup {Cut}] /\ screen \in [Part -> Version]
    BY DEF TypeOK, Screen, Shown
  <2> QED
    BY <2>1, <2>2
<1> QED
  BY <1>1, <1>2, CalmSteps, StreamTyped, QuietClientsAgree, PTL DEF Spec
=============================================================================
