---------------------------- MODULE AttachProofs ----------------------------
(***************************************************************************)
(* For any finite set of connections, any set of sessions and any faults,  *)
(* with a counter that wraps above the number of connections: a connection *)
(* has one forwarder and records it, the count of a session is the number  *)
(* of its holders, and only a session without holders is resized.          *)
(*                                                                         *)
(* The count is proved by counting: every step adds one connection to the  *)
(* holders of one session, takes one away, or leaves them alone.           *)
(***************************************************************************)
EXTENDS AttachProtocol, FiniteSetTheorems, TLAPS

(* The handler is between the steps of an attach.                          *)
Attaching(c) == pc[c] \in {"count", "snapshot", "subscribe"}

(* Meanwhile it has a session to attach to and no forwarder.               *)
AttachIsBare ==
  \A c \in Client : Attaching(c) => target[c] \in Session /\ forwarder[c] = None

(* The handlers' variables agree with each other.                          *)
HInv == TypeOK /\ StreamIsRecorded /\ AttachIsBare

(* The count of s is right.  CountIsHolders alone is not inductive: an id  *)
(* becomes live with the count and the holders it has had before.          *)
Right(s) ==
  /\ status[s] = "unused" => count[s] = 0 /\ Holders(s) = {}
  /\ status[s] = "live" => count[s] = Cardinality(Holders(s))

CountsRight == \A s \in Session \ stray : Right(s)

-----------------------------------------------------------------------------
(* A number below the modulus is its own remainder.                        *)
LEMMA ModSmall ==
  ASSUME NEW n \in 0 .. (CountModulus - 1)
  PROVE  n % CountModulus = n
  BY CountModulusAssumption

(* A remainder is below the modulus.                                       *)
LEMMA ModRange ==
  ASSUME NEW n \in Int
  PROVE  n % CountModulus \in 0 .. (CountModulus - 1)
<1>1. CountModulus \in Nat /\ CountModulus > 0
  BY CountModulusAssumption, ClientAssumption, FS_CardinalityType
<1> QED
  BY <1>1

(* Holders are connections, so they can be counted.                        *)
LEMMA HoldersFinite ==
  ASSUME NEW s
  PROVE  /\ IsFiniteSet(Holders(s)) /\ Cardinality(Holders(s)) \in Nat
         /\ Cardinality(Holders(s)) <= Cardinality(Client)
<1>1. Holders(s) \subseteq Client
  BY DEF Holders
<1> QED
  BY <1>1, ClientAssumption, FS_Subset, FS_CardinalityType

(* fetch_add for a new holder counts it, and does not wrap.                *)
LEMMA Gain ==
  ASSUME NEW s, NEW c \in Client, c \notin Holders(s)
  PROVE  (Cardinality(Holders(s)) + 1) % CountModulus = Cardinality(Holders(s) \cup {c})
<1>1. Holders(s) \cup {c} \subseteq Client
  BY DEF Holders
<1>2. Cardinality(Holders(s) \cup {c}) = Cardinality(Holders(s)) + 1
  BY HoldersFinite, FS_AddElement
<1>3. Cardinality(Holders(s)) + 1 \in 0 .. (CountModulus - 1)
  BY <1>1, <1>2, ClientAssumption, FS_Subset, FS_CardinalityType, HoldersFinite, CountModulusAssumption
<1> QED
  BY <1>2, <1>3, ModSmall

(* fetch_sub for a holder discounts it, and does not wrap.                 *)
LEMMA Loss ==
  ASSUME NEW s, NEW c \in Holders(s)
  PROVE  (Cardinality(Holders(s)) - 1) % CountModulus = Cardinality(Holders(s) \ {c})
<1>1. Cardinality(Holders(s) \ {c}) = Cardinality(Holders(s)) - 1
  BY HoldersFinite, FS_RemoveElement
<1>2. Cardinality(Holders(s)) # 0
  BY HoldersFinite, FS_EmptySet
<1>3. Cardinality(Holders(s)) - 1 \in 0 .. (CountModulus - 1)
  BY <1>2, HoldersFinite, FS_CardinalityType, ClientAssumption, CountModulusAssumption
<1> QED
  BY <1>1, <1>3, ModSmall

(* Giving back an attachment, held or not, keeps the types.                *)
LEMMA GiveBackTypes ==
  ASSUME TypeOK, NEW c \in Client, NEW s \in Session, GiveBack(c, s)
  PROVE  count' \in [Session -> 0 .. (CountModulus - 1)] /\ stray' \subseteq Session
<1>1. CASE ~Live(s)
  BY <1>1 DEF GiveBack, TypeOK
<1>2. CASE Live(s)
  <2>1. (count[s] - 1) % CountModulus \in 0 .. (CountModulus - 1)
    BY ModRange DEF TypeOK
  <2>2. count' = [count EXCEPT ![s] = (count[s] - 1) % CountModulus]
    BY <1>2 DEF GiveBack
  <2>3. stray' \subseteq Session
    BY <1>2 DEF GiveBack, TypeOK
  <2> QED
    BY <2>1, <2>2, <2>3 DEF TypeOK
<1> QED
  BY <1>1, <1>2

(* Spawns, kills and exits keep the type of the session table.             *)
LEMMA TableTypes ==
  ASSUME TypeOK, Table!Next
  PROVE  Table!TypeOK'
  BY DEF TypeOK, Table!Next, Table!Register, Table!Retire, Table!TypeOK, Table!Status

(* Every step keeps the handlers' variables in agreement.                  *)
LEMMA HandlerStep ==
  ASSUME HInv, [Next]_vars
  PROVE  HInv'
<1> USE NoneAssumption DEF HInv, TypeOK, OneStream, StreamIsRecorded, AttachIsBare, Attaching
<1>0. Table!TypeOK /\ UNCHANGED status => Table!TypeOK'
  BY DEF Table!TypeOK
<1>1. ASSUME TableStep PROVE HInv'
  BY <1>1, TableTypes DEF TableStep
<1>2. ASSUME NEW c \in Client, Accept(c) PROVE HInv'
  BY <1>0, <1>2 DEF Accept
<1>3. ASSUME NEW c \in Client, CountAttach(c) PROVE HInv'
  <2>1. count' \in [Session -> 0 .. (CountModulus - 1)]
    <3>1. (count[target[c]] + 1) % CountModulus \in 0 .. (CountModulus - 1)
      BY <1>3, ModRange DEF CountAttach, Live
    <3> QED
      BY <1>3, <3>1 DEF CountAttach, Live, Increment
  <2>2. sizedBy' \in [Session -> Client \cup {None}]
    BY <1>3 DEF CountAttach, Live
  <2> QED
    BY <1>0, <1>3, <2>1, <2>2 DEF CountAttach
<1>4. ASSUME NEW c \in Client, RefuseAttach(c) PROVE HInv'
  BY <1>0, <1>4 DEF RefuseAttach, AfterSend
<1>5. ASSUME NEW c \in Client, SendSnapshot(c) PROVE HInv'
  <2>1. pc'[c] \in {"subscribe", "read", "cleanup"} /\ pc' = [pc EXCEPT ![c] = pc'[c]]
    BY <1>5 DEF SendSnapshot, AfterSend
  <2>2. CASE pc'[c] = "subscribe"
    BY <1>0, <1>5, <2>1, <2>2 DEF SendSnapshot
  <2>3. CASE pc'[c] # "subscribe"
    BY <1>0, <1>5, <2>1, <2>3 DEF SendSnapshot
  <2> QED
    BY <2>2, <2>3
<1>6. ASSUME NEW c \in Client, Subscribe(c) PROVE HInv'
  <2>1. CASE Live(target[c])
    BY <1>0, <1>6, <2>1 DEF Subscribe, Live
  <2>2. CASE ~Live(target[c])
    BY <1>0, <1>6, <2>2 DEF Subscribe
  <2> QED
    BY <2>1, <2>2
<1>7. ASSUME NEW c \in Client, Disconnect(c) PROVE HInv'
  BY <1>0, <1>7 DEF Disconnect
<1>8. ASSUME NEW c \in Client, WriterStops(c) PROVE HInv'
  BY <1>0, <1>8 DEF WriterStops
<1>9. ASSUME NEW c \in Client, CleanUp(c) PROVE HInv'
  <2>1. count' \in [Session -> 0 .. (CountModulus - 1)] /\ stray' \subseteq Session
    BY <1>9, GiveBackTypes DEF CleanUp
  <2> QED
    BY <1>0, <1>9, <2>1 DEF CleanUp
<1>10. ASSUME NEW c \in Client, NEW s \in Session, BeginAttach(c, s) PROVE HInv'
  <2>1. count' \in [Session -> 0 .. (CountModulus - 1)] /\ stray' \subseteq Session
    BY <1>10, GiveBackTypes DEF BeginAttach
  <2>2. forwarder'[c] = None /\ forwarder' = [forwarder EXCEPT ![c] = None]
    BY <1>10 DEF BeginAttach
  <2> QED
    BY <1>0, <1>10, <2>1, <2>2 DEF BeginAttach
<1>11. ASSUME NEW c \in Client, NEW s \in Session, Detach(c, s) PROVE HInv'
  <2>1. count' \in [Session -> 0 .. (CountModulus - 1)] /\ stray' \subseteq Session
    BY <1>11, GiveBackTypes DEF Detach
  <2> QED
    BY <1>0, <1>11, <2>1 DEF Detach, AfterSend
<1>12. ASSUME UNCHANGED vars PROVE HInv'
  BY <1>0, <1>12 DEF vars
<1> QED
  BY <1>1, <1>2, <1>3, <1>4, <1>5, <1>6, <1>7, <1>8, <1>9, <1>10, <1>11, <1>12
     DEF Next, ClientStep

(* A step that leaves status, count and holders alone keeps a count right. *)
LEMMA RightStays ==
  ASSUME NEW s, Right(s), status' = status, count'[s] = count[s], Holders(s)' = Holders(s)
  PROVE  Right(s)'
  BY DEF Right

(* A connection that gives its recorded attachment back and drops its      *)
(* forwarder keeps all counts right.                                       *)
LEMMA GiveBackRight ==
  ASSUME HInv, NEW c \in Client, NEW t \in Session, GiveBack(c, t),
         attached[c] = t, ~Attaching(c), status' = status,
         NEW s \in Session, s \notin stray', s \notin stray => Right(s),
         Holders(s)' = Holders(s) \ {c}
  PROVE  Right(s)'
<1>0. s \notin stray
  BY DEF GiveBack
<1>1. CASE s # t
  <2>1. c \notin Holders(s)
    BY <1>1, NoneAssumption DEF HInv, TypeOK, StreamIsRecorded, Attaching, Holders, Holds
  <2>2. count'[s] = count[s]
    BY <1>1 DEF GiveBack, HInv, TypeOK
  <2> QED
    BY <1>0, <2>1, <2>2, RightStays
<1>2. CASE s = t /\ Live(s)
  <2>1. forwarder[c] = s
    BY <1>0, <1>2 DEF GiveBack
  <2>2. c \in Holders(s)
    BY <2>1 DEF Holders, Holds
  <2>3. count'[s] = (count[s] - 1) % CountModulus
    BY <1>2 DEF GiveBack, HInv, TypeOK
  <2> QED
    BY <1>0, <1>2, <2>2, <2>3, Loss DEF Right, Live
<1>3. CASE s = t /\ ~Live(s)
  BY <1>0, <1>3 DEF GiveBack, Right, Live
<1> QED
  BY <1>1, <1>2, <1>3

(* Every step keeps every count right.                                     *)
LEMMA CountStep ==
  ASSUME HInv, CountsRight, [Next]_vars
  PROVE  CountsRight'
<1> SUFFICES ASSUME NEW s \in Session, s \notin stray'
             PROVE  Right(s)'
  BY DEF CountsRight
<1> USE NoneAssumption DEF HInv, TypeOK
<1>0. s \notin stray => Right(s)
  BY DEF CountsRight
<1>1. ASSUME TableStep PROVE Right(s)'
  <2>1. count' = count /\ Holders(s)' = Holders(s) /\ Right(s)
    BY <1>0, <1>1 DEF TableStep, Holders, Holds
  <2>2. \/ status'[s] = status[s]
        \/ status[s] = "unused" /\ status'[s] = "live"
        \/ status'[s] = "gone"
    BY <1>1 DEF TableStep, Table!Next, Table!Register, Table!Retire, Table!TypeOK
  <2> QED
    BY <2>1, <2>2, FS_EmptySet DEF Right
<1>2. ASSUME NEW c \in Client, Accept(c) \/ Disconnect(c) \/ WriterStops(c)
      PROVE  Right(s)'
  <2>1. Holders(s)' = Holders(s)
    BY <1>2 DEF Accept, Disconnect, WriterStops, Holders, Holds
  <2> QED
    BY <1>0, <1>2, <2>1, RightStays DEF Accept, Disconnect, WriterStops
<1>3. ASSUME NEW c \in Client, CountAttach(c) PROVE Right(s)'
  <2>1. Right(s) /\ status' = status
    BY <1>0, <1>3 DEF CountAttach
  <2>2. CASE s # target[c]
    <3>1. Holders(s)' = Holders(s)
      BY <1>3, <2>2 DEF CountAttach, Holders, Holds
    <3>2. count'[s] = count[s]
      BY <1>3, <2>2 DEF CountAttach, Increment
    <3> QED
      BY <2>1, <3>1, <3>2, RightStays
  <2>3. CASE s = target[c]
    <3>1. c \notin Holders(s)
      BY <1>3 DEF CountAttach, AttachIsBare, Attaching, Holders, Holds
    <3>2. Holders(s)' = Holders(s) \cup {c}
      BY <1>3, <2>3 DEF CountAttach, Holders, Holds
    <3>3. count'[s] = (count[s] + 1) % CountModulus /\ status[s] = "live"
      BY <1>3, <2>3 DEF CountAttach, Increment, Live
    <3> QED
      BY <2>1, <3>1, <3>2, <3>3, Gain DEF Right
  <2> QED
    BY <2>2, <2>3
<1>4. ASSUME NEW c \in Client, RefuseAttach(c) PROVE Right(s)'
  <2>1. Holders(s)' = Holders(s)
    BY <1>4 DEF RefuseAttach, AfterSend, Holders, Holds
  <2> QED
    BY <1>0, <1>4, <2>1, RightStays DEF RefuseAttach
<1>5. ASSUME NEW c \in Client, SendSnapshot(c) PROVE Right(s)'
  <2>1. Right(s) /\ status' = status /\ count' = count
    BY <1>0, <1>5 DEF SendSnapshot
  <2>2. CASE s # target[c] \/ pc'[c] = "subscribe"
    <3>1. Holders(s)' = Holders(s)
      BY <1>5, <2>2 DEF SendSnapshot, AfterSend, AttachIsBare, Attaching, Holders, Holds
    <3> QED
      BY <2>1, <3>1, RightStays
  <2>3. CASE s = target[c] /\ pc'[c] # "subscribe"
    <3>1. ~Live(s)
      BY <1>5, <2>3 DEF SendSnapshot, AfterSend
    <3>2. c \in Holders(s)
      BY <1>5, <2>3 DEF SendSnapshot, Holders, Holds
    <3> QED
      BY <2>1, <3>1, <3>2 DEF Right, Live
  <2> QED
    BY <2>2, <2>3
<1>6. ASSUME NEW c \in Client, Subscribe(c) PROVE Right(s)'
  <2>1. Right(s) /\ status' = status /\ count' = count
    BY <1>0, <1>6 DEF Subscribe
  <2>2. CASE s # target[c] \/ Live(target[c])
    <3>1. Holders(s)' = Holders(s)
      BY <1>6, <2>2 DEF Subscribe, Live, AttachIsBare, Attaching, Holders, Holds
    <3> QED
      BY <2>1, <3>1, RightStays
  <2>3. CASE s = target[c] /\ ~Live(s)
    <3>1. c \in Holders(s)
      BY <1>6, <2>3 DEF Subscribe, Holders, Holds
    <3> QED
      BY <2>1, <2>3, <3>1 DEF Right, Live
  <2> QED
    BY <2>2, <2>3
<1>7. ASSUME NEW c \in Client, CleanUp(c) PROVE Right(s)'
  <2>1. status' = status /\ ~Attaching(c)
    BY <1>7 DEF CleanUp, Attaching
  <2>2. Holders(s)' = Holders(s) \ {c}
    BY <1>7 DEF CleanUp, Holders, Holds
  <2>3. CASE attached[c] = None
    <3>1. c \notin Holders(s)
      BY <1>7, <2>3 DEF CleanUp, StreamIsRecorded, Holders, Holds
    <3>2. count' = count /\ stray' = stray
      BY <1>7, <2>3 DEF CleanUp
    <3>3. Holders(s)' = Holders(s)
      BY <2>2, <3>1
    <3> QED
      BY <1>0, <2>1, <3>2, <3>3, RightStays
  <2>4. CASE attached[c] # None
    BY <1>0, <1>7, <2>1, <2>2, <2>4, GiveBackRight DEF CleanUp
  <2> QED
    BY <2>3, <2>4
<1>8. ASSUME NEW c \in Client, NEW t \in Session, BeginAttach(c, t) PROVE Right(s)'
  <2>1. status' = status /\ ~Attaching(c)
    BY <1>8 DEF BeginAttach, Attaching
  <2>2. forwarder' = [forwarder EXCEPT ![c] = None]
    BY <1>8 DEF BeginAttach, StreamIsRecorded
  <2>3. Holders(s)' = Holders(s) \ {c}
    BY <1>8, <2>2 DEF BeginAttach, Holders, Holds
  <2>4. CASE attached[c] = None
    <3>1. c \notin Holders(s)
      BY <1>8, <2>4 DEF BeginAttach, StreamIsRecorded, Holders, Holds
    <3> QED
      BY <1>0, <1>8, <2>1, <2>3, <2>4, <3>1, RightStays DEF BeginAttach
  <2>5. CASE attached[c] # None
    BY <1>0, <1>8, <2>1, <2>3, <2>5, GiveBackRight DEF BeginAttach
  <2> QED
    BY <2>4, <2>5
<1>9. ASSUME NEW c \in Client, NEW t \in Session, Detach(c, t) PROVE Right(s)'
  <2>1. status' = status /\ ~Attaching(c) /\ GiveBack(c, t)
    BY <1>9 DEF Detach, Attaching
  <2>2. CASE attached[c] = t
    <3>1. Holders(s)' = Holders(s) \ {c}
      BY <1>9, <2>2 DEF Detach, AfterSend, Holders, Holds
    <3> QED
      BY <1>0, <2>1, <2>2, <3>1, GiveBackRight
  <2>3. CASE attached[c] # t
    <3>1. Holders(s)' = Holders(s)
      BY <1>9, <2>3 DEF Detach, AfterSend, Holders, Holds
    <3>2. count'[s] = count[s] /\ s \notin stray
      BY <2>1, <2>3 DEF GiveBack, StreamIsRecorded
    <3> QED
      BY <1>0, <2>1, <3>1, <3>2, RightStays
  <2> QED
    BY <2>2, <2>3
<1>10. ASSUME UNCHANGED vars PROVE Right(s)'
  <2>1. Holders(s)' = Holders(s)
    BY <1>10 DEF vars, Holders, Holds
  <2> QED
    BY <1>0, <1>10, <2>1, RightStays DEF vars
<1> QED
  BY <1>1, <1>2, <1>3, <1>4, <1>5, <1>6, <1>7, <1>8, <1>9, <1>10 DEF Next, ClientStep

(* Without connections and sessions nothing is counted.                    *)
LEMMA InitHolds == Init => HInv /\ CountsRight
<1> SUFFICES ASSUME Init PROVE HInv /\ CountsRight
  OBVIOUS
<1>1. HInv
  <2>1. 0 \in 0 .. (CountModulus - 1)
    BY CountModulusAssumption, ClientAssumption, FS_CardinalityType
  <2> QED
    BY <2>1 DEF Init, HInv, TypeOK, OneStream, StreamIsRecorded, AttachIsBare,
       Attaching, Table!Init, Table!TypeOK, Table!Status
<1>2. \A s \in Session : Holders(s) = {} /\ count[s] = 0
  BY NoneAssumption DEF Init, Holders, Holds
<1>3. \A s \in Session : status[s] = "unused"
  BY DEF Init, Table!Init
<1> QED
  BY <1>1, <1>2, <1>3 DEF CountsRight, Right

(* The inductive invariant of the attach protocol: handlers agree with     *)
(* themselves and counts with their holders.                               *)
THEOREM AttachInvariance == Spec => [](HInv /\ CountsRight)
<1>1. HInv /\ CountsRight /\ [Next]_vars => (HInv /\ CountsRight)'
  BY HandlerStep, CountStep
<1> QED
  BY <1>1, InitHolds, PTL DEF Spec

(* The handlers' variables and the shared counts keep their types.         *)
THEOREM AttachTypes == Spec => []TypeOK
<1>1. HInv => TypeOK
  BY DEF HInv
<1> QED
  BY <1>1, AttachInvariance, PTL

(* A connection never runs two forwarder tasks, and records the session    *)
(* that its forwarder streams.                                             *)
THEOREM OneForwarder == Spec => []StreamIsRecorded
<1>1. HInv => StreamIsRecorded
  BY DEF HInv
<1> QED
  BY <1>1, AttachInvariance, PTL

(* attached_count of a live session is the number of connections holding   *)
(* it, until one gives back what it does not hold or drops what it holds.  *)
THEOREM CountCorrect == Spec => []CountIsHolders
<1>1. HInv /\ CountsRight => CountIsHolders
  BY DEF CountsRight, Right, Live, CountIsHolders
<1> QED
  BY <1>1, AttachInvariance, PTL

(* An attach applies its initial size only to a session nobody holds.      *)
THEOREM SizeCorrect == Spec => SizeIsNotStolen
<1> DEFINE Kept == \A s \in Session :
             sizedBy'[s] # sizedBy[s] /\ s \notin stray => Holders(s) = {}
<1>1. ASSUME HInv, CountsRight, [Next]_vars PROVE [Kept]_vars
  <2> SUFFICES ASSUME NEW s \in Session, sizedBy'[s] # sizedBy[s], s \notin stray
               PROVE  Holders(s) = {}
    OBVIOUS
  <2>1. PICK c \in Client : CountAttach(c)
    BY <1>1 DEF Next, ClientStep, TableStep, Accept, RefuseAttach, SendSnapshot,
       Subscribe, Disconnect, WriterStops, CleanUp, BeginAttach, Detach, vars
  <2>2. s = target[c] /\ count[s] = 0 /\ status[s] = "live"
    BY <1>1, <2>1 DEF CountAttach, Live, HInv, TypeOK
  <2>3. Cardinality(Holders(s)) = 0
    BY <1>1, <2>2 DEF CountsRight, Right
  <2> QED
    BY <2>3, HoldersFinite, FS_EmptySet
<1> QED
  BY <1>1, AttachInvariance, PTL DEF Spec, SizeIsNotStolen
-----------------------------------------------------------------------------
(* Between requests a connection streams the session it records, unless    *)
(* that session has ended: no attached connection was refused another one. *)
RecordsAreHeld ==
  \A c \in Client : pc[c] = "read" /\ Live(attached[c]) => forwarder[c] = attached[c]

(* With clients that behave nothing is given back without a hold.  A       *)
(* record of a session that has ended is harmless: its id does not return. *)
Orderly ==
  /\ stray = {}
  /\ \A c \in Client :
       /\ pc[c] # "closed" => writerAlive[c]
       /\ pc[c] = "cleanup" /\ Live(attached[c]) => forwarder[c] = attached[c]
       /\ attached[c] # None => status[attached[c]] # "unused"

(* A step of well-behaved clients that hold what they record is orderly.   *)
LEMMA OrderlyStep ==
  ASSUME Faults = {}, HInv, Orderly, RecordsAreHeld, [Next]_vars
  PROVE  Orderly'
<1> USE NoneAssumption DEF HInv, TypeOK, Orderly, RecordsAreHeld, Live
<1>1. ASSUME TableStep PROVE Orderly'
  <2>1. \A s \in Session :
          \/ status'[s] = status[s]
          \/ status[s] = "unused" /\ status'[s] = "live"
          \/ status[s] = "live" /\ status'[s] = "gone"
    BY <1>1 DEF TableStep, Table!Next, Table!Register, Table!Retire, Table!TypeOK
  <2> QED
    BY <1>1, <2>1 DEF TableStep
<1>2. ASSUME NEW c \in Client, Accept(c) PROVE Orderly'
  BY <1>2 DEF Accept
<1>3. ASSUME NEW c \in Client, CountAttach(c) PROVE Orderly'
  BY <1>3 DEF CountAttach
<1>4. ASSUME NEW c \in Client, RefuseAttach(c) PROVE Orderly'
  BY <1>4 DEF RefuseAttach, AfterSend
<1>5. ASSUME NEW c \in Client, SendSnapshot(c) PROVE Orderly'
  <2>1. pc'[c] \in {"subscribe", "read"}
    BY <1>5 DEF SendSnapshot, AfterSend
  <2> QED
    BY <1>5, <2>1 DEF SendSnapshot
<1>6. ASSUME NEW c \in Client, Subscribe(c) PROVE Orderly'
  <2>1. CASE Live(target[c])
    BY <1>6, <2>1 DEF Subscribe
  <2>2. CASE ~Live(target[c])
    BY <1>6, <2>2 DEF Subscribe
  <2> QED
    BY <2>1, <2>2
<1>7. ASSUME NEW c \in Client, Disconnect(c) PROVE Orderly'
  BY <1>7 DEF Disconnect
<1>8. ASSUME NEW c \in Client, WriterStops(c) PROVE Orderly'
  BY <1>8 DEF WriterStops
<1>9. ASSUME NEW c \in Client, CleanUp(c) PROVE Orderly'
  <2>1. stray' = {}
    BY <1>9 DEF CleanUp, GiveBack
  <2> QED
    BY <1>9, <2>1 DEF CleanUp
<1>10. ASSUME NEW c \in Client, NEW s \in Session, BeginAttach(c, s) PROVE Orderly'
  <2>1. stray' = {}
    BY <1>10 DEF BeginAttach, GiveBack
  <2> QED
    BY <1>10, <2>1 DEF BeginAttach
<1>11. ASSUME NEW c \in Client, NEW s \in Session, Detach(c, s) PROVE Orderly'
  <2>1. stray' = {} /\ attached[c] = s
    BY <1>11 DEF Detach, GiveBack
  <2> QED
    BY <1>11, <2>1 DEF Detach, AfterSend
<1>12. ASSUME UNCHANGED vars PROVE Orderly'
  BY <1>12 DEF vars
<1> QED
  BY <1>1, <1>2, <1>3, <1>4, <1>5, <1>6, <1>7, <1>8, <1>9, <1>10, <1>11, <1>12
     DEF Next, ClientStep

(* With every connection idle the holders are those that stream.           *)
LEMMA IdleHolders ==
  ASSUME HInv, CountsRight, Orderly
  PROVE  CountIsAttachedClients
<1> SUFFICES ASSUME \A c \in Client : pc[c] \in {"read", "closed"},
                    NEW s \in Session, Live(s)
             PROVE  count[s] = Cardinality({c \in Client : forwarder[c] = s})
  BY DEF CountIsAttachedClients
<1>1. Holders(s) = {c \in Client : forwarder[c] = s}
  BY DEF Holders, Holds
<1>2. count[s] = Cardinality(Holders(s))
  BY DEF CountsRight, Right, Orderly, Live
<1> QED
  BY <1>1, <1>2

(* daemon/mod.rs is right about attached_count, "number of attached        *)
(* frontend clients", as long as clients keep to the protocol and no       *)
(* attached connection is refused another session: the re-attach that      *)
(* fails is the only way to the counterexample that TLC finds.             *)
THEOREM CountExact ==
  ASSUME Faults = {}
  PROVE  Spec /\ []RecordsAreHeld => []CountIsAttachedClients
<1>1. Init => Orderly
  BY DEF Init, Orderly, Live
<1>2. HInv /\ Orderly /\ RecordsAreHeld /\ [Next]_vars => Orderly'
  BY OrderlyStep
<1>3. HInv /\ CountsRight /\ Orderly => CountIsAttachedClients
  BY IdleHolders
<1> QED
  BY <1>1, <1>2, <1>3, AttachInvariance, PTL DEF Spec
=============================================================================
