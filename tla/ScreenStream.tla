---------------------------- MODULE ScreenStream ----------------------------
(***************************************************************************)
(* How the screen of one session reaches the clients attached to it: the   *)
(* byte processor writes the terminal and raises the dirty flag            *)
(* (terminal.rs), the broadcaster task turns damage into update messages   *)
(* (the loop in daemon/session.rs), a tokio broadcast channel of bounded   *)
(* capacity carries them, and each connection's attach and forwarder       *)
(* (daemon/client_handler.rs) hand a snapshot and then the updates to the  *)
(* client.  A screen is its rows and a header, the cursor with the mode and *)
(* the size; what a part shows is the number of the change that wrote it.  *)
(*                                                                         *)
(* The connection's response queue and socket deliver in order and are not *)
(* separate state: a client shows what was last sent to it.                *)
(***************************************************************************)
EXTENDS Naturals, Sequences

CONSTANTS
  Client,        \* connections that attach to the session
  Row,           \* rows of the screen
  Cursor,        \* the part that is the cursor, with the terminal's mode
  Size,          \* the part that is the columns and lines
  Chunk,         \* the sets of parts that a chunk of output may change
  MaxVersion,    \* bound: how often the screen changes
  Capacity       \* of the broadcast channel (64 in the code)

ASSUME MaxVersionAssumption == MaxVersion \in Nat
ASSUME CapacityAssumption == Capacity \in Nat \ {0}
ASSUME HeaderAssumption == Cursor \notin Row /\ Size \notin Row /\ Cursor # Size
ASSUME ChunkAssumption == Chunk \subseteq SUBSET (Row \cup {Cursor})

VARIABLES
  screen,        \* the terminal: the version of each part
  version,       \* the number of its last change
  damage,        \* rows, and the cursor, changed since the last reset_damage
  fullDamage,    \* TermDamage::Full
  dirty,         \* pty_dirty
  unmarked,      \* the byte processor wrote and has not raised dirty yet
  broadcaster,   \* where the broadcaster is in its tick
  update,        \* the update it is about to send, as far as it is read
  attach,        \* each client: out, gap (has its snapshot), in (subscribed)
  queue,         \* each receiver's unread updates
  lagged,        \* receivers that lost their oldest updates
  view,          \* what each client shows, if it is attached
  missed,        \* history: parts a client's snapshot lacks, dealt with in its gap
  unsignalled,   \* history: damaged parts whose dirty mark nobody will act on
  outdated       \* history: parts sent out of date, with no dirty mark for them

vars == <<screen, version, damage, fullDamage, dirty, unmarked, broadcaster, update,
          attach, queue, lagged, view, missed, unsignalled, outdated>>

Header == {Cursor, Size}
Part == Row \cup Header

(* A row that is read at an older size than the screen has may come out    *)
(* cut: it is no version of the row.                                       *)
Version == 0 .. MaxVersion
Cut == MaxVersion + 1
Screen == [Part -> Version]
Shown == [Part -> Version \cup {Cut}]
Update == UNION {[parts -> Version \cup {Cut}] : parts \in SUBSET Part}
NoUpdate == [p \in {} |-> 0]

TypeOK ==
  /\ screen \in Screen
  /\ version \in Version
  /\ damage \subseteq Row \cup {Cursor}
  /\ fullDamage \in BOOLEAN
  /\ dirty \in BOOLEAN
  /\ unmarked \in BOOLEAN
  /\ broadcaster \in {"idle", "collect", "redraw", "send", "stopped"}
  /\ update \in Update
  /\ broadcaster = "redraw" => DOMAIN update = Header
  /\ attach \in [Client -> {"out", "gap", "in"}]
  /\ queue \in [Client -> Seq(Update)]
  /\ \A c \in Client : Len(queue[c]) <= Capacity
  /\ lagged \subseteq Client
  /\ view \in [Client -> Shown]
  /\ missed \in [Client -> SUBSET Part]
  /\ unsignalled \subseteq Part
  /\ outdated \subseteq Part

(* A new terminal is fully damaged, and no output has announced it.        *)
Init ==
  /\ screen = [p \in Part |-> 0]
  /\ version = 0
  /\ damage = {}
  /\ fullDamage = TRUE
  /\ dirty = FALSE
  /\ unmarked = FALSE
  /\ broadcaster = "idle"
  /\ update = NoUpdate
  /\ attach = [c \in Client |-> "out"]
  /\ queue = [c \in Client |-> <<>>]
  /\ lagged = {}
  /\ view = [c \in Client |-> [p \in Part |-> 0]]
  /\ missed = [c \in Client |-> {}]
  /\ unsignalled = Part
  /\ outdated = {}

Receivers == {c \in Client : attach[c] = "in"}
Damaged == IF fullDamage THEN Part ELSE damage

(* These parts change.                                                     *)
Change(parts) ==
  /\ version < MaxVersion
  /\ version' = version + 1
  /\ screen' = [p \in Part |-> IF p \in parts THEN version + 1 ELSE screen[p]]

-----------------------------------------------------------------------------
(* The byte processor feeds one chunk to the terminal under its lock: rows  *)
(* change and the cursor moves, and the terminal notes which, or that all  *)
(* of it is to be drawn again (a scroll, a switch of screens).             *)
ProcessOutput ==
  /\ \E parts \in Chunk :
       /\ Change(parts)
       /\ \/ damage' = damage \cup parts /\ UNCHANGED fullDamage
          \/ fullDamage' = TRUE /\ UNCHANGED damage
  /\ unmarked' = TRUE
  /\ UNCHANGED <<dirty, broadcaster, update, attach, queue, lagged, view,
                 missed, unsignalled, outdated>>

(* Only after its last chunk does it raise the flag.                      *)
MarkDirty ==
  /\ unmarked
  /\ unmarked' = FALSE
  /\ dirty' = TRUE
  /\ UNCHANGED <<screen, version, damage, fullDamage, broadcaster, update, attach,
                 queue, lagged, view, missed, unsignalled, outdated>>

-----------------------------------------------------------------------------
(* The child has exited: the broadcaster ends at once, with whatever output *)
(* is not broadcast yet.                                                    *)
Stop ==
  /\ broadcaster = "idle"
  /\ broadcaster' = "stopped"
  /\ UNCHANGED <<screen, version, damage, fullDamage, dirty, unmarked, update, attach,
                 queue, lagged, view, missed, unsignalled, outdated>>

(* Parts are sent to the receivers, or let pass for want of any: a client  *)
(* in its gap will not hear of those that its snapshot has not as they are.*)
Misses(parts) ==
  missed' = [c \in Client |->
               IF attach[c] = "gap"
               THEN missed[c] \cup {p \in parts : view[c][p] # screen[p]}
               ELSE missed[c]]

(* A tick takes the flag and goes on only if somebody is listening.        *)
Tick ==
  /\ broadcaster = "idle"
  /\ dirty
  /\ dirty' = FALSE
  /\ \/ /\ Receivers = {}
        /\ unsignalled' = unsignalled \cup Damaged
        /\ Misses(Damaged)
        /\ UNCHANGED broadcaster
     \/ /\ Receivers # {}
        /\ broadcaster' = "collect"
        /\ UNCHANGED <<unsignalled, missed>>
  /\ UNCHANGED <<screen, version, damage, fullDamage, unmarked, update, attach, queue,
                 lagged, view, outdated>>

(* Fault: the damage is reset before it is read.                           *)
CollectAfterReset ==
  /\ broadcaster = "collect"
  /\ \/ /\ fullDamage
        /\ update' = [p \in Header |-> screen[p]]
        /\ broadcaster' = "redraw"
     \/ /\ ~fullDamage
        /\ \E row \in Row : update' = [p \in {row, Cursor} |-> screen[p]]
        /\ broadcaster' = "send"
  /\ damage' = {}
  /\ fullDamage' = FALSE
  /\ unsignalled' = {} /\ outdated' = {}
  /\ UNCHANGED <<screen, version, dirty, unmarked, attach, queue, lagged, view,
                 missed>>

(* Under the session and the terminal lock: the damaged rows and the cursor *)
(* are read and the damage reset.  The terminal counts the cursor's row as *)
(* damaged, wherever the cursor is, so there is always something to send.  *)
(* Full damage asks for a redraw: only its header is read here.            *)
Collect ==
  /\ broadcaster = "collect"
  /\ \/ /\ fullDamage
        /\ update' = [p \in Header |-> screen[p]]
        /\ broadcaster' = "redraw"
     \/ /\ ~fullDamage
        /\ \E row \in Row :
             update' = [p \in damage \cup {row, Cursor} |-> screen[p]]
        /\ broadcaster' = "send"
  /\ damage' = {}
  /\ fullDamage' = FALSE
  /\ unsignalled' = {} /\ outdated' = {}
  /\ UNCHANGED <<screen, version, dirty, unmarked, attach, queue, lagged, view,
                 missed>>

(* The redraw takes the locks again and reads the rows, to the columns and *)
(* lines read before: if the size has changed since, they may be cut.      *)
Redraw ==
  /\ broadcaster = "redraw"
  /\ \E cut \in SUBSET Row :
       /\ cut # {} => update[Size] # screen[Size]
       /\ update' = [p \in Part |-> IF p \in Header THEN update[p]
                                    ELSE IF p \in cut THEN Cut
                                    ELSE screen[p]]
  /\ broadcaster' = "send"
  /\ UNCHANGED <<screen, version, damage, fullDamage, dirty, unmarked, attach, queue,
                 lagged, view, missed, unsignalled, outdated>>

(* broadcast::Sender::send: a receiver that is Capacity behind loses its   *)
(* oldest update.                                                          *)
Push(c) ==
  IF Len(queue[c]) < Capacity THEN Append(queue[c], update)
  ELSE Append(Tail(queue[c]), update)

(* Fault: the flag is cleared when the update has been sent.               *)
SendClearingDirty ==
  /\ broadcaster = "send"
  /\ dirty' = FALSE
  /\ queue' = [c \in Client |-> IF c \in Receivers THEN Push(c) ELSE queue[c]]
  /\ lagged' = lagged \cup {c \in Receivers : Len(queue[c]) = Capacity}
  /\ Misses(DOMAIN update)
  /\ outdated' = outdated \cup
       {p \in DOMAIN update : update[p] # screen[p] /\ ~dirty /\ ~unmarked}
  /\ update' = NoUpdate
  /\ broadcaster' = "idle"
  /\ UNCHANGED <<screen, version, damage, fullDamage, unmarked, attach, view,
                 unsignalled>>

Send ==
  /\ broadcaster = "send"
  /\ queue' = [c \in Client |-> IF c \in Receivers THEN Push(c) ELSE queue[c]]
  /\ lagged' = lagged \cup {c \in Receivers : Len(queue[c]) = Capacity}
  /\ Misses(DOMAIN update)
  /\ outdated' = outdated \cup
       {p \in DOMAIN update : update[p] # screen[p] /\ ~dirty /\ ~unmarked}
  /\ update' = NoUpdate
  /\ broadcaster' = "idle"
  /\ UNCHANGED <<screen, version, damage, fullDamage, dirty, unmarked, attach, view,
                 unsignalled>>
-----------------------------------------------------------------------------
(* Attach, up to its snapshot.  When the client asks for an initial size   *)
(* and is the first, the terminal is resized: its rows are laid out anew   *)
(* and all damaged, but nobody raises the dirty flag.  The snapshot's rows *)
(* are read after its header, under one session lock: only output can come *)
(* between, which is output before the snapshot for the rows, and after it *)
(* for the cursor.                                                         *)
TakeSnapshot(c) ==
  /\ attach[c] = "out"
  /\ attach' = [attach EXCEPT ![c] = "gap"]
  /\ \/ UNCHANGED <<screen, version, fullDamage, unsignalled>>
     \/ /\ \A d \in Client : attach[d] = "out"
        /\ Change(Part)
        /\ fullDamage' = TRUE
        /\ unsignalled' = Part
  /\ view' = [view EXCEPT ![c] = screen']
  /\ missed' = [missed EXCEPT ![c] = {}]
  /\ UNCHANGED <<damage, dirty, unmarked, broadcaster, update, queue, lagged, outdated>>

(* The rest of Attach, after the snapshot was queued for the client: it    *)
(* receives what is sent from now on.                                      *)
Subscribe(c) ==
  /\ attach[c] = "gap"
  /\ attach' = [attach EXCEPT ![c] = "in"]
  /\ queue' = [queue EXCEPT ![c] = <<>>]
  /\ lagged' = lagged \ {c}
  /\ UNCHANGED <<screen, version, damage, fullDamage, dirty, unmarked, broadcaster,
                 update, view, missed, unsignalled, outdated>>

(* The forwarder passes on the next update.                                *)
Forward(c) ==
  /\ attach[c] = "in"
  /\ c \notin lagged
  /\ queue[c] # <<>>
  /\ LET u == Head(queue[c]) IN
     /\ view' = [view EXCEPT ![c] =
                   [p \in Part |-> IF p \in DOMAIN u THEN u[p] ELSE @[p]]]
     /\ missed' = [missed EXCEPT ![c] = @ \ DOMAIN u]
  /\ queue' = [queue EXCEPT ![c] = Tail(@)]
  /\ UNCHANGED <<screen, version, damage, fullDamage, dirty, unmarked, broadcaster,
                 update, attach, lagged, unsignalled, outdated>>

(* Fault: a lagged receiver just goes on with what is left.                *)
ResyncByContinuing(c) ==
  /\ attach[c] = "in"
  /\ c \in lagged
  /\ lagged' = lagged \ {c}
  /\ UNCHANGED <<screen, version, damage, fullDamage, dirty, unmarked, broadcaster,
                 update, attach, queue, view, missed, unsignalled, outdated>>

(* RecvError::Lagged: the client gets a snapshot, and then the updates     *)
(* that are still in the channel, older than the snapshot or not.          *)
Resync(c) ==
  /\ attach[c] = "in"
  /\ c \in lagged
  /\ lagged' = lagged \ {c}
  /\ view' = [view EXCEPT ![c] = screen]
  /\ missed' = [missed EXCEPT ![c] = {}]
  /\ UNCHANGED <<screen, version, damage, fullDamage, dirty, unmarked, broadcaster,
                 update, attach, queue, unsignalled, outdated>>

(* Detach or disconnect; also the end of an attach, or of a resync, that   *)
(* finds the session of a child that has exited out of the map.            *)
Leave(c) ==
  /\ attach[c] = "in" \/ (attach[c] = "gap" /\ broadcaster = "stopped")
  /\ attach' = [attach EXCEPT ![c] = "out"]
  /\ queue' = [queue EXCEPT ![c] = <<>>]
  /\ lagged' = lagged \ {c}
  /\ missed' = [missed EXCEPT ![c] = {}]
  /\ view' = [view EXCEPT ![c] = [p \in Part |-> 0]]
  /\ UNCHANGED <<screen, version, damage, fullDamage, dirty, unmarked, broadcaster,
                 update, unsignalled, outdated>>

(* A client resizes the session: new layout, full damage, flag raised.     *)
Resize ==
  /\ Change(Part)
  /\ fullDamage' = TRUE
  /\ dirty' = TRUE
  /\ UNCHANGED <<damage, unmarked, broadcaster, update, attach, queue, lagged,
                 view, missed, unsignalled, outdated>>

-----------------------------------------------------------------------------
BroadcasterStep == Tick \/ Collect \/ Redraw \/ Send

ForwarderStep(c) == Forward(c) \/ Resync(c)

Next ==
  \/ ProcessOutput
  \/ MarkDirty
  \/ BroadcasterStep
  \/ Stop
  \/ Resize
  \/ \E c \in Client :
       TakeSnapshot(c) \/ Subscribe(c) \/ ForwarderStep(c) \/ Leave(c)

Spec == Init /\ [][Next]_vars

(* The daemon's own tasks run; output, resizes and clients need not.       *)
Fairness ==
  /\ WF_vars(MarkDirty)
  /\ WF_vars(BroadcasterStep)
  /\ \A c \in Client : WF_vars(ForwarderStep(c)) /\ WF_vars(Subscribe(c))

FairSpec == Spec /\ Fairness

-----------------------------------------------------------------------------
(* Nothing is on its way: no output unmarked, no tick under way or due, no *)
(* unread update.                                                          *)
Quiet ==
  /\ ~unmarked
  /\ broadcaster = "stopped" \/ (broadcaster = "idle" /\ ~dirty)
  /\ lagged = {}
  /\ \A c \in Client : queue[c] = <<>>

(* The parts a client may show stale: those that changed after its snapshot *)
(* and were dealt with before it subscribed, those sent as they were before *)
(* an attach's own resize, and what the end of the session left unsent.    *)
Excused(c) ==
  missed[c] \cup IF broadcaster = "stopped" THEN Damaged ELSE outdated

Agrees(c) == \A p \in Part : view[c][p] = screen[p] \/ p \in Excused(c)

(* Whatever the interleaving of output, resizes between the two readings   *)
(* of a redraw, ticks, lag, resync and replay of older updates, once       *)
(* nothing is on its way every attached client shows the screen, with its  *)
(* cursor and size, except for the excused parts.                          *)
QuietScreensAgree ==
  Quiet => \A c \in Client : attach[c] = "in" => Agrees(c)

(* No wakeup is lost between the flag and the damage: damage that no flag  *)
(* and no unfinished write announces is damage the broadcaster let pass    *)
(* with nobody listening, that an attach's own resize made, or that the    *)
(* terminal started with.                                                  *)
DamageIsSignalled ==
  ~dirty /\ ~unmarked /\ broadcaster = "idle" => Damaged \subseteq unsignalled

(* The daemon's tasks bring an attached client there: from some point on,  *)
(* when the output has ended, its screen agrees for as long as it stays.   *)
ScreensSettle == <>[](\A c \in Client : attach[c] = "in" => Agrees(c))

-----------------------------------------------------------------------------
(* docs/design/session-protocol.md: "The full snapshot in AttachOk is      *)
(* always current" and "incremental ScreenUpdate messages resume", so that *)
(* a client that stays attached shows the screen of a running session.     *)
AttachedIsCurrent ==
  Quiet /\ broadcaster # "stopped" =>
    \A c \in Client : attach[c] = "in" => view[c] = screen
=============================================================================
