----------------------------- MODULE NotifyStack -----------------------------
(***************************************************************************)
(* The notification daemon (thermal-notify): D-Bus handlers put            *)
(* notifications into a locked queue (dbus.rs), the render loop drains it  *)
(* into a stack of cards (stack.rs), drops the cards whose timer has run   *)
(* out and draws the newest one (main.rs).  Acquiring the surface's        *)
(* texture may fail at any frame.                                          *)
(***************************************************************************)
EXTENDS Naturals, SequencesExt, FiniteSetsExt

CONSTANTS
  MaxNotification  \* bound: notifications

ASSUME NotifyAssumption == MaxNotification \in Nat

VARIABLES
  counter,         \* the next id handed out
  arrived,         \* Notify calls so far: a card is named by its number
  notifyQueue,     \* the shared NotificationQueue
  cards,           \* NotificationStack.slots, the top first
  fadedOut,        \* notifications whose alpha has reached 0
  onScreen,        \* the card the surface shows, 0 when it is transparent
  visible,         \* NotifySurface.visible
  renderLoop,      \* the render loop's next step
  clearLost        \* history: no texture for clear_transparent

notifyVars == <<counter, arrived, notifyQueue, cards, fadedOut, onScreen,
                visible, renderLoop, clearLost>>

Serial == 1 .. MaxNotification
Notification == [serial : Serial, id : Serial, timed : BOOLEAN]

NotifyTypeOK ==
  /\ counter \in 1 .. MaxNotification + 1
  /\ arrived \in 0 .. MaxNotification
  /\ notifyQueue \in Seq(Notification) /\ cards \in Seq(Notification)
  /\ fadedOut \subseteq Serial
  /\ onScreen \in {0} \cup Serial
  /\ renderLoop \in {"drain", "tick", "draw"}
  /\ {visible, clearLost} \subseteq BOOLEAN

NotifyInit ==
  /\ counter = 1 /\ arrived = 0
  /\ notifyQueue = <<>> /\ cards = <<>>
  /\ fadedOut = {}
  /\ onScreen = 0
  /\ visible = FALSE
  /\ renderLoop = "drain"
  /\ clearLost = FALSE

(* What retain and filter leave of a sequence: SelectSeq, by a set.        *)
Retained(s, keep) ==
  LET kept[i \in 0 .. Len(s)] ==
        IF i = 0 THEN <<>>
        ELSE IF s[i] \in keep THEN Append(kept[i - 1], s[i]) ELSE kept[i - 1]
  IN kept[Len(s)]

-----------------------------------------------------------------------------
(* Notify: replaces_id gives the id and replaces nothing.                  *)
Notify(replaces, timed) ==
  /\ arrived < MaxNotification
  /\ arrived' = arrived + 1
  /\ counter' = IF replaces = 0 THEN counter + 1 ELSE counter
  /\ notifyQueue' = Append(notifyQueue,
       [serial |-> arrived + 1, timed |-> timed,
        id |-> IF replaces = 0 THEN counter ELSE replaces])
  /\ UNCHANGED <<cards, fadedOut, onScreen, visible, renderLoop,
                 clearLost>>

(* CloseNotification: reaches what has not been drained yet.               *)
CloseNotification(id) ==
  /\ notifyQueue' = Retained(notifyQueue, {n \in Range(notifyQueue) : n.id # id})
  /\ UNCHANGED <<counter, arrived, cards, fadedOut, onScreen, visible,
                 renderLoop, clearLost>>

(* The deadline and the fade of a card have passed.                        *)
FadesOut(n) ==
  /\ n.timed /\ n.serial \notin fadedOut
  /\ fadedOut' = fadedOut \cup {n.serial}
  /\ UNCHANGED <<counter, arrived, notifyQueue, cards, onScreen, visible,
                 renderLoop, clearLost>>

-----------------------------------------------------------------------------
(* Fault: new cards go under the older ones.                               *)
PushedUnder(queued, stacked) == stacked \o queued

(* stack.push, for each notification in turn: on top.                      *)
Pushed(queued, stacked) == Reverse(queued) \o stacked

(* Fault: a new notification does not make the surface visible.            *)
StaysHidden == visible

Shows == visible \/ notifyQueue # <<>>

(* The queue is drained under its lock.                                    *)
Drain ==
  /\ renderLoop = "drain"
  /\ cards' = Pushed(notifyQueue, cards)
  /\ visible' = Shows
  /\ notifyQueue' = <<>>
  /\ renderLoop' = "tick"
  /\ UNCHANGED <<counter, arrived, fadedOut, onScreen, clearLost>>

(* The cards whose fade has not ended: iter_visible shows them, and tick   *)
(* keeps them.                                                             *)
InSight == Retained(cards, {n \in Range(cards) : n.serial \notin fadedOut})

TickStack ==
  /\ renderLoop = "tick"
  /\ cards' = InSight
  /\ renderLoop' = "draw"
  /\ UNCHANGED <<counter, arrived, notifyQueue, fadedOut, onScreen, visible, clearLost>>

(* The first card in sight is drawn; with none the surface is cleared, and *)
(* counts as cleared whether there was a texture or not.                   *)
Draw(texture) ==
  /\ renderLoop = "draw"
  /\ renderLoop' = "drain"
  /\ IF InSight # <<>>
       THEN /\ onScreen' = IF texture THEN Head(InSight).serial ELSE onScreen
            /\ UNCHANGED <<visible, clearLost>>
       ELSE /\ onScreen' = IF visible /\ texture THEN 0 ELSE onScreen
            /\ clearLost' = (clearLost \/ (visible /\ ~texture))
            /\ visible' = FALSE
  /\ UNCHANGED <<counter, arrived, notifyQueue, cards, fadedOut>>

NotifyNext ==
  \/ \E replaces \in 0 .. counter - 1, timed \in BOOLEAN :
       Notify(replaces, timed)
  \/ \E id \in 1 .. counter - 1 : CloseNotification(id)
  \/ \E n \in Range(cards) : FadesOut(n)
  \/ Drain \/ TickStack
  \/ \E texture \in BOOLEAN : Draw(texture)

NotifySpec == NotifyInit /\ [][NotifyNext]_notifyVars

-----------------------------------------------------------------------------
(* The newest notification in the queue or on the stack that has not       *)
(* faded out.                                                              *)
Newest ==
  LET staying == {n.serial : n \in Range(cards) \cup Range(notifyQueue)} \ fadedOut
  IN IF staying = {} THEN 0 ELSE Max(staying)

(* Whatever bursts, closes, expiries and failed frames there were, in the  *)
(* end the screen shows the newest notification still alive, or nothing.   *)
NewestIsShown == <>[](clearLost \/ onScreen = Newest)
=============================================================================
