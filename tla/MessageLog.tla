----------------------------- MODULE MessageLog -----------------------------
(***************************************************************************)
(* The message bus of the TUI (messages/mod.rs) and the log it keeps on    *)
(* disk (messages/persist.rs): every TUI process numbers its messages by   *)
(* itself, starting from what the log holds, keeps the last of them in a   *)
(* ring and writes all of them to the one log, buffered, which it renames  *)
(* away when it has seen enough lines.  One thread sends a process's       *)
(* messages, and the answers of the backends, one after the other.         *)
(***************************************************************************)
EXTENDS Naturals, Sequences, SequencesExt

CONSTANTS
  Tui,            \* TUI processes
  RingCap,        \* DEFAULT_RING_CAP
  FlushInterval,  \* FLUSH_INTERVAL
  MaxLines,       \* MAX_LINES
  MaxSent         \* bound: messages sent

ASSUME LogAssumption ==
  /\ {RingCap, FlushInterval, MaxLines} \subseteq Nat \ {0}
  /\ MaxSent \in Nat

VARIABLES
  tui,            \* each process: off, on or, having quit, flushing
  answerDue,      \* processes that owe a routed message its answer
  lastSeq,        \* MessageBus.seq
  ring,           \* the messages in the ring, by sequence number
  writer,         \* PersistWriter: the file written, what is buffered, counts
  files,          \* every file the log has been; the last one has its name
  sentCount,      \* how many messages were sent
  overlapped      \* history: two processes have had the log open at once

logVars == <<tui, answerDue, lastSeq, ring, writer, files, sentCount, overlapped>>

Writer == [file : 1 .. (MaxSent + 1), buffered : Seq(1 .. MaxSent),
           lineCount : Nat, sinceFlush : 0 .. FlushInterval]

LogTypeOK ==
  /\ tui \in [Tui -> {"off", "on", "flushing"}]
  /\ answerDue \subseteq Tui
  /\ lastSeq \in [Tui -> 0 .. MaxSent]
  /\ ring \in [Tui -> Seq(1 .. MaxSent)]
  /\ writer \in [Tui -> Writer]
  /\ files \in Seq(Seq(1 .. MaxSent))
  /\ sentCount \in 0 .. MaxSent
  /\ overlapped \in BOOLEAN

NoWriter == [file |-> 1, buffered |-> <<>>, lineCount |-> 0, sinceFlush |-> 0]

LogInit ==
  /\ tui = [p \in Tui |-> "off"]
  /\ answerDue = {}
  /\ lastSeq = [p \in Tui |-> 0]
  /\ ring = [p \in Tui |-> <<>>]
  /\ writer = [p \in Tui |-> NoWriter]
  /\ files = << <<>> >>
  /\ sentCount = 0
  /\ overlapped = FALSE

-----------------------------------------------------------------------------
LastOnes(s) == SubSeq(s, (IF Len(s) > RingCap THEN Len(s) - RingCap ELSE 0) + 1,
                      Len(s))

(* RingBuffer::push.                                                       *)
Push(s, seq) == LastOnes(Append(s, seq))

(* Fault: numbering goes on from the number of messages that were loaded.  *)
StartSeqOfCount(loaded) == Len(loaded)

(* Numbering goes on from the last message that was loaded.                *)
StartSeq(loaded) == IF loaded = <<>> THEN 0 ELSE Last(loaded)

(* MessageBus::new, with load_log and PersistWriter::open; a log that was  *)
(* renamed away is not read.                                               *)
OpenBus(p) ==
  /\ tui[p] = "off"
  /\ LET loaded == LastOnes(Last(files)) IN
     /\ lastSeq' = [lastSeq EXCEPT ![p] = StartSeq(loaded)]
     /\ ring' = [ring EXCEPT ![p] = loaded]
  /\ writer' = [writer EXCEPT ![p] =
       [NoWriter EXCEPT !.file = Len(files), !.lineCount = Len(Last(files))]]
  /\ tui' = [tui EXCEPT ![p] = "on"]
  /\ overlapped' = (overlapped \/ \E q \in Tui : tui[q] # "off")
  /\ UNCHANGED <<answerDue, files, sentCount>>

Flushed(w, on) == [on EXCEPT ![w.file] = @ \o w.buffered]

(* append, with its flush and its rotation: the rename takes whatever file *)
(* has the log's name, and the writer goes on in a new one.  BufWriter     *)
(* writes early what it holds when the new line does not fit.              *)
AppendLine(p, seq, early) ==
  LET old == writer[p]
      w == [file |-> old.file,
            buffered |-> Append(IF early THEN <<>> ELSE old.buffered, seq),
            lineCount |-> old.lineCount + 1, sinceFlush |-> old.sinceFlush + 1]
      flushes == w.sinceFlush >= FlushInterval
      rotates == w.lineCount >= MaxLines
      written == IF early THEN Flushed(old, files) ELSE files
  IN
  /\ files' = (IF flushes \/ rotates THEN Flushed(w, written) ELSE written)
              \o (IF rotates THEN << <<>> >> ELSE <<>>)
  /\ writer' = [writer EXCEPT ![p] =
       CASE rotates -> [NoWriter EXCEPT !.file = Len(files) + 1]
         [] flushes /\ ~rotates -> [w EXCEPT !.buffered = <<>>, !.sinceFlush = 0]
         [] OTHER -> w]

(* The steps every message takes: number, ring, log.                       *)
Ingest(p, early) ==
  /\ sentCount < MaxSent
  /\ sentCount' = sentCount + 1
  /\ lastSeq' = [lastSeq EXCEPT ![p] = @ + 1]
  /\ ring' = [ring EXCEPT ![p] = Push(@, lastSeq'[p])]
  /\ AppendLine(p, lastSeq'[p], early)
  /\ UNCHANGED <<tui, overlapped>>

(* send: route_message answers a routed message, if only with an error; a  *)
(* broadcast, an acknowledgement or a status has no answer.                *)
SendMessage(p, routed, early) ==
  /\ tui[p] # "off" /\ p \notin answerDue
  /\ Ingest(p, early)
  /\ answerDue' = IF routed THEN answerDue \cup {p} ELSE answerDue

(* ingest_response, before the next message is taken.                      *)
IngestResponse(p, early) ==
  /\ tui[p] # "off" /\ p \in answerDue
  /\ Ingest(p, early)
  /\ answerDue' = answerDue \ {p}

(* What the process has in memory goes with it.                            *)
Forgets(p) ==
  /\ tui' = [tui EXCEPT ![p] = "off"]
  /\ writer' = [writer EXCEPT ![p] = NoWriter]
  /\ ring' = [ring EXCEPT ![p] = <<>>]
  /\ lastSeq' = [lastSeq EXCEPT ![p] = 0]

(* The page's end of the channel goes; the thread sends what is queued and *)
(* flushes, unless the process ends first: nothing joins the thread.       *)
Quit(p) ==
  /\ tui[p] = "on"
  /\ tui' = [tui EXCEPT ![p] = "flushing"]
  /\ UNCHANGED <<answerDue, lastSeq, ring, writer, files, sentCount, overlapped>>

FlushPersist(p) ==
  /\ tui[p] = "flushing" /\ p \notin answerDue
  /\ files' = Flushed(writer[p], files)
  /\ Forgets(p)
  /\ UNCHANGED <<answerDue, sentCount, overlapped>>

(* The process ends, by a crash or ahead of the flush.                     *)
ProcessEnds(p) ==
  /\ tui[p] # "off"
  /\ Forgets(p)
  /\ answerDue' = answerDue \ {p}
  /\ UNCHANGED <<files, sentCount, overlapped>>

LogNext ==
  \E p \in Tui :
    \/ OpenBus(p) \/ Quit(p) \/ FlushPersist(p) \/ ProcessEnds(p)
    \/ \E routed, early \in BOOLEAN : SendMessage(p, routed, early)
    \/ \E early \in BOOLEAN : IngestResponse(p, early)

LogSpec == LogInit /\ [][LogNext]_logVars

-----------------------------------------------------------------------------
Increasing(s) == \A i, j \in 1 .. Len(s) : i < j => s[i] < s[j]

(* A message's number orders it: in the ring of a process and in every     *)
(* file of the log the numbers increase, through crashes that lose what    *)
(* was buffered, restarts and rotations, as long as no two processes have  *)
(* had the log open at once.                                               *)
NumbersIncrease ==
  ~overlapped =>
    /\ \A p \in Tui : Increasing(ring[p])
    /\ \A i \in 1 .. Len(files) : Increasing(files[i])
=============================================================================
