--------------------------- MODULE StreamForward ---------------------------
(***************************************************************************)
(* runStreamForward of src/main.go with the goroutine around it: opens a   *)
(* stream at the host, reads it chunk by chunk through the rewriter, hands *)
(* every chunk it gives out to the plugin's stream, and closes both.  The  *)
(* upstream's text is cut into chunks anywhere; a call to the host may     *)
(* fail before or after it took effect, or panic.                          *)
(***************************************************************************)
EXTENDS StreamRewriter

CONSTANTS Streams,      \* the texts the upstream may send: [text, frame]
          MaxFaults     \* bound: calls that fail

ASSUME StreamsAssumption == Streams \subseteq [text : Seq(Letter), frame : BOOLEAN]

VARIABLES stream,       \* the text of this request and the host's content type
          pc,           \* where the goroutine is
          read,         \* how much of the text was read
          w,            \* the rewriter
          out,          \* what it gave out and is not handed over yet
          ended,        \* "no"; "done" or "error" once the upstream has ended
          emitted,      \* what the client has got
          host,         \* "none", "open", "closed": the host's stream
          told,         \* the closes of the plugin's stream: [error, answered]
          hostCloses, panicked, straight,    \* history
          faults        \* what MaxFaults bounds

streamVars == <<stream, pc, read, w, out, ended, emitted, host, told, hostCloses, panicked, straight, faults>>

StreamInit ==
  /\ stream \in Streams
  /\ w = NewRewriter(stream.frame)
  /\ pc = "open" /\ ended = "no" /\ host = "none"
  /\ read = 0 /\ hostCloses = 0 /\ faults = 0
  /\ out = <<>> /\ emitted = <<>> /\ told = <<>>
  /\ panicked = FALSE /\ straight = TRUE

(***************************************************************************)
(* A call to the host answers, or fails.                                   *)
(***************************************************************************)
Answered == UNCHANGED faults
Failed   == faults < MaxFaults /\ faults' = faults + 1

-----------------------------------------------------------------------------
(***************************************************************************)
(* A refused call, an error status and a missing stream id end here.       *)
(***************************************************************************)
Open ==
  /\ pc = "open"
  /\ \/ Answered /\ host' = "open" /\ pc' = "read"
     \/ Failed /\ pc' = "fail" /\ UNCHANGED host
  /\ UNCHANGED <<stream, read, w, out, ended, emitted, told, hostCloses, panicked, straight>>

(***************************************************************************)
(* One turn of the loop.  A chunk is straight if it does not begin, in the *)
(* middle of a line, with what a line may begin with.                      *)
(***************************************************************************)
GiveOut(r) ==
  /\ w' = r.w
  /\ out' = r.out
  /\ pc' = "emit"

Straight(before, chunk) == ~NeedsLineBreak(before, chunk)

ReadChunk ==
  /\ pc = "read" /\ Answered
  /\ \E to \in read + 1..Len(stream.text) :
       LET chunk == SubSeq(stream.text, read + 1, to)
       IN  /\ GiveOut(Write(w, chunk))
           /\ read' = to
           /\ straight' = (straight /\ Straight(SubSeq(stream.text, 1, read), chunk))
  /\ UNCHANGED <<stream, ended, emitted, host, told, hostCloses, panicked>>

\* Mutant of ReadEnd: what the rewriter holds is not flushed.
ReadEndUnflushed ==
  /\ pc = "read" /\ Answered
  /\ \/ read = Len(stream.text) /\ ended' = "done"
     \/ ended' = "error"
  /\ pc' = "emit"
  /\ UNCHANGED <<stream, read, w, out, emitted, host, told, hostCloses, panicked, straight>>

\* The upstream is done, or reports an error of its own: both flush.
ReadEnd ==
  /\ pc = "read" /\ Answered
  /\ \/ read = Len(stream.text) /\ ended' = "done"
     \/ ended' = "error"
  /\ GiveOut(Flush(w))
  /\ UNCHANGED <<stream, read, emitted, host, told, hostCloses, panicked, straight>>

\* Mutant of ReadFails: the failure leaves without closing the host's stream.
ReadFailsOpen ==
  /\ pc = "read" /\ Failed
  /\ pc' = "fail"
  /\ UNCHANGED <<stream, read, w, out, ended, emitted, host, told, hostCloses, panicked, straight>>

ReadFails ==
  /\ pc = "read" /\ Failed
  /\ pc' = "abort"
  /\ UNCHANGED <<stream, read, w, out, ended, emitted, host, told, hostCloses, panicked, straight>>

(***************************************************************************)
(* emit, until nothing is left to hand over.                               *)
(***************************************************************************)
Emit ==
  /\ pc = "emit" /\ out # <<>>
  /\ \/ Answered /\ pc' = pc
     \/ Failed /\ pc' = "abort"
  /\ \/ emitted' = emitted \o Head(out) /\ out' = Tail(out)
     \/ pc' = "abort" /\ UNCHANGED <<emitted, out>>
  /\ UNCHANGED <<stream, read, w, ended, host, told, hostCloses, panicked, straight>>

\* Mutant of EmitDone: the loop goes on reading after the upstream has ended.
EmitDoneReading ==
  /\ pc = "emit" /\ out = <<>>
  /\ pc' = "read"
  /\ UNCHANGED <<stream, read, w, out, ended, emitted, host, told, hostCloses, panicked, straight, faults>>

EmitDone ==
  /\ pc = "emit" /\ out = <<>>
  /\ pc' = IF ended = "no" THEN "read" ELSE "closeHost"
  /\ UNCHANGED <<stream, read, w, out, ended, emitted, host, told, hostCloses, panicked, straight, faults>>

(***************************************************************************)
(* closeHost: on the way out of a failure its result is ignored.           *)
(***************************************************************************)
CloseHost ==
  /\ pc \in {"abort", "closeHost"}
  /\ hostCloses' = hostCloses + 1
  /\ \/ Answered /\ host' = "closed" /\ pc' = IF pc = "abort" THEN "fail" ELSE "closePlugin"
     \/ Failed /\ host' \in {host, "closed"} /\ pc' = "fail"
  /\ UNCHANGED <<stream, read, w, out, ended, emitted, told, panicked, straight>>

(***************************************************************************)
(* closePlugin, and closeStream of the goroutine when anything failed.     *)
(***************************************************************************)
Close(error, answered) == told' = Append(told, [error |-> error, answered |-> answered])

ClosePlugin ==
  /\ pc = "closePlugin"
  /\ \/ Answered /\ Close(ended = "error", TRUE) /\ pc' = "done"
     \/ Failed /\ Close(ended = "error", FALSE) /\ pc' = "fail"
  /\ UNCHANGED <<stream, read, w, out, ended, emitted, host, hostCloses, panicked, straight>>

\* Mutant of Fail: the goroutine logs the failure and tells nobody.
FailQuietly ==
  /\ pc = "fail"
  /\ pc' = "done"
  /\ UNCHANGED <<stream, read, w, out, ended, emitted, host, told, hostCloses, panicked, straight, faults>>

Fail ==
  /\ pc = "fail"
  /\ \/ Answered /\ Close(TRUE, TRUE)
     \/ Failed /\ Close(TRUE, FALSE)
  /\ pc' = "done"
  /\ UNCHANGED <<stream, read, w, out, ended, emitted, host, hostCloses, panicked, straight>>

(***************************************************************************)
(* A panic anywhere in the forwarding is recovered by the goroutine.       *)
(***************************************************************************)
Panic ==
  /\ pc \in {"open", "read", "emit", "abort", "closeHost", "closePlugin"} /\ Failed
  /\ panicked' = TRUE
  /\ pc' = "fail"
  /\ UNCHANGED <<stream, read, w, out, ended, emitted, host, told, hostCloses, straight>>

StreamNext ==
  \/ Open \/ ReadChunk \/ ReadEnd \/ ReadFails
  \/ Emit \/ EmitDone \/ CloseHost \/ ClosePlugin \/ Fail \/ Panic

StreamSpec == StreamInit /\ [][StreamNext]_streamVars

(***************************************************************************)
(* Every call to the host returns, and the upstream's text is finite.      *)
(***************************************************************************)
FairStreamSpec == StreamSpec /\ WF_streamVars(StreamNext)

-----------------------------------------------------------------------------
(***************************************************************************)
(* What must get through, however the text is cut: everything but blanks,  *)
(* line breaks and the frame the rewriter itself may add, with the model   *)
(* name replaced.                                                          *)
(***************************************************************************)
Held == w.pending \o w.buf

Essence(p) ==
  LET frame == IF stream.frame THEN {"da", "ta:"} ELSE {}
      kept(c) == IF c \in White \cup frame THEN <<>> ELSE IF c = "M" THEN <<"O">> ELSE <<c>>
  IN  FlattenSeq([i \in DOMAIN p |-> kept(p[i])])

(***************************************************************************)
(* Nothing is lost, doubled or reordered between what was read and what    *)
(* was handed over, is waiting or is held by the rewriter: not by a cut    *)
(* inside a field name, not by the latch that makes a stream an event      *)
(* stream, not by the overflow of the buffer (streamChunkRewriter.Write).  *)
(***************************************************************************)
Conserved ==
  Essence(emitted \o FlattenSeq(out) \o Held) = Essence(SubSeq(stream.text, 1, read))

(***************************************************************************)
(* The client is told that its stream ended well only after it got all of  *)
(* what the upstream sent; the tail the rewriter held is flushed before.   *)
(***************************************************************************)
CleanCloseIsComplete ==
  \A i \in DOMAIN told : ~told[i].error => Essence(emitted) = Essence(stream.text)

(***************************************************************************)
(* However an event stream is cut, and wherever the upstream breaks off,   *)
(* the client gets what it would have got in one chunk, as long as no      *)
(* chunk looks like the beginning of a line it is not and the buffer holds.*)
(***************************************************************************)
InOneChunk(p) ==
  LET all == Write(NewRewriter(stream.frame), p)
  IN  FlattenSeq(all.out) \o FlattenSeq(Flush(all.w).out)

BeginsWithField == Begins(stream.text, {DataField, EventField, Comment})

ChunkingIndependent ==
  (ended # "no" /\ straight /\ ~w.over /\ BeginsWithField) =>
     emitted \o FlattenSeq(out) \o Held = InOneChunk(SubSeq(stream.text, 1, read))

(***************************************************************************)
(* When the goroutine is gone, a host stream that was opened was closed    *)
(* exactly once, whatever failed (a panic excepted: nothing closes it).    *)
(***************************************************************************)
HostClosedOnce ==
  (pc = "done" /\ ~panicked) => hostCloses = IF host = "none" THEN 0 ELSE 1

(***************************************************************************)
(* The plugin's stream is closed on every way out, and closed again only   *)
(* when the first close had no answer; what ended early says so.           *)
(***************************************************************************)
PluginTold ==
  /\ pc = "done" => told # <<>>
  /\ \A i \in 1..Len(told)-1 : ~told[i].answered
  /\ (pc = "done" /\ (ended # "done" \/ out # <<>>)) => Last(told).error

(***************************************************************************)
(* The goroutine ends: no failure leaves it waiting.                       *)
(***************************************************************************)
EveryStreamEnds == <>(pc = "done")

(***************************************************************************)
(* Restoring the model name works line by line: a text can be restored if  *)
(* every line of it that shows the upstream's name is a data line with a   *)
(* whole document.                                                         *)
(***************************************************************************)
Names(p) == \E i \in DOMAIN p : p[i] = "M"

IsLine(p, i, e) ==
  /\ i \in 1..Len(p)+1 /\ e \in i-1..Len(p)
  /\ i > 1 => p[i-1] = "n"
  /\ e < Len(p) => p[e+1] = "n"
  /\ \A j \in i..e : p[j] # "n"

DataLine(line) == IsPrefix(DataField, line) /\ IsDoc(SubSeq(line, Len(DataField) + 1, Len(line)))
Legible(line)  == Names(line) => DataLine(line)

InDocuments(p) ==
  \A i \in 1..Len(p)+1 : \A e \in i-1..Len(p) : IsLine(p, i, e) => Legible(SubSeq(p, i, e))

(***************************************************************************)
(* README: response model fields are restored to the client's name.  What  *)
(* the client has got of an event stream shows no other, at any moment and *)
(* however the text is cut, as long as the text can be restored, no chunk  *)
(* looks like the beginning of a line it is not and the buffer holds.  An  *)
(* error of the upstream's own is another matter: it flushes half a line.  *)
(***************************************************************************)
NamesRestored ==
  (straight /\ ~w.over /\ BeginsWithField /\ ended # "error" /\ InDocuments(stream.text)) => ~Names(emitted)

(***************************************************************************)
(* README: response model fields are restored to the client's name.  An    *)
(* event stream that ended well shows no other name, wherever it was cut.  *)
(***************************************************************************)
ModelRestored ==
  (pc = "done" /\ ended = "done" /\ ~w.over /\ faults = 0) => ~Names(emitted)

=============================================================================
