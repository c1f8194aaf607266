--------------------------- MODULE StreamRewriter ---------------------------
(***************************************************************************)
(* The rewriter of src/main.go that puts the client's model name back into *)
(* a response stream: streamChunkRewriter, which decides chunk by chunk    *)
(* whether the stream is server-sent events or raw JSON, and sseRewriter,  *)
(* which collects events across chunks.                                    *)
(*                                                                         *)
(* A stream is a sequence of pieces of text: "da" "ta:" and "ev" "ent:"    *)
(* are the two halves of a field name, "id:" is one in a piece, ":" a      *)
(* colon, "n" and "r" the line breaks, "s" a blank, "x" other text.  A     *)
(* JSON value with a model field is { : m } where m is "M", the upstream's *)
(* name, or "O", the client's.                                             *)
(***************************************************************************)
EXTENDS Integers, Sequences, SequencesExt

CONSTANT MaxBuffer      \* maxSSEBufferBytes

Letter == {"da", "ta:", "ev", "ent:", "id:", ":", "n", "r", "s", "x", "{", "}", "M", "O"}

ASSUME MaxBufferAssumption == MaxBuffer \in Nat

DataField  == <<"da", "ta:">>
EventField == <<"ev", "ent:">>
IdField    == <<"id:">>
Comment    == <<":">>
White      == {"s", "n", "r"}

Doc(m) == <<"{", ":", m, "}">>
Solid(p) == FlattenSeq([i \in DOMAIN p |-> IF p[i] \in White THEN <<>> ELSE <<p[i]>>])
IsDoc(p) == \E m \in {"M", "O"} : Solid(p) = Doc(m)

TrimLeft(p, blanks) ==
  LET solid == {i \in DOMAIN p : p[i] \notin blanks}
  IN  IF solid = {} THEN <<>> ELSE SubSeq(p, CHOOSE i \in solid : \A j \in solid : i <= j, Len(p))

(***************************************************************************)
(* isSSEChunk, isIncompleteSSEPrefix and sseNeedsLineBreak look at the     *)
(* field a chunk begins with.                                              *)
(***************************************************************************)
Begins(p, fields) == \E f \in fields : IsPrefix(f, p)

IsSSEChunk(p) ==
  \/ Begins(TrimLeft(p, White), {DataField, EventField, Comment})
  \/ \E d \in {<<"n", "n">>, <<"r", "n", "r", "n">>} : \E i \in 0..Len(p)-Len(d) : SubSeq(p, i+1, i+Len(d)) = d

\* Mutant of IsIncompletePrefix: half a field name is taken for other text.
IsIncompleteNever(p) == FALSE

IsIncompletePrefix(p) ==
  LET t == TrimLeft(p, White)
  IN  t # <<>> /\ \E f \in {DataField, EventField} : IsStrictPrefix(t, f)

NeedsLineBreak(held, chunk) ==
  /\ held # <<>> /\ chunk # <<>>
  /\ Last(held) \notin {"n", "r"} /\ chunk[1] \notin {"n", "r"}
  /\ Begins(TrimLeft(chunk, {"s"}), {DataField, EventField, IdField, Comment})

-----------------------------------------------------------------------------
(***************************************************************************)
(* sseEventDelimiter: where the first event ends and how long the blank    *)
(* line after it is; len 0 when no event is complete.                      *)
(***************************************************************************)
Delimiter(buf) ==
  LET blank == {<<"n", "n">>, <<"r", "n", "r", "n">>}
      ends  == {e \in (0..Len(buf)) \X blank :
                  e[1] + Len(e[2]) <= Len(buf) /\ SubSeq(buf, e[1] + 1, e[1] + Len(e[2])) = e[2]}
      first == CHOOSE e \in ends : \A f \in ends : e[1] <= f[1]
  IN  IF ends = {} THEN [at |-> 0, text |-> <<>>] ELSE [at |-> first[1], text |-> first[2]]

(***************************************************************************)
(* rewriteEvent, line by line: a data line that holds a JSON value with a  *)
(* model field is written anew, any other line as it came.  A carriage     *)
(* return belongs to the line break, and is lost where there is none.      *)
(***************************************************************************)
RewriteLine(line, break) ==
  LET cr    == line # <<>> /\ Last(line) = "r"
      text  == IF cr THEN Front(line) ELSE line
      end   == IF cr /\ break # <<>> THEN <<"r", "n">> ELSE break
      value == SubSeq(text, Len(DataField) + 1, Len(text))
  IN  IF IsPrefix(DataField, text) /\ IsDoc(value)
      THEN DataField \o <<"s">> \o Doc("O") \o end
      ELSE text \o end

RewriteEvent(event) ==
  LET from[i \in 1..Len(event)+1] ==
        LET breaks == {e \in i..Len(event) : event[e] = "n"}
            end == CHOOSE e \in breaks : \A f \in breaks : e <= f
        IN  IF breaks = {} THEN RewriteLine(SubSeq(event, i, Len(event)), <<>>)
            ELSE RewriteLine(SubSeq(event, i, end - 1), <<"n">>) \o from[end + 1]
  IN  from[1]

(***************************************************************************)
(* The state of a rewriter, and what a call leaves behind and hands out.   *)
(***************************************************************************)
NewRewriter(frame) == [buf |-> <<>>, over |-> FALSE, pending |-> <<>>, sse |-> FALSE, frame |-> frame]

(***************************************************************************)
(* sseRewriter.Write: complete events leave the buffer; a buffer above the *)
(* cap is released as it is and the rest of the stream with it.            *)
(***************************************************************************)
SSEWrite(w, p) ==
  LET held == (IF NeedsLineBreak(w.buf, p) THEN Append(w.buf, "n") ELSE w.buf) \o p
      take[buf \in Seq(Letter)] ==
        LET d == Delimiter(buf)
            rest == take[SubSeq(buf, d.at + Len(d.text) + 1, Len(buf))]
        IN  IF d.text = <<>> THEN [buf |-> buf, out |-> <<>>]
            ELSE [rest EXCEPT !.out = <<RewriteEvent(SubSeq(buf, 1, d.at)) \o d.text>> \o rest.out]
      t == take[held]
  IN  CASE w.over -> [w |-> w, out |-> <<p>>]
        [] ~w.over /\ Len(t.buf) > MaxBuffer -> [w |-> [w EXCEPT !.buf = <<>>, !.over = TRUE], out |-> Append(t.out, t.buf)]
        [] OTHER -> [w |-> [w EXCEPT !.buf = t.buf], out |-> t.out]

\* Mutant of SSEFlush: the last event, which nothing ends, passes as it came.
SSEFlushRaw(w) ==
  [w |-> [w EXCEPT !.buf = <<>>], out |-> IF w.buf = <<>> THEN <<>> ELSE <<w.buf>>]

SSEFlush(w) ==
  [w |-> [w EXCEPT !.buf = <<>>],
   out |-> IF w.buf = <<>> THEN <<>> ELSE <<IF w.over THEN w.buf ELSE RewriteEvent(w.buf)>>]

(***************************************************************************)
(* rawJSONChunks: a chunk of whole JSON values is handed out value by      *)
(* value, each framed as an event where the client expects events;         *)
(* anything else passes.                                                   *)
(***************************************************************************)
RawChunks(w, p) ==
  LET solid == Solid(p)
      n     == Len(solid) \div 4
      value(k) == SubSeq(solid, 4 * k - 3, 4 * k)
      framed(v) == IF w.frame THEN DataField \o <<"s">> \o v \o <<"n", "n">> ELSE v
  IN  IF Len(solid) = 4 * n /\ \A k \in 1..n : IsDoc(value(k))
      THEN [k \in 1..n |-> framed(Doc("O"))]
      ELSE <<p>>

(***************************************************************************)
(* streamChunkRewriter.Write and Flush.                                    *)
(***************************************************************************)
\* Mutant of Write: every chunk is classified anew, without the latch.
WriteUnlatched(w0, chunk) ==
  LET p == w0.pending \o chunk
      w == [w0 EXCEPT !.pending = <<>>]
  IN  CASE IsSSEChunk(p) -> SSEWrite(w, p)
        [] ~IsSSEChunk(p) /\ IsIncompletePrefix(p) -> [w |-> [w EXCEPT !.pending = p], out |-> <<>>]
        [] OTHER -> [w |-> w, out |-> RawChunks(w, p)]

Write(w0, chunk) ==
  LET p == w0.pending \o chunk
      w == [w0 EXCEPT !.pending = <<>>]
  IN  CASE w.sse \/ w.buf # <<>> \/ IsSSEChunk(p) -> SSEWrite([w EXCEPT !.sse = TRUE], p)
        [] ~(w.sse \/ w.buf # <<>> \/ IsSSEChunk(p)) /\ IsIncompletePrefix(p) -> [w |-> [w EXCEPT !.pending = p], out |-> <<>>]
        [] OTHER -> [w |-> w, out |-> RawChunks(w, p)]

Flush(w) ==
  LET first == SSEWrite([w EXCEPT !.pending = <<>>], w.pending)
      rest  == SSEFlush(first.w)
  IN  IF w.pending = <<>> THEN SSEFlush(w) ELSE [w |-> rest.w, out |-> first.out \o rest.out]

=============================================================================
