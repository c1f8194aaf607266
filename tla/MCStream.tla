-------------------------------- MODULE MCStream --------------------------------
(* Texts for StreamForward: event streams with a name, a comment and both    *)
(* kinds of line break; an event longer than the buffer; raw JSON.           *)
EXTENDS StreamForward

Line(value, break) == DataField \o value \o break
LF == <<"n">>
CRLF == <<"r", "n">>

Plain(text)  == [text |-> text, frame |-> FALSE]
Framed(text) == [text |-> text, frame |-> TRUE]

Events   == EventField \o <<"x">> \o LF \o Line(Doc("M"), LF) \o LF \o Line(<<"s">> \o Doc("M"), LF)
Windows  == Comment \o <<"x">> \o CRLF \o CRLF \o Line(Doc("M"), CRLF) \o CRLF \o IdField \o <<"x">> \o LF \o Line(Doc("M"), <<>>)
Overlong == Line(Doc("M"), LF) \o LF \o Line(<<"x", "x", "x">> \o Doc("M"), LF) \o LF
Values   == Doc("M") \o LF \o Doc("M")
Mixed    == <<"x">> \o LF \o Line(Doc("M"), LF) \o LF

MCStreams == {Plain(Events), Plain(Windows), Plain(Overlong), Plain(Values), Framed(Values), Plain(Mixed)}
MCLeaky   == {Plain(Line(Doc("M"), LF) \o LF)}
=============================================================================
