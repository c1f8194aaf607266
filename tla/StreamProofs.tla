---------------------------- MODULE StreamProofs ----------------------------
(***************************************************************************)
(* What runStreamForward owes its two streams, for every text, every way   *)
(* to cut it and every number of failing calls: first how they are closed, *)
(* then that no text is lost, then that the cuts do not show, and last     *)
(* that the model names do not show either.                                *)
(***************************************************************************)
EXTENDS StreamForward, Inductions

Forwarding == {"read", "emit", "closeHost", "abort"}

(***************************************************************************)
(* The host's stream: not opened, open and never closed, closed once; only *)
(* a panic leaves another way.                                             *)
(***************************************************************************)
HostSide ==
  /\ pc \in Forwarding \cup {"open", "closePlugin", "fail", "done"}
  /\ pc = "open" => host = "none" /\ hostCloses = 0
  /\ pc \in Forwarding => host = "open" /\ hostCloses = 0
  /\ pc = "closePlugin" => host = "closed" /\ hostCloses = 1
  /\ (pc \in {"fail", "done"} /\ ~panicked) => hostCloses = IF host = "none" THEN 0 ELSE 1

LEMMA HostSideInit == StreamInit => HostSide
BY DEF StreamInit, HostSide, Forwarding

LEMMA HostSideStep == HostSide /\ [StreamNext]_streamVars => HostSide'
<1> SUFFICES ASSUME HostSide, [StreamNext]_streamVars PROVE HostSide'
  OBVIOUS
<1>1. CASE Open
  BY <1>1 DEF Open, HostSide, Forwarding
<1>2. CASE ReadChunk
  BY <1>2 DEF ReadChunk, GiveOut, HostSide, Forwarding
<1>3. CASE ReadEnd
  BY <1>3 DEF ReadEnd, GiveOut, HostSide, Forwarding
<1>4. CASE ReadFails
  BY <1>4 DEF ReadFails, HostSide, Forwarding
<1>5. CASE Emit
  BY <1>5 DEF Emit, HostSide, Forwarding
<1>6. CASE EmitDone
  BY <1>6 DEF EmitDone, HostSide, Forwarding
<1>7. CASE CloseHost
  BY <1>7 DEF CloseHost, HostSide, Forwarding
<1>8. CASE ClosePlugin
  BY <1>8 DEF ClosePlugin, HostSide, Forwarding
<1>9. CASE Fail
  BY <1>9 DEF Fail, HostSide, Forwarding
<1>10. CASE Panic
  BY <1>10 DEF Panic, HostSide, Forwarding
<1>11. CASE UNCHANGED streamVars
  BY <1>11 DEF streamVars, HostSide, Forwarding
<1> QED
  BY <1>1, <1>2, <1>3, <1>4, <1>5, <1>6, <1>7, <1>8, <1>9, <1>10, <1>11 DEF StreamNext

(***************************************************************************)
(* Whatever fails on the way, and however often, the goroutine leaves no   *)
(* host stream open and closes none twice (runStreamForward, closeHost).   *)
(***************************************************************************)
THEOREM HostStreamClosed == StreamSpec => []HostClosedOnce
<1>1. HostSide => HostClosedOnce
  BY DEF HostSide, HostClosedOnce
<1> QED
  BY <1>1, HostSideInit, HostSideStep, PTL DEF StreamSpec

-----------------------------------------------------------------------------
(***************************************************************************)
(* The plugin's stream: untouched while forwarding; where the goroutine    *)
(* reports a failure, closed at most once and then without an answer; at   *)
(* the end closed, and closed well only after everything was handed over.  *)
(***************************************************************************)
Closes == [error : BOOLEAN, answered : BOOLEAN]

PluginSide ==
  /\ told \in Seq(Closes)
  /\ pc \in Forwarding \cup {"open", "closePlugin", "fail", "done"}
  /\ ended \in {"no", "done", "error"}
  /\ pc \in {"closeHost", "closePlugin"} => ended # "no" /\ out = <<>>
  /\ pc \notin {"fail", "done"} => told = <<>>
  /\ pc = "fail" => Len(told) <= 1 /\ \A i \in 1..Len(told) : ~told[i].answered
  /\ pc = "done" => /\ told # <<>>
                    /\ \A i \in 1..Len(told)-1 : ~told[i].answered
                    /\ (ended # "done" \/ out # <<>>) => told[Len(told)].error

LEMMA PluginSideInit == StreamInit => PluginSide
BY DEF StreamInit, PluginSide, Forwarding

(***************************************************************************)
(* One more close.                                                         *)
(***************************************************************************)
LEMMA Closed ==
  ASSUME NEW before \in Seq(Closes), NEW c \in Closes, NEW after, after = Append(before, c)
  PROVE  /\ after \in Seq(Closes) /\ after # <<>> /\ Len(after) = Len(before) + 1
         /\ after[Len(after)] = c
         /\ \A i \in 1..Len(before) : after[i] = before[i]
OBVIOUS

LEMMA PluginSideStep == PluginSide /\ [StreamNext]_streamVars => PluginSide'
<1> SUFFICES ASSUME PluginSide, [StreamNext]_streamVars PROVE PluginSide'
  OBVIOUS
<1>1. CASE Open
  BY <1>1 DEF Open, PluginSide, Forwarding
<1>2. CASE ReadChunk
  BY <1>2 DEF ReadChunk, GiveOut, PluginSide, Forwarding
<1>3. CASE ReadEnd
  BY <1>3 DEF ReadEnd, GiveOut, PluginSide, Forwarding
<1>4. CASE ReadFails
  BY <1>4 DEF ReadFails, PluginSide, Forwarding
<1>5. CASE Emit
  BY <1>5 DEF Emit, PluginSide, Forwarding
<1>6. CASE EmitDone
  BY <1>6 DEF EmitDone, PluginSide, Forwarding
<1>7. CASE CloseHost
  BY <1>7 DEF CloseHost, PluginSide, Forwarding
<1>8. CASE ClosePlugin
  <2>1. told = <<>> /\ ended # "no" /\ out = <<>>
    BY <1>8 DEF ClosePlugin, PluginSide
  <2>2. PICK answered \in BOOLEAN : /\ Close(ended = "error", answered)
                                    /\ pc' = IF answered THEN "done" ELSE "fail"
    BY <1>8 DEF ClosePlugin
  <2> DEFINE c == [error |-> (ended = "error"), answered |-> answered]
  <2>3. c \in Closes /\ told' = Append(told, c) /\ told \in Seq(Closes)
    BY <2>2 DEF Close, Closes, PluginSide
  <2>4. c.error = (ended = "error") /\ c.answered = answered
    OBVIOUS
  <2> HIDE DEF c
  <2>5. told' \in Seq(Closes) /\ told' # <<>> /\ Len(told') = 1 /\ told'[1] = c
    BY <2>1, <2>3, Closed
  <2> QED
    BY <1>8, <2>1, <2>2, <2>4, <2>5 DEF ClosePlugin, PluginSide, Forwarding
<1>9. CASE Fail
  <2>1. PICK answered \in BOOLEAN : Close(TRUE, answered)
    BY <1>9 DEF Fail
  <2> DEFINE c == [error |-> TRUE, answered |-> answered]
  <2>0. c \in Closes /\ c.error /\ told' = Append(told, c) /\ told \in Seq(Closes)
    BY <2>1 DEF Close, Closes, PluginSide
  <2> HIDE DEF c
  <2>2. /\ told' \in Seq(Closes) /\ told' # <<>> /\ Len(told') = Len(told) + 1
        /\ told'[Len(told')].error
        /\ \A i \in 1..Len(told) : told'[i] = told[i]
    BY <2>0, Closed
  <2>3. \A i \in 1..Len(told')-1 : ~told'[i].answered
    BY <1>9, <2>2 DEF Fail, PluginSide
  <2> QED
    BY <1>9, <2>2, <2>3 DEF Fail, PluginSide, Forwarding
<1>10. CASE Panic
  BY <1>10 DEF Panic, PluginSide, Forwarding
<1>11. CASE UNCHANGED streamVars
  BY <1>11 DEF streamVars, PluginSide, Forwarding
<1> QED
  BY <1>1, <1>2, <1>3, <1>4, <1>5, <1>6, <1>7, <1>8, <1>9, <1>10, <1>11 DEF StreamNext

(***************************************************************************)
(* No way out of the forwarding, a panic included, leaves the client       *)
(* waiting for an end, and none presents a stream that broke off as one    *)
(* that ended well (closePlugin, closeStream).                             *)
(***************************************************************************)
THEOREM PluginStreamTold == StreamSpec => []PluginTold
<1>1. PluginSide => PluginTold
  BY DEF PluginSide, PluginTold, Last
<1> QED
  BY <1>1, PluginSideInit, PluginSideStep, PTL DEF StreamSpec

-----------------------------------------------------------------------------
(***************************************************************************)
(* What the rewriter keeps of a text, seen with a coding that drops the    *)
(* blanks and the line breaks, and the frame where the rewriter adds one,  *)
(* and does not tell the two model names apart.                            *)
(***************************************************************************)
Text == Seq(Letter)

Blind(h, frame) ==
  /\ h \in Codings(Letter, Text)
  /\ \A c \in White : h[c] = <<>>
  /\ h["M"] = h["O"]
  /\ frame => h["da"] = <<>> /\ h["ta:"] = <<>>

LEMMA Letters ==
  /\ White \subseteq Letter /\ "n" \in White /\ "r" \in White /\ "s" \in White
  /\ "n" \in Letter /\ "r" \in Letter /\ "s" \in Letter /\ "da" \in Letter /\ "ta:" \in Letter
  /\ "{" \in Letter /\ ":" \in Letter /\ "M" \in Letter /\ "O" \in Letter /\ "}" \in Letter
<1>1. "n" \in Letter /\ "r" \in Letter /\ "s" \in Letter /\ "da" \in Letter /\ "ta:" \in Letter
  BY DEF Letter
<1>2. "{" \in Letter /\ ":" \in Letter /\ "M" \in Letter /\ "O" \in Letter /\ "}" \in Letter
  BY DEF Letter
<1> QED
  BY <1>1, <1>2 DEF White

(***************************************************************************)
(* Short texts.                                                            *)
(***************************************************************************)
LEMMA ShortSeqs ==
  ASSUME NEW T, NEW a \in T, NEW b \in T, NEW c \in T, NEW d \in T
  PROVE  /\ <<a>> \in Seq(T) /\ <<a, b>> \in Seq(T) /\ <<a, b, c, d>> \in Seq(T)
         /\ <<a>> \o <<b>> = <<a, b>>
<1>1. <<a>> \in Seq(T) /\ <<b>> \in Seq(T) /\ <<a, b>> \in Seq(T) /\ <<a, b, c, d>> \in Seq(T)
  OBVIOUS
<1> DEFINE s == <<a>> \o <<b>>
           t == <<a, b>>
<1>2. s \in Seq(T) /\ Len(s) = 2 /\ s[1] = a /\ s[2] = b
  OBVIOUS
<1>3. t \in Seq(T) /\ Len(t) = 2 /\ t[1] = a /\ t[2] = b
  OBVIOUS
<1>4. s = t
  <2> HIDE DEF s, t
  <2> QED
    BY <1>2, <1>3, SeqEqual
<1> QED
  BY <1>1, <1>4

LEMMA TextParts ==
  ASSUME NEW p \in Text, NEW m \in Nat, NEW n \in Nat, n <= Len(p)
  PROVE  SubSeq(p, m + 1, n) \in Text
BY DEF Text

LEMMA BlindText ==
  ASSUME NEW h, NEW frame, Blind(h, frame)
  PROVE  /\ Coded(h, <<>>) = <<>>
         /\ \A p, q \in Text : /\ p \o q \in Text /\ Coded(h, p) \in Text
                              /\ Coded(h, p \o q) = Coded(h, p) \o Coded(h, q)
<1> SUFFICES ASSUME NEW p \in Text, NEW q \in Text
             PROVE  /\ Coded(h, <<>>) = <<>> /\ p \o q \in Text /\ Coded(h, p) \in Text
                    /\ Coded(h, p \o q) = Coded(h, p) \o Coded(h, q)
  BY CodedEmpty
<1>1. h \in Codings(Letter, Seq(Letter)) /\ p \in Seq(Letter) /\ q \in Seq(Letter)
  BY DEF Blind, Text
<1>2. p \o q \in Text
  BY DEF Text
<1> QED
  BY <1>1, <1>2, CodedType, CodedEmpty, CodedConcat DEF Text

LEMMA BlindLetter ==
  ASSUME NEW h, NEW frame, Blind(h, frame), NEW c \in Letter
  PROVE  <<c>> \in Text /\ Coded(h, <<c>>) = h[c] /\ h[c] \in Text /\ (c \in White => Coded(h, <<c>>) = <<>>)
<1>1. h \in Codings(Letter, Seq(Letter))
  BY DEF Blind, Text
<1>2. <<c>> \in Text
  BY DEF Text
<1>3. Coded(h, <<c>>) = h[c] /\ h[c] \in Text
  BY <1>1, CodedOne DEF Codings, Text
<1> QED
  BY <1>2, <1>3 DEF Blind

LEMMA SolidCoded ==
  ASSUME NEW h, NEW frame, Blind(h, frame), NEW p \in Text
  PROVE  Solid(p) \in Text /\ Coded(h, Solid(p)) = Coded(h, p)
<1> DEFINE g == [c \in Letter |-> IF c \in White THEN <<>> ELSE <<c>>]
<1>1. g \in Codings(Letter, Seq(Letter)) /\ h \in Codings(Letter, Seq(Letter))
  BY DEF Codings, Text, Blind
<1>2. [i \in DOMAIN p |-> IF p[i] \in White THEN <<>> ELSE <<p[i]>>] = Mapped(g, p)
  BY DEF Text, Mapped
<1>3. Solid(p) = Coded(g, p)
  BY <1>2 DEF Solid, Coded
<1>4. ASSUME NEW c \in Letter PROVE Coded(h, g[c]) = h[c]
  <2>1. CASE c \in White
    BY <2>1, CodedEmpty DEF Blind
  <2>2. CASE c \notin White
    BY <2>2, BlindLetter
  <2> QED
    BY <2>1, <2>2
<1> HIDE DEF g
<1>5. p \in Seq(Letter)
  BY DEF Text
<1>6. Coded(g, p) \in Seq(Letter)
  BY <1>1, <1>5, CodedType
<1>7. Coded(h, Coded(g, p)) = Coded(h, p)
  BY <1>1, <1>4, <1>5, CodedTwice
<1> QED
  BY <1>3, <1>6, <1>7 DEF Text

(***************************************************************************)
(* The two model names, and a value that holds one of them.                *)
(***************************************************************************)
LEMMA DocCoded ==
  ASSUME NEW h, NEW frame, Blind(h, frame)
  PROVE  /\ Doc("M") \in Text /\ Doc("O") \in Text
         /\ Coded(h, Doc("M")) = Coded(h, Doc("O"))
         /\ \A p \in Text : IsDoc(p) => Coded(h, p) = Coded(h, Doc("O"))
<1>1. Doc("M") \in Text /\ Doc("O") \in Text
  BY Letters, ShortSeqs DEF Doc, Text
<1>2. ASSUME NEW g, g["M"] = g["O"] PROVE Mapped(g, Doc("M")) = Mapped(g, Doc("O"))
  <2>1. DOMAIN Doc("M") = 1..4 /\ DOMAIN Doc("O") = 1..4
    BY DEF Doc
  <2>2. ASSUME NEW i \in 1..4 PROVE g[Doc("M")[i]] = g[Doc("O")[i]]
    <3>1. i = 1 \/ i = 2 \/ i = 3 \/ i = 4
      OBVIOUS
    <3>2. Doc("M")[1] = Doc("O")[1] /\ Doc("M")[2] = Doc("O")[2] /\ Doc("M")[4] = Doc("O")[4]
      BY DEF Doc
    <3>3. Doc("M")[3] = "M" /\ Doc("O")[3] = "O"
      BY DEF Doc
    <3> QED
      BY <1>2, <3>1, <3>2, <3>3
  <2> QED
    BY <2>1, <2>2 DEF Mapped
<1>3. Doc("M") \in Text /\ Doc("O") \in Text /\ Coded(h, Doc("M")) = Coded(h, Doc("O"))
  BY <1>1, <1>2 DEF Blind, Coded
<1>4. ASSUME NEW p \in Text, IsDoc(p) PROVE Coded(h, p) = Coded(h, Doc("O"))
  BY <1>3, <1>4, SolidCoded DEF IsDoc
<1> QED
  BY <1>3, <1>4

(***************************************************************************)
(* A text and a cut of it.                                                 *)
(***************************************************************************)
LEMMA Cut ==
  ASSUME NEW h, NEW frame, Blind(h, frame), NEW p \in Text,
         NEW m \in 1..Len(p)+1, NEW k \in m-1..Len(p), NEW n \in k..Len(p)
  PROVE  /\ SubSeq(p, m, k) \in Text /\ SubSeq(p, k + 1, n) \in Text /\ SubSeq(p, m, n) \in Text
         /\ Coded(h, SubSeq(p, m, n)) = Coded(h, SubSeq(p, m, k)) \o Coded(h, SubSeq(p, k + 1, n))
<1>1. SubSeq(p, m, k) \in Text /\ SubSeq(p, k + 1, n) \in Text /\ SubSeq(p, m, n) \in Text
  BY DEF Text
<1>2. SubSeq(p, m, n) = SubSeq(p, m, k) \o SubSeq(p, k + 1, n)
  BY ConcatAdjacentSubSeq DEF Text
<1>3. \A q, v \in Text : Coded(h, q \o v) = Coded(h, q) \o Coded(h, v)
  BY BlindText
<1> QED
  BY <1>1, <1>2, <1>3, Zenon

LEMMA CutAt ==
  ASSUME NEW h, NEW frame, Blind(h, frame), NEW p \in Text, NEW m \in 1..Len(p), NEW k \in m..Len(p), p[k] \in White
  PROVE  Coded(h, SubSeq(p, m, Len(p))) = Coded(h, SubSeq(p, m, k - 1)) \o Coded(h, SubSeq(p, k + 1, Len(p)))
<1>1. Len(p) \in Nat /\ p \in Seq(Letter)
  BY DEF Text
<1> DEFINE j == k - 1
<1>2. j \in m-1..Len(p) /\ Len(p) \in j..Len(p) /\ m \in 1..Len(p)+1 /\ j + 1 = k
  BY <1>1
<1>3. Coded(h, SubSeq(p, m, Len(p))) = Coded(h, SubSeq(p, m, j)) \o Coded(h, SubSeq(p, j + 1, Len(p)))
  <2> HIDE DEF j
  <2> QED
    BY <1>2, Cut
<1>4. k \in 1..Len(p)+1 /\ k \in k-1..Len(p) /\ Len(p) \in k..Len(p)
  BY <1>1
<1>5. Coded(h, SubSeq(p, k, Len(p))) = Coded(h, SubSeq(p, k, k)) \o Coded(h, SubSeq(p, k + 1, Len(p)))
  <2>1. \A a \in 1..Len(p)+1 : \A b \in a-1..Len(p) : \A c \in b..Len(p) :
           Coded(h, SubSeq(p, a, c)) = Coded(h, SubSeq(p, a, b)) \o Coded(h, SubSeq(p, b + 1, c))
    BY Cut
  <2> QED
    BY <1>4, <2>1, Zenon
<1>6. Coded(h, SubSeq(p, k, k)) = <<>>
  <2>1. SubSeq(p, k, k) = <<p[k]>>
    <3> DEFINE a == SubSeq(p, k, k)
               b == <<p[k]>>
    <3>1. a \in Seq(Letter) /\ Len(a) = 1 /\ a[1] = p[k]
      BY <1>1
    <3>2. b \in Seq(Letter) /\ Len(b) = 1 /\ b[1] = p[k]
      BY <1>1
    <3>3. a = b
      <4> HIDE DEF a, b
      <4> QED
        BY <3>1, <3>2, SeqEqual
    <3> QED
      BY <3>3
  <2>2. p[k] \in Letter
    BY <1>1
  <2> QED
    BY <2>1, <2>2, BlindLetter
<1>7. <<>> \o Coded(h, SubSeq(p, k + 1, Len(p))) = Coded(h, SubSeq(p, k + 1, Len(p)))
  <2>1. SubSeq(p, k + 1, Len(p)) \in Text
    BY <1>1 DEF Text
  <2> QED
    BY <2>1, BlindText, ConcatEmptySeq DEF Text
<1> QED
  BY <1>2, <1>3, <1>5, <1>6, <1>7

LEMMA CutWhole ==
  ASSUME NEW h, NEW frame, Blind(h, frame), NEW p \in Text, NEW k \in 0..Len(p)
  PROVE  /\ SubSeq(p, 1, k) \in Text /\ SubSeq(p, k + 1, Len(p)) \in Text
         /\ Coded(h, p) = Coded(h, SubSeq(p, 1, k)) \o Coded(h, SubSeq(p, k + 1, Len(p)))
<1>1. SubSeq(p, 1, Len(p)) = p
  BY SubSeqFull DEF Text
<1>2. 1 \in 1..Len(p)+1 /\ k \in 1-1..Len(p) /\ Len(p) \in k..Len(p)
  BY DEF Text
<1> QED
  BY <1>1, <1>2, Cut

(***************************************************************************)
(* Blanks do not show.                                                     *)
(***************************************************************************)
LEMMA Blanks ==
  ASSUME NEW h, NEW frame, Blind(h, frame)
  PROVE  \A e \in {<<>>, <<"n">>, <<"s">>, <<"r", "n">>, <<"n", "n">>, <<"r", "n", "r", "n">>} : e \in Text /\ Coded(h, e) = <<>>
<1>1. <<>> \in Text /\ Coded(h, <<>>) = <<>>
  BY CodedEmpty DEF Text
<1>2. ASSUME NEW c \in {"n", "r", "s"} PROVE c \in Letter /\ <<c>> \in Text /\ Coded(h, <<c>>) = <<>>
  BY Letters, BlindLetter
<1>3. ASSUME NEW c \in {"n", "r"} PROVE <<c, "n">> \in Text /\ Coded(h, <<c, "n">>) = <<>>
  <2>1. c \in Letter /\ "n" \in Letter /\ <<c>> \in Text /\ <<"n">> \in Text /\ Coded(h, <<c>>) = <<>> /\ Coded(h, <<"n">>) = <<>>
    BY <1>2
  <2>2. <<c>> \o <<"n">> = <<c, "n">>
    BY <2>1, ShortSeqs
  <2>3. <<c>> \o <<"n">> \in Text /\ Coded(h, <<c>> \o <<"n">>) = <<>>
    BY <2>1, BlindText
  <2> QED
    BY <2>2, <2>3
<1>4. <<"r", "n", "r", "n">> \in Text /\ Coded(h, <<"r", "n", "r", "n">>) = <<>>
  <2>1. <<"r", "n">> \o <<"r", "n">> = <<"r", "n", "r", "n">>
    <3> DEFINE a == <<"r", "n">> \o <<"r", "n">>
               b == <<"r", "n", "r", "n">>
    <3>0. "r" \in Letter /\ "n" \in Letter
      BY Letters
    <3>1. a \in Seq(Letter) /\ Len(a) = 4 /\ a[1] = "r" /\ a[2] = "n" /\ a[3] = "r" /\ a[4] = "n"
      <4>1. <<"r", "n">> \in Seq(Letter) /\ Len(<<"r", "n">>) = 2
        BY <3>0
      <4> QED
        BY <4>1, ConcatProperties
    <3>2. b \in Seq(Letter) /\ Len(b) = 4 /\ b[1] = "r" /\ b[2] = "n" /\ b[3] = "r" /\ b[4] = "n"
      BY <3>0
    <3>3. a = b
      <4> HIDE DEF a, b
      <4>1. \A i \in 1..Len(a) : a[i] = b[i]
        BY <3>1, <3>2
      <4> QED
        BY <3>1, <3>2, <4>1, SeqEqual
    <3> QED
      BY <3>3
  <2>2. <<"r", "n">> \in Text /\ Coded(h, <<"r", "n">>) = <<>>
    BY <1>3
  <2>3. <<"r", "n">> \o <<"r", "n">> \in Text /\ Coded(h, <<"r", "n">> \o <<"r", "n">>) = <<>>
    BY <2>2, BlindText
  <2> QED
    BY <2>1, <2>3
<1>5. <<"n">> \in Text /\ Coded(h, <<"n">>) = <<>> /\ <<"s">> \in Text /\ Coded(h, <<"s">>) = <<>>
  BY <1>2
<1>6. <<"r", "n">> \in Text /\ Coded(h, <<"r", "n">>) = <<>> /\ <<"n", "n">> \in Text /\ Coded(h, <<"n", "n">>) = <<>>
  BY <1>3
<1> QED
  BY <1>1, <1>4, <1>5, <1>6

(***************************************************************************)
(* A text followed by blanks.                                              *)
(***************************************************************************)
LEMMA Trailed ==
  ASSUME NEW h, NEW frame, Blind(h, frame)
  PROVE  \A p, e \in Text : Coded(h, e) = <<>> =>
            /\ p \o e \in Text /\ Coded(h, p \o e) = Coded(h, p)
            /\ e \o p \in Text /\ Coded(h, e \o p) = Coded(h, p)
<1> SUFFICES ASSUME NEW p \in Text, NEW e \in Text, Coded(h, e) = <<>>
             PROVE  /\ p \o e \in Text /\ Coded(h, p \o e) = Coded(h, p)
                    /\ e \o p \in Text /\ Coded(h, e \o p) = Coded(h, p)
  OBVIOUS
<1>1. Coded(h, p) \in Seq(Letter)
  BY BlindText DEF Text
<1>2. Coded(h, p) \o <<>> = Coded(h, p) /\ <<>> \o Coded(h, p) = Coded(h, p)
  BY <1>1, ConcatEmptySeq
<1>3. \A q, v \in Text : q \o v \in Text /\ Coded(h, q \o v) = Coded(h, q) \o Coded(h, v)
  BY BlindText
<1>4. p \o e \in Text /\ Coded(h, p \o e) = Coded(h, p) \o <<>>
  BY <1>3, Zenon
<1>5. e \o p \in Text /\ Coded(h, e \o p) = <<>> \o Coded(h, p)
  BY <1>3, Zenon
<1> QED
  BY <1>2, <1>4, <1>5, Zenon

(***************************************************************************)
(* A line written anew keeps what it held (rewriteEvent).                  *)
(***************************************************************************)
LEMMA LineKept ==
  ASSUME NEW h, NEW frame, Blind(h, frame), NEW line \in Text, NEW break \in {<<>>, <<"n">>}
  PROVE  RewriteLine(line, break) \in Text /\ Coded(h, RewriteLine(line, break)) = Coded(h, line)
<1> DEFINE cr    == line # <<>> /\ Last(line) = "r"
           text  == IF cr THEN Front(line) ELSE line
           end   == IF cr /\ break # <<>> THEN <<"r", "n">> ELSE break
           value == SubSeq(text, Len(DataField) + 1, Len(text))
<1>1. text \in Text /\ Coded(h, text) = Coded(h, line)
  <2>1. CASE cr
    <3>1. Len(line) \in Nat \ {0} /\ Front(line) = SubSeq(line, 1, Len(line)-1) /\ line[Len(line)] = "r"
      BY <2>1 DEF Text, Front, Last
    <3>2. Len(line)-1 \in 0..Len(line) /\ Len(line)-1+1 = Len(line)
      BY <3>1
    <3>3. SubSeq(line, Len(line), Len(line)) = <<"r">>
      <4> DEFINE a == SubSeq(line, Len(line), Len(line))
                 b == <<"r">>
      <4>1. a \in Seq(Letter) /\ Len(a) = 1 /\ a[1] = "r"
        BY <3>1 DEF Text
      <4>2. b \in Seq(Letter) /\ Len(b) = 1 /\ b[1] = "r"
        BY Letters, BlindLetter DEF Text
      <4>3. a = b
        <5> HIDE DEF a, b
        <5> QED
          BY <4>1, <4>2, SeqEqual
      <4> QED
        BY <4>3
    <3>4. Front(line) \in Text /\ Coded(h, line) = Coded(h, Front(line)) \o Coded(h, <<"r">>)
      <4> DEFINE k == Len(line) - 1
      <4>1. k \in 0..Len(line) /\ Front(line) = SubSeq(line, 1, k) /\ SubSeq(line, k + 1, Len(line)) = <<"r">>
        BY <3>1, <3>2, <3>3
      <4> HIDE DEF k
      <4>2. /\ SubSeq(line, 1, k) \in Text
            /\ Coded(h, line) = Coded(h, SubSeq(line, 1, k)) \o Coded(h, SubSeq(line, k + 1, Len(line)))
        BY <4>1, CutWhole
      <4> QED
        BY <4>1, <4>2
    <3>5. Coded(h, <<"r">>) = <<>>
      BY Letters, BlindLetter
    <3>6. Coded(h, Front(line)) \o <<>> = Coded(h, Front(line))
      BY <3>4, BlindText, ConcatEmptySeq DEF Text
    <3> QED
      BY <2>1, <3>4, <3>5, <3>6
  <2> QED
    BY <2>1
<1>2. end \in Text /\ Coded(h, end) = <<>>
  BY Blanks
<1>3. value \in Text
  BY <1>1 DEF Text, DataField
<1>4. RewriteLine(line, break) = IF IsPrefix(DataField, text) /\ IsDoc(value)
                                 THEN DataField \o <<"s">> \o Doc("O") \o end ELSE text \o end
  BY DEF RewriteLine
<1>5. CASE IsPrefix(DataField, text) /\ IsDoc(value)
  <2>1. Len(DataField) = 2 /\ SubSeq(DataField, 1, 2) = DataField /\ DataField \in Text
    <3>1. "da" \in Letter /\ "ta:" \in Letter
      BY Letters
    <3>2. <<"da", "ta:">> \in Seq(Letter) /\ Len(<<"da", "ta:">>) = 2
      BY <3>1
    <3>3. SubSeq(<<"da", "ta:">>, 1, 2) = <<"da", "ta:">>
      BY <3>2, SubSeqFull
    <3> QED
      BY <3>2, <3>3 DEF DataField, Text
  <2>2. 2 \in 0..Len(text) /\ SubSeq(text, 1, 2) = DataField
    BY <1>1, <1>5, <2>1 DEF IsPrefix, Text
  <2>3. value = SubSeq(text, 2 + 1, Len(text))
    BY <2>1
  <2> HIDE DEF text, value, end
  <2>4. Coded(h, text) = Coded(h, DataField) \o Coded(h, value)
    BY <1>1, <2>2, <2>3, CutWhole
  <2>5. Coded(h, value) = Coded(h, Doc("O")) /\ Doc("O") \in Text
    BY <1>3, <1>5, DocCoded
  <2>6. <<"s">> \in Text /\ Coded(h, <<"s">>) = <<>>
    BY Blanks
  <2>7. DataField \o <<"s">> \in Text /\ Coded(h, DataField \o <<"s">>) = Coded(h, DataField)
    BY <2>1, <2>6, Trailed
  <2>8. /\ DataField \o <<"s">> \o Doc("O") \in Text
        /\ Coded(h, DataField \o <<"s">> \o Doc("O")) = Coded(h, DataField) \o Coded(h, Doc("O"))
    <3>1. \A q, v \in Text : q \o v \in Text /\ Coded(h, q \o v) = Coded(h, q) \o Coded(h, v)
      BY BlindText
    <3> QED
      BY <2>5, <2>7, <3>1, Zenon
  <2>9. /\ DataField \o <<"s">> \o Doc("O") \o end \in Text
        /\ Coded(h, DataField \o <<"s">> \o Doc("O") \o end) = Coded(h, DataField) \o Coded(h, Doc("O"))
    BY <1>2, <2>8, Trailed
  <2> QED
    BY <1>1, <1>4, <1>5, <2>4, <2>5, <2>9
<1>6. CASE ~(IsPrefix(DataField, text) /\ IsDoc(value))
  <2> HIDE DEF text, value, end
  <2>1. text \o end \in Text /\ Coded(h, text \o end) = Coded(h, text)
    BY <1>1, <1>2, Trailed
  <2> QED
    BY <1>1, <1>4, <1>6, <2>1
<1> QED
  BY <1>5, <1>6

(***************************************************************************)
(* An event written anew keeps what it held, line by line from the end.    *)
(***************************************************************************)
LEMMA EventKept ==
  ASSUME NEW h, NEW frame, Blind(h, frame), NEW event \in Text
  PROVE  RewriteEvent(event) \in Text /\ Coded(h, RewriteEvent(event)) = Coded(h, event)
<1> DEFINE S == 1..Len(event)+1
           breaks(i) == {e \in i..Len(event) : event[e] = "n"}
           end(i) == CHOOSE e \in breaks(i) : \A f \in breaks(i) : e <= f
           tail(i) == SubSeq(event, i, Len(event))
           head(i) == SubSeq(event, i, end(i) - 1)
           rest(i) == RewriteLine(tail(i), <<>>)
           line(i) == RewriteLine(head(i), <<"n">>)
           stop == {i \in S : breaks(i) = {}}
           next == [i \in S |-> IF i \in stop THEN i ELSE end(i) + 1]
           mu == [i \in S |-> Len(event) + 1 - i]
           base == [i \in S |-> rest(i)]
           step == [a \in S \X Text |-> IF a[1] \in stop THEN <<>> ELSE line(a[1]) \o a[2]]
           Eq(g) == g = [i \in S |-> IF breaks(i) = {} THEN rest(i) ELSE line(i) \o g[end(i) + 1]]
           from == CHOOSE g : Eq(g)
<1>1. Len(event) \in Nat /\ event \in Seq(Letter) /\ <<>> \in Text
  BY DEF Text
<1>2. ASSUME NEW i \in S \ stop
      PROVE  end(i) \in i..Len(event) /\ event[end(i)] = "n" /\ i \in 1..Len(event)
  <2>1. breaks(i) \subseteq Nat /\ breaks(i) # {}
    BY <1>1, <1>2
  <2>2. \E e \in breaks(i) : \A f \in breaks(i) : e <= f
    <3> HIDE DEF breaks
    <3> QED
      BY <2>1, LeastElement
  <2>3. end(i) \in breaks(i)
    <3> HIDE DEF breaks
    <3> QED
      BY <2>2
  <2> HIDE DEF end
  <2> QED
    BY <1>1, <2>3
<1>3. ASSUME NEW i \in S
      PROVE  tail(i) \in Text /\ rest(i) \in Text /\ Coded(h, rest(i)) = Coded(h, tail(i))
  <2>1. tail(i) \in Text
    BY <1>1 DEF Text
  <2> HIDE DEF tail
  <2> QED
    BY <2>1, LineKept
<1>4. ASSUME NEW i \in S \ stop
      PROVE  head(i) \in Text /\ line(i) \in Text /\ Coded(h, line(i)) = Coded(h, head(i))
  <2> HIDE DEF end
  <2>1. head(i) \in Text
    BY <1>1, <1>2 DEF Text
  <2> HIDE DEF head
  <2> QED
    BY <2>1, LineKept
<1>5. /\ mu \in Codings(S, Nat) /\ next \in Codings(S, S) /\ base \in Codings(S, Text)
      /\ Shrinks(S, mu, next, stop)
  <2> HIDE DEF rest, stop, end
  <2>1. \A i \in S \ stop : end(i) \in i..Len(event) /\ next[i] = end(i) + 1
    BY <1>2
  <2>2. mu \in Codings(S, Nat) /\ base \in Codings(S, Text)
    BY <1>1, <1>3 DEF Codings
  <2>3. next \in Codings(S, S)
    BY <1>1, <2>1 DEF Codings
  <2>4. Shrinks(S, mu, next, stop)
    BY <1>1, <2>1 DEF Shrinks
  <2> QED
    BY <2>2, <2>3, <2>4
<1>6. step \in Codings(S \X Text, Text)
  <2> HIDE DEF line, stop, S
  <2>1. ASSUME NEW i \in S, NEW v \in Text PROVE (IF i \in stop THEN <<>> ELSE line(i) \o v) \in Text
    BY <1>1, <1>4, BlindText
  <2> QED
    BY <2>1 DEF Codings
<1>7. PICK f \in Codings(S, Text) : Runs(f, S, base, step, next, stop)
  <2> HIDE DEF mu, next, base, step, stop, S
  <2>1. mu \in Codings(S, Nat) /\ next \in Codings(S, S) /\ base \in Codings(S, Text)
    BY <1>5
  <2>2. Shrinks(S, mu, next, stop)
    BY <1>5
  <2>3. <<>> \in Text
    BY <1>1
  <2> QED
    BY <2>1, <2>2, <2>3, <1>6, TailRecursion
<1>7a. \A i \in S : f[i] = IF i \in stop THEN base[i] ELSE step[<<i, f[next[i]]>>]
  <2> HIDE DEF mu, next, base, step, stop, S
  <2> QED
    BY <1>7 DEF Runs
<1>8. Eq(f)
  <2>1. ASSUME NEW i \in S PROVE f[i] = IF breaks(i) = {} THEN rest(i) ELSE line(i) \o f[end(i) + 1]
    <3> HIDE DEF rest, line, breaks, end, S
    <3>1. i \in stop <=> breaks(i) = {}
      OBVIOUS
    <3>2. CASE i \in stop
      BY <1>7a, <3>1, <3>2
    <3>3. CASE i \notin stop
      <4>1. next[i] = end(i) + 1 /\ next[i] \in S
        BY <1>5, <3>3 DEF Codings
      <4>2. f[next[i]] \in Text
        BY <4>1, <1>7 DEF Codings
      <4>3. step[<<i, f[next[i]]>>] = line(i) \o f[next[i]]
        BY <3>3, <4>2
      <4> HIDE DEF step, next, stop
      <4> QED
        BY <1>7a, <3>1, <3>3, <4>1, <4>3
    <3> QED
      BY <3>2, <3>3
  <2>2. f = [i \in S |-> f[i]]
    BY <1>7 DEF Codings
  <2> HIDE DEF rest, line, breaks, end, S
  <2> QED
    BY <2>1, <2>2
<1>9. Eq(from)
  <2> HIDE DEF Eq
  <2> QED
    BY <1>8
<1>10. RewriteEvent(event) = from[1]
  BY DEF RewriteEvent
<1> HIDE DEF from
<1> DEFINE G == {i \in S : from[i] \in Text /\ Coded(h, from[i]) = Coded(h, tail(i))}
<1>11. ASSUME NEW i \in S \cap stop PROVE i \in G
  <2>1. from[i] = rest(i)
    BY <1>9
  <2> HIDE DEF rest, tail
  <2> QED
    BY <1>3, <2>1
<1>12. ASSUME NEW i \in S \ stop, next[i] \in G PROVE i \in G
  <2>1. from[i] = line(i) \o from[end(i) + 1]
    BY <1>9
  <2>2. end(i) \in i..Len(event) /\ i \in 1..Len(event) /\ next[i] = end(i) + 1 /\ event[end(i)] = "n"
    <3> HIDE DEF end, stop
    <3> QED
      BY <1>2
  <2>3. from[end(i) + 1] \in Text /\ Coded(h, from[end(i) + 1]) = Coded(h, tail(end(i) + 1))
    BY <1>12, <2>2
  <2>4. from[i] \in Text /\ Coded(h, from[i]) = Coded(h, head(i)) \o Coded(h, tail(end(i) + 1))
    <3> HIDE DEF line, head, tail, end, stop
    <3>1. \A p, q \in Text : p \o q \in Text /\ Coded(h, p \o q) = Coded(h, p) \o Coded(h, q)
      BY BlindText
    <3>2. line(i) \in Text /\ Coded(h, line(i)) = Coded(h, head(i))
      BY <1>4
    <3> QED
      BY <2>1, <2>3, <3>1, <3>2, Zenon
  <2>5. Coded(h, tail(i)) = Coded(h, head(i)) \o Coded(h, tail(end(i) + 1))
    <3>1. event[end(i)] \in White
      BY <2>2, Letters
    <3> HIDE DEF end
    <3> QED
      BY <2>2, <3>1, CutAt
  <2> HIDE DEF tail, end, head
  <2> QED
    BY <2>4, <2>5
<1>13. S \subseteq G
  <2> HIDE DEF mu, next, stop, S, G
  <2>1. mu \in Codings(S, Nat) /\ next \in Codings(S, S)
    BY <1>5
  <2>2. Shrinks(S, mu, next, stop)
    BY <1>5
  <2>3. stop \cap S \subseteq G
    BY <1>11
  <2>4. \A x \in S \ stop : next[x] \in G => x \in G
    BY <1>12
  <2> QED
    BY <2>1, <2>2, <2>3, <2>4, TailInduction
<1>14. 1 \in S /\ tail(1) = event
  BY <1>1, SubSeqFull
<1> QED
  BY <1>10, <1>13, <1>14

(***************************************************************************)
(* What sseEventDelimiter finds is there, and is a blank line.             *)
(***************************************************************************)
BlankLines == {<<"n", "n">>, <<"r", "n", "r", "n">>}

LEMMA Delimited ==
  ASSUME NEW p \in Text, Delimiter(p).text # <<>>
  PROVE  /\ Delimiter(p).text \in BlankLines /\ Len(Delimiter(p).text) \in Nat \ {0}
         /\ Delimiter(p).at \in Nat /\ Delimiter(p).at + Len(Delimiter(p).text) <= Len(p)
         /\ SubSeq(p, Delimiter(p).at + 1, Delimiter(p).at + Len(Delimiter(p).text)) = Delimiter(p).text
<1> DEFINE ends  == {e \in (0..Len(p)) \X BlankLines :
                       e[1] + Len(e[2]) <= Len(p) /\ SubSeq(p, e[1] + 1, e[1] + Len(e[2])) = e[2]}
           first == CHOOSE e \in ends : \A f \in ends : e[1] <= f[1]
           at == {e[1] : e \in ends}
<1>1. Delimiter(p) = IF ends = {} THEN [at |-> 0, text |-> <<>>] ELSE [at |-> first[1], text |-> first[2]]
  BY DEF Delimiter, BlankLines
<1>2. Len(p) \in Nat
  BY DEF Text
<1>3. ends # {}
  <2> HIDE DEF ends, first
  <2> QED
    BY <1>1
<1>4. at \subseteq Nat /\ at # {}
  <2>1. \A e \in ends : e[1] \in Nat
    BY <1>2
  <2> HIDE DEF ends
  <2> QED
    BY <1>3, <2>1
<1>5. PICK n \in at : \A m \in at : n <= m
  <2> HIDE DEF at
  <2> QED
    BY <1>4, LeastElement
<1>6. \E e \in ends : \A f \in ends : e[1] <= f[1]
  <2> HIDE DEF ends
  <2> QED
    BY <1>5
<1>7. first \in ends
  <2> HIDE DEF ends
  <2> QED
    BY <1>6
<1> HIDE DEF first
<1>8. /\ first[1] \in 0..Len(p) /\ first[2] \in BlankLines /\ first[1] + Len(first[2]) <= Len(p)
      /\ SubSeq(p, first[1] + 1, first[1] + Len(first[2])) = first[2]
  BY <1>7
<1>9. Delimiter(p).at = first[1] /\ Delimiter(p).text = first[2]
  <2> HIDE DEF ends
  <2> QED
    BY <1>1, <1>3
<1>10. \A b \in BlankLines : Len(b) \in Nat \ {0}
  BY DEF BlankLines
<1> QED
  BY <1>2, <1>8, <1>9, <1>10

(***************************************************************************)
(* What is handed out piece by piece.                                      *)
(***************************************************************************)
LEMMA Pieces ==
  ASSUME NEW parts \in Seq(Text), NEW e \in Text
  PROVE  /\ FlattenSeq(parts) \in Text /\ <<e>> \in Seq(Text)
         /\ FlattenSeq(<<e>> \o parts) = e \o FlattenSeq(parts) /\ <<e>> \o parts \in Seq(Text)
         /\ FlattenSeq(Append(parts, e)) = FlattenSeq(parts) \o e /\ Append(parts, e) \in Seq(Text)
         /\ FlattenSeq(<<e>>) = e
<1>1. parts \in Seq(Seq(Letter)) /\ e \in Seq(Letter)
  BY DEF Text
<1>2. <<e>> \in Seq(Seq(Letter))
  BY <1>1
<1>3. FlattenSeq(<<e>>) = e
  BY <1>1, FlattenOne
<1>4. FlattenSeq(<<e>> \o parts) = FlattenSeq(<<e>>) \o FlattenSeq(parts)
  BY <1>1, <1>2, FlattenConcat
<1>5. FlattenSeq(Append(parts, e)) = FlattenSeq(parts) \o e
  BY <1>1, FlattenAppend
<1>6. FlattenSeq(parts) \in Text
  BY <1>1, FlattenType DEF Text
<1>7. <<e>> \o parts \in Seq(Text) /\ Append(parts, e) \in Seq(Text)
  <2>1. <<e>> \in Seq(Text)
    BY <1>2 DEF Text
  <2> QED
    BY <2>1, ConcatProperties, AppendProperties
<1> QED
  BY <1>2, <1>3, <1>4, <1>5, <1>6, <1>7 DEF Text

(***************************************************************************)
(* The events taken off a buffer, and what stays in it (sseRewriter.Write):*)
(* one after the other, nothing of the buffer is lost.                     *)
(***************************************************************************)
Piece(buf) == RewriteEvent(SubSeq(buf, 1, Delimiter(buf).at)) \o Delimiter(buf).text
Left(buf)  == SubSeq(buf, Delimiter(buf).at + Len(Delimiter(buf).text) + 1, Len(buf))

Takes(g) ==
  g = [buf \in Seq(Letter) |->
         LET d == Delimiter(buf)
             rest == g[SubSeq(buf, d.at + Len(d.text) + 1, Len(buf))]
         IN  IF d.text = <<>> THEN [buf |-> buf, out |-> <<>>]
             ELSE [rest EXCEPT !.out = <<RewriteEvent(SubSeq(buf, 1, d.at)) \o d.text>> \o rest.out]]
Take == CHOOSE g : Takes(g)

Taken == [buf : Text, out : Seq(Text)]

\* The first event and the rest.
LEMMA PieceKept ==
  ASSUME NEW h, NEW frame, Blind(h, frame), NEW p \in Text, Delimiter(p).text # <<>>
  PROVE  /\ Piece(p) \in Text /\ Left(p) \in Text /\ Len(Left(p)) < Len(p)
         /\ Coded(h, p) = Coded(h, Piece(p)) \o Coded(h, Left(p))
<1> DEFINE d == Delimiter(p)
           k == d.at + Len(d.text)
           event == SubSeq(p, 1, d.at)
<1>1. /\ d.text \in BlankLines /\ Len(d.text) \in Nat \ {0} /\ d.at \in Nat /\ k <= Len(p)
      /\ SubSeq(p, d.at + 1, k) = d.text
  BY Delimited
<1> HIDE DEF d
<1>2. Len(p) \in Nat /\ p \in Seq(Letter) /\ k \in 0..Len(p) /\ d.at \in 0..k
  BY <1>1 DEF Text
<1>3. event \in Text /\ Left(p) = SubSeq(p, k + 1, Len(p)) /\ Left(p) \in Text /\ Len(Left(p)) = Len(p) - k
  <2>1. event \in Text
    BY <1>2 DEF Text
  <2>2. Left(p) = SubSeq(p, k + 1, Len(p))
    BY DEF Left, d
  <2>3. SubSeq(p, k + 1, Len(p)) \in Seq(Letter) /\ Len(SubSeq(p, k + 1, Len(p))) = Len(p) - k
    <3> HIDE DEF k
    <3> QED
      BY <1>2
  <2> QED
    BY <2>1, <2>2, <2>3 DEF Text
<1>4. d.text \in Text /\ Coded(h, d.text) = <<>>
  BY <1>1, Blanks DEF BlankLines
<1>5. RewriteEvent(event) \in Text /\ Coded(h, RewriteEvent(event)) = Coded(h, event)
  <2> HIDE DEF event
  <2> QED
    BY <1>3, EventKept
<1>6. Piece(p) \in Text /\ Coded(h, Piece(p)) = Coded(h, event)
  <2>1. Piece(p) = RewriteEvent(event) \o d.text
    BY DEF Piece, d
  <2>2. RewriteEvent(event) \o d.text \in Text /\ Coded(h, RewriteEvent(event) \o d.text) = Coded(h, RewriteEvent(event))
    <3>1. \A q, v \in Text : Coded(h, v) = <<>> => q \o v \in Text /\ Coded(h, q \o v) = Coded(h, q)
      BY Trailed
    <3> HIDE DEF event
    <3> QED
      BY <1>4, <1>5, <3>1, Zenon
  <2> HIDE DEF event
  <2> QED
    BY <1>5, <2>1, <2>2
<1>7. SubSeq(p, 1, k) \in Text /\ Coded(h, SubSeq(p, 1, k)) = Coded(h, event) \o Coded(h, d.text)
  <2>1. 1 \in 1..Len(p)+1 /\ d.at \in 1-1..Len(p) /\ k \in d.at..Len(p)
    BY <1>1, <1>2
  <2>2. \A a \in 1..Len(p)+1 : \A b \in a-1..Len(p) : \A c \in b..Len(p) : SubSeq(p, a, c) \in Text /\
           Coded(h, SubSeq(p, a, c)) = Coded(h, SubSeq(p, a, b)) \o Coded(h, SubSeq(p, b + 1, c))
    BY Cut
  <2> HIDE DEF k
  <2>3. SubSeq(p, 1, k) \in Text /\ Coded(h, SubSeq(p, 1, k)) = Coded(h, SubSeq(p, 1, d.at)) \o Coded(h, SubSeq(p, d.at + 1, k))
    BY <2>1, <2>2, Zenon
  <2> QED
    BY <2>3, <1>1
<1>8. Coded(h, event) \o <<>> = Coded(h, event)
  <2>1. Coded(h, event) \in Seq(Letter)
    <3> HIDE DEF event
    <3> QED
      BY <1>3, BlindText DEF Text
  <2> HIDE DEF event
  <2> QED
    BY <2>1, ConcatEmptySeq
<1>9. Coded(h, p) = Coded(h, SubSeq(p, 1, k)) \o Coded(h, SubSeq(p, k + 1, Len(p)))
  <2> HIDE DEF k
  <2> QED
    BY <1>2, CutWhole
<1> HIDE DEF event
<1>10. Coded(h, p) = Coded(h, Piece(p)) \o Coded(h, Left(p))
  BY <1>3, <1>4, <1>6, <1>7, <1>8, <1>9
<1>11. Len(Left(p)) < Len(p)
  <2>1. k \in Nat \ {0}
    BY <1>1
  <2>2. Len(Left(p)) = Len(p) - k /\ Len(p) \in Nat
    BY <1>2, <1>3
  <2> HIDE DEF k
  <2> QED
    BY <2>1, <2>2
<1> QED
  BY <1>3, <1>6, <1>10, <1>11

LEMMA TakeRuns ==
  ASSUME NEW h, NEW frame, Blind(h, frame)
  PROVE  \A p \in Text : Take[p] = IF Delimiter(p).text = <<>> THEN [buf |-> p, out |-> <<>>]
                                   ELSE [Take[Left(p)] EXCEPT !.out = <<Piece(p)>> \o Take[Left(p)].out]
<1> DEFINE stop == {p \in Text : Delimiter(p).text = <<>>}
           next == [p \in Text |-> IF p \in stop THEN p ELSE Left(p)]
           mu == [p \in Text |-> Len(p)]
           base == [p \in Text |-> [buf |-> p, out |-> <<>>]]
           step == [a \in Text \X Taken |-> IF a[1] \in stop THEN a[2] ELSE [buf |-> a[2].buf, out |-> <<Piece(a[1])>> \o a[2].out]]
<1>1. \A p \in Text \ stop : Piece(p) \in Text /\ Left(p) \in Text /\ Len(Left(p)) < Len(p)
  BY PieceKept
<1>2. mu \in Codings(Text, Nat) /\ next \in Codings(Text, Text) /\ Shrinks(Text, mu, next, stop)
  <2>1. mu \in Codings(Text, Nat)
    BY DEF Codings, Text
  <2> HIDE DEF stop
  <2>2. next \in Codings(Text, Text)
    BY <1>1 DEF Codings
  <2>3. \A p \in Text \ stop : mu[next[p]] < mu[p]
    BY <1>1
  <2> QED
    BY <2>1, <2>2, <2>3 DEF Shrinks
<1>3. base \in Codings(Text, Taken) /\ [buf |-> <<>>, out |-> <<>>] \in Taken
  BY DEF Codings, Taken, Text
<1>4. step \in Codings(Text \X Taken, Taken)
  <2>1. ASSUME NEW p \in Text, NEW v \in Taken
        PROVE  (IF p \in stop THEN v ELSE [buf |-> v.buf, out |-> <<Piece(p)>> \o v.out]) \in Taken
    <3>1. CASE p \in stop
      BY <3>1
    <3>2. CASE p \notin stop
      <4>1. v.buf \in Text /\ v.out \in Seq(Text) /\ Piece(p) \in Text
        BY <1>1, <3>2 DEF Taken
      <4>2. <<Piece(p)>> \o v.out \in Seq(Text)
        BY <4>1, Pieces
      <4> QED
        BY <3>2, <4>1, <4>2 DEF Taken
    <3> QED
      BY <3>1, <3>2
  <2> HIDE DEF stop
  <2> QED
    BY <2>1 DEF Codings
<1>5. PICK f \in Codings(Text, Taken) : Runs(f, Text, base, step, next, stop)
  <2> HIDE DEF mu, next, base, step, stop
  <2> QED
    BY <1>2, <1>3, <1>4, TailRecursion
<1>6. \A p \in Text : f[p] = IF p \in stop THEN base[p] ELSE step[<<p, f[next[p]]>>]
  <2> HIDE DEF next, base, step, stop
  <2> QED
    BY <1>5 DEF Runs
<1>7. ASSUME NEW p \in Text
      PROVE  f[p] = IF Delimiter(p).text = <<>> THEN [buf |-> p, out |-> <<>>]
                    ELSE [f[Left(p)] EXCEPT !.out = <<Piece(p)>> \o f[Left(p)].out]
  <2>1. CASE p \in stop
    BY <1>6, <2>1
  <2>2. CASE p \notin stop
    <3>1. next[p] = Left(p) /\ Left(p) \in Text /\ f[Left(p)] \in Taken
      BY <1>1, <1>5, <2>2 DEF Codings
    <3>2. step[<<p, f[Left(p)]>>] = [buf |-> f[Left(p)].buf, out |-> <<Piece(p)>> \o f[Left(p)].out]
      BY <2>2, <3>1
    <3>3. [f[Left(p)] EXCEPT !.out = <<Piece(p)>> \o f[Left(p)].out]
            = [buf |-> f[Left(p)].buf, out |-> <<Piece(p)>> \o f[Left(p)].out]
      <4>1. ASSUME NEW v \in Taken, NEW o PROVE [v EXCEPT !.out = o] = [buf |-> v.buf, out |-> o]
        BY DEF Taken
      <4> QED
        BY <3>1, <4>1
    <3>4. f[p] = step[<<p, f[next[p]]>>]
      <4> HIDE DEF step, next, stop, base
      <4> QED
        BY <1>6, <2>2
    <3>5. Delimiter(p).text # <<>>
      BY <2>2
    <3> HIDE DEF step, next, stop, base
    <3> QED
      BY <3>1, <3>2, <3>3, <3>4, <3>5
  <2> QED
    BY <2>1, <2>2
<1>8. Takes(f)
  <2>1. f = [p \in Text |-> f[p]]
    BY <1>5 DEF Codings
  <2>2. f = [p \in Text |-> IF Delimiter(p).text = <<>> THEN [buf |-> p, out |-> <<>>]
                            ELSE [f[Left(p)] EXCEPT !.out = <<Piece(p)>> \o f[Left(p)].out]]
    BY <1>7, <2>1
  <2> QED
    BY <2>2 DEF Takes, Piece, Left, Text
<1>9. Takes(Take)
  BY <1>8 DEF Take
<1>10. Take = [p \in Text |-> IF Delimiter(p).text = <<>> THEN [buf |-> p, out |-> <<>>]
                              ELSE [Take[Left(p)] EXCEPT !.out = <<Piece(p)>> \o Take[Left(p)].out]]
  BY <1>9 DEF Takes, Piece, Left, Text
<1> QED
  BY <1>10

LEMMA TakeKept ==
  ASSUME NEW h, NEW frame, Blind(h, frame)
  PROVE  \A p \in Text : /\ Take[p] \in Taken
                         /\ Coded(h, FlattenSeq(Take[p].out)) \o Coded(h, Take[p].buf) = Coded(h, p)
<1> DEFINE stop == {p \in Text : Delimiter(p).text = <<>>}
           next == [p \in Text |-> IF p \in stop THEN p ELSE Left(p)]
           mu == [p \in Text |-> Len(p)]
           Kept(p) == /\ Take[p] \in Taken
                      /\ Coded(h, FlattenSeq(Take[p].out)) \o Coded(h, Take[p].buf) = Coded(h, p)
           G == {p \in Text : Kept(p)}
<1>1. \A p \in Text \ stop : /\ Piece(p) \in Text /\ Left(p) \in Text /\ Len(Left(p)) < Len(p)
                             /\ Coded(h, p) = Coded(h, Piece(p)) \o Coded(h, Left(p))
  BY PieceKept
<1>2. mu \in Codings(Text, Nat) /\ next \in Codings(Text, Text) /\ Shrinks(Text, mu, next, stop)
  <2>1. mu \in Codings(Text, Nat)
    BY DEF Codings, Text
  <2> HIDE DEF stop
  <2>2. next \in Codings(Text, Text)
    BY <1>1 DEF Codings
  <2>3. \A p \in Text \ stop : mu[next[p]] < mu[p]
    BY <1>1
  <2> QED
    BY <2>1, <2>2, <2>3 DEF Shrinks
<1>3. ASSUME NEW p \in Text, p \in stop PROVE Kept(p)
  <2>1. Take[p] = [buf |-> p, out |-> <<>>]
    BY <1>3, TakeRuns
  <2>2. Take[p].buf = p /\ Take[p].out = <<>> /\ Take[p] \in Taken
    BY <2>1 DEF Taken
  <2>3. Coded(h, FlattenSeq(<<>>)) = <<>> /\ Coded(h, p) \in Seq(Letter)
    BY FlattenEmpty, BlindText DEF Text
  <2>4. <<>> \o Coded(h, p) = Coded(h, p)
    BY <2>3, ConcatEmptySeq
  <2> QED
    BY <2>2, <2>3, <2>4
<1>4. ASSUME NEW p \in Text \ stop, Kept(Left(p)) PROVE Kept(p)
  <2> DEFINE v == Take[Left(p)]
  <2>0. Take[p] = [v EXCEPT !.out = <<Piece(p)>> \o v.out]
    BY <1>4, TakeRuns
  <2>1. /\ v \in Taken /\ v.buf \in Text /\ v.out \in Seq(Text)
        /\ Coded(h, FlattenSeq(v.out)) \o Coded(h, v.buf) = Coded(h, Left(p))
    BY <1>4 DEF Taken
  <2> HIDE DEF v
  <2>2. Take[p] = [buf |-> v.buf, out |-> <<Piece(p)>> \o v.out]
    <3>1. [v EXCEPT !.out = <<Piece(p)>> \o v.out] = [buf |-> v.buf, out |-> <<Piece(p)>> \o v.out]
      <4>1. ASSUME NEW u \in Taken, NEW o PROVE [u EXCEPT !.out = o] = [buf |-> u.buf, out |-> o]
        BY DEF Taken
      <4> QED
        BY <2>1, <4>1
    <3> QED
      BY <2>0, <3>1
  <2>3. Piece(p) \in Text /\ FlattenSeq(v.out) \in Text /\ <<Piece(p)>> \o v.out \in Seq(Text)
        /\ FlattenSeq(<<Piece(p)>> \o v.out) = Piece(p) \o FlattenSeq(v.out)
    BY <1>1, <2>1, Pieces
  <2>4. Take[p].buf = v.buf /\ Take[p].out = <<Piece(p)>> \o v.out /\ Take[p] \in Taken
    BY <2>1, <2>2, <2>3 DEF Taken
  <2>5. \A q, u \in Text : Coded(h, q) \in Seq(Letter) /\ Coded(h, q \o u) = Coded(h, q) \o Coded(h, u)
    BY BlindText DEF Text
  <2>6. Coded(h, FlattenSeq(Take[p].out)) = Coded(h, Piece(p)) \o Coded(h, FlattenSeq(v.out))
    <3>1. Coded(h, Piece(p) \o FlattenSeq(v.out)) = Coded(h, Piece(p)) \o Coded(h, FlattenSeq(v.out))
      BY <1>1, <2>3, <2>5, Zenon
    <3> QED
      BY <2>3, <2>4, <3>1, Zenon
  <2>7. (Coded(h, Piece(p)) \o Coded(h, FlattenSeq(v.out))) \o Coded(h, v.buf)
          = Coded(h, Piece(p)) \o (Coded(h, FlattenSeq(v.out)) \o Coded(h, v.buf))
    <3>1. Coded(h, Piece(p)) \in Seq(Letter) /\ Coded(h, FlattenSeq(v.out)) \in Seq(Letter) /\ Coded(h, v.buf) \in Seq(Letter)
      BY <2>1, <2>3, <2>5
    <3> QED
      BY <3>1, ConcatAssociative
  <2> QED
    BY <1>1, <2>1, <2>4, <2>6, <2>7
<1>5. Text \subseteq G
  <2>1. mu \in Codings(Text, Nat) /\ next \in Codings(Text, Text) /\ Shrinks(Text, mu, next, stop)
    BY <1>2
  <2>2. stop \cap Text \subseteq G
    <3> HIDE DEF stop, Kept
    <3> QED
      BY <1>3
  <2>3. \A p \in Text \ stop : next[p] \in G => p \in G
    <3> HIDE DEF stop, Kept
    <3> QED
      BY <1>1, <1>4
  <2> HIDE DEF mu, next, stop, G
  <2> QED
    BY <2>1, <2>2, <2>3, TailInduction
<1> QED
  <2> HIDE DEF Kept
  <2>1. \A p \in Text : Kept(p)
    BY <1>5
  <2> QED
    BY <2>1 DEF Kept

(***************************************************************************)
(* A rewriter between two calls: chunks wait unclassified only before the  *)
(* first event, and nothing is buffered after an overflow.                 *)
(***************************************************************************)
Rewriters == [buf : Text, over : BOOLEAN, pending : Text, sse : BOOLEAN, frame : BOOLEAN]

Sound(v) == v \in Rewriters /\ (v.pending # <<>> => v.buf = <<>>) /\ (v.over => v.buf = <<>>)

(***************************************************************************)
(* What sseRewriter.Write is given leaves it or stays in the buffer.       *)
(***************************************************************************)
Passes(h, v, p, r) ==
  /\ r.w \in Rewriters /\ r.w.pending = v.pending /\ r.w.frame = v.frame /\ r.w.sse = v.sse
  /\ r.w.over => r.w.buf = <<>>
  /\ r.out \in Seq(Text)
  /\ Coded(h, FlattenSeq(r.out)) \o Coded(h, r.w.buf) = Coded(h, v.buf) \o Coded(h, p)

LEMMA SSEWriteKept ==
  ASSUME NEW h, NEW frame, Blind(h, frame), NEW v, Sound(v), NEW p \in Text
  PROVE  Passes(h, v, p, SSEWrite(v, p))
<1> DEFINE broken == IF NeedsLineBreak(v.buf, p) THEN Append(v.buf, "n") ELSE v.buf
           held == broken \o p
           t == Take[held]
           r == SSEWrite(v, p)
<1>1. /\ v \in Rewriters /\ v.buf \in Text /\ v.over \in BOOLEAN /\ (v.over => v.buf = <<>>)
  BY DEF Sound, Rewriters
<1>2. \A q, u \in Text : /\ Coded(h, q) \in Seq(Letter) /\ q \o u \in Text
                         /\ Coded(h, q \o u) = Coded(h, q) \o Coded(h, u)
  BY BlindText DEF Text
<1>3. broken \in Text /\ Coded(h, broken) = Coded(h, v.buf)
  <2>1. Append(v.buf, "n") \in Text /\ Coded(h, Append(v.buf, "n")) = Coded(h, v.buf) \o h["n"]
    <3>1. v.buf \in Seq(Letter) /\ "n" \in Letter /\ h \in Codings(Letter, Seq(Letter))
      BY <1>1, Letters DEF Text, Blind
    <3>2. Append(v.buf, "n") \in Seq(Letter)
      BY <3>1, AppendProperties
    <3>3. Coded(h, Append(v.buf, "n")) = Coded(h, v.buf) \o h["n"]
      BY <3>1, CodedAppend
    <3> QED
      BY <3>2, <3>3 DEF Text
  <2>2. h["n"] = <<>> /\ Coded(h, v.buf) \o <<>> = Coded(h, v.buf)
    <3>1. Coded(h, v.buf) \in Seq(Letter)
      BY <1>1, <1>2
    <3> QED
      BY <3>1, Letters, ConcatEmptySeq DEF Blind
  <2> QED
    BY <1>1, <2>1, <2>2
<1>4. held \in Text /\ Coded(h, held) = Coded(h, v.buf) \o Coded(h, p)
  <2> HIDE DEF broken
  <2> QED
    BY <1>2, <1>3
<1>5. /\ t \in Taken /\ t.buf \in Text /\ t.out \in Seq(Text)
      /\ Coded(h, FlattenSeq(t.out)) \o Coded(h, t.buf) = Coded(h, v.buf) \o Coded(h, p)
  <2> HIDE DEF held
  <2>1. t \in Taken /\ Coded(h, FlattenSeq(t.out)) \o Coded(h, t.buf) = Coded(h, held)
    BY <1>4, TakeKept
  <2> HIDE DEF t
  <2>2. t.buf \in Text /\ t.out \in Seq(Text)
    BY <2>1 DEF Taken
  <2> QED
    BY <1>4, <2>1, <2>2
<1>6. r = CASE v.over -> [w |-> v, out |-> <<p>>]
            [] ~v.over /\ Len(t.buf) > MaxBuffer -> [w |-> [v EXCEPT !.buf = <<>>, !.over = TRUE], out |-> Append(t.out, t.buf)]
            [] OTHER -> [w |-> [v EXCEPT !.buf = t.buf], out |-> t.out]
  BY DEF SSEWrite, Take, Takes
<1> HIDE DEF t, r
<1>7. CASE v.over
  <2>1. r = [w |-> v, out |-> <<p>>]
    BY <1>6, <1>7
  <2>2. r.w = v /\ r.out = <<p>>
    BY <2>1
  <2>3. FlattenSeq(<<p>>) = p /\ <<p>> \in Seq(Text)
    <3>1. <<>> \in Seq(Text)
      OBVIOUS
    <3> QED
      BY <3>1, Pieces
  <2>4. Coded(h, p) \o <<>> = Coded(h, p) /\ <<>> \o Coded(h, p) = Coded(h, p)
    BY <1>2, ConcatEmptySeq
  <2>5. v.buf = <<>> /\ Coded(h, <<>>) = <<>>
    BY <1>1, <1>7, CodedEmpty
  <2>6. Coded(h, FlattenSeq(r.out)) \o Coded(h, r.w.buf) = Coded(h, v.buf) \o Coded(h, p)
    BY <2>2, <2>3, <2>4, <2>5
  <2> QED
    BY <1>1, <2>2, <2>3, <2>6 DEF Passes, r
<1>8. CASE ~v.over /\ Len(t.buf) > MaxBuffer
  <2>1. r = [w |-> [v EXCEPT !.buf = <<>>, !.over = TRUE], out |-> Append(t.out, t.buf)]
    BY <1>6, <1>8
  <2>2. /\ r.out = Append(t.out, t.buf) /\ r.w = [v EXCEPT !.buf = <<>>, !.over = TRUE]
    BY <2>1
  <2>3. /\ r.w \in Rewriters /\ r.w.pending = v.pending /\ r.w.frame = v.frame /\ r.w.sse = v.sse /\ r.w.buf = <<>>
    <3>1. <<>> \in Text
      BY DEF Text
    <3> QED
      BY <1>1, <2>2, <3>1 DEF Rewriters
  <2>4. r.out \in Seq(Text) /\ FlattenSeq(r.out) = FlattenSeq(t.out) \o t.buf /\ FlattenSeq(t.out) \in Text
    <3>1. \A o \in Seq(Text), e \in Text : /\ FlattenSeq(o) \in Text /\ Append(o, e) \in Seq(Text)
                                         /\ FlattenSeq(Append(o, e)) = FlattenSeq(o) \o e
      BY Pieces
    <3> QED
      BY <1>5, <2>2, <3>1, Zenon
  <2>5. Coded(h, FlattenSeq(r.out)) = Coded(h, v.buf) \o Coded(h, p) /\ FlattenSeq(r.out) \in Text
    BY <1>2, <1>5, <2>4
  <2>6. Coded(h, FlattenSeq(r.out)) \o <<>> = Coded(h, FlattenSeq(r.out)) /\ Coded(h, <<>>) = <<>>
    BY <1>2, <2>5, ConcatEmptySeq, CodedEmpty
  <2>7. Coded(h, FlattenSeq(r.out)) \o Coded(h, r.w.buf) = Coded(h, v.buf) \o Coded(h, p)
    BY <2>3, <2>5, <2>6
  <2> QED
    BY <2>3, <2>4, <2>7 DEF Passes, r
<1>9. CASE ~v.over /\ ~(Len(t.buf) > MaxBuffer)
  <2>1. r = [w |-> [v EXCEPT !.buf = t.buf], out |-> t.out]
    BY <1>6, <1>9
  <2>2. r.out = t.out /\ r.w = [v EXCEPT !.buf = t.buf]
    BY <2>1
  <2>3. /\ r.w \in Rewriters /\ r.w.pending = v.pending /\ r.w.frame = v.frame /\ r.w.sse = v.sse /\ r.w.buf = t.buf
        /\ r.w.over = v.over
    BY <1>1, <1>5, <2>2 DEF Rewriters
  <2> QED
    BY <1>5, <1>9, <2>2, <2>3 DEF Passes, r
<1> QED
  BY <1>1, <1>7, <1>8, <1>9

(***************************************************************************)
(* A chunk of raw JSON: its values, framed where events are expected, or   *)
(* the chunk itself (rawJSONChunks).                                       *)
(***************************************************************************)
LEMMA FramedKept ==
  ASSUME NEW h, NEW v, Blind(h, v.frame), NEW q \in Text
  PROVE  LET framed == IF v.frame THEN DataField \o <<"s">> \o q \o <<"n", "n">> ELSE q
         IN  framed \in Text /\ Coded(h, framed) = Coded(h, q)
<1>1. CASE v.frame
  <2>1. \A a, e \in Text : Coded(h, e) = <<>> => /\ a \o e \in Text /\ Coded(h, a \o e) = Coded(h, a)
                                                 /\ e \o a \in Text /\ Coded(h, e \o a) = Coded(h, a)
    BY Trailed
  <2>2. <<"s">> \in Text /\ <<"n", "n">> \in Text /\ Coded(h, <<"s">>) = <<>> /\ Coded(h, <<"n", "n">>) = <<>>
    BY Blanks
  <2>3. DataField \in Text /\ Coded(h, DataField) = <<>>
    <3>1. "da" \in Letter /\ "ta:" \in Letter /\ h["da"] = <<>> /\ h["ta:"] = <<>>
      BY <1>1, Letters DEF Blind
    <3>2. <<"da">> \in Text /\ <<"ta:">> \in Text /\ Coded(h, <<"da">>) = <<>> /\ Coded(h, <<"ta:">>) = <<>>
      BY <3>1, BlindLetter
    <3>3. <<"da">> \o <<"ta:">> = <<"da", "ta:">>
      BY <3>1, ShortSeqs
    <3>4. <<"da">> \o <<"ta:">> \in Text /\ Coded(h, <<"da">> \o <<"ta:">>) = Coded(h, <<"da">>)
      BY <2>1, <3>2, Zenon
    <3> QED
      BY <3>2, <3>3, <3>4 DEF DataField
  <2>4. DataField \o <<"s">> \in Text /\ Coded(h, DataField \o <<"s">>) = <<>>
    BY <2>1, <2>2, <2>3, Zenon
  <2>5. DataField \o <<"s">> \o q \in Text /\ Coded(h, DataField \o <<"s">> \o q) = Coded(h, q)
    BY <2>1, <2>4, Zenon
  <2>6. DataField \o <<"s">> \o q \o <<"n", "n">> \in Text /\ Coded(h, DataField \o <<"s">> \o q \o <<"n", "n">>) = Coded(h, q)
    BY <2>1, <2>2, <2>5, Zenon
  <2> QED
    BY <1>1, <2>6
<1>2. CASE ~v.frame
  BY <1>2
<1> QED
  BY <1>1, <1>2

LEMMA RawKept ==
  ASSUME NEW h, NEW v, Blind(h, v.frame), NEW p \in Text
  PROVE  RawChunks(v, p) \in Seq(Text) /\ Coded(h, FlattenSeq(RawChunks(v, p))) = Coded(h, p)
<1> DEFINE solid == Solid(p)
           n == Len(solid) \div 4
           value(k) == SubSeq(solid, 4 * k - 3, 4 * k)
           framed(q) == IF v.frame THEN DataField \o <<"s">> \o q \o <<"n", "n">> ELSE q
           parts == [k \in 1..n |-> framed(Doc("O"))]
           values == Len(solid) = 4 * n /\ \A k \in 1..n : IsDoc(value(k))
<1>1. RawChunks(v, p) = IF values THEN parts ELSE <<p>>
  BY DEF RawChunks
<1>2. solid \in Text /\ Coded(h, solid) = Coded(h, p)
  BY SolidCoded
<1> HIDE DEF solid
<1>3. Len(solid) \in Nat /\ n \in Nat
  BY <1>2 DEF Text
<1>4. CASE ~values
  <2>1. RawChunks(v, p) = <<p>>
    BY <1>1, <1>4
  <2>2. <<p>> \in Seq(Text) /\ FlattenSeq(<<p>>) = p
    <3>1. <<>> \in Seq(Text)
      OBVIOUS
    <3> QED
      BY <3>1, Pieces
  <2> QED
    BY <2>1, <2>2
<1>5. CASE values
  <2> DEFINE e == framed(Doc("O"))
  <2>1. Doc("O") \in Text /\ \A q \in Text : IsDoc(q) => Coded(h, q) = Coded(h, Doc("O"))
    BY DocCoded
  <2>2. e \in Text /\ Coded(h, e) = Coded(h, Doc("O"))
    BY <2>1, FramedKept
  <2> HIDE DEF framed, e
  <2>3. parts = [k \in 1..n |-> e] /\ RawChunks(v, p) = parts
    BY <1>1, <1>5 DEF e
  <2> HIDE DEF parts
  <2>4. parts \in Seq(Text) /\ Len(parts) = n /\ \A k \in 1..n : parts[k] = e
    BY <1>3, <2>2, <2>3
  <2>5. parts \in Seq(Seq(Letter))
    BY <2>4 DEF Text
  <2>6. PICK f \in [Nat -> Seq(Letter)] : Flattens(f, parts)
    BY <2>5, FlattenSteps
  <2>7. f[0] = <<>> /\ (\A k \in 0..n-1 : f[k+1] = f[k] \o parts[k+1]) /\ FlattenSeq(parts) = f[n]
    BY <2>4, <2>6 DEF Flattens
  <2> HIDE DEF n
  <2> DEFINE S == {k \in Nat : k \in 0..n => Coded(h, f[k]) = Coded(h, SubSeq(solid, 1, 4 * k))}
  <2>8. 0 \in S
    <3>1. SubSeq(solid, 1, 4 * 0) = <<>>
      BY <1>2 DEF Text
    <3> QED
      BY <2>7, <3>1
  <2>9. ASSUME NEW k \in Nat, k \in S PROVE k + 1 \in S
    <3>1. SUFFICES ASSUME k + 1 \in 0..n PROVE Coded(h, f[k+1]) = Coded(h, SubSeq(solid, 1, 4 * (k + 1)))
      OBVIOUS
    <3>2. k \in 0..n-1 /\ k + 1 \in 1..n /\ k \in 0..n /\ f[k] \in Text
      BY <1>3, <2>6, <3>1 DEF Text
    <3>3. f[k+1] = f[k] \o e /\ Coded(h, f[k]) = Coded(h, SubSeq(solid, 1, 4 * k))
      BY <2>4, <2>7, <2>9, <3>2
    <3>4. Len(solid) = 4 * n /\ IsDoc(value(k + 1))
      BY <1>5, <3>2
    <3>5. value(k + 1) = SubSeq(solid, 4 * k + 1, 4 * (k + 1))
      BY <3>2
    <3>6. 1 \in 1..Len(solid)+1 /\ 4 * k \in 1-1..Len(solid) /\ 4 * (k + 1) \in 4 * k..Len(solid)
      BY <1>3, <3>2, <3>4
    <3>7. SubSeq(solid, 1, 4 * k) \in Text /\ SubSeq(solid, 4 * k + 1, 4 * (k + 1)) \in Text
          /\ Coded(h, SubSeq(solid, 1, 4 * (k + 1))) = Coded(h, SubSeq(solid, 1, 4 * k)) \o Coded(h, SubSeq(solid, 4 * k + 1, 4 * (k + 1)))
      <4>1. \A a \in 1..Len(solid)+1 : \A b \in a-1..Len(solid) : \A c \in b..Len(solid) :
               /\ SubSeq(solid, a, b) \in Text /\ SubSeq(solid, b + 1, c) \in Text
               /\ Coded(h, SubSeq(solid, a, c)) = Coded(h, SubSeq(solid, a, b)) \o Coded(h, SubSeq(solid, b + 1, c))
        BY <1>2, Cut
      <4> QED
        BY <3>6, <4>1, Zenon
    <3>8. Coded(h, value(k + 1)) = Coded(h, e)
      <4>1. value(k + 1) \in Text
        BY <3>5, <3>7
      <4> HIDE DEF value
      <4> QED
        BY <2>1, <2>2, <3>4, <4>1
    <3>9. Coded(h, f[k] \o e) = Coded(h, f[k]) \o Coded(h, e)
      <4>1. \A a, b \in Text : Coded(h, a \o b) = Coded(h, a) \o Coded(h, b)
        BY BlindText
      <4> QED
        BY <2>2, <3>2, <4>1, Zenon
    <3> HIDE DEF value
    <3> QED
      BY <3>3, <3>5, <3>7, <3>8, <3>9
  <2>10. Nat \subseteq S
    <3> HIDE DEF S
    <3> QED
      BY <2>8, <2>9, Induction
  <2>11. Coded(h, f[n]) = Coded(h, SubSeq(solid, 1, 4 * n)) /\ SubSeq(solid, 1, 4 * n) = solid
    <3>1. n \in S /\ n \in 0..n
      BY <1>3, <2>10
    <3>2. SubSeq(solid, 1, Len(solid)) = solid
      BY <1>2, SubSeqFull DEF Text
    <3> QED
      BY <1>5, <3>1, <3>2
  <2> QED
    BY <1>2, <2>3, <2>4, <2>7, <2>11
<1> QED
  BY <1>4, <1>5

(***************************************************************************)
(* streamChunkRewriter.Write: of what was held and what was given, nothing *)
(* is lost, doubled or reordered.                                          *)
(***************************************************************************)
HeldBy(v) == v.pending \o v.buf

Through(h, v, p, r) ==
  /\ Sound(r.w) /\ r.w.frame = v.frame
  /\ r.out \in Seq(Text)
  /\ Coded(h, FlattenSeq(r.out)) \o Coded(h, HeldBy(r.w)) = Coded(h, HeldBy(v)) \o Coded(h, p)

\* One of the two parts of what is held is empty.
LEMMA HeldParts ==
  ASSUME NEW v, Sound(v)
  PROVE  /\ v.pending \in Text /\ v.buf \in Text /\ HeldBy(v) \in Text
         /\ v.pending = <<>> => HeldBy(v) = v.buf
         /\ v.buf = <<>> => HeldBy(v) = v.pending
<1>1. v.pending \in Seq(Letter) /\ v.buf \in Seq(Letter) /\ (v.pending = <<>> \/ v.buf = <<>>)
  BY DEF Sound, Rewriters, Text
<1>2. \A p \in Seq(Letter) : p \o <<>> = p /\ <<>> \o p = p
  BY ConcatEmptySeq
<1>3. v.pending = <<>> => HeldBy(v) = v.buf
  BY <1>1, <1>2 DEF HeldBy
<1>4. v.buf = <<>> => HeldBy(v) = v.pending
  BY <1>1, <1>2 DEF HeldBy
<1> QED
  BY <1>1, <1>3, <1>4 DEF Text

LEMMA SSEThrough ==
  ASSUME NEW h, NEW frame, Blind(h, frame), NEW v, Sound(v), v.pending = <<>>, NEW p \in Text
  PROVE  Through(h, v, p, SSEWrite(v, p)) /\ SSEWrite(v, p).w.pending = <<>>
<1> DEFINE r == SSEWrite(v, p)
<1>1. Passes(h, v, p, r)
  BY SSEWriteKept
<1> HIDE DEF r
<1>2. Sound(r.w) /\ r.w.pending = <<>> /\ r.w.frame = v.frame /\ r.out \in Seq(Text)
  BY <1>1 DEF Passes, Sound
<1>3. HeldBy(r.w) = r.w.buf /\ HeldBy(v) = v.buf
  BY <1>2, HeldParts
<1>4. Coded(h, FlattenSeq(r.out)) \o Coded(h, HeldBy(r.w)) = Coded(h, HeldBy(v)) \o Coded(h, p)
  BY <1>1, <1>3 DEF Passes
<1> QED
  BY <1>2, <1>4 DEF Through, r

LEMMA WriteKept ==
  ASSUME NEW h, NEW v, Sound(v), Blind(h, v.frame), NEW chunk \in Text
  PROVE  Through(h, v, chunk, Write(v, chunk))
<1> DEFINE p == v.pending \o chunk
           u == [v EXCEPT !.pending = <<>>]
           e == [v EXCEPT !.pending = <<>>, !.sse = TRUE]
           r == Write(v, chunk)
<1>0. \A a, b \in Text : a \o b \in Text /\ Coded(h, a) \in Seq(Letter) /\ Coded(h, a \o b) = Coded(h, a) \o Coded(h, b)
  BY BlindText DEF Text
<1>1. /\ v \in Rewriters /\ v.pending \in Text /\ v.buf \in Text /\ HeldBy(v) \in Text
      /\ (v.pending # <<>> => v.buf = <<>>) /\ (v.over => v.buf = <<>>)
      /\ v.pending = <<>> => HeldBy(v) = v.buf
      /\ v.buf = <<>> => HeldBy(v) = v.pending
  BY HeldParts DEF Sound
<1>2. p \in Text /\ Coded(h, p) = Coded(h, v.pending) \o Coded(h, chunk)
  BY <1>0, <1>1
<1>3. <<>> \in Text /\ Coded(h, <<>>) = <<>> /\ \A a \in Seq(Letter) : a \o <<>> = a /\ <<>> \o a = a
  BY CodedEmpty, ConcatEmptySeq DEF Text
<1>4. /\ Sound(u) /\ u.pending = <<>> /\ u.buf = v.buf /\ u.frame = v.frame
      /\ Sound(e) /\ e.pending = <<>> /\ e.buf = v.buf /\ e.frame = v.frame
  BY <1>1, <1>3 DEF Sound, Rewriters
<1>5. HeldBy(u) = v.buf /\ HeldBy(e) = v.buf
  <2> HIDE DEF u, e
  <2> QED
    BY <1>4, HeldParts
<1>6. Coded(h, v.buf) \o Coded(h, p) = Coded(h, HeldBy(v)) \o Coded(h, chunk)
  <2> HIDE DEF p
  <2>1. Coded(h, v.buf) \in Seq(Letter) /\ Coded(h, p) \in Seq(Letter) /\ Coded(h, chunk) \in Seq(Letter)
    BY <1>0, <1>1, <1>2
  <2>2. CASE v.pending = <<>>
    <3>1. Coded(h, p) = Coded(h, chunk)
      BY <1>2, <1>3, <2>1, <2>2
    <3> QED
      BY <1>1, <2>2, <3>1
  <2>3. CASE v.pending # <<>>
    <3>1. v.buf = <<>> /\ HeldBy(v) = v.pending
      BY <1>1, <2>3
    <3>2. Coded(h, v.buf) \o Coded(h, p) = Coded(h, p)
      BY <1>3, <2>1, <3>1
    <3> QED
      BY <1>2, <3>1, <3>2
  <2> QED
    BY <2>2, <2>3
<1>7. CASE v.sse \/ v.buf # <<>> \/ IsSSEChunk(p)
  <2>1. r = SSEWrite([u EXCEPT !.sse = TRUE], p)
    BY <1>7 DEF Write
  <2>2. [u EXCEPT !.sse = TRUE] = e
    BY <1>1 DEF Rewriters
  <2>3. Through(h, e, p, r)
    <3> HIDE DEF u, e, p, r
    <3> QED
      BY <1>2, <1>4, <2>1, <2>2, SSEThrough
  <2> HIDE DEF r, e, p, u
  <2> QED
    BY <1>4, <1>5, <1>6, <2>3 DEF Through, r
<1>8. CASE ~(v.sse \/ v.buf # <<>> \/ IsSSEChunk(p)) /\ IsIncompletePrefix(p)
  <2>1. r = [w |-> [u EXCEPT !.pending = p], out |-> <<>>]
    BY <1>8 DEF Write
  <2>2. v.buf = <<>>
    BY <1>8
  <2>3. r.out = <<>> /\ r.w = [u EXCEPT !.pending = p]
    BY <2>1
  <2>4. Sound(r.w) /\ r.w.frame = v.frame /\ r.w.pending = p /\ r.w.buf = <<>>
    <3> HIDE DEF p, r
    <3> QED
      BY <1>1, <1>2, <2>2, <2>3 DEF Sound, Rewriters
  <2>5. HeldBy(r.w) = p
    <3> HIDE DEF p, r
    <3> QED
      BY <2>4, HeldParts
  <2> HIDE DEF p, r
  <2>6. Coded(h, FlattenSeq(r.out)) = <<>> /\ r.out \in Seq(Text) /\ Coded(h, p) \in Seq(Letter)
    <3>1. <<>> \in Seq(Text) /\ Coded(h, FlattenSeq(<<>>)) = <<>>
      BY <1>3, FlattenEmpty
    <3>2. Coded(h, p) \in Seq(Letter)
      BY <1>0, <1>2, Zenon
    <3> QED
      BY <2>3, <3>1, <3>2
  <2>7. Coded(h, FlattenSeq(r.out)) \o Coded(h, HeldBy(r.w)) = Coded(h, p)
    BY <1>3, <2>5, <2>6
  <2>8. Coded(h, v.buf) \o Coded(h, p) = Coded(h, p)
    BY <1>3, <2>2, <2>6
  <2> QED
    BY <1>6, <2>4, <2>6, <2>7, <2>8 DEF Through, r
<1>9. CASE ~(v.sse \/ v.buf # <<>> \/ IsSSEChunk(p)) /\ ~IsIncompletePrefix(p)
  <2>1. r = [w |-> u, out |-> RawChunks(u, p)]
    BY <1>9 DEF Write
  <2>2. v.buf = <<>> /\ r.w = u /\ r.out = RawChunks(u, p)
    BY <1>9, <2>1
  <2>3. r.out \in Seq(Text) /\ Coded(h, FlattenSeq(r.out)) = Coded(h, p)
    <3> HIDE DEF p, r, u
    <3> QED
      BY <1>2, <1>4, <2>2, RawKept
  <2> HIDE DEF p, r, u
  <2>4. Coded(h, HeldBy(r.w)) = <<>> /\ Coded(h, p) \in Seq(Letter)
    BY <1>0, <1>2, <1>3, <1>5, <2>2
  <2>5. Coded(h, FlattenSeq(r.out)) \o Coded(h, HeldBy(r.w)) = Coded(h, p) /\ Coded(h, v.buf) \o Coded(h, p) = Coded(h, p)
    BY <1>3, <2>2, <2>3, <2>4
  <2> QED
    BY <1>4, <1>6, <2>2, <2>3, <2>5 DEF Through, r
<1> QED
  BY <1>7, <1>8, <1>9

(***************************************************************************)
(* Flush leaves nothing behind.                                            *)
(***************************************************************************)
Flushed(h, v, r) ==
  /\ Sound(r.w) /\ r.w.frame = v.frame /\ HeldBy(r.w) = <<>>
  /\ r.out \in Seq(Text)
  /\ Coded(h, FlattenSeq(r.out)) = Coded(h, HeldBy(v))

LEMMA SSEFlushKept ==
  ASSUME NEW h, NEW frame, Blind(h, frame), NEW v, Sound(v), v.pending = <<>>
  PROVE  Flushed(h, v, SSEFlush(v))
<1> DEFINE r == SSEFlush(v)
           e == IF v.over THEN v.buf ELSE RewriteEvent(v.buf)
<1>1. v \in Rewriters /\ v.buf \in Text /\ HeldBy(v) = v.buf /\ <<>> \in Text
  BY HeldParts DEF Sound, Text
<1>2. r.w = [v EXCEPT !.buf = <<>>] /\ r.out = IF v.buf = <<>> THEN <<>> ELSE <<e>>
  BY DEF SSEFlush
<1>3. e \in Text /\ Coded(h, e) = Coded(h, v.buf)
  BY <1>1, EventKept
<1> HIDE DEF e, r
<1>4. Sound(r.w) /\ r.w.frame = v.frame /\ r.w.pending = <<>> /\ r.w.buf = <<>>
  BY <1>1, <1>2 DEF Sound, Rewriters
<1>5. HeldBy(r.w) = <<>>
  BY <1>4, HeldParts
<1>6. <<e>> \in Seq(Text) /\ FlattenSeq(<<e>>) = e /\ <<>> \in Seq(Text) /\ FlattenSeq(<<>>) = <<>>
  <2>1. <<>> \in Seq(Text)
    OBVIOUS
  <2> QED
    BY <1>3, <2>1, Pieces, FlattenEmpty
<1>7. r.out \in Seq(Text) /\ Coded(h, FlattenSeq(r.out)) = Coded(h, v.buf)
  BY <1>2, <1>3, <1>6
<1> QED
  BY <1>1, <1>4, <1>5, <1>7 DEF Flushed, r

LEMMA FlushKept ==
  ASSUME NEW h, NEW v, Sound(v), Blind(h, v.frame)
  PROVE  Flushed(h, v, Flush(v))
<1>1. CASE v.pending = <<>>
  <2>1. Flush(v) = SSEFlush(v)
    BY <1>1 DEF Flush
  <2> QED
    BY <1>1, <2>1, SSEFlushKept
<1>2. CASE v.pending # <<>>
  <2> DEFINE u == [v EXCEPT !.pending = <<>>]
             first == SSEWrite(u, v.pending)
             rest == SSEFlush(first.w)
             r == Flush(v)
  <2>1. r = [w |-> rest.w, out |-> first.out \o rest.out]
    BY <1>2 DEF Flush
  <2>2. v.pending \in Text /\ HeldBy(v) = v.pending /\ v.buf = <<>> /\ v \in Rewriters /\ <<>> \in Text
    BY <1>2, HeldParts DEF Sound, Text
  <2>3. Sound(u) /\ u.pending = <<>> /\ u.frame = v.frame /\ u.buf = <<>>
    BY <2>2 DEF Sound, Rewriters
  <2>4. HeldBy(u) = <<>>
    <3> HIDE DEF u
    <3> QED
      BY <2>3, HeldParts
  <2>5. Through(h, u, v.pending, first) /\ first.w.pending = <<>>
    <3> HIDE DEF u
    <3> QED
      BY <2>2, <2>3, SSEThrough
  <2> HIDE DEF first
  <2>6. Flushed(h, first.w, rest)
    <3>1. Sound(first.w)
      BY <2>5 DEF Through
    <3> QED
      BY <2>5, <3>1, SSEFlushKept
  <2> HIDE DEF rest, r, u
  <2>7. r.w = rest.w /\ r.out = first.out \o rest.out
    BY <2>1
  <2>8. first.out \in Seq(Text) /\ rest.out \in Seq(Text) /\ r.out \in Seq(Text)
    <3>1. first.out \in Seq(Text) /\ rest.out \in Seq(Text)
      BY <2>5, <2>6 DEF Through, Flushed
    <3> QED
      BY <2>7, <3>1, ConcatProperties
  <2>9. FlattenSeq(r.out) = FlattenSeq(first.out) \o FlattenSeq(rest.out)
    <3>1. first.out \in Seq(Seq(Letter)) /\ rest.out \in Seq(Seq(Letter))
      BY <2>8 DEF Text
    <3> QED
      BY <2>7, <3>1, FlattenConcat
  <2>10. FlattenSeq(first.out) \in Text /\ FlattenSeq(rest.out) \in Text
    <3>1. \A o \in Seq(Text) : FlattenSeq(o) \in Text
      <4>1. <<>> \in Text
        BY DEF Text
      <4> QED
        BY <4>1, Pieces
    <3> QED
      BY <2>8, <3>1
  <2>11. Coded(h, FlattenSeq(r.out)) = Coded(h, FlattenSeq(first.out)) \o Coded(h, FlattenSeq(rest.out))
    <3>1. \A a, b \in Text : Coded(h, a \o b) = Coded(h, a) \o Coded(h, b)
      BY BlindText
    <3> QED
      BY <2>9, <2>10, <3>1, Zenon
  <2>12. Coded(h, FlattenSeq(rest.out)) = Coded(h, HeldBy(first.w))
    BY <2>6 DEF Flushed
  <2>13. Coded(h, FlattenSeq(first.out)) \o Coded(h, HeldBy(first.w)) = <<>> \o Coded(h, v.pending)
    BY <2>4, <2>5, CodedEmpty DEF Through
  <2>14. <<>> \o Coded(h, v.pending) = Coded(h, v.pending)
    <3>1. Coded(h, v.pending) \in Seq(Letter)
      BY <2>2, BlindText DEF Text
    <3> QED
      BY <3>1, ConcatEmptySeq
  <2>15. Coded(h, FlattenSeq(r.out)) = Coded(h, HeldBy(v))
    BY <2>2, <2>11, <2>12, <2>13, <2>14
  <2>16. Sound(r.w) /\ r.w.frame = v.frame /\ HeldBy(r.w) = <<>>
    BY <2>3, <2>5, <2>6, <2>7 DEF Through, Flushed
  <2> QED
    BY <2>8, <2>15, <2>16 DEF Flushed, r
<1> QED
  BY <1>1, <1>2

-----------------------------------------------------------------------------
(***************************************************************************)
(* The coding of Essence.                                                  *)
(***************************************************************************)
Kept(frame) ==
  [c \in Letter |-> IF c \in White \cup (IF frame THEN {"da", "ta:"} ELSE {}) THEN <<>>
                    ELSE IF c = "M" THEN <<"O">> ELSE <<c>>]

LEMMA KeptIsBlind == ASSUME NEW frame \in BOOLEAN PROVE Blind(Kept(frame), frame)
<1>1. \A c \in Letter : <<c>> \in Text
  BY DEF Text
<1>2. "O" \in Letter /\ "M" \in Letter /\ "da" \in Letter /\ "ta:" \in Letter /\ White \subseteq Letter
  BY Letters
<1>3. <<>> \in Text
  BY DEF Text
<1>4. Kept(frame) \in Codings(Letter, Text)
  BY <1>1, <1>2, <1>3 DEF Codings, Kept
<1>5. \A c \in White : Kept(frame)[c] = <<>>
  BY <1>2 DEF Kept
<1>6. Kept(frame)["M"] = Kept(frame)["O"]
  BY <1>2 DEF Kept, White
<1>7. frame => Kept(frame)["da"] = <<>> /\ Kept(frame)["ta:"] = <<>>
  BY <1>2 DEF Kept
<1> QED
  BY <1>4, <1>5, <1>6, <1>7 DEF Blind

LEMMA EssenceIsCoded ==
  ASSUME NEW p \in Text
  PROVE  Essence(p) = Coded(Kept(stream.frame), p)
<1> DEFINE frame == IF stream.frame THEN {"da", "ta:"} ELSE {}
           kept(c) == IF c \in White \cup frame THEN <<>> ELSE IF c = "M" THEN <<"O">> ELSE <<c>>
<1>1. Essence(p) = FlattenSeq([i \in DOMAIN p |-> kept(p[i])])
  BY DEF Essence
<1>2. \A c \in Letter : Kept(stream.frame)[c] = kept(c)
  BY DEF Kept
<1>3. \A i \in DOMAIN p : p[i] \in Letter
  BY DEF Text
<1> HIDE DEF kept
<1>4. [i \in DOMAIN p |-> kept(p[i])] = [i \in DOMAIN p |-> Kept(stream.frame)[p[i]]]
  BY <1>2, <1>3
<1> QED
  BY <1>1, <1>4 DEF Coded, Mapped

(***************************************************************************)
(* What has been handed over, what waits and what the rewriter holds is    *)
(* what was read; once the upstream has ended nothing is held; a good end  *)
(* was told only of a whole text.                                          *)
(***************************************************************************)
C(p) == Coded(Kept(stream.frame), p)

TextSide ==
  /\ stream \in Streams /\ read \in 0..Len(stream.text)
  /\ Sound(w) /\ w.frame = stream.frame
  /\ out \in Seq(Text) /\ emitted \in Text
  /\ pc \in {"open", "read"} => out = <<>> /\ ended = "no"
  /\ ended = "done" => read = Len(stream.text)
  /\ ended # "no" => HeldBy(w) = <<>>
  /\ (C(emitted) \o C(FlattenSeq(out))) \o C(HeldBy(w)) = C(SubSeq(stream.text, 1, read))
  /\ \A i \in DOMAIN told : ~told[i].error => C(emitted) = C(stream.text)

LEMMA CAll ==
  ASSUME stream \in Streams
  PROVE  /\ stream.text \in Text /\ stream.frame \in BOOLEAN /\ Blind(Kept(stream.frame), stream.frame)
         /\ C(<<>>) = <<>>
         /\ \A p \in Text : C(p) \in Seq(Letter)
         /\ \A p, q \in Text : p \o q \in Text /\ C(p \o q) = C(p) \o C(q)
<1>1. stream.text \in Text /\ stream.frame \in BOOLEAN
  BY StreamsAssumption DEF Text
<1>2. Blind(Kept(stream.frame), stream.frame)
  BY <1>1, KeptIsBlind
<1> QED
  BY <1>1, <1>2, BlindText DEF C, Text

LEMMA TextSideInit == StreamInit => TextSide
<1> SUFFICES ASSUME StreamInit PROVE TextSide
  OBVIOUS
<1>1. /\ stream \in Streams /\ w = NewRewriter(stream.frame) /\ ended = "no"
      /\ read = 0 /\ out = <<>> /\ emitted = <<>> /\ told = <<>>
  BY DEF StreamInit
<1>2. stream.text \in Text /\ stream.frame \in BOOLEAN /\ C(<<>>) = <<>>
  BY <1>1, CAll
<1>3. <<>> \in Text /\ Len(stream.text) \in Nat
  BY <1>2 DEF Text
<1>4. Sound(w) /\ w.frame = stream.frame /\ w.pending = <<>> /\ w.buf = <<>>
  BY <1>1, <1>2, <1>3 DEF NewRewriter, Sound, Rewriters
<1>5. HeldBy(w) = <<>>
  BY <1>4, HeldParts
<1>6. FlattenSeq(out) = <<>> /\ out \in Seq(Text)
  BY <1>1, FlattenEmpty
<1>7. SubSeq(stream.text, 1, 0) = <<>>
  BY <1>2 DEF Text
<1>8. (C(emitted) \o C(FlattenSeq(out))) \o C(HeldBy(w)) = C(SubSeq(stream.text, 1, read))
  <2>1. C(emitted) = <<>> /\ C(FlattenSeq(out)) = <<>> /\ C(HeldBy(w)) = <<>>
    BY <1>1, <1>2, <1>5, <1>6
  <2>2. C(SubSeq(stream.text, 1, read)) = <<>>
    BY <1>1, <1>2, <1>7
  <2> QED
    BY <2>1, <2>2
<1> QED
  BY <1>1, <1>3, <1>4, <1>5, <1>6, <1>8 DEF TextSide

\* What the steps have in common that leave the text where it is.
LEMMA TextStays ==
  ASSUME TextSide, UNCHANGED <<stream, read, w, out, ended, emitted>>,
         pc' \in {"open", "read"} => out = <<>> /\ ended = "no",
         \A i \in DOMAIN told' : ~told'[i].error => C(emitted) = C(stream.text)
  PROVE  TextSide'
BY DEF TextSide, C

LEMMA TextSideStep == PluginSide /\ TextSide /\ [StreamNext]_streamVars => TextSide'
<1> SUFFICES ASSUME PluginSide, TextSide, [StreamNext]_streamVars PROVE TextSide'
  OBVIOUS
<1> USE DEF C
<1>0. /\ stream \in Streams /\ read \in 0..Len(stream.text) /\ Sound(w) /\ w.frame = stream.frame
      /\ out \in Seq(Text) /\ emitted \in Text
      /\ pc \in {"open", "read"} => out = <<>> /\ ended = "no"
      /\ ended = "done" => read = Len(stream.text)
      /\ ended # "no" => HeldBy(w) = <<>>
      /\ (C(emitted) \o C(FlattenSeq(out))) \o C(HeldBy(w)) = C(SubSeq(stream.text, 1, read))
      /\ \A i \in DOMAIN told : ~told[i].error => C(emitted) = C(stream.text)
  BY DEF TextSide
<1>a. /\ stream.text \in Text /\ Blind(Kept(stream.frame), stream.frame) /\ C(<<>>) = <<>>
      /\ \A p \in Text : C(p) \in Seq(Letter)
      /\ \A p, q \in Text : p \o q \in Text /\ C(p \o q) = C(p) \o C(q)
  BY <1>0, CAll
<1>b. \A p \in Seq(Letter) : p \o <<>> = p /\ <<>> \o p = p
  BY ConcatEmptySeq
<1>c. Len(stream.text) \in Nat /\ FlattenSeq(<<>>) = <<>> /\ HeldBy(w) \in Text /\ FlattenSeq(out) \in Text
  <2>1. Len(stream.text) \in Nat
    BY <1>a DEF Text
  <2>2. <<>> \in Text
    BY DEF Text
  <2> QED
    BY <1>0, <2>1, <2>2, Pieces, FlattenEmpty, HeldParts
<1>d. \A a, b, c \in Seq(Letter) : (a \o b) \o c = a \o (b \o c)
  BY ConcatAssociative
<1> HIDE DEF C
<1>1. CASE Open
  BY <1>1, <1>0, TextStays DEF Open
<1>2. CASE ReadChunk
  <2>1. PICK to \in read + 1..Len(stream.text) :
          GiveOut(Write(w, SubSeq(stream.text, read + 1, to))) /\ read' = to
    BY <1>2 DEF ReadChunk
  <2> DEFINE chunk == SubSeq(stream.text, read + 1, to)
             r == Write(w, chunk)
  <2>2. /\ UNCHANGED <<stream, ended, emitted, told>> /\ out = <<>> /\ ended = "no"
        /\ w' = r.w /\ out' = r.out /\ pc' = "emit" /\ read' = to
    BY <1>2, <1>0, <2>1 DEF ReadChunk, GiveOut
  <2>3. to \in Nat /\ to \in 0..Len(stream.text) /\ read \in Nat
    BY <1>0, <1>c, <2>1
  <2>4. chunk \in Text /\ SubSeq(stream.text, 1, read) \in Text /\ C(SubSeq(stream.text, 1, to)) = C(SubSeq(stream.text, 1, read)) \o C(chunk)
    <3>1. \A a \in 1..Len(stream.text)+1 : \A b \in a-1..Len(stream.text) : \A c \in b..Len(stream.text) :
             /\ SubSeq(stream.text, a, b) \in Text /\ SubSeq(stream.text, b + 1, c) \in Text
             /\ C(SubSeq(stream.text, a, c)) = C(SubSeq(stream.text, a, b)) \o C(SubSeq(stream.text, b + 1, c))
      <4> DEFINE K == Kept(stream.frame)
                 t == stream.text
                 f == stream.frame
      <4>1. Blind(K, f) /\ t \in Text
        BY <1>a
      <4> HIDE DEF K, t, f
      <4>2. \A a \in 1..Len(t)+1 : \A b \in a-1..Len(t) : \A c \in b..Len(t) :
               /\ SubSeq(t, a, b) \in Text /\ SubSeq(t, b + 1, c) \in Text
               /\ Coded(K, SubSeq(t, a, c)) = Coded(K, SubSeq(t, a, b)) \o Coded(K, SubSeq(t, b + 1, c))
        BY <4>1, Cut
      <4> QED
        BY <4>2 DEF C, K, t
    <3>2. 1 \in 1..Len(stream.text)+1 /\ read \in 1-1..Len(stream.text) /\ to \in read..Len(stream.text)
      BY <1>0, <1>c, <2>1
    <3> QED
      BY <3>1, <3>2, Zenon
  <2>5. Through(Kept(stream.frame), w, chunk, r)
    <3> HIDE DEF chunk
    <3> QED
      BY <1>0, <1>a, <2>4, WriteKept
  <2> HIDE DEF r, chunk
  <2>6. /\ Sound(r.w) /\ r.w.frame = w.frame /\ r.out \in Seq(Text)
        /\ C(FlattenSeq(r.out)) \o C(HeldBy(r.w)) = C(HeldBy(w)) \o C(chunk)
    BY <2>5 DEF Through, C
  <2>7. /\ C(emitted) \in Seq(Letter) /\ C(HeldBy(w)) \in Seq(Letter) /\ C(chunk) \in Seq(Letter)
        /\ C(FlattenSeq(r.out)) \in Seq(Letter) /\ C(HeldBy(r.w)) \in Seq(Letter)
    <3>1. FlattenSeq(r.out) \in Text /\ HeldBy(r.w) \in Text
      BY <1>0, <2>6, Pieces, HeldParts
    <3> QED
      BY <1>0, <1>a, <1>c, <2>4, <3>1
  <2>8. C(emitted) \o C(HeldBy(w)) = C(SubSeq(stream.text, 1, read))
    <3>1. C(FlattenSeq(out)) = <<>> /\ C(emitted) \o <<>> = C(emitted)
      BY <1>a, <1>b, <1>c, <2>2, <2>7
    <3> QED
      BY <1>0, <3>1
  <2>9. (C(emitted) \o C(FlattenSeq(r.out))) \o C(HeldBy(r.w)) = C(SubSeq(stream.text, 1, to))
    <3>1. (C(emitted) \o C(FlattenSeq(r.out))) \o C(HeldBy(r.w)) = C(emitted) \o (C(FlattenSeq(r.out)) \o C(HeldBy(r.w)))
      <4> DEFINE a == C(emitted)
                 b == C(FlattenSeq(r.out))
                 c == C(HeldBy(r.w))
      <4>1. a \in Seq(Letter) /\ b \in Seq(Letter) /\ c \in Seq(Letter)
        BY <2>7
      <4> HIDE DEF a, b, c
      <4>2. (a \o b) \o c = a \o (b \o c)
        BY <1>d, <4>1
      <4> QED
        BY <4>2 DEF a, b, c
    <3>2. C(emitted) \o (C(HeldBy(w)) \o C(chunk)) = (C(emitted) \o C(HeldBy(w))) \o C(chunk)
      <4> DEFINE a == C(emitted)
                 b == C(HeldBy(w))
                 c == C(chunk)
      <4>1. a \in Seq(Letter) /\ b \in Seq(Letter) /\ c \in Seq(Letter)
        BY <2>7
      <4> HIDE DEF a, b, c
      <4>2. a \o (b \o c) = (a \o b) \o c
        BY <1>d, <4>1
      <4> QED
        BY <4>2 DEF a, b, c
    <3> QED
      BY <2>4, <2>6, <2>8, <3>1, <3>2
  <2> QED
    BY <1>0, <2>2, <2>3, <2>6, <2>9 DEF TextSide, C
<1>3. CASE ReadEnd
  <2> DEFINE r == Flush(w)
  <2>1. /\ UNCHANGED <<stream, read, emitted, told>> /\ out = <<>> /\ ended = "no"
        /\ w' = r.w /\ out' = r.out /\ pc' = "emit"
        /\ (ended' = "done" /\ read = Len(stream.text)) \/ ended' = "error"
    BY <1>3, <1>0 DEF ReadEnd, GiveOut
  <2>2. Flushed(Kept(stream.frame), w, r)
    BY <1>0, <1>a, FlushKept
  <2> HIDE DEF r
  <2>3. /\ Sound(r.w) /\ r.w.frame = w.frame /\ HeldBy(r.w) = <<>> /\ r.out \in Seq(Text)
        /\ C(FlattenSeq(r.out)) = C(HeldBy(w))
    BY <2>2 DEF Flushed, C
  <2>4. C(emitted) \in Seq(Letter) /\ C(HeldBy(w)) \in Seq(Letter) /\ C(emitted) \o C(HeldBy(w)) \in Seq(Letter)
    <3>1. C(emitted) \in Seq(Letter) /\ C(HeldBy(w)) \in Seq(Letter)
      BY <1>0, <1>a, <1>c
    <3> QED
      BY <3>1, ConcatProperties
  <2>5. (C(emitted) \o C(FlattenSeq(r.out))) \o C(HeldBy(r.w)) = C(SubSeq(stream.text, 1, read))
    <3>1. C(emitted) \o C(HeldBy(w)) = C(SubSeq(stream.text, 1, read))
      <4>1. C(FlattenSeq(out)) = <<>>
        BY <1>a, <1>c, <2>1
      <4>2. (C(emitted) \o <<>>) \o C(HeldBy(w)) = C(SubSeq(stream.text, 1, read))
        BY <1>0, <4>1
      <4>3. C(emitted) \o <<>> = C(emitted)
        BY <1>b, <2>4
      <4> QED
        BY <4>2, <4>3
    <3>2. (C(emitted) \o C(HeldBy(w))) \o <<>> = C(emitted) \o C(HeldBy(w))
      BY <1>b, <2>4
    <3> QED
      BY <1>a, <2>3, <3>1, <3>2
  <2> QED
    BY <1>0, <2>1, <2>3, <2>5 DEF TextSide, C
<1>4. CASE ReadFails
  BY <1>4, <1>0, TextStays DEF ReadFails
<1>5. CASE Emit
  <2>1. CASE UNCHANGED <<emitted, out>>
    <3>1. pc' \in {"emit", "abort"} /\ UNCHANGED <<stream, read, w, ended, told>>
      BY <1>5 DEF Emit
    <3> QED
      BY <2>1, <3>1, <1>0, TextStays
  <2>2. CASE emitted' = emitted \o Head(out) /\ out' = Tail(out)
    <3>1. /\ pc' \in {"emit", "abort"} /\ UNCHANGED <<stream, read, w, ended, told>>
          /\ out # <<>> /\ pc = "emit"
      BY <1>5 DEF Emit
    <3>2. told = <<>>
      BY <3>1 DEF PluginSide
    <3>3. Head(out) \in Text /\ Tail(out) \in Seq(Text)
      BY <1>0, <3>1, HeadTailProperties
    <3>4. FlattenSeq(out) = Head(out) \o FlattenSeq(Tail(out))
      <4>1. out \in Seq(Seq(Letter))
        BY <1>0 DEF Text
      <4> QED
        BY <3>1, <4>1, FlattenHead
    <3>5. FlattenSeq(Tail(out)) \in Text
      BY <3>3, Pieces
    <3>6. /\ C(emitted \o Head(out)) = C(emitted) \o C(Head(out)) /\ emitted \o Head(out) \in Text
          /\ C(FlattenSeq(out)) = C(Head(out)) \o C(FlattenSeq(Tail(out)))
      <4>1. \A p, q \in Text : p \o q \in Text /\ C(p \o q) = C(p) \o C(q)
        BY <1>a
      <4>2. emitted \in Text
        BY <1>0
      <4>3. C(Head(out) \o FlattenSeq(Tail(out))) = C(Head(out)) \o C(FlattenSeq(Tail(out)))
        BY <3>3, <3>5, <4>1
      <4>4. C(emitted \o Head(out)) = C(emitted) \o C(Head(out)) /\ emitted \o Head(out) \in Text
        BY <3>3, <4>1, <4>2
      <4> QED
        BY <3>4, <4>3, <4>4
    <3>7. C(emitted) \in Seq(Letter) /\ C(Head(out)) \in Seq(Letter) /\ C(FlattenSeq(Tail(out))) \in Seq(Letter)
      BY <1>0, <1>a, <3>3, <3>5
    <3>8. (C(emitted) \o C(Head(out))) \o C(FlattenSeq(Tail(out))) = C(emitted) \o (C(Head(out)) \o C(FlattenSeq(Tail(out))))
      BY <3>7, <1>d, Zenon
    <3>9. (C(emitted \o Head(out)) \o C(FlattenSeq(Tail(out)))) \o C(HeldBy(w)) = C(SubSeq(stream.text, 1, read))
      BY <1>0, <3>6, <3>8
    <3>10. DOMAIN told' = {}
      BY <3>1, <3>2
    <3> QED
      BY <1>0, <2>2, <3>1, <3>3, <3>6, <3>9, <3>10 DEF TextSide, C
  <2> QED
    BY <1>5, <2>1, <2>2 DEF Emit
<1>6. CASE EmitDone
  <2>1. UNCHANGED <<stream, read, w, out, ended, emitted, told>> /\ out = <<>> /\ (pc' \in {"open", "read"} => ended = "no")
    BY <1>6 DEF EmitDone
  <2> QED
    BY <2>1, <1>0, TextStays
<1>7. CASE CloseHost
  <2>1. UNCHANGED <<stream, read, w, out, ended, emitted, told>> /\ pc' \notin {"open", "read"}
    BY <1>7 DEF CloseHost
  <2> QED
    BY <2>1, <1>0, TextStays
<1>8. CASE ClosePlugin
  <2>1. told = <<>> /\ ended # "no" /\ out = <<>> /\ pc' \notin {"open", "read"}
    BY <1>8 DEF ClosePlugin, PluginSide
  <2>2. PICK answered \in BOOLEAN : told' = Append(told, [error |-> (ended = "error"), answered |-> answered])
    BY <1>8 DEF ClosePlugin, Close
  <2>3. DOMAIN told' = {1} /\ told'[1].error = (ended = "error")
    BY <2>1, <2>2
  <2>4. UNCHANGED <<stream, read, w, out, ended, emitted>>
    BY <1>8 DEF ClosePlugin
  <2>5. ended # "error" => C(emitted) = C(stream.text)
    <3>1. SUFFICES ASSUME ended # "error" PROVE C(emitted) = C(stream.text)
      OBVIOUS
    <3>2. ended = "done"
      BY <2>1, <3>1 DEF PluginSide
    <3>3. HeldBy(w) = <<>> /\ read = Len(stream.text) /\ SubSeq(stream.text, 1, Len(stream.text)) = stream.text
      BY <1>0, <1>a, <3>2, SubSeqFull DEF Text
    <3>4. C(emitted) \in Seq(Letter)
      BY <1>0, <1>a
    <3>5. C(FlattenSeq(out)) = <<>> /\ C(HeldBy(w)) = <<>> /\ C(emitted) \o <<>> = C(emitted)
      BY <1>a, <1>b, <1>c, <2>1, <3>3, <3>4
    <3>6. C(SubSeq(stream.text, 1, read)) = C(stream.text)
      BY <3>3
    <3> QED
      BY <1>0, <3>5, <3>6
  <2> QED
    BY <2>1, <2>3, <2>4, <2>5, TextStays
<1>9. CASE Fail
  <2>1. PICK answered \in BOOLEAN : told' = Append(told, [error |-> TRUE, answered |-> answered])
    BY <1>9 DEF Fail, Close
  <2> DEFINE c == [error |-> TRUE, answered |-> answered]
  <2>2. c.error /\ c \in Closes /\ told' = Append(told, c) /\ told \in Seq(Closes)
    BY <2>1 DEF Closes, PluginSide
  <2> HIDE DEF c
  <2>3. /\ told' \in Seq(Closes) /\ Len(told') = Len(told) + 1 /\ told'[Len(told')].error
        /\ \A i \in 1..Len(told) : told'[i] = told[i]
    BY <2>2, Closed
  <2>4. \A i \in DOMAIN told' : ~told'[i].error => C(emitted) = C(stream.text)
    <3>1. DOMAIN told' = 1..Len(told)+1 /\ DOMAIN told = 1..Len(told) /\ Len(told) \in Nat
      BY <2>2, <2>3
    <3>2. ASSUME NEW i \in DOMAIN told', ~told'[i].error PROVE C(emitted) = C(stream.text)
      <4>1. i \in 1..Len(told)
        BY <2>3, <3>1, <3>2
      <4>2. told'[i] = told[i] /\ i \in DOMAIN told
        BY <2>3, <3>1, <4>1
      <4> QED
        BY <1>0, <3>2, <4>2
    <3> QED
      BY <3>2
  <2>5. UNCHANGED <<stream, read, w, out, ended, emitted>> /\ pc' \notin {"open", "read"}
    BY <1>9 DEF Fail
  <2> QED
    BY <2>4, <2>5, TextStays
<1>10. CASE Panic
  <2>1. UNCHANGED <<stream, read, w, out, ended, emitted, told>> /\ pc' \notin {"open", "read"}
    BY <1>10 DEF Panic
  <2> QED
    BY <2>1, <1>0, TextStays
<1>11. CASE UNCHANGED streamVars
  <2>1. UNCHANGED <<stream, read, w, out, ended, emitted, told, pc>>
    BY <1>11 DEF streamVars
  <2> QED
    BY <2>1, <1>0, TextStays
<1> QED
  BY <1>1, <1>2, <1>3, <1>4, <1>5, <1>6, <1>7, <1>8, <1>9, <1>10, <1>11 DEF StreamNext

LEMMA TextSideAlways == StreamSpec => []TextSide
BY PluginSideInit, PluginSideStep, TextSideInit, TextSideStep, PTL DEF StreamSpec

(***************************************************************************)
(* However the text is cut, wherever the latch falls and the buffer        *)
(* overflows: what the client got, what waits and what the rewriter holds  *)
(* is what was read, in its order (streamChunkRewriter.Write, Flush).      *)
(***************************************************************************)
THEOREM TextIsConserved == StreamSpec => []Conserved
<1>1. TextSide => Conserved
  <2> SUFFICES ASSUME TextSide PROVE Conserved
    OBVIOUS
  <2>1. /\ stream \in Streams /\ read \in 0..Len(stream.text) /\ Sound(w)
        /\ out \in Seq(Text) /\ emitted \in Text
        /\ (C(emitted) \o C(FlattenSeq(out))) \o C(HeldBy(w)) = C(SubSeq(stream.text, 1, read))
    BY DEF TextSide
  <2>2. FlattenSeq(out) \in Text /\ HeldBy(w) \in Text
    BY <2>1, Pieces, HeldParts
  <2>3. stream.text \in Text /\ \A p, q \in Text : p \o q \in Text /\ C(p \o q) = C(p) \o C(q)
    BY <2>1, CAll
  <2>4. emitted \o FlattenSeq(out) \in Text /\ C(emitted \o FlattenSeq(out)) = C(emitted) \o C(FlattenSeq(out))
    BY <2>1, <2>2, <2>3, Zenon
  <2>5. /\ emitted \o FlattenSeq(out) \o HeldBy(w) \in Text
        /\ C(emitted \o FlattenSeq(out) \o HeldBy(w)) = C(SubSeq(stream.text, 1, read))
    <3>1. C(emitted \o FlattenSeq(out) \o HeldBy(w)) = C(emitted \o FlattenSeq(out)) \o C(HeldBy(w))
          /\ emitted \o FlattenSeq(out) \o HeldBy(w) \in Text
      BY <2>2, <2>3, <2>4, Zenon
    <3> QED
      BY <2>1, <2>4, <3>1, Zenon
  <2>6. SubSeq(stream.text, 1, read) \in Text
    BY <2>1, <2>3 DEF Text
  <2>7. /\ Essence(emitted \o FlattenSeq(out) \o HeldBy(w)) = C(emitted \o FlattenSeq(out) \o HeldBy(w))
        /\ Essence(SubSeq(stream.text, 1, read)) = C(SubSeq(stream.text, 1, read))
    BY <2>5, <2>6, EssenceIsCoded DEF C
  <2>8. HeldBy(w) = Held
    BY DEF HeldBy, Held
  <2> QED
    BY <2>5, <2>7, <2>8 DEF Conserved
<1> QED
  BY <1>1, TextSideAlways, PTL

(***************************************************************************)
(* A stream that the client was told ended well reached it whole: the tail *)
(* the rewriter held was flushed, and nothing that waited was dropped      *)
(* (runStreamForward).                                                     *)
(***************************************************************************)
THEOREM CleanClosesAreComplete == StreamSpec => []CleanCloseIsComplete
<1>1. TextSide => CleanCloseIsComplete
  <2> SUFFICES ASSUME TextSide PROVE CleanCloseIsComplete
    OBVIOUS
  <2>1. stream \in Streams /\ emitted \in Text /\ \A i \in DOMAIN told : ~told[i].error => C(emitted) = C(stream.text)
    BY DEF TextSide
  <2>2. stream.text \in Text
    BY <2>1, CAll
  <2>3. Essence(emitted) = C(emitted) /\ Essence(stream.text) = C(stream.text)
    BY <2>1, <2>2, EssenceIsCoded DEF C
  <2> QED
    BY <2>1, <2>3 DEF CleanCloseIsComplete
<1> QED
  BY <1>1, TextSideAlways, PTL

-----------------------------------------------------------------------------
(***************************************************************************)
(* Where a text shows a blank line; the delimiter is the first one.        *)
(***************************************************************************)
Shows(p, k, b) ==
  k \in Nat /\ b \in BlankLines /\ k + Len(b) <= Len(p) /\ \A j \in 1..Len(b) : p[k+j] = b[j]

FirstShown(p, d) ==
  /\ Shows(p, d.at, d.text)
  /\ \A k, b : Shows(p, k, b) => d.at <= k

LEMMA BlankIsText ==
  \A b \in BlankLines : b \in Text /\ Len(b) \in {2, 4} /\ Len(b) \in Nat /\ b # <<>>
                        /\ (Len(b) = 2 => b[1] = "n" /\ b[2] = "n")
                        /\ (Len(b) = 4 => b[1] = "r" /\ b[2] = "n" /\ b[3] = "r" /\ b[4] = "n")
<1>1. <<"n", "n">> \in Text /\ <<"r", "n", "r", "n">> \in Text
  BY Letters, ShortSeqs DEF Text
<1> QED
  BY <1>1 DEF BlankLines

LEMMA ShownIsPart ==
  ASSUME NEW p \in Text, NEW k \in Nat, NEW b \in BlankLines, k + Len(b) <= Len(p)
  PROVE  SubSeq(p, k + 1, k + Len(b)) = b <=> \A j \in 1..Len(b) : p[k+j] = b[j]
<1> DEFINE m == Len(b)
           v == SubSeq(p, k + 1, k + m)
<1>1. b \in Text /\ m \in Nat
  BY BlankIsText
<1>2. v \in Text /\ Len(v) = m /\ \A j \in 1..m : v[j] = p[k+j]
  BY <1>1 DEF Text
<1> HIDE DEF v
<1>3. v = b <=> \A j \in 1..m : v[j] = b[j]
  <2>1. v \in Seq(Letter) /\ b \in Seq(Letter) /\ Len(v) = Len(b)
    BY <1>1, <1>2 DEF Text
  <2> QED
    BY <1>2, <2>1, SeqEqual
<1> QED
  BY <1>2, <1>3 DEF v

LEMMA DelimiterIsFirst ==
  ASSUME NEW p \in Text
  PROVE  /\ (\A k, b : ~Shows(p, k, b)) => Delimiter(p) = [at |-> 0, text |-> <<>>]
         /\ (\E k, b : Shows(p, k, b)) => FirstShown(p, Delimiter(p))
<1> DEFINE ends  == {e \in (0..Len(p)) \X BlankLines :
                       e[1] + Len(e[2]) <= Len(p) /\ SubSeq(p, e[1] + 1, e[1] + Len(e[2])) = e[2]}
           first == CHOOSE e \in ends : \A f \in ends : e[1] <= f[1]
           at == {e[1] : e \in ends}
<1>1. Delimiter(p) = IF ends = {} THEN [at |-> 0, text |-> <<>>] ELSE [at |-> first[1], text |-> first[2]]
  BY DEF Delimiter, BlankLines
<1>2. Len(p) \in Nat
  BY DEF Text
<1>3. \A k, b : Shows(p, k, b) <=> <<k, b>> \in ends
  <2>1. ASSUME NEW k, NEW b PROVE Shows(p, k, b) <=> <<k, b>> \in ends
    <3>1. ASSUME k \in Nat, b \in BlankLines, k + Len(b) <= Len(p)
          PROVE  k \in 0..Len(p) /\ (SubSeq(p, k + 1, k + Len(b)) = b <=> \A j \in 1..Len(b) : p[k+j] = b[j])
      <4>1. Len(b) \in Nat
        BY <3>1, BlankIsText
      <4>2. k \in 0..Len(p)
        BY <1>2, <3>1, <4>1
      <4> QED
        BY <3>1, <4>2, ShownIsPart
    <3>2. <<k, b>> \in ends <=> k \in 0..Len(p) /\ b \in BlankLines /\ k + Len(b) <= Len(p) /\ SubSeq(p, k + 1, k + Len(b)) = b
      BY Zenon
    <3>3. k \in 0..Len(p) => k \in Nat
      BY <1>2
    <3> HIDE DEF ends
    <3> QED
      BY <3>1, <3>2, <3>3 DEF Shows
  <2> QED
    BY <2>1
<1>4. \A e \in ends : e = <<e[1], e[2]>> /\ e[1] \in Nat
  BY <1>2
<1> HIDE DEF ends
<1>5. (\A k, b : ~Shows(p, k, b)) => Delimiter(p) = [at |-> 0, text |-> <<>>]
  <2>1. SUFFICES ASSUME \A k, b : ~Shows(p, k, b) PROVE ends = {}
    BY <1>1
  <2>2. \A e \in ends : FALSE
    BY <1>3, <1>4, <2>1
  <2> QED
    BY <2>2
<1>6. ASSUME NEW k, NEW b, Shows(p, k, b) PROVE FirstShown(p, Delimiter(p))
  <2>1. <<k, b>> \in ends
    BY <1>3, <1>6
  <2>2. at \subseteq Nat /\ at # {}
    BY <1>4, <2>1
  <2>3. PICK n \in at : \A m \in at : n <= m
    <3> HIDE DEF at
    <3> QED
      BY <2>2, LeastElement
  <2>4. \E e \in ends : \A f \in ends : e[1] <= f[1]
    BY <2>3
  <2>5. first \in ends /\ \A f \in ends : first[1] <= f[1]
    BY <2>4
  <2>6. Delimiter(p) = [at |-> first[1], text |-> first[2]]
    BY <1>1, <2>1
  <2> HIDE DEF first
  <2>7. Shows(p, first[1], first[2])
    BY <1>3, <1>4, <2>5
  <2>8. ASSUME NEW l, NEW c, Shows(p, l, c) PROVE first[1] <= l
    <3> DEFINE f == <<l, c>>
    <3>1. f \in ends /\ f[1] = l
      BY <1>3, <2>8
    <3> HIDE DEF f, ends
    <3> QED
      BY <2>5, <3>1
  <2> QED
    BY <2>6, <2>7, <2>8 DEF FirstShown
<1> QED
  BY <1>5, <1>6

LEMMA OneBlank ==
  ASSUME NEW p, NEW k, NEW b, NEW c, Shows(p, k, b), Shows(p, k, c)
  PROVE  b = c
<1>1. p[k+1] = b[1] /\ p[k+1] = c[1]
  <2>1. 1 \in 1..Len(b) /\ 1 \in 1..Len(c)
    BY BlankIsText DEF Shows
  <2> QED
    BY <2>1 DEF Shows
<1>2. b \in BlankLines /\ c \in BlankLines
  BY DEF Shows
<1>3. <<"n", "n">>[1] = "n" /\ <<"r", "n", "r", "n">>[1] = "r" /\ "n" # "r"
  OBVIOUS
<1>4. b \in {<<"n", "n">>, <<"r", "n", "r", "n">>} /\ c \in {<<"n", "n">>, <<"r", "n", "r", "n">>}
  BY <1>2 DEF BlankLines
<1>5. CASE b = <<"n", "n">>
  <2>1. c # <<"r", "n", "r", "n">>
    BY <1>1, <1>3, <1>5, Zenon
  <2> QED
    BY <1>4, <1>5, <2>1, Zenon
<1>6. CASE b = <<"r", "n", "r", "n">>
  <2>1. c # <<"n", "n">>
    BY <1>1, <1>3, <1>6, Zenon
  <2> QED
    BY <1>4, <1>6, <2>1, Zenon
<1> QED
  BY <1>4, <1>5, <1>6, Zenon

(***************************************************************************)
(* What comes later does not change where the first event ends.            *)
(***************************************************************************)
LEMMA ShownLater ==
  ASSUME NEW p \in Text, NEW q \in Text, NEW k, NEW b
  PROVE  /\ Shows(p, k, b) => Shows(p \o q, k, b)
         /\ (Shows(p \o q, k, b) /\ k + Len(b) <= Len(p)) => Shows(p, k, b)
<1>1. Len(p) \in Nat /\ Len(q) \in Nat /\ Len(p \o q) = Len(p) + Len(q)
  BY DEF Text
<1>2. \A i \in 1..Len(p) : (p \o q)[i] = p[i]
  BY DEF Text
<1>3. ASSUME k \in Nat, b \in BlankLines, k + Len(b) <= Len(p)
      PROVE  k + Len(b) <= Len(p \o q) /\ \A j \in 1..Len(b) : (p \o q)[k+j] = p[k+j]
  <2>1. Len(b) \in Nat
    BY <1>3, BlankIsText
  <2>2. \A j \in 1..Len(b) : k + j \in 1..Len(p)
    BY <1>1, <1>3, <2>1
  <2>3. k + Len(b) <= Len(p \o q)
    BY <1>1, <1>3, <2>1
  <2> QED
    BY <1>2, <2>2, <2>3
<1> QED
  BY <1>3 DEF Shows

LEMMA DelimiterStays ==
  ASSUME NEW p \in Text, NEW q \in Text, Delimiter(p).text # <<>>
  PROVE  Delimiter(p \o q) = Delimiter(p)
<1> DEFINE d == Delimiter(p)
           e == Delimiter(p \o q)
<1>1. FirstShown(p, d)
  <2>1. \E k, b : Shows(p, k, b)
    <3>1. [at |-> 0, text |-> <<>>].text = <<>>
      OBVIOUS
    <3> QED
      BY <3>1, DelimiterIsFirst
  <2> QED
    BY <2>1, DelimiterIsFirst
<1>2. p \o q \in Text
  BY DEF Text
<1>3. Shows(p \o q, d.at, d.text)
  BY <1>1, ShownLater DEF FirstShown
<1>4. FirstShown(p \o q, e)
  BY <1>2, <1>3, DelimiterIsFirst
<1>5. e.at <= d.at
  BY <1>3, <1>4 DEF FirstShown
<1>6. DOMAIN d = {"at", "text"} /\ DOMAIN e = {"at", "text"} /\ d = [at |-> d.at, text |-> d.text] /\ e = [at |-> e.at, text |-> e.text]
  <2>1. \A r \in Text : Delimiter(r) = [at |-> Delimiter(r).at, text |-> Delimiter(r).text]
    BY DEF Delimiter
  <2> QED
    BY <1>2, <2>1
<1> HIDE DEF d, e
<1>7. /\ d.at \in Nat /\ e.at \in Nat /\ d.text \in BlankLines /\ e.text \in BlankLines
      /\ d.at + Len(d.text) <= Len(p) /\ Len(p) \in Nat
      /\ Shows(p, d.at, d.text) /\ Shows(p \o q, e.at, e.text)
  <2>1. Shows(p, d.at, d.text) /\ Shows(p \o q, e.at, e.text)
    BY <1>1, <1>4 DEF FirstShown
  <2>2. Len(p) \in Nat
    BY DEF Text
  <2>3. d.at \in Nat /\ d.text \in BlankLines /\ d.at + Len(d.text) <= Len(p)
    BY <2>1 DEF Shows
  <2>4. e.at \in Nat /\ e.text \in BlankLines
    BY <2>1 DEF Shows
  <2> QED
    BY <2>1, <2>2, <2>3, <2>4
<1>8. CASE e.at + Len(e.text) <= Len(p)
  <2>1. Shows(p, e.at, e.text)
    BY <1>7, <1>8, ShownLater
  <2>2. d.at <= e.at
    BY <1>1, <2>1 DEF FirstShown
  <2>3. d.at = e.at
    BY <1>5, <1>7, <2>2
  <2>4. d.text = e.text
    BY <1>7, <2>1, <2>3, OneBlank
  <2>5. [at |-> d.at, text |-> d.text] = [at |-> e.at, text |-> e.text]
    BY <2>3, <2>4
  <2>6. d = e
    BY <1>6, <2>5, Zenon
  <2> QED
    BY <2>6 DEF d, e
<1>9. CASE ~(e.at + Len(e.text) <= Len(p))
  <2>1. Len(d.text) \in {2, 4} /\ Len(e.text) \in {2, 4}
    BY <1>7, BlankIsText
  <2>2. Len(d.text) = 2 /\ Len(e.text) = 4 /\ (d.at = e.at \/ d.at = e.at + 1)
    <3> DEFINE x == d.at
               y == e.at
               m == Len(d.text)
               n == Len(e.text)
               l == Len(p)
    <3>1. /\ x \in Nat /\ y \in Nat /\ l \in Nat /\ m \in {2, 4} /\ n \in {2, 4}
          /\ y <= x /\ x + m <= l /\ ~(y + n <= l)
      BY <1>5, <1>7, <1>9, <2>1
    <3> HIDE DEF x, y, m, n, l
    <3>2. m = 2 /\ n = 4 /\ (x = y \/ x = y + 1)
      BY <3>1
    <3> QED
      BY <3>2 DEF x, y, m, n
  <2>3. CASE d.at = e.at
    <3>1. d.text = e.text
      BY <1>3, <1>7, <2>3, OneBlank
    <3>2. Len(d.text) = 2 /\ Len(d.text) = 4
      BY <2>2, <3>1
    <3>3. 2 # 4
      OBVIOUS
    <3> DEFINE m == Len(d.text)
    <3>4. m = 2 /\ m = 4
      BY <3>2
    <3> HIDE DEF m
    <3>5. FALSE
      BY <3>4
    <3> QED
      BY <3>5
  <2>4. CASE d.at = e.at + 1
    <3>1. (p \o q)[d.at + 2] = d.text[2] /\ (p \o q)[e.at + 3] = e.text[3]
      <4>1. 2 \in 1..Len(d.text) /\ 3 \in 1..Len(e.text)
        BY <2>2
      <4>2. (\A j \in 1..Len(d.text) : (p \o q)[d.at + j] = d.text[j]) /\ (\A j \in 1..Len(e.text) : (p \o q)[e.at + j] = e.text[j])
        BY <1>3, <1>7 DEF Shows
      <4> QED
        BY <4>1, <4>2
    <3>2. d.at + 2 = e.at + 3
      BY <1>7, <2>4
    <3>3. d.text[2] = "n" /\ e.text[3] = "r"
      BY <1>7, <2>2, BlankIsText
    <3> QED
      BY <3>1, <3>2, <3>3
  <2> QED
    BY <2>2, <2>3, <2>4
<1> QED
  BY <1>8, <1>9 DEF d, e


-----------------------------------------------------------------------------
(***************************************************************************)
(* The events of a text that comes in two parts: those of the first part,  *)
(* then those of what it left in the buffer with the second.               *)
(***************************************************************************)
Out(p)  == FlattenSeq(Take[p].out)
Rest(p) == Take[p].buf

LEMMA SomeBlind == \E h : Blind(h, TRUE)
<1>1. Blind(Kept(TRUE), TRUE)
  BY KeptIsBlind
<1> QED
  BY <1>1

LEMMA TakeParts ==
  ASSUME NEW p \in Text
  PROVE  /\ Take[p] \in Taken /\ Rest(p) \in Text /\ Out(p) \in Text
         /\ Delimiter(p).text = <<>> => Rest(p) = p /\ Out(p) = <<>> /\ Take[p].out = <<>>
         /\ Delimiter(p).text # <<>> => /\ Left(p) \in Text /\ Piece(p) \in Text /\ Len(Left(p)) < Len(p)
                                        /\ Rest(p) = Rest(Left(p)) /\ Out(p) = Piece(p) \o Out(Left(p))
<1>1. PICK h : Blind(h, TRUE)
  BY SomeBlind
<1>2. \A r \in Text : Take[r] \in Taken
  BY <1>1, TakeKept
<1>3. \A r \in Text : Take[r].buf \in Text /\ Take[r].out \in Seq(Text)
  BY <1>2 DEF Taken
<1>4. Take[p] = IF Delimiter(p).text = <<>> THEN [buf |-> p, out |-> <<>>]
                ELSE [Take[Left(p)] EXCEPT !.out = <<Piece(p)>> \o Take[Left(p)].out]
  BY <1>1, TakeRuns
<1>5. Out(p) \in Text /\ Rest(p) \in Text
  BY <1>3, Pieces DEF Out, Rest
<1>6. CASE Delimiter(p).text = <<>>
  <2>1. Take[p] = [buf |-> p, out |-> <<>>]
    BY <1>4, <1>6
  <2>2. Rest(p) = p /\ Take[p].out = <<>>
    BY <2>1 DEF Rest
  <2> QED
    BY <1>2, <1>5, <1>6, <2>2, FlattenEmpty DEF Out
<1>7. CASE Delimiter(p).text # <<>>
  <2>1. Piece(p) \in Text /\ Left(p) \in Text /\ Len(Left(p)) < Len(p)
    BY <1>1, <1>7, PieceKept
  <2> DEFINE t == Take[Left(p)]
  <2>2. t \in Taken /\ t.out \in Seq(Text)
    BY <1>2, <1>3, <2>1
  <2>3. Take[p] = [t EXCEPT !.out = <<Piece(p)>> \o t.out]
    BY <1>4, <1>7
  <2> HIDE DEF t
  <2>4. Take[p].buf = t.buf /\ Take[p].out = <<Piece(p)>> \o t.out
    BY <2>2, <2>3 DEF Taken
  <2>5. FlattenSeq(<<Piece(p)>> \o t.out) = Piece(p) \o FlattenSeq(t.out)
    BY <2>1, <2>2, Pieces
  <2> QED
    BY <1>2, <1>5, <1>7, <2>1, <2>4, <2>5 DEF Out, Rest, t
<1> QED
  BY <1>6, <1>7

LEMMA LeftLater ==
  ASSUME NEW p \in Text, NEW q \in Text, Delimiter(p).text # <<>>
  PROVE  Piece(p \o q) = Piece(p) /\ Left(p \o q) = Left(p) \o q
<1> DEFINE d == Delimiter(p)
           a == d.at
           n == d.at + Len(d.text)
<1>1. Delimiter(p \o q) = d
  BY DelimiterStays
<1>2. a \in Nat /\ n \in Nat /\ a <= n /\ n <= Len(p)
  BY Delimited
<1>3. Len(p) \in Nat /\ Len(q) \in Nat /\ p \o q \in Text /\ Len(p \o q) = Len(p) + Len(q)
  BY DEF Text
<1> HIDE DEF a, n
<1>4. SubSeq(p \o q, 1, a) = SubSeq(p, 1, a)
  BY <1>2, <1>3 DEF Text
<1>5. SubSeq(p \o q, n + 1, Len(p) + Len(q)) = SubSeq(p, n + 1, Len(p)) \o q
  <2> DEFINE u == SubSeq(p \o q, n + 1, Len(p) + Len(q))
             v == SubSeq(p, n + 1, Len(p))
  <2>1. u \in Text /\ Len(u) = Len(p) + Len(q) - n /\ \A i \in 1..Len(u) : u[i] = (p \o q)[n + i]
    BY <1>2, <1>3 DEF Text
  <2>2. v \in Text /\ Len(v) = Len(p) - n /\ \A i \in 1..Len(v) : v[i] = p[n + i]
    BY <1>2, <1>3 DEF Text
  <2> HIDE DEF u, v
  <2>3. v \o q \in Text /\ Len(v \o q) = Len(v) + Len(q)
    BY <2>2 DEF Text
  <2>4. (\A i \in 1..Len(v) : (v \o q)[i] = v[i]) /\ (\A i \in 1..Len(q) : (v \o q)[Len(v) + i] = q[i])
    BY <2>2 DEF Text
  <2>5. (\A i \in 1..Len(p) : (p \o q)[i] = p[i]) /\ (\A i \in 1..Len(q) : (p \o q)[Len(p) + i] = q[i])
    BY DEF Text
  <2>6. Len(u) = Len(v \o q) /\ Len(u) \in Nat
    BY <1>2, <1>3, <2>1, <2>2, <2>3
  <2>7. ASSUME NEW i \in 1..Len(u) PROVE u[i] = (v \o q)[i]
    <3>1. CASE i <= Len(v)
      <4>1. i \in 1..Len(v) /\ n + i \in 1..Len(p)
        BY <1>2, <1>3, <2>2, <2>6, <3>1
      <4> QED
        BY <2>1, <2>2, <2>4, <2>5, <4>1
    <3>2. CASE ~(i <= Len(v))
      <4> DEFINE j == i - Len(v)
      <4>1. j \in 1..Len(q) /\ i = Len(v) + j /\ n + i = Len(p) + j
        BY <1>2, <1>3, <2>1, <2>2, <2>6, <3>2
      <4> HIDE DEF j
      <4>2. (p \o q)[n + i] = q[j] /\ (v \o q)[i] = q[j]
        BY <2>4, <2>5, <4>1
      <4> QED
        BY <2>1, <4>2
    <3> QED
      BY <3>1, <3>2
  <2>8. u = v \o q
    BY <2>1, <2>3, <2>6, <2>7, SeqEqual DEF Text
  <2> QED
    BY <2>8 DEF u, v
<1> QED
  BY <1>1, <1>3, <1>4, <1>5 DEF Piece, Left, a, n

Joins(p, q) ==
  Rest(p \o q) = Rest(Rest(p) \o q) /\ Out(p \o q) = Out(p) \o Out(Rest(p) \o q)

LEMMA TakeJoins ==
  ASSUME NEW p \in Text, NEW q \in Text
  PROVE  Joins(p, q)
<1> DEFINE S == {n \in Nat : \A r \in Text : Len(r) = n => Joins(r, q)}
<1>1. ASSUME NEW n \in Nat, \A m \in 0..n-1 : m \in S PROVE n \in S
  <2>1. SUFFICES ASSUME NEW r \in Text, Len(r) = n PROVE Joins(r, q)
    OBVIOUS
  <2>2. r \o q \in Text
    BY DEF Text
  <2>3. CASE Delimiter(r).text = <<>>
    <3>1. Rest(r) = r /\ Out(r) = <<>>
      BY <2>3, TakeParts
    <3>2. Out(r \o q) \in Text
      BY <2>2, TakeParts
    <3>3. <<>> \o Out(r \o q) = Out(r \o q)
      BY <3>2 DEF Text
    <3> QED
      BY <3>1, <3>3 DEF Joins
  <2>4. CASE Delimiter(r).text # <<>>
    <3>1. /\ Left(r) \in Text /\ Piece(r) \in Text /\ Len(Left(r)) < Len(r)
          /\ Rest(r) = Rest(Left(r)) /\ Out(r) = Piece(r) \o Out(Left(r))
      BY <2>4, TakeParts
    <3>2. Delimiter(r \o q).text # <<>> /\ Piece(r \o q) = Piece(r) /\ Left(r \o q) = Left(r) \o q
      BY <2>4, DelimiterStays, LeftLater
    <3>3. Rest(r \o q) = Rest(Left(r) \o q) /\ Out(r \o q) = Piece(r) \o Out(Left(r) \o q)
      BY <2>2, <3>2, TakeParts
    <3>4. Joins(Left(r), q)
      <4>1. Len(Left(r)) \in 0..n-1
        BY <2>1, <3>1 DEF Text
      <4> QED
        BY <1>1, <3>1, <4>1
    <3>5. Rest(r) \in Text /\ Out(Left(r)) \in Text /\ Rest(r) \o q \in Text
      BY <3>1, TakeParts DEF Text
    <3>6. Out(Rest(r) \o q) \in Text
      BY <3>5, TakeParts
    <3>7. Piece(r) \o (Out(Left(r)) \o Out(Rest(r) \o q)) = (Piece(r) \o Out(Left(r))) \o Out(Rest(r) \o q)
      <4> DEFINE a == Piece(r)
                 b == Out(Left(r))
                 c == Out(Rest(r) \o q)
      <4>1. a \in Seq(Letter) /\ b \in Seq(Letter) /\ c \in Seq(Letter)
        BY <3>1, <3>5, <3>6 DEF Text
      <4> HIDE DEF a, b, c
      <4>2. (a \o b) \o c = a \o (b \o c)
        BY <4>1, ConcatAssociative
      <4> QED
        BY <4>2 DEF a, b, c
    <3> QED
      BY <3>1, <3>3, <3>4, <3>7 DEF Joins
  <2> QED
    BY <2>3, <2>4
<1>2. Nat \subseteq S
  <2> HIDE DEF S
  <2> QED
    BY <1>1, StrongInduction
<1>3. Len(p) \in S
  BY <1>2 DEF Text
<1> QED
  BY <1>3


(***************************************************************************)
(* What stays in the buffer ends like the text.                            *)
(***************************************************************************)
EndsAlike(p) == Rest(p) # <<>> => p # <<>> /\ Last(Rest(p)) = Last(p)

LEMMA LeftIsLast ==
  ASSUME NEW p \in Text, Delimiter(p).text # <<>>, Left(p) # <<>>
  PROVE  p # <<>> /\ Last(Left(p)) = Last(p)
<1> DEFINE k == Delimiter(p).at + Len(Delimiter(p).text)
<1>1. k \in Nat /\ k <= Len(p)
  BY Delimited
<1>2. Left(p) = SubSeq(p, k + 1, Len(p))
  BY DEF Left
<1> HIDE DEF k
<1>3. p \in Seq(Letter) /\ Len(p) \in Nat
  BY DEF Text
<1>4. Left(p) \in Seq(Letter) /\ Len(Left(p)) = Len(p) - k /\ \A i \in 1..Len(p) - k : Left(p)[i] = p[k + i]
  BY <1>1, <1>2, <1>3
<1>5. Len(Left(p)) # 0 /\ Len(p) - k \in 1..Len(p) - k /\ k + (Len(p) - k) = Len(p) /\ p # <<>>
  BY <1>1, <1>3, <1>4
<1>6. Left(p)[Len(p) - k] = p[Len(p)]
  BY <1>4, <1>5
<1> QED
  BY <1>4, <1>5, <1>6 DEF Last

LEMMA RestEndsAlike ==
  ASSUME NEW p \in Text
  PROVE  EndsAlike(p)
<1> DEFINE S == {n \in Nat : \A r \in Text : Len(r) = n => EndsAlike(r)}
<1>1. ASSUME NEW n \in Nat, \A m \in 0..n-1 : m \in S PROVE n \in S
  <2>1. SUFFICES ASSUME NEW r \in Text, Len(r) = n PROVE EndsAlike(r)
    OBVIOUS
  <2>2. CASE Delimiter(r).text = <<>>
    BY <2>2, TakeParts DEF EndsAlike
  <2>3. CASE Delimiter(r).text # <<>>
    <3>1. Left(r) \in Text /\ Len(Left(r)) < Len(r) /\ Rest(r) = Rest(Left(r))
      BY <2>3, TakeParts
    <3>2. Len(Left(r)) \in 0..n-1
      BY <2>1, <3>1 DEF Text
    <3>3. EndsAlike(Left(r))
      BY <1>1, <3>1, <3>2
    <3> QED
      BY <2>3, <3>1, <3>3, LeftIsLast DEF EndsAlike
  <2> QED
    BY <2>2, <2>3
<1>2. Nat \subseteq S
  <2> HIDE DEF S
  <2> QED
    BY <1>1, StrongInduction
<1>3. Len(p) \in S
  BY <1>2 DEF Text
<1> QED
  BY <1>3

(***************************************************************************)
(* The parts of a text that begins with a field: empty, half a field name, *)
(* or an event stream of their own (isSSEChunk, isIncompleteSSEPrefix).    *)
(***************************************************************************)
Fields == {DataField, EventField, Comment}
Half   == {<<"da">>, <<"ev">>}

LEMMA NoBlankBefore ==
  ASSUME NEW p \in Text, p # <<>>, p[1] \notin White
  PROVE  TrimLeft(p, White) = p
<1> DEFINE solid == {i \in DOMAIN p : p[i] \notin White}
           first == CHOOSE i \in solid : \A j \in solid : i <= j
<1>1. p \in Seq(Letter) /\ Len(p) \in Nat \ {0} /\ DOMAIN p = 1..Len(p)
  BY DEF Text
<1>2. 1 \in solid /\ solid \subseteq 1..Len(p)
  BY <1>1
<1>3. TrimLeft(p, White) = IF solid = {} THEN <<>> ELSE SubSeq(p, first, Len(p))
  BY DEF TrimLeft
<1> HIDE DEF solid
<1>4. \A j \in solid : 1 <= j
  BY <1>1, <1>2
<1>5. first \in solid /\ first <= 1
  BY <1>2, <1>4
<1>6. first = 1
  <2> HIDE DEF first
  <2> QED
    BY <1>1, <1>2, <1>5
<1>7. SubSeq(p, 1, Len(p)) = p
  BY <1>1, SubSeqFull
<1> QED
  BY <1>2, <1>3, <1>6, <1>7

LEMMA PrefixOf ==
  ASSUME NEW f \in Text, NEW p \in Text
  PROVE  IsPrefix(f, p) <=> Len(f) <= Len(p) /\ \A i \in 1..Len(f) : f[i] = p[i]
<1>1. f \in Seq(Letter) /\ p \in Seq(Letter) /\ Len(f) \in Nat /\ Len(p) \in Nat
  BY DEF Text
<1> DEFINE v == SubSeq(p, 1, Len(f))
<1>2. ASSUME Len(f) <= Len(p)
      PROVE  v \in Seq(Letter) /\ Len(v) = Len(f) /\ \A i \in 1..Len(f) : v[i] = p[i]
  BY <1>1, <1>2
<1>3. SubSeq(f, 1, Len(f)) = f
  BY <1>1, SubSeqFull
<1>4. IsPrefix(f, p) <=> Len(f) <= Len(p) /\ SubSeq(f, 1, Len(f)) = v
  BY DEF IsPrefix
<1> HIDE DEF v
<1>5. Len(f) <= Len(p) => (f = v <=> \A i \in 1..Len(f) : f[i] = v[i])
  BY <1>1, <1>2, SeqEqual
<1> QED
  BY <1>2, <1>3, <1>4, <1>5

LEMMA FieldFacts ==
  /\ DataField \in Text /\ EventField \in Text /\ Comment \in Text
  /\ Len(DataField) = 2 /\ Len(EventField) = 2 /\ Len(Comment) = 1
  /\ DataField[1] = "da" /\ EventField[1] = "ev" /\ Comment[1] = ":"
  /\ Fields = {DataField, EventField, Comment}
<1>1. "da" \in Letter /\ "ta:" \in Letter /\ "ev" \in Letter /\ "ent:" \in Letter /\ ":" \in Letter
  BY DEF Letter
<1> QED
  BY <1>1 DEF DataField, EventField, Comment, Fields, Text

LEMMA FieldParts ==
  ASSUME NEW t \in Text, Begins(t, Fields), NEW n \in 1..Len(t)
  PROVE  LET p == SubSeq(t, 1, n)
         IN  (n = 1 /\ ~IsSSEChunk(p) /\ IsIncompletePrefix(p)) \/ IsSSEChunk(p)
<1> DEFINE p == SubSeq(t, 1, n)
<1>1. p \in Text /\ Len(p) = n /\ (\A i \in 1..n : p[i] = t[i]) /\ n \in Nat \ {0} /\ n <= Len(t) /\ p # <<>>
  BY DEF Text
<1>2. PICK f \in Fields : IsPrefix(f, t)
  BY DEF Begins
<1>3. f \in Text /\ Len(f) \in 1..2 /\ f[1] \in {"da", "ev", ":"} /\ (Len(f) = 2 => f \in {DataField, EventField} /\ f[1] # ":")
  BY FieldFacts
<1>4. Len(f) <= Len(t) /\ \A i \in 1..Len(f) : f[i] = t[i]
  BY <1>2, <1>3, PrefixOf
<1>5. p[1] = f[1]
  BY <1>1, <1>3, <1>4
<1> HIDE DEF p
<1>6. TrimLeft(p, White) = p
  BY <1>1, <1>3, <1>5, NoBlankBefore DEF White
<1>7. CASE Len(f) <= n
  <2>1. IsPrefix(f, p)
    BY <1>1, <1>3, <1>4, <1>7, PrefixOf
  <2>2. IsSSEChunk(p)
    BY <1>6, <2>1 DEF IsSSEChunk, Begins, Fields
  <2> QED
    BY <2>2 DEF p
<1>8. CASE ~(Len(f) <= n)
  <2>1. n = 1 /\ Len(f) = 2
    <3> DEFINE l == Len(f)
    <3>1. l \in 1..2 /\ n \in Nat \ {0} /\ ~(l <= n)
      BY <1>1, <1>3, <1>8
    <3> HIDE DEF l
    <3>2. n = 1 /\ l = 2
      BY <3>1
    <3> QED
      BY <3>2 DEF l
  <2>1a. f \in {DataField, EventField} /\ p[1] \in {"da", "ev"}
    BY <1>3, <1>5, <2>1
  <2>2. IsPrefix(p, f) /\ p # f
    <3>1. p # f /\ Len(p) <= Len(f)
      <4>1. Len(p) = 1 /\ Len(f) = 2
        BY <1>1, <2>1
      <4> QED
        BY <4>1
    <3>2. \A i \in 1..Len(p) : p[i] = f[i]
      BY <1>1, <1>5, <2>1
    <3> QED
      BY <1>1, <1>3, <3>1, <3>2, PrefixOf
  <2>3. IsIncompletePrefix(p)
    BY <1>1, <1>6, <2>1a, <2>2 DEF IsIncompletePrefix, IsStrictPrefix
  <2>4. ASSUME NEW g \in Fields PROVE ~IsPrefix(g, p)
    <3>1. g \in Text /\ Len(g) \in 1..2 /\ (Len(g) = 1 => g[1] = ":")
      BY FieldFacts
    <3>2. 1 \in 1..Len(g) /\ p[1] # ":"
      BY <2>1a, <3>1
    <3> QED
      BY <1>1, <2>1, <3>1, <3>2, PrefixOf
  <2>5. ~Begins(TrimLeft(p, White), {DataField, EventField, Comment})
    BY <1>6, <2>4 DEF Begins, Fields
  <2>6. ~IsSSEChunk(p)
    <3>1. ASSUME NEW d \in {<<"n", "n">>, <<"r", "n", "r", "n">>} PROVE 0..Len(p)-Len(d) = {}
      <4>1. Len(d) \in {2, 4} /\ Len(p) = 1
        BY <1>1, <2>1, BlankIsText DEF BlankLines
      <4> DEFINE m == Len(p) - Len(d)
      <4>2. m \in {-1, -3}
        BY <4>1
      <4> HIDE DEF m
      <4>3. 0..m = {}
        BY <4>2
      <4> QED
        BY <4>3 DEF m
    <3> QED
      BY <2>5, <3>1 DEF IsSSEChunk
  <2> QED
    BY <2>1, <2>3, <2>6 DEF p
<1> QED
  BY <1>7, <1>8

LEMMA NothingToWrite ==
  ASSUME NEW v
  PROVE  ~IsSSEChunk(<<>>) /\ ~IsIncompletePrefix(<<>>) /\ RawChunks(v, <<>>) = <<>>
<1>1. TrimLeft(<<>>, White) = <<>>
  BY DEF TrimLeft
<1>2. <<>> \in Text /\ Len(<<>>) = 0
  BY DEF Text
<1>3. ASSUME NEW g \in Fields PROVE ~IsPrefix(g, <<>>)
  <2>1. g \in Text /\ Len(g) \in {1, 2}
    BY FieldFacts
  <2>2. ~(Len(g) <= Len(<<>>))
    BY <1>2, <2>1
  <2> QED
    BY <1>2, <2>1, <2>2, PrefixOf
<1>4. ~IsSSEChunk(<<>>)
  <2>1. \A d \in {<<"n", "n">>, <<"r", "n", "r", "n">>} : 0..Len(<<>>)-Len(d) = {}
    OBVIOUS
  <2> QED
    BY <1>1, <1>3, <2>1 DEF IsSSEChunk, Begins, Fields
<1>5. Solid(<<>>) = <<>>
  <2>1. [i \in DOMAIN <<>> |-> IF <<>>[i] \in White THEN <<>> ELSE <<(<<>>[i])>>] = <<>>
    OBVIOUS
  <2> QED
    BY <2>1, FlattenEmpty DEF Solid
<1>6. RawChunks(v, <<>>) = <<>>
  <2> DEFINE solid == Solid(<<>>)
             n == Len(solid) \div 4
             value(k) == SubSeq(solid, 4 * k - 3, 4 * k)
             framed(q) == IF v.frame THEN DataField \o <<"s">> \o q \o <<"n", "n">> ELSE q
             parts == [k \in 1..n |-> framed(Doc("O"))]
             values == Len(solid) = 4 * n /\ \A k \in 1..n : IsDoc(value(k))
  <2>1. RawChunks(v, <<>>) = IF values THEN parts ELSE <<<<>>>>
    BY DEF RawChunks
  <2>2. n = 0 /\ Len(solid) = 4 * n
    BY <1>5
  <2> HIDE DEF n, value, framed
  <2>3. 1..n = {}
    BY <2>2
  <2>4. values
    BY <2>2, <2>3
  <2>5. parts = <<>>
    BY <2>3
  <2> QED
    BY <2>1, <2>4, <2>5
<1> QED
  BY <1>1, <1>4, <1>6 DEF IsIncompletePrefix

(***************************************************************************)
(* What sseRewriter.Write does with a chunk that begins no line.           *)
(***************************************************************************)
LEMMA SSEWriteParts ==
  ASSUME NEW v \in Rewriters, NEW p \in Text
  PROVE  /\ v.over => SSEWrite(v, p).w = v
         /\ (~v.over /\ ~NeedsLineBreak(v.buf, p)) =>
              IF Len(Rest(v.buf \o p)) > MaxBuffer THEN SSEWrite(v, p).w.over
              ELSE SSEWrite(v, p) = [w |-> [v EXCEPT !.buf = Rest(v.buf \o p)], out |-> Take[v.buf \o p].out]
<1> DEFINE broken == IF NeedsLineBreak(v.buf, p) THEN Append(v.buf, "n") ELSE v.buf
           held == broken \o p
           t == Take[held]
           r == SSEWrite(v, p)
<1>1. r = CASE v.over -> [w |-> v, out |-> <<p>>]
            [] ~v.over /\ Len(t.buf) > MaxBuffer -> [w |-> [v EXCEPT !.buf = <<>>, !.over = TRUE], out |-> Append(t.out, t.buf)]
            [] OTHER -> [w |-> [v EXCEPT !.buf = t.buf], out |-> t.out]
  BY DEF SSEWrite, Take, Takes
<1>2. ~NeedsLineBreak(v.buf, p) => t = Take[v.buf \o p] /\ t.buf = Rest(v.buf \o p)
  BY DEF Rest
<1> HIDE DEF t, r
<1>3. v.over => r.w = v
  BY <1>1
<1>4. (~v.over /\ Len(t.buf) > MaxBuffer) => r.w = [v EXCEPT !.buf = <<>>, !.over = TRUE]
  BY <1>1
<1>5. [v EXCEPT !.buf = <<>>, !.over = TRUE].over
  BY DEF Rewriters
<1>6. (~v.over /\ ~(Len(t.buf) > MaxBuffer)) => r = [w |-> [v EXCEPT !.buf = t.buf], out |-> t.out]
  BY <1>1
<1> QED
  BY <1>2, <1>3, <1>4, <1>5, <1>6 DEF r

(***************************************************************************)
(* The records of a rewriter, and the three ways of streamChunkRewriter.   *)
(***************************************************************************)
Rewriter(buf, over, pending, sse, frame) ==
  [buf |-> buf, over |-> over, pending |-> pending, sse |-> sse, frame |-> frame]

LEMMA RewriterType ==
  ASSUME NEW b \in Text, NEW o \in BOOLEAN, NEW p \in Text, NEW s \in BOOLEAN, NEW f \in BOOLEAN
  PROVE  Rewriter(b, o, p, s, f) \in Rewriters
BY DEF Rewriter, Rewriters

IsStream(v, p) == v.sse \/ v.buf # <<>> \/ IsSSEChunk(p)

WritesAs(v, p, u, r) ==
  /\ IsStream(v, p) => r = SSEWrite([u EXCEPT !.sse = TRUE], p)
  /\ (~IsStream(v, p) /\ IsIncompletePrefix(p)) => r = [w |-> [u EXCEPT !.pending = p], out |-> <<>>]
  /\ (~IsStream(v, p) /\ ~IsIncompletePrefix(p)) => r = [w |-> u, out |-> RawChunks(u, p)]

LEMMA Writes ==
  ASSUME NEW v, NEW chunk
  PROVE  WritesAs(v, v.pending \o chunk, [v EXCEPT !.pending = <<>>], Write(v, chunk))
<1> DEFINE p == v.pending \o chunk
           u == [v EXCEPT !.pending = <<>>]
           flows == IsStream(v, p)
<1>1. Write(v, chunk) = CASE flows -> SSEWrite([u EXCEPT !.sse = TRUE], p)
                          [] ~flows /\ IsIncompletePrefix(p) -> [w |-> [u EXCEPT !.pending = p], out |-> <<>>]
                          [] OTHER -> [w |-> u, out |-> RawChunks(u, p)]
  BY DEF Write, IsStream
<1> HIDE DEF flows, u, p
<1>2. flows => Write(v, chunk) = SSEWrite([u EXCEPT !.sse = TRUE], p)
  BY <1>1
<1>3. (~flows /\ IsIncompletePrefix(p)) => Write(v, chunk) = [w |-> [u EXCEPT !.pending = p], out |-> <<>>]
  BY <1>1
<1>4. (~flows /\ ~IsIncompletePrefix(p)) => Write(v, chunk) = [w |-> u, out |-> RawChunks(u, p)]
  BY <1>1
<1>5. WritesAs(v, p, u, Write(v, chunk))
  BY <1>2, <1>3, <1>4 DEF WritesAs, flows
<1> QED
  BY <1>5 DEF p, u

(***************************************************************************)
(* A rewriter that has overflowed stays so.                                *)
(***************************************************************************)
LEMMA OverStays ==
  ASSUME NEW v, Sound(v), NEW chunk \in Text, v.over
  PROVE  Write(v, chunk).w.over /\ Flush(v).w.over
<1> DEFINE p == v.pending \o chunk
           u == [v EXCEPT !.pending = <<>>]
<1>1. v \in Rewriters /\ v.pending \in Text /\ v.buf \in Text /\ <<>> \in Text /\ p \in Text
  <2>1. \A a, b \in Text : a \o b \in Text
    BY DEF Text
  <2>2. <<>> \in Text
    BY DEF Text
  <2> QED
    BY <2>1, <2>2 DEF Sound, Rewriters
<1>2. u \in Rewriters /\ u.over /\ [u EXCEPT !.sse = TRUE] \in Rewriters /\ [u EXCEPT !.sse = TRUE].over
      /\ [u EXCEPT !.pending = p].over
  BY <1>1 DEF Rewriters
<1>3. \A a \in Rewriters, b \in Text : a.over => SSEWrite(a, b).w.over
  BY SSEWriteParts
<1> DEFINE r == Write(v, chunk)
<1>3a. WritesAs(v, p, u, r)
  BY Writes
<1> HIDE DEF p, u, r
<1>4. r.w.over
  <2>1. CASE IsStream(v, p)
    <3>1. r = SSEWrite([u EXCEPT !.sse = TRUE], p)
      BY <1>3a, <2>1 DEF WritesAs
    <3> QED
      BY <1>1, <1>2, <1>3, <3>1
  <2>2. CASE ~IsStream(v, p)
    <3>1. r.w = [u EXCEPT !.pending = p] \/ r.w = u
      BY <1>3a, <2>2 DEF WritesAs
    <3> QED
      BY <1>2, <3>1
  <2> QED
    BY <2>1, <2>2
<1>5. \A a : a \in Rewriters /\ a.over => SSEFlush(a).w.over
  <2>1. ASSUME NEW a \in Rewriters, a.over PROVE SSEFlush(a).w.over
    <3>1. SSEFlush(a).w = [a EXCEPT !.buf = <<>>]
      BY DEF SSEFlush
    <3> QED
      BY <2>1, <3>1 DEF Rewriters
  <2> QED
    BY <2>1
<1>6. Flush(v).w.over
  <2>1. CASE v.pending = <<>>
    BY <1>1, <1>5, <2>1 DEF Flush
  <2>2. CASE v.pending # <<>>
    <3> DEFINE first == SSEWrite(u, v.pending)
    <3>1. first.w = u
      BY <1>1, <1>2, SSEWriteParts
    <3>2. Flush(v).w = SSEFlush(first.w).w
      BY <2>2 DEF Flush, u
    <3> QED
      BY <1>2, <1>5, <3>1, <3>2
  <2> QED
    BY <2>1, <2>2
<1> QED
  BY <1>4, <1>6 DEF r

(***************************************************************************)
(* A text in one chunk: nothing yet, half a field name that waits, or an   *)
(* event stream.                                                           *)
(***************************************************************************)
All(frame, p) == Write(NewRewriter(frame), p)

Waiting(frame, p) == Rewriter(<<>>, FALSE, p, FALSE, frame)
Flowing(frame, p) == Rewriter(Rest(p), FALSE, <<>>, TRUE, frame)

WaitingWritesAs(frame, q, r) ==
  /\ IsSSEChunk(q) => r = SSEWrite(Rewriter(<<>>, FALSE, <<>>, TRUE, frame), q)
  /\ (~IsSSEChunk(q) /\ IsIncompletePrefix(q)) => r = [w |-> Waiting(frame, q), out |-> <<>>]
  /\ (~IsSSEChunk(q) /\ ~IsIncompletePrefix(q)) =>
       r = [w |-> Waiting(frame, <<>>), out |-> RawChunks(Waiting(frame, <<>>), q)]

LEMMA WaitingWrites ==
  ASSUME NEW frame, NEW p, NEW chunk
  PROVE  WaitingWritesAs(frame, p \o chunk, Write(Waiting(frame, p), chunk))
<1> DEFINE v == Waiting(frame, p)
           u == Waiting(frame, <<>>)
           q == p \o chunk
<1>1. v.pending = p /\ v.buf = <<>> /\ v.sse = FALSE
  BY DEF Waiting, Rewriter
<1> DEFINE no == FALSE
           yes == TRUE
<1>0. \A x : Waiting(frame, x) = Rewriter(<<>>, no, x, no, frame)
  BY DEF Waiting
<1> HIDE DEF no, yes, q
<1>2. u = [v EXCEPT !.pending = <<>>]
  BY <1>0 DEF Rewriter
<1>3. [u EXCEPT !.pending = q] = Waiting(frame, q)
  BY <1>0 DEF Rewriter
<1>4. [u EXCEPT !.sse = TRUE] = Rewriter(<<>>, FALSE, <<>>, TRUE, frame)
  <2>1. [u EXCEPT !.sse = yes] = Rewriter(<<>>, no, <<>>, yes, frame)
    BY <1>0 DEF Rewriter
  <2> QED
    BY <2>1 DEF no, yes
<1> HIDE DEF u, v
<1>5. WritesAs(v, q, u, Write(v, chunk))
  <2>1. WritesAs(v, v.pending \o chunk, [v EXCEPT !.pending = <<>>], Write(v, chunk))
    BY Writes
  <2> QED
    BY <1>1, <1>2, <2>1, Zenon DEF q
<1>6. IsStream(v, q) <=> IsSSEChunk(q)
  BY <1>1 DEF IsStream
<1>7. WaitingWritesAs(frame, q, Write(v, chunk))
  BY <1>3, <1>4, <1>5, <1>6, Zenon DEF WritesAs, WaitingWritesAs, u
<1> QED
  BY <1>7 DEF q, v

LEMMA NewWaits == ASSUME NEW frame PROVE NewRewriter(frame) = Waiting(frame, <<>>)
BY DEF NewRewriter, Waiting, Rewriter

LEMMA AllWrites ==
  ASSUME NEW frame, NEW p \in Text
  PROVE  WaitingWritesAs(frame, p, All(frame, p))
<1>1. <<>> \o p = p
  BY DEF Text
<1>2. WaitingWritesAs(frame, <<>> \o p, Write(Waiting(frame, <<>>), p))
  BY WaitingWrites
<1> QED
  BY <1>1, <1>2, NewWaits, Zenon DEF All

LEMMA WaitingFor ==
  ASSUME NEW frame \in BOOLEAN, NEW p \in Text, NEW chunk \in Text
  PROVE  Write(Waiting(frame, p), chunk) = All(frame, p \o chunk)
<1> DEFINE q == p \o chunk
           x == Write(Waiting(frame, p), chunk)
           y == All(frame, q)
<1>1. q \in Text
  BY DEF Text
<1>2. WaitingWritesAs(frame, q, x)
  BY WaitingWrites
<1> HIDE DEF q
<1>3. WaitingWritesAs(frame, q, y)
  BY <1>1, AllWrites
<1> HIDE DEF x, y
<1>4. x = y
  BY <1>2, <1>3, Zenon DEF WaitingWritesAs
<1> QED
  BY <1>4 DEF x, y, q

LEMMA AllOfNothing ==
  ASSUME NEW frame \in BOOLEAN
  PROVE  All(frame, <<>>) = [w |-> Waiting(frame, <<>>), out |-> <<>>]
<1>1. <<>> \in Text
  BY DEF Text
<1>2. ~IsSSEChunk(<<>>) /\ ~IsIncompletePrefix(<<>>) /\ RawChunks(Waiting(frame, <<>>), <<>>) = <<>>
  BY NothingToWrite
<1>3. WaitingWritesAs(frame, <<>>, All(frame, <<>>))
  BY <1>1, AllWrites
<1> QED
  BY <1>2, <1>3, Zenon DEF WaitingWritesAs

LEMMA AllOfHalf ==
  ASSUME NEW frame \in BOOLEAN, NEW p \in Text, ~IsSSEChunk(p), IsIncompletePrefix(p)
  PROVE  All(frame, p) = [w |-> Waiting(frame, p), out |-> <<>>]
<1>1. WaitingWritesAs(frame, p, All(frame, p))
  BY AllWrites
<1> QED
  BY <1>1, Zenon DEF WaitingWritesAs

LEMMA AllOfStream ==
  ASSUME NEW frame \in BOOLEAN, NEW p \in Text, IsSSEChunk(p)
  PROVE  IF Len(Rest(p)) > MaxBuffer THEN All(frame, p).w.over
         ELSE All(frame, p) = [w |-> Flowing(frame, p), out |-> Take[p].out]
<1> DEFINE e == Rewriter(<<>>, FALSE, <<>>, TRUE, frame)
<1>1. All(frame, p) = SSEWrite(e, p)
  BY AllWrites, Zenon DEF WaitingWritesAs
<1>2. e = Rewriter(<<>>, FALSE, <<>>, TRUE, frame)
  OBVIOUS
<1> HIDE DEF e
<1>3. <<>> \in Text /\ <<>> \o p = p
  BY DEF Text
<1>4. e \in Rewriters
  BY <1>2, <1>3, RewriterType
<1>5. e.buf = <<>> /\ e.over = FALSE
  BY <1>2 DEF Rewriter
<1>6. ~NeedsLineBreak(e.buf, p) /\ e.buf \o p = p
  BY <1>3, <1>5 DEF NeedsLineBreak
<1>7. (~e.over /\ ~NeedsLineBreak(e.buf, p)) =>
         IF Len(Rest(e.buf \o p)) > MaxBuffer THEN SSEWrite(e, p).w.over
         ELSE SSEWrite(e, p) = [w |-> [e EXCEPT !.buf = Rest(e.buf \o p)], out |-> Take[e.buf \o p].out]
  BY <1>4, SSEWriteParts
<1>8. [e EXCEPT !.buf = Rest(p)] = Flowing(frame, p)
  <2> DEFINE no == FALSE
             yes == TRUE
  <2>1. e = Rewriter(<<>>, no, <<>>, yes, frame) /\ Flowing(frame, p) = Rewriter(Rest(p), no, <<>>, yes, frame)
    BY <1>2 DEF Flowing
  <2> HIDE DEF no, yes
  <2> QED
    BY <2>1 DEF Rewriter
<1>9. IF Len(Rest(p)) > MaxBuffer THEN SSEWrite(e, p).w.over
      ELSE SSEWrite(e, p) = [w |-> [e EXCEPT !.buf = Rest(p)], out |-> Take[p].out]
  BY <1>5, <1>6, <1>7
<1> QED
  BY <1>1, <1>8, <1>9

(***************************************************************************)
(* One more chunk of an event stream: as if it had come with the text      *)
(* before it.                                                              *)
(***************************************************************************)
OneChunk(frame, p, chunk, r) ==
  /\ r.w = All(frame, p \o chunk).w
  /\ FlattenSeq(All(frame, p \o chunk).out) = FlattenSeq(All(frame, p).out) \o FlattenSeq(r.out)

LEMMA BreakStays ==
  ASSUME NEW p \in Text, NEW chunk \in Text, ~NeedsLineBreak(p, chunk)
  PROVE  ~NeedsLineBreak(Rest(p), chunk)
BY RestEndsAlike DEF EndsAlike, NeedsLineBreak

LEMMA StreamGoesOn ==
  ASSUME NEW frame \in BOOLEAN, NEW p \in Text, NEW chunk \in Text,
         IsSSEChunk(p), IsSSEChunk(p \o chunk), ~NeedsLineBreak(p, chunk),
         ~All(frame, p).w.over, ~Write(All(frame, p).w, chunk).w.over
  PROVE  OneChunk(frame, p, chunk, Write(All(frame, p).w, chunk))
<1> DEFINE v == Flowing(frame, p)
           q == Rest(p) \o chunk
           r == Write(v, chunk)
<1>1. Rest(p) \in Text /\ p \o chunk \in Text /\ q \in Text
  <2>1. Rest(p) \in Text
    BY TakeParts
  <2> QED
    BY <2>1 DEF Text
<1>2. All(frame, p) = [w |-> v, out |-> Take[p].out]
  BY AllOfStream
<1>3. All(frame, p).w = v /\ FlattenSeq(All(frame, p).out) = Out(p)
  BY <1>2 DEF Out
<1>4. /\ v \in Rewriters /\ v.buf = Rest(p) /\ ~v.over /\ v.sse /\ v.pending = <<>>
      /\ [v EXCEPT !.buf = Rest(q)] = Rewriter(Rest(q), FALSE, <<>>, TRUE, frame)
      /\ [v EXCEPT !.pending = <<>>] = v /\ [v EXCEPT !.sse = TRUE] = v
  <2>1. <<>> \in Text
    BY DEF Text
  <2>2. v = Rewriter(Rest(p), FALSE, <<>>, TRUE, frame)
    BY DEF Flowing
  <2> HIDE DEF v
  <2>3. v \in Rewriters
    BY <1>1, <2>1, <2>2, RewriterType
  <2>4. v.buf = Rest(p) /\ v.over = FALSE /\ v.sse = TRUE /\ v.pending = <<>>
    BY <2>2 DEF Rewriter
  <2>5. [v EXCEPT !.buf = Rest(q)] = Rewriter(Rest(q), FALSE, <<>>, TRUE, frame)
    <3> DEFINE no == FALSE
               yes == TRUE
    <3>1. v = Rewriter(Rest(p), no, <<>>, yes, frame)
      BY <2>2
    <3>2. [v EXCEPT !.buf = Rest(q)] = Rewriter(Rest(q), no, <<>>, yes, frame)
      <4> HIDE DEF no, yes, q
      <4> QED
        BY <3>1 DEF Rewriter
    <3> QED
      BY <3>2
  <2>6. [v EXCEPT !.pending = <<>>] = v /\ [v EXCEPT !.sse = TRUE] = v
    <3> DEFINE no == FALSE
               yes == TRUE
    <3>1. v = Rewriter(Rest(p), no, <<>>, yes, frame)
      BY <2>2
    <3>2. [v EXCEPT !.pending = <<>>] = v /\ [v EXCEPT !.sse = yes] = v
      <4> HIDE DEF no, yes
      <4> QED
        BY <3>1 DEF Rewriter
    <3> QED
      BY <3>2
  <2> QED
    BY <2>3, <2>4, <2>5, <2>6
<1>5. chunk = v.pending \o chunk
  BY <1>4 DEF Text
<1> HIDE DEF v
<1>6. r = SSEWrite(v, chunk)
  <2>1. WritesAs(v, v.pending \o chunk, [v EXCEPT !.pending = <<>>], r)
    BY Writes
  <2>2. WritesAs(v, chunk, v, r)
    BY <1>4, <1>5, <2>1, Zenon
  <2>3. IsStream(v, chunk)
    BY <1>4 DEF IsStream
  <2> QED
    BY <1>4, <2>2, <2>3, Zenon DEF WritesAs
<1>7. ~NeedsLineBreak(v.buf, chunk)
  BY <1>4, BreakStays
<1>8. IF Len(Rest(q)) > MaxBuffer THEN r.w.over
      ELSE r = [w |-> [v EXCEPT !.buf = Rest(q)], out |-> Take[q].out]
  BY <1>4, <1>6, <1>7, SSEWriteParts
<1>9. ~r.w.over
  BY <1>3
<1> HIDE DEF r
<1>10. /\ ~(Len(Rest(q)) > MaxBuffer)
       /\ r.w = Rewriter(Rest(q), FALSE, <<>>, TRUE, frame)
       /\ r.out = Take[q].out
  <2>1. r = [w |-> [v EXCEPT !.buf = Rest(q)], out |-> Take[q].out]
    BY <1>8, <1>9
  <2> QED
    BY <1>4, <1>8, <1>9, <2>1
<1>11. Rest(p \o chunk) = Rest(q) /\ Out(p \o chunk) = Out(p) \o Out(q)
  BY TakeJoins DEF Joins
<1>12. All(frame, p \o chunk) = [w |-> Flowing(frame, p \o chunk), out |-> Take[p \o chunk].out]
  BY <1>1, <1>10, <1>11, AllOfStream
<1>13. All(frame, p \o chunk).w = r.w /\ FlattenSeq(All(frame, p \o chunk).out) = Out(p \o chunk)
  BY <1>10, <1>11, <1>12 DEF Flowing, Out
<1>14. FlattenSeq(r.out) = Out(q)
  BY <1>10 DEF Out
<1> QED
  BY <1>3, <1>11, <1>13, <1>14 DEF OneChunk, r

LEMMA ChunkJoins ==
  ASSUME NEW frame \in BOOLEAN, NEW t \in Text, Begins(t, Fields),
         NEW n \in 0..Len(t), NEW m \in n+1..Len(t),
         ~NeedsLineBreak(SubSeq(t, 1, n), SubSeq(t, n + 1, m)),
         ~All(frame, SubSeq(t, 1, n)).w.over, ~Write(All(frame, SubSeq(t, 1, n)).w, SubSeq(t, n + 1, m)).w.over
  PROVE  /\ SubSeq(t, 1, n) \o SubSeq(t, n + 1, m) = SubSeq(t, 1, m)
         /\ OneChunk(frame, SubSeq(t, 1, n), SubSeq(t, n + 1, m), Write(All(frame, SubSeq(t, 1, n)).w, SubSeq(t, n + 1, m)))
<1> DEFINE p == SubSeq(t, 1, n)
           chunk == SubSeq(t, n + 1, m)
           r == Write(All(frame, p).w, chunk)
<1>1. p \in Text /\ chunk \in Text /\ p \o chunk \in Text /\ p \o chunk = SubSeq(t, 1, m)
  <2>1. t \in Seq(Letter) /\ Len(t) \in Nat
    BY DEF Text
  <2>2. p \in Seq(Letter) /\ chunk \in Seq(Letter)
    BY <2>1
  <2>3. 1 \in 1..Len(t)+1 /\ n \in 1-1..Len(t) /\ m \in n..Len(t)
    BY <2>1
  <2>4. SubSeq(t, 1, m) = p \o chunk
    BY <2>1, <2>3, ConcatAdjacentSubSeq
  <2> QED
    BY <2>2, <2>4 DEF Text
<1>2. n \in Nat /\ m \in 1..Len(t) /\ (n # 0 => m # 1 /\ n \in 1..Len(t)) /\ (n = 0 => p = <<>>)
  BY DEF Text
<1> HIDE DEF chunk
<1>3. ASSUME All(frame, p) = [w |-> Waiting(frame, p), out |-> <<>>]
      PROVE  OneChunk(frame, p, chunk, r)
  <2>1. All(frame, p).w = Waiting(frame, p) /\ FlattenSeq(All(frame, p).out) = <<>>
    BY <1>3, FlattenEmpty
  <2>2. r = All(frame, p \o chunk)
    BY <1>1, <2>1, WaitingFor
  <2>3. FlattenSeq(r.out) \in Text
    <3>1. Sound(Waiting(frame, p)) /\ Blind(Kept(TRUE), TRUE)
      <4>1. <<>> \in Text
        BY DEF Text
      <4>2. Waiting(frame, p) \in Rewriters
        BY <1>1, <4>1, RewriterType DEF Waiting
      <4>3. Waiting(frame, p).buf = <<>>
        BY DEF Waiting, Rewriter
      <4> QED
        BY <4>2, <4>3, KeptIsBlind DEF Sound
    <3>2. \E h : Blind(h, Waiting(frame, p).frame)
      <4>1. Waiting(frame, p).frame = frame
        BY DEF Waiting, Rewriter
      <4> QED
        BY <4>1, KeptIsBlind
    <3>3. r = Write(Waiting(frame, p), chunk)
      BY <2>1
    <3>4. r.out \in Seq(Text)
      BY <1>1, <3>1, <3>2, <3>3, WriteKept DEF Through
    <3>5. <<>> \in Text
      BY DEF Text
    <3> QED
      BY <3>4, <3>5, Pieces
  <2>4. <<>> \o FlattenSeq(r.out) = FlattenSeq(r.out)
    BY <2>3 DEF Text
  <2> QED
    BY <2>1, <2>2, <2>4 DEF OneChunk
<1>4. CASE n = 0
  BY <1>1, <1>2, <1>3, <1>4, AllOfNothing DEF chunk
<1>5. CASE n # 0 /\ ~IsSSEChunk(p)
  <2>1. IsIncompletePrefix(p)
    BY <1>2, <1>5, FieldParts
  <2>2. All(frame, p) = [w |-> Waiting(frame, p), out |-> <<>>]
    BY <1>1, <1>5, <2>1, AllOfHalf
  <2> QED
    BY <1>1, <1>3, <2>2 DEF chunk
<1>6. CASE n # 0 /\ IsSSEChunk(p)
  <2>1. IsSSEChunk(p \o chunk)
    BY <1>1, <1>2, <1>6, FieldParts
  <2>2. ~NeedsLineBreak(p, chunk) /\ ~All(frame, p).w.over /\ ~Write(All(frame, p).w, chunk).w.over
    BY DEF chunk
  <2> HIDE DEF p, r
  <2>3. OneChunk(frame, p, chunk, Write(All(frame, p).w, chunk))
    BY <1>1, <1>6, <2>1, <2>2, StreamGoesOn
  <2> QED
    BY <1>1, <2>3 DEF p, chunk, r
<1> QED
  BY <1>4, <1>5, <1>6

-----------------------------------------------------------------------------
(***************************************************************************)
(* While the upstream sends, the rewriter stands where one chunk would     *)
(* have put it; what it gave out is what it would have given out.          *)
(***************************************************************************)
Before == SubSeq(stream.text, 1, read)
AllRead == All(stream.frame, Before)

AsOneChunk ==
  IF ended = "no" THEN w = AllRead.w /\ emitted \o FlattenSeq(out) = FlattenSeq(AllRead.out)
  ELSE ~AllRead.w.over /\ emitted \o FlattenSeq(out) = InOneChunk(Before)

ChunkSide == (straight /\ ~w.over /\ BeginsWithField) => AsOneChunk

LEMMA ChunkSideInit == StreamInit => ChunkSide
<1> SUFFICES ASSUME StreamInit PROVE AsOneChunk
  BY DEF ChunkSide
<1>1. /\ stream \in Streams /\ w = NewRewriter(stream.frame) /\ ended = "no"
      /\ read = 0 /\ out = <<>> /\ emitted = <<>>
  BY DEF StreamInit
<1>2. stream.text \in Text /\ stream.frame \in BOOLEAN
  BY <1>1, CAll
<1>3. Before = <<>>
  BY <1>1, <1>2 DEF Before, Text
<1>4. AllRead = [w |-> Waiting(stream.frame, <<>>), out |-> <<>>]
  BY <1>2, <1>3, AllOfNothing DEF AllRead
<1>5. AllRead.w = w /\ FlattenSeq(AllRead.out) = <<>> /\ FlattenSeq(out) = <<>>
  BY <1>1, <1>4, NewWaits, FlattenEmpty
<1>6. <<>> \o <<>> = <<>>
  OBVIOUS
<1> QED
  BY <1>1, <1>5, <1>6 DEF AsOneChunk

LEMMA ChunkStays ==
  ASSUME ChunkSide, UNCHANGED <<stream, read, w, ended, straight>>,
         emitted' \o FlattenSeq(out') = emitted \o FlattenSeq(out)
  PROVE  ChunkSide'
BY DEF ChunkSide, AsOneChunk, AllRead, All, Before, BeginsWithField, InOneChunk

LEMMA ChunkSideStep == TextSide /\ ChunkSide /\ [StreamNext]_streamVars => ChunkSide'
<1> SUFFICES ASSUME TextSide, ChunkSide, [StreamNext]_streamVars PROVE ChunkSide'
  OBVIOUS
<1>0. /\ stream \in Streams /\ read \in 0..Len(stream.text) /\ Sound(w) /\ w.frame = stream.frame
      /\ out \in Seq(Text) /\ emitted \in Text
      /\ pc \in {"open", "read"} => out = <<>> /\ ended = "no"
  BY DEF TextSide
<1>a. stream.text \in Text /\ stream.frame \in BOOLEAN /\ Len(stream.text) \in Nat
  <2>1. stream.text \in Text /\ stream.frame \in BOOLEAN
    BY <1>0, CAll
  <2> QED
    BY <2>1 DEF Text
<1>b. emitted \o <<>> = emitted
  BY <1>0 DEF Text
<1>1. CASE Open
  BY <1>1, ChunkStays DEF Open
<1>2. CASE ReadChunk
  <2>1. PICK to \in read + 1..Len(stream.text) :
          /\ GiveOut(Write(w, SubSeq(stream.text, read + 1, to))) /\ read' = to
          /\ straight' = (straight /\ Straight(Before, SubSeq(stream.text, read + 1, to)))
    BY <1>2 DEF ReadChunk, Before
  <2> DEFINE chunk == SubSeq(stream.text, read + 1, to)
             r == Write(w, chunk)
  <2>2. /\ UNCHANGED <<stream, ended, emitted>> /\ out = <<>> /\ ended = "no"
        /\ w' = r.w /\ out' = r.out
    BY <1>2, <1>0, <2>1 DEF ReadChunk, GiveOut
  <2>3. SUFFICES ASSUME straight', ~w'.over, BeginsWithField' PROVE AsOneChunk'
    BY DEF ChunkSide
  <2>4. straight /\ ~NeedsLineBreak(Before, chunk) /\ BeginsWithField
    BY <2>1, <2>2, <2>3 DEF Straight, BeginsWithField
  <2>5. ~w.over /\ chunk \in Text
    <3>1. chunk \in Text
      BY <1>0, <1>a DEF Text
    <3> HIDE DEF chunk
    <3>2. ~w.over
      BY <1>0, <2>2, <2>3, <3>1, OverStays
    <3> QED
      BY <3>1, <3>2
  <2>6. w = AllRead.w /\ emitted \o FlattenSeq(out) = FlattenSeq(AllRead.out)
    BY <2>2, <2>4, <2>5 DEF ChunkSide, AsOneChunk
  <2>7. emitted = FlattenSeq(AllRead.out)
    BY <1>b, <2>2, <2>6, FlattenEmpty
  <2>8. Before' = SubSeq(stream.text, 1, to)
    BY <2>1, <2>2 DEF Before
  <2>9. /\ Before \o chunk = Before'
        /\ OneChunk(stream.frame, Before, chunk, r)
    <3> DEFINE t == stream.text
               f == stream.frame
               n == read
    <3>1. /\ f \in BOOLEAN /\ t \in Text /\ Begins(t, Fields) /\ n \in 0..Len(t) /\ to \in n + 1..Len(t)
          /\ ~NeedsLineBreak(SubSeq(t, 1, n), SubSeq(t, n + 1, to))
          /\ ~All(f, SubSeq(t, 1, n)).w.over /\ ~Write(All(f, SubSeq(t, 1, n)).w, SubSeq(t, n + 1, to)).w.over
      BY <1>0, <1>a, <2>1, <2>2, <2>3, <2>4, <2>5, <2>6 DEF Before, AllRead, BeginsWithField, Fields
    <3> HIDE DEF t, f, n
    <3>2. /\ SubSeq(t, 1, n) \o SubSeq(t, n + 1, to) = SubSeq(t, 1, to)
          /\ OneChunk(f, SubSeq(t, 1, n), SubSeq(t, n + 1, to), Write(All(f, SubSeq(t, 1, n)).w, SubSeq(t, n + 1, to)))
      BY <3>1, ChunkJoins
    <3> QED
      BY <2>6, <2>8, <3>2 DEF Before, AllRead, t, f, n
  <2>10. AllRead' = All(stream.frame, Before')
    BY <2>2 DEF AllRead, All
  <2> HIDE DEF r, chunk
  <2>11. r.w = AllRead'.w /\ FlattenSeq(AllRead'.out) = FlattenSeq(AllRead.out) \o FlattenSeq(r.out)
    BY <2>9, <2>10 DEF OneChunk, AllRead
  <2>12. w' = AllRead'.w /\ emitted' \o FlattenSeq(out') = FlattenSeq(AllRead'.out) /\ ended' = "no"
    BY <2>2, <2>7, <2>11
  <2> QED
    BY <2>12 DEF AsOneChunk
<1>3. CASE ReadEnd
  <2>1. /\ UNCHANGED <<stream, read, emitted, straight>> /\ out = <<>> /\ ended = "no"
        /\ w' = Flush(w).w /\ out' = Flush(w).out /\ ended' # "no"
    BY <1>3, <1>0 DEF ReadEnd, GiveOut
  <2>2. SUFFICES ASSUME straight', ~w'.over, BeginsWithField' PROVE AsOneChunk'
    BY DEF ChunkSide
  <2>3. straight /\ BeginsWithField
    BY <2>1, <2>2 DEF BeginsWithField
  <2>4. ~w.over
    <3>1. <<>> \in Text
      BY DEF Text
    <3> QED
      BY <1>0, <2>1, <2>2, <3>1, OverStays
  <2>5. w = AllRead.w /\ emitted \o FlattenSeq(out) = FlattenSeq(AllRead.out)
    BY <2>1, <2>3, <2>4 DEF ChunkSide, AsOneChunk
  <2>6. emitted = FlattenSeq(AllRead.out)
    BY <1>b, <2>1, <2>5, FlattenEmpty
  <2>7. InOneChunk(Before) = FlattenSeq(AllRead.out) \o FlattenSeq(Flush(AllRead.w).out)
    BY DEF InOneChunk, AllRead, All
  <2>8. InOneChunk(Before)' = InOneChunk(Before) /\ ~AllRead'.w.over
    <3>1. InOneChunk(Before)' = InOneChunk(Before) /\ AllRead' = AllRead
      BY <2>1 DEF InOneChunk, AllRead, All, Before
    <3> QED
      BY <2>4, <2>5, <3>1
  <2>9. emitted' \o FlattenSeq(out') = InOneChunk(Before)
    BY <2>1, <2>5, <2>6, <2>7
  <2> QED
    BY <2>1, <2>8, <2>9 DEF AsOneChunk
<1>4. CASE ReadFails
  BY <1>4, ChunkStays DEF ReadFails
<1>5. CASE Emit
  <2>0. UNCHANGED <<stream, read, w, ended, straight>> /\ out # <<>>
    BY <1>5 DEF Emit
  <2>1. CASE UNCHANGED <<emitted, out>>
    BY <2>0, <2>1, ChunkStays
  <2>2. CASE emitted' = emitted \o Head(out) /\ out' = Tail(out)
    <3>1. Head(out) \in Text /\ Tail(out) \in Seq(Text) /\ out \in Seq(Seq(Letter))
      BY <1>0, <2>0, HeadTailProperties DEF Text
    <3>2. FlattenSeq(out) = Head(out) \o FlattenSeq(Tail(out))
      BY <2>0, <3>1, FlattenHead
    <3>3. FlattenSeq(Tail(out)) \in Text
      BY <3>1, Pieces
    <3>4. (emitted \o Head(out)) \o FlattenSeq(Tail(out)) = emitted \o (Head(out) \o FlattenSeq(Tail(out)))
      <4>1. emitted \in Seq(Letter) /\ Head(out) \in Seq(Letter) /\ FlattenSeq(Tail(out)) \in Seq(Letter)
        BY <1>0, <3>1, <3>3 DEF Text
      <4>2. \A a, b, c \in Seq(Letter) : (a \o b) \o c = a \o (b \o c)
        BY ConcatAssociative
      <4> QED
        BY <4>1, <4>2, Zenon
    <3> QED
      BY <2>0, <2>2, <3>2, <3>4, ChunkStays
  <2> QED
    BY <1>5, <2>1, <2>2 DEF Emit
<1>6. CASE EmitDone
  BY <1>6, ChunkStays DEF EmitDone
<1>7. CASE CloseHost
  BY <1>7, ChunkStays DEF CloseHost
<1>8. CASE ClosePlugin
  BY <1>8, ChunkStays DEF ClosePlugin
<1>9. CASE Fail
  BY <1>9, ChunkStays DEF Fail
<1>10. CASE Panic
  BY <1>10, ChunkStays DEF Panic
<1>11. CASE UNCHANGED streamVars
  BY <1>11, ChunkStays DEF streamVars
<1> QED
  BY <1>1, <1>2, <1>3, <1>4, <1>5, <1>6, <1>7, <1>8, <1>9, <1>10, <1>11 DEF StreamNext

(***************************************************************************)
(* Where the upstream or the host cuts an event stream does not show: the  *)
(* client gets what it would have got in one chunk, however many chunks    *)
(* there are and wherever the upstream breaks off, unless a chunk looks    *)
(* like the beginning of a line it is not or the buffer overflows          *)
(* (sseRewriter.Write, streamChunkRewriter.Write and Flush).               *)
(***************************************************************************)
THEOREM ChunksDoNotMatter == StreamSpec => []ChunkingIndependent
<1>1. TextSide /\ ChunkSide => ChunkingIndependent
  <2> SUFFICES ASSUME TextSide, ChunkSide, ended # "no", straight, ~w.over, BeginsWithField
               PROVE  emitted \o FlattenSeq(out) \o Held = InOneChunk(Before)
    BY DEF ChunkingIndependent, Before
  <2>1. emitted \o FlattenSeq(out) = InOneChunk(Before)
    BY DEF ChunkSide, AsOneChunk
  <2>2. Held = <<>> /\ out \in Seq(Text) /\ emitted \in Text
    BY DEF TextSide, HeldBy, Held
  <2>3. FlattenSeq(out) \in Text
    BY <2>2, Pieces
  <2>4. emitted \o FlattenSeq(out) \in Seq(Letter)
    BY <2>2, <2>3 DEF Text
  <2>5. (emitted \o FlattenSeq(out)) \o <<>> = emitted \o FlattenSeq(out)
    BY <2>4, ConcatEmptySeq
  <2> QED
    BY <2>1, <2>2, <2>5
<1> QED
  BY <1>1, ChunkSideInit, ChunkSideStep, TextSideAlways, PTL DEF StreamSpec

-----------------------------------------------------------------------------
(***************************************************************************)
(* The lines of a text, seen from their places: InDocuments with the       *)
(* places anywhere.                                                        *)
(***************************************************************************)
LinesLegible(p) == \A i, e \in Nat : IsLine(p, i, e) => Legible(SubSeq(p, i, e))

LEMMA AllLegible ==
  ASSUME NEW p, InDocuments(p)
  PROVE  LinesLegible(p)
<1> SUFFICES ASSUME NEW i \in Nat, NEW e \in Nat, IsLine(p, i, e) PROVE Legible(SubSeq(p, i, e))
  BY DEF LinesLegible
<1>1. i \in 1..Len(p)+1 /\ e \in i-1..Len(p)
  BY DEF IsLine
<1> QED
  BY <1>1 DEF InDocuments

\* The field's name takes two places of a data line.
LEMMA DataShape ==
  ASSUME NEW line
  PROVE  SubSeq(line, Len(DataField) + 1, Len(line)) = SubSeq(line, 3, Len(line))
<1>1. Len(DataField) + 1 = 3
  BY FieldFacts
<1> QED
  BY <1>1, Zenon

LEMMA TextShape ==
  ASSUME NEW p \in Text
  PROVE  Len(p) \in Nat /\ DOMAIN p = 1..Len(p) /\ \A i \in 1..Len(p) : p[i] \in Letter
BY DEF Text

LEMMA NamesJoin ==
  ASSUME NEW p \in Text, NEW q \in Text
  PROVE  Names(p \o q) <=> Names(p) \/ Names(q)
<1>1. /\ p \o q \in Text /\ Len(p \o q) = Len(p) + Len(q) /\ Len(p) \in Nat /\ Len(q) \in Nat
      /\ \A i \in 1..Len(p)+Len(q) : (p \o q)[i] = IF i <= Len(p) THEN p[i] ELSE q[i - Len(p)]
  BY ConcatProperties DEF Text
<1>2. DOMAIN p = 1..Len(p) /\ DOMAIN q = 1..Len(q) /\ DOMAIN (p \o q) = 1..Len(p)+Len(q)
  BY <1>1, TextShape
<1> DEFINE r == p \o q
           m == Len(p)
           n == Len(q)
<1>3. /\ m \in Nat /\ n \in Nat /\ \A i \in 1..m+n : r[i] = IF i <= m THEN p[i] ELSE q[i - m]
      /\ DOMAIN p = 1..m /\ DOMAIN q = 1..n /\ DOMAIN r = 1..m+n
  BY <1>1, <1>2
<1> HIDE DEF r, m, n
<1>4. ASSUME NEW i \in 1..m, p[i] = "M" PROVE i \in 1..m+n /\ r[i] = "M"
  BY <1>3, <1>4
<1>5. ASSUME NEW i \in 1..n, q[i] = "M" PROVE m + i \in 1..m+n /\ r[m+i] = "M"
  <2>1. m + i \in 1..m+n /\ ~(m + i <= m) /\ (m + i) - m = i
    BY <1>3
  <2> QED
    BY <1>3, <1>5, <2>1
<1>6. ASSUME NEW i \in 1..m+n, r[i] = "M" PROVE (i \in 1..m /\ p[i] = "M") \/ (i - m \in 1..n /\ q[i-m] = "M")
  <2>1. CASE i <= m
    BY <1>3, <1>6, <2>1
  <2>2. CASE ~(i <= m)
    <3>1. i - m \in 1..n
      BY <1>3, <2>2
    <3> QED
      BY <1>3, <1>6, <2>2, <3>1
  <2> QED
    BY <2>1, <2>2
<1>7. Names(p) => Names(r)
  BY <1>3, <1>4 DEF Names
<1>8. Names(q) => Names(r)
  BY <1>3, <1>5 DEF Names
<1>9. Names(r) => Names(p) \/ Names(q)
  BY <1>3, <1>6 DEF Names
<1> QED
  BY <1>7, <1>8, <1>9 DEF r

LEMMA NamelessJoin ==
  \A p, q \in Text : ~Names(p) /\ ~Names(q) => p \o q \in Text /\ ~Names(p \o q)
<1> SUFFICES ASSUME NEW p \in Text, NEW q \in Text, ~Names(p), ~Names(q)
             PROVE  p \o q \in Text /\ ~Names(p \o q)
  OBVIOUS
<1>1. p \o q \in Text
  BY DEF Text
<1>2. Names(p \o q) <=> Names(p) \/ Names(q)
  BY NamesJoin, Zenon
<1> QED
  BY <1>1, <1>2, Zenon

LEMMA FixedNames ==
  /\ ~Names(<<>>) /\ ~Names(DataField) /\ ~Names(<<"s">>) /\ ~Names(<<"n">>) /\ ~Names(<<"r">>) /\ ~Names(<<"r", "n">>)
  /\ ~Names(Doc("O")) /\ \A b \in BlankLines : ~Names(b)
<1>1. ~Names(<<>>)
  BY DEF Names
<1>2. ~Names(DataField) /\ ~Names(<<"s">>) /\ ~Names(<<"n">>) /\ ~Names(<<"r">>) /\ ~Names(<<"r", "n">>)
  BY DEF Names, DataField
<1>3. ~Names(Doc("O"))
  <2>1. DOMAIN Doc("O") = 1..4 /\ Doc("O")[1] = "{" /\ Doc("O")[2] = ":" /\ Doc("O")[3] = "O" /\ Doc("O")[4] = "}"
    BY DEF Doc
  <2>2. ASSUME NEW i \in 1..4 PROVE Doc("O")[i] # "M"
    <3>1. i = 1 \/ i = 2 \/ i = 3 \/ i = 4
      OBVIOUS
    <3> QED
      BY <2>1, <3>1
  <2> QED
    BY <2>1, <2>2 DEF Names
<1>4. ASSUME NEW b \in BlankLines PROVE ~Names(b)
  <2>1. CASE b = <<"n", "n">>
    BY <2>1 DEF Names
  <2>2. CASE b = <<"r", "n", "r", "n">>
    <3>1. ASSUME NEW i \in 1..4 PROVE <<"r", "n", "r", "n">>[i] # "M"
      <4>1. i = 1 \/ i = 2 \/ i = 3 \/ i = 4
        OBVIOUS
      <4> QED
        BY <4>1
    <3> QED
      BY <2>2, <3>1 DEF Names
  <2> QED
    BY <2>1, <2>2 DEF BlankLines
<1> QED
  BY <1>1, <1>2, <1>3, <1>4

(***************************************************************************)
(* A carriage return at the end of a line has no part in its document.     *)
(***************************************************************************)
LEMMA SolidReturn ==
  ASSUME NEW p \in Text
  PROVE  Solid(p \o <<"r">>) = Solid(p)
<1> DEFINE g == [c \in Letter |-> IF c \in White THEN <<>> ELSE <<c>>]
<1>0. "r" \in Letter /\ "r" \in White
  BY Letters, Zenon
<1>1. g \in Codings(Letter, Seq(Letter)) /\ g["r"] = <<>>
  BY <1>0 DEF Codings
<1>2. ASSUME NEW q \in Text PROVE Solid(q) = Coded(g, q)
  <2>1. [i \in DOMAIN q |-> IF q[i] \in White THEN <<>> ELSE <<q[i]>>] = Mapped(g, q)
    BY DEF Text, Mapped
  <2> QED
    BY <2>1 DEF Solid, Coded
<1> HIDE DEF g
<1>3. p \in Seq(Letter) /\ <<"r">> \in Seq(Letter) /\ p \o <<"r">> \in Text /\ "r" \in Letter
  BY <1>0 DEF Text
<1>4. Coded(g, p \o <<"r">>) = Coded(g, p) \o Coded(g, <<"r">>)
  BY <1>1, <1>3, CodedConcat
<1>5. Coded(g, <<"r">>) = <<>> /\ Coded(g, p) \in Seq(Letter)
  BY <1>1, <1>3, CodedOne, CodedType
<1>6. Coded(g, p) \o <<>> = Coded(g, p)
  BY <1>5, ConcatEmptySeq
<1> QED
  BY <1>2, <1>3, <1>4, <1>5, <1>6

LEMMA ReturnIsBlank ==
  ASSUME NEW line \in Text, DataLine(line \o <<"r">>)
  PROVE  DataLine(line)
<1> DEFINE more == line \o <<"r">>
           n == Len(line)
<1>0. "r" \in Letter
  BY Letters, Zenon
<1>1. /\ n \in Nat /\ more \in Text /\ Len(more) = n + 1 /\ more[n+1] = "r"
      /\ \A i \in 1..n : more[i] = line[i]
  BY <1>0 DEF Text
<1>2. DataField \in Text /\ Len(DataField) = 2 /\ DataField[2] = "ta:"
  BY FieldFacts DEF DataField
<1> HIDE DEF more
<1>3. 2 <= n + 1 /\ DataField[1] = more[1] /\ DataField[2] = more[2]
  <2>1. Len(DataField) <= Len(more) /\ \A i \in 1..Len(DataField) : DataField[i] = more[i]
    BY <1>1, <1>2, PrefixOf DEF DataLine, more
  <2> QED
    BY <1>1, <1>2, <2>1
<1>4. 2 <= n
  <2>1. n + 1 # 2
    BY <1>1, <1>2, <1>3
  <2> HIDE DEF n
  <2> QED
    BY <1>1, <1>3, <2>1
<1>5. IsPrefix(DataField, line)
  <2>1. \A i \in 1..2 : DataField[i] = line[i]
    <3>1. more[1] = line[1] /\ more[2] = line[2]
      <4> HIDE DEF n
      <4> QED
        BY <1>1, <1>4
    <3>2. ASSUME NEW i \in 1..2 PROVE DataField[i] = line[i]
      <4>1. i = 1 \/ i = 2
        OBVIOUS
      <4> QED
        BY <1>3, <3>1, <4>1
    <3> QED
      BY <3>2
  <2> QED
    BY <1>2, <1>4, <2>1, PrefixOf
<1> DEFINE value == SubSeq(line, 3, n)
           u == SubSeq(more, 3, n + 1)
           v == value \o <<"r">>
<1>6. value \in Text
  BY DEF Text
<1>7. u = v
  <2>1. u \in Seq(Letter) /\ Len(u) = n - 1 /\ \A i \in 1..n-1 : u[i] = more[i+2]
    <3>1. more \in Seq(Letter) /\ Len(more) = n + 1 /\ 2 <= n /\ n \in Nat
      BY <1>1, <1>4 DEF Text
    <3> HIDE DEF n
    <3> QED
      BY <3>1
  <2>2. value \in Seq(Letter) /\ Len(value) = n - 2 /\ \A i \in 1..n-2 : value[i] = line[i+2]
    <3>1. line \in Seq(Letter) /\ Len(line) = n /\ 2 <= n /\ n \in Nat
      BY <1>1, <1>4 DEF Text
    <3> HIDE DEF n
    <3> QED
      BY <3>1
  <2> HIDE DEF value, u
  <2>3. v \in Seq(Letter) /\ Len(v) = n - 1 /\ v[n-1] = "r" /\ \A i \in 1..n-2 : v[i] = value[i]
    <3>1. "r" \in Letter /\ n - 2 \in Nat /\ (n - 2) + 1 = n - 1
      BY <1>0, <1>1, <1>4
    <3> DEFINE m == n - 2
    <3>2. m \in Nat /\ Len(value) = m /\ n - 1 = m + 1
      BY <2>2, <3>1
    <3> HIDE DEF m, n
    <3>3. v \in Seq(Letter) /\ Len(v) = m + 1 /\ v[m+1] = "r" /\ \A i \in 1..m : v[i] = value[i]
      BY <2>2, <3>1, <3>2
    <3> QED
      BY <3>2, <3>3 DEF m
  <2> HIDE DEF v, n
  <2>4. ASSUME NEW i \in 1..n-1 PROVE u[i] = v[i]
    <3>1. CASE i = n - 1
      <4>1. i + 2 = n + 1
        BY <1>1, <3>1
      <4> QED
        BY <1>1, <2>1, <2>3, <3>1, <4>1
    <3>2. CASE i # n - 1
      <4>1. i \in 1..n-2 /\ i + 2 \in 1..n
        BY <1>1, <1>4, <3>2
      <4> QED
        BY <1>1, <2>1, <2>2, <2>3, <4>1
    <3> QED
      BY <3>1, <3>2
  <2> QED
    BY <2>1, <2>3, <2>4, SeqEqual
<1>8. Solid(u) = Solid(value)
  <2> HIDE DEF value, u
  <2> QED
    BY <1>6, <1>7, SolidReturn
<1>9. IsDoc(u)
  <2>1. SubSeq(more, Len(DataField) + 1, Len(more)) = u
    BY <1>1, DataShape
  <2> HIDE DEF u
  <2> QED
    BY <2>1, Zenon DEF DataLine, more
<1>10. IsDoc(value)
  <2> HIDE DEF value, u
  <2> QED
    BY <1>8, <1>9 DEF IsDoc
<1>11. SubSeq(line, Len(DataField) + 1, Len(line)) = value
  BY DataShape
<1> HIDE DEF value
<1> QED
  BY <1>5, <1>10, <1>11, Zenon DEF DataLine

(***************************************************************************)
(* A line written anew shows no name, if what it showed was a document.    *)
(***************************************************************************)
LEMMA FrontAndReturn ==
  ASSUME NEW line \in Text, line # <<>>, Last(line) = "r"
  PROVE  Front(line) \in Text /\ line = Front(line) \o <<"r">>
<1> DEFINE n == Len(line)
           a == Front(line)
           b == a \o <<"r">>
<1>0. "r" \in Letter
  BY Letters, Zenon
<1>1. n \in Nat \ {0} /\ line \in Seq(Letter) /\ line[n] = "r"
  BY DEF Text, Last
<1>2. a \in Seq(Letter) /\ Len(a) = n - 1 /\ \A i \in 1..n-1 : a[i] = line[i]
  <2>1. a = SubSeq(line, 1, n - 1)
    BY DEF Front
  <2> HIDE DEF n, a
  <2>2. Len(line) = n
    BY DEF n
  <2> QED
    BY <1>1, <2>1, <2>2
<1> HIDE DEF a
<1>3. b \in Seq(Letter) /\ Len(b) = Len(a) + 1 /\ b[Len(a) + 1] = "r" /\ \A i \in 1..Len(a) : b[i] = a[i]
  BY <1>0, <1>2
<1> HIDE DEF b
<1>4. Len(b) = n /\ b[n] = "r" /\ \A i \in 1..n-1 : b[i] = line[i]
  <2>1. (n - 1) + 1 = n
    BY <1>1
  <2> QED
    BY <1>2, <1>3, <2>1
<1>5. ASSUME NEW i \in 1..n PROVE b[i] = line[i]
  <2>1. i = n \/ i \in 1..n-1
    BY <1>1
  <2> QED
    BY <1>1, <1>4, <2>1
<1>6. line = b
  BY <1>1, <1>3, <1>4, <1>5, SeqEqual
<1> QED
  BY <1>2, <1>6 DEF Text, b, a

LEMMA DocIsText == Doc("O") \in Text
BY SomeBlind, DocCoded

LEMMA LineRestored ==
  ASSUME NEW line \in Text, NEW break \in {<<>>, <<"n">>}, Legible(line)
  PROVE  RewriteLine(line, break) \in Text /\ ~Names(RewriteLine(line, break))
<1> DEFINE cr    == line # <<>> /\ Last(line) = "r"
           text  == IF cr THEN Front(line) ELSE line
           end   == IF cr /\ break # <<>> THEN <<"r", "n">> ELSE break
           value == SubSeq(text, Len(DataField) + 1, Len(text))
<1>0. "r" \in Letter /\ "n" \in Letter /\ "s" \in Letter
  BY Letters, Zenon
<1>1. text \in Text /\ Legible(text)
  <2>1. CASE cr
    <3>1. Front(line) \in Text /\ line = Front(line) \o <<"r">> /\ <<"r">> \in Text
      BY <1>0, <2>1, FrontAndReturn DEF Text
    <3>2. Legible(Front(line))
      <4>1. SUFFICES ASSUME Names(Front(line)) PROVE DataLine(Front(line))
        BY DEF Legible
      <4>2. Names(line)
        <5>1. \A p, q \in Text : Names(p) => Names(p \o q)
          BY NamesJoin, Zenon
        <5> QED
          BY <3>1, <4>1, <5>1, Zenon
      <4>3. DataLine(line)
        BY <4>2 DEF Legible
      <4> QED
        BY <3>1, <4>3, ReturnIsBlank
    <3> QED
      BY <2>1, <3>1, <3>2
  <2>2. CASE ~cr
    BY <2>2
  <2> QED
    BY <2>1, <2>2
<1>2. end \in Text /\ ~Names(end)
  <2>1. \A e \in {<<>>, <<"n">>, <<"r", "n">>} : e \in Text
    BY SomeBlind, Blanks
  <2>2. end \in {<<>>, <<"n">>, <<"r", "n">>}
    OBVIOUS
  <2>3. \A e \in {<<>>, <<"n">>, <<"r", "n">>} : ~Names(e)
    BY FixedNames, Zenon
  <2> HIDE DEF end
  <2> QED
    BY <2>1, <2>2, <2>3
<1>3. RewriteLine(line, break) = IF IsPrefix(DataField, text) /\ IsDoc(value)
                                 THEN DataField \o <<"s">> \o Doc("O") \o end ELSE text \o end
  BY DEF RewriteLine
<1>4. value = SubSeq(text, Len(DataField) + 1, Len(text))
  OBVIOUS
<1> HIDE DEF text, end, value
<1>5. CASE IsPrefix(DataField, text) /\ IsDoc(value)
  <2>1. DataField \in Text /\ <<"s">> \in Text /\ Doc("O") \in Text
    BY <1>0, FieldFacts, DocIsText DEF Text
  <2>2. ~Names(DataField) /\ ~Names(<<"s">>) /\ ~Names(Doc("O"))
    BY FixedNames
  <2>3. DataField \o <<"s">> \in Text /\ ~Names(DataField \o <<"s">>)
    BY <2>1, <2>2, NamelessJoin, Zenon
  <2>4. DataField \o <<"s">> \o Doc("O") \in Text /\ ~Names(DataField \o <<"s">> \o Doc("O"))
    BY <2>1, <2>2, <2>3, NamelessJoin, Zenon
  <2>5. DataField \o <<"s">> \o Doc("O") \o end \in Text /\ ~Names(DataField \o <<"s">> \o Doc("O") \o end)
    BY <1>2, <2>4, NamelessJoin, Zenon
  <2> QED
    BY <1>3, <1>5, <2>5
<1>6. CASE ~(IsPrefix(DataField, text) /\ IsDoc(value))
  <2>1. ~Names(text)
    BY <1>1, <1>4, <1>6, Zenon DEF Legible, DataLine
  <2>2. text \o end \in Text /\ ~Names(text \o end)
    BY <1>1, <1>2, <2>1, NamelessJoin, Zenon
  <2> QED
    BY <1>3, <1>6, <2>2
<1> QED
  BY <1>5, <1>6

(***************************************************************************)
(* The lines of an event, as rewriteEvent goes through them.               *)
(***************************************************************************)
Breaks(p, i)  == {e \in i..Len(p) : p[e] = "n"}
LineEnd(p, i) == CHOOSE e \in Breaks(p, i) : \A f \in Breaks(p, i) : e <= f
LastLine(p, i) == SubSeq(p, i, Len(p))
NextLine(p, i) == SubSeq(p, i, LineEnd(p, i) - 1)

Starts(p)  == 1..Len(p)+1
Ending(p)  == {i \in Starts(p) : Breaks(p, i) = {}}
Onward(p)  == [i \in Starts(p) |-> IF i \in Ending(p) THEN i ELSE LineEnd(p, i) + 1]
ToCome(p)  == [i \in Starts(p) |-> Len(p) + 1 - i]

Rewrites(p, g) ==
  /\ \A i \in Ending(p) : g[i] = RewriteLine(LastLine(p, i), <<>>)
  /\ \A i \in Starts(p) \ Ending(p) : g[i] = RewriteLine(NextLine(p, i), <<"n">>) \o g[Onward(p)[i]]

LEMMA LineEnds ==
  ASSUME NEW p \in Text, NEW i \in Starts(p) \ Ending(p)
  PROVE  /\ LineEnd(p, i) \in i..Len(p) /\ p[LineEnd(p, i)] = "n" /\ i \in 1..Len(p)
         /\ \A j \in i..LineEnd(p, i)-1 : p[j] # "n"
         /\ Onward(p)[i] = LineEnd(p, i) + 1 /\ Onward(p)[i] \in Starts(p)
<1> DEFINE B == Breaks(p, i)
           e == LineEnd(p, i)
<1>1. Len(p) \in Nat /\ i \in Nat /\ i >= 1 /\ B # {} /\ B \subseteq i..Len(p) /\ B \subseteq Nat
  BY DEF Text, Starts, Ending, Breaks
<1>2. e \in B /\ \A f \in B : e <= f
  <2>1. \E d \in B : \A f \in B : d <= f
    <3> HIDE DEF B
    <3> QED
      BY <1>1, LeastElement
  <2>2. e = CHOOSE d \in B : \A f \in B : d <= f
    BY DEF LineEnd
  <2> HIDE DEF B, e
  <2> QED
    BY <2>1, <2>2
<1>3. Onward(p)[i] = e + 1
  BY DEF Onward
<1> HIDE DEF e
<1>4. e \in i..Len(p) /\ p[e] = "n"
  BY <1>2 DEF Breaks
<1>5. i \in 1..Len(p) /\ e + 1 \in Starts(p)
  BY <1>1, <1>4 DEF Starts
<1>6. ASSUME NEW j \in i..e-1 PROVE p[j] # "n"
  <2>1. j \in i..Len(p) /\ ~(e <= j)
    BY <1>1, <1>4
  <2>2. j \notin B
    <3> HIDE DEF B
    <3> QED
      BY <1>2, <2>1
  <2> QED
    BY <2>1, <2>2 DEF Breaks
<1> QED
  BY <1>3, <1>4, <1>5, <1>6 DEF e

LEMMA LinesShrink ==
  ASSUME NEW p \in Text
  PROVE  /\ ToCome(p) \in Codings(Starts(p), Nat) /\ Onward(p) \in Codings(Starts(p), Starts(p))
         /\ Shrinks(Starts(p), ToCome(p), Onward(p), Ending(p)) /\ Ending(p) \subseteq Starts(p)
<1>1. Len(p) \in Nat /\ Starts(p) = 1..Len(p)+1 /\ Ending(p) \subseteq Starts(p)
  BY DEF Text, Starts, Ending
<1>2. ToCome(p) \in Codings(Starts(p), Nat)
  BY <1>1 DEF ToCome, Codings
<1>3. \A i \in Starts(p) \ Ending(p) : Onward(p)[i] \in Starts(p) /\ Onward(p)[i] > i
  <2> SUFFICES ASSUME NEW i \in Starts(p) \ Ending(p) PROVE Onward(p)[i] \in Starts(p) /\ Onward(p)[i] > i
    OBVIOUS
  <2> DEFINE e == LineEnd(p, i)
  <2>1. e \in i..Len(p) /\ i \in 1..Len(p) /\ Onward(p)[i] = e + 1 /\ Onward(p)[i] \in Starts(p)
    BY LineEnds
  <2> HIDE DEF e
  <2> QED
    BY <1>1, <2>1
<1>4. \A i \in Starts(p) : Onward(p)[i] \in Starts(p)
  <2>1. \A i \in Ending(p) : Onward(p)[i] = i
    BY <1>1 DEF Onward
  <2> QED
    BY <1>1, <1>3, <2>1
<1>5. Onward(p) \in Codings(Starts(p), Starts(p))
  <2>1. Onward(p) = [i \in Starts(p) |-> Onward(p)[i]]
    BY DEF Onward
  <2> QED
    BY <1>4, <2>1 DEF Codings
<1>6. \A i \in Starts(p) \ Ending(p) : ToCome(p)[Onward(p)[i]] < ToCome(p)[i]
  <2> SUFFICES ASSUME NEW i \in Starts(p) \ Ending(p) PROVE ToCome(p)[Onward(p)[i]] < ToCome(p)[i]
    OBVIOUS
  <2> DEFINE o == Onward(p)[i]
  <2>1. o \in 1..Len(p)+1 /\ i \in 1..Len(p)+1 /\ o > i
    BY <1>1, <1>3
  <2>2. ToCome(p)[o] = Len(p) + 1 - o /\ ToCome(p)[i] = Len(p) + 1 - i
    BY <1>1, <2>1 DEF ToCome
  <2>3. Len(p) + 1 - o < Len(p) + 1 - i
    <3> HIDE DEF o
    <3> QED
      BY <1>1, <2>1
  <2> QED
    BY <2>2, <2>3
<1> QED
  BY <1>1, <1>2, <1>5, <1>6 DEF Shrinks

LEMMA LinesAreText ==
  ASSUME NEW p \in Text
  PROVE  /\ \A i \in Starts(p) : LastLine(p, i) \in Text
         /\ \A i \in Starts(p) \ Ending(p) : NextLine(p, i) \in Text
<1>1. Len(p) \in Nat /\ p \in Seq(Letter)
  BY DEF Text
<1>2. ASSUME NEW i \in Starts(p) PROVE LastLine(p, i) \in Text
  BY <1>1 DEF Starts, LastLine, Text
<1>3. ASSUME NEW i \in Starts(p) \ Ending(p) PROVE NextLine(p, i) \in Text
  <2> DEFINE e == LineEnd(p, i)
  <2>1. e \in i..Len(p) /\ i \in 1..Len(p)
    BY LineEnds
  <2> HIDE DEF e
  <2>2. SubSeq(p, i, e - 1) \in Seq(Letter)
    BY <1>1, <2>1
  <2> QED
    BY <2>2 DEF NextLine, Text, e
<1> QED
  BY <1>2, <1>3

LEMMA LineIsText ==
  ASSUME NEW line \in Text, NEW break \in {<<>>, <<"n">>}
  PROVE  RewriteLine(line, break) \in Text
<1>1. PICK h : Blind(h, TRUE)
  BY SomeBlind
<1> QED
  BY <1>1, LineKept

LEMMA EventRuns ==
  ASSUME NEW event \in Text
  PROVE  \E g \in Codings(Starts(event), Text) : Rewrites(event, g) /\ RewriteEvent(event) = g[1]
<1> DEFINE S == Starts(event)
           stop == Ending(event)
           next == Onward(event)
           mu == ToCome(event)
           rest(i) == RewriteLine(LastLine(event, i), <<>>)
           line(i) == RewriteLine(NextLine(event, i), <<"n">>)
           base == [i \in S |-> rest(i)]
           step == [a \in S \X Text |-> IF a[1] \in stop THEN <<>> ELSE line(a[1]) \o a[2]]
           Eq(g) == g = [i \in S |-> IF Breaks(event, i) = {} THEN rest(i) ELSE line(i) \o g[LineEnd(event, i) + 1]]
           from == CHOOSE g : Eq(g)
<1>1. \A i \in S : rest(i) \in Text
  <2>1. \A i \in S : LastLine(event, i) \in Text
    BY LinesAreText
  <2> QED
    BY <2>1, LineIsText
<1>2. \A i \in S \ stop : line(i) \in Text
  <2>1. \A i \in S \ stop : NextLine(event, i) \in Text
    BY LinesAreText
  <2> QED
    BY <2>1, LineIsText
<1>3. /\ mu \in Codings(S, Nat) /\ next \in Codings(S, S) /\ Shrinks(S, mu, next, stop) /\ stop \subseteq S
  BY LinesShrink
<1>4. base \in Codings(S, Text) /\ <<>> \in Text
  <2> HIDE DEF rest, S
  <2> QED
    BY <1>1 DEF Codings, Text
<1>5. step \in Codings(S \X Text, Text)
  <2> HIDE DEF line, stop, S
  <2>1. ASSUME NEW i \in S, NEW v \in Text PROVE (IF i \in stop THEN <<>> ELSE line(i) \o v) \in Text
    BY <1>2, <1>4 DEF Text
  <2> QED
    BY <2>1 DEF Codings
<1>6. PICK f \in Codings(S, Text) : Runs(f, S, base, step, next, stop)
  <2> HIDE DEF mu, next, base, step, stop, S
  <2> QED
    BY <1>3, <1>4, <1>5, TailRecursion
<1>7. \A i \in S : f[i] = IF i \in stop THEN base[i] ELSE step[<<i, f[next[i]]>>]
  <2> HIDE DEF mu, next, base, step, stop, S
  <2> QED
    BY <1>6 DEF Runs
<1>8. \A i \in S : (Breaks(event, i) = {} <=> i \in stop) /\ (i \notin stop => next[i] = LineEnd(event, i) + 1)
  BY DEF Ending, Onward
<1>9. \A i \in S : next[i] \in S /\ f[next[i]] \in Text
  <2> HIDE DEF next, S
  <2> QED
    BY <1>3, <1>6 DEF Codings
<1>10. Eq(f)
  <2>1. ASSUME NEW i \in S
        PROVE  f[i] = IF Breaks(event, i) = {} THEN rest(i) ELSE line(i) \o f[LineEnd(event, i) + 1]
    <3> HIDE DEF rest, line, next, stop, S
    <3>1. CASE i \in stop
      BY <1>7, <1>8, <3>1
    <3>2. CASE i \notin stop
      <4>1. step[<<i, f[next[i]]>>] = line(i) \o f[next[i]]
        BY <1>9, <3>2
      <4> HIDE DEF step
      <4> QED
        BY <1>7, <1>8, <3>2, <4>1
    <3> QED
      BY <3>1, <3>2
  <2>2. f = [i \in S |-> f[i]]
    <3> HIDE DEF S
    <3> QED
      BY <1>6 DEF Codings
  <2> HIDE DEF rest, line, S
  <2> QED
    BY <2>1, <2>2
<1>11. Eq(from)
  <2> HIDE DEF Eq
  <2> QED
    BY <1>10
<1>12. RewriteEvent(event) = from[1]
  BY DEF RewriteEvent, Breaks, LineEnd, LastLine, NextLine, Starts
<1> HIDE DEF from
<1> DEFINE G == {i \in S : from[i] \in Text}
<1>13. \A i \in stop : from[i] = rest(i)
  <2> HIDE DEF rest, line, next
  <2> QED
    BY <1>3, <1>8, <1>11
<1>14. \A i \in S \ stop : from[i] = line(i) \o from[next[i]]
  <2> HIDE DEF rest, line, next, stop
  <2> QED
    BY <1>8, <1>11
<1>15. S \subseteq G
  <2> HIDE DEF line, rest, mu, next, stop, S
  <2>1. stop \cap S \subseteq G
    BY <1>1, <1>13
  <2>2. ASSUME NEW i \in S \ stop, next[i] \in G PROVE i \in G
    <3>1. line(i) \in Text /\ from[next[i]] \in Text /\ i \in S
      BY <1>2, <2>2
    <3>2. line(i) \o from[next[i]] \in Text
      BY <3>1 DEF Text
    <3>3. from[i] = line(i) \o from[next[i]]
      BY <1>14
    <3> QED
      BY <3>1, <3>2, <3>3
  <2> HIDE DEF G
  <2> QED
    BY <1>3, <2>1, <2>2, TailInduction
<1>16. from \in Codings(S, Text)
  <2> HIDE DEF S, rest, line
  <2>1. from = [i \in S |-> from[i]]
    BY <1>11
  <2> QED
    BY <1>15, <2>1 DEF Codings
<1>17. Rewrites(event, from)
  BY <1>13, <1>14 DEF Rewrites
<1> QED
  BY <1>12, <1>16, <1>17

(***************************************************************************)
(* An event whose names are in documents shows none when it is written     *)
(* anew.                                                                   *)
(***************************************************************************)
LEMMA EventRestored ==
  ASSUME NEW event \in Text, LinesLegible(event)
  PROVE  ~Names(RewriteEvent(event))
<1> DEFINE S == Starts(event)
           stop == Ending(event)
           next == Onward(event)
           mu == ToCome(event)
<1>1. PICK g \in Codings(S, Text) : Rewrites(event, g) /\ RewriteEvent(event) = g[1]
  BY EventRuns
<1>2. Len(event) \in Nat /\ S = 1..Len(event)+1
  BY DEF Text, Starts
<1> DEFINE Begun(i) == i > 1 => event[i-1] = "n"
           G == {i \in S : Begun(i) => ~Names(g[i])}
<1>3. ASSUME NEW i \in stop, i \in S PROVE i \in G
  <2>1. SUFFICES ASSUME Begun(i) PROVE ~Names(g[i])
    BY <1>3
  <2>2. IsLine(event, i, Len(event))
    BY <1>2, <1>3, <2>1 DEF IsLine, Ending, Breaks
  <2>3. Legible(LastLine(event, i))
    BY <1>2, <1>3, <2>2 DEF LinesLegible, LastLine
  <2>4. LastLine(event, i) \in Text
    BY <1>3, LinesAreText
  <2>5. ~Names(RewriteLine(LastLine(event, i), <<>>))
    BY <2>3, <2>4, LineRestored
  <2> QED
    BY <1>1, <1>3, <2>5 DEF Rewrites
<1>4. ASSUME NEW i \in S \ stop, next[i] \in G PROVE i \in G
  <2>1. SUFFICES ASSUME Begun(i) PROVE ~Names(g[i])
    BY <1>4
  <2> DEFINE e == LineEnd(event, i)
             o == next[i]
  <2>2. /\ e \in i..Len(event) /\ event[e] = "n" /\ i \in 1..Len(event) /\ \A j \in i..e-1 : event[j] # "n"
        /\ o = e + 1 /\ o \in S
    BY LineEnds
  <2>3. IsLine(event, i, e - 1) /\ e - 1 \in Nat
    <3> HIDE DEF e, o, stop
    <3>1. e - 1 \in i-1..Len(event) /\ (e - 1) + 1 = e /\ e - 1 \in Nat
      BY <1>2, <2>2
    <3> QED
      BY <1>2, <2>1, <2>2, <3>1 DEF IsLine
  <2>4. Legible(NextLine(event, i))
    <3> HIDE DEF e
    <3>1. Legible(SubSeq(event, i, e - 1))
      BY <1>2, <2>3 DEF LinesLegible
    <3> QED
      BY <3>1 DEF NextLine, e
  <2>5. NextLine(event, i) \in Text
    BY LinesAreText
  <2>6. RewriteLine(NextLine(event, i), <<"n">>) \in Text /\ ~Names(RewriteLine(NextLine(event, i), <<"n">>))
    BY <2>4, <2>5, LineRestored
  <2>7. Begun(o) /\ o \in S
    <3> HIDE DEF e, o
    <3>1. o - 1 = e
      BY <1>2, <2>2
    <3> QED
      BY <2>2, <3>1
  <2>8. g[o] \in Text /\ ~Names(g[o])
    <3>1. g[o] \in Text
      BY <1>1, <2>7 DEF Codings
    <3> HIDE DEF o, Begun
    <3>2. ~Names(g[o])
      BY <1>4, <2>7 DEF o
    <3> QED
      BY <3>1, <3>2
  <2>9. g[i] = RewriteLine(NextLine(event, i), <<"n">>) \o g[o]
    BY <1>1 DEF Rewrites
  <2> HIDE DEF o
  <2> QED
    BY <2>6, <2>8, <2>9, NamelessJoin, Zenon
<1>5. S \subseteq G
  <2> HIDE DEF mu, next, stop, S, G
  <2>1. /\ mu \in Codings(S, Nat) /\ next \in Codings(S, S) /\ Shrinks(S, mu, next, stop) /\ stop \subseteq S
    BY LinesShrink DEF S, mu, next, stop
  <2>2. stop \cap S \subseteq G
    BY <1>3
  <2>3. \A i \in S \ stop : next[i] \in G => i \in G
    BY <1>4
  <2> QED
    BY <2>1, <2>2, <2>3, TailInduction
<1>6. 1 \in S /\ Begun(1)
  BY <1>2
<1>7. ~Names(g[1])
  <2> HIDE DEF S, Begun
  <2> QED
    BY <1>5, <1>6
<1> QED
  BY <1>1, <1>7

(***************************************************************************)
(* The lines of a part of a text.                                          *)
(***************************************************************************)
LEMMA PartOfPart ==
  ASSUME NEW t \in Text, NEW k \in 0..Len(t), NEW n \in k..Len(t), NEW i \in 1..n-k+1, NEW e \in i-1..n-k
  PROVE  /\ SubSeq(SubSeq(t, k + 1, n), i, e) = SubSeq(t, k + i, k + e)
         /\ Len(SubSeq(t, k + 1, n)) = n - k /\ \A j \in 1..n-k : SubSeq(t, k + 1, n)[j] = t[k+j]
<1> DEFINE v == SubSeq(t, k + 1, n)
           x == SubSeq(v, i, e)
           y == SubSeq(t, k + i, k + e)
           l == e - i + 1
<1>1. Len(t) \in Nat /\ t \in Seq(Letter) /\ k \in Nat /\ n \in Nat /\ i \in Nat /\ e \in Nat
  BY DEF Text
<1>2. v \in Seq(Letter) /\ Len(v) = n - k /\ \A j \in 1..n-k : v[j] = t[k+j]
  <2>1. v \in Seq(Letter) /\ Len(v) = n - (k + 1) + 1
    BY <1>1
  <2>2. n - (k + 1) + 1 = n - k
    BY <1>1
  <2>3. ASSUME NEW j \in 1..n-k PROVE v[j] = t[k+j]
    <3>1. j \in 1..n-(k+1)+1 /\ (k + 1) + j - 1 = k + j
      BY <1>1
    <3>2. v[j] = t[(k + 1) + j - 1]
      BY <1>1, <3>1
    <3> QED
      BY <3>1, <3>2
  <2> QED
    BY <2>1, <2>2, <2>3
<1> HIDE DEF v
<1>3. x \in Seq(Letter) /\ Len(x) = l /\ \A j \in 1..l : x[j] = v[i+j-1]
  BY <1>1, <1>2
<1>4. y \in Seq(Letter) /\ Len(y) = l /\ \A j \in 1..l : y[j] = t[k+i+j-1]
  <2> DEFINE a == k + i
             b == k + e
  <2>1. a \in 1..Len(t)+1 /\ b \in a-1..Len(t) /\ b - a + 1 = l
    BY <1>1
  <2>2. l = b - a + 1
    BY <2>1
  <2> HIDE DEF a, b, l
  <2>3. SubSeq(t, a, b) \in Seq(Letter) /\ Len(SubSeq(t, a, b)) = b - a + 1 /\ \A j \in 1..b-a+1 : SubSeq(t, a, b)[j] = t[a+j-1]
    BY <1>1, <2>1
  <2> QED
    BY <2>2, <2>3 DEF a, b
<1> HIDE DEF x, y
<1>5. ASSUME NEW j \in 1..l PROVE x[j] = y[j]
  <2>1. i + j - 1 \in 1..n-k /\ k + (i + j - 1) = k + i + j - 1
    BY <1>1
  <2>2. x[j] = v[i+j-1] /\ y[j] = t[k+i+j-1]
    BY <1>3, <1>4
  <2>3. v[i+j-1] = t[k+(i+j-1)]
    <3> DEFINE m == i + j - 1
    <3>1. m \in 1..n-k
      BY <2>1
    <3> HIDE DEF m
    <3>2. v[m] = t[k+m]
      BY <1>2, <3>1
    <3> QED
      BY <3>2 DEF m
  <2> QED
    BY <2>1, <2>2, <2>3
<1>6. x = y
  <2> HIDE DEF l
  <2> QED
    BY <1>3, <1>4, <1>5, SeqEqual
<1> QED
  BY <1>2, <1>6 DEF x, y, v

LEMMA LegibleReturn ==
  ASSUME NEW line \in Text, Legible(line \o <<"r">>)
  PROVE  Legible(line)
<1>1. SUFFICES ASSUME Names(line) PROVE DataLine(line)
  BY DEF Legible
<1>2. <<"r">> \in Text
  <2>1. "r" \in Letter
    BY Letters, Zenon
  <2> QED
    BY <2>1 DEF Text
<1>3. Names(line \o <<"r">>)
  <2>1. \A p, q \in Text : Names(p) => Names(p \o q)
    BY NamesJoin, Zenon
  <2> QED
    BY <1>1, <1>2, <2>1, Zenon
<1>4. DataLine(line \o <<"r">>)
  BY <1>3 DEF Legible
<1> QED
  BY <1>4, ReturnIsBlank

LEMMA DelimiterShown ==
  ASSUME NEW t \in Text, Delimiter(t).text # <<>>
  PROVE  Shows(t, Delimiter(t).at, Delimiter(t).text)
<1>1. \E k, b : Shows(t, k, b)
  <2>1. [at |-> 0, text |-> <<>>].text = <<>>
    OBVIOUS
  <2> QED
    BY <2>1, DelimiterIsFirst
<1> QED
  BY <1>1, DelimiterIsFirst DEF FirstShown

DelimitedAt(t, a, k) ==
  /\ a \in Nat /\ k \in Nat /\ a < k /\ k <= Len(t) /\ t[k] = "n"
  /\ t[a+1] = "n" \/ (t[a+1] = "r" /\ t[a+2] = "n" /\ a + 2 <= k)

LEMMA DelimiterParts ==
  ASSUME NEW t \in Text, Delimiter(t).text # <<>>
  PROVE  DelimitedAt(t, Delimiter(t).at, Delimiter(t).at + Len(Delimiter(t).text))
<1> DEFINE a == Delimiter(t).at
           b == Delimiter(t).text
<1>1. Shows(t, a, b)
  BY DelimiterShown
<1> HIDE DEF a, b
<1>2. /\ a \in Nat /\ b \in BlankLines /\ a + Len(b) <= Len(t) /\ Len(t) \in Nat
      /\ \A j \in 1..Len(b) : t[a+j] = b[j]
  BY <1>1 DEF Shows, Text
<1>3. CASE b = <<"n", "n">>
  <2>1. Len(b) = 2 /\ b[1] = "n" /\ b[2] = "n"
    BY <1>3
  <2>2. t[a+1] = "n" /\ t[a+2] = "n"
    BY <1>2, <2>1
  <2> QED
    BY <1>2, <2>1, <2>2 DEF DelimitedAt, a, b
<1>4. CASE b = <<"r", "n", "r", "n">>
  <2>1. Len(b) = 4 /\ b[1] = "r" /\ b[2] = "n" /\ b[4] = "n"
    BY <1>4
  <2>2. t[a+1] = "r" /\ t[a+2] = "n" /\ t[a+4] = "n"
    BY <1>2, <2>1
  <2> QED
    BY <1>2, <2>1, <2>2 DEF DelimitedAt, a, b
<1> QED
  BY <1>2, <1>3, <1>4 DEF BlankLines

(***************************************************************************)
(* The lines of an event are lines of its text, and so are those after it. *)
(***************************************************************************)
LEMMA EventLines ==
  ASSUME NEW t \in Text, NEW a, NEW k, DelimitedAt(t, a, k), LinesLegible(t)
  PROVE  SubSeq(t, 1, a) \in Text /\ LinesLegible(SubSeq(t, 1, a))
<1> DEFINE v == SubSeq(t, 1, a)
<1>1. /\ Len(t) \in Nat /\ a \in Nat /\ k \in Nat /\ a < k /\ k <= Len(t) /\ 0 \in 0..Len(t) /\ a \in 0..Len(t)
      /\ 0 + 1 = 1 /\ a - 0 = a
  BY DEF Text, DelimitedAt
<1>2. v \in Text
  BY <1>1 DEF Text
<1>3. ASSUME NEW i \in Nat, NEW e \in Nat, IsLine(v, i, e) PROVE Legible(SubSeq(v, i, e))
  <2>1. \A m \in 1..a-0+1 : \A f \in m-1..a-0 :
           /\ SubSeq(SubSeq(t, 0 + 1, a), m, f) = SubSeq(t, 0 + m, 0 + f)
           /\ Len(SubSeq(t, 0 + 1, a)) = a - 0 /\ \A j \in 1..a-0 : SubSeq(t, 0 + 1, a)[j] = t[0+j]
    BY <1>1, PartOfPart
  <2>2. 1 \in 1..a+1 /\ 0 \in 1-1..a
    BY <1>1
  <2>3. Len(v) = a /\ \A j \in 1..a : v[j] = t[j]
    BY <1>1, <2>1, <2>2
  <2>4. i \in 1..a+1 /\ e \in i-1..a
    BY <1>3, <2>3 DEF IsLine
  <2>5. SubSeq(v, i, e) = SubSeq(t, i, e)
    BY <1>1, <2>1, <2>4
  <2> HIDE DEF v
  <2>6. /\ i > 1 => t[i-1] = "n"
        /\ e < a => t[e+1] = "n"
        /\ \A j \in i..e : t[j] # "n"
    <3>1. i > 1 => i - 1 \in 1..a
      BY <1>1, <2>4
    <3>2. e < a => e + 1 \in 1..a
      BY <1>1, <2>4
    <3>3. \A j \in i..e : j \in 1..a
      BY <1>1, <2>4
    <3> QED
      BY <1>3, <2>3, <3>1, <3>2, <3>3 DEF IsLine
  <2>7. CASE e < a \/ t[a+1] = "n"
    <3>1. e < Len(t) => t[e+1] = "n"
      <4>1. e < a \/ e = a
        BY <1>1, <2>4
      <4> QED
        BY <2>6, <2>7, <4>1
    <3>2. IsLine(t, i, e)
      <4>1. i \in 1..Len(t)+1 /\ e \in i-1..Len(t)
        BY <1>1, <2>4
      <4> QED
        BY <2>6, <3>1, <4>1 DEF IsLine
    <3> QED
      BY <2>5, <3>2 DEF LinesLegible
  <2>8. CASE ~(e < a) /\ t[a+1] # "n"
    <3>1. e = a /\ t[a+1] = "r" /\ t[a+2] = "n" /\ a + 2 <= k
      BY <1>1, <2>4, <2>8 DEF DelimitedAt
    <3>2. IsLine(t, i, a + 1)
      <4>1. i \in 1..Len(t)+1 /\ a + 1 \in i-1..Len(t) /\ (a + 1) + 1 = a + 2
        BY <1>1, <2>4, <3>1
      <4>2. \A j \in i..a+1 : t[j] # "n"
        <5>1. \A j \in i..a+1 : j \in i..a \/ j = a + 1
          BY <1>1, <2>4
        <5> QED
          BY <2>6, <3>1, <5>1
      <4> QED
        BY <2>6, <3>1, <4>1, <4>2 DEF IsLine
    <3>3. Legible(SubSeq(t, i, a + 1))
      BY <1>1, <3>2 DEF LinesLegible
    <3>4. SubSeq(t, i, a) \in Text /\ SubSeq(t, i, a + 1) = SubSeq(t, i, a) \o <<"r">>
      <4> DEFINE x == SubSeq(t, i, a)
                 y == SubSeq(t, i, a + 1)
                 z == x \o <<"r">>
                 l == a - i + 1
      <4>0. "r" \in Letter
        BY Letters, Zenon
      <4>1. i \in 1..a+1 /\ a + 1 <= Len(t) /\ t \in Seq(Letter) /\ l \in Nat
        BY <1>1, <2>4 DEF Text
      <4>2. x \in Seq(Letter) /\ Len(x) = l /\ \A j \in 1..l : x[j] = t[i+j-1]
        BY <1>1, <4>1
      <4>3. y \in Seq(Letter) /\ Len(y) = l + 1 /\ \A j \in 1..l+1 : y[j] = t[i+j-1]
        <5>1. (a + 1) - i + 1 = l + 1
          BY <1>1, <4>1
        <5> QED
          BY <1>1, <4>1, <5>1
      <4>4. i + (l + 1) - 1 = a + 1
        BY <1>1, <4>1
      <4>5. y[l+1] = "r"
        <5>1. l + 1 \in 1..l+1
          BY <4>1
        <5> HIDE DEF l, y
        <5> QED
          BY <3>1, <4>3, <4>4, <5>1
      <4> HIDE DEF x, y, l
      <4>6. z \in Seq(Letter) /\ Len(z) = l + 1 /\ z[l+1] = "r" /\ \A j \in 1..l : z[j] = x[j]
        BY <4>0, <4>1, <4>2
      <4> HIDE DEF z
      <4>7. ASSUME NEW j \in 1..l+1 PROVE y[j] = z[j]
        <5>1. j = l + 1 \/ j \in 1..l
          BY <4>1
        <5> QED
          BY <4>2, <4>3, <4>5, <4>6, <5>1
      <4>8. y = z
        BY <4>3, <4>6, <4>7, SeqEqual
      <4> QED
        BY <4>2, <4>8 DEF Text, x, y, z
    <3>5. Legible(SubSeq(t, i, a))
      BY <3>3, <3>4, LegibleReturn
    <3> QED
      BY <2>5, <3>1, <3>5
  <2> QED
    BY <2>7, <2>8
<1> QED
  BY <1>2, <1>3 DEF LinesLegible

LEMMA LeftLines ==
  ASSUME NEW t \in Text, NEW a, NEW k, DelimitedAt(t, a, k), LinesLegible(t)
  PROVE  SubSeq(t, k + 1, Len(t)) \in Text /\ LinesLegible(SubSeq(t, k + 1, Len(t)))
<1> DEFINE n == Len(t)
           v == SubSeq(t, k + 1, n)
<1>1. n \in Nat /\ k \in 0..n /\ n \in k..n /\ k >= 1 /\ t[k] = "n"
  BY DEF Text, DelimitedAt
<1>2. v \in Text
  BY <1>1 DEF Text
<1>3. ASSUME NEW i \in Nat, NEW e \in Nat, IsLine(v, i, e) PROVE Legible(SubSeq(v, i, e))
  <2>1. \A m \in 1..n-k+1 : \A f \in m-1..n-k :
           /\ SubSeq(SubSeq(t, k + 1, n), m, f) = SubSeq(t, k + m, k + f)
           /\ Len(SubSeq(t, k + 1, n)) = n - k /\ \A j \in 1..n-k : SubSeq(t, k + 1, n)[j] = t[k+j]
    BY <1>1, PartOfPart
  <2> HIDE DEF n
  <2>2. 1 \in 1..n-k+1 /\ 0 \in 1-1..n-k
    BY <1>1
  <2>3. Len(v) = n - k /\ \A j \in 1..n-k : v[j] = t[k+j]
    BY <2>1, <2>2
  <2>4. i \in 1..n-k+1 /\ e \in i-1..n-k
    BY <1>3, <2>3 DEF IsLine
  <2>5. SubSeq(v, i, e) = SubSeq(t, k + i, k + e)
    BY <2>1, <2>4
  <2> HIDE DEF v
  <2>6. k + i \in 1..n+1 /\ k + e \in (k+i)-1..n /\ k + i \in Nat /\ k + e \in Nat
    BY <1>1, <2>4
  <2>7. t[(k+i)-1] = "n"
    <3>1. CASE i = 1
      <4>1. (k + i) - 1 = k
        BY <1>1, <3>1
      <4> QED
        BY <1>1, <4>1
    <3>2. CASE i # 1
      <4>1. i > 1 /\ i - 1 \in 1..n-k /\ k + (i - 1) = (k + i) - 1
        BY <1>1, <2>4, <3>2
      <4>2. v[i-1] = "n"
        BY <1>3, <4>1 DEF IsLine
      <4> QED
        BY <2>3, <4>1, <4>2
    <3> QED
      BY <3>1, <3>2
  <2>8. k + e < n => t[(k+e)+1] = "n"
    <3>1. SUFFICES ASSUME k + e < n PROVE t[(k+e)+1] = "n"
      OBVIOUS
    <3>2. e < n - k /\ e + 1 \in 1..n-k /\ k + (e + 1) = (k + e) + 1
      BY <1>1, <2>4, <3>1
    <3>3. v[e+1] = "n"
      BY <1>3, <2>3, <3>2 DEF IsLine
    <3> QED
      BY <2>3, <3>2, <3>3
  <2>9. ASSUME NEW j \in k+i..k+e PROVE t[j] # "n"
    <3>1. j - k \in i..e /\ j - k \in 1..n-k /\ k + (j - k) = j
      BY <1>1, <2>4
    <3>2. v[j-k] # "n"
      BY <1>3, <3>1 DEF IsLine
    <3> QED
      BY <2>3, <3>1, <3>2
  <2>10. IsLine(t, k + i, k + e)
    BY <2>6, <2>7, <2>8, <2>9 DEF IsLine, n
  <2> QED
    BY <2>5, <2>6, <2>10 DEF LinesLegible
<1> QED
  BY <1>2, <1>3 DEF LinesLegible

LEMMA PieceRestored ==
  ASSUME NEW t \in Text, Delimiter(t).text # <<>>, LinesLegible(t)
  PROVE  ~Names(Piece(t)) /\ LinesLegible(Left(t))
<1> DEFINE a == Delimiter(t).at
           b == Delimiter(t).text
           k == a + Len(b)
           event == SubSeq(t, 1, a)
<1>1. DelimitedAt(t, a, k)
  BY DelimiterParts
<1>2. event \in Text /\ LinesLegible(event)
  <2> HIDE DEF a, k
  <2> QED
    BY <1>1, EventLines
<1>3. LinesLegible(SubSeq(t, k + 1, Len(t)))
  <2> HIDE DEF a, k
  <2> QED
    BY <1>1, LeftLines
<1>4. Left(t) = SubSeq(t, k + 1, Len(t)) /\ Piece(t) = RewriteEvent(event) \o b
  BY DEF Left, Piece
<1>5. b \in BlankLines
  BY DelimiterShown DEF Shows
<1> HIDE DEF event, b, a, k
<1>6. RewriteEvent(event) \in Text /\ ~Names(RewriteEvent(event))
  <2>1. PICK h : Blind(h, TRUE)
    BY SomeBlind
  <2> QED
    BY <1>2, <2>1, EventKept, EventRestored
<1>7. b \in Text /\ ~Names(b)
  <2>1. b \in Text
    BY <1>5, BlankIsText
  <2>2. \A c \in BlankLines : ~Names(c)
    BY FixedNames, Zenon
  <2> QED
    BY <1>5, <2>1, <2>2, Zenon
<1>8. ~Names(RewriteEvent(event) \o b)
  BY <1>6, <1>7, NamelessJoin, Zenon
<1> QED
  BY <1>3, <1>4, <1>8, Zenon

(***************************************************************************)
(* The events taken off a text show no name as long as the names of all of *)
(* the text, the part still to come included, are in documents; and so are *)
(* then those of what stays in the buffer.                                 *)
(***************************************************************************)
Restores(p, q) == LinesLegible(p \o q) => ~Names(Out(p)) /\ LinesLegible(Rest(p) \o q)

LEMMA OutRestored ==
  ASSUME NEW p \in Text, NEW q \in Text
  PROVE  Restores(p, q)
<1> DEFINE S == {n \in Nat : \A r \in Text : Len(r) = n => Restores(r, q)}
<1>1. ASSUME NEW n \in Nat, \A m \in 0..n-1 : m \in S PROVE n \in S
  <2>1. SUFFICES ASSUME NEW r \in Text, Len(r) = n PROVE Restores(r, q)
    OBVIOUS
  <2>2. SUFFICES ASSUME LinesLegible(r \o q) PROVE ~Names(Out(r)) /\ LinesLegible(Rest(r) \o q)
    BY Zenon DEF Restores
  <2>3. CASE Delimiter(r).text = <<>>
    <3>1. Rest(r) = r /\ Out(r) = <<>>
      BY <2>3, TakeParts
    <3> QED
      BY <2>2, <3>1, FixedNames, Zenon
  <2>4. CASE Delimiter(r).text # <<>>
    <3>1. /\ Left(r) \in Text /\ Piece(r) \in Text /\ Len(Left(r)) < Len(r)
          /\ Rest(r) = Rest(Left(r)) /\ Out(r) = Piece(r) \o Out(Left(r))
      BY <2>4, TakeParts
    <3>2. Delimiter(r \o q).text # <<>> /\ Piece(r \o q) = Piece(r) /\ Left(r \o q) = Left(r) \o q
      BY <2>4, DelimiterStays, LeftLater
    <3>3. r \o q \in Text
      BY DEF Text
    <3>4. ~Names(Piece(r \o q)) /\ LinesLegible(Left(r \o q))
      BY <2>2, <3>2, <3>3, PieceRestored
    <3>5. Len(Left(r)) \in 0..n-1
      BY <2>1, <3>1 DEF Text
    <3>6. Restores(Left(r), q)
      BY <1>1, <3>1, <3>5
    <3>7. ~Names(Out(Left(r))) /\ LinesLegible(Rest(Left(r)) \o q)
      BY <3>2, <3>4, <3>6, Zenon DEF Restores
    <3>8. Out(Left(r)) \in Text
      BY <3>1, TakeParts
    <3>9. ~Names(Piece(r) \o Out(Left(r)))
      BY <3>1, <3>2, <3>4, <3>7, <3>8, NamelessJoin, Zenon
    <3> QED
      BY <3>1, <3>7, <3>9, Zenon
  <2> QED
    BY <2>3, <2>4
<1>2. Nat \subseteq S
  <2> HIDE DEF S
  <2> QED
    BY <1>1, StrongInduction
<1>3. Len(p) \in S
  BY <1>2 DEF Text
<1> QED
  BY <1>3

LEMMA RestRestored ==
  ASSUME NEW p \in Text, LinesLegible(p)
  PROVE  ~Names(Out(p)) /\ LinesLegible(Rest(p)) /\ ~Names(RewriteEvent(Rest(p)))
<1>1. <<>> \in Text /\ p \o <<>> = p /\ Rest(p) \in Text
  BY TakeParts DEF Text
<1>2. Rest(p) \o <<>> = Rest(p)
  BY <1>1 DEF Text
<1>3. Restores(p, <<>>)
  BY <1>1, OutRestored
<1>4. ~Names(Out(p)) /\ LinesLegible(Rest(p))
  BY <1>1, <1>2, <1>3, Zenon DEF Restores
<1> QED
  BY <1>1, <1>4, EventRestored

(***************************************************************************)
(* The same of what a rewriter gives out that gets the text, or the part   *)
(* of it the upstream has sent, in one chunk.                              *)
(***************************************************************************)
LEMMA AllRestored ==
  ASSUME NEW frame \in BOOLEAN, NEW t \in Text, Begins(t, Fields), LinesLegible(t),
         NEW n \in 0..Len(t), ~All(frame, SubSeq(t, 1, n)).w.over
  PROVE  ~Names(FlattenSeq(All(frame, SubSeq(t, 1, n)).out))
<1> DEFINE p == SubSeq(t, 1, n)
           q == SubSeq(t, n + 1, Len(t))
<1>1. p \in Text /\ q \in Text /\ p \o q = t
  <2>1. t \in Seq(Letter) /\ Len(t) \in Nat
    BY DEF Text
  <2>2. p \in Seq(Letter) /\ q \in Seq(Letter)
    BY <2>1
  <2>3. 1 \in 1..Len(t)+1 /\ n \in 1-1..Len(t) /\ Len(t) \in n..Len(t)
    BY <2>1
  <2>4. SubSeq(t, 1, Len(t)) = p \o q
    BY <2>1, <2>3, ConcatAdjacentSubSeq
  <2>5. SubSeq(t, 1, Len(t)) = t
    BY <2>1, SubSeqFull
  <2> QED
    BY <2>2, <2>4, <2>5 DEF Text
<1>2. (n = 0 => p = <<>>) /\ (n # 0 => n \in 1..Len(t))
  BY DEF Text
<1>3. ASSUME All(frame, p).out = <<>> PROVE ~Names(FlattenSeq(All(frame, p).out))
  BY <1>3, FlattenEmpty, FixedNames, Zenon
<1>4. CASE n = 0
  <2>1. All(frame, <<>>).out = <<>>
    <3>1. All(frame, <<>>) = [w |-> Waiting(frame, <<>>), out |-> <<>>]
      BY AllOfNothing
    <3> QED
      BY <3>1
  <2>2. p = <<>>
    BY <1>2, <1>4
  <2> HIDE DEF p
  <2>3. All(frame, p).out = <<>>
    BY <2>1, <2>2
  <2> QED
    BY <1>3, <2>3 DEF p
<1>5. CASE n # 0 /\ ~IsSSEChunk(p)
  <2>1. IsIncompletePrefix(p)
    BY <1>2, <1>5, FieldParts
  <2>2. All(frame, p).out = <<>>
    BY <1>1, <1>5, <2>1, AllOfHalf
  <2> QED
    BY <1>3, <2>2
<1>6. CASE IsSSEChunk(p)
  <2> HIDE DEF p, q
  <2>1. All(frame, p).out = Take[p].out
    <3>1. ~All(frame, p).w.over
      BY DEF p
    <3> QED
      BY <1>1, <1>6, <3>1, AllOfStream
  <2>2. FlattenSeq(All(frame, p).out) = Out(p)
    BY <2>1 DEF Out
  <2>3. Restores(p, q)
    BY <1>1, OutRestored
  <2>4. ~Names(Out(p))
    BY <1>1, <2>3, Zenon DEF Restores
  <2> QED
    BY <2>2, <2>4, Zenon DEF p
<1> QED
  BY <1>4, <1>5, <1>6

LEMMA WholeField ==
  ASSUME NEW t \in Text, Begins(t, Fields)
  PROVE  IsSSEChunk(t)
<1>1. PICK f \in Fields : IsPrefix(f, t)
  BY DEF Begins
<1>2. f \in Text /\ Len(f) \in {1, 2} /\ f[1] \in {"da", "ev", ":"}
  BY FieldFacts
<1>3. Len(f) <= Len(t) /\ t[1] = f[1] /\ Len(t) \in Nat
  BY <1>1, <1>2, PrefixOf DEF Text
<1>4. t # <<>> /\ t[1] \notin White
  <2>1. t # <<>>
    BY <1>2, <1>3
  <2> QED
    BY <1>2, <1>3, <2>1 DEF White
<1>5. TrimLeft(t, White) = t
  BY <1>4, NoBlankBefore
<1> QED
  BY <1>5 DEF IsSSEChunk, Fields

\* And what it holds at the end of the text.
LEMMA HeldRestored ==
  ASSUME NEW frame \in BOOLEAN, NEW t \in Text, Begins(t, Fields), LinesLegible(t), ~All(frame, t).w.over
  PROVE  ~Names(FlattenSeq(Flush(All(frame, t).w).out))
<1>1. IsSSEChunk(t)
  BY WholeField
<1>2. All(frame, t).w = Flowing(frame, t)
  BY <1>1, AllOfStream
<1> DEFINE v == Flowing(frame, t)
<1>3. v.pending = <<>> /\ v.buf = Rest(t) /\ v.over = FALSE
  BY DEF Flowing, Rewriter
<1> HIDE DEF v
<1>4. Flush(v).out = IF Rest(t) = <<>> THEN <<>> ELSE <<RewriteEvent(Rest(t))>>
  BY <1>3 DEF Flush, SSEFlush
<1>5. Rest(t) \in Text /\ ~Names(RewriteEvent(Rest(t)))
  BY TakeParts, RestRestored
<1>6. RewriteEvent(Rest(t)) \in Seq(Letter)
  <2>1. PICK h : Blind(h, TRUE)
    BY SomeBlind
  <2> QED
    BY <1>5, <2>1, EventKept DEF Text
<1>7. FlattenSeq(Flush(v).out) = <<>> \/ FlattenSeq(Flush(v).out) = RewriteEvent(Rest(t))
  BY <1>4, <1>6, FlattenOne, FlattenEmpty
<1>8. ~Names(FlattenSeq(Flush(v).out))
  BY <1>5, <1>7, FixedNames, Zenon
<1> QED
  BY <1>2, <1>8, Zenon DEF v

LEMMA AllIsText ==
  ASSUME NEW frame \in BOOLEAN, NEW p \in Text
  PROVE  FlattenSeq(All(frame, p).out) \in Text /\ FlattenSeq(Flush(All(frame, p).w).out) \in Text
<1> DEFINE v == Waiting(frame, <<>>)
           r == Write(v, p)
<1>1. <<>> \in Text
  BY DEF Text
<1>2. Sound(v) /\ v.frame = frame
  <2>1. v \in Rewriters
    BY <1>1, RewriterType DEF Waiting
  <2>2. v.buf = <<>> /\ v.frame = frame /\ v.over = FALSE
    BY DEF Waiting, Rewriter
  <2> HIDE DEF v
  <2> QED
    BY <2>1, <2>2 DEF Sound
<1>3. All(frame, p) = r
  BY NewWaits DEF All
<1> HIDE DEF v
<1>4. \A x \in BOOLEAN : Blind(Kept(x), x)
  BY KeptIsBlind
<1>5. Through(Kept(frame), v, p, r)
  BY <1>2, <1>4, WriteKept
<1> HIDE DEF r
<1>6. Sound(r.w) /\ r.w.frame = frame /\ r.out \in Seq(Text)
  BY <1>2, <1>5 DEF Through
<1>7. Flushed(Kept(frame), r.w, Flush(r.w))
  BY <1>4, <1>6, FlushKept
<1>8. Flush(r.w).out \in Seq(Text)
  BY <1>7 DEF Flushed
<1> QED
  BY <1>1, <1>3, <1>6, <1>8, Pieces

(***************************************************************************)
(* What the client has got of an event stream shows no model name but its  *)
(* own, for every text that can be restored line by line, every way to cut *)
(* it that leaves the rewriter in doubt about no line, every buffer that   *)
(* holds, and whatever fails at the host (rewriteEvent, sseRewriter.Write, *)
(* streamChunkRewriter.Write and Flush).                                   *)
(***************************************************************************)
THEOREM NamesAreRestored == StreamSpec => []NamesRestored
<1>1. PluginSide /\ TextSide /\ ChunkSide => NamesRestored
  <2> SUFFICES ASSUME PluginSide, TextSide, ChunkSide, straight, ~w.over, BeginsWithField,
                      InDocuments(stream.text), ended # "error"
               PROVE  ~Names(emitted)
    BY DEF NamesRestored
  <2> DEFINE t == stream.text
             f == stream.frame
             rest == FlattenSeq(out)
  <2>1. /\ t \in Text /\ f \in BOOLEAN /\ Begins(t, Fields) /\ LinesLegible(t) /\ read \in 0..Len(t)
        /\ emitted \in Text /\ rest \in Text
    <3>1. stream \in Streams /\ out \in Seq(Text) /\ emitted \in Text /\ read \in 0..Len(t)
      BY DEF TextSide
    <3>2. <<>> \in Text
      BY DEF Text
    <3>3. rest \in Text
      BY <3>1, <3>2, Pieces
    <3> QED
      BY <3>1, <3>3, CAll, AllLegible DEF BeginsWithField, Fields
  <2>2. AsOneChunk
    BY DEF ChunkSide
  <2>3. AllRead = All(f, SubSeq(t, 1, read))
    BY DEF AllRead, Before
  <2> HIDE DEF rest, t, f
  <2>4. \A p, q \in Text : Names(p) => Names(p \o q)
    BY NamesJoin, Zenon
  <2>5. CASE ended = "no"
    <3>1. w = AllRead.w /\ emitted \o rest = FlattenSeq(AllRead.out)
      BY <2>2, <2>5 DEF AsOneChunk, rest
    <3>2. ~Names(FlattenSeq(AllRead.out))
      BY <2>1, <2>3, <3>1, AllRestored
    <3> QED
      BY <2>1, <2>4, <3>1, <3>2, Zenon
  <2>6. CASE ended = "done"
    <3>1. read = Len(t) /\ SubSeq(t, 1, read) = t
      <4>1. read = Len(t)
        BY <2>6 DEF TextSide, t
      <4> QED
        BY <2>1, <4>1, SubSeqFull DEF Text
    <3>2. ~AllRead.w.over /\ emitted \o rest = InOneChunk(Before)
      BY <2>2, <2>6 DEF AsOneChunk, rest
    <3>3. InOneChunk(Before) = FlattenSeq(AllRead.out) \o FlattenSeq(Flush(AllRead.w).out)
      BY DEF InOneChunk, AllRead, All
    <3>4. ~Names(FlattenSeq(AllRead.out)) /\ ~Names(FlattenSeq(Flush(AllRead.w).out))
      <4>1. AllRead = All(f, t) /\ ~All(f, t).w.over
        BY <2>3, <3>1, <3>2
      <4> QED
        BY <2>1, <2>3, <3>2, <4>1, AllRestored, HeldRestored
    <3>5. FlattenSeq(AllRead.out) \in Text /\ FlattenSeq(Flush(AllRead.w).out) \in Text
      BY <2>1, <2>3, <3>1, AllIsText
    <3>6. ~Names(InOneChunk(Before))
      BY <3>3, <3>4, <3>5, NamelessJoin, Zenon
    <3> QED
      BY <2>1, <2>4, <3>2, <3>6, Zenon
  <2>7. ended \in {"no", "done"}
    BY DEF PluginSide
  <2> QED
    BY <2>5, <2>6, <2>7
<1>2. StreamSpec => []PluginSide
  BY PluginSideInit, PluginSideStep, PTL DEF StreamSpec
<1>3. StreamSpec => []ChunkSide
  BY ChunkSideInit, ChunkSideStep, TextSideAlways, PTL DEF StreamSpec
<1> QED
  BY <1>1, <1>2, <1>3, TextSideAlways, PTL
=============================================================================
