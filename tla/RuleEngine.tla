----------------------------- MODULE RuleEngine -----------------------------
(***************************************************************************)
(* The rule language of src/main.go: the parser of a rule text, the        *)
(* wildcard matcher with its memo of failed positions, and the chain that  *)
(* takes a model name through a list of rules.                             *)
(*                                                                         *)
(* A text (a model name, a rule) is a sequence of characters.  An entry of *)
(* a parsed rule list is a case operation or a mapping; the tokens of a    *)
(* mapping are literals (texts that are not empty) and numbered captures.  *)
(***************************************************************************)
EXTENDS Integers, Sequences, SequencesExt

CONSTANT IntSpan   \* how many values an int has (2^64 in the program)

ASSUME IntAssumption == IntSpan \in Nat \ {0}

Upper == [a |-> "A", b |-> "B"]

Lit(t) == [lit |-> t, cap |-> 0]
Cap(n) == [lit |-> <<>>, cap |-> n]
IsLit(t) == t.lit # <<>>

CaseEntry(op) == [op |-> op, find |-> <<>>, put |-> <<>>]
Mapping(find, put) == [op |-> "none", find |-> find, put |-> put]

Sub(s, from, to) == SubSeq(s, from + 1, to)
HasPrefixAt(s, pos, t) == pos + Len(t) <= Len(s) /\ Sub(s, pos, pos + Len(t)) = t

\* The members of a set of positions up to n, in order.
InOrder(S, n) == FlattenSeq([i \in 1..n |-> IF i \in S THEN <<i>> ELSE <<>>])
Least(S) == CHOOSE x \in S : \A y \in S : x <= y

(***************************************************************************)
(* A character is escaped when the one before it is a backslash that is    *)
(* not itself escaped.                                                     *)
(***************************************************************************)
Escaped(s) ==
  LET e[i \in 0..Len(s)] == IF i < 2 THEN FALSE ELSE s[i-1] = "\\" /\ ~e[i-1]
  IN  e

(***************************************************************************)
(* A list one of whose members is an error is an error as a whole.         *)
(***************************************************************************)
AllOrNone(parts) == IF \E k \in DOMAIN parts : parts[k] = <<>> THEN <<>> ELSE parts

Between(s, marks) == [k \in 1..Len(marks)-1 |-> SubSeq(s, marks[k] + 1, marks[k+1] - 1)]

(***************************************************************************)
(* splitEscaped: the parts between unescaped separators; <<>> stands for   *)
(* its errors (an empty part, a backslash at the end).                     *)
(***************************************************************************)
SplitEscaped(s, sep) ==
  LET esc      == Escaped(s)
      cuts     == {i \in 1..Len(s) : s[i] = sep /\ ~esc[i]}
      dangling == s # <<>> /\ s[Len(s)] = "\\" /\ ~esc[Len(s)]
  IN  IF dangling THEN <<>>
      ELSE AllOrNone(Between(s, <<0>> \o InOrder(cuts, Len(s)) \o <<Len(s) + 1>>))

(***************************************************************************)
(* findRuleSeparator: the place of the only unescaped "=>", 0 if there is  *)
(* none or more than one.                                                  *)
(***************************************************************************)
\* Mutant of RuleSeparator: an escaped "=>" separates as well.
RuleSeparatorAnywhere(s) ==
  LET at == {i \in 1..Len(s)-1 : s[i] = "=" /\ s[i+1] = ">"}
  IN  IF \E i \in at : at = {i} THEN CHOOSE i \in at : TRUE ELSE 0

RuleSeparator(s) ==
  LET esc == Escaped(s)
      at  == {i \in 1..Len(s)-1 : ~esc[i] /\ s[i] = "=" /\ s[i+1] = ">"}
  IN  IF \E i \in at : at = {i} THEN CHOOSE i \in at : TRUE ELSE 0

(***************************************************************************)
(* What parseFind and parseReplace read at position i: how many            *)
(* characters they take and the token they add; len 0 is an error.         *)
(***************************************************************************)
Piece(n, token) == [len |-> n, token |-> token]

EscapePiece(s, i) ==
  CASE i + 1 > Len(s) -> Piece(0, Lit(<<>>))
    [] i + 1 <= Len(s) /\ s[i+1] \in {"*", ";", "$", "\\"} -> Piece(2, Lit(<<s[i+1]>>))
    [] i + 2 <= Len(s) /\ s[i+1] = "=" /\ s[i+2] = ">" -> Piece(3, Lit(<<"=", ">">>))
    [] OTHER -> Piece(0, Lit(<<>>))

FindPiece(s, i, captures) ==
  CASE s[i] = "\\" -> EscapePiece(s, i)
    [] s[i] = "*"  -> Piece(1, Cap(captures + 1))
    [] OTHER       -> Piece(1, Lit(<<s[i]>>))

Digits == <<"0", "1", "2", "3", "4", "5", "6", "7", "8", "9">>
IsDigit(c) == \E d \in DOMAIN Digits : Digits[d] = c
DigitValue(c) == (CHOOSE d \in DOMAIN Digits : Digits[d] = c) - 1

DigitsAfter(s, i) ==
  LET stops == {j \in i+1..Len(s) : ~IsDigit(s[j])}
  IN  SubSeq(s, i + 1, IF stops = {} THEN Len(s) ELSE Least(stops) - 1)

Numeral(digits) ==
  LET n[k \in 0..Len(digits)] == IF k = 0 THEN 0 ELSE 10 * n[k-1] + DigitValue(digits[k])
  IN  n[Len(digits)]

\* An int: what does not fit comes out at the other end.
AsInt(n) == LET r == n % IntSpan IN IF 2 * r < IntSpan THEN r ELSE r - IntSpan

CapturePiece(digits, captures) ==
  LET n == AsInt(Numeral(digits))
  IN  IF digits # <<>> /\ digits[1] # "0" /\ n # 0 /\ n <= captures
      THEN Piece(Len(digits) + 1, Cap(n))
      ELSE Piece(0, Lit(<<>>))

PutPiece(s, i, captures) ==
  CASE s[i] = "\\" -> EscapePiece(s, i)
    [] s[i] = "$"  -> CapturePiece(DigitsAfter(s, i), captures)
    [] OTHER       -> Piece(1, Lit(<<s[i]>>))

(***************************************************************************)
(* Literal characters collect into one token until a capture flushes them. *)
(***************************************************************************)
AddToken(tokens, t) ==
  IF IsLit(t) /\ tokens # <<>> /\ IsLit(Last(tokens))
  THEN [tokens EXCEPT ![Len(tokens)] = Lit(Last(tokens).lit \o t.lit)]
  ELSE Append(tokens, t)

CaptureTokens(tokens) == FlattenSeq([k \in DOMAIN tokens |-> IF IsLit(tokens[k]) THEN <<>> ELSE <<k>>])
Captures(tokens) == Len(CaptureTokens(tokens))

(***************************************************************************)
(* parseFind and parseReplace (the latter with the number of captures the  *)
(* pattern has), one piece after the other.  The error is <<>>: a parsed   *)
(* side is never empty.                                                    *)
(***************************************************************************)
Reading(at, tokens, failed) == [at |-> at, tokens |-> tokens, failed |-> failed]

PieceAt(s, IsFind, captures, r) ==
  IF IsFind THEN FindPiece(s, r.at, Captures(r.tokens)) ELSE PutPiece(s, r.at, captures)

ReadOn(r, q) ==
  IF q.len = 0 THEN Reading(r.at, r.tokens, TRUE) ELSE Reading(r.at + q.len, AddToken(r.tokens, q.token), FALSE)

ReadPiece(s, IsFind, captures, r) ==
  IF r.failed \/ r.at > Len(s) THEN r ELSE ReadOn(r, PieceAt(s, IsFind, captures, r))

ParseSide(s, IsFind, captures) ==
  LET read[n \in 0..Len(s)] ==
        IF n = 0 THEN Reading(1, <<>>, FALSE) ELSE ReadPiece(s, IsFind, captures, read[n-1])
  IN  IF read[Len(s)].failed THEN <<>> ELSE read[Len(s)].tokens

MappingOf(find, put) == IF find = <<>> \/ put = <<>> THEN <<>> ELSE <<Mapping(find, put)>>

ParseMapping(part, sep) ==
  LET find == ParseSide(SubSeq(part, 1, sep - 1), TRUE, 0)
  IN  IF sep = 0 THEN <<>>
      ELSE MappingOf(find, ParseSide(SubSeq(part, sep + 2, Len(part)), FALSE, Captures(find)))

ParseEntry(part) ==
  CASE part = <<"\\", "a">> -> <<CaseEntry("lower")>>
    [] part = <<"\\", "A">> -> <<CaseEntry("upper")>>
    [] OTHER -> ParseMapping(part, RuleSeparator(part))

(***************************************************************************)
(* parseRules: <<>> when the text is refused.  White space, quotes and     *)
(* control characters are refused anywhere.                                *)
(***************************************************************************)
Refused == {" ", "'"}

ParseRules(raw) ==
  LET parts == SplitEscaped(raw, ";")
  IN  IF \E i \in DOMAIN raw : raw[i] \in Refused THEN <<>>
      ELSE FlattenSeq(AllOrNone([k \in DOMAIN parts |-> ParseEntry(parts[k])]))

-----------------------------------------------------------------------------
(***************************************************************************)
(* tokenMatcher.  Positions count the characters already matched.  A       *)
(* capture may end where the next literal token occurs, tried nearest      *)
(* first; the last capture takes the rest.                                 *)
(***************************************************************************)
NextLit(tokens, ti) ==
  LET later == {k \in ti+1..Len(tokens) : IsLit(tokens[k])}
  IN  IF later = {} THEN <<>> ELSE tokens[Least(later)].lit

Occurrences(s, pos, t) == {e \in pos..Len(s) : HasPrefixAt(s, e, t)}

\* Mutant of CaptureEnds: only the nearest occurrence is tried.
CaptureEndsNearest(s, tokens, ti, pos) ==
  LET next == NextLit(tokens, ti)
      ends == Occurrences(s, pos, next)
  IN  IF next = <<>> THEN {Len(s)} ELSE {e \in ends : e = Least(ends)}

CaptureEnds(s, tokens, ti, pos) ==
  LET next == NextLit(tokens, ti)
  IN  IF next = <<>> THEN {Len(s)} ELSE Occurrences(s, pos, next)

TokenEnds(s, tokens, ti, pos) ==
  IF IsLit(tokens[ti])
  THEN {e \in pos..Len(s) : e = pos + Len(tokens[ti].lit) /\ HasPrefixAt(s, pos, tokens[ti].lit)}
  ELSE CaptureEnds(s, tokens, ti, pos)

(***************************************************************************)
(* The search goes on with the nearest end from a place on.  A pair        *)
(* (token, position) none of whose ends led to a match is not tried again, *)
(* whatever was captured before it.                                        *)
(***************************************************************************)
Attempt(ti, pos, from, failed) == [ti |-> ti, pos |-> pos, from |-> from, failed |-> failed]
Attempts(s, tokens) ==
  [ti : 1..Len(tokens)+1, pos : 0..Len(s), from : 0..Len(s)+1, failed : SUBSET (Nat \X Nat)]

Known(failed, ti, pos) == <<ti, pos>> \in failed
Outcome(ok, caps, failed) == [ok |-> ok, caps |-> caps, failed |-> failed]
Taken(s, token, pos, end) == IF IsLit(token) THEN <<>> ELSE <<Sub(s, pos, end)>>

Match(s, tokens, a, m) ==
  LET ends == {e \in TokenEnds(s, tokens, a.ti, a.pos) : a.from <= e}
      end  == Least(ends)
      r    == m[Attempt(a.ti + 1, end, end, a.failed)]
  IN  IF a.ti > Len(tokens) THEN Outcome(a.pos = Len(s), <<>>, a.failed)
      ELSE IF Known(a.failed, a.ti, a.pos) THEN Outcome(FALSE, <<>>, a.failed)
      ELSE IF ends = {} THEN Outcome(FALSE, <<>>, a.failed \union {<<a.ti, a.pos>>})
      ELSE IF r.ok THEN Outcome(TRUE, Taken(s, tokens[a.ti], a.pos, end) \o r.caps, r.failed)
      ELSE m[Attempt(a.ti, a.pos, end + 1, r.failed)]

MatchTokens(s, tokens) ==
  LET m[a \in Attempts(s, tokens)] == Match(s, tokens, a, m)
  IN  m[Attempt(1, 0, 0, {})]

BuildReplacement(tokens, caps) ==
  FlattenSeq([k \in DOMAIN tokens |-> IF IsLit(tokens[k]) THEN tokens[k].lit ELSE caps[tokens[k].cap]])

ModelCase(s, op) ==
  [i \in DOMAIN s |->
     CASE op = "upper" /\ s[i] \in DOMAIN Upper -> Upper[s[i]]
       [] op = "lower" /\ \E c \in DOMAIN Upper : Upper[c] = s[i] -> CHOOSE c \in DOMAIN Upper : Upper[c] = s[i]
       [] OTHER -> s[i]]

(***************************************************************************)
(* applyRules: one pass, left to right; an entry whose replacement would   *)
(* be empty is skipped.                                                    *)
(***************************************************************************)
Rewritten(acc, put, found) ==
  LET next == BuildReplacement(put, found.caps)
  IN  IF found.ok /\ next # <<>> THEN [model |-> next, matched |-> TRUE] ELSE acc

ApplyEntry(acc, r) ==
  IF r.op # "none" THEN [model |-> ModelCase(acc.model, r.op), matched |-> TRUE]
  ELSE Rewritten(acc, r.put, MatchTokens(acc.model, r.find))

ApplyRules(model, rules) ==
  LET after[n \in 0..Len(rules)] ==
        IF n = 0 THEN [model |-> model, matched |-> FALSE] ELSE ApplyEntry(after[n-1], rules[n])
  IN  after[Len(rules)]

=============================================================================
