-------------------------------- MODULE MCMembers --------------------------------
(* Three credentials: DingTalk with a circle of departments, one user more   *)
(* than a list may have and a department that announces page after page,     *)
(* WeCom with a second top, Feishu with a scope and a listing of departments *)
(* of two pages each, and a user in no department whose name no row shows.   *)
EXTENDS MemberPicker

CONSTANTS ding, wecom, feishu, r1, r2

MCKind == ding :> "dingtalk" @@ wecom :> "wecom" @@ feishu :> "feishu"

Nest == 1 :> <<2, 3>> @@ 2 :> <<3>> @@ 3 :> <<>>
Circle == 1 :> <<2>> @@ 2 :> <<1>>
Forest == 1 :> <<>> @@ 2 :> <<>>

u(n) == <<n, "name">>
Crowd == 1 :> <<{u("s")}>> @@ 2 :> <<{u("q")}, {u("t"), <<"q", "">>}>>
Pair == 1 :> <<{u("s")}>> @@ 2 :> <<{u("q"), <<"s", "">>}>>
Nested == 1 :> <<{}>> @@ 2 :> <<{u("s")}>> @@ 3 :> <<{<<"q", "">>}>>

OneScope == <<[depts |-> {2}, users |-> {}]>>
TwoScopes == <<[depts |-> {2}, users |-> {"q"}], [depts |-> {2}, users |-> {}]>>

DirOf(children, rows, scope, endless) ==
  [root |-> 1, children |-> children, pages |-> rows, scope |-> scope,
   below |-> [d \in DOMAIN children |-> <<{}, Below([children |-> children], d)>>],
   names |-> [x \in {"q", "s", "t"} |-> "name"], endless |-> endless]

MCDirectory ==
  ding :> DirOf(Circle, Crowd, OneScope, {<<"users", 2>>}) @@ wecom :> DirOf(Forest, Pair, OneScope, {})
    @@ feishu :> DirOf(Nest, Nested, TwoScopes, {})
=============================================================================
