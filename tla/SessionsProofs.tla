--------------------------- MODULE SessionsProofs ---------------------------
(***************************************************************************)
(* Proofs about Sessions, for any tabs, browsers and number of tokens:     *)
(* types, one successor per token, chains that stay signed out, cascades   *)
(* that have a cause.                                                      *)
(***************************************************************************)
EXTENDS Sessions, FiniteSetTheorems, TLAPS

-----------------------------------------------------------------------------
(* Types. *)

CallType == [phase : Steps, tok : Tokens \union {NoToken}, new : Tokens \union {NoToken}]

CallTyped(c) ==
    /\ call[c].phase # "idle" => call[c].tok \in Tokens
    /\ call[c].phase \in {"retire", "discard", "answer"} => call[c].new \in Tokens

\* The parts of TypeOK that a step of a refresh can disturb.
TokenType == token \in [Tokens -> Row]
CallsType == call \in [Tabs -> CallType] /\ \A c \in Tabs : CallTyped(c)
RestType ==
    /\ jar \in [Browsers -> Tokens \union {NoToken}]
    /\ suspension \in {"no", "marked", "done"}
    /\ faults \in 0..MaxFaults
    /\ answered \subseteq Tokens /\ ended \subseteq Tokens /\ cascades \subseteq Tokens

\* The type invariant is its parts ...
LEMMA TypeParts == TypeOK <=> TokenType /\ CallsType /\ RestType
BY Zenon DEF TypeOK, TokenType, CallsType, RestType, CallType, CallTyped

\* ... in the next state too.
LEMMA TypePartsNext == TokenType' /\ CallsType' /\ RestType' => TypeOK'
BY Zenon DEF TypeOK, TokenType, CallsType, RestType, CallType, CallTyped

\* The initial states are well typed.
LEMMA TypeInit == Init => TypeOK
<1> SUFFICES ASSUME Init PROVE TypeOK
  OBVIOUS
<1>1. TokenType
  <2>1. Unused \in Row
    BY SessionsAssumption DEF Unused, Row, NoToken
  <2> QED
    BY <2>1 DEF Init, TokenType
<1>2. CallsType
  <2>1. Idle \in CallType
    BY DEF Idle, CallType, Steps
  <2>2. call = [c \in Tabs |-> Idle]
    BY DEF Init
  <2>3. \A c \in Tabs : CallTyped(c)
    BY <2>2 DEF CallTyped, Idle
  <2> QED
    BY <2>1, <2>2, <2>3 DEF CallsType
<1>3. RestType
  BY SessionsAssumption DEF Init, RestType, NoToken
<1> QED
  BY <1>1, <1>2, <1>3, TypeParts

\* Storing and revoking rows keep their types.
LEMMA IssueType ==
  ASSUME TokenType, NEW t \in Tokens, NEW b \in Browsers, NEW line \in SUBSET Tokens,
         Issue(t, b, line)
  PROVE  TokenType'
<1> DEFINE new == [state |-> "live", to |-> NoToken, browser |-> b, line |-> line]
<1>1. new \in Row
  BY DEF Row
<1>2. token' = [token EXCEPT ![t] = new]
  BY DEF Issue
<1> HIDE DEF new
<1> QED
  BY <1>1, <1>2 DEF TokenType

\* Revoking rows, whichever they are.
LEMMA RevokeType ==
  ASSUME TokenType, ended \subseteq Tokens, NEW S, Revoke(S)
  PROVE  TokenType' /\ ended' \subseteq Tokens
<1>1. \A t \in Tokens : [token[t] EXCEPT !.state = "revoked"] \in Row
  BY DEF TokenType, Row
<1>2. TokenType'
  BY <1>1 DEF TokenType, Revoke
<1> QED
  BY <1>2 DEF Revoke, Live

\* So does moving one call on.
LEMMA CallMove ==
  ASSUME CallsType, NEW c \in Tabs, NEW r \in CallType, call' = [call EXCEPT ![c] = r],
         r.phase # "idle" => r.tok \in Tokens,
         r.phase \in {"retire", "discard", "answer"} => r.new \in Tokens
  PROVE  CallsType'
BY DEF CallsType, CallTyped

\* Ending a call, and sending it on to another statement.
LEMMA OverMove ==
  ASSUME CallsType, NEW c \in Tabs, Over(c)
  PROVE  CallsType'
<1>1. Idle \in CallType /\ Idle.phase = "idle"
  BY DEF Idle, CallType, Steps
<1> QED
  BY <1>1, CallMove DEF Over

\* A call at work may go on to a statement that needs no row, or that has
\* one.
LEMMA GotoMove ==
  ASSUME CallsType, NEW c \in Tabs, NEW phase \in Steps, ~At(c, "idle"), Goto(c, phase),
         phase \in {"retire", "discard", "answer"} => call[c].new \in Tokens
  PROVE  CallsType'
<1> DEFINE r == [call[c] EXCEPT !.phase = phase]
<1>1. call[c] \in CallType /\ call[c].tok \in Tokens
  BY DEF CallsType, CallTyped, At
<1>2. r \in CallType /\ r.phase = phase /\ r.tok = call[c].tok /\ r.new = call[c].new
  BY <1>1 DEF CallType
<1>3. call' = [call EXCEPT ![c] = r]
  BY DEF Goto
<1> HIDE DEF r
<1> QED
  BY <1>1, <1>2, <1>3, CallMove

\* A row of the table, and what a call at work holds.
LEMMA RowType ==
  ASSUME TokenType, NEW t \in Tokens
  PROVE  token[t].browser \in Browsers /\ token[t].line \in SUBSET Tokens /\ token[t].to \in Tokens \union {NoToken}
BY DEF TokenType, Row

\* A call that is under way presents a row of the table.
LEMMA WorkType ==
  ASSUME CallsType, NEW c \in Tabs, ~At(c, "idle")
  PROVE  call[c].tok \in Tokens /\ call[c] \in CallType
BY DEF CallsType, CallTyped, At

\* Each statement of a refresh.
LEMMA TypeServe ==
  ASSUME TypeOK, NEW c \in Tabs, Serve(c)
  PROVE  TypeOK'
<1> USE TypeParts, TypePartsNext
<1>0. TokenType /\ CallsType /\ RestType
  OBVIOUS
<1>1. ~At(c, "idle")
  BY Zenon DEF Serve, Read, ReadTenant, End, Mint, Retire, Discard, Cascade, Answer, At
<1>2. call[c].tok \in Tokens /\ call[c] \in CallType
  BY <1>0, <1>1, WorkType
<1>3. CASE Read(c)
  <2>1. TokenType' /\ RestType'
    BY <1>0, <1>3 DEF Read, TokenType, RestType
  <2>2. Goto(c, "tenant") \/ Goto(c, "cascade") \/ Over(c)
    BY <1>3 DEF Read
  <2>3. CallsType'
    BY <2>2, <1>0, <1>1, OverMove, GotoMove DEF Steps
  <2> QED
    BY <2>1, <2>3
<1>4. CASE ReadTenant(c)
  <2>1. TokenType' /\ RestType'
    BY <1>0, <1>4 DEF ReadTenant, TokenType, RestType
  <2>2. Goto(c, "mint") \/ Goto(c, "end")
    BY <1>4 DEF ReadTenant
  <2>3. CallsType'
    BY <2>2, <1>0, <1>1, GotoMove DEF Steps
  <2> QED
    BY <2>1, <2>3
<1>5. CASE End(c)
  <2>1. TokenType' /\ ended' \subseteq Tokens
    BY <1>0, <1>5, RevokeType DEF End, RestType
  <2>2. RestType'
    BY <2>1, <1>0, <1>5 DEF End, RestType
  <2>3. CallsType'
    BY <1>0, <1>5, OverMove DEF End
  <2> QED
    BY <2>1, <2>2, <2>3
<1>6. CASE Mint(c)
  <2>1. RestType'
    BY <1>0, <1>6 DEF Mint, RestType
  <2>2. CASE Over(c) /\ UNCHANGED token
    BY <2>1, <2>2, <1>0, OverMove DEF TokenType
  <2>3. ASSUME NEW t \in Tokens,
               Issue(t, Presented(c).browser, Presented(c).line \union {call[c].tok}),
               call' = [call EXCEPT ![c].phase = "retire", ![c].new = t]
        PROVE  TypeOK'
    <3> DEFINE r == [call[c] EXCEPT !.phase = "retire", !.new = t]
    <3>1. r \in CallType /\ r.tok \in Tokens /\ r.new \in Tokens
      BY <1>2 DEF CallType, Steps
    <3>2. call' = [call EXCEPT ![c] = r]
      BY <2>3
    <3> HIDE DEF r
    <3>3. CallsType'
      BY <3>1, <3>2, <1>0, CallMove
    <3>4. Presented(c).browser \in Browsers /\ Presented(c).line \union {call[c].tok} \in SUBSET Tokens
      BY <1>0, <1>2, RowType DEF Presented
    <3>5. TokenType'
      BY <2>3, <3>4, <1>0, IssueType
    <3> QED
      BY <3>3, <3>5, <2>1
  <2> QED
    BY <2>2, <2>3, <1>6 DEF Mint
<1>7. CASE Retire(c)
  <2>1. call[c].new \in Tokens
    BY <1>0, <1>7 DEF Retire, At, CallsType, CallTyped
  <2>2. TokenType'
    <3>1. CASE UNCHANGED token
      BY <3>1, <1>0 DEF TokenType
    <3>2. CASE token' = [token EXCEPT ![call[c].tok].state = "revoked", ![call[c].tok].to = call[c].new]
      <4> DEFINE r == [token[call[c].tok] EXCEPT !.state = "revoked", !.to = call[c].new]
      <4>0. token[call[c].tok] \in Row
        BY <1>0, <1>2 DEF TokenType
      <4>1. r \in Row
        BY <2>1, <4>0 DEF Row
      <4>2. token' = [token EXCEPT ![call[c].tok] = r]
        BY <3>2, <1>0, <1>2 DEF TokenType
      <4> HIDE DEF r
      <4> QED
        BY <4>1, <4>2, <1>0 DEF TokenType
    <3> QED
      BY <3>1, <3>2, <1>7 DEF Retire
  <2>3. RestType'
    BY <2>1, <1>0, <1>7 DEF Retire, RestType
  <2>4. Goto(c, "answer") \/ Goto(c, "discard")
    BY <1>7 DEF Retire
  <2>5. CallsType'
    BY <2>1, <2>4, <1>0, <1>1, GotoMove DEF Steps
  <2> QED
    BY <2>2, <2>3, <2>5
<1>8. CASE Discard(c)
  <2>1. call[c].new \in Tokens
    BY <1>0, <1>8 DEF Discard, At, CallsType, CallTyped
  <2>2. TokenType'
    <3> DEFINE r == [token[call[c].new] EXCEPT !.state = "deleted"]
    <3>1. r \in Row
      BY <2>1, <1>0 DEF TokenType, Row
    <3>2. token' = [token EXCEPT ![call[c].new] = r]
      BY <1>8 DEF Discard
    <3> HIDE DEF r
    <3> QED
      BY <3>1, <3>2, <1>0 DEF TokenType
  <2>3. RestType'
    BY <1>0, <1>8 DEF Discard, RestType
  <2>4. CallsType'
    BY <1>0, <1>1, <1>8, GotoMove DEF Discard, Steps
  <2> QED
    BY <2>2, <2>3, <2>4
<1>9. CASE Cascade(c)
  <2>1. TokenType' /\ ended' \subseteq Tokens
    BY <1>0, <1>9, RevokeType DEF Cascade, RestType
  <2>2. RestType'
    BY <2>1, <1>0, <1>2, <1>9 DEF Cascade, RestType
  <2>3. CallsType'
    BY <1>0, <1>9, OverMove DEF Cascade
  <2> QED
    BY <2>1, <2>2, <2>3
<1>10. CASE Answer(c)
  <2>1. call[c].new \in Tokens
    BY <1>0, <1>10 DEF Answer, At, CallsType, CallTyped
  <2>2. RestType'
    BY <2>1, <1>0, <1>10 DEF Answer, RestType
  <2>3. CallsType' /\ TokenType'
    BY <1>0, <1>10, OverMove DEF Answer, TokenType
  <2> QED
    BY <2>2, <2>3
<1> QED
  BY <1>3, <1>4, <1>5, <1>6, <1>7, <1>8, <1>9, <1>10 DEF Serve

\* What people and administrators do.
LEMMA TypePeople ==
  ASSUME TypeOK, NEW b \in Browsers, SignIn(b) \/ SignOut(b) \/ SignOutAll(b) \/ SignOutOthers(b)
  PROVE  TypeOK'
<1> USE TypeParts, TypePartsNext
<1>0. TokenType /\ CallsType /\ RestType
  OBVIOUS
<1>1. CASE SignIn(b)
  <2>1. PICK t \in Tokens : Issue(t, b, {}) /\ jar' = [jar EXCEPT ![b] = t]
    BY <1>1 DEF SignIn
  <2>2. TokenType'
    BY <2>1, <1>0, IssueType
  <2>3. CallsType' /\ RestType'
    BY <2>1, <1>0, <1>1 DEF SignIn, CallsType, CallTyped, RestType
  <2> QED
    BY <2>2, <2>3
<1>2. CASE SignOut(b) \/ SignOutAll(b) \/ SignOutOthers(b)
  <2>1. \E S : Revoke(S)
    BY <1>2 DEF SignOut, SignOutAll, SignOutOthers
  <2>2. TokenType' /\ ended' \subseteq Tokens
    BY <2>1, <1>0, RevokeType DEF RestType
  <2>3. jar' \in [Browsers -> Tokens \union {NoToken}]
    BY <1>0, <1>2 DEF SignOut, SignOutAll, SignOutOthers, RestType
  <2>4. UNCHANGED <<call, suspension, faults, answered, cascades>>
    BY <1>2 DEF SignOut, SignOutAll, SignOutOthers
  <2> QED
    BY <2>2, <2>3, <2>4, <1>0 DEF CallsType, CallTyped, RestType
<1> QED
  BY <1>1, <1>2

\* Every step keeps the types.
LEMMA TypeNext == TypeOK /\ [Next]_vars => TypeOK'
<1> SUFFICES ASSUME TypeOK, [Next]_vars PROVE TypeOK'
  OBVIOUS
<1> USE TypeParts, TypePartsNext
<1>0. TokenType /\ CallsType /\ RestType
  OBVIOUS
<1>1. ASSUME NEW b \in Browsers, SignIn(b) \/ SignOut(b) \/ SignOutAll(b) \/ SignOutOthers(b)
      PROVE  TypeOK'
  BY <1>1, TypePeople
<1>2. ASSUME NEW t \in Tokens, RevokeSession(t)
      PROVE  TypeOK'
  BY <1>0, <1>2, RevokeType DEF RevokeSession, CallsType, CallTyped, RestType
<1>3. CASE Suspend \/ Reactivate
  BY <1>0, <1>3 DEF Suspend, Reactivate, TokenType, CallsType, CallTyped, RestType
<1>4. CASE RevokeTenant
  <2>1. TokenType' /\ ended' \subseteq Tokens
    BY <1>0, <1>4, RevokeType DEF RevokeTenant, TokenType, RestType
  <2> QED
    BY <2>1, <1>0, <1>4 DEF RevokeTenant, CallsType, CallTyped, RestType
<1>5. ASSUME NEW c \in Tabs, Send(c)
      PROVE  TypeOK'
  <2> DEFINE r == [phase |-> "read", tok |-> jar[BrowserOf[c]], new |-> NoToken]
  <2>1. jar[BrowserOf[c]] \in Tokens
    BY <1>0, <1>5, SessionsAssumption DEF Send, RestType
  <2>2. r \in CallType /\ r.phase = "read" /\ r.tok \in Tokens
    BY <2>1 DEF CallType, Steps
  <2>3. call' = [call EXCEPT ![c] = r]
    BY <1>5 DEF Send
  <2> HIDE DEF r
  <2>4. CallsType'
    BY <2>2, <2>3, <1>0, CallMove
  <2> QED
    BY <2>4, <1>0, <1>5 DEF Send, TokenType, RestType
<1>6. ASSUME NEW c \in Tabs, Serve(c)
      PROVE  TypeOK'
  BY <1>6, TypeServe
<1>7. ASSUME NEW c \in Tabs, Lose(c)
      PROVE  TypeOK'
  <2>1. CallsType'
    BY <1>0, <1>7, OverMove DEF Lose
  <2> QED
    BY <2>1, <1>0, <1>7, SessionsAssumption DEF Lose, TokenType, RestType
<1>8. CASE UNCHANGED vars
  BY <1>0, <1>8 DEF vars, TokenType, CallsType, CallTyped, RestType
<1> QED
  BY <1>1, <1>2, <1>3, <1>4, <1>5, <1>6, <1>7, <1>8 DEF Next

-----------------------------------------------------------------------------
(* The inductive invariant.  A row is in use once a browser was given it,  *)
(* by a login (an empty line) or by an answer: a row in use has no live    *)
(* ancestor, and a live row in use has none that was signed out.  A row    *)
(* the retiring token links to descends from that token alone.             *)

Stored(t) == token[t].state # "none"
Alive(t) == token[t].state = "live"
InUse(t) == Stored(t) /\ (t \in answered \/ token[t].line = {})

\* Rows are numbered in the order in which they are stored.
InOrder == \A t, u \in Tokens : Stored(t) /\ u < t => Stored(u)

\* The row p was retired for t.
RetiredFor(p, t) == token[p].to = t /\ token[t].line = token[p].line \union {p}

LineOK(t) == \A u \in token[t].line : u < t
FadedOK(t) ==
    /\ Alive(t) => token[t].to = NoToken
    /\ t \in ended => Stored(t) /\ ~Alive(t)
ChainOK(t) ==
    InUse(t) => /\ \A u \in token[t].line : ~Alive(u)
                /\ Alive(t) => token[t].line \intersect ended = {}
AnswerOK(t) == t \in answered => Stored(t) /\ \E p \in Tokens : RetiredFor(p, t)

TokensOK ==
    InOrder /\ \A t \in Tokens : LineOK(t) /\ FadedOK(t) /\ ChainOK(t) /\ AnswerOK(t)

CallOK(c) ==
    /\ ~At(c, "idle") => InUse(call[c].tok)
    /\ call[c].phase \in {"retire", "discard", "answer"} =>
           /\ Stored(call[c].new)
           /\ token[call[c].new].line = token[call[c].tok].line \union {call[c].tok}
    /\ At(c, "answer") => call[c].new \in answered

JarOK(b) == jar[b] # NoToken => InUse(jar[b])

HeldOK == (\A c \in Tabs : CallOK(c)) /\ (\A b \in Browsers : JarOK(b))

IInv == TypeOK /\ TokensOK /\ HeldOK

\* Nobody is signed in at first.
THEOREM InitIInv == Init => IInv
<1> SUFFICES ASSUME Init PROVE IInv
  OBVIOUS
<1>1. TypeOK
  BY TypeInit
<1>2. TokensOK
  BY DEF Init, TokensOK, InOrder, LineOK, FadedOK, ChainOK, AnswerOK, InUse, Stored, Alive, Unused
<1>3. HeldOK
  BY DEF Init, HeldOK, CallOK, JarOK, At, Idle
<1> QED
  BY <1>1, <1>2, <1>3 DEF IInv

\* Rows are kept: what is stored stays stored, with its line and its answer.
Kept ==
    \A t \in Tokens : Stored(t) =>
        /\ Stored(t)'
        /\ token'[t].line = token[t].line
        /\ t \in answered => t \in answered'

\* Rows fade: they may only stop being live, and are then ended or not.
Faded ==
    /\ answered' = answered
    /\ \A t \in Tokens :
        /\ token'[t].line = token[t].line
        /\ token'[t].to = token[t].to
        /\ Stored(t)' <=> Stored(t)
        /\ Alive(t)' => Alive(t)
        /\ t \in ended' => t \in ended \/ (Alive(t) /\ ~Alive(t)')

\* Rows in use stay in use.
LEMMA KeptInUse ==
  ASSUME Kept, NEW t \in Tokens, InUse(t)
  PROVE  InUse(t)'
BY DEF Kept, InUse, Stored

\* What fades is kept.
LEMMA FadedKept == Faded => Kept
BY DEF Faded, Kept

\* Fading rows stay in order.
LEMMA FadedOrder ==
  ASSUME IInv, Faded
  PROVE  TokensOK'
<1>0. TokenType /\ RestType /\ TokenType
  BY TypeParts DEF IInv
<1>1. InOrder'
  BY DEF IInv, TokensOK, InOrder, Faded
<1>2. ASSUME NEW t \in Tokens
      PROVE  (LineOK(t) /\ FadedOK(t) /\ ChainOK(t) /\ AnswerOK(t))'
  <2>0. LineOK(t) /\ FadedOK(t) /\ ChainOK(t) /\ AnswerOK(t)
    BY DEF IInv, TokensOK
  <2>1. LineOK(t)'
    BY <2>0 DEF Faded, LineOK
  <2>2. FadedOK(t)'
    BY <2>0 DEF Faded, FadedOK, Stored, Alive
  <2>3. InUse(t)' => InUse(t)
    BY DEF Faded, InUse
  <2>4. token[t].line \subseteq Tokens
    BY <1>0, RowType
  <2>5. ChainOK(t)'
    BY <2>0, <2>3, <2>4 DEF Faded, ChainOK
  <2>6. AnswerOK(t)'
    BY <2>0 DEF Faded, AnswerOK, RetiredFor
  <2> QED
    BY <2>1, <2>2, <2>5, <2>6
<1> QED
  BY <1>1, <1>2 DEF TokensOK

\* Revoking rows only makes them fade.
LEMMA RevokeFades ==
  ASSUME IInv, NEW S, Revoke(S), answered' = answered
  PROVE  Faded
<1>0. TokenType
  BY TypeParts DEF IInv
<1>1. ASSUME NEW t \in Tokens
      PROVE  /\ token'[t].line = token[t].line
             /\ token'[t].to = token[t].to
             /\ Stored(t)' <=> Stored(t)
             /\ Alive(t)' => Alive(t)
             /\ t \in ended' => t \in ended \/ (Alive(t) /\ ~Alive(t)')
  <2>1. token[t] \in Row
    BY <1>0 DEF TokenType
  <2>2. CASE t \in S /\ token[t].state = "live"
    <3>1. token'[t] = [token[t] EXCEPT !.state = "revoked"]
      BY <2>2 DEF Revoke
    <3> QED
      BY <2>1, <2>2, <3>1 DEF Row, Stored, Alive
  <2>3. CASE ~(t \in S /\ token[t].state = "live")
    <3>1. token'[t] = token[t]
      BY <2>3 DEF Revoke
    <3> QED
      BY <2>3, <3>1 DEF Revoke, Live, Stored, Alive
  <2> QED
    BY <2>2, <2>3
<1> QED
  BY <1>1 DEF Faded

\* A step that changes no row is a case of it.
LEMMA SameFades == UNCHANGED <<token, answered, ended>> => Faded
BY DEF Faded, Stored, Alive

\* A new row, in the line of a row in use that has left its call.
LEMMA IssueOrder ==
  ASSUME IInv, NEW t \in Tokens, NEW b \in Browsers, NEW line \in SUBSET Tokens, Issue(t, b, line),
         UNCHANGED <<answered, ended>>,
         line = {} \/ \E k \in Tokens : Stored(k) /\ line = token[k].line \union {k}
  PROVE  TokensOK' /\ Kept /\ Stored(t)' /\ token'[t].line = line
<1>0. TokenType /\ RestType
  BY TypeParts DEF IInv
<1>1. /\ token'[t] = [state |-> "live", to |-> NoToken, browser |-> b, line |-> line]
      /\ \A u \in Tokens \ {t} : token'[u] = token[u]
  BY <1>0 DEF Issue, TokenType
<1>2. ~Stored(t) /\ \A u \in Tokens : u < t => Stored(u)
  BY DEF Issue, Stored
<1>3. \A u \in Tokens \ {t} : (Stored(u)' <=> Stored(u)) /\ (Alive(u)' <=> Alive(u))
  BY <1>1 DEF Stored, Alive
<1>4. Stored(t)' /\ token'[t].line = line /\ token'[t].to = NoToken
  BY <1>1 DEF Stored
<1>5. Kept
  BY <1>1, <1>2, <1>3 DEF Kept
<1>6. \A u \in line : u < t
  <2>1. ASSUME NEW k \in Tokens, Stored(k), line = token[k].line \union {k}
        PROVE  \A u \in line : u < t
    <3>1. k < t
      BY <1>2, <2>1 DEF IInv, TokensOK, InOrder, Tokens
    <3>2. \A u \in token[k].line : u < k
      BY DEF IInv, TokensOK, LineOK
    <3>3. token[k].line \subseteq Tokens
      BY <1>0, RowType
    <3> QED
      BY <2>1, <3>1, <3>2, <3>3 DEF Tokens
  <2> QED
    BY <2>1
<1>7. InOrder'
  BY <1>2, <1>3, <1>4 DEF IInv, TokensOK, InOrder, Tokens
<1>8. t \notin answered /\ t \notin ended
  BY <1>2 DEF IInv, TokensOK, AnswerOK, FadedOK
<1>9. ASSUME NEW u \in Tokens
      PROVE  (LineOK(u) /\ FadedOK(u) /\ ChainOK(u) /\ AnswerOK(u))'
  <2>0. LineOK(u) /\ FadedOK(u) /\ ChainOK(u) /\ AnswerOK(u)
    BY DEF IInv, TokensOK
  <2>1. CASE u = t
    <3>1. LineOK(u)'
      BY <2>1, <1>4, <1>6 DEF LineOK
    <3>2. FadedOK(u)'
      BY <2>1, <1>4, <1>8 DEF FadedOK
    <3>3. InUse(u)' => line = {}
      BY <2>1, <1>4, <1>8 DEF InUse
    <3>4. ChainOK(u)'
      BY <2>1, <1>4, <3>3 DEF ChainOK
    <3>5. AnswerOK(u)'
      BY <2>1, <1>8 DEF AnswerOK
    <3> QED
      BY <3>1, <3>2, <3>4, <3>5
  <2>2. CASE u # t
    <3>1. token'[u] = token[u] /\ (Stored(u)' <=> Stored(u)) /\ (Alive(u)' <=> Alive(u))
      BY <2>2, <1>1, <1>3
    <3>2. LineOK(u)' /\ FadedOK(u)'
      BY <2>0, <3>1 DEF LineOK, FadedOK
    <3>3. InUse(u)' <=> InUse(u)
      BY <3>1 DEF InUse
    <3>4. token[u].line \subseteq Tokens
      BY <1>0, RowType
    <3>5. Stored(u) => t \notin token[u].line
      BY <2>0, <1>2, <2>2, <3>4 DEF LineOK, Tokens, IInv, TokensOK, InOrder
    <3>6. ChainOK(u)'
      BY <2>0, <1>3, <3>1, <3>3, <3>4, <3>5 DEF ChainOK, InUse
    <3>7. AnswerOK(u)'
      <4>1. CASE u \in answered
        <5>1. PICK p \in Tokens : RetiredFor(p, u)
          BY <2>0, <4>1 DEF AnswerOK
        <5>2. p # t
          BY <5>1, <4>1, <2>0, <3>5, <1>2 DEF RetiredFor, AnswerOK
        <5> QED
          BY <5>1, <5>2, <2>0, <4>1, <1>1, <3>1 DEF RetiredFor, AnswerOK
      <4> QED
        BY <4>1 DEF AnswerOK
    <3> QED
      BY <3>2, <3>6, <3>7
  <2> QED
    BY <2>1, <2>2
<1> QED
  BY <1>4, <1>5, <1>7, <1>9 DEF TokensOK

-----------------------------------------------------------------------------
(* The calls and the cookie jars hold on to rows that are kept. *)

\* A call, or a jar, a step leaves alone.
LEMMA CallKept ==
  ASSUME IInv, Kept, NEW c \in Tabs, call'[c] = call[c] \/ call'[c] = Idle
  PROVE  CallOK(c)'
<1>0. CallsType /\ TokenType
  BY TypeParts DEF IInv
<1>1. CASE call'[c] = Idle
  BY <1>1 DEF CallOK, At, Idle
<1>2. CASE call'[c] = call[c] /\ ~At(c, "idle")
  <2>1. CallOK(c)
    BY DEF IInv, HeldOK
  <2>2. PICK k \in Tokens : k = call[c].tok
    BY <1>0, <1>2, WorkType
  <2>3. InUse(k) /\ InUse(k)' /\ token'[k].line = token[k].line
    BY <2>1, <2>2, <1>2, KeptInUse DEF CallOK, Kept, InUse
  <2>4. CASE call[c].phase \in {"retire", "discard", "answer"}
    <3>1. PICK n \in Tokens : n = call[c].new
      BY <2>4, <1>0 DEF CallsType, CallTyped
    <3>2. Stored(n) /\ token[n].line = token[k].line \union {k} /\ (At(c, "answer") => n \in answered)
      BY <2>1, <2>2, <2>4, <3>1 DEF CallOK
    <3>3. Stored(n)' /\ token'[n].line = token'[k].line \union {k} /\ (At(c, "answer") => n \in answered')
      BY <2>3, <3>2 DEF Kept
    <3> QED
      BY <2>2, <2>3, <3>1, <3>3, <1>2 DEF CallOK, At, Stored, InUse
  <2>5. CASE call[c].phase \notin {"retire", "discard", "answer"}
    BY <2>2, <2>3, <2>5, <1>2 DEF CallOK, At, InUse, Stored
  <2> QED
    BY <2>4, <2>5
<1>3. CASE call'[c] = call[c] /\ At(c, "idle")
  BY <1>3 DEF CallOK, At
<1> QED
  BY <1>1, <1>2, <1>3

\* A jar left alone, or cleared.
LEMMA JarKept ==
  ASSUME IInv, Kept, NEW b \in Browsers, jar'[b] = jar[b] \/ jar'[b] = NoToken
  PROVE  JarOK(b)'
<1>0. RestType
  BY TypeParts DEF IInv
<1>1. CASE jar'[b] = NoToken
  BY <1>1 DEF JarOK
<1>2. CASE jar'[b] = jar[b] /\ jar[b] # NoToken
  <2>1. PICK t \in Tokens : t = jar[b]
    BY <1>0, <1>2 DEF RestType
  <2>2. InUse(t)'
    BY <2>1, <1>2, KeptInUse DEF IInv, HeldOK, JarOK
  <2> QED
    BY <1>2, <2>1, <2>2 DEF JarOK, InUse, Stored
<1> QED
  BY <1>1, <1>2

\* All calls and jars at once.
LEMMA AllKept ==
  ASSUME IInv, Kept,
         \A c \in Tabs : call'[c] = call[c] \/ call'[c] = Idle,
         \A b \in Browsers : jar'[b] = jar[b] \/ jar'[b] = NoToken
  PROVE  HeldOK'
BY CallKept, JarKept DEF HeldOK

\* A step of the call c.
LEMMA OthersKept ==
  ASSUME IInv, Kept, NEW c \in Tabs, CallOK(c)', jar' = jar,
         \A d \in Tabs \ {c} : call'[d] = call[d]
  PROVE  HeldOK'
BY CallKept, JarKept DEF HeldOK

\* One call moves, the others do not.
LEMMA MovedCall ==
  ASSUME CallsType, NEW c \in Tabs, NEW r, call' = [call EXCEPT ![c] = r]
  PROVE  call'[c] = r /\ \A d \in Tabs \ {c} : call'[d] = call[d]
BY DEF CallsType

\* A call that ends leaves the others alone.
LEMMA OverKept ==
  ASSUME CallsType, NEW c \in Tabs, Over(c)
  PROVE  \A d \in Tabs : call'[d] = call[d] \/ call'[d] = Idle
BY DEF CallsType, Over

\* A call that moves on keeps its rows.
LEMMA WentTo ==
  ASSUME CallsType, NEW c \in Tabs, NEW phase, Goto(c, phase)
  PROVE  /\ call'[c].phase = phase /\ call'[c].tok = call[c].tok /\ call'[c].new = call[c].new
         /\ \A d \in Tabs \ {c} : call'[d] = call[d]
BY DEF CallsType, CallType, Goto

\* A call that goes on without a new row.
LEMMA WentOn ==
  ASSUME IInv, Kept, NEW c \in Tabs, NEW phase \in {"tenant", "mint", "end", "cascade"},
         ~At(c, "idle"), Goto(c, phase), jar' = jar
  PROVE  HeldOK'
<1>0. CallsType
  BY TypeParts DEF IInv
<1>1. PICK k \in Tokens : k = call[c].tok
  BY <1>0, WorkType
<1>2. InUse(k)'
  BY <1>1, KeptInUse DEF IInv, HeldOK, CallOK
<1>3. /\ call'[c].phase = phase /\ call'[c].tok = call[c].tok
      /\ \A d \in Tabs \ {c} : call'[d] = call[d]
  BY <1>0, WentTo
<1>4. CallOK(c)'
  BY <1>1, <1>2, <1>3 DEF CallOK, At, InUse, Stored
<1> QED
  BY <1>3, <1>4, OthersKept

-----------------------------------------------------------------------------
(* The statements of a refresh that change rows. *)

\* The minted row descends from the row presented, and is not in use yet.
LEMMA MintOK ==
  ASSUME IInv, NEW c \in Tabs, Mint(c)
  PROVE  TokensOK' /\ HeldOK'
<1>0. CallsType /\ TokenType
  BY TypeParts DEF IInv
<1>1. ~At(c, "idle") /\ UNCHANGED <<jar, answered, ended>>
  BY DEF Mint, At
<1>2. call[c].tok \in Tokens /\ call[c] \in CallType /\ InUse(call[c].tok)
  BY <1>0, <1>1, WorkType DEF IInv, HeldOK, CallOK
<1>3. CASE Over(c) /\ UNCHANGED token
  <2>1. Faded
    BY <1>1, <1>3, SameFades
  <2> QED
    BY <2>1, <1>0, <1>1, <1>3, FadedOrder, FadedKept, OverKept, AllKept
<1>4. ASSUME NEW t \in Tokens,
             Issue(t, Presented(c).browser, Presented(c).line \union {call[c].tok}),
             call' = [call EXCEPT ![c].phase = "retire", ![c].new = t]
      PROVE  TokensOK' /\ HeldOK'
  <2> DEFINE line == Presented(c).line \union {call[c].tok}
             r == [call[c] EXCEPT !.phase = "retire", !.new = t]
  <2>1. Presented(c).browser \in Browsers /\ line \in SUBSET Tokens
    BY <1>0, <1>2, RowType DEF Presented
  <2>2. \E k \in Tokens : Stored(k) /\ line = token[k].line \union {k}
    BY <1>2 DEF Presented, InUse
  <2>3. TokensOK' /\ Kept /\ Stored(t)' /\ token'[t].line = line
    <3> HIDE DEF line
    <3>1. Issue(t, Presented(c).browser, line)
      BY <1>4 DEF line
    <3> QED
      BY <3>1, <2>1, <2>2, <1>1, IssueOrder
  <2>4. call' = [call EXCEPT ![c] = r]
    BY <1>4
  <2>5. r.phase = "retire" /\ r.tok = call[c].tok /\ r.new = t
    BY <1>2 DEF CallType
  <2> HIDE DEF r
  <2>6. call'[c] = r /\ \A d \in Tabs \ {c} : call'[d] = call[d]
    BY <2>4, <1>0, MovedCall
  <2>7. PICK k \in Tokens : k = call[c].tok
    BY <1>2
  <2>8. InUse(k)' /\ token'[k].line = token[k].line
    BY <2>3, <2>7, <1>2, KeptInUse DEF Kept, InUse
  <2>9. CallOK(c)'
    BY <2>3, <2>5, <2>6, <2>7, <2>8 DEF CallOK, At, InUse, Stored, Presented
  <2> QED
    BY <2>3, <2>6, <2>9, <1>1, OthersKept
<1> QED
  BY <1>3, <1>4 DEF Mint

\* Retiring the presented row puts the minted one in use: its ancestors are
\* dead now, and none was signed out.
LEMMA RetireOK ==
  ASSUME IInv, NEW c \in Tabs, Retire(c)
  PROVE  TokensOK' /\ HeldOK'
<1>0. CallsType /\ TokenType /\ RestType
  BY TypeParts DEF IInv
<1>1. ~At(c, "idle") /\ At(c, "retire") /\ UNCHANGED <<jar, ended>>
  BY DEF Retire, At
<1>2. PICK k \in Tokens, n \in Tokens : k = call[c].tok /\ n = call[c].new
  BY <1>0, <1>1, WorkType DEF CallsType, CallTyped, At
<1>3. InUse(k) /\ Stored(n) /\ token[n].line = token[k].line \union {k}
  BY <1>1, <1>2 DEF IInv, HeldOK, CallOK, At
<1>4. CASE Goto(c, "discard") /\ UNCHANGED <<token, answered>>
  <2>1. Faded
    BY <1>1, <1>4, SameFades
  <2>2. TokensOK' /\ Kept
    BY <2>1, FadedOrder, FadedKept
  <2>3. /\ call'[c].phase = "discard" /\ call'[c].tok = k /\ call'[c].new = n
        /\ \A d \in Tabs \ {c} : call'[d] = call[d]
    BY <1>0, <1>2, <1>4, WentTo
  <2>4. CallOK(c)'
    BY <2>3, <1>3, <1>4 DEF CallOK, At, InUse, Stored
  <2> QED
    BY <2>2, <2>3, <2>4, <1>1, OthersKept
<1>5. CASE /\ token[k].state = "live"
           /\ token' = [token EXCEPT ![k].state = "revoked", ![k].to = n]
           /\ answered' = answered \union {n}
           /\ Goto(c, "answer")
  <2>1. /\ token'[k].state = "revoked" /\ token'[k].to = n /\ token'[k].line = token[k].line
        /\ \A u \in Tokens \ {k} : token'[u] = token[u]
    <3>1. token[k] \in Row
      BY <1>0, <1>2 DEF TokenType
    <3>2. token' = [token EXCEPT ![k] = [token[k] EXCEPT !.state = "revoked", !.to = n]]
      BY <1>5, <1>0, <1>2 DEF TokenType
    <3> QED
      BY <3>1, <3>2, <1>0, <1>2 DEF TokenType, Row
  <2>2. Alive(k) /\ ~Alive(k)' /\ Stored(k) /\ Stored(k)'
    BY <1>5, <2>1 DEF Alive, Stored
  <2>3. \A u \in Tokens : /\ Stored(u)' <=> Stored(u)
                          /\ Alive(u)' <=> Alive(u) /\ u # k
                          /\ token'[u].line = token[u].line
    BY <2>1, <2>2 DEF Alive, Stored
  <2>4. Kept
    BY <2>3, <1>5 DEF Kept
  <2>5. LineOK(k) /\ FadedOK(k) /\ ChainOK(k)
    BY <1>2 DEF IInv, TokensOK
  <2>6. k # n
    BY <1>2, <1>3 DEF IInv, TokensOK, LineOK, Tokens
  <2>7. InOrder'
    BY <2>3 DEF IInv, TokensOK, InOrder
  <2>8. ASSUME NEW u \in Tokens
        PROVE  (LineOK(u) /\ FadedOK(u) /\ ChainOK(u) /\ AnswerOK(u))'
    <3>0. LineOK(u) /\ FadedOK(u) /\ ChainOK(u) /\ AnswerOK(u)
      BY DEF IInv, TokensOK
    <3>1. LineOK(u)'
      BY <3>0, <2>3 DEF LineOK
    <3>2. FadedOK(u)'
      BY <3>0, <2>1, <2>3, <1>1 DEF FadedOK
    <3>3. token[u].line \subseteq Tokens
      BY <1>0, RowType
    <3>4. ChainOK(u)'
      <4>1. CASE u = n
        <5>1. \A v \in token[n].line : ~Alive(v)'
          BY <4>1, <3>3, <2>3, <2>5, <1>3, <2>2 DEF ChainOK
        <5>2. token[n].line \intersect ended = {}
          BY <1>3, <2>2, <2>5 DEF ChainOK, FadedOK
        <5> QED
          BY <4>1, <5>1, <5>2, <2>3, <1>1 DEF ChainOK
      <4>2. CASE u # n
        <5>1. InUse(u)' => InUse(u)
          BY <4>2, <2>3, <1>5 DEF InUse
        <5> QED
          BY <5>1, <3>0, <3>3, <2>3, <1>1 DEF ChainOK
      <4> QED
        BY <4>1, <4>2
    <3>5. AnswerOK(u)'
      <4>1. CASE u = n
        <5>1. RetiredFor(k, n)'
          BY <2>1, <2>3, <1>2, <1>3 DEF RetiredFor
        <5> QED
          BY <4>1, <5>1, <1>2, <1>3, <2>3 DEF AnswerOK, RetiredFor
      <4>2. CASE u # n /\ u \in answered
        <5>1. PICK p \in Tokens : RetiredFor(p, u)
          BY <3>0, <4>2 DEF AnswerOK
        <5>2. p # k
          BY <5>1, <2>2, <2>5 DEF RetiredFor, FadedOK, NoToken, Tokens
        <5>3. RetiredFor(p, u)'
          BY <5>1, <5>2, <2>1, <2>3 DEF RetiredFor
        <5> QED
          BY <5>3, <3>0, <2>3, <4>2 DEF AnswerOK, RetiredFor
      <4>3. CASE u # n /\ u \notin answered
        BY <4>3, <1>5 DEF AnswerOK
      <4> QED
        BY <4>1, <4>2, <4>3
    <3> QED
      BY <3>1, <3>2, <3>4, <3>5
  <2>9. TokensOK'
    BY <2>7, <2>8 DEF TokensOK
  <2>10. /\ call'[c].phase = "answer" /\ call'[c].tok = k /\ call'[c].new = n
         /\ \A d \in Tabs \ {c} : call'[d] = call[d]
    BY <1>0, <1>2, <1>5, WentTo
  <2>11. InUse(k)' /\ Stored(n)' /\ token'[n].line = token[k].line \union {k} /\ n \in answered'
    BY <2>3, <2>4, <1>2, <1>3, <1>5, KeptInUse
  <2>12. CallOK(c)'
    BY <2>10, <2>11, <2>3, <1>2 DEF CallOK, At, InUse, Stored
  <2> QED
    BY <2>4, <2>9, <2>10, <2>12, <1>1, OthersKept
<1> QED
  BY <1>2, <1>4, <1>5 DEF Retire, Presented

\* A discarded row was never in use.
LEMMA DiscardOK ==
  ASSUME IInv, NEW c \in Tabs, Discard(c)
  PROVE  TokensOK' /\ HeldOK'
<1> DEFINE n == call[c].new
<1>0. CallsType /\ TokenType
  BY TypeParts DEF IInv
<1>1. ~At(c, "idle") /\ n \in Tokens /\ Stored(n)
  BY <1>0 DEF Discard, At, CallsType, CallTyped, IInv, HeldOK, CallOK
<1> HIDE DEF n
<1>2. UNCHANGED <<jar, answered, ended>> /\ Goto(c, "cascade")
  BY DEF Discard
<1>3. /\ token'[n].state = "deleted" /\ token'[n].to = token[n].to /\ token'[n].line = token[n].line
      /\ \A u \in Tokens \ {n} : token'[u] = token[u]
  <2>1. token[n] \in Row
    BY <1>0, <1>1 DEF TokenType
  <2>2. token' = [token EXCEPT ![n] = [token[n] EXCEPT !.state = "deleted"]]
    BY <1>0, <1>1 DEF Discard, TokenType, n
  <2> QED
    BY <2>1, <2>2, <1>0, <1>1 DEF TokenType, Row
<1>4. Faded
  BY <1>1, <1>2, <1>3 DEF Faded, Stored, Alive
<1> QED
  BY <1>1, <1>2, <1>4, FadedOrder, FadedKept, WentOn

-----------------------------------------------------------------------------
(* Every step keeps the invariant. *)

\* A step that at most revokes rows, ends calls and clears jars.
LEMMA OnlyFades ==
  ASSUME IInv, Faded,
         \A c \in Tabs : call'[c] = call[c] \/ call'[c] = Idle,
         \A b \in Browsers : jar'[b] = jar[b] \/ jar'[b] = NoToken
  PROVE  TokensOK' /\ HeldOK'
BY FadedOrder, FadedKept, AllKept

\* An answered row may be put in a jar.
LEMMA AnswerKeeps ==
  ASSUME IInv, NEW c \in Tabs, Answer(c)
  PROVE  TokensOK' /\ HeldOK'
<1>0. CallsType /\ RestType
  BY TypeParts DEF IInv
<1>1. UNCHANGED <<token, answered, ended>>
  BY DEF Answer
<1>2. Faded
  BY <1>1, SameFades
<1>3. TokensOK' /\ Kept
  BY <1>2, FadedOrder, FadedKept
<1>4. PICK n \in Tokens : n = call[c].new
  BY <1>0 DEF Answer, At, CallsType, CallTyped
<1>5. InUse(n)'
  BY <1>1, <1>4 DEF Answer, At, IInv, HeldOK, CallOK, InUse, Stored
<1>6. \A d \in Tabs : call'[d] = call[d] \/ call'[d] = Idle
  BY <1>0, OverKept DEF Answer
<1>7. ASSUME NEW b \in Browsers
      PROVE  JarOK(b)'
  <2>1. CASE b = BrowserOf[c]
    <3>1. jar'[b] = n
      BY <2>1, <1>0, <1>4 DEF Answer, RestType
    <3> QED
      BY <3>1, <1>5 DEF JarOK, InUse, Stored
  <2>2. CASE b # BrowserOf[c]
    <3>1. jar'[b] = jar[b]
      BY <2>2, <1>0 DEF Answer, RestType
    <3> QED
      BY <3>1, <1>3, JarKept
  <2> QED
    BY <2>1, <2>2
<1> QED
  BY <1>3, <1>6, <1>7, CallKept DEF HeldOK

\* Every statement of a refresh keeps rows, calls and jars in order.
LEMMA ServeKeeps ==
  ASSUME IInv, NEW c \in Tabs, Serve(c)
  PROVE  TokensOK' /\ HeldOK'
<1>0. CallsType
  BY TypeParts DEF IInv
<1>1. CASE Read(c) \/ ReadTenant(c)
  <2>1. ~At(c, "idle") /\ UNCHANGED <<token, answered, ended, jar>>
    BY <1>1 DEF Read, ReadTenant, At
  <2>2. Faded
    BY <2>1, SameFades
  <2>3. Over(c) \/ \E phase \in {"tenant", "mint", "end", "cascade"} : Goto(c, phase)
    BY <1>1 DEF Read, ReadTenant
  <2>4. CASE Over(c)
    BY <2>1, <2>2, <2>4, <1>0, OverKept, OnlyFades
  <2>5. CASE \E phase \in {"tenant", "mint", "end", "cascade"} : Goto(c, phase)
    BY <2>1, <2>2, <2>5, FadedOrder, FadedKept, WentOn
  <2> QED
    BY <2>3, <2>4, <2>5
<1>2. CASE End(c) \/ Cascade(c)
  <2>1. (\E S : Revoke(S)) /\ Over(c) /\ UNCHANGED <<jar, answered>>
    BY <1>2 DEF End, Cascade
  <2>2. Faded
    BY <2>1, RevokeFades
  <2> QED
    BY <2>1, <2>2, <1>0, OverKept, OnlyFades
<1> QED
  BY <1>1, <1>2, MintOK, RetireOK, DiscardOK, AnswerKeeps DEF Serve

\* So does whatever signs somebody in or out.
LEMMA PeopleKeep ==
  ASSUME IInv, NEW b \in Browsers, SignIn(b) \/ SignOut(b) \/ SignOutAll(b) \/ SignOutOthers(b)
  PROVE  TokensOK' /\ HeldOK'
<1>0. RestType
  BY TypeParts DEF IInv
<1>1. CASE SignIn(b)
  <2>1. PICK t \in Tokens : Issue(t, b, {}) /\ jar' = [jar EXCEPT ![b] = t]
    BY <1>1 DEF SignIn
  <2>2. UNCHANGED <<answered, ended, call>>
    BY <1>1 DEF SignIn
  <2>3. TokensOK' /\ Kept /\ Stored(t)' /\ token'[t].line = {}
    BY <2>1, <2>2, IssueOrder
  <2>4. JarOK(b)'
    BY <2>1, <2>3, <1>0 DEF JarOK, RestType, InUse, Stored
  <2>5. \A a \in Browsers \ {b} : jar'[a] = jar[a]
    BY <2>1, <1>0 DEF RestType
  <2> QED
    BY <2>2, <2>3, <2>4, <2>5, CallKept, JarKept DEF HeldOK
<1>2. CASE SignOut(b) \/ SignOutAll(b) \/ SignOutOthers(b)
  <2>1. (\E S : Revoke(S)) /\ UNCHANGED <<call, answered>>
    BY <1>2 DEF SignOut, SignOutAll, SignOutOthers
  <2>2. \A a \in Browsers : jar'[a] = jar[a] \/ jar'[a] = NoToken
    BY <1>0, <1>2 DEF SignOut, SignOutAll, SignOutOthers, RestType
  <2> QED
    BY <2>1, <2>2, RevokeFades, OnlyFades
<1> QED
  BY <1>1, <1>2

\* Every step keeps the invariant.
THEOREM NextIInv == IInv /\ [Next]_vars => IInv'
<1> SUFFICES ASSUME IInv, [Next]_vars PROVE TokensOK' /\ HeldOK'
  BY TypeNext DEF IInv
<1>0. CallsType /\ RestType
  BY TypeParts DEF IInv
<1>1. ASSUME NEW b \in Browsers, SignIn(b) \/ SignOut(b) \/ SignOutAll(b) \/ SignOutOthers(b)
      PROVE  TokensOK' /\ HeldOK'
  BY <1>1, PeopleKeep
<1>2. ASSUME NEW t \in Tokens, RevokeSession(t)
      PROVE  TokensOK' /\ HeldOK'
  BY <1>2, RevokeFades, OnlyFades DEF RevokeSession
<1>3. CASE RevokeTenant
  <2>1. Faded
    BY <1>3, RevokeFades, SameFades DEF RevokeTenant
  <2> QED
    BY <2>1, <1>3, OnlyFades DEF RevokeTenant
<1>4. CASE Suspend \/ Reactivate \/ UNCHANGED vars
  <2>1. UNCHANGED <<token, answered, ended, call, jar>>
    BY <1>4 DEF Suspend, Reactivate, vars
  <2> QED
    BY <2>1, SameFades, OnlyFades
<1>5. ASSUME NEW c \in Tabs, Send(c)
      PROVE  TokensOK' /\ HeldOK'
  <2> DEFINE r == [phase |-> "read", tok |-> jar[BrowserOf[c]], new |-> NoToken]
  <2>1. UNCHANGED <<token, answered, ended, jar>>
    BY <1>5 DEF Send
  <2>2. TokensOK' /\ Kept
    BY <2>1, SameFades, FadedOrder, FadedKept
  <2>3. PICK t \in Tokens : t = jar[BrowserOf[c]] /\ InUse(t)
    BY <1>0, <1>5, SessionsAssumption DEF Send, RestType, IInv, HeldOK, JarOK
  <2>4. InUse(t)'
    BY <2>2, <2>3, KeptInUse
  <2>5. call'[c] = r /\ \A d \in Tabs \ {c} : call'[d] = call[d]
    BY <1>0, <1>5, MovedCall DEF Send
  <2>6. CallOK(c)'
    BY <2>3, <2>4, <2>5 DEF CallOK, At, InUse, Stored
  <2> QED
    BY <2>1, <2>2, <2>5, <2>6, OthersKept
<1>6. ASSUME NEW c \in Tabs, Serve(c)
      PROVE  TokensOK' /\ HeldOK'
  BY <1>6, ServeKeeps
<1>7. ASSUME NEW c \in Tabs, Lose(c)
      PROVE  TokensOK' /\ HeldOK'
  <2>1. Over(c) /\ UNCHANGED <<token, answered, ended, jar>>
    BY <1>7 DEF Lose
  <2> QED
    BY <2>1, <1>0, SameFades, OverKept, OnlyFades
<1> QED
  BY <1>1, <1>2, <1>3, <1>4, <1>5, <1>6, <1>7 DEF Next

\* What is known of every reachable state of the sessions.
THEOREM Inductive == Spec => []IInv
<1>1. Init => IInv
  BY InitIInv
<1>2. IInv /\ [Next]_vars => IInv'
  BY NextIInv
<1> QED
  BY <1>1, <1>2, PTL DEF Spec

-----------------------------------------------------------------------------
(* What browsers may rely on. *)

\* Whatever a token was exchanged for is the row its own row links to.
LEMMA LinkedSuccessor ==
  ASSUME IInv, NEW t \in Tokens, NEW u \in Successors(t)
  PROVE  u = token[t].to
<1>0. TokenType /\ RestType
  BY TypeParts DEF IInv
<1>1. u \in Tokens /\ u \in answered /\ t \in token[u].line /\ token[u].line \ token[t].line = {t}
  BY <1>0 DEF Successors, RestType
<1>2. PICK p \in Tokens : RetiredFor(p, u)
  BY <1>1 DEF IInv, TokensOK, AnswerOK
<1>3. CASE p = t
  BY <1>2, <1>3 DEF RetiredFor
<1>4. CASE p # t
  <2>1. t \in token[p].line /\ p \in token[t].line
    BY <1>1, <1>2, <1>4 DEF RetiredFor
  <2>2. t < p /\ p < t
    BY <2>1 DEF IInv, TokensOK, LineOK
  <2> QED
    BY <2>2 DEF Tokens
<1> QED
  BY <1>3, <1>4

\* No token is ever exchanged for two: the update that retires it is
\* conditional, and a row's successor is the row it links to (refreshToken).
THEOREM NeverTwoSuccessors == Spec => []OneSuccessor
<1>1. IInv => OneSuccessor
  <2> SUFFICES ASSUME IInv, NEW t \in Tokens PROVE Cardinality(Successors(t)) <= 1
    BY DEF OneSuccessor
  <2>1. Successors(t) \subseteq {token[t].to}
    BY LinkedSuccessor
  <2>2. IsFiniteSet({token[t].to}) /\ Cardinality({token[t].to}) = 1
    BY FS_Singleton
  <2>3. Cardinality(Successors(t)) <= Cardinality({token[t].to})
    BY <2>1, <2>2, FS_Subset
  <2> QED
    BY <2>2, <2>3
<1> QED
  BY <1>1, Inductive, PTL

\* A browser's live token never descends from one that was signed out, though
\* refreshes of it were under way when the sign-out came.
THEOREM SignOutHolds == Spec => []SignedOutStaysOut
<1>1. IInv => SignedOutStaysOut
  <2> SUFFICES ASSUME IInv, NEW u \in answered \intersect Live
               PROVE  (token[u].line \union {u}) \intersect ended = {}
    BY DEF SignedOutStaysOut
  <2>1. u \in Tokens /\ Alive(u) /\ u \in answered
    BY DEF Live, Alive
  <2>2. InUse(u)
    BY <2>1 DEF InUse, Stored, Alive
  <2>3. token[u].line \intersect ended = {} /\ u \notin ended
    BY <2>1, <2>2 DEF IInv, TokensOK, ChainOK, FadedOK
  <2> QED
    BY <2>3
<1> QED
  BY <1>1, Inductive, PTL

\* Tokens, cookies and calls are of their types in every reachable state.
THEOREM TypeCorrect == Spec => []TypeOK
<1>1. IInv => TypeOK
  BY DEF IInv
<1> QED
  BY <1>1, Inductive, PTL

-----------------------------------------------------------------------------
(* Cascades have a cause. *)

\* A row was stored in the place of the token t.
Replaced(t) == \E u \in Tokens : Stored(u) /\ t \in token[u].line

\* The tokens that were cascaded on or are about to be, and those that were rotated.
CascadesOK ==
    /\ \A t \in cascades : Replaced(t)
    /\ \A c \in Tabs : At(c, "cascade") => Replaced(call[c].tok)
    /\ \A t \in Tokens : token[t].to # NoToken => Replaced(t)

\* No step takes back a row, or its line.
LEMMA RowsStay ==
  ASSUME IInv, [Next]_vars
  PROVE  \A u \in Tokens : Stored(u) => Stored(u)' /\ token'[u].line = token[u].line
<1>0. TokenType /\ CallsType
  BY TypeParts DEF IInv
<1> SUFFICES ASSUME NEW u \in Tokens, Stored(u) PROVE Stored(u)' /\ token'[u].line = token[u].line
  OBVIOUS
<1>1. ASSUME NEW S, Revoke(S) PROVE Stored(u)' /\ token'[u].line = token[u].line
  BY <1>0, <1>1 DEF Revoke, TokenType, Row, Stored
<1>2. ASSUME NEW t \in Tokens, NEW b, NEW line, Issue(t, b, line) PROVE Stored(u)' /\ token'[u].line = token[u].line
  <2>1. u # t
    BY <1>2 DEF Issue, Stored
  <2> QED
    BY <1>0, <1>2, <2>1 DEF Issue, TokenType, Stored
<1>3. CASE UNCHANGED token
  BY <1>3 DEF Stored
<1>4. ASSUME NEW b \in Browsers, SignIn(b) \/ SignOut(b) \/ SignOutAll(b) \/ SignOutOthers(b)
      PROVE  Stored(u)' /\ token'[u].line = token[u].line
  BY <1>1, <1>2, <1>4 DEF SignIn, SignOut, SignOutAll, SignOutOthers
<1>5. CASE (\E t \in Tokens : RevokeSession(t)) \/ RevokeTenant \/ Suspend \/ Reactivate
  BY <1>1, <1>3, <1>5 DEF RevokeSession, RevokeTenant, Suspend, Reactivate
<1>6. ASSUME NEW c \in Tabs, Send(c) \/ Read(c) \/ ReadTenant(c) \/ Answer(c) \/ Lose(c)
      PROVE  Stored(u)' /\ token'[u].line = token[u].line
  BY <1>3, <1>6 DEF Send, Read, ReadTenant, Answer, Lose
<1>7. ASSUME NEW c \in Tabs, End(c) \/ Cascade(c) \/ Mint(c)
      PROVE  Stored(u)' /\ token'[u].line = token[u].line
  BY <1>1, <1>2, <1>3, <1>7 DEF End, Cascade, Mint
<1>8. ASSUME NEW c \in Tabs, Retire(c) \/ Discard(c)
      PROVE  Stored(u)' /\ token'[u].line = token[u].line
  <2>1. call[c].tok \in Tokens /\ call[c].new \in Tokens
    BY <1>0, <1>8 DEF Retire, Discard, At, CallsType, CallTyped
  <2>2. token[u] \in Row /\ token[call[c].tok] \in Row /\ token[call[c].new] \in Row
    BY <1>0, <2>1 DEF TokenType
  <2>3. CASE token' = [token EXCEPT ![call[c].tok].state = "revoked", ![call[c].tok].to = call[c].new]
    <3>1. token' = [token EXCEPT ![call[c].tok] = [token[call[c].tok] EXCEPT !.state = "revoked", !.to = call[c].new]]
      BY <1>0, <2>1, <2>3 DEF TokenType
    <3> QED
      BY <1>0, <2>1, <2>2, <3>1 DEF TokenType, Row, Stored
  <2>4. CASE token' = [token EXCEPT ![call[c].new].state = "deleted"]
    BY <1>0, <2>1, <2>2, <2>4 DEF TokenType, Row, Stored
  <2> QED
    BY <1>3, <1>8, <2>3, <2>4 DEF Retire, Discard
<1> QED
  BY <1>3, <1>4, <1>5, <1>6, <1>7, <1>8 DEF Next, Serve, vars

\* A row is linked only by the refresh that retires it, to the row it stored.
LEMMA LinksReplaced ==
  ASSUME IInv, CascadesOK, [Next]_vars, NEW t \in Tokens, token'[t].to # NoToken
  PROVE  Replaced(t)
<1>0. TokenType /\ CallsType /\ token[t] \in Row
  BY TypeParts DEF IInv, TokenType
<1> SUFFICES ASSUME token[t].to = NoToken PROVE Replaced(t)
  BY DEF CascadesOK
<1>1. ASSUME NEW S, Revoke(S) PROVE FALSE
  BY <1>0, <1>1 DEF Revoke, Row
<1>2. ASSUME NEW u \in Tokens, NEW b, NEW line, Issue(u, b, line) PROVE FALSE
  BY <1>0, <1>2 DEF Issue, TokenType
<1>3. CASE UNCHANGED token
  BY <1>3
<1>4. ASSUME NEW b \in Browsers, SignIn(b) \/ SignOut(b) \/ SignOutAll(b) \/ SignOutOthers(b)
      PROVE  Replaced(t)
  BY <1>1, <1>2, <1>4 DEF SignIn, SignOut, SignOutAll, SignOutOthers
<1>5. CASE (\E u \in Tokens : RevokeSession(u)) \/ RevokeTenant \/ Suspend \/ Reactivate
  BY <1>1, <1>3, <1>5 DEF RevokeSession, RevokeTenant, Suspend, Reactivate
<1>6. ASSUME NEW c \in Tabs, Send(c) \/ Read(c) \/ ReadTenant(c) \/ Answer(c) \/ Lose(c)
      PROVE  Replaced(t)
  BY <1>3, <1>6 DEF Send, Read, ReadTenant, Answer, Lose
<1>7. ASSUME NEW c \in Tabs, End(c) \/ Cascade(c) \/ Mint(c)
      PROVE  Replaced(t)
  BY <1>1, <1>2, <1>3, <1>7 DEF End, Cascade, Mint
<1>8. ASSUME NEW c \in Tabs, Discard(c)
      PROVE  Replaced(t)
  <2>1. call[c].new \in Tokens /\ token[call[c].new] \in Row
    BY <1>0, <1>8 DEF Discard, At, CallsType, CallTyped, TokenType
  <2>2. token'[t].to = token[t].to
    BY <1>0, <1>8, <2>1 DEF Discard, TokenType, Row
  <2> QED
    BY <2>2
<1>9. ASSUME NEW c \in Tabs, Retire(c)
      PROVE  Replaced(t)
  <2> DEFINE k == call[c].tok
  <2> DEFINE n == call[c].new
  <2>1. k \in Tokens /\ n \in Tokens /\ Stored(n) /\ token[n].line = token[k].line \union {k}
    BY <1>0, <1>9 DEF Retire, At, CallsType, CallTyped, IInv, HeldOK, CallOK
  <2>2. CASE t = k
    BY <2>1, <2>2 DEF Replaced
  <2>3. CASE t # k
    <3>1. token' = token \/ token' = [token EXCEPT ![k].state = "revoked", ![k].to = n]
      BY <1>9 DEF Retire
    <3> HIDE DEF k, n
    <3>2. token'[t] = token[t]
      BY <1>0, <2>1, <2>3, <3>1 DEF TokenType
    <3> QED
      BY <3>2
  <2> QED
    BY <2>2, <2>3
<1> QED
  BY <1>3, <1>4, <1>5, <1>6, <1>7, <1>8, <1>9 DEF Next, Serve, vars

\* A refresh comes to the cascade from a rotated token, or from a row of its own
\* it has discarded.
LEMMA CausesKept ==
  ASSUME IInv, CascadesOK, [Next]_vars
  PROVE  /\ \A t \in cascades' : Replaced(t)
         /\ \A d \in Tabs : At(d, "cascade")' => Replaced(call'[d].tok)
<1>0. CallsType /\ TokenType
  BY TypeParts DEF IInv
<1>1. ASSUME UNCHANGED cascades,
             \A d \in Tabs : call'[d] = call[d] \/ ~At(d, "cascade")'
      PROVE  /\ \A t \in cascades' : Replaced(t)
             /\ \A d \in Tabs : At(d, "cascade")' => Replaced(call'[d].tok)
  BY <1>1 DEF CascadesOK, At
<1>2. CASE UNCHANGED <<cascades, call>>
  BY <1>1, <1>2
<1>3. ASSUME NEW c \in Tabs, Over(c) PROVE \A d \in Tabs : call'[d] = call[d] \/ ~At(d, "cascade")'
  BY <1>0, <1>3 DEF Over, Idle, At, CallsType
<1>4. ASSUME NEW c \in Tabs, NEW phase, Goto(c, phase)
      PROVE  \A d \in Tabs : call'[d] = call[d] \/ (d = c /\ call'[d].phase = phase /\ call'[d].tok = call[d].tok)
  BY <1>0, <1>4 DEF Goto, CallsType, CallType
<1>5. ASSUME NEW b \in Browsers, SignIn(b) \/ SignOut(b) \/ SignOutAll(b) \/ SignOutOthers(b)
      PROVE  UNCHANGED <<cascades, call>>
  BY <1>5 DEF SignIn, SignOut, SignOutAll, SignOutOthers
<1>6. CASE (\E u \in Tokens : RevokeSession(u)) \/ RevokeTenant \/ Suspend \/ Reactivate
  BY <1>2, <1>6 DEF RevokeSession, RevokeTenant, Suspend, Reactivate
<1>7. ASSUME NEW c \in Tabs, Send(c)
      PROVE  UNCHANGED cascades /\ \A d \in Tabs : call'[d] = call[d] \/ ~At(d, "cascade")'
  BY <1>0, <1>7 DEF Send, At, CallsType
<1>8. ASSUME NEW c \in Tabs, End(c) \/ Answer(c) \/ Lose(c)
      PROVE  UNCHANGED cascades /\ \A d \in Tabs : call'[d] = call[d] \/ ~At(d, "cascade")'
  BY <1>3, <1>8 DEF End, Answer, Lose
<1>9. ASSUME NEW c \in Tabs, ReadTenant(c) \/ Retire(c)
      PROVE  UNCHANGED cascades /\ \A d \in Tabs : call'[d] = call[d] \/ ~At(d, "cascade")'
  <2>1. UNCHANGED cascades /\ \E phase \in {"mint", "end", "answer", "discard"} : Goto(c, phase)
    BY <1>9 DEF ReadTenant, Retire
  <2> QED
    BY <1>4, <2>1 DEF At
<1>10. ASSUME NEW c \in Tabs, Mint(c)
       PROVE  UNCHANGED cascades /\ \A d \in Tabs : call'[d] = call[d] \/ ~At(d, "cascade")'
  <2>1. UNCHANGED cascades
    BY <1>10 DEF Mint
  <2>2. CASE Over(c)
    BY <1>3, <2>1, <2>2
  <2>3. ASSUME NEW t \in Tokens, call' = [call EXCEPT ![c].phase = "retire", ![c].new = t]
        PROVE  \A d \in Tabs : call'[d] = call[d] \/ ~At(d, "cascade")'
    BY <1>0, <2>3 DEF At, CallsType, CallType
  <2> QED
    BY <1>10, <2>1, <2>2, <2>3 DEF Mint
<1>11. ASSUME NEW c \in Tabs, Read(c)
       PROVE  /\ \A t \in cascades' : Replaced(t)
              /\ \A d \in Tabs : At(d, "cascade")' => Replaced(call'[d].tok)
  <2>0. call[c].tok \in Tokens
    BY <1>0, <1>11, WorkType DEF Read, At
  <2>1. UNCHANGED cascades
    BY <1>11 DEF Read
  <2>2. CASE Over(c)
    BY <1>1, <1>3, <2>1, <2>2
  <2>3. CASE Goto(c, "tenant")
    BY <1>1, <1>4, <2>1, <2>3 DEF At
  <2>4. CASE Goto(c, "cascade") /\ Presented(c).to # NoToken
    <3>1. Replaced(call[c].tok)
      BY <2>0, <2>4 DEF CascadesOK, Presented
    <3> QED
      BY <1>4, <2>1, <2>4, <3>1 DEF CascadesOK, At
  <2> QED
    BY <1>11, <2>2, <2>3, <2>4 DEF Read
<1>12. ASSUME NEW c \in Tabs, Discard(c)
       PROVE  /\ \A t \in cascades' : Replaced(t)
              /\ \A d \in Tabs : At(d, "cascade")' => Replaced(call'[d].tok)
  <2>1. call[c].new \in Tokens /\ Stored(call[c].new) /\ call[c].tok \in token[call[c].new].line
    BY <1>0, <1>12 DEF Discard, At, CallsType, CallTyped, IInv, HeldOK, CallOK
  <2>2. Replaced(call[c].tok)
    BY <2>1 DEF Replaced
  <2>3. UNCHANGED cascades /\ Goto(c, "cascade")
    BY <1>12 DEF Discard
  <2> QED
    BY <1>4, <2>2, <2>3 DEF CascadesOK, At
<1>13. ASSUME NEW c \in Tabs, Cascade(c)
       PROVE  /\ \A t \in cascades' : Replaced(t)
              /\ \A d \in Tabs : At(d, "cascade")' => Replaced(call'[d].tok)
  <2>1. cascades' = cascades \union {call[c].tok} /\ Over(c) /\ At(c, "cascade")
    BY <1>13 DEF Cascade
  <2>2. \A t \in cascades' : Replaced(t)
    BY <2>1 DEF CascadesOK
  <2>3. \A d \in Tabs : call'[d] = call[d] \/ ~At(d, "cascade")'
    BY <1>3, <2>1
  <2> QED
    BY <2>2, <2>3 DEF CascadesOK, At
<1> QED
  BY <1>1, <1>2, <1>5, <1>6, <1>7, <1>8, <1>9, <1>10, <1>11, <1>12, <1>13 DEF Next, Serve, vars

\* The person is signed out everywhere only where the token presented had been
\* replaced by another: not for a token that was merely signed out.
THEOREM CascadesHaveACause == Spec => []CascadesAreExplained
<1>1. Init => CascadesOK
  BY DEF Init, CascadesOK, At, Idle, Unused
<1>2. IInv /\ CascadesOK /\ [Next]_vars => CascadesOK'
  <2> SUFFICES ASSUME IInv, CascadesOK, [Next]_vars PROVE CascadesOK'
    OBVIOUS
  <2>1. ASSUME NEW t, Replaced(t) PROVE Replaced(t)'
    BY <2>1, RowsStay DEF Replaced
  <2>2. \A t \in cascades' : Replaced(t)
    BY CausesKept
  <2>3. \A d \in Tabs : At(d, "cascade")' => Replaced(call'[d].tok)
    BY CausesKept
  <2>4. \A t \in Tokens : token'[t].to # NoToken => Replaced(t)
    BY LinksReplaced
  <2> QED
    BY <2>1, <2>2, <2>3, <2>4 DEF CascadesOK
<1>3. CascadesOK => CascadesAreExplained
  BY DEF CascadesOK, Replaced, CascadesAreExplained
<1> QED
  BY <1>1, <1>2, <1>3, Inductive, PTL DEF Spec
=============================================================================
