------------------------------ MODULE Sessions ------------------------------
(***************************************************************************)
(* One person's sessions: chains of refresh tokens, their rotation by the  *)
(* tabs of several browsers, the reuse cascade, and everything that signs  *)
(* somebody out (the auth service, and the suspension of a workspace).     *)
(* Every statement of the service commits by itself.                       *)
(***************************************************************************)
EXTENDS Integers, FiniteSets

CONSTANTS
    Tabs,       \* open tabs; each refreshes its session on a timer, one call at a time
    Browsers,   \* browsers: one cookie jar, one device id each
    BrowserOf,  \* the browser of each tab
    MaxTokens,  \* refresh tokens issued in a behaviour (bound)
    MaxFaults   \* lost answers and crashes in a behaviour (bound)

Tokens == 1..MaxTokens
NoToken == 0

ASSUME SessionsAssumption ==
    /\ Browsers # {}
    /\ BrowserOf \in [Tabs -> Browsers]
    /\ MaxTokens \in Nat
    /\ MaxFaults \in Nat

VARIABLES
    token,      \* the table refresh_tokens
    jar,        \* the refresh cookie of each browser
    call,       \* the refresh each tab has under way
    suspension, \* of the workspace: "no", "marked" (status written) or "done" (sessions revoked)
    faults,     \* lost answers and crashes so far
    answered,   \* history: tokens a refresh was answered with
    ended,      \* history: tokens revoked while they were live, rotation aside
    cascades    \* history: the tokens whose refresh revoked everything

vars == <<token, jar, call, suspension, faults, answered, ended, cascades>>

\* A row: rotated_to is `to`; `line` are the tokens it descends from.
Unused == [state |-> "none", to |-> NoToken, browser |-> CHOOSE b \in Browsers : TRUE, line |-> {}]
Idle == [phase |-> "idle", tok |-> NoToken, new |-> NoToken]

Init ==
    /\ token = [t \in Tokens |-> Unused]
    /\ jar = [b \in Browsers |-> NoToken]
    /\ call = [c \in Tabs |-> Idle]
    /\ suspension = "no"
    /\ faults = 0
    /\ answered = {}
    /\ ended = {}
    /\ cascades = {}

Live == {t \in Tokens : token[t].state = "live"}
Presented(c) == token[call[c].tok]
At(c, phase) == call[c].phase = phase

\* issueTokenPair: a new live row.
Issue(t, b, line) ==
    /\ token[t].state = "none"
    /\ \A u \in Tokens : u < t => token[u].state # "none"
    /\ token' = [token EXCEPT ![t] =
                    [state |-> "live", to |-> NoToken, browser |-> b, line |-> line]]

\* UPDATE refresh_tokens SET revoked_at = now() on the rows S.
Revoke(S) ==
    /\ token' = [t \in Tokens |-> IF t \in S /\ token[t].state = "live"
                                  THEN [token[t] EXCEPT !.state = "revoked"] ELSE token[t]]
    /\ ended' = ended \union (S \intersect Live)

-----------------------------------------------------------------------------
(* Signing in and out. *)

\* A completed login, by somebody who is not signed in here any more; a suspended workspace is skipped at login.
SignIn(b) ==
    /\ jar[b] \notin Live
    /\ suspension = "no"
    /\ \E t \in Tokens :
        /\ Issue(t, b, {})
        /\ jar' = [jar EXCEPT ![b] = t]
    /\ UNCHANGED <<call, suspension, faults, answered, ended, cascades>>

\* logout: the row of the cookie is revoked, then the cookie is cleared.
SignOut(b) ==
    /\ jar[b] # NoToken
    /\ Revoke({jar[b]})
    /\ jar' = [jar EXCEPT ![b] = NoToken]
    /\ UNCHANGED <<call, suspension, faults, answered, cascades>>

\* logoutAll, and revokeAllSessions for an administrator.
SignOutAll(b) ==
    /\ jar[b] # NoToken
    /\ Revoke(Live)
    /\ jar' = [jar EXCEPT ![b] = NoToken]
    /\ UNCHANGED <<call, suspension, faults, answered, cascades>>

\* logoutOthers: rows of this device and the row of its cookie stay.
SignOutOthers(b) ==
    /\ jar[b] # NoToken
    /\ Revoke({t \in Live : token[t].browser # b /\ t # jar[b]})
    /\ UNCHANGED <<jar, call, suspension, faults, answered, cascades>>

\* revokeSession: one row of the list of sessions.
RevokeSession(t) ==
    /\ t \in Live
    /\ Revoke({t})
    /\ UNCHANGED <<jar, call, suspension, faults, answered, cascades>>

\* suspendTenant: first the status ...
Suspend ==
    /\ suspension = "no"
    /\ suspension' = "marked"
    /\ UNCHANGED <<token, jar, call, faults, answered, ended, cascades>>

\* ... then the sessions, unless that fails, which is only logged.
RevokeTenant ==
    /\ suspension = "marked"
    /\ \/ Revoke(Live)
       \/ UNCHANGED <<token, ended>>
    /\ suspension' = "done"
    /\ UNCHANGED <<jar, call, faults, answered, cascades>>

Reactivate ==
    /\ suspension = "done"
    /\ suspension' = "no"
    /\ UNCHANGED <<token, jar, call, faults, answered, ended, cascades>>

-----------------------------------------------------------------------------
(* refreshToken.  The phase of a call names the statement it does next.    *)

Goto(c, phase) == call' = [call EXCEPT ![c].phase = phase]
Over(c) == call' = [call EXCEPT ![c] = Idle]

\* silentRefresh: one request per tab, with the cookie the browser has now.
Send(c) ==
    /\ At(c, "idle")
    /\ jar[BrowserOf[c]] # NoToken
    /\ call' = [call EXCEPT ![c] = [phase |-> "read", tok |-> jar[BrowserOf[c]], new |-> NoToken]]
    /\ UNCHANGED <<token, jar, suspension, faults, answered, ended, cascades>>

\* Fault: any revoked token counts as a replay.
ReadAlarmed(c) ==
    /\ At(c, "read")
    /\ \/ Presented(c).state = "live" /\ Goto(c, "tenant")
       \/ Presented(c).state = "revoked" /\ Goto(c, "cascade")
       \/ Presented(c).state = "deleted" /\ Over(c)
    /\ UNCHANGED <<token, jar, suspension, faults, answered, ended, cascades>>

\* Unknown and merely revoked tokens are refused; a rotated one is a replay.
Read(c) ==
    /\ At(c, "read")
    /\ \/ Presented(c).state = "live" /\ Goto(c, "tenant")
       \/ Presented(c).state = "revoked" /\ Presented(c).to # NoToken /\ Goto(c, "cascade")
       \/ Presented(c).state = "revoked" /\ Presented(c).to = NoToken /\ Over(c)
       \/ Presented(c).state = "deleted" /\ Over(c)
    /\ UNCHANGED <<token, jar, suspension, faults, answered, ended, cascades>>

\* Fault: the status of the workspace is not looked at.
ReadTenantNot(c) ==
    /\ At(c, "tenant")
    /\ Goto(c, "mint")
    /\ UNCHANGED <<token, jar, suspension, faults, answered, ended, cascades>>

\* The workspace's status is read.
ReadTenant(c) ==
    /\ At(c, "tenant")
    /\ Goto(c, IF suspension = "no" THEN "mint" ELSE "end")
    /\ UNCHANGED <<token, jar, suspension, faults, answered, ended, cascades>>

\* The token of a suspended workspace is retired.
End(c) ==
    /\ At(c, "end")
    /\ Revoke({call[c].tok})
    /\ Over(c)
    /\ UNCHANGED <<jar, suspension, faults, answered, cascades>>

\* Fault: the row just stored is not looked up.
MintUnlinked(c) ==
    /\ At(c, "mint")
    /\ \E t \in Tokens : Issue(t, Presented(c).browser, Presented(c).line \union {call[c].tok})
    /\ Goto(c, "retire")
    /\ UNCHANGED <<jar, suspension, faults, answered, ended, cascades>>

\* The new pair is stored; without a token left (bound) the call gives up.
Mint(c) ==
    /\ At(c, "mint")
    /\ \/ \E t \in Tokens :
            /\ Issue(t, Presented(c).browser, Presented(c).line \union {call[c].tok})
            /\ call' = [call EXCEPT ![c].phase = "retire", ![c].new = t]
       \/ /\ \A t \in Tokens : token[t].state # "none"
          /\ Over(c)
          /\ UNCHANGED token
    /\ UNCHANGED <<jar, suspension, faults, answered, ended, cascades>>

\* Fault: the old row is retired whoever retired it before.
RetireAnyway(c) ==
    /\ At(c, "retire")
    /\ token' = [token EXCEPT ![call[c].tok].state = "revoked", ![call[c].tok].to = call[c].new]
    /\ answered' = answered \union {call[c].new}
    /\ Goto(c, "answer")
    /\ UNCHANGED <<jar, suspension, faults, ended, cascades>>

\* The old row is retired and linked if it is still live; otherwise the new
\* pair is to be discarded.
Retire(c) ==
    /\ At(c, "retire")
    /\ \/ /\ Presented(c).state = "live"
          /\ token' = [token EXCEPT ![call[c].tok].state = "revoked", ![call[c].tok].to = call[c].new]
          /\ answered' = answered \union {call[c].new}
          /\ Goto(c, "answer")
       \/ /\ Presented(c).state # "live"
          /\ Goto(c, "discard")
          /\ UNCHANGED <<token, answered>>
    /\ UNCHANGED <<jar, suspension, faults, ended, cascades>>

Discard(c) ==
    /\ At(c, "discard")
    /\ token' = [token EXCEPT ![call[c].new].state = "deleted"]
    /\ Goto(c, "cascade")
    /\ UNCHANGED <<jar, suspension, faults, answered, ended, cascades>>

\* Two parties hold one token: every row of the user is revoked.
Cascade(c) ==
    /\ At(c, "cascade")
    /\ Revoke(Tokens)
    /\ cascades' = cascades \union {call[c].tok}
    /\ Over(c)
    /\ UNCHANGED <<jar, suspension, faults, answered>>

\* The answer sets the cookie.
Answer(c) ==
    /\ At(c, "answer")
    /\ jar' = [jar EXCEPT ![BrowserOf[c]] = call[c].new]
    /\ Over(c)
    /\ UNCHANGED <<token, suspension, faults, answered, ended, cascades>>

\* The answer is lost, or the API dies under the call.
Lose(c) ==
    /\ ~At(c, "idle")
    /\ faults < MaxFaults
    /\ faults' = faults + 1
    /\ Over(c)
    /\ UNCHANGED <<token, jar, suspension, answered, ended, cascades>>

-----------------------------------------------------------------------------
Serve(c) ==
    \/ Read(c) \/ ReadTenant(c) \/ End(c) \/ Mint(c) \/ Retire(c)
    \/ Discard(c) \/ Cascade(c) \/ Answer(c)

Next ==
    \/ \E b \in Browsers : SignIn(b) \/ SignOut(b) \/ SignOutAll(b) \/ SignOutOthers(b)
    \/ \E t \in Tokens : RevokeSession(t)
    \/ Suspend \/ RevokeTenant \/ Reactivate
    \/ \E c \in Tabs : Send(c) \/ Serve(c) \/ Lose(c)

Spec == Init /\ [][Next]_vars

\* The API serves its calls, and an open tab refreshes on its timer.
Fairness == \A c \in Tabs : WF_vars(Send(c)) /\ WF_vars(Serve(c))

FairSpec == Spec /\ Fairness

-----------------------------------------------------------------------------
(* Properties. *)

Steps == {"idle", "read", "tenant", "end", "mint", "retire", "discard", "cascade", "answer"}

Row == [state : {"none", "live", "revoked", "deleted"}, to : Tokens \union {NoToken},
        browser : Browsers, line : SUBSET Tokens]

\* The type invariant.
TypeOK ==
    /\ token \in [Tokens -> Row]
    /\ jar \in [Browsers -> Tokens \union {NoToken}]
    /\ call \in [Tabs -> [phase : Steps, tok : Tokens \union {NoToken}, new : Tokens \union {NoToken}]]
    /\ \A c \in Tabs :
        /\ call[c].phase # "idle" => call[c].tok \in Tokens
        /\ call[c].phase \in {"retire", "discard", "answer"} => call[c].new \in Tokens
    /\ suspension \in {"no", "marked", "done"}
    /\ faults \in 0..MaxFaults
    /\ answered \subseteq Tokens /\ ended \subseteq Tokens /\ cascades \subseteq Tokens

Successors(t) == {u \in answered : t \in token[u].line /\ token[u].line \ token[t].line = {t}}

\* No token is ever exchanged for two: not by two tabs, not by a retry after a
\* lost answer ("no window in which two live chains exist", auth.service.ts:988).
OneSuccessor == \A t \in Tokens : Cardinality(Successors(t)) <= 1

\* Once a sign-out, a revocation, a suspension or a cascade has hit a live
\* token, no token a browser was given in its place is live, though refreshes
\* of it were under way (refreshToken, auth.service.ts:985-1012).
SignedOutStaysOut ==
    \A u \in answered \intersect Live : (token[u].line \union {u}) \intersect ended = {}

\* Everything is revoked only where a row was stored in the place of the token
\* presented, so that two parties may hold it: a replay of a rotated token, or a
\* refresh that lost its token to a revocation.  A token that was signed out
\* never signs the person's other devices out, however often it is presented
\* (auth.service.ts:832-838).
CascadesAreExplained ==
    \A t \in cascades : \E u \in Tokens : t \in token[u].line

\* A suspended workspace's sessions end in every browser with an open tab, even
\* if revoking them failed, unless the workspace is reactivated (auth.service.ts:916-932).
SuspensionEndsSessions ==
    \A b \in Browsers :
        suspension # "no" /\ (\E c \in Tabs : BrowserOf[c] = b)
            ~> suspension = "no" \/ jar[b] \notin Live

=============================================================================
