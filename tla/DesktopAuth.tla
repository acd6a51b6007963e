----------------------------- MODULE DesktopAuth -----------------------------
(***************************************************************************)
(* One desktop sign-in (src/auth/auth.service.ts): a code that is          *)
(* exchanged for a refresh token, tokens that replace one another, and the *)
(* end of the session.                                                     *)
(*                                                                         *)
(* An exchange and a refresh look at the row, then lock it and look again; *)
(* what they do under the lock is one step, for nobody can write the row   *)
(* meanwhile.  A revocation, and a token that comes back after it was      *)
(* replaced, save the entity they loaded without a lock: the columns that  *)
(* differ from the row are put back with it.                               *)
(***************************************************************************)
EXTENDS Naturals

CONSTANTS
  Client,   \* concurrent calls
  MaxTokens \* bound: refresh tokens ever made; token 0 is the code

VARIABLES
  row,     \* desktop_auth_sessions
  issued,  \* tokens made
  stale,   \* tokens, and the code, that are out of time
  pc,      \* a call: where it is,
  token,   \* the token it presents,
  ent,     \* its entity
  dirty,   \* and the columns its save is about to write
  spent    \* how often a token was exchanged for another

vars == <<row, issued, stale, pc, token, ent, dirty, spent>>

Token == 0 .. MaxTokens

\* authorizeDesktop
NewSession == [used |-> FALSE, current |-> 0, previous |-> 0, until |-> 0, revoked |-> FALSE]

Init ==
  /\ row = NewSession
  /\ issued = 0
  /\ stale = {}
  /\ pc = [c \in Client |-> "idle"]
  /\ token = [c \in Client |-> 0]
  /\ ent = [c \in Client |-> NewSession]
  /\ dirty = [c \in Client |-> {}]
  /\ spent = [t \in Token |-> 0]

-----------------------------------------------------------------------------
inspectCode(r) == IF r.used THEN "reused" ELSE IF 0 \in stale THEN "expired" ELSE "ok"

\* Mutant: a session that was ended is looked at like any other.
InspectWithoutRevocation(r, t) ==
  IF r.current # t THEN IF r.previous = t THEN "reused" ELSE "mismatch"
  ELSE IF r.until \in stale THEN "expired" ELSE "ok"

inspectRefresh(r, t) ==
  IF r.revoked THEN "revoked"
  ELSE IF r.current # t THEN IF r.previous = t THEN "reused" ELSE "mismatch"
  ELSE IF r.until \in stale THEN "expired" ELSE "ok"

Goto(c, to) == pc' = [pc EXCEPT ![c] = to]

Return(c) ==
  /\ Goto(c, "idle")
  /\ token' = [token EXCEPT ![c] = 0]
  /\ ent' = [ent EXCEPT ![c] = NewSession]
  /\ dirty' = [dirty EXCEPT ![c] = {}]

Spend(t) == spent' = [spent EXCEPT ![t] = @ + 1]

\* The entity is on its way to a save without a lock.
End(c, t) ==
  /\ ent' = [ent EXCEPT ![c] = [row EXCEPT !.revoked = TRUE]]
  /\ token' = [token EXCEPT ![c] = t]
  /\ Goto(c, "diff")

-----------------------------------------------------------------------------
(* exchangeDesktopCode                                                     *)

FindCode(c) ==
  /\ pc[c] = "idle"
  /\ inspectCode(row) = "ok"
  /\ Goto(c, "exchange")
  /\ UNCHANGED <<row, issued, stale, token, ent, dirty, spent>>

ExchangeCode(c) ==
  /\ pc[c] = "exchange"
  /\ issued < MaxTokens
  /\ IF inspectCode(row) = "ok"
     THEN /\ issued' = issued + 1
          /\ row' = [row EXCEPT !.used = TRUE, !.current = issued', !.previous = 0, !.until = issued']
          /\ Spend(0)
     ELSE UNCHANGED <<row, issued, spent>>
  /\ Return(c)
  /\ UNCHANGED stale

-----------------------------------------------------------------------------
(* refreshDesktop and revokeDesktop                                        *)

Found(t) == t \in 1 .. issued /\ t \in {row.current, row.previous}

FindToken(c, t) ==
  /\ pc[c] = "idle"
  /\ Found(t)
  /\ \/ /\ inspectRefresh(row, t) = "ok"
        /\ token' = [token EXCEPT ![c] = t]
        /\ Goto(c, "refresh")
        /\ UNCHANGED ent
     \/ inspectRefresh(row, t) = "reused" /\ End(c, t)
  /\ UNCHANGED <<row, issued, stale, dirty, spent>>

\* Mutant: the first look is enough.
FirstLook(c) == TRUE

\* The second look, on the locked row.  The revocation which it saves when the
\* token has been replaced meanwhile is rolled back by the error that follows.
SecondLook(c) == inspectRefresh(row, token[c]) = "ok"

RotateToken(c) ==
  /\ pc[c] = "refresh"
  /\ issued < MaxTokens
  /\ IF SecondLook(c)
     THEN /\ issued' = issued + 1
          /\ row' = [row EXCEPT !.previous = row.current, !.current = issued', !.until = issued']
          /\ Spend(token[c])
     ELSE UNCHANGED <<row, issued, spent>>
  /\ Return(c)
  /\ UNCHANGED stale

revokeDesktop(c, t) ==
  /\ pc[c] = "idle"
  /\ Found(t)
  /\ ~row.revoked
  /\ End(c, t)
  /\ UNCHANGED <<row, issued, stale, dirty, spent>>

SaveDiff(c) ==
  /\ pc[c] = "diff"
  /\ dirty' = [dirty EXCEPT ![c] = { f \in DOMAIN row : ent[c][f] # row[f] }]
  /\ Goto(c, "write")
  /\ UNCHANGED <<row, issued, stale, token, ent, spent>>

SaveWrite(c) ==
  /\ pc[c] = "write"
  /\ row' = [f \in DOMAIN row |-> IF f \in dirty[c] THEN ent[c][f] ELSE row[f]]
  /\ Return(c)
  /\ UNCHANGED <<issued, stale, spent>>

Expire(t) ==
  /\ t \in (0 .. issued) \ stale
  /\ stale' = stale \cup {t}
  /\ UNCHANGED <<row, issued, pc, token, ent, dirty, spent>>

Next ==
  \/ \E c \in Client :
       \/ FindCode(c) \/ ExchangeCode(c) \/ RotateToken(c) \/ SaveDiff(c) \/ SaveWrite(c)
       \/ \E t \in Token : FindToken(c, t) \/ revokeDesktop(c, t)
  \/ \E t \in Token : Expire(t)

Spec == Init /\ [][Next]_vars
-----------------------------------------------------------------------------
(* Properties                                                              *)

\* The code and each refresh token is exchanged at most once, although calls
\* with the same token overlap and a late save puts an old token back.
SpentOnce == \A t \in Token : spent[t] <= 1

\* The end of a session is final: no save lifts it and no token is made after
\* it, whatever the calls that were under way had found.
StaysEnded == row.revoked => row'.revoked /\ issued' = issued
RevocationFinal == [][StaysEnded]_vars
=============================================================================
